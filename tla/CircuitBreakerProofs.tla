------------------------ MODULE CircuitBreakerProofs ------------------------
(***************************************************************************)
(* Proofs about the circuit breaker: its invariant, the bound on probes    *)
(* when an operation is over before the circuit may become half-open, and  *)
(* what trips it.                                                          *)
(***************************************************************************)
EXTENDS CircuitBreaker, FiniteSetTheorems, TLAPS

\* The limit of the gate is a positive number.
LEMMA LimitType == ProbeLimit \in Nat \ {0}
  BY OptionsAssumption DEF ProbeLimit

\* A set of calls has a cardinality.
LEMMA CallsFinite ==
  ASSUME NEW S \in SUBSET Call
  PROVE  IsFiniteSet(S) /\ Cardinality(S) \in Nat
  BY CallAssumption, FS_Subset, FS_CardinalityType

\* The empty set has no members to count.
LEMMA EmptyCount == Cardinality({}) = 0
  BY FS_EmptySet

\* A circuit that opens or closes forgets its probes.
LEMMA NoProbes ==
  ASSUME state' \in {"open", "closed"}, halfOpenProbes' = 0, probes' = {}
  PROVE  CountIsProbes'
  BY EmptyCount DEF CountIsProbes

\* The invariant holds at first.
LEMMA InvInit == Init => BreakerInv
  <1> SUFFICES ASSUME Init PROVE BreakerInv
    OBVIOUS
  <1>1. TypeOK
    BY OptionsAssumption, LimitType DEF Init, TypeOK, State, Stage
  <1>2. CountIsProbes
    BY EmptyCount DEF Init, CountIsProbes
  <1>3. OldCallsAreOld /\ FailuresAreConsecutive
    BY OptionsAssumption DEF Init, OldCallsAreOld, FailuresAreConsecutive
  <1> QED
    BY <1>1, <1>2, <1>3 DEF BreakerInv

\* It is kept when the gate admits a call, or opens the half-open phase with it.
LEMMA ExecuteStep ==
  ASSUME BreakerInv, NEW c \in Call, Execute(c)
  PROVE  BreakerInv'
  <1> USE DEF BreakerInv
  <1>1. TypeOK'
    BY OptionsAssumption, LimitType
    DEF Execute, Admits, Checked, TypeOK, State, Stage, CountIsProbes
  <1>2. c \notin probes
    BY DEF Execute, CountIsProbes, Running, Settled
  <1>3. Running' = Running \union {c} /\ Settled' = Settled
    BY DEF Execute, TypeOK, Running, Settled
  <1>4. Cardinality(probes \union {c}) = Cardinality(probes) + 1
    BY <1>2, CallsFinite, FS_AddElement DEF TypeOK
  <1>5. CountIsProbes'
    BY <1>3, <1>4 DEF Execute, CountIsProbes, Checked, TypeOK, State
  <1>6. OldCallsAreOld'
    BY <1>3, OptionsAssumption
    DEF Execute, Admits, Checked, ShouldAttemptReset, OldCallsAreOld, TypeOK, State
  <1>7. FailuresAreConsecutive'
    BY DEF Execute, Checked, FailuresAreConsecutive
  <1> QED
    BY <1>1, <1>5, <1>6, <1>7

\* It is kept when a running operation settles, by an answer, a failure or the timer.
LEMMA SettleStep ==
  ASSUME BreakerInv, NEW c \in Call, NEW stage \in {"resolved", "rejected"}, Settle(c, stage)
  PROVE  BreakerInv'
  <1> USE DEF BreakerInv
  <1>1. TypeOK'
    BY OptionsAssumption DEF Settle, circuit, TypeOK, Stage
  <1>2. Running' = Running \ {c} /\ Settled' = Settled \union {c}
    BY DEF Settle, TypeOK, Running, Settled
  <1>3. CountIsProbes'
    BY <1>2 DEF Settle, circuit, CountIsProbes
  <1>4. OldCallsAreOld'
    BY <1>2 DEF Settle, circuit, OldCallsAreOld, TypeOK, Running
  <1>5. FailuresAreConsecutive'
    BY DEF Settle, circuit, FailuresAreConsecutive
  <1> QED
    BY <1>1, <1>3, <1>4, <1>5

\* The end of a call that is no probe of the present half-open phase, or that
\* ends the phase.
LEMMA HandledStep ==
  ASSUME BreakerInv, NEW c \in Settled, Handled(c)
  PROVE  /\ Running' = Running /\ Settled' = Settled \ {c}
         /\ elapsed' = elapsed /\ up' = up /\ outages' = outages
         /\ pc' \in [Call -> Stage]
  BY DEF BreakerInv, TypeOK, Handled, Running, Settled, Stage

\* It is kept by the handler of a success, which may close the circuit.
LEMMA SuccessStep ==
  ASSUME BreakerInv, NEW c \in Call, OnSuccess(c)
  PROVE  BreakerInv'
  <1> USE DEF BreakerInv
  <1>1. c \in Settled /\ Handled(c)
    BY DEF OnSuccess, Settled
  <1>2. TypeOK'
    BY <1>1, HandledStep, OptionsAssumption, LimitType
    DEF OnSuccess, Reset, circuit, TypeOK, State
  <1>3. CountIsProbes'
    <2>1. CASE state = "half-open"
      BY <2>1, NoProbes DEF OnSuccess, Reset
    <2>2. CASE state # "half-open"
      BY <1>1, <2>2, HandledStep DEF OnSuccess, circuit, CountIsProbes
    <2> QED
      BY <2>1, <2>2
  <1>4. OldCallsAreOld'
    BY <1>1, HandledStep DEF OnSuccess, Reset, circuit, OldCallsAreOld
  <1>5. FailuresAreConsecutive'
    BY OptionsAssumption DEF OnSuccess, Reset, circuit, FailuresAreConsecutive
  <1> QED
    BY <1>2, <1>3, <1>4, <1>5

\* It is kept by the handler of a failure, which may open the circuit.
LEMMA FailureStep ==
  ASSUME BreakerInv, NEW c \in Call, OnFailure(c)
  PROVE  BreakerInv'
  <1> USE DEF BreakerInv
  <1>1. c \in Settled /\ Handled(c)
    BY DEF OnFailure, Settled
  <1>2. TypeOK'
    BY <1>1, HandledStep, OptionsAssumption, LimitType
    DEF OnFailure, OpenCircuit, UpTo, TypeOK, State
  <1>3. CountIsProbes'
    <2>1. CASE state' = "open" /\ halfOpenProbes' = 0 /\ probes' = {}
      BY <2>1, NoProbes
    <2>2. CASE state # "half-open" /\ UNCHANGED <<state, halfOpenProbes, sinceOpen, probes>>
      BY <1>1, <2>2, HandledStep DEF CountIsProbes
    <2> QED
      BY <2>1, <2>2 DEF OnFailure, OpenCircuit
  <1>4. OldCallsAreOld'
    <2>1. CASE state' = "open" /\ sinceOpen' = 0
      BY <1>1, <2>1, HandledStep, OptionsAssumption DEF OldCallsAreOld, TypeOK, Running
    <2>2. CASE UNCHANGED <<state, halfOpenProbes, sinceOpen, probes>>
      BY <1>1, <2>2, HandledStep DEF OldCallsAreOld
    <2> QED
      BY <2>1, <2>2 DEF OnFailure, OpenCircuit
  <1>5. FailuresAreConsecutive'
    BY OptionsAssumption DEF OnFailure, OpenCircuit, UpTo, FailuresAreConsecutive, TypeOK
  <1> QED
    BY <1>2, <1>3, <1>4, <1>5

\* It is kept when time passes: what is older than the opening stays older.
LEMMA TickStep ==
  ASSUME BreakerInv, Tick
  PROVE  BreakerInv'
  <1> USE DEF BreakerInv
  <1>1. Running' = Running /\ Settled' = Settled
    BY DEF Tick, Running, Settled
  <1>2. elapsed' \in [Call -> 0..OperationTimeout + TimerLag]
    <2> SUFFICES ASSUME NEW c \in Call
                 PROVE  /\ elapsed'[c] \in 0..OperationTimeout + TimerLag
      BY DEF Tick
    <2>1. elapsed[c] \in 0..OperationTimeout + TimerLag
      BY DEF TypeOK
    <2>2. CASE c \in Running
      BY <2>1, <2>2, OptionsAssumption DEF Tick, Patience
    <2>3. CASE c \notin Running
      BY <2>1, <2>3 DEF Tick
    <2> QED
      BY <2>2, <2>3
  <1>3. TypeOK'
    BY <1>2, OptionsAssumption DEF Tick, UpTo, TypeOK
  <1>4. CountIsProbes'
    BY <1>1 DEF Tick, CountIsProbes
  <1>5. OldCallsAreOld'
    BY <1>1, OptionsAssumption DEF Tick, UpTo, OldCallsAreOld, TypeOK, Running
  <1>6. FailuresAreConsecutive'
    BY DEF Tick, FailuresAreConsecutive
  <1> QED
    BY <1>3, <1>4, <1>5, <1>6

\* It is kept by the public methods and by nodes that fail or recover.
LEMMA OtherStep ==
  ASSUME BreakerInv, ManualReset \/ IsOperationAllowed \/ GoDown \/ ComeUp \/ UNCHANGED vars
  PROVE  BreakerInv'
  <1> USE DEF BreakerInv
  <1>1. Running' = Running /\ Settled' = Settled /\ pc' = pc /\ elapsed' = elapsed
    BY DEF ManualReset, IsOperationAllowed, GoDown, ComeUp, vars, Running, Settled
  <1>2. CASE ManualReset
    BY <1>1, <1>2, NoProbes, OptionsAssumption, LimitType
    DEF ManualReset, Reset, TypeOK, State, OldCallsAreOld, FailuresAreConsecutive
  <1>3. CASE IsOperationAllowed
    <2>1. state = "open" /\ state' = "half-open" /\ sinceOpen = ResetTimeout
      BY <1>3, OptionsAssumption DEF IsOperationAllowed, Checked, ShouldAttemptReset, TypeOK
    <2> QED
      BY <1>1, <1>3, <2>1
      DEF IsOperationAllowed, TypeOK, State, CountIsProbes, OldCallsAreOld,
          FailuresAreConsecutive
  <1>4. CASE GoDown \/ ComeUp \/ UNCHANGED vars
    <2>1. UNCHANGED <<circuit, streak>>
      BY <1>4 DEF GoDown, ComeUp, vars
    <2>2. outages' \in 0..MaxOutages
      BY <1>4, OptionsAssumption DEF GoDown, ComeUp, vars, TypeOK
    <2>3. up' \in BOOLEAN
      BY <1>4, Zenon DEF GoDown, ComeUp, vars, TypeOK
    <2>5. TypeOK'
      BY <1>1, <2>1, <2>2, <2>3 DEF circuit, TypeOK
    <2>4. CountIsProbes' /\ OldCallsAreOld' /\ FailuresAreConsecutive'
      BY <1>1, <2>1 DEF circuit, CountIsProbes, OldCallsAreOld, FailuresAreConsecutive
    <2> QED
      BY <2>4, <2>5
  <1> QED
    BY <1>2, <1>3, <1>4

\* Every step keeps the invariant.
LEMMA InvNext == BreakerInv /\ [Next]_vars => BreakerInv'
  <1> SUFFICES ASSUME BreakerInv, [Next]_vars PROVE BreakerInv'
    OBVIOUS
  <1>1. ASSUME NEW c \in Call, Answer(c) \/ Fail(c) \/ Timeout(c) PROVE BreakerInv'
    BY <1>1, SettleStep DEF Answer, Fail, Timeout
  <1> QED
    BY <1>1, ExecuteStep, SuccessStep, FailureStep, TickStep, OtherStep DEF Next

\* The counter of probes counts the operations that may still end the half-open
\* phase, and everything else that runs is as old as the opening of the circuit.
THEOREM BreakerInvariance == Spec => []BreakerInv
  BY InvInit, InvNext, PTL DEF Spec

\* Every variable of the breaker keeps its type, the counters within their bounds.
THEOREM BreakerTypes == Spec => []TypeOK
  <1>1. BreakerInv => TypeOK
    BY DEF BreakerInv
  <1> QED
    BY <1>1, BreakerInvariance, PTL

\* A half-open circuit always waits for the probes it has counted (halfOpenProbes).
THEOREM Pending == Spec => []ProbesPending
  <1>1. BreakerInv => ProbesPending
    <2> SUFFICES ASSUME BreakerInv PROVE halfOpenProbes <= Cardinality(Running \union Settled)
      BY DEF ProbesPending
    <2>1. (Running \union Settled) \in SUBSET Call
      BY DEF Running, Settled
    <2>2. Cardinality(probes) <= Cardinality(Running \union Settled)
      BY <2>1, CallsFinite, FS_Subset DEF BreakerInv, CountIsProbes
    <2> QED
      BY <2>2 DEF BreakerInv, CountIsProbes
  <1> QED
    BY <1>1, BreakerInvariance, PTL

\* When every operation is over before resetTimeout has passed, late timers
\* included, the bound on the operations in flight of a half-open circuit is kept.
THEOREM Bounded ==
  ASSUME OperationTimeout + TimerLag < ResetTimeout
  PROVE  Spec => []ProbesBounded
  <1>1. BreakerInv => ProbesBounded
    <2> SUFFICES ASSUME BreakerInv, state = "half-open"
                 PROVE  Cardinality(Running) <= ProbeLimit
      BY DEF ProbesBounded
    <2>1. Running \subseteq probes
      <3> SUFFICES ASSUME NEW c \in Running, c \notin probes PROVE FALSE
        OBVIOUS
      <3>1. elapsed[c] \in 0..OperationTimeout + TimerLag /\ ResetTimeout <= elapsed[c]
        BY DEF BreakerInv, TypeOK, OldCallsAreOld, Running
      <3> QED
        BY <3>1, OptionsAssumption
    <2>2. Cardinality(Running) <= Cardinality(probes) /\ Cardinality(Running) \in Nat
      BY <2>1, CallsFinite, FS_Subset DEF BreakerInv, TypeOK, Running
    <2> QED
      BY <2>2, LimitType DEF BreakerInv, TypeOK, CountIsProbes
  <1> QED
    BY <1>1, BreakerInvariance, PTL

\* A closed circuit opens only when as many failures as the threshold have been
\* handled with no success or manual reset in between (onSuccess, onFailure, reset).
THEOREM Trips == Spec => TripsOnConsecutiveFailures
  <1>1. BreakerInv /\ [Next]_vars
        => [state = "closed" /\ state' = "open" => streak' >= FailureThreshold]_vars
    <2> SUFFICES ASSUME BreakerInv, [Next]_vars, state = "closed", state' = "open"
                 PROVE  streak' >= FailureThreshold
      OBVIOUS
    <2>1. PICK c \in Call : OnFailure(c)
      BY DEF Next, vars, circuit, Execute, Checked, Answer, Fail, Timeout, Settle, OnSuccess, Reset,
             ManualReset, IsOperationAllowed, GoDown, ComeUp, Tick
    <2>2. consecutiveFailures' >= FailureThreshold
      BY <2>1 DEF OnFailure
    <2> QED
      BY <2>1, <2>2, OptionsAssumption
      DEF OnFailure, UpTo, BreakerInv, FailuresAreConsecutive, TypeOK
  <1> QED
    BY <1>1, BreakerInvariance, PTL DEF Spec, TripsOnConsecutiveFailures
=============================================================================
