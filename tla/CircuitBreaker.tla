--------------------------- MODULE CircuitBreaker ---------------------------
(***************************************************************************)
(* The circuit breaker that guards the commands of one Redis node:         *)
(* execute() with its gate, the timer of executeWithTimeout, and the       *)
(* handlers onSuccess and onFailure, which run when an operation's promise *)
(* settles, in whatever state the circuit is by then.                      *)
(*                                                                         *)
(* A Call is a slot for a concurrent execute(): it is used again when its  *)
(* operation is over.  Times are ages, so that the clock needs no bound.   *)
(***************************************************************************)
EXTENDS Integers, FiniteSets

CONSTANTS
  Call,              \* concurrent callers of execute()
  FailureThreshold, ResetTimeout, MaxRetries, OperationTimeout,  \* the options
  TimerLag,          \* the most a timer fires late
  MaxOutages         \* bound of the model: how often the node goes down

ASSUME CallAssumption == IsFiniteSet(Call)

\* validateOptions
ASSUME OptionsAssumption ==
  /\ FailureThreshold \in Nat \ {0}
  /\ ResetTimeout \in Nat \ {0}
  /\ MaxRetries \in Nat
  /\ OperationTimeout \in Nat \ {0}
  /\ TimerLag \in Nat
  /\ MaxOutages \in Nat

VARIABLES
  state,                \* "closed", "open" or "half-open"
  consecutiveFailures,  \* counted up to FailureThreshold, where it is compared
  halfOpenProbes,
  sinceOpen,            \* Date.now() - lastOpenTime, counted up to ResetTimeout
  pc,                   \* pc[c]: no operation, running, or settled but not handled
  elapsed,              \* elapsed[c]: age of the running operation
  up,                   \* the node answers
  outages,              \* how often it has gone down
  probes,               \* history: the calls that halfOpenProbes counts
  streak                \* history: failures handled since the last success or reset()

circuit == <<state, consecutiveFailures, halfOpenProbes, sinceOpen, probes>>
vars == <<circuit, pc, elapsed, up, outages, streak>>

State == {"closed", "open", "half-open"}
Stage == {"idle", "running", "resolved", "rejected"}

Running == {c \in Call : pc[c] = "running"}
Settled == {c \in Call : pc[c] \in {"resolved", "rejected"}}

UpTo(bound, n) == IF n < bound THEN n ELSE bound

\* Math.max(1, maxRetries)
ProbeLimit == IF MaxRetries > 1 THEN MaxRetries ELSE 1

Init ==
  /\ state = "closed"
  /\ consecutiveFailures = 0
  /\ halfOpenProbes = 0
  /\ sinceOpen = 0
  /\ pc = [c \in Call |-> "idle"]
  /\ elapsed = [c \in Call |-> 0]
  /\ up = TRUE
  /\ outages = 0
  /\ probes = {}
  /\ streak = 0

(***************************************************************************)
(* The transitions of the circuit.                                         *)
(***************************************************************************)
\* Mutation: the timeout is not waited for.
AlwaysAttemptsReset == TRUE

ShouldAttemptReset == sinceOpen >= ResetTimeout

\* checkCircuitState
Checked == IF state = "open" /\ ShouldAttemptReset THEN "half-open" ELSE state

\* Mutation: the count of probes survives.
OpenKeepingProbes ==
  /\ state' = "open"
  /\ sinceOpen' = 0
  /\ UNCHANGED <<halfOpenProbes, probes>>

OpenCircuit ==
  /\ state' = "open"
  /\ sinceOpen' = 0
  /\ halfOpenProbes' = 0
  /\ probes' = {}

Reset ==
  /\ state' = "closed"
  /\ consecutiveFailures' = 0
  /\ halfOpenProbes' = 0
  /\ sinceOpen' = 0
  /\ probes' = {}

(***************************************************************************)
(* execute().                                                              *)
(***************************************************************************)
\* Mutation: the gate is off by one.
AdmitsOneMore == Checked # "open" /\ (Checked = "half-open" => halfOpenProbes <= ProbeLimit)

Admits == Checked # "open" /\ (Checked = "half-open" => halfOpenProbes < ProbeLimit)

\* An admitted call.  One that is refused changes nothing: a call that finds the
\* circuit ready for half-open is its first probe.
Execute(c) ==
  /\ pc[c] = "idle"
  /\ Admits
  /\ state' = Checked
  /\ halfOpenProbes' = IF Checked = "half-open" THEN halfOpenProbes + 1 ELSE halfOpenProbes
  /\ probes' = IF Checked = "half-open" THEN probes \union {c} ELSE probes
  /\ pc' = [pc EXCEPT ![c] = "running"]
  /\ UNCHANGED <<consecutiveFailures, sinceOpen, elapsed, up, outages, streak>>

\* The promise of the operation settles; its handler is a later microtask.
Settle(c, stage) ==
  /\ pc[c] = "running"
  /\ pc' = [pc EXCEPT ![c] = stage]
  /\ elapsed' = [elapsed EXCEPT ![c] = 0]
  /\ UNCHANGED <<circuit, up, outages, streak>>

Answer(c) == up /\ Settle(c, "resolved")
Fail(c) == ~up /\ Settle(c, "rejected")
Timeout(c) == elapsed[c] >= OperationTimeout /\ Settle(c, "rejected")

Handled(c) == pc' = [pc EXCEPT ![c] = "idle"] /\ UNCHANGED <<elapsed, up, outages>>

\* Mutation: a success leaves the failure window open.
SuccessKeepsFailures(c) ==
  /\ pc[c] = "resolved"
  /\ IF state = "half-open" THEN Reset ELSE UNCHANGED circuit
  /\ streak' = 0
  /\ Handled(c)

OnSuccess(c) ==
  /\ pc[c] = "resolved"
  /\ \/ state = "half-open" /\ Reset
     \/ /\ state = "closed"
        /\ consecutiveFailures' = 0
        /\ UNCHANGED <<state, halfOpenProbes, sinceOpen, probes>>
     \/ state = "open" /\ UNCHANGED circuit
  /\ streak' = 0
  /\ Handled(c)

\* Mutation: a failed probe leaves the circuit half-open.
FailureOpensClosedOnly(c) ==
  /\ pc[c] = "rejected"
  /\ consecutiveFailures' = UpTo(FailureThreshold, consecutiveFailures + 1)
  /\ IF state = "closed" /\ consecutiveFailures' >= FailureThreshold
     THEN OpenCircuit
     ELSE UNCHANGED <<state, halfOpenProbes, sinceOpen, probes>>
  /\ streak' = UpTo(FailureThreshold, streak + 1)
  /\ Handled(c)

OnFailure(c) ==
  /\ pc[c] = "rejected"
  /\ consecutiveFailures' = UpTo(FailureThreshold, consecutiveFailures + 1)
  /\ IF \/ state = "closed" /\ consecutiveFailures' >= FailureThreshold
        \/ state = "half-open"
     THEN OpenCircuit
     ELSE UNCHANGED <<state, halfOpenProbes, sinceOpen, probes>>
  /\ streak' = UpTo(FailureThreshold, streak + 1)
  /\ Handled(c)

(***************************************************************************)
(* Calls from outside, the node and the clock.                             *)
(***************************************************************************)
ManualReset == Reset /\ streak' = 0 /\ UNCHANGED <<pc, elapsed, up, outages>>

IsOperationAllowed ==
  /\ state # Checked
  /\ state' = Checked
  /\ UNCHANGED <<consecutiveFailures, halfOpenProbes, sinceOpen, probes,
                 pc, elapsed, up, outages, streak>>

GoDown ==
  /\ up /\ outages < MaxOutages
  /\ up' = FALSE
  /\ outages' = outages + 1
  /\ UNCHANGED <<circuit, pc, elapsed, streak>>

ComeUp == ~up /\ up' = TRUE /\ UNCHANGED <<circuit, pc, elapsed, outages, streak>>

\* A node that is up answers before the timeout; a timer is late by at most TimerLag.
Patience == IF up THEN OperationTimeout ELSE OperationTimeout + TimerLag + 1

\* Handlers are microtasks: they run before time passes.
Tick ==
  /\ Settled = {}
  /\ \A c \in Running : elapsed[c] + 1 < Patience
  /\ elapsed' = [c \in Call |-> IF c \in Running THEN elapsed[c] + 1 ELSE elapsed[c]]
  /\ sinceOpen' = IF state = "closed" THEN sinceOpen ELSE UpTo(ResetTimeout, sinceOpen + 1)
  /\ UNCHANGED <<state, consecutiveFailures, halfOpenProbes, probes, pc, up, outages, streak>>

Next ==
  \/ \E c \in Call : \/ Execute(c)
                     \/ Answer(c) \/ Fail(c) \/ Timeout(c)
                     \/ OnSuccess(c) \/ OnFailure(c)
  \/ ManualReset \/ IsOperationAllowed
  \/ GoDown \/ ComeUp \/ Tick

Spec == Init /\ [][Next]_vars

\* Callers keep calling, promises and timers settle, handlers run, time passes.
\* Nobody need reset the circuit, ask it, or repair the node.
Fairness ==
  /\ WF_vars(\E c \in Call : Execute(c))
  /\ \A c \in Call : WF_vars(Answer(c) \/ Timeout(c)) /\ WF_vars(OnSuccess(c) \/ OnFailure(c))
  /\ WF_vars(Tick)

FairSpec == Spec /\ Fairness

(***************************************************************************)
(* Properties.                                                             *)
(***************************************************************************)
\* Every variable has its type; the counters stay within the limits the code gives them.
TypeOK ==
  /\ state \in State
  /\ consecutiveFailures \in 0..FailureThreshold
  /\ halfOpenProbes \in 0..ProbeLimit
  /\ sinceOpen \in 0..ResetTimeout
  /\ pc \in [Call -> Stage]
  /\ elapsed \in [Call -> 0..OperationTimeout + TimerLag]
  /\ up \in BOOLEAN
  /\ outages \in 0..MaxOutages
  /\ probes \subseteq Call
  /\ streak \in 0..FailureThreshold

\* In the half-open state only a bounded number of operations may be in flight
\* (comment on the gate of execute()): the recovering node is not flooded, not even
\* together with operations that were begun before the circuit opened.
ProbesBounded == state = "half-open" => Cardinality(Running) <= ProbeLimit

\* A half-open circuit that has counted probes still waits for as many of them:
\* it cannot refuse everybody with nothing left that would close or reopen it
\* (halfOpenProbes is never decremented).
ProbesPending ==
  state = "half-open" => halfOpenProbes <= Cardinality(Running \union Settled)

\* The inductive invariant behind these: the counter is the number of operations
\* admitted since the circuit became half-open, none of which is over; what else is
\* running was begun before the circuit opened.
CountIsProbes ==
  /\ halfOpenProbes = Cardinality(probes)
  /\ probes \subseteq Running \union Settled
  /\ state # "half-open" => probes = {}
OldCallsAreOld ==
  /\ state # "closed" => \A c \in Running \ probes : sinceOpen <= elapsed[c]
  /\ state = "half-open" => sinceOpen = ResetTimeout
FailuresAreConsecutive == state = "closed" => consecutiveFailures <= streak
BreakerInv == TypeOK /\ CountIsProbes /\ OldCallsAreOld /\ FailuresAreConsecutive

\* Only consecutive failures trip a closed circuit (comment in onSuccess), in the
\* order in which the outcomes are handled; a manual reset starts the count over.
TripsOnConsecutiveFailures ==
  [][state = "closed" /\ state' = "open" => streak' >= FailureThreshold]_vars

\* Once the node stays up and callers keep calling, the circuit closes for good,
\* whatever answers of the outage are still to come (onSuccess, onFailure).
Recovers == <>[]up => <>[](state = "closed")
=============================================================================
