------------------------ MODULE AutoExtensionProofs ------------------------
(***************************************************************************)
(* Proofs about automatic extension: its types, that stop() leaves nothing *)
(* behind, and that _expiration is backed by the nodes, for any options,   *)
(* any failures and any number of requests on the connection.              *)
(***************************************************************************)
EXTENDS AutoExtension, SequenceTheorems, TLAPS

Ttls == ManualTtls \union {Ttl}

\* No two ttls in use differ by more than the drift allowance, and the lock is not taken
\* for longer than the extensions ask for.  Otherwise an extension shortens the lease.
TtlAssumption ==
  /\ \A t, u \in Ttls : t - Drift <= u
  /\ \A l \in InitialLeft, t \in Ttls : l <= t

(***************************************************************************)
(* The inductive invariant.                                                *)
(***************************************************************************)
RoundType == [stage : {"none", "sent", "granted", "refused", "resolved"}, ttl : Nat,
              age : 0..RoundTrip]
Due == {d \in Int : d >= -TimerLag}
TimerType == [on : BOOLEAN, due : Due]
RequestType == [op : {"auto", "manual", "release"}, ttl : Nat, live : BOOLEAN]

Types ==
  /\ phase \in {"running", "stopping", "releasing", "done"}
  /\ left \in Nat /\ mgrLeft \in Nat /\ lease \in Nat
  /\ timer \in TimerType
  /\ auto \in RoundType /\ manual \in RoundType
  /\ release \in {"none", "sent", "failed", "released"}
  /\ requests \in Seq(RequestType)
  /\ aborted \in BOOLEAN

\* A request whose caller waits belongs to the caller's round, which has no other.
Awaited(op, round, queue) ==
  \A i \in 1..Len(queue) : queue[i].op = op /\ queue[i].live =>
    /\ round.stage = "sent" /\ round.ttl = queue[i].ttl
    /\ \A j \in 1..Len(queue) : queue[j].op = op /\ queue[j].live => j = i

\* The timer is set between two rounds of the manager, while the routine runs.
OneAtATime ==
  /\ Awaited("auto", auto, requests) /\ Awaited("manual", manual, requests)
  /\ timer.on => phase = "running" /\ auto.stage = "none"
  /\ phase \in {"releasing", "done"} => auto.stage = "none"

ExtensionInv == Types /\ OneAtATime

\* What is left after some time is a natural number, and no more than before.
LEMMA LeftAfterType ==
  \A n, t \in Nat : LeftAfter(n, t) \in Nat /\ LeftAfter(n, t) <= n
  BY DEF LeftAfter

\* Rounds and their beginnings.
LEMMA RoundTypes ==
  /\ NoRound \in RoundType
  /\ \A t \in Nat : Sent(t) \in RoundType
  /\ \A r \in RoundType : Extended(r) \in Nat /\ Executed(r) \in RoundType
  BY ConfigAssumption, LeftAfterType DEF NoRound, Sent, RoundType, Extended, Executed

\* The timer and the passing of time.
LEMMA TimerTypes ==
  /\ NoTimer \in TimerType
  /\ \A n \in Nat : NextExtension(n) \in TimerType
  <1>1. Nat \subseteq Due /\ Threshold \in Nat
    BY ConfigAssumption DEF Due
  <1>2. \A n \in Nat : LeftAfter(n, Threshold) \in Due
    BY <1>1, LeftAfterType
  <1> QED
    BY <1>1, <1>2 DEF NoTimer, NextExtension, TimerType

\* Time changes nothing in a round but its age.
LEMMA OlderType ==
  ASSUME NEW r \in RoundType, Waiting(r) => r.age < RoundTrip
  PROVE  Older(r) \in RoundType /\ Older(r).stage = r.stage /\ Older(r).ttl = r.ttl
  <1>1. CASE Waiting(r)
    <2>1. Older(r) = [r EXCEPT !.age = r.age + 1] /\ r.age + 1 \in 0..RoundTrip
      BY <1>1, ConfigAssumption DEF Older, RoundType
    <2> QED
      BY <2>1 DEF RoundType
  <1>2. CASE ~Waiting(r)
    BY <1>2 DEF Older
  <1> QED
    BY <1>1, <1>2

\* The timer gets no later than its lag, for time stops there until it fires.
LEMMA OlderTimer ==
  ASSUME timer \in TimerType, Tick
  PROVE  timer' \in TimerType /\ timer'.on = timer.on
  <1>1. CASE timer.on
    <2>1. timer' = [timer EXCEPT !.due = timer.due - 1] /\ timer.due > -TimerLag
      BY <1>1 DEF Tick
    <2>2. timer.due - 1 \in Due
      BY <2>1, ConfigAssumption DEF TimerType, Due
    <2> QED
      BY <2>1, <2>2 DEF TimerType
  <1>2. CASE ~timer.on
    BY <1>2 DEF Tick
  <1> QED
    BY <1>1, <1>2

\* Giving up a round leaves the requests in place.
LEMMA GiveUpType ==
  ASSUME Types, NEW op, GiveUp(op)
  PROVE  /\ requests' \in Seq(RequestType) /\ Len(requests') = Len(requests)
         /\ \A i \in 1..Len(requests) :
              /\ requests'[i].op = requests[i].op /\ requests'[i].ttl = requests[i].ttl
              /\ requests'[i].live => requests[i].live /\ requests[i].op # op
  <1>1. /\ Len(requests) \in Nat /\ DOMAIN requests' = 1..Len(requests)
        /\ \A i \in 1..Len(requests) : requests[i] \in RequestType
    BY DEF Types, GiveUp
  <1>2. \A i \in 1..Len(requests) :
          requests'[i] = IF requests[i].op = op THEN [requests[i] EXCEPT !.live = FALSE] ELSE requests[i]
    BY DEF GiveUp
  <1>3. requests' \in [1..Len(requests) -> RequestType]
    BY <1>1, <1>2 DEF GiveUp, RequestType
  <1>4. requests' \in Seq(RequestType) /\ Len(requests') = Len(requests)
    BY <1>1, <1>3, LenProperties
  <1> QED
    BY <1>1, <1>2, <1>4 DEF RequestType

\* A new request goes to the end.
LEMMA RequestAdds ==
  ASSUME Types, NEW op \in {"auto", "manual", "release"}, NEW ttl \in Nat, Request(op, ttl)
  PROVE  /\ requests' \in Seq(RequestType) /\ Len(requests') = Len(requests) + 1
         /\ requests'[Len(requests) + 1] = [op |-> op, ttl |-> ttl, live |-> TRUE]
         /\ \A i \in 1..Len(requests) : requests'[i] = requests[i]
  <1>1. [op |-> op, ttl |-> ttl, live |-> TRUE] \in RequestType
    BY DEF RequestType
  <1> QED
    BY <1>1, AppendProperties DEF Request, Types

\* The oldest request leaves.
LEMMA ExecuteRemoves ==
  ASSUME Types, Execute
  PROVE  /\ Len(requests) \in Nat \ {0} /\ Head(requests) = requests[1]
         /\ requests[1] \in RequestType
         /\ requests' \in Seq(RequestType) /\ Len(requests') = Len(requests) - 1
         /\ \A i \in 1..Len(requests') : requests'[i] = requests[i + 1]
  <1>1. requests # <<>> /\ requests \in Seq(RequestType) /\ requests' = Tail(requests)
    BY DEF Types, Execute
  <1> QED
    BY <1>1, HeadTailProperties, ElementOfSeq, EmptySeq, LenProperties

\* Every step keeps the types.
LEMMA TypesStep ==
  ASSUME Types, [Next]_vars
  PROVE  Types'
  <1> USE RoundTypes, TimerTypes
  <1>0. Ttl \in Nat /\ ManualTtls \subseteq Nat /\ 0 \in Nat
    BY ConfigAssumption
  <1>1. CASE UNCHANGED vars
    BY <1>1 DEF vars, Types
  <1>2. CASE TimerFires
    <2>1. CASE UNCHANGED <<auto, requests>>
      BY <1>2, <2>1 DEF TimerFires, Types
    <2>2. CASE auto' = Sent(Ttl) /\ Request("auto", Ttl)
      <3>1. requests' \in Seq(RequestType) /\ auto' \in RoundType
        BY <1>0, <2>2, RequestAdds
      <3> QED
        BY <1>2, <3>1 DEF TimerFires, Types
    <2> QED
      BY <1>2, <2>1, <2>2 DEF TimerFires
  <1>3. CASE AutoContinues
    <2>1. Extended(auto) \in Nat
      BY DEF Types
    <2> QED
      BY <1>3, <2>1 DEF AutoContinues, Types
  <1>4. CASE RoutineExtends
    <2>1. PICK ttl \in Nat : manual' = Sent(ttl) /\ Request("manual", ttl)
      BY <1>0, <1>4 DEF RoutineExtends
    <2>2. requests' \in Seq(RequestType) /\ manual' \in RoundType
      BY <2>1, RequestAdds
    <2> QED
      BY <1>4, <2>2 DEF RoutineExtends, Types
  <1>5. CASE RoutineReleases
    BY <1>5, RequestAdds DEF RoutineReleases, SendRelease, Types
  <1>6. CASE RoutineEnds
    BY <1>6 DEF RoutineEnds, Types
  <1>7. CASE Stopped
    BY <1>7, RequestAdds DEF Stopped, SendRelease, Types
  <1>8. CASE UsingReturns
    BY <1>8 DEF UsingReturns, Types
  <1>9. CASE AutoSucceeds
    BY <1>9 DEF AutoSucceeds, Types, RoundType
  <1>10. CASE AutoFails
    BY <1>10, GiveUpType DEF AutoFails, Types
  <1>11. CASE ManualSucceeds
    BY <1>11 DEF ManualSucceeds, Types
  <1>12. CASE ManualFails
    BY <1>12, GiveUpType DEF ManualFails, Types
  <1>13. CASE ReleaseFails
    BY <1>13, GiveUpType DEF ReleaseFails, Types
  <1>14. CASE Execute
    <2>1. requests[1] \in RequestType /\ Head(requests) = requests[1]
          /\ requests' \in Seq(RequestType)
      BY <1>14, ExecuteRemoves
    <2> QED
      BY <1>14, <2>1 DEF Execute, Types, RequestType
  <1>15. CASE Tick
    <2>1. auto' \in RoundType /\ manual' \in RoundType
      BY <1>15, OlderType DEF Tick, Types
    <2>2. timer' \in TimerType
      BY <1>15, OlderTimer DEF Types
    <2>3. left' \in Nat /\ mgrLeft' \in Nat /\ lease' \in Nat
      BY <1>15, LeftAfterType DEF Tick, Types
    <2> QED
      BY <1>15, <2>1, <2>2, <2>3 DEF Tick, Types
  <1> QED
    BY <1>1, <1>2, <1>3, <1>4, <1>5, <1>6, <1>7, <1>8, <1>9, <1>10, <1>11, <1>12, <1>13,
       <1>14, <1>15 DEF Next, Settle

(***************************************************************************)
(* At most one round of each kind is awaited.                              *)
(***************************************************************************)
\* Giving up one round leaves what is awaited of the others as it was.
LEMMA AwaitedAfterGiveUp ==
  ASSUME Types, NEW op, NEW other, NEW round, GiveUp(op),
         other = op \/ Awaited(other, round, requests)
  PROVE  Awaited(other, round, requests')
  BY GiveUpType DEF Awaited, Types

\* A new request is the only one of its round; rounds of another kind keep theirs.
LEMMA AwaitedAfterRequest ==
  ASSUME Types, NEW op \in {"auto", "manual", "release"}, NEW ttl \in Nat, Request(op, ttl),
         NEW other, NEW round, Awaited(other, round, requests)
  PROVE  /\ other # op => Awaited(other, round, requests')
         /\ other = op /\ round.stage # "sent" => Awaited(other, Sent(ttl), requests')
  <1>1. /\ Len(requests) \in Nat /\ Len(requests') = Len(requests) + 1
        /\ requests'[Len(requests) + 1] = [op |-> op, ttl |-> ttl, live |-> TRUE]
        /\ \A i \in 1..Len(requests) : requests'[i] = requests[i]
    BY RequestAdds DEF Types
  <1>2. CASE other # op
    <2>1. \A i \in 1..Len(requests') : requests'[i].op = other => i \in 1..Len(requests)
      BY <1>1, <1>2
    <2> QED
      BY <1>1, <1>2, <2>1 DEF Awaited
  <1>3. CASE other = op /\ round.stage # "sent"
    <2>1. \A i \in 1..Len(requests') :
            requests'[i].op = other /\ requests'[i].live => i = Len(requests')
      BY <1>1, <1>3 DEF Awaited
    <2> QED
      BY <1>1, <2>1 DEF Awaited, Sent
  <1> QED
    BY <1>2, <1>3

\* The round the executed request belonged to has no other one left.
LEMMA AwaitedAfterExecute ==
  ASSUME Types, Execute, NEW op, NEW round, Awaited(op, round, requests)
  PROVE  /\ Awaited(op, round, requests')
         /\ Head(requests).op = op /\ Head(requests).live =>
              /\ round.stage = "sent" /\ round.ttl = Head(requests).ttl
              /\ \A other : Awaited(op, other, requests')
  <1>1. /\ Len(requests) \in Nat \ {0} /\ Head(requests) = requests[1]
        /\ Len(requests') = Len(requests) - 1
        /\ \A i \in 1..Len(requests') : requests'[i] = requests[i + 1]
    BY ExecuteRemoves
  <1>2. \A i \in 1..Len(requests') : i + 1 \in 1..Len(requests) /\ i + 1 # 1
    BY <1>1
  <1>3. Awaited(op, round, requests')
    <2> SUFFICES ASSUME NEW i \in 1..Len(requests'), requests'[i].op = op, requests'[i].live
                 PROVE  /\ round.stage = "sent" /\ round.ttl = requests'[i].ttl
                        /\ \A j \in 1..Len(requests') :
                             requests'[j].op = op /\ requests'[j].live => j = i
      BY DEF Awaited
    <2>1. /\ requests[i + 1].op = op /\ requests[i + 1].live /\ i + 1 \in 1..Len(requests)
      BY <1>1, <1>2
    <2>2. /\ round.stage = "sent" /\ round.ttl = requests[i + 1].ttl
          /\ \A j \in 1..Len(requests) : requests[j].op = op /\ requests[j].live => j = i + 1
      BY <2>1 DEF Awaited
    <2>3. \A j \in 1..Len(requests') : requests'[j].op = op /\ requests'[j].live => j + 1 = i + 1
      BY <1>1, <1>2, <2>2
    <2> QED
      BY <1>1, <2>2, <2>3
  <1>4. ASSUME Head(requests).op = op, Head(requests).live
        PROVE  /\ round.stage = "sent" /\ round.ttl = Head(requests).ttl
               /\ \A other : Awaited(op, other, requests')
    <2>1. /\ 1 \in 1..Len(requests) /\ requests[1].op = op /\ requests[1].live
      BY <1>1, <1>4
    <2>2. /\ round.stage = "sent" /\ round.ttl = requests[1].ttl
          /\ \A j \in 1..Len(requests) : requests[j].op = op /\ requests[j].live => j = 1
      BY <2>1 DEF Awaited
    <2>3. \A i \in 1..Len(requests') : ~(requests'[i].op = op /\ requests'[i].live)
      BY <1>1, <1>2, <2>2
    <2> QED
      BY <1>1, <2>2, <2>3 DEF Awaited
  <1> QED
    BY <1>3, <1>4

\* Every step keeps requests and rounds one to one.
LEMMA OneAtATimeStep ==
  ASSUME ExtensionInv, [Next]_vars
  PROVE  OneAtATime'
  <1>0. Types /\ OneAtATime /\ Ttl \in Nat /\ ManualTtls \subseteq Nat /\ 0 \in Nat
    BY ConfigAssumption DEF ExtensionInv
  <1>1. CASE UNCHANGED vars
    BY <1>0, <1>1 DEF vars, OneAtATime, Awaited
  <1>2. CASE TimerFires
    <2>1. timer.on /\ ~timer'.on /\ phase = "running" /\ auto.stage = "none"
      BY <1>0, <1>2 DEF TimerFires, OneAtATime, NoTimer
    <2>2. CASE UNCHANGED <<auto, requests>>
      BY <1>0, <1>2, <2>1, <2>2 DEF TimerFires, OneAtATime
    <2>3. CASE auto' = Sent(Ttl) /\ Request("auto", Ttl)
      <3>1. Awaited("auto", auto', requests') /\ Awaited("manual", manual, requests')
        BY <1>0, <2>1, <2>3, AwaitedAfterRequest DEF OneAtATime
      <3> QED
        BY <1>2, <2>1, <3>1 DEF TimerFires, OneAtATime
    <2> QED
      BY <1>2, <2>2, <2>3 DEF TimerFires
  <1>3. CASE AutoContinues
    <2>1. auto.stage = "resolved" /\ auto' = NoRound /\ auto'.stage = "none"
      BY <1>3 DEF AutoContinues, NoRound
    <2>2. Awaited("auto", auto', requests)
      BY <1>0, <2>1 DEF OneAtATime, Awaited
    <2> QED
      BY <1>0, <1>3, <2>1, <2>2 DEF AutoContinues, OneAtATime
  <1>4. CASE RoutineExtends
    <2>1. PICK ttl \in Nat : manual' = Sent(ttl) /\ Request("manual", ttl)
      BY <1>0, <1>4 DEF RoutineExtends
    <2>2. Awaited("auto", auto, requests') /\ Awaited("manual", manual', requests')
      BY <1>0, <1>4, <2>1, AwaitedAfterRequest DEF OneAtATime, RoutineExtends
    <2> QED
      BY <1>0, <1>4, <2>2 DEF RoutineExtends, OneAtATime
  <1>5. ASSUME Request("release", 0), UNCHANGED <<auto, manual>>
        PROVE  Awaited("auto", auto, requests)' /\ Awaited("manual", manual, requests)'
    BY <1>0, <1>5, AwaitedAfterRequest DEF OneAtATime
  <1>6. CASE RoutineReleases
    BY <1>0, <1>5, <1>6 DEF RoutineReleases, SendRelease, OneAtATime
  <1>7. CASE RoutineEnds
    BY <1>0, <1>7 DEF RoutineEnds, OneAtATime, NoTimer
  <1>8. CASE Stopped
    <2>1. CASE UNCHANGED requests
      BY <1>0, <1>8, <2>1 DEF Stopped, OneAtATime
    <2>2. CASE Request("release", 0)
      BY <1>0, <1>5, <1>8, <2>2 DEF Stopped, OneAtATime
    <2> QED
      BY <1>8, <2>1, <2>2 DEF Stopped, SendRelease
  <1>9. CASE UsingReturns
    BY <1>0, <1>9 DEF UsingReturns, OneAtATime
  <1>10. CASE AutoSucceeds
    <2>1. auto.stage = "granted" /\ auto'.stage = "resolved" /\ UNCHANGED <<requests, timer, phase, manual>>
      BY <1>0, <1>10 DEF AutoSucceeds, Types, RoundType
    <2>2. Awaited("auto", auto', requests')
      BY <1>0, <2>1 DEF OneAtATime, Awaited
    <2> QED
      BY <1>0, <2>1, <2>2 DEF OneAtATime
  <1>11. CASE AutoFails
    <2>1. Awaited("auto", auto', requests') /\ Awaited("manual", manual', requests')
      BY <1>0, <1>11, AwaitedAfterGiveUp DEF AutoFails, OneAtATime
    <2> QED
      BY <1>0, <1>11, <2>1 DEF AutoFails, OneAtATime, NoRound
  <1>12. CASE ManualSucceeds
    <2>1. Awaited("manual", manual', requests)
      BY <1>0, <1>12 DEF ManualSucceeds, OneAtATime, Awaited
    <2> QED
      BY <1>0, <1>12, <2>1 DEF ManualSucceeds, OneAtATime
  <1>13. CASE ManualFails
    <2>1. Awaited("auto", auto', requests') /\ Awaited("manual", manual', requests')
      BY <1>0, <1>13, AwaitedAfterGiveUp DEF ManualFails, OneAtATime
    <2> QED
      BY <1>0, <1>13, <2>1 DEF ManualFails, OneAtATime
  <1>14. CASE ReleaseFails
    <2>1. Awaited("auto", auto', requests') /\ Awaited("manual", manual', requests')
      BY <1>0, <1>14, AwaitedAfterGiveUp DEF ReleaseFails, OneAtATime
    <2> QED
      BY <1>0, <1>14, <2>1 DEF ReleaseFails, OneAtATime
  <1>15. CASE Execute
    <2>1. Awaited("auto", auto', requests')
      BY <1>0, <1>15, AwaitedAfterExecute DEF Execute, OneAtATime
    <2>2. Awaited("manual", manual', requests')
      BY <1>0, <1>15, AwaitedAfterExecute DEF Execute, OneAtATime
    <2>3. auto.stage = "none" => auto' = auto
      BY <1>0, <1>15, AwaitedAfterExecute DEF Execute, OneAtATime
    <2> QED
      BY <1>0, <1>15, <2>1, <2>2, <2>3 DEF Execute, OneAtATime
  <1>16. CASE Tick
    <2>1. /\ auto'.stage = auto.stage /\ auto'.ttl = auto.ttl
          /\ manual'.stage = manual.stage /\ manual'.ttl = manual.ttl
      BY <1>0, <1>16, OlderType DEF Tick, Types
    <2>2. timer'.on = timer.on
      BY <1>0, <1>16, OlderTimer DEF Types
    <2>3. Awaited("auto", auto', requests) /\ Awaited("manual", manual', requests)
      BY <1>0, <2>1 DEF OneAtATime, Awaited
    <2> QED
      BY <1>0, <1>16, <2>1, <2>2, <2>3 DEF OneAtATime, Tick
  <1> QED
    BY <1>1, <1>2, <1>3, <1>4, <1>6, <1>7, <1>8, <1>9, <1>10, <1>11, <1>12, <1>13, <1>14,
       <1>15, <1>16 DEF Next, Settle

\* using() begins with no round and nothing on the connection.
LEMMA ExtensionInit ==
  ASSUME Init
  PROVE  ExtensionInv
  <1>1. left \in Nat /\ lease \in Nat /\ timer \in TimerType /\ requests \in Seq(RequestType)
    BY ConfigAssumption, TimerTypes DEF Init
  <1>2. Types
    BY <1>1, RoundTypes DEF Init, Types
  <1>3. Len(requests) = 0
    BY DEF Init
  <1> QED
    BY <1>2, <1>3 DEF Init, ExtensionInv, OneAtATime, Awaited, NoRound

\* Automatic extension keeps its types, and its requests and rounds one to one, in every
\* state: the timer is never set while startExtension() has a round under way.
THEOREM ExtensionInvariance == Spec => []ExtensionInv
  <1>1. Init => ExtensionInv
    BY ExtensionInit
  <1>2. ExtensionInv /\ [Next]_vars => ExtensionInv'
    BY TypesStep, OneAtATimeStep DEF ExtensionInv
  <1> QED
    BY <1>1, <1>2, PTL DEF Spec

\* Every variable keeps its type, for any options and failures.
THEOREM ExtensionTypes == Spec => []TypeOK
  <1>1. ExtensionInv => TypeOK
    <2> SUFFICES ASSUME Types PROVE TypeOK
      BY DEF ExtensionInv
    <2>1. \A i \in 1..Len(requests) : requests[i] \in RequestType
      BY DEF Types
    <2>2. timer.on \in BOOLEAN /\ timer.due >= -TimerLag
      BY DEF Types, TimerType, Due
    <2>3. RoundOK(auto) /\ RoundOK(manual)
      BY DEF Types, RoundType, RoundOK
    <2> QED
      BY <2>1, <2>2, <2>3 DEF Types, TypeOK, RequestType
  <1> QED
    BY <1>1, ExtensionInvariance, PTL

\* Once using() has begun to release, no timer and no automatic round is left,
\* however late rounds and timers are and whatever the routine does itself.
THEOREM StopLeavesNothing == Spec => []NothingAfterStop
  <1>1. ExtensionInv => NothingAfterStop
    BY DEF ExtensionInv, OneAtATime, NothingAfterStop
  <1> QED
    BY <1>1, ExtensionInvariance, PTL

(***************************************************************************)
(* The expiration is backed by the nodes.                                  *)
(***************************************************************************)
\* What an answered round promises is promised by the nodes.
Promised(round) ==
  /\ round.stage # "none" => round.ttl \in Ttls
  /\ round.stage = "granted" => Extended(round) <= lease

\* No ttl under way would shorten the lease below the expiration.
Backed ==
  release = "none" =>
    /\ left <= lease
    /\ \A t \in Ttls : left <= t
    /\ Promised(auto) /\ Promised(manual)
    /\ \A i \in 1..Len(requests) : requests[i].op # "release" /\ requests[i].ttl \in Ttls

\* An extension is counted at its ttl less the drift, at most.
LEMMA ExtendedBound ==
  ASSUME TtlAssumption, NEW round \in RoundType, round.ttl \in Ttls
  PROVE  /\ \A t \in Ttls : Extended(round) <= t
         /\ Waiting(round) => Extended(Older(round)) = LeftAfter(Extended(round), 1)
  <1>0. Ttl \in Nat /\ ManualTtls \subseteq Nat /\ Drift \in Nat /\ RoundTrip \in Nat
    BY ConfigAssumption
  <1>1. /\ Ttls \subseteq Nat /\ Drift \in Nat /\ round.age \in Nat /\ round.ttl \in Nat
    BY <1>0 DEF Ttls, RoundType
  <1>2. \A t \in Ttls : Extended(round) <= t
    BY <1>1 DEF Extended, LeftAfter, TtlAssumption
  <1>3. ASSUME Waiting(round)
        PROVE  Extended(Older(round)) = LeftAfter(Extended(round), 1)
    <2>1. Older(round).ttl = round.ttl /\ Older(round).age = round.age + 1
      BY <1>3 DEF Older, RoundType
    <2> QED
      BY <1>1, <2>1 DEF Extended, LeftAfter
  <1> QED
    BY <1>2, <1>3

\* Every step keeps the lease behind what is left and behind every round.
LEMMA BackedStep ==
  ASSUME TtlAssumption, ExtensionInv, Backed, [Next]_vars
  PROVE  Backed'
  <1>0. /\ Types /\ OneAtATime /\ Ttls \subseteq Nat /\ Ttl \in Ttls /\ ManualTtls \subseteq Ttls
        /\ \A t \in Ttls : Sent(t).ttl = t /\ Sent(t).stage = "sent"
        /\ NoRound.stage = "none"
    BY ConfigAssumption DEF ExtensionInv, Ttls, Sent, NoRound
  <1> SUFFICES ASSUME release' = "none"
               PROVE  /\ left' <= lease'
                      /\ \A t \in Ttls : left' <= t
                      /\ Promised(auto)' /\ Promised(manual)'
                      /\ \A i \in 1..Len(requests') :
                           requests'[i].op # "release" /\ requests'[i].ttl \in Ttls
    BY DEF Backed
  <1>1. release = "none"
    BY DEF Next, Settle, TimerFires, AutoContinues, RoutineExtends, RoutineReleases, RoutineEnds,
       Stopped, UsingReturns, Execute, AutoSucceeds, AutoFails, ManualSucceeds, ManualFails,
       ReleaseFails, Tick, SendRelease, vars
  <1>2. /\ left <= lease
        /\ \A t \in Ttls : left <= t
        /\ Promised(auto) /\ Promised(manual)
        /\ \A i \in 1..Len(requests) : requests[i].op # "release" /\ requests[i].ttl \in Ttls
    BY <1>1 DEF Backed
  <1>3. CASE UNCHANGED <<left, lease, auto, manual, requests>>
    BY <1>2, <1>3 DEF Promised, Extended
  <1>4. ASSUME NEW op \in {"auto", "manual"}, NEW ttl \in Ttls, Request(op, ttl)
        PROVE  \A i \in 1..Len(requests') :
                 requests'[i].op # "release" /\ requests'[i].ttl \in Ttls
    <2>1. /\ Len(requests) \in Nat /\ Len(requests') = Len(requests) + 1
          /\ requests'[Len(requests) + 1] = [op |-> op, ttl |-> ttl, live |-> TRUE]
          /\ \A i \in 1..Len(requests) : requests'[i] = requests[i]
      BY <1>0, <1>4, RequestAdds DEF Types
    <2>2. \A i \in 1..Len(requests') : i \in 1..Len(requests) \/ i = Len(requests) + 1
      BY <2>1
    <2> QED
      BY <1>2, <2>1, <2>2
  <1>5. ASSUME NEW op, GiveUp(op)
        PROVE  \A i \in 1..Len(requests') :
                 requests'[i].op # "release" /\ requests'[i].ttl \in Ttls
    BY <1>0, <1>2, <1>5, GiveUpType
  <1>6. CASE TimerFires
    <2>1. CASE auto' = Sent(Ttl) /\ Request("auto", Ttl)
      BY <1>0, <1>2, <1>4, <1>6, <2>1 DEF TimerFires, Promised, Extended
    <2> QED
      BY <1>3, <1>6, <2>1 DEF TimerFires
  <1>7. CASE AutoContinues
    BY <1>0, <1>2, <1>7 DEF AutoContinues, Promised, Extended
  <1>8. CASE RoutineExtends
    <2>1. PICK ttl \in Ttls : manual' = Sent(ttl) /\ Request("manual", ttl)
      BY <1>0, <1>8 DEF RoutineExtends
    <2> QED
      BY <1>0, <1>2, <1>4, <1>8, <2>1 DEF RoutineExtends, Promised, Extended
  <1>9. CASE RoutineReleases \/ Stopped
    BY <1>1, <1>9 DEF RoutineReleases, Stopped, SendRelease
  <1>10. CASE AutoSucceeds
    <2>1. /\ \A t \in Ttls : Extended(auto) <= t
          /\ Extended(auto) <= lease
      BY <1>0, <1>2, <1>10, ExtendedBound DEF AutoSucceeds, Promised, Types
    <2>2. auto'.stage = "resolved" /\ auto'.ttl = auto.ttl /\ auto.ttl \in Ttls
      BY <1>0, <1>2, <1>10 DEF AutoSucceeds, Promised, Types, RoundType
    <2> QED
      BY <1>2, <1>10, <2>1, <2>2 DEF AutoSucceeds, Promised, Extended
  <1>11. CASE AutoFails
    BY <1>0, <1>2, <1>5, <1>11 DEF AutoFails, Promised, Extended
  <1>12. CASE ManualSucceeds
    <2>1. /\ \A t \in Ttls : Extended(manual) <= t
          /\ Extended(manual) <= lease
      BY <1>0, <1>2, <1>12, ExtendedBound DEF ManualSucceeds, Promised, Types
    <2> QED
      BY <1>0, <1>2, <1>12, <2>1 DEF ManualSucceeds, Promised, Extended
  <1>13. CASE ManualFails
    BY <1>0, <1>2, <1>5, <1>13 DEF ManualFails, Promised, Extended
  <1>14. CASE ReleaseFails
    BY <1>1, <1>14 DEF ReleaseFails
  <1>15. CASE Execute
    <2>1. /\ Head(requests) = requests[1] /\ 1 \in 1..Len(requests)
          /\ Len(requests') = Len(requests) - 1 /\ Len(requests) \in Nat
          /\ \A i \in 1..Len(requests') : requests'[i] = requests[i + 1]
      BY <1>0, <1>15, ExecuteRemoves
    <2>2. Head(requests).ttl \in Ttls /\ Head(requests).op # "release"
      BY <1>2, <2>1
    <2>3. /\ left \in Nat /\ lease \in Nat
          /\ lease' = IF lease > 0 THEN Head(requests).ttl ELSE 0
          /\ left' = left
      BY <1>0, <1>15, <2>2 DEF Execute, Types
    <2>4. left' <= lease'
      <3>1. left <= Head(requests).ttl /\ left <= lease
        BY <1>2, <2>2
      <3> QED
        BY <2>3, <3>1
    <2>5. ASSUME NEW round \in RoundType, Promised(round)
          PROVE  round.stage = "granted" => Extended(round) <= lease'
      <3> SUFFICES ASSUME round.stage = "granted" PROVE Extended(round) <= lease'
        OBVIOUS
      <3>1. Extended(round) \in Nat /\ Extended(round) <= lease /\ round.ttl \in Ttls
        BY <2>5, RoundTypes DEF Promised
      <3>2. Extended(round) <= Head(requests).ttl
        BY <2>2, <3>1, ExtendedBound
      <3> QED
        BY <2>3, <3>1, <3>2
    <2>6. ASSUME NEW round \in RoundType, round.stage = "sent", Promised(round),
                 round.ttl = Head(requests).ttl
          PROVE  /\ Executed(round).ttl \in Ttls
                 /\ Executed(round).stage = "granted" => Extended(Executed(round)) <= lease'
      <3>1. Executed(round) \in RoundType /\ Executed(round).ttl = round.ttl /\ round.ttl \in Ttls
            /\ (Executed(round).stage = "granted" => lease > 0)
        BY <2>6, RoundTypes DEF Executed, Promised, RoundType
      <3>2. \A t \in Ttls : Extended(Executed(round)) <= t
        BY <3>1, ExtendedBound
      <3> QED
        BY <2>2, <2>3, <3>1, <3>2
    <2>7. Promised(auto)'
      <3>1. CASE auto' = auto
        BY <1>0, <1>2, <2>5, <3>1 DEF Promised, Types, Extended
      <3>2. CASE auto' = Executed(auto) /\ Head(requests).op = "auto" /\ Head(requests).live
        <4>1. auto.stage = "sent" /\ auto.ttl = Head(requests).ttl
          BY <1>0, <1>15, <3>2, AwaitedAfterExecute DEF OneAtATime
        <4>2. auto'.ttl \in Ttls /\ (auto'.stage = "granted" => Extended(auto') <= lease')
          BY <1>0, <1>2, <2>6, <3>2, <4>1 DEF Types
        <4> QED
          BY <4>2 DEF Promised, Extended
      <3> QED
        BY <1>15, <3>1, <3>2 DEF Execute
    <2>8. Promised(manual)'
      <3>1. CASE manual' = manual
        BY <1>0, <1>2, <2>5, <3>1 DEF Promised, Types, Extended
      <3>2. CASE manual' = Executed(manual) /\ Head(requests).op = "manual" /\ Head(requests).live
        <4>1. manual.stage = "sent" /\ manual.ttl = Head(requests).ttl
          BY <1>0, <1>15, <3>2, AwaitedAfterExecute DEF OneAtATime
        <4>2. manual'.ttl \in Ttls /\ (manual'.stage = "granted" => Extended(manual') <= lease')
          BY <1>0, <1>2, <2>6, <3>2, <4>1 DEF Types
        <4> QED
          BY <4>2 DEF Promised, Extended
      <3> QED
        BY <1>15, <3>1, <3>2 DEF Execute
    <2>9. \A i \in 1..Len(requests') : requests'[i].op # "release" /\ requests'[i].ttl \in Ttls
      <3>1. \A i \in 1..Len(requests') : i + 1 \in 1..Len(requests)
        BY <2>1
      <3> QED
        BY <1>2, <2>1, <3>1
    <2> QED
      BY <1>2, <2>3, <2>4, <2>7, <2>8, <2>9
  <1>16. CASE Tick
    <2>1. /\ left' = LeftAfter(left, 1) /\ lease' = LeftAfter(lease, 1) /\ requests' = requests
          /\ left \in Nat /\ lease \in Nat
      BY <1>0, <1>16 DEF Tick, Types
    <2>2. left' <= lease' /\ \A t \in Ttls : left' <= t
      BY <1>0, <1>2, <2>1 DEF LeftAfter
    <2>3. ASSUME NEW round \in RoundType, Promised(round), Waiting(round) => round.age < RoundTrip
          PROVE  /\ Older(round).stage # "none" => Older(round).ttl \in Ttls
                 /\ Older(round).stage = "granted" => Extended(Older(round)) <= lease'
      <3>1. Older(round).stage = round.stage /\ Older(round).ttl = round.ttl
            /\ Extended(round) \in Nat
        BY <2>3, OlderType, RoundTypes
      <3>2. round.stage = "granted" =>
              /\ Extended(Older(round)) = LeftAfter(Extended(round), 1)
              /\ Extended(round) <= lease
        BY <2>3, ExtendedBound DEF Promised, Waiting
      <3> QED
        BY <2>1, <2>3, <3>1, <3>2 DEF LeftAfter, Promised
    <2>4. /\ auto' = Older(auto) /\ auto \in RoundType /\ (Waiting(auto) => auto.age < RoundTrip)
          /\ manual' = Older(manual) /\ manual \in RoundType
          /\ (Waiting(manual) => manual.age < RoundTrip)
      BY <1>0, <1>16 DEF Tick, Types
    <2>5. /\ auto'.stage # "none" => auto'.ttl \in Ttls
          /\ auto'.stage = "granted" => Extended(auto') <= lease'
          /\ manual'.stage # "none" => manual'.ttl \in Ttls
          /\ manual'.stage = "granted" => Extended(manual') <= lease'
      BY <1>2, <2>3, <2>4
    <2>6. Promised(auto)' /\ Promised(manual)'
      BY <2>5 DEF Promised, Extended
    <2> QED
      BY <1>2, <2>1, <2>2, <2>6
  <1>17. CASE RoutineEnds \/ UsingReturns \/ UNCHANGED vars
    BY <1>3, <1>17 DEF RoutineEnds, UsingReturns, vars
  <1> QED
    BY <1>6, <1>7, <1>8, <1>9, <1>10, <1>11, <1>12, <1>13, <1>14, <1>15, <1>16, <1>17
       DEF Next, Settle

\* With manual and automatic extensions under way together, failing and late,
\* Lock._expiration is never later than what a quorum of nodes has promised, if no
\* ttl undercuts another by more than the drift allowance.
THEOREM ExpirationIsBacked ==
  ASSUME TtlAssumption
  PROVE  Spec => []ExpirationBacked
  <1>1. Init => Backed
    <2> SUFFICES ASSUME Init PROVE Backed
      OBVIOUS
    <2>1. left \in InitialLeft /\ left \in Nat /\ Drift \in Nat /\ lease = left + Drift
      BY ConfigAssumption DEF Init
    <2>2. \A t \in Ttls : left <= t
      BY <2>1 DEF TtlAssumption
    <2>3. auto.stage = "none" /\ manual.stage = "none" /\ Len(requests) = 0
      BY DEF Init, NoRound
    <2> QED
      BY <2>1, <2>2, <2>3 DEF Backed, Promised
  <1>2. ExtensionInv /\ Backed /\ [Next]_vars => Backed'
    BY BackedStep
  <1>3. Backed => ExpirationBacked
    BY DEF Backed, ExpirationBacked
  <1> QED
    BY <1>1, <1>2, <1>3, ExtensionInvariance, PTL DEF Spec


(***************************************************************************)
(* Who loses the lock is told in time.                                     *)
(***************************************************************************)
\* What an extension takes at most: a late timer and a whole round.
Latency == TimerLag + RoundTrip
\* When the lock may run out, seen when the timer is set.
Leases == InitialLeft \union {Ttl - Drift}

\* The threshold leaves time for an extension, and so does what using() starts with and what
\* an extension gives.  An extension of the routine's own, which does not move the
\* timer, lasts until the timer's extension is through.
TimelyOptions ==
  /\ Threshold > Latency
  /\ Ttl - Drift - RoundTrip > Latency
  /\ \A l \in InitialLeft : l > Latency
  /\ \A t \in ManualTtls, l \in Leases : t - Drift - RoundTrip > LeftAfter(l, Threshold) + Latency

\* A round asks for the ttl of its kind.
Asked ==
  /\ auto.stage # "none" => auto.ttl = Ttl
  /\ manual.stage # "none" => manual.ttl \in ManualTtls

\* While the routine runs with its lock and knows of no failure, the timer is set or an
\* extension under way, and the lock lasts until that one is through.
Ahead ==
  phase = "running" /\ release = "none" /\ ~aborted =>
    /\ timer.on \/ auto.stage # "none"
    /\ timer.on => /\ left > timer.due + Latency
                   /\ \E l \in Leases : timer.due <= LeftAfter(l, Threshold)
    /\ Waiting(auto) => left + auto.age > RoundTrip
    /\ auto.stage = "resolved" => left > LeftAfter(Extended(auto), Threshold) + Latency

\* What the options say of numbers.
LEMMA Timings ==
  ASSUME TimelyOptions
  PROVE  /\ Latency \in Nat /\ RoundTrip \in Nat /\ RoundTrip <= Latency
         /\ Threshold \in Nat /\ Drift \in Nat /\ Ttl \in Nat
         /\ TimerLag \in Nat /\ Latency = TimerLag + RoundTrip
         /\ Leases \subseteq Nat /\ InitialLeft \subseteq Leases /\ Ttl - Drift \in Leases
         /\ ManualTtls \subseteq Nat
  <1>1. /\ {Ttl, Drift, Threshold, RoundTrip, TimerLag} \subseteq Nat
        /\ ManualTtls \subseteq Nat /\ InitialLeft \subseteq Nat
    BY ConfigAssumption
  <1>2. Latency \in Nat /\ RoundTrip <= Latency
    BY <1>1 DEF Latency
  <1>3. Ttl - Drift \in Nat
    BY <1>1, <1>2 DEF TimelyOptions
  <1> QED
    BY <1>1, <1>2, <1>3 DEF Leases, Latency

\* What an extension gives, whichever asked for it, lasts for the one that follows.
LEMMA ExtendedEnough ==
  ASSUME TimelyOptions, NEW round \in RoundType
  PROVE  /\ round.ttl = Ttl =>
              /\ Extended(round) <= Ttl - Drift
              /\ LeftAfter(Extended(round), Threshold) <= LeftAfter(Ttl - Drift, Threshold)
              /\ Extended(round) > LeftAfter(Extended(round), Threshold) + Latency
         /\ round.ttl \in ManualTtls =>
              \A l \in Leases : Extended(round) > LeftAfter(l, Threshold) + Latency
  <1>0. /\ round.age \in Nat /\ round.age <= RoundTrip /\ round.ttl \in Nat
        /\ Latency \in Nat /\ RoundTrip \in Nat /\ Threshold \in Nat /\ Drift \in Nat
        /\ Ttl \in Nat /\ ManualTtls \subseteq Nat /\ Leases \subseteq Nat
    BY Timings DEF RoundType
  <1>1. ASSUME round.ttl = Ttl
        PROVE  /\ Extended(round) <= Ttl - Drift
               /\ LeftAfter(Extended(round), Threshold) <= LeftAfter(Ttl - Drift, Threshold)
               /\ Extended(round) > LeftAfter(Extended(round), Threshold) + Latency
    <2>1. Ttl - Drift - RoundTrip > Latency /\ Threshold > Latency
      BY DEF TimelyOptions
    <2>2. Extended(round) = Ttl - (Drift + round.age)
      BY <1>0, <1>1, <2>1 DEF Extended, LeftAfter
    <2> QED
      BY <1>0, <2>1, <2>2 DEF LeftAfter
  <1>2. ASSUME round.ttl \in ManualTtls, NEW l \in Leases
        PROVE  Extended(round) > LeftAfter(l, Threshold) + Latency
    <2>1. round.ttl - Drift - RoundTrip > LeftAfter(l, Threshold) + Latency
      BY <1>2 DEF TimelyOptions
    <2>2. LeftAfter(l, Threshold) \in Nat
      BY <1>0, LeftAfterType
    <2>3. Extended(round) >= round.ttl - Drift - RoundTrip
      BY <1>0, <2>1, <2>2 DEF Extended, LeftAfter
    <2> QED
      BY <1>0, <2>1, <2>2, <2>3, RoundTypes
  <1> QED
    BY <1>1, <1>2

\* Every step keeps the rounds to their ttls.
LEMMA AskedStep ==
  ASSUME ExtensionInv, Asked, [Next]_vars
  PROVE  Asked'
  <1>0. auto \in RoundType /\ manual \in RoundType /\ Types /\ OneAtATime
    BY DEF ExtensionInv, Types
  <1>1. \A r \in RoundType : /\ Older(r).stage = r.stage /\ Older(r).ttl = r.ttl
                             /\ Executed(r).ttl = r.ttl
    BY DEF Older, Executed, RoundType
  <1>2. CASE Execute
    <2>1. auto' = auto \/ (auto.stage = "sent" /\ auto' = Executed(auto))
      BY <1>0, <1>2, AwaitedAfterExecute DEF Execute, OneAtATime
    <2>2. manual' = manual \/ (manual.stage = "sent" /\ manual' = Executed(manual))
      BY <1>0, <1>2, AwaitedAfterExecute DEF Execute, OneAtATime
    <2> QED
      BY <1>0, <1>1, <2>1, <2>2 DEF Asked
  <1>3. CASE ~Execute
    <2>1. \/ auto' = auto \/ auto' = NoRound \/ auto' = Sent(Ttl) \/ auto' = Older(auto)
          \/ auto.stage = "granted" /\ auto' = [auto EXCEPT !.stage = "resolved"]
      BY <1>3 DEF Next, Settle, TimerFires, AutoContinues, RoutineExtends, RoutineReleases,
         RoutineEnds, Stopped, UsingReturns, AutoSucceeds, AutoFails, ManualSucceeds,
         ManualFails, ReleaseFails, Tick, vars
    <2>2. \/ manual' = manual \/ manual' = NoRound \/ manual' = Older(manual)
          \/ \E ttl \in ManualTtls : manual' = Sent(ttl)
      BY <1>3 DEF Next, Settle, TimerFires, AutoContinues, RoutineExtends, RoutineReleases,
         RoutineEnds, Stopped, UsingReturns, AutoSucceeds, AutoFails, ManualSucceeds,
         ManualFails, ReleaseFails, Tick, vars
    <2>3. auto'.stage # "none" => auto'.ttl = Ttl
      BY <1>0, <1>1, <2>1 DEF Asked, Sent, NoRound, RoundType
    <2>4. manual'.stage # "none" => manual'.ttl \in ManualTtls
      BY <1>0, <1>1, <2>2 DEF Asked, Sent, NoRound
    <2> QED
      BY <2>3, <2>4 DEF Asked
  <1> QED
    BY <1>2, <1>3

\* Every step keeps ahead of the end of the lock, or the routine is told.
LEMMA AheadStep ==
  ASSUME TimelyOptions, ExtensionInv, Asked, Ahead, [Next]_vars
  PROVE  Ahead'
  <1> SUFFICES ASSUME phase' = "running", release' = "none", ~aborted'
               PROVE  /\ timer'.on \/ auto'.stage # "none"
                      /\ timer'.on => /\ left' > timer'.due + Latency
                                      /\ \E l \in Leases : timer'.due <= LeftAfter(l, Threshold)
                      /\ Waiting(auto') => left' + auto'.age > RoundTrip
                      /\ auto'.stage = "resolved" =>
                           left' > LeftAfter(Extended(auto'), Threshold) + Latency
    BY DEF Ahead, Extended, Waiting
  <1>0. /\ Types /\ OneAtATime /\ auto \in RoundType /\ manual \in RoundType
        /\ left \in Nat /\ timer \in TimerType /\ timer.due \in Int /\ timer.due >= -TimerLag
        /\ auto.age \in Nat /\ auto.age <= RoundTrip
    BY Timings DEF ExtensionInv, Types, TimerType, Due, RoundType
  <1>1. phase = "running" /\ release = "none" /\ ~aborted
    BY DEF Next, Settle, TimerFires, AutoContinues, RoutineExtends, RoutineReleases, RoutineEnds,
       Stopped, UsingReturns, Execute, AutoSucceeds, AutoFails, ManualSucceeds, ManualFails,
       ReleaseFails, Tick, SendRelease, vars
  <1>2. /\ timer.on \/ auto.stage # "none"
        /\ timer.on => /\ left > timer.due + Latency
                       /\ \E l \in Leases : timer.due <= LeftAfter(l, Threshold)
        /\ Waiting(auto) => left + auto.age > RoundTrip
        /\ auto.stage = "resolved" => left > LeftAfter(Extended(auto), Threshold) + Latency
    BY <1>1 DEF Ahead
  <1>3. left > 0
    <2>1. LeftAfter(Extended(auto), Threshold) \in Nat
      BY <1>0, RoundTypes, LeftAfterType, Timings
    <2>2. auto.stage # "none" => Waiting(auto) \/ auto.stage = "resolved"
      BY <1>0 DEF Waiting, RoundType
    <2> QED
      BY <1>0, <1>2, <2>1, <2>2, Timings
  <1>4. CASE UNCHANGED <<left, timer, auto>>
    BY <1>2, <1>4
  <1>5. CASE TimerFires
    <2>1. timer.on /\ timer.due <= 0 /\ timer' = NoTimer /\ ~timer'.on
      BY <1>5 DEF TimerFires, NoTimer
    <2>2. auto' = Sent(Ttl) /\ left' = left
      BY <1>1, <1>3, <1>5 DEF TimerFires, IsValid
    <2>3. left > RoundTrip
      BY <1>0, <1>2, <2>1, Timings
    <2> QED
      BY <2>1, <2>2, <2>3, <1>0, Timings DEF Sent
  <1>6. CASE AutoSucceeds
    <2>1. /\ auto.stage = "granted" /\ auto'.stage = "resolved" /\ Extended(auto') = Extended(auto)
          /\ timer' = timer /\ left' = Extended(auto) /\ ~timer.on
      BY <1>0, <1>6 DEF AutoSucceeds, RoundType, Extended, OneAtATime
    <2>2. auto.ttl = Ttl
      BY <2>1 DEF Asked
    <2>3. Extended(auto) > LeftAfter(Extended(auto), Threshold) + Latency
      BY <1>0, <2>2, ExtendedEnough
    <2> QED
      BY <2>1, <2>3 DEF Waiting
  <1>7. CASE AutoContinues
    <2>1. auto.stage = "resolved" /\ auto' = NoRound /\ auto'.stage = "none" /\ left' = left
      BY <1>7 DEF AutoContinues, NoRound
    <2>2. timer' = NextExtension(Extended(auto))
      BY <1>1, <1>3, <1>7 DEF AutoContinues, IsValid
    <2>3. timer'.on /\ timer'.due = LeftAfter(Extended(auto), Threshold)
      BY <2>2 DEF NextExtension
    <2>4. auto.ttl = Ttl
      BY <2>1 DEF Asked
    <2>5. Ttl - Drift \in Leases /\ timer'.due <= LeftAfter(Ttl - Drift, Threshold)
      BY <1>0, <2>3, <2>4, ExtendedEnough, Timings
    <2> QED
      BY <1>2, <2>1, <2>3, <2>5 DEF Waiting
  <1>8. CASE ManualSucceeds
    <2>1. manual.stage = "granted" /\ left' = Extended(manual) /\ timer' = timer /\ auto' = auto
      BY <1>8 DEF ManualSucceeds
    <2>2. manual.ttl \in ManualTtls
      BY <2>1 DEF Asked
    <2>3. \A l \in Leases : left' > LeftAfter(l, Threshold) + Latency
      BY <1>0, <2>1, <2>2, ExtendedEnough
    <2>4. left' \in Nat /\ \A l \in Leases : LeftAfter(l, Threshold) \in Nat
      BY <1>0, <2>1, RoundTypes, LeftAfterType, Timings
    <2>5. left' > RoundTrip
      BY <2>3, <2>4, Timings
    <2>6. timer.on => left' > timer.due + Latency
      BY <1>0, <1>2, <2>3, <2>4, Timings
    <2>7. ASSUME auto.stage = "resolved"
          PROVE  left' > LeftAfter(Extended(auto), Threshold) + Latency
      <3>1. auto.ttl = Ttl
        BY <2>7 DEF Asked
      <3>2. LeftAfter(Extended(auto), Threshold) <= LeftAfter(Ttl - Drift, Threshold)
        BY <1>0, <3>1, ExtendedEnough
      <3>3. LeftAfter(Extended(auto), Threshold) \in Nat
        BY <1>0, RoundTypes, LeftAfterType, Timings
      <3> QED
        BY <2>3, <2>4, <3>2, <3>3, Timings
    <2> QED
      BY <1>0, <1>2, <2>1, <2>4, <2>5, <2>6, <2>7, Timings
  <1>9. CASE Execute
    <2>1. left' = left /\ timer' = timer
      BY <1>9 DEF Execute
    <2>2. \/ auto' = auto
          \/ /\ auto.stage = "sent" /\ auto'.age = auto.age
             /\ auto'.stage \in {"granted", "refused"}
      <3>1. auto' = auto \/ (auto.stage = "sent" /\ auto' = Executed(auto))
        BY <1>0, <1>9, AwaitedAfterExecute DEF Execute, OneAtATime
      <3> QED
        BY <1>0, <3>1 DEF Executed, RoundType
    <2> QED
      BY <1>2, <2>1, <2>2 DEF Waiting
  <1>10. CASE Tick
    <2>1. /\ auto.stage # "resolved" /\ (Waiting(auto) => auto.age < RoundTrip)
          /\ auto' = Older(auto) /\ left' = left - 1
          /\ timer' = IF timer.on THEN [timer EXCEPT !.due = @ - 1] ELSE timer
      BY <1>0, <1>3, <1>10 DEF Tick, LeftAfter
    <2>2. timer'.on = timer.on /\ (timer.on => timer'.due = timer.due - 1)
      BY <1>0, <2>1 DEF TimerType
    <2>3. /\ auto'.stage = auto.stage /\ (Waiting(auto) => auto'.age = auto.age + 1)
      BY <1>0, <2>1 DEF Older, RoundType
    <2>4. Waiting(auto') <=> Waiting(auto)
      BY <2>3 DEF Waiting
    <2>5. timer.on => /\ left' > timer'.due + Latency
                      /\ \E l \in Leases : timer'.due <= LeftAfter(l, Threshold)
      <3> SUFFICES ASSUME timer.on
                   PROVE  /\ left' > timer'.due + Latency
                          /\ \E l \in Leases : timer'.due <= LeftAfter(l, Threshold)
        OBVIOUS
      <3>1. PICK l \in Leases : timer.due <= LeftAfter(l, Threshold)
        BY <1>2
      <3>2. LeftAfter(l, Threshold) \in Nat
        BY LeftAfterType, Timings
      <3> QED
        BY <1>0, <1>2, <2>1, <2>2, <3>1, <3>2, Timings
    <2> QED
      BY <1>0, <1>2, <2>1, <2>2, <2>3, <2>4, <2>5, Timings
  <1>11. CASE AutoFails \/ RoutineEnds \/ RoutineReleases \/ Stopped \/ UsingReturns
    BY <1>11 DEF AutoFails, RoutineEnds, RoutineReleases, SendRelease, Stopped, UsingReturns
  <1>12. CASE RoutineExtends \/ ManualFails \/ ReleaseFails \/ UNCHANGED vars
    BY <1>4, <1>12 DEF RoutineExtends, ManualFails, ReleaseFails, vars
  <1> QED
    BY <1>5, <1>6, <1>7, <1>8, <1>9, <1>10, <1>11, <1>12 DEF Next, Settle

\* A routine never outlives its lock unawares, if the options leave time for an extension
\* before the lock runs out: a late timer and a whole round trip.
THEOREM ToldBeforeExpiry ==
  ASSUME TimelyOptions
  PROVE  Spec => []ToldInTime
  <1>1. Init => Asked /\ Ahead
    <2> SUFFICES ASSUME Init PROVE Asked /\ Ahead
      OBVIOUS
    <2>1. /\ left \in InitialLeft /\ left \in Nat /\ left \in Leases /\ left > Latency
          /\ auto.stage = "none" /\ manual.stage = "none"
      BY Timings DEF Init, NoRound, TimelyOptions
    <2>2. timer.on /\ timer.due = LeftAfter(left, Threshold) /\ timer.due \in Nat
      BY <2>1, Timings, LeftAfterType DEF Init, NextExtension, TimelyOptions
    <2>3. left > timer.due + Latency
      BY <2>1, <2>2, Timings DEF LeftAfter, TimelyOptions
    <2> QED
      BY <2>1, <2>2, <2>3 DEF Asked, Ahead, Waiting
  <1>2. ExtensionInv /\ Asked /\ Ahead /\ [Next]_vars => Asked' /\ Ahead'
    BY AskedStep, AheadStep
  <1>3. ExtensionInv /\ Ahead => ToldInTime
    <2> SUFFICES ASSUME ExtensionInv, Ahead, phase = "running", release = "none", ~aborted
                 PROVE  left # 0
      BY DEF ToldInTime
    <2>1. /\ left \in Nat /\ auto \in RoundType /\ timer.due \in Int /\ timer.due >= -TimerLag
          /\ auto.age \in Nat /\ auto.age <= RoundTrip
      BY Timings DEF ExtensionInv, Types, TimerType, Due, RoundType
    <2>2. LeftAfter(Extended(auto), Threshold) \in Nat
      BY <2>1, RoundTypes, LeftAfterType, Timings
    <2>3. auto.stage # "none" => Waiting(auto) \/ auto.stage = "resolved"
      BY <2>1 DEF Waiting, RoundType
    <2> QED
      BY <2>1, <2>2, <2>3, Timings DEF Ahead
  <1> QED
    BY <1>1, <1>2, <1>3, ExtensionInvariance, PTL DEF Spec
=============================================================================
