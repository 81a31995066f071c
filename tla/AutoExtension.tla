--------------------------- MODULE AutoExtension ----------------------------
(***************************************************************************)
(* Lock.using(): a routine that runs while AutoExtensionManager extends    *)
(* its lock from a timer, the routine's own extend() and release() calls   *)
(* beside it, stop() and the final release().                              *)
(*                                                                         *)
(* The rounds on the Redis nodes are those of module Redlock; here a round *)
(* is one request on a connection that keeps the order of requests, which  *)
(* the nodes execute and whose answer is delivered later, if it is; it is  *)
(* not sent again after NOSCRIPT.                                          *)
(* Points in time are kept as the time left until then.                    *)
(***************************************************************************)
EXTENDS Integers, Sequences

CONSTANTS
  Ttl,          \* the ttl of every automatic extension
  ManualTtls,   \* the ttl arguments the routine calls extend() with
  Drift,        \* Math.round(driftFactor * ttl) + 2
  Threshold,    \* autoExtendThreshold
  InitialLeft,  \* time the lock may have left when using() is called
  RoundTrip,    \* the longest wait for a round (operationTimeout)
  TimerLag,     \* the most a timer fires late
  MayFail,      \* whether rounds may fail or time out
  MaxRequests   \* bound of the model: requests waiting on the connection

ASSUME ConfigAssumption ==
  /\ {Ttl, Drift, Threshold, RoundTrip, TimerLag, MaxRequests} \subseteq Nat
  /\ Threshold < Ttl
  /\ ManualTtls \subseteq Nat /\ InitialLeft \subseteq Nat
  /\ MayFail \in BOOLEAN

VARIABLES
  phase,       \* of using(): "running", "stopping", "releasing", "done"
  left,        \* Lock._expiration
  mgrLeft,     \* AutoExtensionManager._expiration
  lease,       \* until when a quorum of nodes keeps the keys of the lock
  timer,       \* extensionTimer
  auto,        \* performExtension's round
  manual,      \* the round of the routine's extend()
  release,     \* "none", "sent", "failed" or "released"
  requests,    \* sent and not executed yet, in order
  aborted      \* signal.aborted

vars == <<phase, left, mgrLeft, lease, timer, auto, manual, release,
          requests, aborted>>

NoTimer == [on |-> FALSE, due |-> 0]
NoRound == [stage |-> "none", ttl |-> 0, age |-> 0]

\* !_released && !isExpired
IsValid == release # "released" /\ left > 0

LeftAfter(n, t) == IF n > t THEN n - t ELSE 0

\* Mutation: the extension counts from its answer.
ExtendedFromNow(round) == LeftAfter(round.ttl, Drift)

\* startTime + ttl - drift, seen when the round has taken its age
Extended(round) == LeftAfter(round.ttl, Drift + round.age)

\* Mutation: the threshold is forgotten.
NextAtExpiration(timeToExpiration) == [on |-> TRUE, due |-> timeToExpiration]
\* Mutation: a negative delay.
NextUnclamped(timeToExpiration) == [on |-> TRUE, due |-> timeToExpiration - Threshold]

\* setTimeout(max(0, timeToExpiration - threshold))
NextExtension(timeToExpiration) ==
  [on |-> TRUE, due |-> LeftAfter(timeToExpiration, Threshold)]

Init ==
  /\ phase = "running"
  /\ left \in InitialLeft
  /\ mgrLeft = left
  /\ lease = left + Drift
  /\ timer = IF Threshold > 0 THEN NextExtension(left) ELSE NoTimer
  /\ auto = NoRound
  /\ manual = NoRound
  /\ release = "none"
  /\ requests = <<>>
  /\ aborted = FALSE

Request(op, ttl) ==
  /\ Len(requests) < MaxRequests
  /\ requests' = Append(requests, [op |-> op, ttl |-> ttl, live |-> TRUE])
Sent(ttl) == [stage |-> "sent", ttl |-> ttl, age |-> 0]

\* The caller no longer waits: its request may be executed all the same.
GiveUp(op) ==
  requests' = [i \in 1..Len(requests) |->
                 IF requests[i].op = op THEN [requests[i] EXCEPT !.live = FALSE]
                 ELSE requests[i]]

(***************************************************************************)
(* The manager's timer and performExtension.                               *)
(***************************************************************************)
\* An expired or released lock is not extended any more, and the timer is not
\* set again.
TimerFires ==
  /\ timer.on /\ timer.due <= 0
  /\ timer' = NoTimer
  /\ \/ /\ ~IsValid \/ aborted
        /\ UNCHANGED <<auto, requests, aborted>>
     \/ /\ IsValid /\ ~aborted
        /\ \/ mgrLeft = 0 /\ aborted' = TRUE /\ UNCHANGED <<auto, requests>>
           \/ mgrLeft > 0 /\ auto' = Sent(Ttl) /\ Request("auto", Ttl) /\ UNCHANGED aborted
  /\ UNCHANGED <<phase, left, mgrLeft, lease, manual, release>>

\* The extend callback of using() stores the expiration in the lock ...
AutoSucceeds ==
  /\ auto.stage = "granted"
  /\ left' = Extended(auto)
  /\ auto' = [auto EXCEPT !.stage = "resolved"]
  /\ UNCHANGED <<phase, mgrLeft, lease, timer, manual, release, requests, aborted>>

\* ... and performExtension, a microtask later, in the manager; then it sets the
\* timer again, if the lock is still valid and stop() has not been called.
AutoContinues ==
  /\ auto.stage = "resolved"
  /\ auto' = NoRound
  /\ mgrLeft' = IF phase = "running" THEN Extended(auto) ELSE mgrLeft
  /\ timer' = IF phase = "running" /\ ~aborted /\ IsValid THEN NextExtension(Extended(auto))
              ELSE timer
  /\ UNCHANGED <<phase, left, lease, manual, release, requests, aborted>>

\* Mutation: a failed extension is only reported to onError.
FailQuietly ==
  /\ auto.stage = "refused" \/ (auto.stage \in {"sent", "granted"} /\ MayFail)
  /\ auto' = NoRound
  /\ GiveUp("auto")
  /\ UNCHANGED <<phase, left, mgrLeft, lease, timer, manual, release, aborted>>

\* The round throws, for whatever reason: the signal is aborted.
AutoFails ==
  /\ auto.stage = "refused" \/ (auto.stage \in {"sent", "granted"} /\ MayFail)
  /\ auto' = NoRound
  /\ aborted' = TRUE
  /\ GiveUp("auto")
  /\ UNCHANGED <<phase, left, mgrLeft, lease, timer, manual, release>>

(***************************************************************************)
(* The routine's own extend() and release().                               *)
(***************************************************************************)
RoutineExtends ==
  /\ phase = "running"
  /\ IsValid
  /\ manual.stage = "none"
  /\ \E ttl \in ManualTtls : manual' = Sent(ttl) /\ Request("manual", ttl)
  /\ UNCHANGED <<phase, left, mgrLeft, lease, timer, auto, release, aborted>>

\* updateExpiration moves the manager's expiration, not its timer.
ManualSucceeds ==
  /\ manual.stage = "granted"
  /\ left' = Extended(manual)
  /\ mgrLeft' = IF phase \in {"running", "stopping"} THEN Extended(manual) ELSE mgrLeft
  /\ manual' = NoRound
  /\ UNCHANGED <<phase, lease, timer, auto, release, requests, aborted>>

ManualFails ==
  /\ manual.stage = "refused" \/ (manual.stage \in {"sent", "granted"} /\ MayFail)
  /\ manual' = NoRound
  /\ GiveUp("manual")
  /\ UNCHANGED <<phase, left, mgrLeft, lease, timer, auto, release, aborted>>

SendRelease ==
  /\ release \in {"none", "failed"}
  /\ release' = "sent"
  /\ Request("release", 0)

RoutineReleases ==
  /\ phase = "running"
  /\ SendRelease
  /\ UNCHANGED <<phase, left, mgrLeft, lease, timer, auto, manual, aborted>>

(***************************************************************************)
(* The nodes.                                                              *)
(***************************************************************************)
\* EXTEND_SCRIPT and RELEASE_SCRIPT, as far as a quorum of nodes answers them alike.
Executed(round) == [round EXCEPT !.stage = IF lease > 0 THEN "granted" ELSE "refused"]

Execute ==
  /\ requests # <<>>
  /\ requests' = Tail(requests)
  /\ LET request == Head(requests) IN
     /\ lease' = IF request.op = "release" THEN 0
                 ELSE IF lease > 0 THEN request.ttl ELSE 0
     /\ auto' = IF request.op = "auto" /\ request.live THEN Executed(auto) ELSE auto
     /\ manual' = IF request.op = "manual" /\ request.live THEN Executed(manual) ELSE manual
     /\ release' = IF request.op = "release" /\ request.live THEN "released" ELSE release
  /\ UNCHANGED <<phase, left, mgrLeft, timer, aborted>>

\* release() throws; the lock may be released again.
ReleaseFails ==
  /\ release = "sent" /\ MayFail
  /\ release' = "failed"
  /\ GiveUp("release")
  /\ phase' = IF phase = "releasing" THEN "done" ELSE phase
  /\ UNCHANGED <<left, mgrLeft, lease, timer, auto, manual, aborted>>

(***************************************************************************)
(* The end of using().                                                     *)
(***************************************************************************)
\* stop() clears the timer and waits for the extension under way.
RoutineEnds ==
  /\ phase = "running"
  /\ phase' = "stopping"
  /\ timer' = NoTimer
  /\ UNCHANGED <<left, mgrLeft, lease, auto, manual, release, requests, aborted>>

\* Mutation: stop() does not wait.
StopAtOnce ==
  /\ phase = "stopping"
  /\ phase' = "releasing"
  /\ IF release \in {"none", "failed"} THEN SendRelease ELSE UNCHANGED <<release, requests>>
  /\ UNCHANGED <<left, mgrLeft, lease, timer, auto, manual, aborted>>

\* Mutation: a failed release is never tried again.
StoppedAfterFailure ==
  /\ phase = "stopping"
  /\ auto.stage = "none"
  /\ phase' = "releasing"
  /\ IF release = "none" THEN SendRelease ELSE UNCHANGED <<release, requests>>
  /\ UNCHANGED <<left, mgrLeft, lease, timer, auto, manual, aborted>>

\* Then the lock is released, unless the routine has begun to do so.
Stopped ==
  /\ phase = "stopping"
  /\ auto.stage = "none"
  /\ phase' = "releasing"
  /\ IF release \in {"none", "failed"} THEN SendRelease ELSE UNCHANGED <<release, requests>>
  /\ UNCHANGED <<left, mgrLeft, lease, timer, auto, manual, aborted>>

UsingReturns ==
  /\ phase = "releasing" /\ release = "released"
  /\ phase' = "done"
  /\ UNCHANGED <<left, mgrLeft, lease, timer, auto, manual, release, requests,
                 aborted>>

(***************************************************************************)
(* Time.                                                                   *)
(***************************************************************************)
Waiting(round) == round.stage \in {"sent", "granted", "refused"}
Older(round) == IF Waiting(round) THEN [round EXCEPT !.age = @ + 1] ELSE round

\* Microtasks run before time passes; timers and timeouts are late by a bounded
\* amount.
Tick ==
  /\ auto.stage # "resolved"
  /\ \A round \in {auto, manual} : Waiting(round) => round.age < RoundTrip
  /\ timer.on => timer.due > -TimerLag
  /\ left' = LeftAfter(left, 1)
  /\ mgrLeft' = LeftAfter(mgrLeft, 1)
  /\ lease' = LeftAfter(lease, 1)
  /\ timer' = IF timer.on THEN [timer EXCEPT !.due = @ - 1] ELSE timer
  /\ auto' = Older(auto)
  /\ manual' = Older(manual)
  /\ UNCHANGED <<phase, release, requests, aborted>>

\* What follows a request: it is executed, answered or given up.
Settle ==
  \/ Execute
  \/ AutoSucceeds \/ AutoFails
  \/ ManualSucceeds \/ ManualFails
  \/ ReleaseFails

Next ==
  \/ TimerFires \/ AutoContinues
  \/ RoutineExtends \/ RoutineReleases \/ RoutineEnds
  \/ Stopped \/ UsingReturns
  \/ Settle
  \/ Tick

Spec == Init /\ [][Next]_vars

\* Timers fire, microtasks run, rounds settle (operationTimeout) and time passes.
\* The routine need not end, nor call extend() or release().
Fairness ==
  /\ WF_vars(TimerFires) /\ WF_vars(AutoContinues)
  /\ WF_vars(Stopped) /\ WF_vars(UsingReturns)
  /\ WF_vars(Settle)
  /\ WF_vars(Tick)

FairSpec == Spec /\ Fairness

(***************************************************************************)
(* Properties.                                                             *)
(***************************************************************************)
RoundOK(round) ==
  /\ round.stage \in {"none", "sent", "granted", "refused", "resolved"}
  /\ round.ttl \in Nat
  /\ round.age \in 0..RoundTrip

\* Every variable has its type.
TypeOK ==
  /\ phase \in {"running", "stopping", "releasing", "done"}
  /\ {left, mgrLeft, lease} \subseteq Nat
  /\ timer.on \in BOOLEAN /\ timer.due >= -TimerLag
  /\ RoundOK(auto) /\ RoundOK(manual)
  /\ release \in {"none", "sent", "failed", "released"}
  /\ \A i \in 1..Len(requests) : requests[i].op \in {"auto", "manual", "release"}
  /\ aborted \in BOOLEAN

\* With manual and automatic extensions under way together, the lock's expiration
\* is never later than what a quorum of nodes has promised (Lock._expiration).
ExpirationBacked == release = "none" => left <= lease

\* Once using() has begun to release, nothing of the manager is left that could
\* extend the lock: no timer, no round (stop() waits for an ongoing extension).
NothingAfterStop == phase \in {"releasing", "done"} => ~timer.on /\ auto.stage = "none"

\* A lock runs out under its routine only after the signal was aborted: as long as
\* automatic extensions succeed, a routine never outlives its lock
\* (scheduleNextExtension, performExtension).
ToldInTime == phase = "running" /\ release = "none" /\ left = 0 => aborted

\* At the latest, a routine whose lock has run out is told so through its signal
\* (skills/redlock-toolkit/reference/LOCKING.md, "true if lock was lost").
RoutineIsTold ==
  (phase = "running" /\ left = 0 /\ release = "none")
    ~> (aborted \/ phase # "running" \/ left > 0 \/ release # "none")

\* using() returns once its routine has, whatever is under way then.
UsingSettles == (phase = "stopping") ~> (phase = "done")
=============================================================================
