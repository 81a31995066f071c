----------------------------- MODULE LeaseLock -----------------------------
(***************************************************************************)
(* What the pessimistic lock promises its callers: a lease.  A lease is    *)
(* granted once, may be prolonged or shortened while it is owned, and ends *)
(* by being given up or by running out.  No two leases on a common         *)
(* resource run at the same time.  There are no nodes and no messages.     *)
(***************************************************************************)
EXTENDS Integers

CONSTANTS Client, Conflict(_, _)

VARIABLES
  clock,  \* the time every caller reads
  stage,  \* stage[c]: "waiting" for the lease, its "owner", or "done" with it
  until   \* until[c]: when the lease that c owns runs out

lvars == <<clock, stage, until>>

Runs(c) == stage[c] = "owner" /\ clock < until[c]

\* No lease that conflicts with c's is running.
Exclusive(c) == \A d \in Client : Conflict(c, d) => ~Runs(d)

LInit ==
  /\ clock = 0
  /\ stage = [c \in Client |-> "waiting"]
  /\ until \in [Client -> Int]

LTick ==
  /\ clock' \in Int /\ clock' > clock
  /\ UNCHANGED <<stage, until>>

\* Only c's lease gets a new end.
Move(c) == until' \in [Client -> Int] /\ \A d \in Client \ {c} : until'[d] = until[d]

\* A lease is granted only with some time left on it, and only exclusively.
Grant(c) ==
  /\ stage[c] = "waiting"
  /\ Exclusive(c)
  /\ stage' = [stage EXCEPT ![c] = "owner"]
  /\ Move(c) /\ until'[c] > clock
  /\ UNCHANGED clock

\* An owner may revive a lease that ran out, but not while another one runs.
Renew(c) ==
  /\ stage[c] = "owner"
  /\ Move(c)
  /\ until'[c] > clock => Exclusive(c)
  /\ UNCHANGED <<clock, stage>>

\* The lease is given up, or was never obtained; the same call never owns again.
Finish(c) ==
  /\ stage[c] # "done"
  /\ stage' = [stage EXCEPT ![c] = "done"]
  /\ UNCHANGED <<clock, until>>

\* What happens to until after the lease is given up is of no consequence.
Forget(c) ==
  /\ stage[c] = "done"
  /\ Move(c)
  /\ UNCHANGED <<clock, stage>>

LNext ==
  \/ LTick
  \/ \E c \in Client : Grant(c) \/ Renew(c) \/ Finish(c) \/ Forget(c)

LSpec == LInit /\ [][LNext]_lvars
=============================================================================
