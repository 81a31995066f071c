------------------------- MODULE OptimisticRedlock -------------------------
(***************************************************************************)
(* algorithms/optimistic-redlock.ts: a versioned value, kept on every      *)
(* node, which is read, written, swapped and deleted by rounds without a   *)
(* lock, or by transactions, which hold the lock of InternalRedlock        *)
(* around a read and the operation's rounds.                               *)
(*                                                                         *)
(* Every round is a Promise.all that turns errors into null.               *)
(***************************************************************************)
EXTENDS InternalRedlock

CONSTANTS
  Casts,       \* who makes which call with which methods; and the bounds, for this cast
  MaxOps,      \* bound: calls of those methods, per client
  MaxConflicts \* bound: maxRetries of transaction()

\* transaction(), a caller of acquireOptimisticWrite(), a caller of acquire().
Role == {"transaction", "optimistic", "locker"}

\* OptimisticLock.update, compareAndSwap, delete and refresh.
Method == {"writing", "swapping", "deleting", "refreshing"}

ASSUME OptimisticAssumption ==
  /\ Casts # {}
  /\ Casts \subseteq [role : [Client -> Role], methods : SUBSET Method, calls : 0..MaxOps,
                     faults : 0..MaxFaults, time : 0..MaxTime]
  /\ MaxOps \in Nat /\ MaxConflicts \in Nat \ {0}

VARIABLES
  cast,   \* cast.role[c]: the call c makes; cast.methods: what its operation uses
  data,   \* data[n]: value and version on node n
  work,   \* work[c]: where the operation stands, and the answers of its round
  seen,   \* seen[c]: OptimisticLock.value and its _currentVersion
  count,  \* count[c]: operations, and attempts of the transaction so far
  last,   \* history: the newest write or swap that reported success, with the lowest version it wrote
  won,    \* history: won[v] updates of version v reported success
  removed,\* history: somebody deleted the value
  strays, \* history: a rollback undid a version that its own round had not written
  blind,  \* history: a read agreed on nothing although a version had been committed
  late    \* history: a transaction outlived the validity of its lock

history == <<last, won, removed, strays, blind, late>>
dataVars == <<cast, data, work, seen, count, history>>
vars == <<lockVars, dataVars>>

\* Values are told apart by who wrote them; no version key is version 0.
Datum == [value : Client \union {NoClient}, version : Nat]
Absent == [value |-> NoClient, version |-> 0]

\* "conflict": the operation threw because an update of its own returned false.
Step == {"none", "reading", "inside", "undoing", "conflict", "done"} \union Method

\* Every operation adds at most one version.
MaxVersion == MaxOps * Cardinality(Client)

\* got[n] is the datum node n answered in the round in progress; wrote[n], a history,
\* the version it wrote, heard of or not.
NoWork == [step |-> "none", vote |-> NoVotes, got |-> [n \in Node |-> Absent],
           wrote |-> [n \in Node |-> 0], undo |-> 0]
Work == [step : Step, vote : [Node -> Vote], got : [Node -> Datum], wrote : [Node -> Nat],
         undo : Nat]
At(step) == [NoWork EXCEPT !.step = step]
Asking(step) == [At(step) EXCEPT !.vote = Polling]

Heard(c) == AllAnswered(work[c].vote)
Voters(c) == With(work[c].vote, "for")

(***************************************************************************)
(* The scripts.                                                            *)
(***************************************************************************)
\* Node n answers a command of c: executed and heard, executed and its answer lost,
\* or lost before it was executed.
Answer(c, n, granted, old, new) ==
  LET run == data' = [data EXCEPT ![n] = IF granted THEN new ELSE old]
      wrote == IF granted /\ work[c].step \in {"writing", "swapping"} THEN new.version
               ELSE work[c].wrote[n]
  IN
  /\ work[c].vote[n] = "pending"
  /\ \/ /\ run
        /\ work' = [work EXCEPT ![c] = [@ EXCEPT !.vote[n] = IF granted THEN "for" ELSE "against",
                                                !.got[n] = IF granted THEN new ELSE Absent,
                                                !.wrote[n] = wrote]]
        /\ UNCHANGED faults
     \/ /\ faults < MaxFaults /\ faults' = faults + 1
        /\ run
        /\ work' = [work EXCEPT ![c] = [@ EXCEPT !.vote[n] = "error", !.wrote[n] = wrote]]
     \/ /\ faults < MaxFaults /\ faults' = faults + 1
        /\ work' = [work EXCEPT ![c] = [@ EXCEPT !.vote[n] = "error"]]
        /\ UNCHANGED data

RunRead(c, n) ==
  /\ work[c].step \in {"reading", "refreshing"}
  /\ Answer(c, n, data[n].version # 0, data[n], data[n])
  /\ UNCHANGED <<now, lock, pc, vote, start, validity, tries, cast, seen, count, history>>

\* Mutation: whoever writes wins.
AnyVersion(c, n) == TRUE

\* The version is the expected one; a first write expects version 0.
WriteGranted(c, n) == data[n].version = seen[c].version

SwapGranted(c, n) == data[n].version # 0 /\ data[n].value = seen[c].value

Next1(c, n) == [value |-> c, version |-> data[n].version + 1]

RunWrite(c, n) ==
  /\ \/ work[c].step = "writing" /\ Answer(c, n, WriteGranted(c, n), data[n], Next1(c, n))
     \/ work[c].step = "swapping" /\ Answer(c, n, SwapGranted(c, n), data[n], Next1(c, n))
  /\ UNCHANGED <<now, lock, pc, vote, start, validity, tries, cast, seen, count, history>>

RunDelete(c, n) ==
  /\ work[c].step = "deleting"
  /\ Answer(c, n, data[n].version # 0 /\ WriteGranted(c, n), data[n], Absent)
  /\ removed' = (removed \/ data' # data)
  /\ UNCHANGED <<now, lock, pc, vote, start, validity, tries, cast, seen, count, last, won, strays, blind, late>>

\* Mutation: the guard of the script is missing.
UndoAnything(c, n) == data[n].version # 0

UndoGranted(c, n) == data[n].version = work[c].undo + 1

\* Mutation: a first write is rolled back like any other.
OnlyDecremented(c, n) == [data[n] EXCEPT !.version = @ - 1]

\* The version goes back, the value stays; what a first write created is deleted.
Undone(c, n) ==
  IF work[c].undo = 0 THEN Absent ELSE [data[n] EXCEPT !.version = @ - 1]

RunRollback(c, n) ==
  /\ work[c].step = "undoing"
  /\ Answer(c, n, UndoGranted(c, n), data[n], Undone(c, n))
  /\ strays' = (strays \/ (data' # data /\ data[n].version # work[c].wrote[n]))
  /\ UNCHANGED <<now, lock, pc, vote, start, validity, tries, cast, seen, count, last, won, removed, blind, late>>

(***************************************************************************)
(* The rounds.                                                             *)
(***************************************************************************)
\* transaction() reads under its lock; acquireOptimisticWrite() just reads.
StartRead(c) ==
  /\ work[c].step = "none"
  /\ \/ cast.role[c] = "transaction" /\ pc[c] = "held"
     \/ cast.role[c] = "optimistic"
  /\ work' = [work EXCEPT ![c] = Asking("reading")]
  /\ UNCHANGED <<lockVars, cast, data, seen, count, history>>

\* The answers a quorum agrees on: one, or none, which reads as absent.
Agreed(c) == {d \in {work[c].got[n] : n \in Voters(c)} :
                Cardinality({n \in Voters(c) : work[c].got[n] = d}) >= QuorumSize}

ReadDone(c) ==
  /\ work[c].step = "reading" /\ Heard(c)
  /\ \/ Agreed(c) = {} /\ seen' = [seen EXCEPT ![c] = Absent]
     \/ \E d \in Agreed(c) : seen' = [seen EXCEPT ![c] = d]
  /\ work' = [work EXCEPT ![c] = At("inside")]
  /\ blind' = (blind \/ (Agreed(c) = {} /\ last.version # 0))
  /\ UNCHANGED <<lockVars, cast, data, count, last, won, removed, strays, late>>

\* What update() tells its caller: false, which the operation may turn into a conflict.
Refused(c) == \E step \in {"inside", "conflict"} : work' = [work EXCEPT ![c] = At(step)]

\* refresh() takes over the version only, and throws when there is no value.
RefreshDone(c) ==
  /\ work[c].step = "refreshing" /\ Heard(c)
  /\ \/ Agreed(c) = {} /\ Refused(c) /\ UNCHANGED seen
     \/ \E d \in Agreed(c) : /\ seen' = [seen EXCEPT ![c].version = d.version]
                            /\ work' = [work EXCEPT ![c] = At("inside")]
  /\ UNCHANGED <<lockVars, cast, data, count, history>>

\* The operation calls a method; compareAndSwap expects the value read.
StartOp(c) ==
  /\ work[c].step = "inside"
  /\ count[c].ops < cast.calls
  /\ count' = [count EXCEPT ![c].ops = @ + 1]
  /\ \E method \in cast.methods :
       /\ method = "swapping" => seen[c].value # NoClient
       /\ work' = [work EXCEPT ![c] = Asking(method)]
  /\ UNCHANGED <<lockVars, cast, data, seen, history>>

\* The new version is that of the first node that wrote, whichever this is.
WriteSucceeds(c) ==
  /\ work[c].step \in {"writing", "swapping"} /\ Heard(c)
  /\ Quorum(work[c].vote)
  /\ \E n \in Voters(c) : seen' = [seen EXCEPT ![c].version = work[c].got[n].version]
  /\ \E d \in {work[c].got[n] : n \in Voters(c)} :
       /\ \A n \in Voters(c) : d.version <= work[c].got[n].version
       /\ last' = IF d.version > last.version THEN d ELSE last
  /\ won' = IF work[c].step = "writing" THEN [won EXCEPT ![seen[c].version] = @ + 1] ELSE won
  /\ work' = [work EXCEPT ![c] = At("inside")]
  /\ UNCHANGED <<lockVars, cast, data, count, removed, strays, blind, late>>

\* Nobody wrote.
WriteFails(c) ==
  /\ work[c].step \in {"writing", "swapping"} /\ Heard(c)
  /\ Voters(c) = {}
  /\ Refused(c)
  /\ UNCHANGED <<lockVars, cast, data, seen, count, history>>

\* Less than a quorum wrote: ALL nodes are asked to roll back.
StartRollback(c) ==
  /\ work[c].step \in {"writing", "swapping"} /\ Heard(c)
  /\ Voters(c) # {} /\ ~Quorum(work[c].vote)
  /\ \E n \in Voters(c) :
       work' = [work EXCEPT ![c] =
                 [Asking("undoing") EXCEPT !.wrote = work[c].wrote, !.undo =
                   IF work[c].step = "writing" THEN seen[c].version
                   ELSE work[c].got[n].version - 1]]
  /\ UNCHANGED <<lockVars, cast, data, seen, count, history>>

RollbackDone(c) ==
  /\ work[c].step = "undoing" /\ Heard(c)
  /\ Refused(c)
  /\ UNCHANGED <<lockVars, cast, data, seen, count, history>>

DeleteDone(c) ==
  /\ work[c].step = "deleting" /\ Heard(c)
  /\ \/ Quorum(work[c].vote) /\ work' = [work EXCEPT ![c] = At("inside")]
     \/ ~Quorum(work[c].vote) /\ Refused(c)
  /\ UNCHANGED <<lockVars, cast, data, seen, count, history>>

(***************************************************************************)
(* transaction(): the operation ends, the lock is released, and a conflict *)
(* makes it start over.                                                    *)
(***************************************************************************)
OperationEnds(c) ==
  /\ cast.role[c] = "transaction"
  /\ work[c].step \in {"inside", "conflict"}
  /\ StartRelease(c)
  /\ work' = [work EXCEPT ![c] = At(IF work[c].step = "inside" THEN "done" ELSE "conflict")]
  /\ UNCHANGED <<cast, data, seen, count, history>>

Conflict(c) ==
  /\ cast.role[c] = "transaction"
  /\ work[c].step = "conflict" /\ pc[c] = "released"
  /\ count[c].conflicts < MaxConflicts - 1
  /\ count' = [count EXCEPT ![c].conflicts = @ + 1]
  /\ work' = [work EXCEPT ![c] = NoWork]
  /\ pc' = [pc EXCEPT ![c] = "idle"]
  /\ tries' = [tries EXCEPT ![c].lock = 0]
  /\ UNCHANGED <<now, lock, vote, start, validity, faults, cast, data, seen, history>>

\* The lock runs out; nothing stops the operation.
Time ==
  /\ Tick
  /\ late' = (late \/ \E c \in Client : cast.role[c] = "transaction" /\ pc[c] = "held" /\ now' >= validity[c])
  /\ UNCHANGED <<cast, data, work, seen, count, last, won, removed, strays, blind>>

(***************************************************************************)
(* The specification.                                                      *)
(***************************************************************************)
Init ==
  /\ LockInit
  /\ cast \in Casts
  /\ data = [n \in Node |-> Absent]
  /\ work = [c \in Client |-> NoWork]
  /\ seen = [c \in Client |-> Absent]
  /\ count = [c \in Client |-> [ops |-> 0, conflicts |-> 0]]
  /\ last = Absent
  /\ won = [v \in 0..MaxVersion |-> 0]
  /\ removed = FALSE /\ strays = FALSE /\ blind = FALSE /\ late = FALSE

LockAction ==
  \E c \in Client :
    /\ cast.role[c] # "optimistic"
    /\ \/ StartLock(c) \/ LockStep(c)
       \/ cast.role[c] = "locker" /\ (StartExtend(c) \/ StartRelease(c))

DataAction ==
  \E c \in Client :
    \/ StartRead(c) \/ ReadDone(c) \/ RefreshDone(c) \/ StartOp(c)
    \/ WriteSucceeds(c) \/ WriteFails(c) \/ StartRollback(c) \/ RollbackDone(c) \/ DeleteDone(c)
    \/ OperationEnds(c) \/ Conflict(c)
    \/ \E n \in Node : RunRead(c, n) \/ RunWrite(c, n) \/ RunDelete(c, n) \/ RunRollback(c, n)

Next ==
  /\ \/ LockAction /\ UNCHANGED dataVars
     \/ DataAction
     \/ Time
  /\ faults' <= cast.faults /\ now' <= cast.time

Spec == Init /\ [][Next]_vars

(***************************************************************************)
(* Properties.                                                             *)
(***************************************************************************)
\* Every variable has its type; a node holds a value exactly when it holds a version.
TypeOK ==
  /\ LockTypeOK
  /\ cast \in Casts
  /\ data \in [Node -> Datum]
  /\ \A n \in Node : data[n].value = NoClient <=> data[n].version = 0
  /\ work \in [Client -> Work]
  /\ seen \in [Client -> Datum]
  /\ count \in [Client -> [ops : Nat, conflicts : Nat]]
  /\ last \in Datum
  /\ won \in [0..MaxVersion -> Nat]
  /\ {removed, strays, blind, late} \subseteq BOOLEAN

\* No round on the value is under way.
Quiet == \A c \in Client : work[c].step \in {"none", "inside", "conflict", "done"}

\* A write that reported success stays on a quorum of nodes until a later version
\* replaces it, unless somebody deletes it: "a version written by another client in the
\* meantime is left untouched" by rollbackWrite().
CommitsSurvive ==
  Quiet /\ ~removed => Cardinality({n \in Node : data[n] = last \/ data[n].version > last.version})
             >= QuorumSize

\* No lost updates: of all the callers that saw a version at most one succeeds in
\* updating it, whatever gets lost, unless the value was deleted, or a rollback undid
\* what its own round had not written.
NoLostUpdate == ~strays /\ ~removed => \A v \in DOMAIN won : won[v] <= 1

\* Nobody goes round the transactions, they stay within the validity of their lock, and
\* each read found a version if one was committed.
Undisturbed == ~late /\ ~blind /\ ~removed /\ \A c \in Client : cast.role[c] # "optimistic"

\* Then a version that update() committed stays on a quorum, whatever commands and answers
\* of later transactions get lost: their rollbacks never take it back.  Its value may
\* change (a rollback leaves the value it undoes), and swaps may take it back.
TransactionsKeepCommits ==
  Undisturbed /\ "swapping" \notin cast.methods
    => Cardinality({n \in Node : data[n].version >= last.version}) >= QuorumSize
=============================================================================
