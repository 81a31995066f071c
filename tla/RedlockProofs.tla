--------------------------- MODULE RedlockProofs ---------------------------
(***************************************************************************)
(* Redlock's type correctness and mutual exclusion, for every number of    *)
(* nodes, calls, keys, retries, extensions and faults, and its refinement  *)
(* of LeaseLock.                                                           *)
(***************************************************************************)
EXTENDS RedlockInv, FiniteSetTheorems, SequenceTheorems, TLAPS

(***************************************************************************)
(* Values and connections.                                                 *)
(***************************************************************************)

\* A drift allowance is an integer.
LEMMA DriftType == \A ttl \in Nat : Drift(ttl) \in Int
  BY TimeAssumption DEF Drift

\* The vote vectors that rounds begin and end with.
LEMMA VotesType ==
  /\ NoVotes \in [Node -> Vote]
  /\ \A refused \in SUBSET Node : Opening(refused) \in [Node -> Vote]
  /\ NoExtend \in ExtendCall
  BY DEF NoVotes, Opening, NoExtend, ExtendCall, Vote

\* Who is refused is a set of nodes, and the count of faults stays a number.
LEMMA RefuseType ==
  ASSUME faults \in Nat, NEW refused \in Refused, Refuse(refused)
  PROVE  refused \in SUBSET Node /\ faults' \in Nat
  <1>1. refused \in SUBSET Node
    BY DEF Refused
  <1>2. Cardinality(refused) \in Nat
    BY <1>1, NodeAssumption, FS_Subset, FS_CardinalityType
  <1> QED
    BY <1>1, <1>2 DEF Refuse

\* Abandoning commands only clears their live flag.
LEMMA AbandonType ==
  ASSUME NEW q \in Seq(Cmd), NEW ops
  PROVE  /\ Abandon(q, ops) \in Seq(Cmd)
         /\ Len(Abandon(q, ops)) = Len(q)
         /\ \A i \in 1..Len(q) :
              /\ Abandon(q, ops)[i].op = q[i].op
              /\ Abandon(q, ops)[i].ttl = q[i].ttl
              /\ Abandon(q, ops)[i].sha = q[i].sha
              /\ Abandon(q, ops)[i].live => q[i].live /\ q[i].op \notin ops
  <1> DEFINE r == Abandon(q, ops)
  <1>1. /\ Len(q) \in Nat /\ DOMAIN r = 1..Len(q)
        /\ \A i \in 1..Len(q) : q[i] \in Cmd
    BY DEF Abandon
  <1>2. \A i \in 1..Len(q) :
          r[i] = IF q[i].op \in ops THEN [q[i] EXCEPT !.live = FALSE] ELSE q[i]
    BY DEF Abandon
  <1>3. \A i \in 1..Len(q) : r[i] \in Cmd
    BY <1>1, <1>2 DEF Cmd
  <1>4. r \in Seq(Cmd) /\ Len(r) = Len(q)
    <2>1. r \in [1..Len(q) -> Cmd]
      BY <1>1, <1>3 DEF Abandon
    <2> QED
      BY <2>1, <1>1, LenProperties
  <1> QED
    BY <1>1, <1>2, <1>4 DEF Cmd

\* What a round sends is a command.
LEMMA CmdType ==
  /\ \A op \in Op, ttl \in Nat : Evalsha(op, ttl) \in Cmd
  /\ Cleanup \in Cmd
  BY DEF Evalsha, Cleanup, Cmd, Op

\* A round sends commands on connections.
LEMMA SendType ==
  ASSUME NEW q \in [Node -> Seq(Cmd)], NEW cmd \in Cmd, NEW refused
  PROVE  Send(q, cmd, refused) \in [Node -> Seq(Cmd)]
  BY AppendProperties DEF Send

\* The end of a round leaves connections with commands.
LEMMA AbandonAllType ==
  ASSUME NEW q \in [Node -> Seq(Cmd)], NEW ops
  PROVE  AbandonAll(q, ops) \in [Node -> Seq(Cmd)]
  BY AbandonType DEF AbandonAll

\* The scripts write entries.
LEMMA StoreType ==
  ASSUME TypeOK, NEW c \in Client, NEW n \in Node, NEW ttl \in Nat
  PROVE  /\ Written(c, n, ttl) \in [Key -> Entry]
         /\ Deleted(c, n) \in [Key -> Entry]
  BY DEF TypeOK, Entry, Written, Deleted, Free

(***************************************************************************)
(* Type correctness.                                                       *)
(***************************************************************************)

\* Running the head of a connection leaves the rest of it.
LEMMA PopType ==
  ASSUME TypeOK, NEW c \in Client, NEW n \in Node, conn[c][n] # <<>>
  PROVE  /\ Head(conn[c][n]) \in Cmd
         /\ Tail(conn[c][n]) \in Seq(Cmd)
         /\ Pop(c, n) => conn' \in [Client -> [Node -> Seq(Cmd)]]
  <1>1. conn[c][n] \in Seq(Cmd)
    BY DEF TypeOK
  <1>2. Head(conn[c][n]) \in Cmd /\ Tail(conn[c][n]) \in Seq(Cmd)
    BY <1>1, HeadTailProperties
  <1>3. ASSUME Pop(c, n) PROVE conn' \in [Client -> [Node -> Seq(Cmd)]]
    <2>1. conn \in [Client -> [Node -> Seq(Cmd)]]
      BY DEF TypeOK
    <2>2. conn' = [conn EXCEPT ![c] = [conn[c] EXCEPT ![n] = Tail(conn[c][n])]]
      BY <1>3, <2>1 DEF Pop
    <2>3. [conn[c] EXCEPT ![n] = Tail(conn[c][n])] \in [Node -> Seq(Cmd)]
      BY <1>2, <2>1
    <2> QED
      BY <2>1, <2>2, <2>3
  <1> QED
    BY <1>2, <1>3

\* An answer is a vote.
LEMMA AnswerType ==
  ASSUME TypeOK, NEW c \in Client, NEW n \in Node, NEW granted \in BOOLEAN,
         Answer(c, n, granted)
  PROVE  vote' \in [Client -> [Node -> Vote]]
  <1>1. (IF granted THEN "for" ELSE "against") \in Vote
    BY DEF Vote
  <1>2. vote \in [Client -> [Node -> Vote]]
    BY DEF TypeOK
  <1> QED
    BY <1>1, <1>2 DEF Answer

\* Calls are only counted.
LEMMA CallsType ==
  ASSUME TypeOK, NEW c \in Client,
         \/ calls' = [calls EXCEPT ![c].extend = @ + 1]
         \/ calls' = [calls EXCEPT ![c].release = @ + 1]
  PROVE  calls' \in [Client -> [extend : Nat, release : Nat]]
  <1>1. /\ calls \in [Client -> [extend : Nat, release : Nat]]
        /\ calls[c] \in [extend : Nat, release : Nat]
    BY DEF TypeOK
  <1>2. calls[c].extend \in Nat /\ calls[c].release \in Nat
    BY <1>1
  <1>3. /\ [calls[c] EXCEPT !.extend = @ + 1] \in [extend : Nat, release : Nat]
        /\ [calls[c] EXCEPT !.release = @ + 1] \in [extend : Nat, release : Nat]
    BY <1>1, <1>2
  <1> QED
    BY <1>1, <1>3

\* Every variable stays within its type in every step.
LEMMA TypeStep == TypeOK /\ [Next]_vars => TypeOK'
  <1> SUFFICES ASSUME TypeOK, [Next]_vars PROVE TypeOK'
    OBVIOUS
  <1> USE VotesType, CmdType
  <1>1. ASSUME NEW c \in Client, StartAttempt(c) PROVE TypeOK'
    <2>1. PICK refused \in Refused : StartAttempt(c)!(refused)
      BY <1>1 DEF StartAttempt
    <2>2. refused \in SUBSET Node /\ faults' \in Nat
      BY <2>1, RefuseType DEF TypeOK
    <2>3. conn' \in [Client -> [Node -> Seq(Cmd)]]
      BY <2>1, SendType, TimeAssumption DEF TypeOK, Op
    <2>4. vote' \in [Client -> [Node -> Vote]]
      BY <2>1, <2>2 DEF TypeOK
    <2>5. attempts' \in [Client -> Nat] /\ start' \in [Client -> Nat]
      BY <2>1 DEF TypeOK
    <2> QED
      BY <2>1, <2>2, <2>3, <2>4, <2>5 DEF TypeOK, PC
  <1>2. ASSUME NEW c \in Client, StartExtend(c) PROVE TypeOK'
    <2>1. PICK ttl \in ExtendTtls, refused \in Refused : StartExtend(c)!(ttl, refused)
      BY <1>2 DEF StartExtend
    <2>2. refused \in SUBSET Node /\ faults' \in Nat
      BY <2>1, RefuseType DEF TypeOK
    <2>3. conn' \in [Client -> [Node -> Seq(Cmd)]]
      BY <2>1, SendType, TimeAssumption DEF TypeOK, Op
    <2>4. ext' \in [Client -> ExtendCall]
      BY <2>1, <2>2, TimeAssumption DEF TypeOK, ExtendCall
    <2>5. calls' \in [Client -> [extend : Nat, release : Nat]]
      BY <2>1, CallsType
    <2> QED
      BY <2>1, <2>2, <2>3, <2>4, <2>5 DEF TypeOK
  <1>3. ASSUME NEW c \in Client, StartRelease(c) PROVE TypeOK'
    <2>1. PICK refused \in Refused : StartRelease(c)!(refused)
      BY <1>3 DEF StartRelease
    <2>2. refused \in SUBSET Node /\ faults' \in Nat
      BY <2>1, RefuseType DEF TypeOK
    <2>3. conn' \in [Client -> [Node -> Seq(Cmd)]]
      BY <2>1, SendType DEF TypeOK, Op
    <2>4. vote' \in [Client -> [Node -> Vote]]
      BY <2>1, <2>2 DEF TypeOK
    <2>5. calls' \in [Client -> [extend : Nat, release : Nat]]
      BY <2>1, CallsType
    <2> QED
      BY <2>1, <2>2, <2>3, <2>4, <2>5 DEF TypeOK, PC
  <1>4. ASSUME NEW c \in Client, AcquireSucceeds(c) PROVE TypeOK'
    <2>1. AcquireExpiry(c) \in Int
      BY DriftType, TimeAssumption DEF TypeOK, AcquireExpiry
    <2>2. conn' \in [Client -> [Node -> Seq(Cmd)]]
      BY <1>4, AbandonAllType DEF TypeOK, AcquireSucceeds
    <2>3. overtaken' \in [Client -> BOOLEAN]
      BY <1>4 DEF TypeOK, AcquireSucceeds
    <2> QED
      BY <1>4, <2>1, <2>2, <2>3 DEF TypeOK, AcquireSucceeds, PC
  <1>5. ASSUME NEW c \in Client, AcquireRefused(c) PROVE TypeOK'
    BY <1>5, AbandonAllType DEF TypeOK, AcquireRefused, PC
  <1>6. ASSUME NEW c \in Client, AcquireFails(c) PROVE TypeOK'
    <2>1. PICK refused \in Refused : AcquireFails(c)!(refused)
      BY <1>6 DEF AcquireFails
    <2>2. refused \in SUBSET Node /\ faults' \in Nat
      BY <2>1, RefuseType DEF TypeOK
    <2>3. conn' \in [Client -> [Node -> Seq(Cmd)]]
      BY <2>1, AbandonAllType, SendType DEF TypeOK
    <2> QED
      BY <2>1, <2>2, <2>3 DEF TypeOK, PC
  <1>7. ASSUME NEW c \in Client, CleanupDone(c) PROVE TypeOK'
    BY <1>7, AbandonAllType DEF TypeOK, CleanupDone, PC
  <1>8. ASSUME NEW c \in Client, ExtendSucceeds(c) PROVE TypeOK'
    <2>1. ExtendExpiry(c) \in Int
      <3>1. ext[c].start \in Nat /\ ext[c].ttl \in Nat
        BY DEF TypeOK, ExtendCall
      <3> QED
        BY <3>1, DriftType DEF ExtendExpiry
    <2> QED
      BY <1>8, <2>1, AbandonAllType DEF TypeOK, ExtendSucceeds
  <1>9. ASSUME NEW c \in Client, ExtendFails(c) PROVE TypeOK'
    BY <1>9, AbandonAllType DEF TypeOK, ExtendFails
  <1>10. ASSUME NEW c \in Client, ReleaseSucceeds(c) \/ ReleaseNotHeld(c) \/ ReleaseFails(c)
         PROVE TypeOK'
    <2>1. PICK outcome \in PC : EndRelease(c, outcome)
      BY <1>10 DEF ReleaseSucceeds, ReleaseNotHeld, ReleaseFails, PC
    <2> QED
      BY <2>1, AbandonAllType DEF TypeOK, EndRelease
  <1>11. ASSUME NEW c \in Client, NEW n \in Node, RunAcquire(c, n) PROVE TypeOK'
    <2>1. conn[c][n] # <<>> /\ Head(conn[c][n]).ttl \in Nat
      BY <1>11, PopType DEF RunAcquire, Head1, Cmd
    <2>2. store' \in [Node -> [Key -> Entry]]
      BY <1>11, <2>1, StoreType DEF TypeOK, RunAcquire
    <2>3. vote' \in [Client -> [Node -> Vote]]
      BY <1>11, AnswerType DEF RunAcquire, AcquireGranted
    <2> QED
      BY <1>11, <2>1, <2>2, <2>3, PopType DEF TypeOK, RunAcquire
  <1>12. ASSUME NEW c \in Client, NEW n \in Node, RunExtend(c, n) PROVE TypeOK'
    <2>1. conn[c][n] # <<>> /\ Head(conn[c][n]).ttl \in Nat
      BY <1>12, PopType DEF RunExtend, Head1, Cmd
    <2>2. store' \in [Node -> [Key -> Entry]]
      BY <1>12, <2>1, StoreType DEF TypeOK, RunExtend
    <2>3. ext' \in [Client -> ExtendCall]
      BY <1>12 DEF TypeOK, RunExtend, ExtendCall, Vote
    <2> QED
      BY <1>12, <2>1, <2>2, <2>3, PopType DEF TypeOK, RunExtend
  <1>13. ASSUME NEW c \in Client, NEW n \in Node, RunRelease(c, n) PROVE TypeOK'
    <2>1. conn[c][n] # <<>>
      BY <1>13 DEF RunRelease, Head1
    <2>2. store' \in [Node -> [Key -> Entry]]
      BY <1>13, StoreType DEF TypeOK, RunRelease
    <2>3. vote' \in [Client -> [Node -> Vote]]
      BY <1>13, AnswerType DEF RunRelease, ReleaseGranted
    <2> QED
      BY <1>13, <2>1, <2>2, <2>3, PopType DEF TypeOK, RunRelease
  <1>14. ASSUME NEW c \in Client, NEW n \in Node, NoScript(c, n) PROVE TypeOK'
    <2>1. [Head(conn[c][n]) EXCEPT !.sha = FALSE] \in Cmd
      BY <1>14, PopType DEF NoScript, Cmd
    <2>2. conn' \in [Client -> [Node -> Seq(Cmd)]]
      BY <1>14, <2>1, PopType, AppendProperties DEF TypeOK, NoScript
    <2> QED
      BY <1>14, <2>2 DEF TypeOK, NoScript, Fault
  <1>15. ASSUME NEW c \in Client, NEW n \in Node, Disconnect(c, n) PROVE TypeOK'
    <2>1. ext' \in [Client -> ExtendCall]
      <3>1. ext[c] \in ExtendCall /\ ext \in [Client -> ExtendCall]
        BY DEF TypeOK
      <3>2. (IF ext[c].vote[n] = "pending" THEN "error" ELSE ext[c].vote[n]) \in Vote
        BY <3>1 DEF ExtendCall, Vote
      <3> QED
        BY <1>15, <3>1, <3>2 DEF Disconnect, ExtendCall
    <2> QED
      BY <1>15, <2>1, EmptySeq DEF TypeOK, Disconnect, Fault, Vote
  <1>16. ASSUME NEW c \in Client, NEW n \in Node, Timeout(c, n) PROVE TypeOK'
    BY <1>16, AbandonType DEF TypeOK, Timeout, Fault, Vote
  <1>17. ASSUME NEW c \in Client, NEW n \in Node, ExtendTimeout(c, n) PROVE TypeOK'
    <2>1. ext' \in [Client -> ExtendCall]
      BY <1>17 DEF TypeOK, ExtendTimeout, ExtendCall, Vote
    <2> QED
      BY <1>17, <2>1, AbandonType DEF TypeOK, ExtendTimeout, Fault
  <1>18. ASSUME NEW n \in Node, NEW k \in Key, Expire(n, k) PROVE TypeOK'
    BY <1>18 DEF TypeOK, Expire, Entry, Free
  <1>19. CASE Tick
    BY <1>19 DEF TypeOK, Tick
  <1>20. CASE UNCHANGED vars
    BY <1>20 DEF TypeOK, vars
  <1> QED
    BY <1>1, <1>2, <1>3, <1>4, <1>5, <1>6, <1>7, <1>8, <1>9, <1>10, <1>11, <1>12, <1>13,
       <1>14, <1>15, <1>16, <1>17, <1>18, <1>19, <1>20 DEF Next, Decide, Serve

\* Every variable is always within its type.
THEOREM TypeCorrect == Spec => []TypeOK
  <1>1. Init => TypeOK
    BY VotesType, EmptySeq DEF Init, TypeOK, Entry, Free, PC
  <1> QED
    BY <1>1, TypeStep, PTL DEF Spec

(***************************************************************************)
(* Connections under the steps that change them.                           *)
(***************************************************************************)

\* Running the head of a queue shifts the commands behind it.
LEMMA TailQueue ==
  ASSUME NEW q \in Seq(Cmd), q # <<>>
  PROVE  /\ \A i \in 1..Len(Tail(q)) : i + 1 \in 1..Len(q) /\ Tail(q)[i] = q[i + 1]
         /\ Ordered(q) => Ordered(Tail(q))
         /\ 1 \in 1..Len(q) /\ Head(q) = q[1]
  <1>1. /\ Len(q) \in Nat /\ Len(q) > 0 /\ Len(Tail(q)) = Len(q) - 1
        /\ \A i \in 1..Len(Tail(q)) : Tail(q)[i] = q[i + 1]
        /\ Head(q) = q[1]
    BY HeadTailProperties, EmptySeq, LenProperties
  <1>2. \A i \in 1..Len(Tail(q)) : i + 1 \in 1..Len(q) /\ Tail(q)[i] = q[i + 1]
    BY <1>1
  <1>3. ASSUME Ordered(q) PROVE Ordered(Tail(q))
    BY <1>2, <1>3 DEF Ordered
  <1> QED
    BY <1>1, <1>2, <1>3

\* Sending a command adds it behind the others.
LEMMA AppendQueue ==
  ASSUME NEW q \in Seq(Cmd), NEW cmd \in Cmd
  PROVE  /\ \A i \in 1..Len(Append(q, cmd)) :
              \/ i \in 1..Len(q) /\ Append(q, cmd)[i] = q[i]
              \/ Append(q, cmd)[i] = cmd
         /\ Ordered(q) /\ cmd.op \notin Deletes => Ordered(Append(q, cmd))
  <1>1. /\ Len(q) \in Nat /\ Len(Append(q, cmd)) = Len(q) + 1
        /\ \A i \in 1..Len(q) : Append(q, cmd)[i] = q[i]
        /\ Append(q, cmd)[Len(q) + 1] = cmd
    BY AppendProperties, LenProperties
  <1>2. \A i \in 1..Len(Append(q, cmd)) : i \in 1..Len(q) \/ i = Len(q) + 1
    BY <1>1
  <1>3. ASSUME Ordered(q), cmd.op \notin Deletes PROVE Ordered(Append(q, cmd))
    <2> SUFFICES ASSUME NEW i \in 1..Len(Append(q, cmd)), NEW j \in 1..Len(Append(q, cmd)),
                        i < j, Append(q, cmd)[i].live, Append(q, cmd)[i].op \in Writes
                 PROVE  Append(q, cmd)[j].op \notin Deletes
      BY DEF Ordered
    <2>1. CASE j = Len(q) + 1
      BY <1>1, <1>3, <2>1
    <2>2. CASE j \in 1..Len(q)
      BY <1>1, <1>2, <1>3, <2>2 DEF Ordered
    <2> QED
      BY <1>2, <2>1, <2>2
  <1> QED
    BY <1>1, <1>2, <1>3

\* A property of every command of q and of cmd holds in Append(q, cmd), stated
\* for the one property that is needed.
LEMMA AppendLegal ==
  ASSUME NEW q \in Seq(Cmd), NEW cmd \in Cmd, NEW stage, NEW extending,
         \A i \in 1..Len(q) : Legal(stage, extending, q[i]),
         Legal(stage, extending, cmd)
  PROVE  \A i \in 1..Len(Append(q, cmd)) : Legal(stage, extending, Append(q, cmd)[i])
  BY AppendQueue

\* Abandoned commands keep their order.
LEMMA AbandonQueue ==
  ASSUME NEW q \in Seq(Cmd), NEW ops, Ordered(q)
  PROVE  Ordered(Abandon(q, ops))
  BY AbandonType DEF Ordered

\* Once its round is over, what is left of it must be legal only when dead.
LEMMA AbandonLegal ==
  ASSUME NEW q \in Seq(Cmd), NEW ops, NEW stage, NEW extending, NEW after, NEW still,
         \A i \in 1..Len(q) : Legal(stage, extending, q[i]),
         \A cmd \in Cmd :
           Legal(stage, extending, cmd) /\ (cmd.live => cmd.op \notin ops)
             => Legal(after, still, cmd)
  PROVE  /\ Len(Abandon(q, ops)) = Len(q)
         /\ \A i \in 1..Len(Abandon(q, ops)) : Legal(after, still, Abandon(q, ops)[i])
  <1> DEFINE a == Abandon(q, ops)
  <1>1. a \in Seq(Cmd) /\ Len(a) = Len(q)
    BY AbandonType
  <1>2. ASSUME NEW i \in 1..Len(q) PROVE Legal(after, still, a[i])
    <2>1. /\ a[i].op = q[i].op /\ a[i].ttl = q[i].ttl /\ a[i].sha = q[i].sha
          /\ a[i].live => q[i].live /\ q[i].op \notin ops
      BY AbandonType
    <2>2. a[i] \in Cmd
      BY <1>1
    <2>3. Legal(stage, extending, a[i])
      BY <2>1 DEF Legal
    <2>4. a[i].live => a[i].op \notin ops
      BY <2>1
    <2> HIDE DEF a
    <2> QED
      BY <2>2, <2>3, <2>4
  <1> QED
    BY <1>1, <1>2

\* The steps of one client, and what they leave alone of the others'.
ClientStep(c) ==
  \/ StartAttempt(c) \/ StartExtend(c) \/ StartRelease(c) \/ Decide(c)
  \/ \E n \in Node : Serve(c, n)

Same(d) ==
  /\ conn'[d] = conn[d] /\ pc'[d] = pc[d] /\ ext'[d] = ext[d]
  /\ vote'[d] = vote[d] /\ start'[d] = start[d] /\ expiration'[d] = expiration[d]

\* A client's step leaves the connections, rounds and leases of the others alone.
LEMMA Locality ==
  ASSUME TypeOK, NEW c \in Client, ClientStep(c)
  PROVE  now' = now /\ \A d \in Client \ {c} : Same(d)
  <1> USE DEF TypeOK, Same
  <1>1. CASE StartAttempt(c) \/ StartExtend(c) \/ StartRelease(c)
    BY <1>1 DEF StartAttempt, StartExtend, StartRelease
  <1>2. CASE AcquireSucceeds(c) \/ AcquireRefused(c) \/ AcquireFails(c) \/ CleanupDone(c)
    BY <1>2 DEF AcquireSucceeds, AcquireRefused, AcquireFails, CleanupDone
  <1>3. CASE ExtendSucceeds(c) \/ ExtendFails(c)
    BY <1>3 DEF ExtendSucceeds, ExtendFails
  <1>4. CASE ReleaseSucceeds(c) \/ ReleaseNotHeld(c) \/ ReleaseFails(c)
    BY <1>4 DEF ReleaseSucceeds, ReleaseNotHeld, ReleaseFails, EndRelease
  <1>5. ASSUME NEW n \in Node, RunAcquire(c, n) \/ RunExtend(c, n) \/ RunRelease(c, n)
        PROVE  now' = now /\ \A d \in Client \ {c} : Same(d)
    BY <1>5 DEF RunAcquire, RunExtend, RunRelease, Answer, Pop
  <1>6. ASSUME NEW n \in Node, NoScript(c, n) \/ Disconnect(c, n)
        PROVE  now' = now /\ \A d \in Client \ {c} : Same(d)
    BY <1>6 DEF NoScript, Disconnect
  <1>7. ASSUME NEW n \in Node, Timeout(c, n) \/ ExtendTimeout(c, n)
        PROVE  now' = now /\ \A d \in Client \ {c} : Same(d)
    BY <1>7 DEF Timeout, ExtendTimeout
  <1> QED
    BY <1>1, <1>2, <1>3, <1>4, <1>5, <1>6, <1>7 DEF ClientStep, Decide, Serve

(***************************************************************************)
(* Commands and leases are inductive.                                      *)
(***************************************************************************)

\* Connections carry commands.
LEMMA QueueType ==
  ASSUME TypeOK
  PROVE  /\ \A c \in Client : conn[c] \in [Node -> Seq(Cmd)]
         /\ \A c \in Client, n \in Node :
              /\ conn[c][n] \in Seq(Cmd)
              /\ \A i \in 1..Len(conn[c][n]) : conn[c][n][i] \in Cmd
  BY DEF TypeOK

\* A step of c leaves only legal commands under way, and no delete behind an awaited write.
LEMMA CommandsStep ==
  ASSUME TypeOK, NEW c \in Client, Commands(c), Leases(c), ClientStep(c)
  PROVE  Commands(c)'
  <1> USE QueueType DEF Writes, Deletes, Unowned
  <1> SUFFICES ASSUME NEW n \in Node
               PROVE  /\ \A i \in 1..Len(conn'[c][n]) : Legal(pc'[c], ext'[c].on, conn'[c][n][i])
                      /\ pc'[c] \in {"acquiring", "held"} => Ordered(conn'[c][n])
    BY DEF Commands, Ordered
  <1> DEFINE q == conn[c][n]
             r == conn'[c][n]
  <1>q. /\ q \in Seq(Cmd)
        /\ \A i \in 1..Len(q) : Legal(pc[c], ext[c].on, q[i])
        /\ pc[c] \in {"acquiring", "held"} => Ordered(q)
    BY DEF Commands
  <1>1. CASE StartAttempt(c)
    <2>1. PICK refused \in Refused : StartAttempt(c)!(refused)
      BY <1>1 DEF StartAttempt
    <2>2. /\ pc[c] \in {"idle", "backoff"} /\ pc'[c] = "acquiring" /\ ext' = ext
          /\ r = q \/ r = Append(q, Evalsha("acquire", Ttl))
      BY <2>1 DEF TypeOK, Send
    <2>3. /\ Evalsha("acquire", Ttl) \in Cmd
          /\ Legal(pc'[c], ext'[c].on, Evalsha("acquire", Ttl))
          /\ \A cmd : Legal(pc[c], ext[c].on, cmd) => Legal(pc'[c], ext'[c].on, cmd)
      BY <2>2, CmdType, TimeAssumption DEF Legal, Evalsha, Op, Ttls
    <2>4. Ordered(q)
      <3>1. ~ext[c].on /\ pc[c] # "acquiring"
        BY <2>2 DEF Leases
      <3>2. \A i \in 1..Len(q) : ~(q[i].live /\ q[i].op \in Writes)
        BY <1>q, <3>1 DEF Legal
      <3> QED
        BY <3>2 DEF Ordered
    <2>5. \A i \in 1..Len(q) : Legal(pc'[c], ext'[c].on, q[i])
      BY <1>q, <2>3
    <2>6. Evalsha("acquire", Ttl).op \notin Deletes
      BY DEF Evalsha
    <2>7. CASE r = q
      BY <1>q, <2>2, <2>5, <2>7, <2>4
    <2>8. CASE r = Append(q, Evalsha("acquire", Ttl))
      <3>1. \A i \in 1..Len(r) : Legal(pc'[c], ext'[c].on, r[i])
        BY <1>q, <2>3, <2>5, <2>8, AppendLegal
      <3>2. pc'[c] \in {"acquiring", "held"} => Ordered(r)
        BY <1>q, <2>2, <2>3, <2>6, <2>8, <2>4, AppendQueue
      <3> QED
        BY <3>1, <3>2
    <2> QED
      BY <2>2, <2>7, <2>8
  <1>2. CASE StartExtend(c)
    <2>1. PICK ttl \in ExtendTtls, refused \in Refused : StartExtend(c)!(ttl, refused)
      BY <1>2 DEF StartExtend
    <2>2. /\ pc'[c] = pc[c] /\ pc[c] # "acquiring" /\ ext'[c].on
          /\ r = q \/ r = Append(q, Evalsha("extend", ttl))
      BY <2>1 DEF TypeOK, Send, Unreleased
    <2>3. /\ Evalsha("extend", ttl) \in Cmd
          /\ Legal(pc'[c], ext'[c].on, Evalsha("extend", ttl))
          /\ \A cmd : Legal(pc[c], ext[c].on, cmd) => Legal(pc'[c], ext'[c].on, cmd)
      BY <2>2, CmdType, TimeAssumption DEF Legal, Evalsha, Op, Ttls
    <2>5. \A i \in 1..Len(q) : Legal(pc'[c], ext'[c].on, q[i])
      BY <1>q, <2>3
    <2>6. Evalsha("extend", ttl).op \notin Deletes
      BY DEF Evalsha
    <2>7. CASE r = q
      BY <1>q, <2>2, <2>5, <2>7
    <2>8. CASE r = Append(q, Evalsha("extend", ttl))
      <3>1. \A i \in 1..Len(r) : Legal(pc'[c], ext'[c].on, r[i])
        BY <1>q, <2>3, <2>5, <2>8, AppendLegal
      <3>2. pc'[c] \in {"acquiring", "held"} => Ordered(r)
        BY <1>q, <2>2, <2>3, <2>6, <2>8, AppendQueue
      <3> QED
        BY <3>1, <3>2
    <2> QED
      BY <2>2, <2>7, <2>8
  <1>3. CASE StartRelease(c)
    <2>1. PICK refused \in Refused : StartRelease(c)!(refused)
      BY <1>3 DEF StartRelease
    <2>2. /\ pc[c] \in {"held", "unreleased"} /\ pc'[c] = "releasing" /\ ext' = ext
          /\ r = q \/ r = Append(q, Evalsha("release", 0))
      BY <2>1 DEF TypeOK, Send
    <2>3. /\ Evalsha("release", 0) \in Cmd
          /\ Legal(pc'[c], ext'[c].on, Evalsha("release", 0))
          /\ \A cmd : Legal(pc[c], ext[c].on, cmd) => Legal(pc'[c], ext'[c].on, cmd)
      BY <2>2, CmdType DEF Legal, Evalsha, Op
    <2>4. \A i \in 1..Len(q) : Legal(pc'[c], ext'[c].on, q[i])
      BY <1>q, <2>3
    <2>5. \A i \in 1..Len(r) : Legal(pc'[c], ext'[c].on, r[i])
      BY <1>q, <2>2, <2>3, <2>4, AppendLegal
    <2> QED
      BY <2>2, <2>5
  <1>4. ASSUME pc[c] = "acquiring", pc'[c] \in {"held", "late", "failed"}, ext' = ext,
               r = Abandon(q, MainOps)
        PROVE  /\ \A i \in 1..Len(r) : Legal(pc'[c], ext'[c].on, r[i])
               /\ pc'[c] \in {"acquiring", "held"} => Ordered(r)
    <2>1. \A cmd \in Cmd :
          Legal(pc[c], ext[c].on, cmd) /\ (cmd.live => cmd.op \notin MainOps)
            => Legal(pc'[c], ext'[c].on, cmd)
      BY <1>4 DEF Legal, MainOps
    <2>2. \A i \in 1..Len(r) : Legal(pc'[c], ext'[c].on, r[i])
      BY <1>q, <1>4, <2>1, AbandonLegal
    <2>3. pc'[c] \in {"acquiring", "held"} => Ordered(r)
      BY <1>q, <1>4, AbandonQueue
    <2> QED
      BY <2>2, <2>3
  <1>5. CASE AcquireSucceeds(c)
    <2>1. /\ pc[c] = "acquiring" /\ pc'[c] \in {"held", "late"} /\ ext' = ext
          /\ r = Abandon(q, MainOps)
      BY <1>5 DEF AcquireSucceeds, TypeOK, AbandonAll
    <2> QED
      BY <1>4, <2>1
  <1>6. CASE AcquireRefused(c)
    <2>1. /\ pc[c] = "acquiring" /\ pc'[c] = "failed" /\ ext' = ext
          /\ r = Abandon(q, MainOps)
      BY <1>6 DEF AcquireRefused, TypeOK, AbandonAll
    <2> QED
      BY <1>4, <2>1
  <1>7. CASE AcquireFails(c)
    <2>1. PICK refused \in Refused : AcquireFails(c)!(refused)
      BY <1>7 DEF AcquireFails
    <2> DEFINE a == Abandon(q, MainOps)
    <2>2. /\ pc[c] = "acquiring" /\ pc'[c] = "cleaning" /\ ext' = ext
          /\ r = a \/ r = Append(a, Cleanup)
      BY <2>1, AbandonAllType DEF TypeOK, Send, AbandonAll
    <2>3. /\ a \in Seq(Cmd)
          /\ \A i \in 1..Len(a) : Legal(pc'[c], ext'[c].on, a[i])
      <3>1. \A cmd \in Cmd :
            Legal(pc[c], ext[c].on, cmd) /\ (cmd.live => cmd.op \notin MainOps)
              => Legal(pc'[c], ext'[c].on, cmd)
        BY <2>2 DEF Legal, MainOps
      <3>2. a \in Seq(Cmd)
        BY <1>q, AbandonType
      <3>3. \A i \in 1..Len(a) : Legal(pc'[c], ext'[c].on, a[i])
        BY <1>q, <3>1, AbandonLegal
      <3> QED
        BY <3>2, <3>3
    <2>4. Legal(pc'[c], ext'[c].on, Cleanup) /\ Cleanup \in Cmd
      BY <2>2, CmdType DEF Legal, Cleanup
    <2>5. \A i \in 1..Len(r) : Legal(pc'[c], ext'[c].on, r[i])
      BY <2>2, <2>3, <2>4, AppendLegal
    <2> QED
      BY <2>2, <2>5
  <1>8. CASE CleanupDone(c)
    <2>1. /\ pc[c] = "cleaning" /\ pc'[c] \in {"backoff", "failed"} /\ ext' = ext
          /\ r = Abandon(q, MainOps)
      BY <1>8 DEF CleanupDone, TypeOK, AbandonAll
    <2>2. \A cmd \in Cmd :
          Legal(pc[c], ext[c].on, cmd) /\ (cmd.live => cmd.op \notin MainOps)
            => Legal(pc'[c], ext'[c].on, cmd)
      BY <2>1 DEF Legal, MainOps
    <2>3. \A i \in 1..Len(r) : Legal(pc'[c], ext'[c].on, r[i])
      BY <1>q, <2>1, <2>2, AbandonLegal
    <2> QED
      BY <2>1, <2>3
  <1>9. CASE ExtendSucceeds(c) \/ ExtendFails(c)
    <2>1. pc' = pc /\ r = Abandon(q, {"extend"})
      BY <1>9 DEF ExtendSucceeds, ExtendFails, TypeOK, AbandonAll
    <2>2. \A cmd \in Cmd :
          Legal(pc[c], ext[c].on, cmd) /\ (cmd.live => cmd.op \notin {"extend"})
            => Legal(pc'[c], ext'[c].on, cmd)
      BY <2>1 DEF Legal
    <2>3. \A i \in 1..Len(r) : Legal(pc'[c], ext'[c].on, r[i])
      BY <1>q, <2>1, <2>2, AbandonLegal
    <2>4. pc'[c] \in {"acquiring", "held"} => Ordered(r)
      BY <1>q, <2>1, AbandonQueue
    <2> QED
      BY <2>3, <2>4
  <1>10. CASE ReleaseSucceeds(c) \/ ReleaseNotHeld(c) \/ ReleaseFails(c)
    <2>1. /\ pc[c] = "releasing" /\ pc'[c] \in {"released", "notHeld", "unreleased"}
          /\ ext' = ext /\ r = Abandon(q, MainOps)
      BY <1>10 DEF ReleaseSucceeds, ReleaseNotHeld, ReleaseFails, EndRelease, TypeOK, AbandonAll
    <2>2. \A cmd \in Cmd :
          Legal(pc[c], ext[c].on, cmd) /\ (cmd.live => cmd.op \notin MainOps)
            => Legal(pc'[c], ext'[c].on, cmd)
      BY <2>1 DEF Legal
    <2>3. \A i \in 1..Len(r) : Legal(pc'[c], ext'[c].on, r[i])
      BY <1>q, <2>1, <2>2, AbandonLegal
    <2> QED
      BY <2>1, <2>3
  <1>11. ASSUME NEW m \in Node, Head1(c, m, "acquire") \/ Head1(c, m, "extend")
                                \/ Head1(c, m, "release") \/ Head1(c, m, "cleanup"),
                Pop(c, m), pc' = pc, \A d \in Client : ext'[d].on = ext[d].on
         PROVE  /\ \A i \in 1..Len(r) : Legal(pc'[c], ext'[c].on, r[i])
                /\ pc'[c] \in {"acquiring", "held"} => Ordered(r)
    <2>1. CASE m # n
      <3>1. r = q
        BY <1>11, <2>1 DEF Pop, TypeOK
      <3> QED
        BY <1>q, <1>11, <3>1 DEF Legal
    <2>2. CASE m = n
      <3>1. q # <<>> /\ r = Tail(q)
        BY <1>11, <2>2 DEF Pop, TypeOK, Head1
      <3>2. /\ \A i \in 1..Len(r) : i + 1 \in 1..Len(q) /\ r[i] = q[i + 1]
            /\ Ordered(q) => Ordered(r)
        BY <1>q, <3>1, TailQueue
      <3> QED
        BY <1>q, <1>11, <3>2 DEF Legal
    <2> QED
      BY <2>1, <2>2
  <1>12. ASSUME NEW m \in Node, RunAcquire(c, m) \/ RunExtend(c, m) \/ RunRelease(c, m)
         PROVE  /\ \A i \in 1..Len(r) : Legal(pc'[c], ext'[c].on, r[i])
                /\ pc'[c] \in {"acquiring", "held"} => Ordered(r)
    <2>1. \A d \in Client : ext'[d].on = ext[d].on
      <3>1. ext \in [Client -> ExtendCall]
        BY DEF TypeOK
      <3>2. \/ ext' = ext
            \/ \E x : ext' = [ext EXCEPT ![c] = [ext[c] EXCEPT !.vote = x]]
        BY <1>12, <3>1 DEF RunAcquire, RunExtend, RunRelease
      <3> QED
        BY <3>1, <3>2 DEF ExtendCall
    <2> QED
      BY <1>11, <1>12, <2>1 DEF RunAcquire, RunExtend, RunRelease
  <1>13. ASSUME NEW m \in Node, NoScript(c, m)
         PROVE  /\ \A i \in 1..Len(r) : Legal(pc'[c], ext'[c].on, r[i])
                /\ pc'[c] \in {"acquiring", "held"} => Ordered(r)
    <2>1. CASE m # n
      <3>1. r = q /\ pc' = pc /\ ext' = ext
        BY <1>13, <2>1 DEF NoScript, TypeOK
      <3> QED
        BY <1>q, <3>1 DEF Legal
    <2>2. CASE m = n
      <3> DEFINE h == [Head(q) EXCEPT !.sha = FALSE]
      <3>1. q # <<>> /\ Head(q).sha /\ r = Append(Tail(q), h) /\ pc' = pc /\ ext' = ext
        BY <1>13, <2>2 DEF NoScript, TypeOK
      <3>2. /\ Head(q) \in Cmd /\ Legal(pc[c], ext[c].on, Head(q)) /\ Tail(q) \in Seq(Cmd)
            /\ \A i \in 1..Len(Tail(q)) : i + 1 \in 1..Len(q) /\ Tail(q)[i] = q[i + 1]
            /\ Ordered(q) => Ordered(Tail(q))
        BY <1>q, <3>1, TailQueue, PopType
      <3>3. /\ h \in Cmd /\ Legal(pc'[c], ext'[c].on, h)
            /\ pc[c] \in {"acquiring", "held"} => h.op \notin Deletes
        BY <3>1, <3>2 DEF Legal, Cmd
      <3>4. \A i \in 1..Len(Tail(q)) : Legal(pc'[c], ext'[c].on, Tail(q)[i])
        BY <1>q, <3>1, <3>2 DEF Legal
      <3>5. \A i \in 1..Len(r) : Legal(pc'[c], ext'[c].on, r[i])
        BY <3>1, <3>2, <3>3, <3>4, AppendLegal
      <3>6. pc'[c] \in {"acquiring", "held"} => Ordered(r)
        BY <1>q, <3>1, <3>2, <3>3, AppendQueue
      <3> QED
        BY <3>5, <3>6
    <2> QED
      BY <2>1, <2>2
  <1>14. ASSUME NEW m \in Node, Disconnect(c, m)
         PROVE  /\ \A i \in 1..Len(r) : Legal(pc'[c], ext'[c].on, r[i])
                /\ pc'[c] \in {"acquiring", "held"} => Ordered(r)
    <2>1. pc' = pc /\ ext'[c].on = ext[c].on /\ (r = q \/ r = <<>>)
      BY <1>14 DEF Disconnect, TypeOK, ExtendCall
    <2>2. Len(<<>>) = 0
      BY EmptySeq
    <2>3. CASE r = q
      BY <1>q, <2>1, <2>3
    <2>4. CASE r = <<>>
      BY <2>2, <2>4 DEF Ordered
    <2> QED
      BY <2>1, <2>3, <2>4
  <1>15. ASSUME NEW m \in Node, Timeout(c, m) \/ ExtendTimeout(c, m)
         PROVE  /\ \A i \in 1..Len(r) : Legal(pc'[c], ext'[c].on, r[i])
                /\ pc'[c] \in {"acquiring", "held"} => Ordered(r)
    <2>1. /\ pc' = pc /\ ext'[c].on = ext[c].on
          /\ r = q \/ \E ops : r = Abandon(q, ops)
      BY <1>15 DEF Timeout, ExtendTimeout, TypeOK, ExtendCall
    <2>2. CASE r = q
      BY <1>q, <2>1, <2>2
    <2>3. ASSUME NEW ops, r = Abandon(q, ops)
          PROVE  /\ \A i \in 1..Len(r) : Legal(pc'[c], ext'[c].on, r[i])
                 /\ pc'[c] \in {"acquiring", "held"} => Ordered(r)
      <3>0. \A cmd \in Cmd : Legal(pc[c], ext[c].on, cmd) => Legal(pc'[c], ext'[c].on, cmd)
        BY <2>1 DEF Legal
      <3>1. \A i \in 1..Len(r) : Legal(pc'[c], ext'[c].on, r[i])
        BY <1>q, <2>3, <3>0, AbandonLegal
      <3>2. pc'[c] \in {"acquiring", "held"} => Ordered(r)
        BY <1>q, <2>1, <2>3, AbandonQueue
      <3> QED
        BY <3>1, <3>2
    <2> QED
      BY <2>1, <2>2, <2>3
  <1> QED
    BY <1>1, <1>2, <1>3, <1>5, <1>6, <1>7, <1>8, <1>9, <1>10, <1>12, <1>13, <1>14, <1>15
       DEF ClientStep, Decide, Serve

\* What the extension record is.
LEMMA ExtType ==
  ASSUME TypeOK, NEW c \in Client
  PROVE  /\ ext \in [Client -> ExtendCall] /\ ext[c] \in ExtendCall
         /\ ext[c].on \in BOOLEAN /\ ext[c].start \in Nat /\ ext[c].ttl \in Nat
         /\ ext[c].vote \in [Node -> Vote]
         /\ now \in Nat /\ start[c] \in Nat /\ expiration[c] \in Int
         /\ vote[c] \in [Node -> Vote] /\ pc[c] \in PC
  BY DEF TypeOK, ExtendCall

\* A step of c leaves its rounds begun in the past, and its lease within a ttl from now.
LEMMA LeasesStep ==
  ASSUME TypeOK, NEW c \in Client, Leases(c), ClientStep(c)
  PROVE  Leases(c)'
  <1> USE ExtType
  <1>0. now' = now
    BY Locality
  <1>1. CASE StartAttempt(c)
    <2>1. /\ pc[c] \in {"idle", "backoff"} /\ pc'[c] = "acquiring" /\ ext' = ext
          /\ start'[c] = now
      BY <1>1 DEF StartAttempt, TypeOK
    <2> QED
      BY <1>0, <2>1 DEF Leases, Unowned
  <1>2. CASE StartExtend(c)
    <2>1. PICK ttl \in ExtendTtls, refused \in Refused : StartExtend(c)!(ttl, refused)
      BY <1>2 DEF StartExtend
    <2>2. /\ pc'[c] = pc[c] /\ Unreleased(c) /\ expiration'[c] = expiration[c]
          /\ ext'[c].start = now /\ ext'[c].ttl = ttl
      BY <2>1 DEF TypeOK
    <2> QED
      BY <1>0, <2>2 DEF Leases, Unowned, Unreleased, Ttls
  <1>3. CASE StartRelease(c)
    <2>1. pc'[c] = "releasing" /\ pc[c] \in {"held", "unreleased"} /\ ext' = ext
      BY <1>3 DEF StartRelease, TypeOK
    <2> QED
      BY <1>0, <2>1 DEF Leases, Unowned
  <1>4. CASE AcquireSucceeds(c)
    <2>1. /\ pc[c] = "acquiring" /\ ext' = ext
          /\ \/ pc'[c] = "held" /\ expiration'[c] = start[c] + Ttl - Drift(Ttl)
             \/ pc'[c] = "late"
      BY <1>4 DEF AcquireSucceeds, AcquireExpiry, TypeOK
    <2>2. start[c] + Ttl - Drift(Ttl) <= now + Ttl - Drift(Ttl) /\ Ttl \in Ttls
      BY <2>1, DriftType, TimeAssumption DEF Leases, Ttls
    <2> QED
      BY <1>0, <2>1, <2>2 DEF Leases, Unowned
  <1>5. CASE AcquireRefused(c) \/ AcquireFails(c) \/ CleanupDone(c)
    <2>1. /\ pc[c] \in {"acquiring", "cleaning"} /\ ext' = ext
          /\ pc'[c] \in {"failed", "cleaning", "backoff"}
      BY <1>5 DEF AcquireRefused, AcquireFails, CleanupDone, TypeOK
    <2> QED
      BY <1>0, <2>1 DEF Leases, Unowned
  <1>6. CASE ExtendSucceeds(c)
    <2>1. /\ ext[c].on /\ pc' = pc /\ start' = start /\ ~ext'[c].on
          /\ expiration'[c] = ext[c].start + ext[c].ttl - Drift(ext[c].ttl)
      BY <1>6 DEF ExtendSucceeds, ExtendExpiry, TypeOK, NoExtend
    <2>2. ext[c].start + ext[c].ttl - Drift(ext[c].ttl) <= now + ext[c].ttl - Drift(ext[c].ttl)
      BY <2>1, DriftType DEF Leases
    <2> QED
      BY <1>0, <2>1, <2>2 DEF Leases, Unowned
  <1>7. CASE ExtendFails(c)
    <2>1. pc' = pc /\ start' = start /\ expiration' = expiration /\ ~ext'[c].on
      BY <1>7 DEF ExtendFails, TypeOK, NoExtend
    <2> QED
      BY <1>0, <2>1 DEF Leases
  <1>8. CASE ReleaseSucceeds(c) \/ ReleaseNotHeld(c) \/ ReleaseFails(c)
    <2>1. /\ pc[c] = "releasing" /\ pc'[c] \in {"released", "notHeld", "unreleased"}
          /\ ext' = ext
      BY <1>8 DEF ReleaseSucceeds, ReleaseNotHeld, ReleaseFails, EndRelease, TypeOK
    <2> QED
      BY <1>0, <2>1 DEF Leases, Unowned
  <1>9. ASSUME NEW n \in Node, Serve(c, n) PROVE Leases(c)'
    <2>1. /\ pc' = pc /\ start' = start /\ expiration' = expiration
          /\ \/ ext' = ext
             \/ \E x : ext' = [ext EXCEPT ![c] = [ext[c] EXCEPT !.vote = x]]
      BY <1>9 DEF Serve, RunAcquire, RunExtend, RunRelease, NoScript, Disconnect, Timeout,
                  ExtendTimeout
    <2>2. ext'[c].on = ext[c].on /\ ext'[c].start = ext[c].start /\ ext'[c].ttl = ext[c].ttl
      BY <2>1 DEF ExtendCall
    <2> QED
      BY <1>0, <2>1, <2>2 DEF Leases
  <1> QED
    BY <1>1, <1>2, <1>3, <1>4, <1>5, <1>6, <1>7, <1>8, <1>9 DEF ClientStep, Decide

(***************************************************************************)
(* The keys behind a lease stay where they are while it runs.              *)
(***************************************************************************)

\* A lease of c that runs now ends ClockSkew before any key written now.
LEMMA LeaseMargin ==
  ASSUME TypeOK, NEW e \in Int, NEW u \in Ttls, e <= now + u - Drift(u), NEW t \in Ttls
  PROVE  now + t >= e + ClockSkew
  <1>1. u \in Nat /\ t \in Nat /\ now \in Nat /\ ClockSkew \in Nat /\ Drift(u) \in Int
    BY TimeAssumption, DriftType DEF TypeOK, Ttls
  <1> QED
    BY <1>1, LeaseAssumption

\* No command of c under way deletes: none is added while c acquires or holds.
LEMMA NoDeleteStep ==
  ASSUME TypeOK, NEW c \in Client, NEW n \in Node, Commands(c), ClientStep(c), NoDelete(c, n),
         pc[c] \in {"acquiring", "held"}, pc'[c] \in {"acquiring", "held"}
  PROVE  NoDelete(c, n)'
  <1> DEFINE q == conn[c][n]
             r == conn'[c][n]
  <1>q. /\ q \in Seq(Cmd) /\ Len(<<>>) = 0
        /\ \A i \in 1..Len(q) : q[i].op \notin Deletes /\ q[i] \in Cmd
    BY QueueType, EmptySeq DEF NoDelete
  <1> SUFFICES \A i \in 1..Len(r) : r[i].op \notin Deletes
    BY DEF NoDelete
  <1>1. CASE StartAttempt(c) \/ StartRelease(c) \/ AcquireRefused(c) \/ AcquireFails(c)
               \/ CleanupDone(c) \/ ReleaseSucceeds(c) \/ ReleaseNotHeld(c) \/ ReleaseFails(c)
    BY <1>1 DEF StartAttempt, StartRelease, AcquireRefused, AcquireFails, CleanupDone,
                ReleaseSucceeds, ReleaseNotHeld, ReleaseFails, TypeOK
  <1>2. CASE StartExtend(c)
    <2>1. PICK ttl \in ExtendTtls, refused \in Refused : StartExtend(c)!(ttl, refused)
      BY <1>2 DEF StartExtend
    <2>2. r = q \/ r = Append(q, Evalsha("extend", ttl))
      BY <2>1 DEF TypeOK, Send
    <2>3. Evalsha("extend", ttl) \in Cmd /\ Evalsha("extend", ttl).op \notin Deletes
      BY CmdType, TimeAssumption DEF Evalsha, Op, Deletes
    <2>4. CASE r = Append(q, Evalsha("extend", ttl))
      <3>1. \A i \in 1..Len(r) : (i \in 1..Len(q) /\ r[i] = q[i]) \/ r[i] = Evalsha("extend", ttl)
        BY <1>q, <2>3, <2>4, AppendQueue
      <3> QED
        BY <1>q, <2>3, <3>1
    <2> QED
      BY <1>q, <2>2, <2>4
  <1>3. ASSUME \E ops : r = Abandon(q, ops) PROVE \A i \in 1..Len(r) : r[i].op \notin Deletes
    BY <1>q, <1>3, AbandonType
  <1>4. CASE AcquireSucceeds(c) \/ ExtendSucceeds(c) \/ ExtendFails(c)
    <2>1. \E ops : r = Abandon(q, ops)
      BY <1>4 DEF AcquireSucceeds, ExtendSucceeds, ExtendFails, AbandonAll, TypeOK
    <2> QED
      BY <1>3, <2>1
  <1>5. ASSUME NEW m \in Node, RunAcquire(c, m) \/ RunExtend(c, m) \/ RunRelease(c, m)
        PROVE  \A i \in 1..Len(r) : r[i].op \notin Deletes
    <2>1. r = q \/ (q # <<>> /\ r = Tail(q))
      <3>1. Pop(c, m) /\ conn[c][m] # <<>>
        BY <1>5 DEF RunAcquire, RunExtend, RunRelease, Head1
      <3> QED
        BY <3>1 DEF Pop, TypeOK
    <2>2. CASE q # <<>> /\ r = Tail(q)
      <3>1. \A i \in 1..Len(r) : i + 1 \in 1..Len(q) /\ r[i] = q[i + 1]
        BY <1>q, <2>2, TailQueue
      <3> QED
        BY <1>q, <3>1
    <2> QED
      BY <1>q, <2>1, <2>2
  <1>6. ASSUME NEW m \in Node, NoScript(c, m)
        PROVE  \A i \in 1..Len(r) : r[i].op \notin Deletes
    <2> DEFINE h == [Head(q) EXCEPT !.sha = FALSE]
    <2>1. r = q \/ (q # <<>> /\ r = Append(Tail(q), h))
      BY <1>6 DEF NoScript, TypeOK
    <2>2. CASE q # <<>> /\ r = Append(Tail(q), h)
      <3>1. /\ Head(q) \in Cmd /\ Head(q).op \notin Deletes /\ Tail(q) \in Seq(Cmd)
            /\ \A i \in 1..Len(Tail(q)) : Tail(q)[i].op \notin Deletes
        BY <1>q, <2>2, TailQueue, PopType
      <3>2. h \in Cmd /\ h.op \notin Deletes
        BY <3>1 DEF Cmd
      <3> QED
        BY <2>2, <3>1, <3>2, AppendQueue
    <2> QED
      BY <1>q, <2>1, <2>2
  <1>7. ASSUME NEW m \in Node, Disconnect(c, m)
        PROVE  \A i \in 1..Len(r) : r[i].op \notin Deletes
    <2>1. r = q \/ r = <<>>
      BY <1>7 DEF Disconnect, TypeOK
    <2> QED
      BY <1>q, <2>1
  <1>8. ASSUME NEW m \in Node, Timeout(c, m) \/ ExtendTimeout(c, m)
        PROVE  \A i \in 1..Len(r) : r[i].op \notin Deletes
    <2>1. r = q \/ \E ops : r = Abandon(q, ops)
      BY <1>8 DEF Timeout, ExtendTimeout, TypeOK
    <2> QED
      BY <1>q, <1>3, <2>1
  <1> QED
    BY <1>1, <1>2, <1>4, <1>5, <1>6, <1>7, <1>8 DEF ClientStep, Decide, Serve

\* Nobody else's command, and no expiry, takes a key of a lease that runs.
LEMMA KeysStep ==
  ASSUME TypeOK, \A d \in Client : Commands(d), [Next]_vars,
         NEW c \in Client, NEW n \in Node, NEW e \in Int, NEW u \in Ttls,
         e <= now + u - Drift(u), now < e, ~RunRelease(c, n), NEW k \in Resources[c],
         Owns(c, n, k), store[n][k].expiry >= e + ClockSkew
  PROVE  store'[n][k].holder = c /\ store'[n][k].expiry >= e + ClockSkew
  <1>0. /\ k \in Key /\ c # NoClient
        /\ store[n][k].holder = c /\ store[n][k].expiry >= e + ClockSkew
    BY ClientAssumption DEF Owns
  <1>1. ASSUME NEW d \in Client, NEW m \in Node, NEW ttl,
               store' = [store EXCEPT ![m] = Written(d, m, ttl)],
               d = c /\ m = n => ttl \in Ttls,
               k \in Resources[d] => store[m][k].holder \in {NoClient, d}
        PROVE  store'[n][k].holder = c /\ store'[n][k].expiry >= e + ClockSkew
    <2>1. CASE m # n
      BY <1>0, <1>1, <2>1 DEF TypeOK
    <2>2. CASE m = n /\ d = c
      <3>1. store'[n][k] = [holder |-> c, expiry |-> now + ttl]
        BY <1>0, <1>1, <2>2 DEF TypeOK, Written
      <3> QED
        BY <1>1, <2>2, <3>1, LeaseMargin
    <2>3. CASE m = n /\ d # c
      <3>1. k \notin Resources[d]
        BY <1>0, <1>1, <2>3
      <3>2. store'[n][k] = store[n][k]
        BY <1>0, <1>1, <2>3, <3>1 DEF TypeOK, Written
      <3> QED
        BY <1>0, <3>2
    <2> QED
      BY <2>1, <2>2, <2>3
  <1>2. ASSUME NEW d \in Client, NEW m \in Node, Head1(d, m, "acquire") \/ Head1(d, m, "extend")
        PROVE  Head(conn[d][m]).ttl \in Ttls
    <2>1. conn[d][m] \in Seq(Cmd) /\ conn[d][m] # <<>>
      BY <1>2, QueueType DEF Head1
    <2>2. Legal(pc[d], ext[d].on, Head(conn[d][m]))
      BY <2>1, TailQueue DEF Commands
    <2> QED
      BY <1>2, <2>2 DEF Head1, Legal, Writes
  <1>3. ASSUME NEW d \in Client, NEW m \in Node, RunAcquire(d, m)
        PROVE  store'[n][k].holder = c /\ store'[n][k].expiry >= e + ClockSkew
    <2>1. CASE AcquireGranted(d, m)
      <3>1. store' = [store EXCEPT ![m] = Written(d, m, Head(conn[d][m]).ttl)]
        BY <1>3, <2>1 DEF RunAcquire
      <3> QED
        BY <1>1, <1>2, <1>3, <2>1, <3>1 DEF RunAcquire, AcquireGranted
    <2>2. CASE ~AcquireGranted(d, m)
      BY <1>0, <1>3, <2>2 DEF RunAcquire, TypeOK
    <2> QED
      BY <2>1, <2>2
  <1>4. ASSUME NEW d \in Client, NEW m \in Node, RunExtend(d, m)
        PROVE  store'[n][k].holder = c /\ store'[n][k].expiry >= e + ClockSkew
    <2>1. CASE ExtendGranted(d, m)
      <3>1. store' = [store EXCEPT ![m] = Written(d, m, Head(conn[d][m]).ttl)]
        BY <1>4, <2>1 DEF RunExtend
      <3> QED
        BY <1>1, <1>2, <1>4, <2>1, <3>1 DEF RunExtend, ExtendGranted, Owns
    <2>2. CASE ~ExtendGranted(d, m)
      BY <1>0, <1>4, <2>2 DEF RunExtend, TypeOK
    <2> QED
      BY <2>1, <2>2
  <1>5. ASSUME NEW d \in Client, NEW m \in Node, RunRelease(d, m)
        PROVE  store'[n][k].holder = c /\ store'[n][k].expiry >= e + ClockSkew
    <2>1. store' = [store EXCEPT ![m] = Deleted(d, m)]
      BY <1>5 DEF RunRelease
    <2>2. CASE m # n
      BY <1>0, <2>1, <2>2 DEF TypeOK
    <2>3. CASE m = n /\ d # c
      <3>1. store'[n][k] = store[n][k]
        BY <1>0, <2>1, <2>3 DEF TypeOK, Deleted, Owns
      <3> QED
        BY <1>0, <3>1
    <2> QED
      BY <1>5, <2>2, <2>3
  <1>6. ASSUME NEW m \in Node, NEW j \in Key, Expire(m, j)
        PROVE  store'[n][k].holder = c /\ store'[n][k].expiry >= e + ClockSkew
    <2>1. CASE m # n
      BY <1>0, <1>6, <2>1 DEF Expire, TypeOK
    <2>2. CASE m = n
      <3>1. /\ store[n][j].expiry \in Nat /\ store[n][k].expiry \in Nat
            /\ now \in Nat /\ ClockSkew \in Nat
        BY <1>0, TimeAssumption DEF TypeOK, Entry
      <3>2. ~(store[n][k].expiry <= store[n][j].expiry)
        BY <1>0, <1>6, <2>2, <3>1 DEF Expire
      <3>3. store'[n][k] = store[n][k]
        BY <1>0, <1>6, <2>2, <3>2 DEF Expire, TypeOK
      <3> QED
        BY <1>0, <3>3
    <2> QED
      BY <2>1, <2>2
  <1>7. CASE UNCHANGED store
    BY <1>0, <1>7
  <1>8. ASSUME NEW d \in Client, StartAttempt(d) \/ StartExtend(d) \/ StartRelease(d) \/ Decide(d)
        PROVE  UNCHANGED store
    BY <1>8 DEF StartAttempt, StartExtend, StartRelease, Decide, AcquireSucceeds,
         AcquireRefused, AcquireFails, CleanupDone, ExtendSucceeds, ExtendFails,
         ReleaseSucceeds, ReleaseNotHeld, ReleaseFails, EndRelease
  <1>9. ASSUME NEW d \in Client, NEW m \in Node,
               NoScript(d, m) \/ Disconnect(d, m) \/ Timeout(d, m) \/ ExtendTimeout(d, m)
        PROVE  UNCHANGED store
    BY <1>9 DEF NoScript, Disconnect, Timeout, ExtendTimeout
  <1>10. Tick \/ UNCHANGED vars => UNCHANGED store
    BY DEF Tick, vars
  <1> QED
    BY <1>3, <1>4, <1>5, <1>6, <1>7, <1>8, <1>9, <1>10 DEF Next, Serve

\* Time does not go back, and only one client moves at a time.
LEMMA StepShape ==
  ASSUME TypeOK, [Next]_vars
  PROVE  /\ now' \in Nat /\ now' >= now
         /\ \/ \E c \in Client : ClientStep(c) /\ \A d \in Client \ {c} : Same(d)
            \/ \A d \in Client : Same(d)
  <1>0. now \in Nat
    BY DEF TypeOK
  <1>1. ASSUME NEW c \in Client, ClientStep(c)
        PROVE  now' = now /\ \A d \in Client \ {c} : Same(d)
    BY <1>1, Locality
  <1>2. ASSUME NEW n \in Node, NEW k \in Key, Expire(n, k)
        PROVE  now' = now /\ \A d \in Client : Same(d)
    BY <1>2 DEF Expire, Same
  <1>3. CASE Tick
    BY <1>0, <1>3 DEF Tick, Same
  <1>4. CASE UNCHANGED vars
    BY <1>0, <1>4 DEF vars, Same
  <1>5. Next => \/ \E c \in Client : ClientStep(c)
                \/ \E n \in Node, k \in Key : Expire(n, k)
                \/ Tick
    BY DEF Next, ClientStep
  <1> QED
    BY <1>0, <1>1, <1>2, <1>3, <1>4, <1>5

\* Whatever happens, a node that backs a lease keeps backing it.
LEMMA BackedStep ==
  ASSUME TypeOK, \A d \in Client : Commands(d), [Next]_vars,
         NEW c \in Client, NEW n \in Node, NEW e \in Int, NEW u \in Ttls,
         e <= now + u - Drift(u), Backed(c, n, e),
         pc[c] \in {"acquiring", "held"}, pc'[c] \in {"acquiring", "held"}
  PROVE  Backed(c, n, e)'
  <1> SUFFICES ASSUME now' < e
               PROVE  /\ NoDelete(c, n)'
                      /\ \A k \in Resources[c] :
                           store'[n][k].holder = c /\ store'[n][k].expiry >= e + ClockSkew
    BY DEF Backed, Owns
  <1>1. now < e
    BY StepShape DEF TypeOK
  <1>2. NoDelete(c, n)
    BY <1>1 DEF Backed
  <1>3. NoDelete(c, n)'
    <2>1. CASE Same(c)
      BY <1>2, <2>1 DEF NoDelete, Same
    <2>2. CASE ClientStep(c)
      BY <1>2, <2>2, NoDeleteStep
    <2> QED
      BY <2>1, <2>2, StepShape
  <1>4. ~RunRelease(c, n)
    <2>1. ASSUME RunRelease(c, n) PROVE FALSE
      <3>1. conn[c][n] \in Seq(Cmd) /\ conn[c][n] # <<>> /\ Head(conn[c][n]).op \in Deletes
        BY <2>1, QueueType DEF RunRelease, Head1, Deletes
      <3> QED
        BY <1>2, <3>1, TailQueue DEF NoDelete
    <2> QED
      BY <2>1
  <1> QED
    BY <1>1, <1>3, <1>4, KeysStep DEF Backed
=============================================================================
