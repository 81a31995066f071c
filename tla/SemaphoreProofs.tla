-------------------------- MODULE SemaphoreProofs --------------------------
(***************************************************************************)
(* Proofs about the semaphore, for every number of nodes, callers and      *)
(* permits, and any timeouts and refusals: no set ever holds more than     *)
(* MaxPermits permits, calls that are over leave nothing behind, and how   *)
(* many permits can be valid at once.                                      *)
(***************************************************************************)
EXTENDS Semaphore, FiniteSetTheorems, FunctionTheorems, SequenceTheorems, TLAPS

(***************************************************************************)
(* Values and connections.                                                 *)
(***************************************************************************)
ExtendCall == [on : BOOLEAN, began : Nat, vote : [Node -> Vote]]

\* What the assumption on the constants says of each caller.
LEMMA TtlType ==
  \A c \in Client : /\ Ttl[c] \in Nat \ {0} /\ SetLife(c) = 2 * Ttl[c]
                    /\ MaxAttempts[c] \in Nat
  <1>1. Ttl \in [Client -> Nat \ {0}] /\ MaxAttempts \in [Client -> Nat]
    BY PermitAssumption
  <1> QED
    BY <1>1 DEF SetLife

\* The vote vectors that rounds begin with.
LEMMA VotesType ==
  /\ NoVotes \in [Node -> Vote]
  /\ \A refused \in Refusals : Opening(refused) \in [Node -> Vote]
  /\ NoExtend \in ExtendCall
  BY DEF NoVotes, Opening, NoExtend, ExtendCall, Vote

\* Abandoning commands only clears their live flag.
LEMMA AbandonType ==
  ASSUME NEW q \in Seq(Cmd), NEW ops
  PROVE  /\ Abandon(q, ops) \in Seq(Cmd)
         /\ Len(Abandon(q, ops)) = Len(q)
         /\ \A i \in 1..Len(q) :
              /\ Abandon(q, ops)[i].op = q[i].op /\ Abandon(q, ops)[i].sha = q[i].sha
              /\ Abandon(q, ops)[i].live => q[i].live /\ q[i].op \notin ops
  <1> DEFINE r == Abandon(q, ops)
  <1>1. /\ Len(q) \in Nat /\ DOMAIN r = 1..Len(q)
        /\ \A i \in 1..Len(q) : q[i] \in Cmd
    BY DEF Abandon
  <1>2. \A i \in 1..Len(q) :
          r[i] = IF q[i].op \in ops THEN [q[i] EXCEPT !.live = FALSE] ELSE q[i]
    BY DEF Abandon
  <1>3. \A i \in 1..Len(q) : r[i] \in Cmd
    BY <1>1, <1>2 DEF Cmd
  <1>4. r \in Seq(Cmd) /\ Len(r) = Len(q)
    <2>1. r \in [1..Len(q) -> Cmd]
      BY <1>1, <1>3 DEF Abandon
    <2> QED
      BY <2>1, <1>1, LenProperties
  <1> QED
    BY <1>1, <1>2, <1>4 DEF Cmd

\* Connections stay sequences of commands when a round ends ...
LEMMA AbandonAllType ==
  ASSUME NEW q \in [Node -> Seq(Cmd)], NEW ops
  PROVE  AbandonAll(q, ops) \in [Node -> Seq(Cmd)]
  BY AbandonType DEF AbandonAll

\* ... and when a round sends.
LEMMA SendType ==
  ASSUME NEW q \in [Node -> Seq(Cmd)], NEW op \in {"acquire", "cleanup", "extend", "release"},
         NEW refused
  PROVE  Command(op) \in Cmd /\ Send(q, Command(op), refused) \in [Node -> Seq(Cmd)]
  <1>1. Command(op) \in Cmd
    BY DEF Command, Cmd
  <1> QED
    BY <1>1, AppendProperties DEF Send

\* The oldest command leaves its connection.
LEMMA TailQueue ==
  ASSUME NEW q \in Seq(Cmd), q # <<>>
  PROVE  /\ Tail(q) \in Seq(Cmd)
         /\ Len(q) \in Nat /\ Len(Tail(q)) = Len(q) - 1
         /\ \A i \in 1..Len(Tail(q)) : i + 1 \in 1..Len(q) /\ Tail(q)[i] = q[i + 1]
         /\ 1 \in 1..Len(q) /\ Head(q) = q[1] /\ q[1] \in Cmd
  <1>1. /\ Len(q) \in Nat /\ Len(q) > 0 /\ Len(Tail(q)) = Len(q) - 1
        /\ Tail(q) \in Seq(Cmd)
        /\ \A i \in 1..Len(Tail(q)) : Tail(q)[i] = q[i + 1]
        /\ Head(q) = q[1]
    BY HeadTailProperties, EmptySeq, LenProperties
  <1>2. \A i \in 1..Len(Tail(q)) : i + 1 \in 1..Len(q) /\ Tail(q)[i] = q[i + 1]
    BY <1>1
  <1>3. q[1] \in Cmd
    BY <1>1, ElementOfSeq
  <1> QED
    BY <1>1, <1>2, <1>3

\* A new command goes to the end of its connection.
LEMMA AppendQueue ==
  ASSUME NEW q \in Seq(Cmd), NEW cmd \in Cmd
  PROVE  /\ Append(q, cmd) \in Seq(Cmd)
         /\ Len(q) \in Nat /\ Len(Append(q, cmd)) = Len(q) + 1
         /\ \A i \in 1..Len(q) : Append(q, cmd)[i] = q[i]
         /\ Append(q, cmd)[Len(q) + 1] = cmd
         /\ \A i \in 1..Len(Append(q, cmd)) : i \in 1..Len(q) \/ i = Len(q) + 1
  <1>1. /\ Len(q) \in Nat /\ Len(Append(q, cmd)) = Len(q) + 1
        /\ \A i \in 1..Len(q) : Append(q, cmd)[i] = q[i]
        /\ Append(q, cmd)[Len(q) + 1] = cmd
        /\ Append(q, cmd) \in Seq(Cmd)
    BY AppendProperties, LenProperties
  <1> QED
    BY <1>1

\* A command answered NOSCRIPT goes to the end of its connection, by its source.
Resent(q) == Append(Tail(q), [Head(q) EXCEPT !.sha = FALSE])

\* Where the commands of the connection were before.
Former(q, i) == IF i < Len(q) THEN i + 1 ELSE 1

\* The connection carries the same commands, in another order.
LEMMA ResentQueue ==
  ASSUME NEW q \in Seq(Cmd), q # <<>>
  PROVE  /\ Resent(q) \in Seq(Cmd)
         /\ Len(q) \in Nat /\ Len(q) >= 1 /\ Len(Resent(q)) = Len(q)
         /\ \A i \in 1..Len(q) :
              /\ Former(q, i) \in 1..Len(q)
              /\ Resent(q)[i].op = q[Former(q, i)].op
              /\ Resent(q)[i].live = q[Former(q, i)].live
              /\ Resent(q)[i].sha => q[Former(q, i)].sha
  <1> DEFINE cmd == [Head(q) EXCEPT !.sha = FALSE]
             r == Append(Tail(q), cmd)
  <1>1. /\ Tail(q) \in Seq(Cmd) /\ Len(q) \in Nat /\ Len(Tail(q)) = Len(q) - 1
        /\ \A i \in 1..Len(Tail(q)) : i + 1 \in 1..Len(q) /\ Tail(q)[i] = q[i + 1]
        /\ 1 \in 1..Len(q) /\ Head(q) = q[1] /\ q[1] \in Cmd
    BY TailQueue
  <1>2. cmd \in Cmd /\ cmd.op = q[1].op /\ cmd.live = q[1].live /\ ~cmd.sha
    BY <1>1 DEF Cmd
  <1> HIDE DEF cmd
  <1>3. /\ r \in Seq(Cmd) /\ Len(r) = Len(q) /\ Len(q) >= 1
        /\ \A i \in 1..Len(Tail(q)) : r[i] = Tail(q)[i]
        /\ r[Len(q)] = cmd
    BY <1>1, <1>2, AppendQueue
  <1> HIDE DEF r
  <1>4. \A i \in 1..Len(q) : i < Len(q) => i + 1 \in 1..Len(q) /\ r[i] = q[i + 1]
    BY <1>1, <1>3
  <1>5. \A i \in 1..Len(q) :
          /\ Former(q, i) \in 1..Len(q)
          /\ r[i].op = q[Former(q, i)].op
          /\ r[i].live = q[Former(q, i)].live
          /\ r[i].sha => q[Former(q, i)].sha
    <2> SUFFICES ASSUME NEW i \in 1..Len(q)
                 PROVE  /\ Former(q, i) \in 1..Len(q)
                        /\ r[i].op = q[Former(q, i)].op
                        /\ r[i].live = q[Former(q, i)].live
                        /\ r[i].sha => q[Former(q, i)].sha
      OBVIOUS
    <2>1. CASE i < Len(q)
      BY <1>4, <2>1 DEF Former
    <2>2. CASE ~(i < Len(q))
      <3>1. Former(q, i) = 1
        BY <2>2 DEF Former
      <3>2. Len(q) \in Nat
        BY <1>1
      <3>3. i = Len(q)
        BY <2>2, <3>2
      <3> QED
        BY <1>1, <1>2, <1>3, <3>1, <3>3
    <2> QED
      BY <2>1, <2>2
  <1>6. r = Resent(q)
    BY DEF r, cmd, Resent
  <1> QED
    BY <1>1, <1>3, <1>5, <1>6

(***************************************************************************)
(* Sets of permits.                                                        *)
(***************************************************************************)
Scores == [Client -> Nat]

\* What the scripts compute from the time.
LEMMA TimesType ==
  ASSUME TypeOK
  PROVE  /\ \A c \in Client : now + Ttl[c] \in Nat /\ now + SetLife(c) \in Nat
         /\ \A n \in Node : score[n] \in Scores /\ keyExpiry[n] \in Nat
  <1>1. now \in Nat
    BY DEF TypeOK
  <1>2. \A c \in Client : now + Ttl[c] \in Nat /\ now + SetLife(c) \in Nat
    BY <1>1, TtlType
  <1>3. \A n \in Node : score[n] \in Scores /\ keyExpiry[n] \in Nat
    BY DEF TypeOK, Scores
  <1> QED
    BY <1>2, <1>3

\* The members of a set are clients, and the more scores vanish the fewer they are.
LEMMA MembersType ==
  ASSUME NEW s \in Scores
  PROVE  /\ Members(s) \subseteq Client /\ IsFiniteSet(Members(s))
         /\ Cardinality(Members(s)) \in Nat
  <1>1. Members(s) \in SUBSET Client
    BY DEF Members
  <1> QED
    BY <1>1, PermitAssumption, FS_Subset, FS_CardinalityType

\* Members that leave make a set no larger.
LEMMA FewerMembers ==
  ASSUME NEW s \in Scores, NEW t \in Scores, \A c \in Client : t[c] # 0 => s[c] # 0
  PROVE  Cardinality(Members(t)) <= Cardinality(Members(s))
  <1>1. Members(t) \in SUBSET Members(s)
    BY DEF Members
  <1> QED
    BY <1>1, MembersType, FS_Subset

\* ZADD adds at most one member.
LEMMA OneMoreMember ==
  ASSUME NEW s \in Scores, NEW c \in Client, NEW x \in Nat
  PROVE  /\ [s EXCEPT ![c] = x] \in Scores
         /\ Cardinality(Members([s EXCEPT ![c] = x]))
              <= Cardinality(Members(s)) + (IF s[c] # 0 THEN 0 ELSE 1)
  <1> DEFINE t == [s EXCEPT ![c] = x]
  <1>1. t \in Scores
    BY DEF Scores
  <1>2. /\ IsFiniteSet(Members(s)) /\ IsFiniteSet(Members(s) \union {c})
        /\ Cardinality(Members(s) \union {c})
             = IF c \in Members(s) THEN Cardinality(Members(s)) ELSE Cardinality(Members(s)) + 1
    BY MembersType, FS_AddElement
  <1>3. Members(t) \in SUBSET (Members(s) \union {c})
    BY DEF Members, Scores
  <1>4. Cardinality(Members(t)) <= Cardinality(Members(s) \union {c})
    BY <1>2, <1>3, FS_Subset
  <1>5. s[c] # 0 => c \in Members(s)
    BY DEF Members
  <1>6. Cardinality(Members(t)) \in Nat /\ Cardinality(Members(s)) \in Nat
    BY <1>1, MembersType
  <1> QED
    BY <1>1, <1>2, <1>4, <1>5, <1>6

\* Purging a set only takes members away.
LEMMA PurgedType ==
  ASSUME TypeOK, NEW n \in Node
  PROVE  /\ Purged(n) \in Scores
         /\ \A c \in Client : Purged(n)[c] # 0 => Purged(n)[c] = score[n][c] /\ score[n][c] > now
         /\ \A c \in Client : Purged(n)[c] = 0 => score[n][c] <= now
         /\ Cardinality(Members(Purged(n))) <= MaxPermits
         /\ Cardinality(Members(Purged(n))) \in Nat
  <1>1. score[n] \in Scores /\ now \in Nat /\ \A c \in Client : score[n][c] \in Nat
    BY DEF TypeOK, Scores
  <1>2. Purged(n) \in Scores
    BY <1>1 DEF Purged, Scores
  <1>3. /\ \A c \in Client : Purged(n)[c] # 0 => Purged(n)[c] = score[n][c] /\ score[n][c] > now
        /\ \A c \in Client : Purged(n)[c] = 0 => score[n][c] <= now
    BY <1>1 DEF Purged
  <1>4. Cardinality(Members(Purged(n))) <= Cardinality(Members(score[n]))
    BY <1>1, <1>2, <1>3, FewerMembers
  <1>5. Cardinality(Members(Purged(n))) \in Nat /\ Cardinality(Members(score[n])) \in Nat
    BY <1>1, <1>2, MembersType
  <1>6. Cardinality(Members(score[n])) <= MaxPermits
    BY DEF TypeOK
  <1> QED
    BY <1>2, <1>3, <1>4, <1>5, <1>6, PermitAssumption

\* The sets of the nodes have their type, and room for no more than MaxPermits.
SetsOK ==
  /\ score \in [Node -> [Client -> Nat]]
  /\ \A n \in Node : Cardinality(Members(score[n])) <= MaxPermits
  /\ keyExpiry \in [Node -> Nat]

\* A node that stores a set within the limit keeps its type.
LEMMA StoreType ==
  ASSUME TypeOK, NEW n \in Node, NEW s \in Scores, Cardinality(Members(s)) <= MaxPermits,
         NEW expiry \in Nat, Store(n, s, expiry)
  PROVE  SetsOK'
  <1>1. score' = [score EXCEPT ![n] = s] /\ score \in [Node -> [Client -> Nat]]
    BY DEF Store, TypeOK
  <1>2. score' \in [Node -> [Client -> Nat]]
    BY <1>1 DEF Scores
  <1>3. \A m \in Node : Cardinality(Members(score'[m])) <= MaxPermits
    BY <1>1 DEF TypeOK
  <1>4. keyExpiry' \in [Node -> Nat]
    <2>1. PICK e \in Nat : keyExpiry' = [keyExpiry EXCEPT ![n] = e]
      BY DEF Store
    <2> QED
      BY <2>1 DEF TypeOK
  <1> QED
    BY <1>2, <1>3, <1>4 DEF SetsOK, Members

\* Each script keeps the sets within their limit.
LEMMA AcquireSets ==
  ASSUME TypeOK, NEW c \in Client, NEW n \in Node, RunAcquire(c, n)
  PROVE  SetsOK'
  <1>1. now + Ttl[c] \in Nat /\ now + SetLife(c) \in Nat /\ keyExpiry[n] \in Nat
    BY TimesType
  <1>2. CASE AcquireGranted(c, n)
    <2> DEFINE s == [Purged(n) EXCEPT ![c] = now + Ttl[c]]
               e == IF Purged(n)[c] = 0 THEN now + SetLife(c) ELSE keyExpiry[n]
    <2>1. Store(n, s, e)
      BY <1>2 DEF RunAcquire
    <2>2. s \in Scores /\ Cardinality(Members(s)) \in Nat
      BY <1>1, PurgedType, OneMoreMember, MembersType
    <2>3. Cardinality(Members(s)) <= MaxPermits
      <3>1. Cardinality(Members(s))
              <= Cardinality(Members(Purged(n))) + (IF Purged(n)[c] # 0 THEN 0 ELSE 1)
        BY <1>1, PurgedType, OneMoreMember
      <3> HIDE DEF s
      <3> QED
        BY <1>2, <2>2, <3>1, PurgedType, PermitAssumption DEF AcquireGranted
    <2>4. e \in Nat
      BY <1>1
    <2> HIDE DEF s, e
    <2> QED
      BY <2>1, <2>2, <2>3, <2>4, StoreType
  <1>3. CASE ~AcquireGranted(c, n)
    <2>1. Store(n, Purged(n), keyExpiry[n])
      BY <1>3 DEF RunAcquire
    <2> QED
      BY <1>1, <2>1, PurgedType, StoreType
  <1> QED
    BY <1>2, <1>3

\* The extend script adds nobody.
LEMMA ExtendSets ==
  ASSUME TypeOK, NEW c \in Client, NEW n \in Node, RunExtend(c, n)
  PROVE  SetsOK'
  <1> DEFINE x == IF ExtendGranted(c, n) THEN now + Ttl[c] ELSE 0
             s == [score[n] EXCEPT ![c] = x]
             e == IF ExtendGranted(c, n) THEN now + SetLife(c) ELSE keyExpiry[n]
  <1>1. x \in Nat /\ e \in Nat /\ score[n] \in Scores
    BY TimesType
  <1>2. Store(n, s, e)
    BY DEF RunExtend
  <1>3. s \in Scores
    BY <1>1 DEF Scores
  <1>4. \A d \in Client : s[d] # 0 => score[n][d] # 0
    BY <1>1 DEF ExtendGranted, Scores
  <1>5. Cardinality(Members(s)) <= Cardinality(Members(score[n]))
    BY <1>1, <1>3, <1>4, FewerMembers
  <1>6. Cardinality(Members(s)) \in Nat /\ Cardinality(Members(score[n])) \in Nat
    BY <1>1, <1>3, MembersType
  <1>7. Cardinality(Members(s)) <= MaxPermits
    <2>1. Cardinality(Members(score[n])) <= MaxPermits
      BY DEF TypeOK
    <2> HIDE DEF s
    <2> QED
      BY <1>5, <1>6, <2>1, PermitAssumption
  <1> HIDE DEF s, e
  <1> QED
    BY <1>1, <1>2, <1>3, <1>7, StoreType

\* Nor does the release script.
LEMMA ReleaseSets ==
  ASSUME TypeOK, NEW c \in Client, NEW n \in Node, RunRelease(c, n)
  PROVE  SetsOK'
  <1> DEFINE s == [Purged(n) EXCEPT ![c] = 0]
  <1>1. Store(n, s, keyExpiry[n]) /\ keyExpiry[n] \in Nat
    BY DEF RunRelease, TypeOK
  <1>2. s \in Scores
    BY PurgedType DEF Scores
  <1>3. \A d \in Client : s[d] # 0 => Purged(n)[d] # 0
    BY PurgedType DEF Scores
  <1>4. Cardinality(Members(s)) <= Cardinality(Members(Purged(n)))
    BY <1>2, <1>3, PurgedType, FewerMembers
  <1>5. Cardinality(Members(s)) <= MaxPermits
    <2>1. Cardinality(Members(s)) \in Nat
      BY <1>2, MembersType
    <2> HIDE DEF s
    <2> QED
      BY <1>4, <2>1, PurgedType, PermitAssumption
  <1> HIDE DEF s
  <1> QED
    BY <1>1, <1>2, <1>5, StoreType

\* Nor does a look at the status.
LEMMA StatusSets ==
  ASSUME TypeOK, GetStatus
  PROVE  SetsOK'
  <1>1. ReadNode \in Node /\ keyExpiry[ReadNode] \in Nat
    BY PermitAssumption DEF TypeOK
  <1> QED
    BY <1>1, PurgedType, StoreType DEF GetStatus

\* Nor does the clock.
LEMMA TickSets ==
  ASSUME TypeOK, Tick
  PROVE  SetsOK'
  <1>1. \A n \in Node : score[n] \in Scores /\ keyExpiry[n] \in Nat
    BY DEF TypeOK, Scores
  <1>2. \A n \in Node : At(n, now + 1) \in Scores
    BY <1>1 DEF At, Scores
  <1>3. \A n \in Node, c \in Client : At(n, now + 1)[c] # 0 => score[n][c] # 0
    BY DEF At
  <1>4. \A n \in Node : Cardinality(Members(At(n, now + 1))) <= MaxPermits
    <2> SUFFICES ASSUME NEW n \in Node
                 PROVE  Cardinality(Members(At(n, now + 1))) <= MaxPermits
      OBVIOUS
    <2>1. Cardinality(Members(At(n, now + 1))) <= Cardinality(Members(score[n]))
      BY <1>1, <1>2, <1>3, FewerMembers
    <2>2. /\ Cardinality(Members(At(n, now + 1))) \in Nat
          /\ Cardinality(Members(score[n])) \in Nat
      BY <1>1, <1>2, MembersType
    <2>3. Cardinality(Members(score[n])) <= MaxPermits
      BY DEF TypeOK
    <2> QED
      BY <2>1, <2>2, <2>3, PermitAssumption
  <1>5. score' = [n \in Node |-> At(n, now + 1)]
    BY DEF Tick
  <1>6. score' \in [Node -> [Client -> Nat]]
    BY <1>2, <1>5 DEF Scores
  <1>7. \A n \in Node : Cardinality(Members(score'[n])) <= MaxPermits
    BY <1>4, <1>5
  <1>8. keyExpiry' \in [Node -> Nat]
    BY <1>1 DEF Tick
  <1> QED
    BY <1>6, <1>7, <1>8 DEF SetsOK, Members

(***************************************************************************)
(* Type correctness.                                                       *)
(***************************************************************************)
\* The other variables that a round touches.
ConnOK == conn \in [Client -> [Node -> Seq(Cmd)]]
VoteOK == vote \in [Client -> [Node -> Vote]]
ExtOK == ext \in [Client -> ExtendCall]

\* The type invariant by its parts, in this state ...
LEMMA TypeParts ==
  TypeOK <=> /\ now \in Nat /\ SetsOK /\ ConnOK /\ VoteOK /\ ExtOK
             /\ pc \in [Client -> PC] /\ began \in [Client -> Nat]
             /\ expiration \in [Client -> Int]
             /\ calls \in [Client -> [attempt : Nat, extend : Nat, release : Nat]]
             /\ faults \in [Client -> Nat] /\ resent \in [Client -> [Node -> BOOLEAN]]
  BY DEF TypeOK, SetsOK, ConnOK, VoteOK, ExtOK, ExtendCall

\* ... and in the next.
LEMMA TypeNext ==
  ASSUME now' \in Nat, SetsOK', ConnOK', VoteOK', ExtOK',
         pc' \in [Client -> PC], began' \in [Client -> Nat], expiration' \in [Client -> Int],
         calls' \in [Client -> [attempt : Nat, extend : Nat, release : Nat]],
         faults' \in [Client -> Nat], resent' \in [Client -> [Node -> BOOLEAN]]
  PROVE  TypeOK'
  BY DEF TypeOK, SetsOK, ConnOK, VoteOK, ExtOK, ExtendCall

\* Opening and closing a round, and its count of faults.
LEMMA OpenRoundType ==
  ASSUME TypeOK, NEW c \in Client, NEW op \in MainOps, NEW refused \in Refusals,
         OpenRound(c, op, refused)
  PROVE  /\ ConnOK' /\ VoteOK' /\ faults' \in [Client -> Nat]
         /\ resent' \in [Client -> [Node -> BOOLEAN]]
  <1>1. conn[c] \in [Node -> Seq(Cmd)] /\ vote \in [Client -> [Node -> Vote]]
    BY DEF TypeOK
  <1>2. Send(AbandonAll(conn[c], MainOps), Command(op), refused) \in [Node -> Seq(Cmd)]
    BY <1>1, AbandonAllType, SendType DEF MainOps
  <1>3. ConnOK'
    BY <1>2 DEF OpenRound, ConnOK, TypeOK
  <1>4. VoteOK'
    BY <1>1, VotesType DEF OpenRound, VoteOK
  <1>5. faults' \in [Client -> Nat]
    BY DEF OpenRound, Fault, TypeOK
  <1>6. resent' \in [Client -> [Node -> BOOLEAN]]
    BY DEF OpenRound, TypeOK
  <1> QED
    BY <1>3, <1>4, <1>5, <1>6

\* The end of a round keeps its types.
LEMMA CloseRoundType ==
  ASSUME TypeOK, NEW c \in Client, NEW stage \in PC, CloseRound(c, stage)
  PROVE  ConnOK' /\ VoteOK' /\ pc' \in [Client -> PC]
  <1>1. conn[c] \in [Node -> Seq(Cmd)] /\ vote \in [Client -> [Node -> Vote]]
    BY DEF TypeOK
  <1>2. AbandonAll(conn[c], MainOps) \in [Node -> Seq(Cmd)]
    BY <1>1, AbandonAllType
  <1>3. ConnOK'
    BY <1>2 DEF CloseRound, ConnOK, TypeOK
  <1>4. VoteOK'
    <2>1. [n \in Node |-> IF vote[c][n] = "open" THEN "open" ELSE "none"] \in [Node -> Vote]
      BY <1>1 DEF Vote
    <2> QED
      BY <1>1, <2>1 DEF CloseRound, VoteOK
  <1>5. pc' \in [Client -> PC]
    BY DEF CloseRound, TypeOK
  <1> QED
    BY <1>3, <1>4, <1>5

\* A node executes the oldest command of a connection, and answers.
LEMMA PopType ==
  ASSUME TypeOK, NEW c \in Client, NEW n \in Node, conn[c][n] # <<>>, Pop(c, n)
  PROVE  ConnOK'
  <1>1. conn[c][n] \in Seq(Cmd) /\ conn \in [Client -> [Node -> Seq(Cmd)]]
    BY DEF TypeOK
  <1>2. [conn[c] EXCEPT ![n] = Tail(conn[c][n])] \in [Node -> Seq(Cmd)]
    BY <1>1, TailQueue
  <1>3. conn' = [conn EXCEPT ![c] = [conn[c] EXCEPT ![n] = Tail(conn[c][n])]]
    BY <1>1 DEF Pop
  <1> QED
    BY <1>1, <1>2, <1>3 DEF ConnOK

\* An answer is a vote.
LEMMA AnswerType ==
  ASSUME TypeOK, NEW c \in Client, NEW n \in Node, NEW outcome \in Vote, Answer(c, n, outcome)
  PROVE  VoteOK'
  <1>1. vote \in [Client -> [Node -> Vote]]
    BY DEF TypeOK
  <1> QED
    BY <1>1 DEF Answer, VoteOK

\* An answer, or none, to an extension.
LEMMA ExtVoteType ==
  ASSUME TypeOK, NEW c \in Client, NEW n \in Node, NEW outcome \in Vote,
         ext' = [ext EXCEPT ![c].vote[n] = outcome] \/ UNCHANGED ext
  PROVE  ExtOK'
  <1>1. ext \in [Client -> ExtendCall] /\ ext[c] \in ExtendCall
    BY DEF TypeOK, ExtendCall
  <1>2. ext[c].vote \in [Node -> Vote]
    BY <1>1 DEF ExtendCall
  <1>3. [ext[c].vote EXCEPT ![n] = outcome] \in [Node -> Vote]
    BY <1>2
  <1>4. [ext[c] EXCEPT !.vote[n] = outcome] \in ExtendCall
    BY <1>1, <1>3 DEF ExtendCall
  <1> QED
    BY <1>1, <1>4 DEF ExtOK

\* The commands of c to node n that wait are given up.
LEMMA GiveUpType ==
  ASSUME TypeOK, NEW c \in Client, NEW n \in Node, NEW ops,
         conn' = [conn EXCEPT ![c][n] = Abandon(@, ops)]
  PROVE  ConnOK'
  <1>1. conn \in [Client -> [Node -> Seq(Cmd)]]
    BY DEF TypeOK
  <1>2. [conn[c] EXCEPT ![n] = Abandon(conn[c][n], ops)] \in [Node -> Seq(Cmd)]
    BY <1>1, AbandonType
  <1> QED
    BY <1>1, <1>2 DEF ConnOK

\* What a call counts is natural.
LEMMA CallsType ==
  ASSUME TypeOK, NEW c \in Client,
         \/ calls' = [calls EXCEPT ![c].attempt = @ + 1]
         \/ calls' = [calls EXCEPT ![c].extend = @ + 1]
         \/ calls' = [calls EXCEPT ![c].release = @ + 1]
  PROVE  calls' \in [Client -> [attempt : Nat, extend : Nat, release : Nat]]
  <1>1. calls \in [Client -> [attempt : Nat, extend : Nat, release : Nat]]
    BY DEF TypeOK
  <1>2. /\ calls[c] \in [attempt : Nat, extend : Nat, release : Nat]
        /\ calls[c].attempt + 1 \in Nat /\ calls[c].extend + 1 \in Nat
        /\ calls[c].release + 1 \in Nat
    BY <1>1
  <1>3. /\ [calls[c] EXCEPT !.attempt = @ + 1] \in [attempt : Nat, extend : Nat, release : Nat]
        /\ [calls[c] EXCEPT !.extend = @ + 1] \in [attempt : Nat, extend : Nat, release : Nat]
        /\ [calls[c] EXCEPT !.release = @ + 1] \in [attempt : Nat, extend : Nat, release : Nat]
    BY <1>2
  <1> QED
    BY <1>1, <1>3

\* The scripts keep every variable within its type.
LEMMA ScriptTypes ==
  ASSUME TypeOK, NEW c \in Client, NEW n \in Node,
         RunAcquire(c, n) \/ RunExtend(c, n) \/ RunRelease(c, n)
  PROVE  TypeOK'
  <1>1. conn[c][n] # <<>> /\ Pop(c, n)
    BY DEF RunAcquire, RunExtend, RunRelease, Head1
  <1>2. ConnOK'
    BY <1>1, PopType
  <1>3. CASE RunAcquire(c, n)
    <2>1. VoteOK'
      BY <1>3, AnswerType DEF RunAcquire, Vote
    <2>2. SetsOK'
      BY <1>3, AcquireSets
    <2> QED
      BY <1>2, <1>3, <2>1, <2>2, TypeParts, TypeNext DEF RunAcquire, ExtOK
  <1>4. CASE RunExtend(c, n)
    <2>1. ExtOK'
      BY <1>4, ExtVoteType DEF RunExtend, Vote
    <2>2. SetsOK'
      BY <1>4, ExtendSets
    <2> QED
      BY <1>2, <1>4, <2>1, <2>2, TypeParts, TypeNext DEF RunExtend, VoteOK
  <1>5. CASE RunRelease(c, n)
    <2>1. VoteOK'
      BY <1>5, AnswerType DEF RunRelease, Vote
    <2>2. SetsOK'
      BY <1>5, ReleaseSets
    <2> QED
      BY <1>2, <1>5, <2>1, <2>2, TypeParts, TypeNext DEF RunRelease, ExtOK
  <1> QED
    BY <1>3, <1>4, <1>5

\* So do the steps of acquire(), extend() and release().
LEMMA CallTypes ==
  ASSUME TypeOK, NEW c \in Client,
         \/ StartAttempt(c) \/ AcquireSucceeds(c) \/ AcquireRefused(c)
         \/ AcquireFails(c) \/ CleanupDone(c)
         \/ StartExtend(c) \/ ExtendSucceeds(c) \/ ExtendFails(c)
         \/ StartRelease(c) \/ EndRelease(c)
  PROVE  TypeOK'
  <1>1. {"acquire", "cleanup", "release"} \subseteq MainOps /\ "held" \in PC /\ "failed" \in PC
        /\ "backoff" \in PC /\ "released" \in PC /\ "unreleased" \in PC /\ "acquiring" \in PC
        /\ "cleaning" \in PC /\ "releasing" \in PC
    BY DEF MainOps, PC
  <1>2. AcquireExpiry(c) \in Int /\ now + Ttl[c] \in Int
    <2>1. Drift \in Nat /\ now \in Nat /\ Ttl[c] \in Nat
      BY PermitAssumption, TtlType, TypeParts
    <2> QED
      BY <2>1 DEF AcquireExpiry
  <1>3. EndExtend(c) => ConnOK' /\ ExtOK'
    <2>1. AbandonAll(conn[c], {"extend"}) \in [Node -> Seq(Cmd)]
      BY AbandonAllType DEF TypeOK
    <2> QED
      BY <2>1, VotesType, TypeParts, TypeNext DEF EndExtend, ConnOK, ExtOK
  <1>4. CASE StartAttempt(c)
    <2>1. PICK refused \in Refusals : OpenRound(c, "acquire", refused)
      BY <1>4 DEF StartAttempt
    <2>2. /\ ConnOK' /\ VoteOK' /\ faults' \in [Client -> Nat]
          /\ resent' \in [Client -> [Node -> BOOLEAN]]
      BY <1>1, <2>1, OpenRoundType
    <2>3. calls' \in [Client -> [attempt : Nat, extend : Nat, release : Nat]]
      BY <1>4, CallsType DEF StartAttempt
    <2>4. pc' \in [Client -> PC] /\ began' \in [Client -> Nat]
      BY <1>1, <1>4 DEF StartAttempt, TypeOK
    <2> QED
      BY <1>4, <2>2, <2>3, <2>4, TypeParts, TypeNext DEF StartAttempt, SetsOK, Members, ExtOK
  <1>5. CASE AcquireSucceeds(c)
    <2>1. ConnOK' /\ VoteOK' /\ pc' \in [Client -> PC]
      BY <1>1, <1>5, CloseRoundType DEF AcquireSucceeds
    <2>2. expiration' \in [Client -> Int]
      BY <1>2, <1>5 DEF AcquireSucceeds, TypeOK
    <2> QED
      BY <1>5, <2>1, <2>2, TypeParts, TypeNext DEF AcquireSucceeds, SetsOK, Members, ExtOK
  <1>6. CASE AcquireRefused(c)
    <2>1. ConnOK' /\ VoteOK' /\ pc' \in [Client -> PC]
      BY <1>1, <1>6, CloseRoundType DEF AcquireRefused
    <2> QED
      BY <1>6, <2>1, TypeParts, TypeNext DEF AcquireRefused, SetsOK, Members, ExtOK
  <1>7. CASE AcquireFails(c)
    <2>1. PICK refused \in Refusals : OpenRound(c, "cleanup", refused)
      BY <1>7 DEF AcquireFails
    <2>2. /\ ConnOK' /\ VoteOK' /\ faults' \in [Client -> Nat]
          /\ resent' \in [Client -> [Node -> BOOLEAN]]
      BY <1>1, <2>1, OpenRoundType
    <2>3. pc' \in [Client -> PC]
      BY <1>1, <1>7 DEF AcquireFails, TypeOK
    <2> QED
      BY <1>7, <2>2, <2>3, TypeParts, TypeNext DEF AcquireFails, SetsOK, Members, ExtOK
  <1>8. CASE CleanupDone(c)
    <2>1. PICK stage \in PC : CloseRound(c, stage)
      BY <1>1, <1>8 DEF CleanupDone
    <2>2. ConnOK' /\ VoteOK' /\ pc' \in [Client -> PC]
      BY <2>1, CloseRoundType
    <2> QED
      BY <1>8, <2>2, TypeParts, TypeNext DEF CleanupDone, SetsOK, Members, ExtOK
  <1>9. CASE StartExtend(c)
    <2>1. PICK refused \in Refusals :
            /\ ext' = [ext EXCEPT ![c] = [on |-> TRUE, began |-> now, vote |-> Opening(refused)]]
            /\ conn' = [conn EXCEPT ![c] = Send(@, Command("extend"), refused)]
            /\ Fault(c, IF refused = {} THEN 0 ELSE 1)
      BY <1>9 DEF StartExtend
    <2>2. [on |-> TRUE, began |-> now, vote |-> Opening(refused)] \in ExtendCall
      BY VotesType, TypeParts DEF ExtendCall
    <2>3. ExtOK'
      BY <2>1, <2>2, TypeParts DEF ExtOK
    <2>4. conn[c] \in [Node -> Seq(Cmd)]
      BY TypeParts DEF ConnOK
    <2>5. ConnOK'
      BY <2>1, <2>4, SendType, TypeParts DEF ConnOK
    <2>6. faults' \in [Client -> Nat]
      BY <2>1, TypeParts DEF Fault
    <2>7. calls' \in [Client -> [attempt : Nat, extend : Nat, release : Nat]]
      BY <1>9, CallsType DEF StartExtend
    <2> QED
      BY <1>9, <2>3, <2>5, <2>6, <2>7, TypeParts, TypeNext DEF StartExtend, SetsOK, Members, VoteOK
  <1>10. CASE ExtendSucceeds(c)
    <2>1. ext[c].began \in Nat
      BY TypeParts DEF ExtOK, ExtendCall
    <2>2. expiration' \in [Client -> Int] /\ began' \in [Client -> Nat]
      BY <1>2, <1>10, <2>1, TypeParts DEF ExtendSucceeds
    <2> QED
      BY <1>3, <1>10, <2>2, TypeParts, TypeNext DEF ExtendSucceeds, EndExtend, SetsOK, Members, VoteOK
  <1>11. CASE ExtendFails(c)
    BY <1>3, <1>11, TypeParts, TypeNext DEF ExtendFails, EndExtend, SetsOK, Members, VoteOK
  <1>12. CASE StartRelease(c)
    <2>1. PICK refused \in Refusals : OpenRound(c, "release", refused)
      BY <1>12 DEF StartRelease
    <2>2. /\ ConnOK' /\ VoteOK' /\ faults' \in [Client -> Nat]
          /\ resent' \in [Client -> [Node -> BOOLEAN]]
      BY <1>1, <2>1, OpenRoundType
    <2>3. calls' \in [Client -> [attempt : Nat, extend : Nat, release : Nat]]
      BY <1>12, CallsType DEF StartRelease
    <2>4. pc' \in [Client -> PC]
      BY <1>1, <1>12 DEF StartRelease, TypeOK
    <2> QED
      BY <1>12, <2>2, <2>3, <2>4, TypeParts, TypeNext DEF StartRelease, SetsOK, Members, ExtOK
  <1>13. CASE EndRelease(c)
    <2>1. PICK stage \in PC : CloseRound(c, stage)
      BY <1>1, <1>13 DEF EndRelease
    <2>2. ConnOK' /\ VoteOK' /\ pc' \in [Client -> PC]
      BY <2>1, CloseRoundType
    <2> QED
      BY <1>13, <2>2, TypeParts, TypeNext DEF EndRelease, SetsOK, Members, ExtOK
  <1> QED
    BY <1>4, <1>5, <1>6, <1>7, <1>8, <1>9, <1>10, <1>11, <1>12, <1>13

\* Timeouts, too.
LEMMA TimeoutTypes ==
  ASSUME TypeOK, NEW c \in Client, NEW n \in Node, Timeout(c, n) \/ ExtendTimeout(c, n)
  PROVE  TypeOK'
  <1>1. faults' \in [Client -> Nat]
    <2>1. Fault(c, 1) /\ faults \in [Client -> Nat]
      BY TypeParts DEF Timeout, ExtendTimeout
    <2> QED
      BY <2>1 DEF Fault
  <1>2. ConnOK'
    BY GiveUpType DEF Timeout, ExtendTimeout
  <1>3. CASE Timeout(c, n)
    <2>1. VoteOK'
      BY <1>3, TypeParts DEF Timeout, VoteOK, Vote
    <2> QED
      BY <1>1, <1>2, <1>3, <2>1, TypeParts, TypeNext DEF Timeout, SetsOK, Members, ExtOK
  <1>4. CASE ExtendTimeout(c, n)
    <2>1. ExtOK'
      BY <1>4, ExtVoteType DEF ExtendTimeout, Vote
    <2> QED
      BY <1>1, <1>2, <1>4, <2>1, TypeParts, TypeNext DEF ExtendTimeout, SetsOK, Members, VoteOK
  <1> QED
    BY <1>3, <1>4

\* So does a command that is sent again.
LEMMA NoScriptTypes ==
  ASSUME TypeOK, NEW c \in Client, NEW n \in Node, NoScript(c, n)
  PROVE  TypeOK'
  <1>1. conn \in [Client -> [Node -> Seq(Cmd)]] /\ resent \in [Client -> [Node -> BOOLEAN]]
    BY TypeParts DEF ConnOK
  <1>2. Resent(conn[c][n]) \in Seq(Cmd)
    BY <1>1, ResentQueue DEF NoScript
  <1>3. conn' = [conn EXCEPT ![c] = [conn[c] EXCEPT ![n] = Resent(conn[c][n])]]
    BY <1>1 DEF NoScript, Resent
  <1>4. ConnOK'
    BY <1>1, <1>2, <1>3 DEF ConnOK
  <1>5. resent' \in [Client -> [Node -> BOOLEAN]]
    <2> DEFINE b == \/ resent[c][n]
                    \/ /\ Head(conn[c][n]).op = "acquire"
                       /\ \E i \in 1..Len(Tail(conn[c][n])) : Tail(conn[c][n])[i].op \in Deletes
    <2>1. resent' = [resent EXCEPT ![c][n] = b]
      BY DEF NoScript
    <2>2. b \in BOOLEAN
      BY Zenon
    <2> HIDE DEF b
    <2> QED
      BY <1>1, <2>1, <2>2
  <1> QED
    BY <1>4, <1>5, TypeParts, TypeNext DEF NoScript, SetsOK, Members, VoteOK, ExtOK

\* Every step keeps the types and the limit of every set.
LEMMA TypeStep == TypeOK /\ [Next]_vars => TypeOK'
  <1> SUFFICES ASSUME TypeOK, [Next]_vars
               PROVE  TypeOK'
    OBVIOUS
  <1>1. CASE UNCHANGED vars
    BY <1>1 DEF vars, TypeOK, Members
  <1>2. CASE GetStatus
    BY <1>2, StatusSets, TypeParts, TypeNext DEF GetStatus, ConnOK, VoteOK, ExtOK
  <1>3. CASE Tick
    <2>1. now' \in Nat
      BY <1>3, TypeParts DEF Tick
    <2> QED
      BY <1>3, <2>1, TickSets, TypeParts, TypeNext DEF Tick, ConnOK, VoteOK, ExtOK
  <1> QED
    BY <1>1, <1>2, <1>3, ScriptTypes, CallTypes, TimeoutTypes, NoScriptTypes DEF Next

\* They hold initially.
LEMMA InitType == Init => TypeOK
  <1>1. Cardinality(Members(Nobody)) = 0
    BY FS_EmptySet DEF Members, Nobody
  <1>2. Nobody \in [Client -> Nat] /\ <<>> \in Seq(Cmd) /\ "idle" \in PC
    BY EmptySeq DEF Nobody, PC
  <1> QED
    BY <1>1, <1>2, VotesType, PermitAssumption DEF Init, TypeOK, ExtendCall

\* Every reachable state is well typed; in particular no node ever keeps more than
\* MaxPermits permits, however acquire, extend, release, getStatus and expiry interleave.
THEOREM TypeCorrect == Spec => []TypeOK
  BY InitType, TypeStep, PTL DEF Spec

(***************************************************************************)
(* Who is affected by a step.                                              *)
(***************************************************************************)
CallStep(c) ==
  \/ StartAttempt(c) \/ AcquireSucceeds(c) \/ AcquireRefused(c)
  \/ AcquireFails(c) \/ CleanupDone(c)
  \/ StartExtend(c) \/ ExtendSucceeds(c) \/ ExtendFails(c)
  \/ StartRelease(c) \/ EndRelease(c)

ScriptStep(c, n) == RunAcquire(c, n) \/ RunExtend(c, n) \/ RunRelease(c, n)
TimeoutStep(c, n) == Timeout(c, n) \/ ExtendTimeout(c, n)
NodeStep(c, n) == ScriptStep(c, n) \/ NoScript(c, n) \/ TimeoutStep(c, n)

\* Nothing that the call of d keeps changes, and its permits only lapse.
Same(d) ==
  /\ conn'[d] = conn[d] /\ pc'[d] = pc[d] /\ ext'[d] = ext[d] /\ vote'[d] = vote[d]
  /\ began'[d] = began[d] /\ calls'[d] = calls[d] /\ resent'[d] = resent[d]
Lapses(d) == \A n \in Node : score'[n][d] \in {0, score[n][d]}

\* What a script writes to the set of its own node, and to no other.
LEMMA StoreScores ==
  ASSUME TypeOK, NEW n \in Node, NEW s \in Scores, NEW expiry, Store(n, s, expiry)
  PROVE  /\ score'[n] = s
         /\ \A m \in Node \ {n} : score'[m] = score[m] /\ keyExpiry'[m] = keyExpiry[m]
         /\ keyExpiry'[n] = IF Members(s) = {} THEN 0 ELSE expiry
  BY DEF Store, TypeOK

\* The scores that the scripts of c leave behind.
LEMMA ScriptScores ==
  ASSUME TypeOK, NEW c \in Client, NEW n \in Node, ScriptStep(c, n)
  PROVE  /\ \A d \in Client \ {c} : score'[n][d] = 0 \/ score'[n][d] = score[n][d]
         /\ \A d \in Client \ {c} : score[n][d] > now => score'[n][d] = score[n][d]
         /\ \A m \in Node \ {n} : score'[m] = score[m] /\ keyExpiry'[m] = keyExpiry[m]
         /\ RunAcquire(c, n) => score'[n][c] = IF AcquireGranted(c, n) THEN now + Ttl[c] ELSE 0
         /\ RunExtend(c, n) => score'[n][c] = IF ExtendGranted(c, n) THEN now + Ttl[c] ELSE 0
         /\ RunRelease(c, n) => score'[n][c] = 0
  <1>1. now + Ttl[c] \in Nat /\ score[n] \in Scores /\ Purged(n) \in Scores
    BY TimesType, PurgedType
  <1>2. \A d \in Client : /\ Purged(n)[d] \in {0, score[n][d]}
                          /\ score[n][d] > now => Purged(n)[d] = score[n][d]
    <2>1. \A d \in Client : score[n][d] \in Nat /\ now \in Nat
      BY TypeParts DEF SetsOK
    <2> QED
      BY <2>1 DEF Purged
  <1>3. CASE RunAcquire(c, n)
    <2> DEFINE s == IF AcquireGranted(c, n) THEN [Purged(n) EXCEPT ![c] = now + Ttl[c]]
                    ELSE Purged(n)
    <2>1. s \in Scores
      BY <1>1 DEF Scores
    <2>2. s[c] = IF AcquireGranted(c, n) THEN now + Ttl[c] ELSE 0
      BY <1>1 DEF Scores, AcquireGranted
    <2>3. \A d \in Client \ {c} : /\ s[d] \in {0, score[n][d]}
                                  /\ score[n][d] > now => s[d] = score[n][d]
      BY <1>1, <1>2 DEF Scores
    <2>4. PICK expiry : Store(n, s, expiry)
      BY <1>3 DEF RunAcquire
    <2>5. ~RunExtend(c, n) /\ ~RunRelease(c, n)
      BY <1>3 DEF RunAcquire, RunExtend, RunRelease, Head1
    <2> HIDE DEF s
    <2> QED
      BY <2>1, <2>2, <2>3, <2>4, <2>5, StoreScores
  <1>4. CASE RunExtend(c, n)
    <2> DEFINE s == [score[n] EXCEPT ![c] = IF ExtendGranted(c, n) THEN now + Ttl[c] ELSE 0]
    <2>1. s \in Scores
      BY <1>1 DEF Scores
    <2>2. s[c] = IF ExtendGranted(c, n) THEN now + Ttl[c] ELSE 0
      BY <1>1 DEF Scores
    <2>3. \A d \in Client \ {c} : /\ s[d] \in {0, score[n][d]}
                                  /\ score[n][d] > now => s[d] = score[n][d]
      BY <1>1 DEF Scores
    <2>4. PICK expiry : Store(n, s, expiry)
      BY <1>4 DEF RunExtend
    <2>5. ~RunAcquire(c, n) /\ ~RunRelease(c, n)
      BY <1>4 DEF RunAcquire, RunExtend, RunRelease, Head1
    <2> HIDE DEF s
    <2> QED
      BY <2>1, <2>2, <2>3, <2>4, <2>5, StoreScores
  <1>5. CASE RunRelease(c, n)
    <2> DEFINE s == [Purged(n) EXCEPT ![c] = 0]
    <2>1. s \in Scores /\ s[c] = 0
      BY <1>1 DEF Scores
    <2>2. \A d \in Client \ {c} : /\ s[d] \in {0, score[n][d]}
                                  /\ score[n][d] > now => s[d] = score[n][d]
      BY <1>1, <1>2 DEF Scores
    <2>3. Store(n, s, keyExpiry[n])
      BY <1>5 DEF RunRelease
    <2>4. ~RunAcquire(c, n) /\ ~RunExtend(c, n)
      BY <1>5 DEF RunAcquire, RunExtend, RunRelease, Head1
    <2> HIDE DEF s
    <2> QED
      BY <2>1, <2>2, <2>3, <2>4, StoreScores
  <1> QED
    BY <1>3, <1>4, <1>5 DEF ScriptStep

\* A step of one call leaves the others alone.
LEMMA Locality ==
  ASSUME TypeOK, NEW c \in Client,
         CallStep(c) \/ \E n \in Node : NodeStep(c, n)
  PROVE  now' = now /\ \A d \in Client \ {c} : Same(d) /\ Lapses(d)
  <1>1. CASE CallStep(c)
    <2>0. /\ conn \in [Client -> [Node -> Seq(Cmd)]] /\ pc \in [Client -> PC]
          /\ vote \in [Client -> [Node -> Vote]] /\ ext \in [Client -> ExtendCall]
          /\ began \in [Client -> Nat]
          /\ calls \in [Client -> [attempt : Nat, extend : Nat, release : Nat]]
          /\ resent \in [Client -> [Node -> BOOLEAN]]
      BY TypeParts DEF ConnOK, VoteOK, ExtOK
    <2>1. UNCHANGED <<now, score>>
      BY <1>1 DEF CallStep, StartAttempt, AcquireSucceeds, AcquireRefused, AcquireFails, CleanupDone,
           StartExtend, ExtendSucceeds, ExtendFails, EndExtend, StartRelease, EndRelease
    <2>2. ASSUME StartAttempt(c) \/ AcquireFails(c) \/ StartRelease(c)
          PROVE  \A d \in Client \ {c} : Same(d)
      BY <2>0, <2>2 DEF StartAttempt, AcquireFails, StartRelease, OpenRound, Same
    <2>3. ASSUME AcquireSucceeds(c) \/ AcquireRefused(c) \/ CleanupDone(c) \/ EndRelease(c)
          PROVE  \A d \in Client \ {c} : Same(d)
      BY <2>0, <2>3 DEF AcquireSucceeds, AcquireRefused, CleanupDone, EndRelease, CloseRound, Same
    <2>4. ASSUME StartExtend(c) \/ ExtendSucceeds(c) \/ ExtendFails(c)
          PROVE  \A d \in Client \ {c} : Same(d)
      BY <2>0, <2>4 DEF StartExtend, ExtendSucceeds, ExtendFails, EndExtend, Same
    <2> QED
      BY <1>1, <2>1, <2>2, <2>3, <2>4 DEF CallStep, Lapses
  <1>2. ASSUME NEW n \in Node, ScriptStep(c, n)
        PROVE  now' = now /\ \A d \in Client \ {c} : Same(d) /\ Lapses(d)
    <2>1. now' = now /\ \A d \in Client \ {c} : Same(d)
      BY <1>2 DEF ScriptStep, RunAcquire, RunExtend, RunRelease, Answer, Pop, Same, TypeOK
    <2>2. \A d \in Client \ {c} : Lapses(d)
      <3>1. \A m \in Node \ {n} : score'[m] = score[m]
        BY <1>2, ScriptScores
      <3>2. \A d \in Client \ {c} : score'[n][d] = 0 \/ score'[n][d] = score[n][d]
        BY <1>2, ScriptScores
      <3> QED
        BY <3>1, <3>2 DEF Lapses
    <2> QED
      BY <2>1, <2>2
  <1>3. ASSUME NEW n \in Node, TimeoutStep(c, n)
        PROVE  now' = now /\ \A d \in Client \ {c} : Same(d) /\ Lapses(d)
    BY <1>3 DEF TimeoutStep, Timeout, ExtendTimeout, Same, Lapses, TypeOK
  <1>4. ASSUME NEW n \in Node, NoScript(c, n)
        PROVE  now' = now /\ \A d \in Client \ {c} : Same(d) /\ Lapses(d)
    BY <1>4 DEF NoScript, Same, Lapses, TypeOK
  <1> QED
    BY <1>1, <1>2, <1>3, <1>4 DEF NodeStep

\* Steps of nobody.
LEMMA Elsewhere ==
  ASSUME TypeOK, GetStatus \/ Tick \/ UNCHANGED vars
  PROVE  now' >= now /\ \A d \in Client : Same(d) /\ Lapses(d)
  <1>1. CASE GetStatus
    <2>1. ReadNode \in Node
      BY PermitAssumption
    <2>2. \A d \in Client : Purged(ReadNode)[d] \in {0, score[ReadNode][d]}
      BY <2>1, PurgedType
    <2>3. /\ score'[ReadNode] = Purged(ReadNode)
          /\ \A m \in Node \ {ReadNode} : score'[m] = score[m]
      BY <1>1, <2>1, PurgedType, StoreScores DEF GetStatus
    <2>4. \A d \in Client : Lapses(d)
      BY <2>2, <2>3 DEF Lapses
    <2> QED
      BY <1>1, <2>4 DEF GetStatus, Same, TypeOK
  <1>2. CASE Tick
    BY <1>2 DEF Tick, Same, Lapses, At, TypeOK
  <1>3. CASE UNCHANGED vars
    BY <1>3 DEF vars, Same, Lapses, TypeOK
  <1> QED
    BY <1>1, <1>2, <1>3

(***************************************************************************)
(* How the connections grow and shrink.                                    *)
(***************************************************************************)
\* The same commands, some of them given up.
Alike(q, r) ==
  Len(r) = Len(q) /\ \A i \in 1..Len(q) : r[i].op = q[i].op /\ r[i].sha = q[i].sha

Operations == {"acquire", "cleanup", "extend", "release"}

\* A caller that releases its permit never asks for one again.
Releases == {"releasing", "unreleased", "released"}

\* A step is a step of one call, of one of its connections, or of nobody.
LEMMA StepCases ==
  ASSUME [Next]_vars
  PROVE  \/ GetStatus \/ Tick \/ UNCHANGED vars
         \/ \E d \in Client : CallStep(d)
         \/ \E d \in Client, m \in Node : NodeStep(d, m)
  BY DEF Next, CallStep, NodeStep, ScriptStep, TimeoutStep

\* Nothing is added to a connection, or one command is sent, or the oldest leaves, or it
\* is sent again.
QueueChange(c, n) ==
  \/ Alike(conn[c][n], conn'[c][n])
  \/ \E a \in Seq(Cmd), op \in Operations :
       /\ Alike(conn[c][n], a) /\ conn'[c][n] = Append(a, Command(op))
       /\ op = "acquire" => StartAttempt(c)
       /\ op \in Deletes => pc'[c] \notin {"acquiring", "held"}
       /\ op = "release" => pc'[c] \in Releases
  \/ ScriptStep(c, n) /\ conn[c][n] # <<>> /\ conn'[c][n] = Tail(conn[c][n])
  \/ /\ conn[c][n] # <<>> /\ conn'[c][n] = Resent(conn[c][n])
     /\ Head(conn[c][n]).sha /\ pc'[c] = pc[c]

\* Only a new attempt sends an acquire, and a delete is only sent by a caller that gives
\* its permit up.
LEMMA QueueStep ==
  ASSUME TypeOK, [Next]_vars, NEW c \in Client, NEW n \in Node
  PROVE  QueueChange(c, n)
  <1> DEFINE q == conn[c][n]
  <1>0. /\ conn \in [Client -> [Node -> Seq(Cmd)]] /\ pc \in [Client -> PC]
        /\ q \in Seq(Cmd) /\ Alike(q, q)
        /\ \A ops : Abandon(q, ops) \in Seq(Cmd) /\ Alike(q, Abandon(q, ops))
    BY TypeParts, AbandonType DEF ConnOK, Alike
  <1>1. ASSUME Same(c) PROVE QueueChange(c, n)
    BY <1>0, <1>1 DEF Same, QueueChange
  <1>2. CASE GetStatus \/ Tick \/ UNCHANGED vars
    BY <1>1, <1>2, Elsewhere
  <1>3. ASSUME NEW d \in Client \ {c},
               CallStep(d) \/ \E m \in Node : NodeStep(d, m)
        PROVE  QueueChange(c, n)
    BY <1>1, <1>3, Locality
  <1>4. ASSUME NEW op \in MainOps, NEW refused \in Refusals, OpenRound(c, op, refused),
               op = "acquire" => StartAttempt(c),
               op \in Deletes => pc'[c] \notin {"acquiring", "held"},
               op = "release" => pc'[c] \in Releases
        PROVE  QueueChange(c, n)
    <2>1. \/ conn'[c][n] = Abandon(q, MainOps)
          \/ conn'[c][n] = Append(Abandon(q, MainOps), Command(op))
      BY <1>0, <1>4 DEF OpenRound, Send, AbandonAll
    <2>2. op \in Operations
      BY DEF MainOps, Operations
    <2> QED
      BY <1>0, <1>4, <2>1, <2>2 DEF QueueChange
  <1>5. CASE StartAttempt(c)
    BY <1>4, <1>5 DEF StartAttempt, MainOps, Deletes
  <1>6. CASE AcquireFails(c)
    <2>1. pc'[c] = "cleaning" /\ \E refused \in Refusals : OpenRound(c, "cleanup", refused)
      BY <1>0, <1>6 DEF AcquireFails
    <2> QED
      BY <1>4, <2>1 DEF MainOps
  <1>7. CASE StartRelease(c)
    <2>1. pc'[c] = "releasing" /\ \E refused \in Refusals : OpenRound(c, "release", refused)
      BY <1>0, <1>7 DEF StartRelease
    <2> QED
      BY <1>4, <2>1 DEF MainOps, Releases
  <1>8. CASE AcquireSucceeds(c) \/ AcquireRefused(c) \/ CleanupDone(c) \/ EndRelease(c)
    <2>1. conn'[c][n] = Abandon(q, MainOps)
      BY <1>0, <1>8 DEF AcquireSucceeds, AcquireRefused, CleanupDone, EndRelease, CloseRound,
           AbandonAll
    <2> QED
      BY <1>0, <2>1 DEF QueueChange
  <1>9. CASE StartExtend(c)
    <2>1. PICK refused \in Refusals : conn' = [conn EXCEPT ![c] = Send(@, Command("extend"), refused)]
      BY <1>9 DEF StartExtend
    <2>2. conn'[c][n] = q \/ conn'[c][n] = Append(q, Command("extend"))
      BY <1>0, <2>1 DEF Send
    <2>3. "extend" \in Operations /\ "extend" \notin Deletes
      BY DEF Operations, Deletes
    <2> QED
      BY <1>0, <2>2, <2>3 DEF QueueChange
  <1>10. CASE ExtendSucceeds(c) \/ ExtendFails(c)
    <2>1. conn'[c][n] = Abandon(q, {"extend"})
      BY <1>0, <1>10 DEF ExtendSucceeds, ExtendFails, EndExtend, AbandonAll
    <2> QED
      BY <1>0, <2>1 DEF QueueChange
  <1>11. ASSUME NEW m \in Node, ScriptStep(c, m)
         PROVE  QueueChange(c, n)
    <2>1. Head(conn[c][m]).op \in Operations /\ Pop(c, m) /\ conn[c][m] # <<>>
      BY <1>11 DEF ScriptStep, RunAcquire, RunExtend, RunRelease, Head1, Operations
    <2>2. IF m = n THEN conn'[c][n] = Tail(q) ELSE conn'[c][n] = q
      BY <1>0, <2>1 DEF Pop
    <2> QED
      BY <1>0, <1>11, <2>1, <2>2 DEF QueueChange
  <1>12. ASSUME NEW m \in Node, TimeoutStep(c, m)
         PROVE  QueueChange(c, n)
    <2>1. conn'[c][n] = q \/ \E ops : conn'[c][n] = Abandon(q, ops)
      BY <1>0, <1>12 DEF TimeoutStep, Timeout, ExtendTimeout
    <2> QED
      BY <1>0, <2>1 DEF QueueChange
  <1>13. ASSUME NEW m \in Node, NoScript(c, m)
         PROVE  QueueChange(c, n)
    <2>1. /\ IF m = n THEN conn'[c][n] = Resent(q) ELSE conn'[c][n] = q
          /\ conn[c][m] # <<>> /\ Head(conn[c][m]).sha /\ pc' = pc
      BY <1>0, <1>13 DEF NoScript, Resent
    <2> QED
      BY <1>0, <2>1 DEF QueueChange
  <1>14. CASE CallStep(c)
    BY <1>5, <1>6, <1>7, <1>8, <1>9, <1>10, <1>14 DEF CallStep
  <1>15. CASE \E d \in Client : CallStep(d)
    BY <1>3, <1>14, <1>15
  <1>16. CASE \E d \in Client, m \in Node : NodeStep(d, m)
    BY <1>3, <1>11, <1>12, <1>13, <1>16 DEF NodeStep
  <1> QED
    BY <1>2, <1>15, <1>16, StepCases

\* The cleanup is sent by its source, and a release only by a caller that releases.
PlainCmd(cmd, stage) ==
  /\ cmd.op = "cleanup" => ~cmd.sha
  /\ cmd.op = "release" => stage \in Releases
Plain(c) == \A n \in Node : \A i \in 1..Len(conn[c][n]) : PlainCmd(conn[c][n][i], pc[c])

\* A release is final.
LEMMA ReleasesStep ==
  ASSUME TypeOK, [Next]_vars, NEW c \in Client, pc[c] \in Releases
  PROVE  pc'[c] \in Releases
  <1>0. pc \in [Client -> PC]
    BY TypeParts
  <1>1. CASE Same(c)
    BY <1>1 DEF Same
  <1>2. CASE CallStep(c)
    BY <1>0, <1>2 DEF CallStep, StartAttempt, AcquireSucceeds, AcquireRefused, AcquireFails,
         CleanupDone, CloseRound, StartExtend, ExtendSucceeds, ExtendFails, EndExtend, StartRelease,
         EndRelease, Releases
  <1>3. CASE \E m \in Node : NodeStep(c, m)
    BY <1>3 DEF NodeStep, NoScript, ScriptStep, RunAcquire, RunExtend, RunRelease, TimeoutStep,
         Timeout, ExtendTimeout
  <1>4. CASE GetStatus \/ Tick \/ UNCHANGED vars
    BY <1>1, <1>4, Elsewhere
  <1>5. ASSUME NEW d \in Client \ {c}, CallStep(d) \/ \E m \in Node : NodeStep(d, m)
        PROVE  Same(c)
    BY <1>5, Locality
  <1> QED
    BY <1>1, <1>2, <1>3, <1>4, <1>5, StepCases

\* So no deletion of a caller that asks for a permit, or holds one, is sent again.
LEMMA PlainStep ==
  ASSUME TypeOK, [Next]_vars, NEW c \in Client, Plain(c)
  PROVE  Plain(c)'
  <1> SUFFICES ASSUME NEW n \in Node, NEW i \in 1..Len(conn'[c][n])
               PROVE  PlainCmd(conn'[c][n][i], pc'[c])
    BY DEF Plain, PlainCmd
  <1>0. conn[c][n] \in Seq(Cmd)
    BY TypeParts DEF ConnOK
  <1>1. \A j \in 1..Len(conn[c][n]) : PlainCmd(conn[c][n][j], pc'[c])
    BY ReleasesStep DEF Plain, PlainCmd
  <1>2. CASE Alike(conn[c][n], conn'[c][n])
    BY <1>1, <1>2 DEF Alike, PlainCmd
  <1>3. CASE \E a \in Seq(Cmd), op \in Operations :
               /\ Alike(conn[c][n], a) /\ conn'[c][n] = Append(a, Command(op))
               /\ op = "release" => pc'[c] \in Releases
    <2>1. PICK a \in Seq(Cmd), op \in Operations :
               /\ Alike(conn[c][n], a) /\ conn'[c][n] = Append(a, Command(op))
               /\ op = "release" => pc'[c] \in Releases
      BY <1>3
    <2>2. Command(op) \in Cmd /\ PlainCmd(Command(op), pc'[c])
      BY <2>1 DEF Command, Cmd, Operations, PlainCmd
    <2>3. \A j \in 1..Len(a) : PlainCmd(a[j], pc'[c])
      BY <1>1, <2>1 DEF Alike, PlainCmd
    <2>4. \/ i \in 1..Len(a) /\ conn'[c][n][i] = a[i]
          \/ conn'[c][n][i] = Command(op)
      BY <2>1, <2>2, AppendQueue
    <2> QED
      BY <2>2, <2>3, <2>4
  <1>4. CASE conn[c][n] # <<>> /\ conn'[c][n] = Tail(conn[c][n])
    BY <1>0, <1>1, <1>4, TailQueue
  <1>5. CASE conn[c][n] # <<>> /\ conn'[c][n] = Resent(conn[c][n])
    <2> DEFINE q == conn[c][n]
    <2>1. /\ i \in 1..Len(q) /\ Former(q, i) \in 1..Len(q)
          /\ Resent(q)[i].op = q[Former(q, i)].op /\ (Resent(q)[i].sha => q[Former(q, i)].sha)
      BY <1>0, <1>5, ResentQueue
    <2>2. PlainCmd(q[Former(q, i)], pc'[c])
      BY <1>1, <2>1
    <2> QED
      BY <1>5, <2>1, <2>2 DEF PlainCmd
  <1> QED
    BY <1>2, <1>3, <1>4, <1>5, QueueStep DEF QueueChange

(***************************************************************************)
(* What is under way on the connections.                                   *)
(***************************************************************************)
Unheld == {"idle", "acquiring", "cleaning", "backoff", "failed"}

\* A command is live only while its round runs, and never where the breaker refused it.
Legal(stage, extending, answer, cmd) ==
  /\ cmd.op = "acquire" /\ cmd.live => stage = "acquiring"
  /\ cmd.op = "cleanup" /\ cmd.live => stage = "cleaning"
  /\ cmd.op = "release" /\ cmd.live => stage = "releasing"
  /\ cmd.op \in MainOps /\ cmd.live => answer # "open"
  /\ cmd.op = "extend" /\ cmd.live => extending

Lawful(q, stage, extending, answer) ==
  \A i \in 1..Len(q) : Legal(stage, extending, answer, q[i])

\* No delete follows a write that a round waits for.
Ordered(q) ==
  \A i, j \in 1..Len(q) :
    i < j /\ q[i].live /\ q[i].op \notin Deletes => q[j].op \notin Deletes

Commands(c) ==
  /\ \A n \in Node : Lawful(conn[c][n], pc[c], ext[c].on, vote[c][n])
  /\ pc[c] \in {"acquiring", "held"} => \A n \in Node : Ordered(conn[c][n])
  /\ ext[c].on => pc[c] \notin Unheld

\* The oldest command leaves a lawful connection.
LEMMA TailLawful ==
  ASSUME NEW q \in Seq(Cmd), q # <<>>, NEW stage, NEW extending, NEW answer
  PROVE  /\ Lawful(q, stage, extending, answer)
              => Lawful(Tail(q), stage, extending, answer) /\ Legal(stage, extending, answer, Head(q))
         /\ Ordered(q) => Ordered(Tail(q))
  <1>1. /\ \A i \in 1..Len(Tail(q)) : i + 1 \in 1..Len(q) /\ Tail(q)[i] = q[i + 1]
        /\ 1 \in 1..Len(q) /\ Head(q) = q[1] /\ Len(Tail(q)) \in Nat /\ Len(q) \in Nat
    BY TailQueue
  <1>2. ASSUME Ordered(q) PROVE Ordered(Tail(q))
    BY <1>1, <1>2 DEF Ordered
  <1>3. ASSUME Lawful(q, stage, extending, answer)
        PROVE  Lawful(Tail(q), stage, extending, answer) /\ Legal(stage, extending, answer, Head(q))
    BY <1>1, <1>3 DEF Lawful
  <1> QED
    BY <1>2, <1>3

\* A legal command joins a lawful connection.
LEMMA AppendLawful ==
  ASSUME NEW q \in Seq(Cmd), NEW cmd \in Cmd, NEW stage, NEW extending, NEW answer,
         Lawful(q, stage, extending, answer), Legal(stage, extending, answer, cmd)
  PROVE  Lawful(Append(q, cmd), stage, extending, answer)
  BY AppendQueue DEF Lawful

\* So does one that is sent again; unless it is a delete, no write is overtaken.
LEMMA ResentLawful ==
  ASSUME NEW q \in Seq(Cmd), q # <<>>, NEW stage, NEW extending, NEW answer
  PROVE  /\ Lawful(q, stage, extending, answer) => Lawful(Resent(q), stage, extending, answer)
         /\ Ordered(q) /\ Head(q).op \notin Deletes => Ordered(Resent(q))
  <1>1. /\ Len(q) \in Nat /\ Len(Resent(q)) = Len(q) /\ Head(q) = q[1]
        /\ \A i \in 1..Len(q) :
             /\ Former(q, i) \in 1..Len(q)
             /\ Resent(q)[i].op = q[Former(q, i)].op
             /\ Resent(q)[i].live = q[Former(q, i)].live
    BY ResentQueue, TailQueue
  <1>2. ASSUME Lawful(q, stage, extending, answer)
        PROVE  Lawful(Resent(q), stage, extending, answer)
    BY <1>1, <1>2 DEF Lawful, Legal
  <1>3. ASSUME Ordered(q), Head(q).op \notin Deletes
        PROVE  Ordered(Resent(q))
    <2> SUFFICES ASSUME NEW i \in 1..Len(q), NEW j \in 1..Len(q), i < j,
                        Resent(q)[i].live, Resent(q)[i].op \notin Deletes
                 PROVE  Resent(q)[j].op \notin Deletes
      BY <1>1 DEF Ordered
    <2>1. Former(q, i) = i + 1
      BY <1>1 DEF Former
    <2>2. CASE j = Len(q)
      <3>1. Former(q, j) = 1
        BY <1>1, <2>2 DEF Former
      <3> QED
        BY <1>1, <1>3, <3>1
    <2>3. CASE j # Len(q)
      <3>1. Former(q, j) = j + 1
        BY <1>1, <2>3 DEF Former
      <3>2. i + 1 \in 1..Len(q) /\ j + 1 \in 1..Len(q) /\ i + 1 < j + 1
        BY <1>1, <2>1, <3>1
      <3>3. q[i + 1].live /\ q[i + 1].op \notin Deletes
        BY <1>1, <2>1
      <3>4. q[j + 1].op \notin Deletes
        BY <1>3, <3>2, <3>3 DEF Ordered
      <3> QED
        BY <1>1, <3>1, <3>4
    <2> QED
      BY <2>2, <2>3
  <1> QED
    BY <1>2, <1>3

\* A write at the end of a connection has nothing behind it.
LEMMA AppendOrdered ==
  ASSUME NEW q \in Seq(Cmd), NEW cmd \in Cmd, Ordered(q), cmd.op \notin Deletes
  PROVE  Ordered(Append(q, cmd))
  <1> SUFFICES ASSUME NEW i \in 1..Len(Append(q, cmd)), NEW j \in 1..Len(Append(q, cmd)),
                      i < j, Append(q, cmd)[i].live, Append(q, cmd)[i].op \notin Deletes
               PROVE  Append(q, cmd)[j].op \notin Deletes
    BY DEF Ordered
  <1>1. CASE j = Len(q) + 1
    BY <1>1, AppendQueue
  <1>2. CASE j \in 1..Len(q)
    <2>1. i \in 1..Len(q)
      BY <1>2, AppendQueue
    <2> QED
      BY <1>2, <2>1, AppendQueue DEF Ordered
  <1> QED
    BY <1>1, <1>2, AppendQueue

\* What a round leaves behind is dead, whatever the call does next.
LEMMA AbandonLawful ==
  ASSUME NEW q \in Seq(Cmd), NEW stage, NEW extending, NEW answer,
         Lawful(q, stage, extending, answer)
  PROVE  /\ \A after, next : Lawful(Abandon(q, MainOps), after, extending, next)
         /\ \A still : Lawful(Abandon(q, {"extend"}), stage, still, answer)
         /\ \A ops : Ordered(q) => Ordered(Abandon(q, ops))
  <1>1. ASSUME NEW after, NEW next PROVE Lawful(Abandon(q, MainOps), after, extending, next)
    BY AbandonType DEF Lawful, Legal, MainOps
  <1>2. ASSUME NEW still PROVE Lawful(Abandon(q, {"extend"}), stage, still, answer)
    BY AbandonType DEF Lawful, Legal, MainOps
  <1>3. ASSUME NEW ops, Ordered(q) PROVE Ordered(Abandon(q, ops))
    BY <1>3, AbandonType DEF Ordered
  <1> QED
    BY <1>1, <1>2, <1>3

\* The commands of c and what it waits for, after each kind of step of its own.
LEMMA CommandsCall ==
  ASSUME TypeOK, NEW c \in Client, Commands(c), CallStep(c)
  PROVE  Commands(c)'
  <1>0. /\ conn \in [Client -> [Node -> Seq(Cmd)]] /\ pc \in [Client -> PC]
        /\ vote \in [Client -> [Node -> Vote]] /\ ext \in [Client -> ExtendCall]
        /\ \A n \in Node : conn[c][n] \in Seq(Cmd)
    BY TypeParts DEF ConnOK, VoteOK, ExtOK
  <1>1. \A n \in Node : Lawful(conn[c][n], pc[c], ext[c].on, vote[c][n])
    BY DEF Commands
  <1>2. \A op \in {"acquire", "cleanup", "extend", "release"} :
          Command(op) \in Cmd /\ Command(op).op = op /\ Command(op).live
    BY DEF Command, Cmd
  \* Rounds begin ...
  <1>3. ASSUME NEW op \in MainOps, NEW refused \in Refusals, OpenRound(c, op, refused),
               NEW stage, ext'[c].on = ext[c].on,
               op = "acquire" => stage = "acquiring", op = "cleanup" => stage = "cleaning",
               op = "release" => stage = "releasing"
        PROVE  \A n \in Node : Lawful(conn'[c][n], stage, ext'[c].on, vote'[c][n])
    <2> SUFFICES ASSUME NEW n \in Node
                 PROVE  Lawful(conn'[c][n], stage, ext'[c].on, vote'[c][n])
      OBVIOUS
    <2> DEFINE a == Abandon(conn[c][n], MainOps)
    <2>1. a \in Seq(Cmd) /\ \A answer : Lawful(a, stage, ext[c].on, answer)
      BY <1>0, <1>1, AbandonType, AbandonLawful
    <2>2. conn'[c][n] = IF n \in refused THEN a ELSE Append(a, Command(op))
      BY <1>0, <1>3 DEF OpenRound, Send, AbandonAll
    <2>3. vote'[c][n] = IF n \in refused THEN "open" ELSE "pending"
      BY <1>0, <1>3 DEF OpenRound, Opening
    <2>4. n \notin refused => Legal(stage, ext[c].on, vote'[c][n], Command(op))
      BY <1>2, <1>3, <2>3 DEF Legal, MainOps
    <2> HIDE DEF a
    <2> QED
      BY <1>2, <1>3, <2>1, <2>2, <2>3, <2>4, AppendLawful DEF MainOps
  \* ... and end.
  <1>4. ASSUME NEW stage \in PC, CloseRound(c, stage), ext' = ext
        PROVE  /\ \A n \in Node : Lawful(conn'[c][n], pc'[c], ext'[c].on, vote'[c][n])
               /\ \A n \in Node : Ordered(conn[c][n]) => Ordered(conn'[c][n])
               /\ pc'[c] = stage
    <2>1. \A n \in Node : conn'[c][n] = Abandon(conn[c][n], MainOps)
      BY <1>0, <1>4 DEF CloseRound, AbandonAll
    <2>2. pc'[c] = stage
      BY <1>0, <1>4 DEF CloseRound
    <2> QED
      BY <1>0, <1>1, <1>4, <2>1, <2>2, AbandonLawful
  <1>5. ASSUME EndExtend(c)
        PROVE  Commands(c)'
    <2>1. /\ \A n \in Node : conn'[c][n] = Abandon(conn[c][n], {"extend"})
          /\ pc'[c] = pc[c] /\ vote'[c] = vote[c] /\ ~ext'[c].on
      BY <1>0, <1>5 DEF EndExtend, AbandonAll, NoExtend
    <2>2. \A n \in Node : Lawful(conn'[c][n], pc'[c], ext'[c].on, vote'[c][n])
      BY <1>0, <1>1, <2>1, AbandonLawful
    <2> QED
      BY <1>0, <2>1, <2>2, AbandonLawful DEF Commands
  <1>6. CASE StartAttempt(c)
    <2>1. PICK refused \in Refusals : OpenRound(c, "acquire", refused)
      BY <1>6 DEF StartAttempt
    <2>2. ext'[c].on = ext[c].on /\ pc'[c] = "acquiring" /\ ~ext[c].on
      BY <1>0, <1>6 DEF StartAttempt, Commands, Unheld
    <2>3. \A n \in Node : Lawful(conn'[c][n], pc'[c], ext'[c].on, vote'[c][n])
      BY <1>3, <2>1, <2>2 DEF MainOps
    <2>4. ASSUME NEW n \in Node
          PROVE  Ordered(conn'[c][n])
      <3> DEFINE a == Abandon(conn[c][n], MainOps)
      <3>0. /\ a \in Seq(Cmd) /\ \A i \in 1..Len(a) : a[i] \in Cmd
            /\ \A stage : Lawful(a, stage, ext[c].on, "none")
        BY <1>0, <1>1, AbandonType, AbandonLawful, ElementOfSeq
      <3>1. \A i \in 1..Len(a) : ~a[i].live
        <4> SUFFICES ASSUME NEW i \in 1..Len(a), a[i].live
                     PROVE  FALSE
          OBVIOUS
        <4>1. Legal("idle", ext[c].on, "none", a[i]) /\ a[i] \in Cmd
          BY <3>0 DEF Lawful
        <4> HIDE DEF a
        <4> QED
          BY <2>2, <4>1 DEF Legal, Cmd
      <3>2. conn'[c][n] = a \/ conn'[c][n] = Append(a, Command("acquire"))
        BY <1>0, <2>1 DEF OpenRound, Send, AbandonAll
      <3>3. Ordered(a)
        BY <3>1 DEF Ordered
      <3> HIDE DEF a
      <3> QED
        BY <1>2, <3>0, <3>2, <3>3, AppendOrdered DEF Deletes
    <2> QED
      BY <2>2, <2>3, <2>4 DEF Commands
  <1>7. CASE AcquireFails(c)
    <2>1. PICK refused \in Refusals : OpenRound(c, "cleanup", refused)
      BY <1>7 DEF AcquireFails
    <2>2. ext'[c].on = ext[c].on /\ pc'[c] = "cleaning" /\ ~ext[c].on
      BY <1>0, <1>7 DEF AcquireFails, Commands, Unheld
    <2> QED
      BY <1>3, <2>1, <2>2 DEF MainOps, Commands
  <1>8. CASE StartRelease(c)
    <2>1. PICK refused \in Refusals : OpenRound(c, "release", refused)
      BY <1>8 DEF StartRelease
    <2>2. ext'[c].on = ext[c].on /\ pc'[c] = "releasing"
      BY <1>0, <1>8 DEF StartRelease
    <2> QED
      BY <1>3, <2>1, <2>2 DEF MainOps, Commands, Unheld
  <1>9. CASE AcquireSucceeds(c)
    <2>1. CloseRound(c, "held") /\ ext' = ext /\ pc[c] = "acquiring" /\ "held" \in PC
      BY <1>9 DEF AcquireSucceeds, PC
    <2> QED
      BY <1>4, <2>1 DEF Commands, Unheld
  <1>10. CASE AcquireRefused(c) \/ CleanupDone(c)
    <2>1. PICK stage \in {"failed", "backoff"} : CloseRound(c, stage)
      BY <1>10 DEF AcquireRefused, CleanupDone
    <2>2. ext' = ext /\ stage \in PC /\ pc[c] \in Unheld
      BY <1>10 DEF AcquireRefused, CleanupDone, PC, Unheld
    <2> QED
      BY <1>4, <2>1, <2>2 DEF Commands
  <1>11. CASE EndRelease(c)
    <2>1. PICK stage \in {"released", "unreleased"} : CloseRound(c, stage)
      BY <1>11 DEF EndRelease
    <2>2. ext' = ext /\ stage \in PC
      BY <1>11 DEF EndRelease, PC
    <2> QED
      BY <1>4, <2>1, <2>2 DEF Commands, Unheld
  <1>12. CASE StartExtend(c)
    <2>1. PICK refused \in Refusals : conn' = [conn EXCEPT ![c] = Send(@, Command("extend"), refused)]
      BY <1>12 DEF StartExtend
    <2>2. ext'[c].on /\ pc'[c] = pc[c] /\ vote'[c] = vote[c]
          /\ pc[c] \in {"held", "releasing", "unreleased"}
      BY <1>0, <1>12 DEF StartExtend, Extensible
    <2>3. \A n \in Node : \/ conn'[c][n] = conn[c][n]
                          \/ conn'[c][n] = Append(conn[c][n], Command("extend"))
      BY <1>0, <2>1 DEF Send
    <2>4. \A n \in Node : Lawful(conn[c][n], pc[c], ext'[c].on, vote[c][n])
      BY <1>1, <2>2 DEF Lawful, Legal
    <2>5. \A answer : Legal(pc[c], ext'[c].on, answer, Command("extend"))
      BY <1>2, <2>2 DEF Legal, MainOps
    <2>6. \A n \in Node : Lawful(conn'[c][n], pc'[c], ext'[c].on, vote'[c][n])
      BY <1>0, <1>2, <2>2, <2>3, <2>4, <2>5, AppendLawful
    <2>7. pc'[c] \in {"acquiring", "held"} => \A n \in Node : Ordered(conn'[c][n])
      BY <1>0, <1>2, <2>2, <2>3, AppendOrdered DEF Commands, Deletes
    <2> QED
      BY <2>2, <2>6, <2>7 DEF Commands, Unheld
  <1>13. CASE ExtendSucceeds(c) \/ ExtendFails(c)
    BY <1>5, <1>13 DEF ExtendSucceeds, ExtendFails
  <1> QED
    BY <1>6, <1>7, <1>8, <1>9, <1>10, <1>11, <1>12, <1>13 DEF CallStep

\* A command that is executed leaves the connection; nobody starts or stops waiting
\* for another.
LEMMA ScriptShape ==
  ASSUME TypeOK, NEW c \in Client, Commands(c), NEW n \in Node, ScriptStep(c, n)
  PROVE  /\ conn[c][n] \in Seq(Cmd) /\ conn[c][n] # <<>>
         /\ conn'[c][n] = Tail(conn[c][n]) /\ \A m \in Node \ {n} : conn'[c][m] = conn[c][m]
         /\ pc'[c] = pc[c] /\ began'[c] = began[c] /\ calls'[c] = calls[c]
         /\ resent'[c] = resent[c]
         /\ ext'[c].on = ext[c].on /\ ext'[c].began = ext[c].began
         /\ \A m \in Node \ {n} : vote'[c][m] = vote[c][m] /\ ext'[c].vote[m] = ext[c].vote[m]
         /\ vote'[c][n] = "open" <=> vote[c][n] = "open"
  <1>0. /\ conn \in [Client -> [Node -> Seq(Cmd)]] /\ vote \in [Client -> [Node -> Vote]]
        /\ ext \in [Client -> ExtendCall] /\ ext[c] \in ExtendCall
        /\ ext[c].vote \in [Node -> Vote]
    BY TypeParts DEF ConnOK, VoteOK, ExtOK, ExtendCall
  <1>1. /\ conn[c][n] \in Seq(Cmd) /\ conn[c][n] # <<>> /\ Pop(c, n)
        /\ UNCHANGED <<pc, began, calls, resent>>
    BY <1>0 DEF ScriptStep, RunAcquire, RunExtend, RunRelease, Head1
  <1>2. conn'[c][n] = Tail(conn[c][n]) /\ \A m \in Node \ {n} : conn'[c][m] = conn[c][m]
    BY <1>0, <1>1 DEF Pop
  <1>3. /\ ext'[c].on = ext[c].on /\ ext'[c].began = ext[c].began
        /\ \A m \in Node \ {n} : ext'[c].vote[m] = ext[c].vote[m]
    <2>1. CASE ext' = ext
      BY <2>1
    <2>2. CASE \E outcome \in Vote : ext' = [ext EXCEPT ![c].vote[n] = outcome]
      BY <1>0, <2>2 DEF ExtendCall
    <2> QED
      BY <2>1, <2>2 DEF ScriptStep, RunAcquire, RunExtend, RunRelease, Vote
  <1>4. Legal(pc[c], ext[c].on, vote[c][n], Head(conn[c][n]))
    BY <1>1, TailLawful DEF Commands
  <1>5. /\ \A m \in Node \ {n} : vote'[c][m] = vote[c][m]
        /\ vote'[c][n] = "open" <=> vote[c][n] = "open"
    <2>1. CASE vote' = vote
      BY <2>1
    <2>2. CASE \E outcome \in {"for", "against"} :
                 /\ vote' = [vote EXCEPT ![c][n] = outcome]
                 /\ Head(conn[c][n]).live /\ Head(conn[c][n]).op \in MainOps
      BY <1>0, <1>4, <2>2 DEF Legal
    <2> QED
      BY <2>1, <2>2 DEF ScriptStep, RunAcquire, RunExtend, RunRelease, Answer, Head1, MainOps
  <1> QED
    BY <1>1, <1>2, <1>3, <1>5

\* The same after a step of one of its connections ...
LEMMA CommandsNode ==
  ASSUME TypeOK, NEW c \in Client, Plain(c), Commands(c), NEW n \in Node, NodeStep(c, n)
  PROVE  Commands(c)'
  <1>0. /\ conn \in [Client -> [Node -> Seq(Cmd)]] /\ vote \in [Client -> [Node -> Vote]]
        /\ ext \in [Client -> ExtendCall] /\ conn[c][n] \in Seq(Cmd) /\ vote[c] \in [Node -> Vote]
        /\ ext[c] \in ExtendCall
    BY TypeParts DEF ConnOK, VoteOK, ExtOK
  <1>1. CASE ScriptStep(c, n)
    <2>0. /\ conn[c][n] # <<>> /\ conn'[c][n] = Tail(conn[c][n])
          /\ \A m \in Node \ {n} : conn'[c][m] = conn[c][m] /\ vote'[c][m] = vote[c][m]
          /\ pc'[c] = pc[c] /\ ext'[c].on = ext[c].on
          /\ vote'[c][n] = "open" <=> vote[c][n] = "open"
      BY <1>1, ScriptShape
    <2>1. \A m \in Node : Lawful(conn'[c][m], pc'[c], ext'[c].on, vote'[c][m])
      <3>1. Lawful(Tail(conn[c][n]), pc[c], ext[c].on, vote[c][n])
        BY <1>0, <2>0, TailLawful DEF Commands
      <3>2. Lawful(conn'[c][n], pc'[c], ext'[c].on, vote'[c][n])
        BY <2>0, <3>1 DEF Lawful, Legal
      <3>3. \A m \in Node \ {n} : Lawful(conn'[c][m], pc'[c], ext'[c].on, vote'[c][m])
        BY <2>0 DEF Commands
      <3> QED
        BY <3>2, <3>3
    <2>2. pc'[c] \in {"acquiring", "held"} => \A m \in Node : Ordered(conn'[c][m])
      BY <1>0, <2>0, TailLawful DEF Commands
    <2> QED
      BY <2>0, <2>1, <2>2 DEF Commands
  <1>2. ASSUME NEW ops \in {MainOps, {"extend"}}, conn' = [conn EXCEPT ![c][n] = Abandon(@, ops)],
               pc' = pc, ext'[c].on = ext[c].on,
               \/ vote'[c] = vote[c]
               \/ ops = MainOps /\ vote'[c] = [vote[c] EXCEPT ![n] = "error"]
        PROVE  Commands(c)'
    <2>1. /\ conn'[c][n] = Abandon(conn[c][n], ops)
          /\ \A m \in Node \ {n} : conn'[c][m] = conn[c][m] /\ vote'[c][m] = vote[c][m]
      BY <1>0, <1>2
    <2>2. Lawful(conn[c][n], pc[c], ext[c].on, vote[c][n])
      BY DEF Commands
    <2>3. Lawful(conn'[c][n], pc'[c], ext'[c].on, vote'[c][n])
      BY <1>0, <1>2, <2>1, <2>2, AbandonLawful
    <2>4. \A m \in Node : Lawful(conn'[c][m], pc'[c], ext'[c].on, vote'[c][m])
      BY <1>2, <2>1, <2>3 DEF Commands
    <2>5. \A m \in Node : Ordered(conn[c][m]) => Ordered(conn'[c][m])
      BY <1>0, <2>1, <2>2, AbandonLawful
    <2> QED
      BY <1>2, <2>4, <2>5 DEF Commands
  <1>3. CASE Timeout(c, n)
    <2>1. vote'[c] = [vote[c] EXCEPT ![n] = "error"]
      BY <1>0, <1>3 DEF Timeout
    <2> QED
      BY <1>2, <1>3, <2>1 DEF Timeout
  <1>4. CASE ExtendTimeout(c, n)
    <2>1. ext'[c].on = ext[c].on
      BY <1>0, <1>4 DEF ExtendTimeout, ExtendCall
    <2> QED
      BY <1>2, <1>4, <2>1 DEF ExtendTimeout
  <1>5. CASE NoScript(c, n)
    <2>1. /\ conn[c][n] # <<>> /\ Head(conn[c][n]).sha /\ conn'[c][n] = Resent(conn[c][n])
          /\ \A m \in Node \ {n} : conn'[c][m] = conn[c][m]
          /\ pc' = pc /\ vote' = vote /\ ext' = ext
      BY <1>0, <1>5 DEF NoScript, Resent
    <2>2. \A m \in Node : Lawful(conn'[c][m], pc'[c], ext'[c].on, vote'[c][m])
      <3>1. Lawful(Resent(conn[c][n]), pc[c], ext[c].on, vote[c][n])
        BY <1>0, <2>1, ResentLawful DEF Commands
      <3>2. \A m \in Node \ {n} : Lawful(conn[c][m], pc[c], ext[c].on, vote[c][m])
        BY DEF Commands
      <3> QED
        BY <2>1, <3>1, <3>2
    <2>3. ASSUME pc[c] \in {"acquiring", "held"}
          PROVE  Head(conn[c][n]).op \notin Deletes
      <3>1. 1 \in 1..Len(conn[c][n]) /\ Head(conn[c][n]) = conn[c][n][1]
        BY <1>0, <2>1, TailQueue
      <3>2. PlainCmd(Head(conn[c][n]), pc[c])
        BY <3>1 DEF Plain
      <3> QED
        BY <2>1, <2>3, <3>2 DEF PlainCmd, Deletes, Releases
    <2>4. pc'[c] \in {"acquiring", "held"} => \A m \in Node : Ordered(conn'[c][m])
      BY <1>0, <2>1, <2>3, ResentLawful DEF Commands
    <2> QED
      BY <2>1, <2>2, <2>4 DEF Commands
  <1> QED
    BY <1>1, <1>3, <1>4, <1>5 DEF NodeStep, TimeoutStep

\* ... and after any step.
LEMMA CommandsStep ==
  ASSUME TypeOK, NEW d \in Client, Plain(d), Commands(d), [Next]_vars
  PROVE  Commands(d)'
  <1>1. Same(d) => Commands(d)'
    BY DEF Same, Commands
  <1>2. CASE GetStatus \/ Tick \/ UNCHANGED vars
    BY <1>1, <1>2, Elsewhere
  <1>3. ASSUME NEW c \in Client, CallStep(c) \/ \E n \in Node : NodeStep(c, n)
        PROVE  Commands(d)'
    BY <1>1, <1>3, Locality, CommandsCall, CommandsNode
  <1> QED
    BY <1>2, <1>3, StepCases

(***************************************************************************)
(* Nothing leaks.                                                          *)
(***************************************************************************)
\* A permit with this score is gone, or will be: no acquire follows the last delete.
Doomed(q, s) ==
  \/ s = 0 /\ \A i \in 1..Len(q) : q[i].op # "acquire"
  \/ \E i \in 1..Len(q) :
       q[i].op \in Deletes /\ \A j \in 1..Len(q) : i < j => q[j].op # "acquire"

GivenUp == {"cleaning", "backoff", "failed", "releasing", "unreleased", "released"}

\* A call that gave up its permit has asked every node to forget it, except where its
\* last round was refused, or an acquire was sent again behind the delete.
Cleared(c) ==
  pc[c] \in GivenUp =>
    \A n \in Node : vote[c][n] # "open" /\ ~resent[c][n] => Doomed(conn[c][n], score[n][c])

\* Giving up a command, sending a delete or an extension, losing the score.
LEMMA DoomedAbandon ==
  ASSUME NEW q \in Seq(Cmd), NEW s, NEW ops, Doomed(q, s)
  PROVE  Doomed(Abandon(q, ops), s)
  <1>1. /\ Len(Abandon(q, ops)) = Len(q)
        /\ \A i \in 1..Len(q) : Abandon(q, ops)[i].op = q[i].op
    BY AbandonType
  <1> QED
    BY <1>1 DEF Doomed

\* After a delete the permit is doomed.
LEMMA DoomedDelete ==
  ASSUME NEW q \in Seq(Cmd), NEW s, NEW op \in Deletes
  PROVE  Doomed(Append(q, Command(op)), s)
  <1> DEFINE r == Append(q, Command(op))
  <1>1. Command(op) \in Cmd /\ Command(op).op = op
    BY DEF Command, Cmd, Deletes
  <1>2. Len(q) \in Nat /\ Len(r) = Len(q) + 1 /\ r[Len(q) + 1] = Command(op)
    BY <1>1, AppendQueue
  <1>3. Len(r) \in 1..Len(r) /\ r[Len(r)].op \in Deletes
    BY <1>1, <1>2
  <1>4. \A j \in 1..Len(r) : ~(Len(r) < j)
    BY <1>2
  <1>5. Doomed(r, s)
    <2> HIDE DEF r
    <2> QED
      BY <1>3, <1>4 DEF Doomed
  <1> QED
    BY <1>5

\* An extension does not save it.
LEMMA DoomedExtend ==
  ASSUME NEW q \in Seq(Cmd), NEW s, Doomed(q, s)
  PROVE  Doomed(Append(q, Command("extend")), s)
  <1> DEFINE r == Append(q, Command("extend"))
  <1>1. Command("extend") \in Cmd /\ Command("extend").op = "extend"
    BY DEF Command, Cmd
  <1>2. /\ Len(q) \in Nat /\ Len(r) = Len(q) + 1
        /\ \A i \in 1..Len(q) : r[i] = q[i]
        /\ \A i \in 1..Len(r) : i \in 1..Len(q) \/ r[i].op = "extend"
    BY <1>1, AppendQueue
  <1>3. Doomed(r, s)
    <2> HIDE DEF r
    <2>1. \A i \in 1..Len(q) : i \in 1..Len(r) /\ r[i] = q[i]
      BY <1>2
    <2> QED
      BY <1>2, <2>1 DEF Doomed
  <1> QED
    BY <1>3

\* Nor does losing the score.
LEMMA DoomedGone ==
  ASSUME NEW q, NEW s, Doomed(q, s)
  PROVE  Doomed(q, 0)
  BY DEF Doomed

\* Executing a command brings the permit nearer to its end.
LEMMA DoomedScript ==
  ASSUME TypeOK, NEW c \in Client, NEW n \in Node, ScriptStep(c, n),
         Doomed(conn[c][n], score[n][c])
  PROVE  Doomed(Tail(conn[c][n]), score'[n][c])
  <1> DEFINE q == conn[c][n]
  <1>1. q \in Seq(Cmd) /\ q # <<>>
    BY TypeParts DEF ConnOK, ScriptStep, RunAcquire, RunExtend, RunRelease, Head1
  <1>2. /\ \A i \in 1..Len(Tail(q)) : i + 1 \in 1..Len(q) /\ Tail(q)[i] = q[i + 1]
        /\ 1 \in 1..Len(q) /\ Head(q) = q[1] /\ Len(Tail(q)) = Len(q) - 1 /\ Len(q) \in Nat
    BY <1>1, TailQueue
  <1>3. CASE \E i \in 2..Len(q) :
               q[i].op \in Deletes /\ \A j \in 1..Len(q) : i < j => q[j].op # "acquire"
    <2>1. PICK i \in 2..Len(q) :
               q[i].op \in Deletes /\ \A j \in 1..Len(q) : i < j => q[j].op # "acquire"
      BY <1>3
    <2>2. i - 1 \in 1..Len(Tail(q)) /\ Tail(q)[i - 1] = q[i]
      BY <1>2
    <2>3. \A j \in 1..Len(Tail(q)) : i - 1 < j => Tail(q)[j].op # "acquire"
      BY <1>2, <2>1
    <2>4. Doomed(Tail(q), score'[n][c])
      <3> HIDE DEF q
      <3> QED
        BY <2>1, <2>2, <2>3 DEF Doomed
    <2> QED
      BY <2>4
  <1>4. ASSUME score'[n][c] = 0, \A j \in 1..Len(q) : 1 < j => q[j].op # "acquire"
        PROVE  Doomed(Tail(q), score'[n][c])
    <2>1. \A j \in 1..Len(Tail(q)) : Tail(q)[j].op # "acquire"
      BY <1>2, <1>4
    <2> QED
      BY <1>4, <2>1 DEF Doomed
  <1>5. CASE q[1].op \in Deletes /\ \A j \in 1..Len(q) : 1 < j => q[j].op # "acquire"
    <2>1. RunRelease(c, n)
      BY <1>2, <1>5 DEF ScriptStep, RunAcquire, RunExtend, Head1, Deletes
    <2> QED
      BY <1>4, <1>5, <2>1, ScriptScores
  <1>6. CASE score[n][c] = 0 /\ \A i \in 1..Len(q) : q[i].op # "acquire"
    <2>1. ~RunAcquire(c, n)
      BY <1>2, <1>6 DEF RunAcquire, Head1
    <2>2. RunExtend(c, n) => ~ExtendGranted(c, n)
      BY <1>6 DEF ExtendGranted
    <2>3. score'[n][c] = 0
      BY <2>1, <2>2, ScriptScores DEF ScriptStep
    <2> QED
      BY <1>4, <1>6, <2>3
  <1>7. Doomed(q, score[n][c])
    OBVIOUS
  <1> HIDE DEF q
  <1>8. \A i \in 1..Len(q) : i = 1 \/ i \in 2..Len(q)
    BY <1>2
  <1> QED
    BY <1>3, <1>5, <1>6, <1>7, <1>8 DEF Doomed, q

\* A command that is sent again does not save it either, unless it is an acquire and the
\* delete is under way.
LEMMA DoomedResent ==
  ASSUME NEW q \in Seq(Cmd), q # <<>>, NEW s, Doomed(q, s),
         ~(Head(q).op = "acquire" /\ \E i \in 1..Len(Tail(q)) : Tail(q)[i].op \in Deletes)
  PROVE  Doomed(Resent(q), s)
  <1> DEFINE r == Resent(q)
  <1>1. /\ Len(q) \in Nat /\ Len(q) >= 1 /\ Len(r) = Len(q)
        /\ \A i \in 1..Len(q) : Former(q, i) \in 1..Len(q) /\ r[i].op = q[Former(q, i)].op
    BY ResentQueue
  <1>2. /\ \A i \in 1..Len(Tail(q)) : i + 1 \in 1..Len(q) /\ Tail(q)[i] = q[i + 1]
        /\ 1 \in 1..Len(q) /\ Head(q) = q[1] /\ Len(Tail(q)) = Len(q) - 1
    BY TailQueue
  <1>3. Len(q) \in 1..Len(q) /\ Former(q, Len(q)) = 1
    BY <1>1 DEF Former
  <1> HIDE DEF r
  <1>4. CASE q[1].op \in Deletes
    <2>1. Len(q) \in 1..Len(r) /\ r[Len(q)].op \in Deletes
      BY <1>1, <1>3, <1>4
    <2>2. \A j \in 1..Len(r) : ~(Len(q) < j)
      BY <1>1
    <2> QED
      BY <2>1, <2>2 DEF Doomed, r
  <1>5. CASE s = 0 /\ \A i \in 1..Len(q) : q[i].op # "acquire"
    BY <1>1, <1>5 DEF Doomed, r
  <1>6. ASSUME NEW i \in 2..Len(q), q[i].op \in Deletes,
               \A j \in 1..Len(q) : i < j => q[j].op # "acquire"
        PROVE  Doomed(r, s)
    <2>1. i - 1 \in 1..Len(Tail(q)) /\ Tail(q)[i - 1] = q[i]
      BY <1>1, <1>2
    <2>2. q[1].op # "acquire"
      BY <1>2, <1>6, <2>1
    <2>3. i - 1 \in 1..Len(q) /\ Former(q, i - 1) = i
      BY <1>1 DEF Former
    <2>4. i - 1 \in 1..Len(r) /\ r[i - 1].op \in Deletes
      BY <1>1, <1>6, <2>3
    <2>5. ASSUME NEW j \in 1..Len(r), i - 1 < j
          PROVE  r[j].op # "acquire"
      <3>1. Former(q, j) = 1 \/ i < Former(q, j)
        BY <1>1, <2>5 DEF Former
      <3> QED
        BY <1>1, <1>6, <2>2, <3>1
    <2> QED
      BY <2>4, <2>5 DEF Doomed
  <1>7. \A i \in 1..Len(q) : i = 1 \/ i \in 2..Len(q)
    BY <1>1
  <1> QED
    BY <1>4, <1>5, <1>6, <1>7 DEF Doomed, r

\* A caller that gives up asks every node that its round reaches.
LEMMA ClearedCall ==
  ASSUME TypeOK, NEW c \in Client, Cleared(c), CallStep(c)
  PROVE  Cleared(c)'
  <1>0. /\ conn \in [Client -> [Node -> Seq(Cmd)]] /\ pc \in [Client -> PC]
        /\ vote \in [Client -> [Node -> Vote]] /\ vote[c] \in [Node -> Vote]
        /\ \A n \in Node : conn[c][n] \in Seq(Cmd)
    BY TypeParts DEF ConnOK, VoteOK
  <1>1. \A n \in Node : score'[n] = score[n]
    BY DEF CallStep, StartAttempt, AcquireSucceeds, AcquireRefused, AcquireFails, CleanupDone,
           StartExtend, ExtendSucceeds, ExtendFails, EndExtend, StartRelease, EndRelease
  <1>2. ASSUME NEW op \in Deletes, NEW refused \in Refusals, OpenRound(c, op, refused)
        PROVE  Cleared(c)'
    <2>1. \A n \in Node \ refused :
            conn'[c][n] = Append(Abandon(conn[c][n], MainOps), Command(op))
      BY <1>0, <1>2 DEF OpenRound, Send, AbandonAll
    <2>2. \A n \in Node : n \in refused => vote'[c][n] = "open"
      BY <1>0, <1>2 DEF OpenRound, Opening
    <2>3. ASSUME NEW n \in Node \ refused
          PROVE  Doomed(conn'[c][n], score'[n][c])
      <3>1. Abandon(conn[c][n], MainOps) \in Seq(Cmd)
        BY <1>0, AbandonType
      <3>2. Doomed(Append(Abandon(conn[c][n], MainOps), Command(op)), score'[n][c])
        BY <3>1, DoomedDelete
      <3> QED
        BY <2>1, <3>2
    <2> QED
      BY <2>2, <2>3 DEF Cleared
  <1>3. ASSUME NEW stage, CloseRound(c, stage), pc[c] \in GivenUp, resent' = resent
        PROVE  Cleared(c)'
    <2>1. \A n \in Node : conn'[c][n] = Abandon(conn[c][n], MainOps)
      BY <1>0, <1>3 DEF CloseRound, AbandonAll
    <2>2. \A n \in Node : vote'[c][n] # "open" => vote[c][n] # "open"
      BY <1>0, <1>3 DEF CloseRound
    <2>3. \A n \in Node : vote'[c][n] # "open" /\ ~resent'[c][n] =>
            Doomed(conn'[c][n], score'[n][c])
      BY <1>0, <1>1, <1>3, <2>1, <2>2, DoomedAbandon DEF Cleared
    <2> QED
      BY <2>3 DEF Cleared
  <1>4. CASE StartAttempt(c)
    BY <1>0, <1>4 DEF StartAttempt, Cleared, GivenUp
  <1>5. CASE AcquireSucceeds(c)
    BY <1>0, <1>5 DEF AcquireSucceeds, CloseRound, Cleared, GivenUp
  <1>6. CASE AcquireRefused(c)
    <2>1. \A n \in Node : vote[c][n] = "open"
      BY <1>6 DEF AcquireRefused, With
    <2>2. \A n \in Node : vote'[c][n] = "open"
      BY <1>0, <1>6, <2>1 DEF AcquireRefused, CloseRound
    <2> QED
      BY <2>2 DEF Cleared
  <1>7. CASE AcquireFails(c)
    BY <1>2, <1>7 DEF AcquireFails, Deletes
  <1>8. CASE StartRelease(c)
    BY <1>2, <1>8 DEF StartRelease, Deletes
  <1>9. CASE CleanupDone(c) \/ EndRelease(c)
    BY <1>3, <1>9 DEF CleanupDone, EndRelease, GivenUp
  <1>10. CASE StartExtend(c)
    <2>1. PICK refused \in Refusals : conn' = [conn EXCEPT ![c] = Send(@, Command("extend"), refused)]
      BY <1>10 DEF StartExtend
    <2>2. \A n \in Node : \/ conn'[c][n] = conn[c][n]
                          \/ conn'[c][n] = Append(conn[c][n], Command("extend"))
      BY <1>0, <2>1 DEF Send
    <2>3. pc' = pc /\ vote' = vote /\ resent' = resent
      BY <1>10 DEF StartExtend
    <2> QED
      BY <1>0, <1>1, <2>2, <2>3, DoomedExtend DEF Cleared
  <1>11. CASE ExtendSucceeds(c) \/ ExtendFails(c)
    <2>1. /\ \A n \in Node : conn'[c][n] = Abandon(conn[c][n], {"extend"})
          /\ pc' = pc /\ vote' = vote /\ resent' = resent
      BY <1>0, <1>11 DEF ExtendSucceeds, ExtendFails, EndExtend, AbandonAll
    <2> QED
      BY <1>0, <1>1, <2>1, DoomedAbandon DEF Cleared
  <1> QED
    BY <1>4, <1>5, <1>6, <1>7, <1>8, <1>9, <1>10, <1>11 DEF CallStep

\* What the nodes and the timers do keeps that promise ...
LEMMA ClearedNode ==
  ASSUME TypeOK, NEW c \in Client, Commands(c), Cleared(c), NEW n \in Node, NodeStep(c, n)
  PROVE  Cleared(c)'
  <1>0. /\ conn \in [Client -> [Node -> Seq(Cmd)]] /\ vote \in [Client -> [Node -> Vote]]
        /\ \A m \in Node : conn[c][m] \in Seq(Cmd)
    BY TypeParts DEF ConnOK, VoteOK
  <1>1. CASE ScriptStep(c, n)
    <2>1. /\ conn'[c][n] = Tail(conn[c][n]) /\ pc'[c] = pc[c] /\ resent'[c] = resent[c]
          /\ \A m \in Node \ {n} : conn'[c][m] = conn[c][m] /\ vote'[c][m] = vote[c][m]
          /\ vote'[c][n] = "open" <=> vote[c][n] = "open"
      BY <1>1, ScriptShape
    <2>2. \A m \in Node \ {n} : score'[m] = score[m]
      BY <1>1, ScriptScores
    <2>3. Doomed(conn[c][n], score[n][c]) => Doomed(conn'[c][n], score'[n][c])
      BY <1>1, <2>1, DoomedScript
    <2> QED
      BY <2>1, <2>2, <2>3 DEF Cleared
  <1>2. CASE TimeoutStep(c, n)
    <2>1. /\ pc' = pc /\ score' = score /\ resent' = resent
          /\ \A m \in Node : \/ conn'[c][m] = conn[c][m]
                             \/ \E ops : conn'[c][m] = Abandon(conn[c][m], ops)
      BY <1>0, <1>2 DEF TimeoutStep, Timeout, ExtendTimeout
    <2>2. \A m \in Node : vote'[c][m] # "open" => vote[c][m] # "open"
      BY <1>0, <1>2 DEF TimeoutStep, Timeout, ExtendTimeout
    <2> QED
      BY <1>0, <2>1, <2>2, DoomedAbandon DEF Cleared
  <1>3. CASE NoScript(c, n)
    <2> DEFINE q == conn[c][n]
    <2>1. /\ q # <<>> /\ q \in Seq(Cmd) /\ conn'[c][n] = Resent(q) /\ pc' = pc /\ vote' = vote
          /\ score' = score /\ \A m \in Node \ {n} : conn'[c][m] = conn[c][m]
      BY <1>0, <1>3 DEF NoScript, Resent
    <2>2. /\ resent \in [Client -> [Node -> BOOLEAN]]
          /\ \A m \in Node \ {n} : resent'[c][m] = resent[c][m]
          /\ resent'[c][n] = \/ resent[c][n]
                             \/ /\ Head(q).op = "acquire"
                                /\ \E i \in 1..Len(Tail(q)) : Tail(q)[i].op \in Deletes
      BY <1>3, TypeParts DEF NoScript
    <2>3. ASSUME ~resent'[c][n], Doomed(q, score[n][c])
          PROVE  Doomed(Resent(q), score[n][c])
      <3>1. ~(Head(q).op = "acquire" /\ \E i \in 1..Len(Tail(q)) : Tail(q)[i].op \in Deletes)
        BY <2>2, <2>3
      <3> QED
        BY <2>1, <2>3, <3>1, DoomedResent
    <2>4. \A m \in Node : vote[c][m] # "open" /\ ~resent'[c][m] /\ pc[c] \in GivenUp =>
            Doomed(conn'[c][m], score[m][c])
      <3>1. ~resent'[c][n] => ~resent[c][n]
        BY <2>2
      <3> QED
        BY <2>1, <2>2, <2>3, <3>1 DEF Cleared
    <2> QED
      BY <2>1, <2>4 DEF Cleared
  <1> QED
    BY <1>1, <1>2, <1>3 DEF NodeStep

\* ... and so does every step.
LEMMA ClearedStep ==
  ASSUME TypeOK, NEW d \in Client, Commands(d), Cleared(d), [Next]_vars
  PROVE  Cleared(d)'
  <1>1. ASSUME Same(d), Lapses(d)
        PROVE  Cleared(d)'
    <2>1. \A n \in Node : conn[d][n] \in Seq(Cmd)
      BY TypeParts DEF ConnOK
    <2>2. \A n \in Node : Doomed(conn[d][n], score[n][d]) => Doomed(conn[d][n], score'[n][d])
      BY <1>1, <2>1, DoomedGone DEF Lapses
    <2> QED
      BY <1>1, <2>2 DEF Same, Cleared
  <1>2. CASE GetStatus \/ Tick \/ UNCHANGED vars
    BY <1>1, <1>2, Elsewhere
  <1>3. ASSUME NEW c \in Client, CallStep(c) \/ \E n \in Node : NodeStep(c, n)
        PROVE  Cleared(d)'
    BY <1>1, <1>3, Locality, ClearedCall, ClearedNode
  <1> QED
    BY <1>2, <1>3, StepCases

LeakInv == TypeOK /\ \A c \in Client : Plain(c) /\ Commands(c) /\ Cleared(c)

\* A call that failed, or a permit that was released, occupies no place on a node once the
\* commands it sent have run, whichever scripts the node does not have in its cache: the
\* cleanup and the release are sent to every node after whatever may still take the
\* permit, and the connections keep that order.  Excepted is a node where an acquire of the
\* last round was sent again, with EVAL, when the deletion had been sent already.
THEOREM PermitsDoNotLeak == Spec => []NothingLeaks
  <1>1. Init => LeakInv
    <2> SUFFICES ASSUME Init
                 PROVE  TypeOK /\ \A c \in Client : Plain(c) /\ Commands(c) /\ Cleared(c)
      BY DEF LeakInv
    <2>1. TypeOK
      BY InitType
    <2>2. \A c \in Client : Plain(c) /\ Commands(c) /\ Cleared(c)
      BY DEF Init, Plain, Commands, Lawful, NoExtend, Cleared, GivenUp
    <2> QED
      BY <2>1, <2>2
  <1>2. LeakInv /\ [Next]_vars => LeakInv'
    BY TypeStep, PlainStep, CommandsStep, ClearedStep DEF LeakInv
  <1>3. LeakInv => NothingLeaks
    BY DEF LeakInv, NothingLeaks, GivenBack, Cleared, GivenUp, Doomed
  <1> QED
    BY <1>1, <1>2, <1>3, PTL DEF Spec

(***************************************************************************)
(* How long the nodes keep a permit.                                       *)
(***************************************************************************)
\* Whatever a script writes, the TTL of the set of its node stays, or starts over.
LEMMA ScriptLife ==
  ASSUME TypeOK, NEW c \in Client, NEW n \in Node, ScriptStep(c, n)
  PROVE  /\ \A d \in Client : score'[n][d] # 0 => keyExpiry'[n] \in {keyExpiry[n], now + SetLife(c)}
         /\ RunAcquire(c, n) /\ score'[n][c] # 0 =>
              keyExpiry'[n] = now + SetLife(c) \/ (keyExpiry'[n] = keyExpiry[n] /\ score[n][c] > now)
         /\ RunExtend(c, n) /\ score'[n][c] # 0 => keyExpiry'[n] = now + SetLife(c)
  <1>1. now + Ttl[c] \in Nat /\ score[n] \in Scores /\ Purged(n) \in Scores
    BY TimesType, PurgedType
  <1>2. ASSUME NEW s \in Scores, NEW expiry, Store(n, s, expiry), NEW d \in Client, score'[n][d] # 0
        PROVE  keyExpiry'[n] = expiry
    <2>1. s[d] # 0
      BY <1>2, StoreScores
    <2>2. Members(s) # {}
      BY <2>1 DEF Members
    <2> QED
      BY <1>2, <2>2, StoreScores
  <1>3. CASE RunAcquire(c, n)
    <2> DEFINE s == IF AcquireGranted(c, n) THEN [Purged(n) EXCEPT ![c] = now + Ttl[c]]
                    ELSE Purged(n)
               e == IF AcquireGranted(c, n) /\ Purged(n)[c] = 0 THEN now + SetLife(c)
                    ELSE keyExpiry[n]
    <2>1. s \in Scores
      BY <1>1 DEF Scores
    <2>2. Store(n, s, e)
      BY <1>3 DEF RunAcquire
    <2>3. \A d \in Client : score'[n][d] # 0 => keyExpiry'[n] = e
      <3> HIDE DEF s, e
      <3> QED
        BY <1>2, <2>1, <2>2
    <2>4. score'[n][c] # 0 => AcquireGranted(c, n)
      BY <1>3, ScriptScores
    <2>5. Purged(n)[c] # 0 => score[n][c] > now
      BY PurgedType
    <2>6. ~RunExtend(c, n)
      BY <1>3 DEF RunAcquire, RunExtend, Head1
    <2> QED
      BY <2>3, <2>4, <2>5, <2>6
  <1>4. CASE RunExtend(c, n)
    <2> DEFINE s == [score[n] EXCEPT ![c] = IF ExtendGranted(c, n) THEN now + Ttl[c] ELSE 0]
               e == IF ExtendGranted(c, n) THEN now + SetLife(c) ELSE keyExpiry[n]
    <2>1. s \in Scores
      BY <1>1 DEF Scores
    <2>2. Store(n, s, e)
      BY <1>4 DEF RunExtend
    <2>3. \A d \in Client : score'[n][d] # 0 => keyExpiry'[n] = e
      <3> HIDE DEF s, e
      <3> QED
        BY <1>2, <2>1, <2>2
    <2>4. score'[n][c] # 0 => ExtendGranted(c, n)
      BY <1>4, ScriptScores
    <2>5. ~RunAcquire(c, n)
      BY <1>4 DEF RunAcquire, RunExtend, Head1
    <2> QED
      BY <2>3, <2>4, <2>5
  <1>5. CASE RunRelease(c, n)
    <2> DEFINE s == [Purged(n) EXCEPT ![c] = 0]
    <2>1. s \in Scores
      BY <1>1 DEF Scores
    <2>2. Store(n, s, keyExpiry[n])
      BY <1>5 DEF RunRelease
    <2>3. \A d \in Client : score'[n][d] # 0 => keyExpiry'[n] = keyExpiry[n]
      <3> HIDE DEF s
      <3> QED
        BY <1>2, <2>1, <2>2
    <2>4. ~RunAcquire(c, n) /\ ~RunExtend(c, n)
      BY <1>5 DEF RunAcquire, RunExtend, RunRelease, Head1
    <2> QED
      BY <2>3, <2>4
  <1> QED
    BY <1>3, <1>4, <1>5 DEF ScriptStep

\* What may happen to the permit of c on node n: it goes, it stays in a set whose TTL may
\* start over, it is taken, again or anew, or it is extended.
Gone(c, n) == score'[n][c] = 0
Stays(c, n) ==
  /\ score'[n][c] = score[n][c]
  /\ keyExpiry'[n] = keyExpiry[n] \/ \E d \in Client : keyExpiry'[n] = now + SetLife(d)
Taken(c, n) ==
  /\ RunAcquire(c, n) /\ score'[n][c] = now + Ttl[c]
  /\ keyExpiry'[n] = now + SetLife(c) \/ (keyExpiry'[n] = keyExpiry[n] /\ score[n][c] > now)
Renewed(c, n) ==
  /\ RunExtend(c, n) /\ score'[n][c] = now + Ttl[c] /\ score[n][c] # 0
  /\ keyExpiry'[n] = now + SetLife(c)

\* It only goes when it is released, when its time is over or that of the set.
LEMMA PermitStep ==
  ASSUME TypeOK, [Next]_vars, NEW c \in Client, NEW n \in Node
  PROVE  /\ Gone(c, n) \/ Stays(c, n) \/ Taken(c, n) \/ Renewed(c, n)
         /\ score[n][c] > now' /\ keyExpiry[n] > now' /\ ~RunRelease(c, n) => ~Gone(c, n)
         /\ now' \in Nat /\ now' >= now
  <1>0. /\ now \in Nat /\ score[n] \in Scores /\ score[n][c] \in Nat /\ keyExpiry[n] \in Nat
        /\ now + Ttl[c] \in Nat /\ Ttl[c] \in Nat \ {0}
    BY TypeParts, TimesType, TtlType DEF Scores, SetsOK
  <1>1. CASE UNCHANGED <<now, score, keyExpiry>>
    BY <1>0, <1>1 DEF Stays, Gone
  <1>2. CASE Tick
    <2>1. now' = now + 1 /\ score'[n][c] = At(n, now + 1)[c]
      BY <1>2 DEF Tick
    <2>2. score'[n][c] # 0 =>
            /\ score'[n][c] = score[n][c] /\ Members(At(n, now + 1)) # {}
      BY <2>1 DEF At, Members
    <2>3. keyExpiry'[n] = IF Members(At(n, now + 1)) = {} THEN 0 ELSE keyExpiry[n]
      BY <1>2 DEF Tick
    <2>4. score[n][c] > now' /\ keyExpiry[n] > now' => score'[n][c] = score[n][c]
      BY <1>0, <2>1 DEF At
    <2> QED
      BY <1>0, <2>1, <2>2, <2>3, <2>4 DEF Stays, Gone
  <1>3. CASE GetStatus
    <2>1. ReadNode \in Node /\ now' = now
      BY <1>3, PermitAssumption DEF GetStatus
    <2>2. CASE n # ReadNode
      <3>1. score'[n] = score[n] /\ keyExpiry'[n] = keyExpiry[n]
        BY <1>3, <2>1, <2>2, PurgedType, StoreScores DEF GetStatus
      <3> QED
        BY <1>0, <2>1, <3>1 DEF Stays, Gone
    <2>3. CASE n = ReadNode
      <3>1. /\ score'[n] = Purged(n)
            /\ keyExpiry'[n] = IF Members(Purged(n)) = {} THEN 0 ELSE keyExpiry[n]
        BY <1>3, <2>1, <2>3, PurgedType, StoreScores DEF GetStatus
      <3>2. /\ Purged(n)[c] # 0 => Purged(n)[c] = score[n][c] /\ Members(Purged(n)) # {}
            /\ Purged(n)[c] = 0 => score[n][c] <= now
        BY PurgedType DEF Members
      <3> QED
        BY <1>0, <2>1, <3>1, <3>2 DEF Stays, Gone
    <2> QED
      BY <2>2, <2>3
  <1>4. ASSUME NEW d \in Client, NEW m \in Node, ScriptStep(d, m)
        PROVE  /\ Gone(c, n) \/ Stays(c, n) \/ Taken(c, n) \/ Renewed(c, n)
               /\ score[n][c] > now' /\ keyExpiry[n] > now' /\ ~RunRelease(c, n) => ~Gone(c, n)
               /\ now' \in Nat /\ now' >= now
    <2>1. now' = now
      BY <1>4 DEF ScriptStep, RunAcquire, RunExtend, RunRelease
    <2>2. CASE m # n
      <3>1. score'[n] = score[n] /\ keyExpiry'[n] = keyExpiry[n]
        BY <1>4, <2>2, ScriptScores
      <3> QED
        BY <1>0, <2>1, <3>1 DEF Stays, Gone
    <2>3. CASE m = n /\ d # c
      <3>1. /\ score'[n][c] = 0 \/ score'[n][c] = score[n][c]
            /\ score[n][c] > now => score'[n][c] = score[n][c]
        <4>1. c \in Client \ {d} /\ ScriptStep(d, n)
          BY <1>4, <2>3
        <4> QED
          BY <4>1, ScriptScores
      <3>2. score'[n][c] # 0 => keyExpiry'[n] \in {keyExpiry[n], now + SetLife(d)}
        BY <1>4, <2>3, ScriptLife
      <3> QED
        BY <1>0, <2>1, <3>1, <3>2 DEF Stays, Gone
    <2>4. CASE m = n /\ d = c
      <3>1. CASE RunAcquire(c, n)
        <4>1. score'[n][c] = IF AcquireGranted(c, n) THEN now + Ttl[c] ELSE 0
          BY <1>4, <2>4, <3>1, ScriptScores
        <4>2. score'[n][c] # 0 => \/ keyExpiry'[n] = now + SetLife(c)
                                  \/ keyExpiry'[n] = keyExpiry[n] /\ score[n][c] > now
          BY <1>4, <2>4, <3>1, ScriptLife
        <4>3. score[n][c] > now => AcquireGranted(c, n)
          <5>1. score[n][c] > now => Purged(n)[c] # 0
            BY <1>0, PurgedType
          <5> QED
            BY <5>1 DEF AcquireGranted
        <4> QED
          BY <1>0, <2>1, <3>1, <4>1, <4>2, <4>3 DEF Gone, Taken
      <3>2. CASE RunExtend(c, n)
        <4>1. score'[n][c] = IF ExtendGranted(c, n) THEN now + Ttl[c] ELSE 0
          BY <1>4, <2>4, <3>2, ScriptScores
        <4>2. score'[n][c] # 0 => keyExpiry'[n] = now + SetLife(c)
          BY <1>4, <2>4, <3>2, ScriptLife
        <4>3. /\ score[n][c] > now => ExtendGranted(c, n)
              /\ ExtendGranted(c, n) => score[n][c] # 0
          BY <1>0 DEF ExtendGranted
        <4> QED
          BY <1>0, <2>1, <3>2, <4>1, <4>2, <4>3 DEF Gone, Renewed
      <3>3. CASE RunRelease(c, n)
        BY <1>0, <1>4, <2>1, <2>4, <3>3, ScriptScores DEF Gone
      <3> QED
        BY <1>4, <2>4, <3>1, <3>2, <3>3 DEF ScriptStep
    <2> QED
      BY <2>2, <2>3, <2>4
  <1>5. ASSUME NEW d \in Client,
               CallStep(d) \/ \E m \in Node : NoScript(d, m) \/ TimeoutStep(d, m)
        PROVE  UNCHANGED <<now, score, keyExpiry>>
    BY <1>5 DEF NoScript, CallStep, StartAttempt, AcquireSucceeds, AcquireRefused, AcquireFails,
           CleanupDone, StartExtend, ExtendSucceeds, ExtendFails, EndExtend, StartRelease, EndRelease,
           TimeoutStep, Timeout, ExtendTimeout
  <1>6. UNCHANGED vars => UNCHANGED <<now, score, keyExpiry>>
    BY DEF vars
  <1> QED
    BY <1>1, <1>2, <1>3, <1>4, <1>5, <1>6, StepCases DEF NodeStep

(***************************************************************************)
(* How many acquires are under way.                                        *)
(***************************************************************************)
\* No command on a connection that takes the permit away.
Clean(q) == \A i \in 1..Len(q) : q[i].op \notin Deletes

\* How many acquires may still be under way, as far as it matters.
AtMost(q, k) ==
  /\ k = 0 => \A i \in 1..Len(q) : q[i].op # "acquire"
  /\ k = 1 => \A i, j \in 1..Len(q) : q[i].op = "acquire" /\ q[j].op = "acquire" => i = j
  /\ k = 2 => \A i, j, h \in 1..Len(q) :
        q[i].op = "acquire" /\ q[j].op = "acquire" /\ q[h].op = "acquire"
          => i = j \/ i = h \/ j = h

\* Few acquires are also few when one more is allowed.
LEMMA AtMostMore ==
  ASSUME NEW q, NEW k \in {0, 1}, AtMost(q, k)
  PROVE  AtMost(q, k + 1)
  BY DEF AtMost

\* Giving commands up does not add acquires.
LEMMA AtMostAlike ==
  ASSUME NEW q, NEW r, Alike(q, r), NEW k \in Int, AtMost(q, k)
  PROVE  AtMost(r, k)
  BY DEF AtMost, Alike

\* The oldest command leaves.
LEMMA AtMostTail ==
  ASSUME NEW q \in Seq(Cmd), q # <<>>, NEW k \in Int, AtMost(q, k)
  PROVE  /\ AtMost(Tail(q), k)
         /\ Head(q).op = "acquire" => k # 0
         /\ Head(q).op = "acquire" /\ k \in {1, 2} => AtMost(Tail(q), k - 1)
  <1>1. /\ \A i \in 1..Len(Tail(q)) : i + 1 \in 1..Len(q) /\ Tail(q)[i] = q[i + 1]
        /\ 1 \in 1..Len(q) /\ Head(q) = q[1] /\ Len(Tail(q)) \in Nat /\ Len(q) \in Nat
    BY TailQueue
  <1>2. Head(q).op = "acquire" => k # 0
    BY <1>1 DEF AtMost
  <1>3. CASE k = 0
    BY <1>1, <1>3 DEF AtMost
  <1>4. CASE k = 1
    BY <1>1, <1>4 DEF AtMost
  <1>5. CASE k = 2
    BY <1>1, <1>5 DEF AtMost
  <1>6. CASE k \notin {0, 1, 2}
    BY <1>2, <1>6 DEF AtMost
  <1> QED
    BY <1>3, <1>4, <1>5, <1>6

\* It is sent again.
LEMMA AtMostResent ==
  ASSUME NEW q \in Seq(Cmd), q # <<>>, NEW k \in Int, AtMost(q, k)
  PROVE  AtMost(Resent(q), k)
  <1>1. /\ Len(q) \in Nat /\ Len(Resent(q)) = Len(q)
        /\ \A i \in 1..Len(q) :
             Former(q, i) \in 1..Len(q) /\ Resent(q)[i].op = q[Former(q, i)].op
    BY ResentQueue
  <1>2. \A i, j \in 1..Len(q) : Former(q, i) = Former(q, j) => i = j
    BY <1>1 DEF Former
  <1> DEFINE r == Resent(q)
             f(i) == Former(q, i)
  <1>3. /\ Len(r) = Len(q) /\ \A i \in 1..Len(q) : f(i) \in 1..Len(q) /\ r[i].op = q[f(i)].op
        /\ \A i, j \in 1..Len(q) : f(i) = f(j) => i = j
    BY <1>1, <1>2
  <1> HIDE DEF r, f
  <1>4. CASE k = 0
    <2>1. \A i \in 1..Len(q) : q[i].op # "acquire"
      BY <1>4 DEF AtMost
    <2>2. \A i \in 1..Len(r) : r[i].op # "acquire"
      BY <1>3, <2>1
    <2> QED
      BY <1>4, <2>2 DEF AtMost, r
  <1>5. CASE k = 1
    <2>1. ASSUME NEW i \in 1..Len(r), NEW j \in 1..Len(r), r[i].op = "acquire", r[j].op = "acquire"
          PROVE  i = j
      <3>0. /\ f(i) \in 1..Len(q) /\ q[f(i)].op = "acquire"
            /\ f(j) \in 1..Len(q) /\ q[f(j)].op = "acquire"
        BY <1>3, <2>1
      <3>1. f(i) = f(j)
        BY <1>5, <3>0 DEF AtMost
      <3> QED
        BY <1>3, <2>1, <3>1
    <2> QED
      BY <1>5, <2>1 DEF AtMost, r
  <1>6. CASE k = 2
    <2>1. ASSUME NEW i \in 1..Len(r), NEW j \in 1..Len(r), NEW h \in 1..Len(r),
                 r[i].op = "acquire", r[j].op = "acquire", r[h].op = "acquire"
          PROVE  i = j \/ i = h \/ j = h
      <3>0. /\ f(i) \in 1..Len(q) /\ q[f(i)].op = "acquire"
            /\ f(j) \in 1..Len(q) /\ q[f(j)].op = "acquire"
            /\ f(h) \in 1..Len(q) /\ q[f(h)].op = "acquire"
        BY <1>3, <2>1
      <3>1. f(i) = f(j) \/ f(i) = f(h) \/ f(j) = f(h)
        BY <1>6, <3>0 DEF AtMost
      <3> QED
        BY <1>3, <2>1, <3>1
    <2> QED
      BY <1>6, <2>1 DEF AtMost, r
  <1>7. CASE k \notin {0, 1, 2}
    BY <1>7 DEF AtMost
  <1> QED
    BY <1>4, <1>5, <1>6, <1>7

\* A command is sent.
LEMMA AtMostAppend ==
  ASSUME NEW q \in Seq(Cmd), NEW op \in Operations, NEW k \in Int, AtMost(q, k)
  PROVE  /\ op # "acquire" => AtMost(Append(q, Command(op)), k)
         /\ k \in {0, 1} => AtMost(Append(q, Command(op)), k + 1)
  <1> DEFINE r == Append(q, Command(op))
  <1>1. Command(op) \in Cmd /\ Command(op).op = op
    BY DEF Command, Cmd, Operations
  <1>2. /\ Len(q) \in Nat /\ Len(r) = Len(q) + 1 /\ r[Len(q) + 1].op = op
        /\ \A i \in 1..Len(q) : r[i] = q[i]
        /\ \A i \in 1..Len(r) : i \in 1..Len(q) \/ i = Len(q) + 1
    BY <1>1, AppendQueue
  <1> HIDE DEF r
  <1>3. ASSUME op # "acquire" PROVE AtMost(r, k)
    <2>1. \A i \in 1..Len(r) : r[i].op = "acquire" => i \in 1..Len(q) /\ q[i].op = "acquire"
      BY <1>2, <1>3
    <2> QED
      BY <2>1 DEF AtMost
  <1>4. CASE k = 0
    <2>1. \A i \in 1..Len(r) : r[i].op = "acquire" => i = Len(q) + 1
      BY <1>2, <1>4 DEF AtMost
    <2> QED
      BY <1>3, <1>4, <2>1 DEF AtMost, r
  <1>5. CASE k = 1
    <2>1. \A i \in 1..Len(r) : r[i].op = "acquire" =>
            i = Len(q) + 1 \/ (i \in 1..Len(q) /\ q[i].op = "acquire")
      BY <1>2
    <2>2. AtMost(r, 2)
      BY <1>5, <2>1 DEF AtMost
    <2> QED
      BY <1>3, <1>5, <2>2 DEF r
  <1> QED
    BY <1>3, <1>4, <1>5 DEF r

\* Every step but a new attempt leaves fewer acquires under way, if any.
LEMMA AtMostStep ==
  ASSUME TypeOK, [Next]_vars, NEW c \in Client, NEW n \in Node, NEW k \in Int,
         AtMost(conn[c][n], k)
  PROVE  /\ ~StartAttempt(c) => AtMost(conn'[c][n], k)
         /\ k \in {0, 1} => AtMost(conn'[c][n], k + 1)
  <1>0. conn[c][n] \in Seq(Cmd)
    BY TypeParts DEF ConnOK
  <1>1. CASE Alike(conn[c][n], conn'[c][n])
    <2>1. AtMost(conn'[c][n], k)
      BY <1>1, AtMostAlike
    <2> QED
      BY <2>1, AtMostMore
  <1>2. CASE \E a \in Seq(Cmd), op \in Operations :
               /\ Alike(conn[c][n], a) /\ conn'[c][n] = Append(a, Command(op))
               /\ op = "acquire" => StartAttempt(c)
    <2>1. PICK a \in Seq(Cmd), op \in Operations :
               /\ Alike(conn[c][n], a) /\ conn'[c][n] = Append(a, Command(op))
               /\ op = "acquire" => StartAttempt(c)
      BY <1>2
    <2>2. AtMost(a, k)
      BY <2>1, AtMostAlike
    <2> QED
      BY <2>1, <2>2, AtMostAppend
  <1>3. CASE conn[c][n] # <<>> /\ conn'[c][n] = Tail(conn[c][n])
    <2>1. AtMost(conn'[c][n], k)
      BY <1>0, <1>3, AtMostTail
    <2> QED
      BY <2>1, AtMostMore
  <1>4. CASE conn[c][n] # <<>> /\ conn'[c][n] = Resent(conn[c][n])
    <2>1. AtMost(conn'[c][n], k)
      BY <1>0, <1>4, AtMostResent
    <2> QED
      BY <2>1, AtMostMore
  <1> QED
    BY <1>1, <1>2, <1>3, <1>4, QueueStep DEF QueueChange

\* A caller that keeps its permit, or goes on asking for it, sends no delete.
LEMMA CleanStep ==
  ASSUME TypeOK, [Next]_vars, NEW c \in Client, NEW n \in Node, Clean(conn[c][n]),
         pc'[c] \in {"acquiring", "held"}
  PROVE  Clean(conn'[c][n])
  <1>0. conn[c][n] \in Seq(Cmd)
    BY TypeParts DEF ConnOK
  <1>1. CASE Alike(conn[c][n], conn'[c][n])
    BY <1>1 DEF Clean, Alike
  <1>2. CASE \E a \in Seq(Cmd), op \in Operations :
               /\ Alike(conn[c][n], a) /\ conn'[c][n] = Append(a, Command(op))
               /\ op \in Deletes => pc'[c] \notin {"acquiring", "held"}
    <2>1. PICK a \in Seq(Cmd), op \in Operations :
               /\ Alike(conn[c][n], a) /\ conn'[c][n] = Append(a, Command(op))
               /\ op \notin Deletes
      BY <1>2
    <2>2. Clean(a)
      BY <2>1 DEF Clean, Alike
    <2>3. Command(op) \in Cmd /\ Command(op).op = op
      BY DEF Command, Cmd, Operations
    <2>4. Clean(Append(a, Command(op)))
      <3>1. \A i \in 1..Len(Append(a, Command(op))) :
              Append(a, Command(op))[i].op \notin Deletes
        BY <2>1, <2>2, <2>3, AppendQueue DEF Clean
      <3> QED
        BY <3>1 DEF Clean
    <2> QED
      BY <2>1, <2>4
  <1>3. CASE conn[c][n] # <<>> /\ conn'[c][n] = Tail(conn[c][n])
    BY <1>0, <1>3, TailQueue DEF Clean
  <1>4. CASE conn[c][n] # <<>> /\ conn'[c][n] = Resent(conn[c][n])
    <2> DEFINE q == conn[c][n]
    <2>1. /\ Len(Resent(q)) = Len(q)
          /\ \A i \in 1..Len(q) :
               Former(q, i) \in 1..Len(q) /\ Resent(q)[i].op = q[Former(q, i)].op
      BY <1>0, <1>4, ResentQueue
    <2>2. \A i \in 1..Len(q) : q[i].op \notin Deletes
      BY DEF Clean
    <2>3. conn'[c][n] = Resent(q)
      BY <1>4
    <2> HIDE DEF q
    <2>4. Clean(Resent(q))
      BY <2>1, <2>2 DEF Clean
    <2> QED
      BY <2>3, <2>4
  <1> QED
    BY <1>1, <1>2, <1>3, <1>4, QueueStep DEF QueueChange

(***************************************************************************)
(* How long a vote lasts.                                                  *)
(***************************************************************************)
\* All callers ask for the same ttl, and retry once at most.
OneTtl == \A c, d \in Client : Ttl[c] = Ttl[d]
FewAttempts == \A c \in Client : MaxAttempts[c] <= 2

\* How often a permit can be taken again, which renews its score but not the TTL of its
\* set: once, by the second attempt, and then no acquire is left.
Renewable(c, n) ==
  LET attempt == calls[c].attempt
      q == conn[c][n]
      s == score[n][c]
  IN  /\ s <= now + Ttl[c]
      /\ AtMost(q, attempt)
      /\ s # 0 => attempt >= 1 /\ AtMost(q, attempt - 1)
      /\ s # 0 /\ keyExpiry[n] < s + Ttl[c] => attempt = 2 /\ AtMost(q, 0)

Renewals(c) ==
  /\ calls[c].attempt <= MaxAttempts[c]
  /\ \A n \in Node : Renewable(c, n)

\* Which calls count their attempts.
LEMMA AttemptStep ==
  ASSUME TypeOK, [Next]_vars, NEW c \in Client
  PROVE  /\ calls[c].attempt \in Nat /\ calls'[c].attempt \in Nat
         /\ StartAttempt(c) => /\ calls'[c].attempt = calls[c].attempt + 1
                               /\ calls[c].attempt < MaxAttempts[c]
                               /\ UNCHANGED <<now, score, keyExpiry>>
         /\ ~StartAttempt(c) => calls'[c].attempt = calls[c].attempt
  <1>0. calls \in [Client -> [attempt : Nat, extend : Nat, release : Nat]]
    BY TypeParts
  <1>1. CASE StartAttempt(c)
    BY <1>0, <1>1 DEF StartAttempt
  <1>2. ASSUME ~StartAttempt(c)
        PROVE  calls'[c].attempt = calls[c].attempt
    <2>1. CASE Same(c)
      BY <2>1 DEF Same
    <2>2. CASE CallStep(c)
      BY <1>0, <1>2, <2>2 DEF CallStep, AcquireSucceeds, AcquireRefused, AcquireFails, CleanupDone,
           StartExtend, ExtendSucceeds, ExtendFails, EndExtend, StartRelease, EndRelease
    <2>3. CASE \E m \in Node : NodeStep(c, m)
      BY <2>3 DEF NodeStep, NoScript, ScriptStep, RunAcquire, RunExtend, RunRelease, TimeoutStep,
           Timeout, ExtendTimeout
    <2>4. CASE GetStatus \/ Tick \/ UNCHANGED vars
      BY <2>1, <2>4, Elsewhere
    <2>5. ASSUME NEW d \in Client \ {c},
                 CallStep(d) \/ \E m \in Node : NodeStep(d, m)
          PROVE  Same(c)
      BY <2>5, Locality
    <2> QED
      BY <2>1, <2>2, <2>3, <2>4, <2>5, StepCases
  <1> QED
    BY <1>0, <1>1, <1>2

\* No step makes a permit renewable more often than that.
LEMMA RenewableStep ==
  ASSUME TypeOK, [Next]_vars, OneTtl, FewAttempts, NEW c \in Client, NEW n \in Node,
         calls[c].attempt <= MaxAttempts[c], Renewable(c, n)
  PROVE  Renewable(c, n)'
  <1> DEFINE a == calls[c].attempt
             q == conn[c][n]
             s == score[n][c]
  <1>0. /\ now \in Nat /\ s \in Nat /\ keyExpiry[n] \in Nat /\ Ttl[c] \in Nat \ {0}
        /\ a \in Nat /\ a <= 2 /\ q \in Seq(Cmd)
        /\ \A d \in Client : SetLife(d) = 2 * Ttl[c]
    <2>1. now \in Nat /\ score[n] \in Scores /\ keyExpiry[n] \in Nat /\ q \in Seq(Cmd)
      BY TypeParts DEF SetsOK, Scores, ConnOK
    <2>2. MaxAttempts[c] \in Nat /\ MaxAttempts[c] <= 2
      BY TtlType DEF FewAttempts
    <2>3. a \in Nat
      BY AttemptStep
    <2> QED
      BY <2>1, <2>2, <2>3, TtlType DEF Scores, OneTtl
  <1>1. /\ s <= now + Ttl[c] /\ AtMost(q, a)
        /\ s # 0 => a >= 1 /\ AtMost(q, a - 1)
        /\ s # 0 /\ keyExpiry[n] < s + Ttl[c] => a = 2 /\ AtMost(q, 0)
    BY DEF Renewable
  <1>2. CASE StartAttempt(c)
    <2>1. /\ calls'[c].attempt = a + 1 /\ a \in {0, 1}
          /\ now' = now /\ score'[n][c] = s /\ keyExpiry'[n] = keyExpiry[n]
      BY <1>0, <1>2, AttemptStep, TtlType DEF FewAttempts
    <2>2. AtMost(conn'[c][n], a + 1)
      BY <1>0, <1>1, <2>1, AtMostStep
    <2>3. s # 0 => a = 1 /\ AtMost(conn'[c][n], 1)
      <3>1. s # 0 => a = 1 /\ AtMost(q, 0)
        BY <1>1, <2>1
      <3> QED
        BY <3>1, AtMostStep
    <2> QED
      BY <1>1, <2>1, <2>2, <2>3 DEF Renewable
  <1>3. CASE ~StartAttempt(c) /\ ~RunAcquire(c, n)
    <2>1. calls'[c].attempt = a /\ \A k \in Int : AtMost(q, k) => AtMost(conn'[c][n], k)
      BY <1>3, AttemptStep, AtMostStep
    <2>2. /\ Gone(c, n) \/ Stays(c, n) \/ Renewed(c, n)
          /\ now' \in Nat /\ now' >= now
      BY <1>3, PermitStep DEF Taken
    <2>3. CASE Gone(c, n)
      BY <1>0, <1>1, <2>1, <2>2, <2>3 DEF Gone, Renewable
    <2>6. /\ AtMost(conn'[c][n], a)
          /\ s # 0 => a >= 1 /\ AtMost(conn'[c][n], a - 1)
          /\ s # 0 /\ keyExpiry[n] < s + Ttl[c] => a = 2 /\ AtMost(conn'[c][n], 0)
      BY <1>0, <1>1, <2>1
    <2>4. CASE Stays(c, n)
      <3>1. /\ score'[n][c] = s
            /\ keyExpiry'[n] = keyExpiry[n] \/ keyExpiry'[n] = now + 2 * Ttl[c]
        BY <1>0, <2>4 DEF Stays
      <3>2. s # 0 /\ keyExpiry'[n] < s + Ttl[c] => keyExpiry'[n] = keyExpiry[n]
        BY <1>0, <1>1, <3>1
      <3>3. s <= now' + Ttl[c]
        BY <1>0, <1>1, <2>2
      <3> QED
        BY <2>1, <2>6, <3>1, <3>2, <3>3 DEF Renewable
    <2>5. CASE Renewed(c, n)
      <3>1. /\ score'[n][c] = now + Ttl[c] /\ s # 0 /\ now' = now
            /\ keyExpiry'[n] = now + 2 * Ttl[c]
        BY <1>0, <2>5 DEF Renewed, RunExtend
      <3> QED
        BY <1>0, <2>1, <2>6, <3>1 DEF Renewable
    <2> QED
      BY <2>2, <2>3, <2>4, <2>5
  <1>4. CASE RunAcquire(c, n) /\ ~StartAttempt(c)
    <2>1. /\ calls'[c].attempt = a /\ now' = now /\ q # <<>> /\ Head(q).op = "acquire"
          /\ conn'[c][n] = Tail(q)
      <3>1. conn \in [Client -> [Node -> Seq(Cmd)]]
        BY TypeParts DEF ConnOK
      <3> QED
        BY <1>4, <3>1, AttemptStep DEF RunAcquire, Head1, Pop
    <2>2. a \in {1, 2} /\ AtMost(Tail(q), a - 1) /\ AtMost(Tail(q), a)
      <3>1. a # 0
        BY <1>0, <1>1, <2>1, AtMostTail
      <3> QED
        BY <1>0, <1>1, <2>1, <3>1, AtMostTail
    <2>3. /\ score'[n][c] = 0 \/ score'[n][c] = now + Ttl[c]
          /\ score'[n][c] # 0 => \/ keyExpiry'[n] = now + 2 * Ttl[c]
                                 \/ keyExpiry'[n] = keyExpiry[n] /\ s > now
      <3>1. ScriptStep(c, n)
        BY <1>4 DEF ScriptStep
      <3> QED
        BY <1>0, <1>4, <3>1, ScriptScores, ScriptLife
    <2>4. s # 0 => keyExpiry[n] >= s + Ttl[c] /\ a = 2 /\ AtMost(Tail(q), 0)
      <3>1. ~AtMost(q, 0)
        BY <1>0, <2>1, AtMostTail
      <3>2. s # 0 => AtMost(q, 1) /\ a = 2
        BY <1>0, <1>1, <2>2, <3>1
      <3>3. s # 0 => AtMost(Tail(q), 0)
        BY <1>0, <2>1, <3>2, AtMostTail
      <3> QED
        BY <1>0, <1>1, <3>1, <3>2, <3>3
    <2> QED
      BY <1>0, <2>1, <2>2, <2>3, <2>4 DEF Renewable
  <1> QED
    BY <1>2, <1>3, <1>4

\* So the count of attempts bounds the renewals on every node.
LEMMA RenewalsStep ==
  ASSUME TypeOK, [Next]_vars, OneTtl, FewAttempts, NEW c \in Client, Renewals(c)
  PROVE  Renewals(c)'
  <1>1. calls'[c].attempt <= MaxAttempts[c]
    BY AttemptStep, TtlType DEF Renewals
  <1>2. \A n \in Node : Renewable(c, n)'
    BY RenewableStep DEF Renewals
  <1> QED
    BY <1>1, <1>2 DEF Renewals

(***************************************************************************)
(* Counting places.                                                        *)
(***************************************************************************)
\* A finite set can be numbered.
LEMMA Numbering ==
  ASSUME NEW X, IsFiniteSet(X)
  PROVE  \E f \in [1..Cardinality(X) -> X] :
           /\ \A i, j \in 1..Cardinality(X) : f[i] = f[j] => i = j
           /\ \A x \in X : \E i \in 1..Cardinality(X) : f[i] = x
  <1> DEFINE I == 1..Cardinality(X)
  <1>1. Bijection(I, X) # {}
    BY FS_CardinalityType DEF ExistsBijection
  <1> HIDE DEF I
  <1>2. PICK f \in Bijection(I, X) : TRUE
    BY <1>1
  <1>3. /\ f \in [I -> X] /\ \A i, j \in I : f[i] = f[j] => i = j
        /\ \A x \in X : \E i \in I : f[i] = x
    BY Fun_BijectionProperties
  <1> QED
    BY <1>3 DEF I

\* When each of the members of S is in at least a of the sets M[t], and none of these has
\* more than b members: a member of S and one of its sets determine a place of that set.
LEMMA CountPlaces ==
  ASSUME NEW U, IsFiniteSet(U), NEW S \in SUBSET U, NEW T, IsFiniteSet(T),
         NEW M \in [T -> SUBSET U], NEW a \in Nat, NEW b \in Nat,
         \A s \in S : Cardinality({t \in T : s \in M[t]}) >= a,
         \A t \in T : Cardinality(M[t]) <= b
  PROVE  Cardinality(S) * a <= Cardinality(T) * b
  <1>0. IsFiniteSet(S) /\ Cardinality(S) \in Nat /\ Cardinality(T) \in Nat
    BY FS_Subset, FS_CardinalityType
  <1>1. \A s \in S : \E f \in [1..a -> T] :
          /\ \A i \in 1..a : s \in M[f[i]]
          /\ \A i, j \in 1..a : f[i] = f[j] => i = j
    <2> SUFFICES ASSUME NEW s \in S
                 PROVE  \E f \in [1..a -> T] : /\ \A i \in 1..a : s \in M[f[i]]
                                               /\ \A i, j \in 1..a : f[i] = f[j] => i = j
      OBVIOUS
    <2> DEFINE X == {t \in T : s \in M[t]}
               m == Cardinality(X)
    <2>1. X \in SUBSET T /\ IsFiniteSet(X) /\ m \in Nat /\ m >= a
      BY FS_Subset, FS_CardinalityType
    <2>0. \A t \in X : t \in T /\ s \in M[t]
      OBVIOUS
    <2> HIDE DEF X, m
    <2>3. PICK f \in [1..m -> X] : \A i, j \in 1..m : f[i] = f[j] => i = j
      BY <2>1, Numbering DEF m
    <2>4. 1..a \subseteq 1..m
      BY <2>1
    <2> DEFINE g == [i \in 1..a |-> f[i]]
    <2>5. /\ g \in [1..a -> T] /\ \A i \in 1..a : s \in M[g[i]]
          /\ \A i, j \in 1..a : g[i] = g[j] => i = j
      BY <2>0, <2>3, <2>4
    <2> QED
      BY <2>5
  <1>2. \A t \in T : \E p : \A s \in M[t] : \E j \in 1..b : p[j] = s
    <2> SUFFICES ASSUME NEW t \in T
                 PROVE  \E p : \A s \in M[t] : \E j \in 1..b : p[j] = s
      OBVIOUS
    <2> DEFINE m == Cardinality(M[t])
    <2>1. IsFiniteSet(M[t]) /\ m \in Nat /\ m <= b
      BY FS_Subset, FS_CardinalityType
    <2> HIDE DEF m
    <2>3. PICK p \in [1..m -> M[t]] : \A s \in M[t] : \E j \in 1..m : p[j] = s
      BY <2>1, Numbering DEF m
    <2>4. 1..m \subseteq 1..b
      BY <2>1
    <2> QED
      BY <2>3, <2>4
  <1> DEFINE Seats(s, f) == /\ f \in [1..a -> T]
                            /\ \A i \in 1..a : s \in M[f[i]]
                            /\ \A i, j \in 1..a : f[i] = f[j] => i = j
             Places(t, p) == \A s \in M[t] : \E j \in 1..b : p[j] = s
             seat == [s \in S |-> CHOOSE f : Seats(s, f)]
             place == [t \in T |-> CHOOSE p : Places(t, p)]
             rank(t, s) == CHOOSE j \in 1..b : place[t][j] = s
             h == [x \in S \X (1..a) |-> <<seat[x[1]][x[2]], rank(seat[x[1]][x[2]], x[1])>>]
  <1>3. \A s \in S : Seats(s, seat[s])
    <2> SUFFICES ASSUME NEW s \in S
                 PROVE  Seats(s, seat[s])
      OBVIOUS
    <2>1. \E f : Seats(s, f)
      BY <1>1
    <2> HIDE DEF Seats
    <2> QED
      BY <2>1
  <1>4. \A t \in T : Places(t, place[t])
    <2> SUFFICES ASSUME NEW t \in T
                 PROVE  Places(t, place[t])
      OBVIOUS
    <2>1. \E p : Places(t, p)
      BY <1>2
    <2> HIDE DEF Places
    <2> QED
      BY <2>1
  <1> HIDE DEF seat, place
  <1>5. \A t \in T : \A s \in M[t] : rank(t, s) \in 1..b /\ place[t][rank(t, s)] = s
    <2>1. \A t \in T : \A s \in M[t] : \E j \in 1..b : place[t][j] = s
      BY <1>4
    <2> QED
      BY <2>1
  <1> HIDE DEF rank
  <1>6. \A s \in S, i \in 1..a :
          /\ seat[s][i] \in T /\ rank(seat[s][i], s) \in 1..b
          /\ place[seat[s][i]][rank(seat[s][i], s)] = s
    BY <1>3, <1>5
  <1>7. h \in [S \X (1..a) -> T \X (1..b)]
    BY <1>6
  <1>8. ASSUME NEW x \in S \X (1..a), NEW y \in S \X (1..a), h[x] = h[y]
        PROVE  x = y
    <2>1. PICK s \in S, i \in 1..a, r \in S, j \in 1..a : x = <<s, i>> /\ y = <<r, j>>
      OBVIOUS
    <2>2. seat[s][i] = seat[r][j] /\ rank(seat[s][i], s) = rank(seat[r][j], r)
      BY <1>8, <2>1
    <2>3. s = r
      BY <1>6, <2>2
    <2>4. i = j
      BY <1>3, <2>2, <2>3
    <2> QED
      BY <2>1, <2>3, <2>4
  <1>9. h \in Injection(S \X (1..a), T \X (1..b))
    <2> HIDE DEF h
    <2> QED
      BY <1>7, <1>8, Fun_IsInj
  <1>10. /\ IsFiniteSet(1..a) /\ Cardinality(1..a) = a
         /\ IsFiniteSet(1..b) /\ Cardinality(1..b) = b
    BY FS_Interval
  <1>11. /\ Cardinality(S \X (1..a)) = Cardinality(S) * a
         /\ IsFiniteSet(T \X (1..b)) /\ Cardinality(T \X (1..b)) = Cardinality(T) * b
    BY <1>0, <1>10, FS_Product
  <1> QED
    BY <1>9, <1>11, FS_Injection

(***************************************************************************)
(* What a vote is worth.                                                   *)
(***************************************************************************)
\* Node n keeps the permit of c until t, whatever is under way.
Backed(c, n, t) ==
  /\ Clean(conn[c][n])
  /\ now < t => score[n][c] >= t /\ keyExpiry[n] >= t
BackedNext(c, n, t) ==
  /\ Clean(conn'[c][n])
  /\ now' < t => score'[n][c] >= t /\ keyExpiry'[n] >= t

\* A place lasts: time only runs out, and the TTL of the set never falls below the ttl of
\* any of its permits when all ask for the same.
LEMMA BackedKept ==
  ASSUME TypeOK, [Next]_vars, OneTtl, NEW c \in Client, NEW n \in Node, NEW t \in Int,
         t <= now + Ttl[c], Backed(c, n, t), pc'[c] \in {"acquiring", "held"}
  PROVE  BackedNext(c, n, t)
  <1>0. /\ now \in Nat /\ score[n][c] \in Nat /\ keyExpiry[n] \in Nat /\ Ttl[c] \in Nat \ {0}
        /\ \A d \in Client : SetLife(d) = 2 * Ttl[c]
        /\ conn[c][n] \in Seq(Cmd)
    <2>1. now \in Nat /\ score[n] \in Scores /\ keyExpiry[n] \in Nat /\ conn[c][n] \in Seq(Cmd)
      BY TypeParts DEF SetsOK, Scores, ConnOK
    <2> QED
      BY <2>1, TtlType DEF Scores, OneTtl
  <1>1. Clean(conn'[c][n])
    BY CleanStep DEF Backed
  <1>2. now' \in Nat /\ now' >= now
    BY PermitStep
  <1>3. ~RunRelease(c, n)
    <2>1. conn[c][n] # <<>> => Head(conn[c][n]).op \notin Deletes
      BY <1>0, TailQueue DEF Backed, Clean
    <2> QED
      BY <2>1 DEF RunRelease, Head1, Deletes
  <1>4. ASSUME now' < t
        PROVE  score'[n][c] >= t /\ keyExpiry'[n] >= t
    <2>1. score[n][c] >= t /\ keyExpiry[n] >= t
      BY <1>0, <1>2, <1>4 DEF Backed
    <2>2. ~Gone(c, n)
      BY <1>0, <1>2, <1>3, <1>4, <2>1, PermitStep
    <2>3. Stays(c, n) \/ Taken(c, n) \/ Renewed(c, n)
      BY <2>2, PermitStep
    <2>4. CASE Stays(c, n)
      BY <1>0, <2>1, <2>4 DEF Stays
    <2>5. CASE Taken(c, n)
      BY <1>0, <2>1, <2>5 DEF Taken
    <2>6. CASE Renewed(c, n)
      BY <1>0, <2>6 DEF Renewed
    <2> QED
      BY <2>3, <2>4, <2>5, <2>6
  <1> QED
    BY <1>1, <1>4 DEF BackedNext

\* Behind a write that its round waits for, no delete is under way.
LEMMA CleanTail ==
  ASSUME NEW q \in Seq(Cmd), q # <<>>, Ordered(q), Head(q).live, Head(q).op \notin Deletes
  PROVE  Clean(Tail(q))
  <1>1. /\ \A i \in 1..Len(Tail(q)) : i + 1 \in 1..Len(q) /\ Tail(q)[i] = q[i + 1]
        /\ 1 \in 1..Len(q) /\ Head(q) = q[1] /\ Len(Tail(q)) \in Nat /\ Len(q) \in Nat
    BY TailQueue
  <1>2. \A j \in 1..Len(q) : 1 < j => q[j].op \notin Deletes
    BY <1>1 DEF Ordered
  <1> QED
    BY <1>1, <1>2 DEF Clean

\* A new vote is backed for a whole ttl.
LEMMA FreshVote ==
  ASSUME TypeOK, NEW c \in Client, Commands(c), NEW n \in Node, Renewable(c, n),
         \/ RunAcquire(c, n) /\ AcquireGranted(c, n) /\ pc[c] = "acquiring"
         \/ RunExtend(c, n) /\ ExtendGranted(c, n) /\ pc[c] = "held",
         Head(conn[c][n]).live, NEW t \in Int, t <= now + Ttl[c]
  PROVE  BackedNext(c, n, t)
  <1> DEFINE q == conn[c][n]
  <1>0. /\ now \in Nat /\ score[n][c] \in Nat /\ keyExpiry[n] \in Nat /\ Ttl[c] \in Nat \ {0}
        /\ SetLife(c) = 2 * Ttl[c] /\ q \in Seq(Cmd) /\ ScriptStep(c, n)
    BY TypeParts, TtlType DEF SetsOK, Scores, ConnOK, ScriptStep
  <1>1. q # <<>> /\ conn'[c][n] = Tail(q) /\ Head(q).op \notin Deletes
    BY <1>0, ScriptShape DEF RunAcquire, RunExtend, Head1, Deletes
  <1>2. Clean(conn'[c][n])
    BY <1>0, <1>1, CleanTail DEF Commands
  <1>3. score'[n][c] = now + Ttl[c] /\ score'[n][c] # 0
    BY <1>0, ScriptScores
  <1>4. keyExpiry'[n] \in Nat /\ keyExpiry'[n] >= now + Ttl[c]
    <2>1. CASE RunExtend(c, n)
      BY <1>0, <1>3, <2>1, ScriptLife
    <2>2. CASE RunAcquire(c, n)
      <3>1. \/ keyExpiry'[n] = now + 2 * Ttl[c]
            \/ keyExpiry'[n] = keyExpiry[n] /\ score[n][c] > now
        BY <1>0, <1>3, <2>2, ScriptLife
      <3>2. Head(q).op = "acquire"
        BY <2>2 DEF RunAcquire, Head1
      <3>3. ~AtMost(q, 0)
        BY <1>0, <1>1, <3>2, AtMostTail
      <3>4. score[n][c] # 0 => ~(keyExpiry[n] < score[n][c] + Ttl[c])
        BY <3>3 DEF Renewable
      <3> QED
        BY <1>0, <3>1, <3>4
    <2> QED
      BY <2>1, <2>2
  <1> QED
    BY <1>0, <1>2, <1>3, <1>4 DEF BackedNext

\* Where votes for an attempt come from.
LEMMA AttemptVote ==
  ASSUME TypeOK, [Next]_vars, NEW c \in Client, Commands(c), NEW n \in Node,
         pc'[c] = "acquiring", vote'[c][n] = "for"
  PROVE  \/ pc[c] = "acquiring" /\ vote[c][n] = "for" /\ began'[c] = began[c]
         \/ /\ RunAcquire(c, n) /\ AcquireGranted(c, n) /\ Head(conn[c][n]).live
            /\ pc[c] = "acquiring" /\ began'[c] = began[c]
  <1>0. /\ pc \in [Client -> PC] /\ vote \in [Client -> [Node -> Vote]]
        /\ began \in [Client -> Nat] /\ vote[c] \in [Node -> Vote] /\ conn[c][n] \in Seq(Cmd)
    BY TypeParts DEF VoteOK, ConnOK
  <1>1. CASE Same(c)
    BY <1>1 DEF Same
  <1>2. CASE CallStep(c)
    <2>1. ~StartAttempt(c)
      BY <1>0 DEF StartAttempt, OpenRound, Opening
    <2>2. ~(AcquireSucceeds(c) \/ AcquireRefused(c) \/ AcquireFails(c) \/ CleanupDone(c))
      BY <1>0 DEF AcquireSucceeds, AcquireRefused, AcquireFails, CleanupDone, CloseRound
    <2>3. ~(StartRelease(c) \/ EndRelease(c))
      BY <1>0 DEF StartRelease, EndRelease, CloseRound
    <2>4. ~(StartExtend(c) \/ ExtendSucceeds(c) \/ ExtendFails(c))
      BY <1>0 DEF StartExtend, Extensible, ExtendSucceeds, ExtendFails, EndExtend, Commands, Unheld
    <2> QED
      BY <1>2, <2>1, <2>2, <2>3, <2>4 DEF CallStep
  <1>3. ASSUME NEW m \in Node, ScriptStep(c, m)
        PROVE  \/ pc[c] = "acquiring" /\ vote[c][n] = "for" /\ began'[c] = began[c]
               \/ /\ RunAcquire(c, n) /\ AcquireGranted(c, n) /\ Head(conn[c][n]).live
                  /\ pc[c] = "acquiring" /\ began'[c] = began[c]
    <2>1. /\ pc[c] = "acquiring" /\ began'[c] = began[c]
          /\ m # n => vote'[c][n] = vote[c][n]
          /\ conn[c][m] # <<>>
      BY <1>3, ScriptShape
    <2>2. CASE m = n /\ RunAcquire(c, n)
      <3>1. CASE Head(conn[c][n]).live
        BY <1>0, <2>1, <2>2, <3>1 DEF RunAcquire, Answer
      <3>2. CASE ~Head(conn[c][n]).live
        BY <1>0, <2>1, <2>2, <3>2 DEF RunAcquire, Answer
      <3> QED
        BY <3>1, <3>2
    <2>3. CASE m = n /\ RunExtend(c, n)
      BY <2>1, <2>3 DEF RunExtend
    <2>4. CASE m = n /\ RunRelease(c, n)
      <3>1. Legal(pc[c], ext[c].on, vote[c][n], Head(conn[c][n]))
        BY <1>0, <2>1, <2>4, TailLawful DEF Commands
      <3>2. ~Head(conn[c][n]).live
        BY <2>1, <2>4, <3>1 DEF RunRelease, Head1, Legal
      <3> QED
        BY <2>1, <2>4, <3>2 DEF RunRelease, Answer
    <2> QED
      BY <1>3, <2>1, <2>2, <2>3, <2>4 DEF ScriptStep
  <1>4. ASSUME NEW m \in Node, NoScript(c, m) \/ TimeoutStep(c, m)
        PROVE  pc[c] = "acquiring" /\ vote[c][n] = "for" /\ began'[c] = began[c]
    BY <1>0, <1>4 DEF NoScript, TimeoutStep, Timeout, ExtendTimeout
  <1>5. CASE GetStatus \/ Tick \/ UNCHANGED vars
    BY <1>1, <1>5, Elsewhere
  <1>6. ASSUME NEW d \in Client \ {c},
               CallStep(d) \/ \E m \in Node : NodeStep(d, m)
        PROVE  Same(c)
    BY <1>6, Locality
  <1> QED
    BY <1>1, <1>2, <1>3, <1>4, <1>5, <1>6, StepCases DEF NodeStep

\* Where votes for an extension come from.
LEMMA ExtensionVote ==
  ASSUME TypeOK, [Next]_vars, NEW c \in Client, Commands(c), NEW n \in Node,
         pc'[c] = "held", ext'[c].on, ext'[c].vote[n] = "for"
  PROVE  /\ pc[c] = "held" /\ ext[c].on /\ ext'[c].began = ext[c].began
         /\ \/ ext[c].vote[n] = "for"
            \/ RunExtend(c, n) /\ ExtendGranted(c, n) /\ Head(conn[c][n]).live
  <1> DEFINE Goal == /\ pc[c] = "held" /\ ext[c].on /\ ext'[c].began = ext[c].began
                     /\ \/ ext[c].vote[n] = "for"
                        \/ RunExtend(c, n) /\ ExtendGranted(c, n) /\ Head(conn[c][n]).live
  <1>0. /\ pc \in [Client -> PC] /\ ext \in [Client -> ExtendCall] /\ ext[c] \in ExtendCall
        /\ ext[c].vote \in [Node -> Vote]
    BY TypeParts DEF ExtOK, ExtendCall
  <1>1. CASE Same(c)
    BY <1>1 DEF Same
  <1>2. CASE CallStep(c)
    <2>1. ~StartExtend(c)
      BY <1>0 DEF StartExtend, Opening
    <2>2. ~(ExtendSucceeds(c) \/ ExtendFails(c))
      BY <1>0 DEF ExtendSucceeds, ExtendFails, EndExtend, NoExtend
    <2>3. ~AcquireSucceeds(c)
      BY <1>0 DEF AcquireSucceeds, Commands, Unheld
    <2>4. ~(StartAttempt(c) \/ AcquireRefused(c) \/ AcquireFails(c) \/ CleanupDone(c)
            \/ StartRelease(c) \/ EndRelease(c))
      BY <1>0 DEF StartAttempt, AcquireRefused, AcquireFails, CleanupDone, CloseRound, StartRelease,
           EndRelease
    <2> QED
      BY <1>2, <2>1, <2>2, <2>3, <2>4 DEF CallStep
  <1>3. ASSUME NEW m \in Node, ScriptStep(c, m)
        PROVE  Goal
    <2>1. /\ pc[c] = "held" /\ ext[c].on /\ ext'[c].began = ext[c].began
          /\ m # n => ext'[c].vote[n] = ext[c].vote[n]
      BY <1>3, ScriptShape
    <2>2. CASE m = n /\ RunExtend(c, n)
      <3>1. CASE Head(conn[c][n]).live
        BY <1>0, <2>1, <2>2, <3>1 DEF RunExtend, ExtendCall
      <3>2. CASE ~Head(conn[c][n]).live
        BY <1>0, <2>1, <2>2, <3>2 DEF RunExtend
      <3> QED
        BY <3>1, <3>2
    <2>3. CASE m = n /\ (RunAcquire(c, n) \/ RunRelease(c, n))
      BY <2>1, <2>3 DEF RunAcquire, RunRelease
    <2> QED
      BY <1>3, <2>1, <2>2, <2>3 DEF ScriptStep
  <1>4. ASSUME NEW m \in Node, NoScript(c, m) \/ TimeoutStep(c, m)
        PROVE  Goal
    BY <1>0, <1>4 DEF NoScript, TimeoutStep, Timeout, ExtendTimeout, ExtendCall
  <1>5. CASE GetStatus \/ Tick \/ UNCHANGED vars
    BY <1>1, <1>5, Elsewhere
  <1>6. ASSUME NEW d \in Client \ {c},
               CallStep(d) \/ \E m \in Node : NodeStep(d, m)
        PROVE  Same(c)
    BY <1>6, Locality
  <1> QED
    BY <1>1, <1>2, <1>3, <1>4, <1>5, <1>6, StepCases DEF NodeStep

(***************************************************************************)
(* How many permits are valid.                                             *)
(***************************************************************************)
IsQuorum(Q) == Q \subseteq Node /\ 2 * Cardinality(Q) > Cardinality(Node)

\* Rounds began in the past.
Timely(c) == began[c] <= now /\ ext[c].began <= now

\* The votes of the round under way are backed for a ttl from its beginning.
VotesBacked(c) ==
  \A n \in Node :
    /\ pc[c] = "acquiring" /\ vote[c][n] = "for" => Backed(c, n, began[c] + Ttl[c])
    /\ pc[c] = "held" /\ ext[c].on /\ ext[c].vote[n] = "for"
         => Backed(c, n, ext[c].began + Ttl[c])

\* A held permit is backed by a quorum.
PermitBacked(c) ==
  pc[c] = "held" => \E Q : IsQuorum(Q) /\ \A n \in Q : Backed(c, n, began[c] + Ttl[c])

\* More than half of the nodes voted for.
LEMMA QuorumOfVotes ==
  ASSUME NEW v, Quorum(v)
  PROVE  IsQuorum(With(v, "for"))
  <1>1. Cardinality(Node) \in Nat
    BY NodeAssumption, FS_CardinalityType
  <1>2. With(v, "for") \subseteq Node /\ Cardinality(With(v, "for")) \in Nat
    BY NodeAssumption, FS_Subset, FS_CardinalityType DEF With
  <1> QED
    BY <1>1, <1>2 DEF Quorum, QuorumSize, IsQuorum

\* Which steps set when a round began.
LEMMA TimelyStep ==
  ASSUME TypeOK, [Next]_vars, NEW c \in Client, Timely(c)
  PROVE  Timely(c)' /\ now' \in Nat /\ now' >= now
  <1>0. /\ now \in Nat /\ began \in [Client -> Nat] /\ ext \in [Client -> ExtendCall]
        /\ began[c] \in Nat /\ ext[c].began \in Nat
    BY TypeParts DEF ExtOK, ExtendCall
  <1>1. now' \in Nat /\ now' >= now
    BY PermitStep, NodeAssumption
  <1>2. CASE Same(c)
    BY <1>0, <1>1, <1>2 DEF Same, Timely
  <1>3. CASE CallStep(c)
    <2>1. CASE StartAttempt(c)
      BY <1>0, <2>1 DEF StartAttempt, Timely
    <2>2. CASE StartExtend(c)
      BY <1>0, <2>2 DEF StartExtend, Timely
    <2>3. CASE ExtendSucceeds(c) \/ ExtendFails(c)
      BY <1>0, <2>3 DEF ExtendSucceeds, ExtendFails, EndExtend, NoExtend, Timely
    <2>4. CASE \/ AcquireSucceeds(c) \/ AcquireRefused(c) \/ AcquireFails(c) \/ CleanupDone(c)
               \/ StartRelease(c) \/ EndRelease(c)
      BY <1>0, <2>4 DEF AcquireSucceeds, AcquireRefused, AcquireFails, CleanupDone, StartRelease,
           EndRelease, Timely
    <2> QED
      BY <1>3, <2>1, <2>2, <2>3, <2>4 DEF CallStep
  <1>4. CASE \E m \in Node : NodeStep(c, m)
    <2>1. began' = began /\ ext'[c].began = ext[c].began
      BY <1>0, <1>4 DEF NodeStep, NoScript, ScriptStep, RunAcquire, RunExtend, RunRelease,
           TimeoutStep, Timeout, ExtendTimeout, ExtendCall
    <2> QED
      BY <1>0, <1>1, <2>1 DEF Timely
  <1>5. CASE GetStatus \/ Tick \/ UNCHANGED vars
    BY <1>2, <1>5, Elsewhere
  <1>6. ASSUME NEW d \in Client \ {c},
               CallStep(d) \/ \E m \in Node : NodeStep(d, m)
        PROVE  Same(c)
    BY <1>6, Locality
  <1> QED
    BY <1>1, <1>2, <1>3, <1>4, <1>5, <1>6, StepCases

\* Votes stay backed until the round is over.
LEMMA VotesBackedStep ==
  ASSUME TypeOK, [Next]_vars, OneTtl, NEW c \in Client, Commands(c), Renewals(c), Timely(c),
         VotesBacked(c)
  PROVE  VotesBacked(c)'
  <1>0. /\ now \in Nat /\ began[c] \in Nat /\ ext[c].began \in Nat /\ Ttl[c] \in Nat
    BY TypeParts, TtlType DEF ExtOK, ExtendCall
  <1>1. ASSUME NEW n \in Node, pc'[c] = "acquiring", vote'[c][n] = "for"
        PROVE  BackedNext(c, n, began'[c] + Ttl[c])
    <2>1. PICK t \in Int : t = began[c] + Ttl[c]
      BY <1>0
    <2>2. t <= now + Ttl[c]
      BY <1>0, <2>1 DEF Timely
    <2>3. CASE pc[c] = "acquiring" /\ vote[c][n] = "for" /\ began'[c] = began[c]
      <3>1. Backed(c, n, t)
        BY <2>1, <2>3 DEF VotesBacked
      <3>2. BackedNext(c, n, t)
        BY <1>1, <2>2, <3>1, BackedKept
      <3> QED
        BY <2>1, <2>3, <3>2
    <2>4. CASE /\ RunAcquire(c, n) /\ AcquireGranted(c, n) /\ Head(conn[c][n]).live
               /\ pc[c] = "acquiring" /\ began'[c] = began[c]
      <3>1. BackedNext(c, n, t)
        BY <2>2, <2>4, FreshVote DEF Renewals
      <3> QED
        BY <2>1, <2>4, <3>1
    <2> QED
      BY <1>1, <2>3, <2>4, AttemptVote
  <1>2. ASSUME NEW n \in Node, pc'[c] = "held", ext'[c].on, ext'[c].vote[n] = "for"
        PROVE  BackedNext(c, n, ext'[c].began + Ttl[c])
    <2>1. PICK t \in Int : t = ext[c].began + Ttl[c]
      BY <1>0
    <2>2. t <= now + Ttl[c]
      BY <1>0, <2>1 DEF Timely
    <2>3. /\ pc[c] = "held" /\ ext[c].on /\ ext'[c].began = ext[c].began
          /\ \/ ext[c].vote[n] = "for"
             \/ RunExtend(c, n) /\ ExtendGranted(c, n) /\ Head(conn[c][n]).live
      BY <1>2, ExtensionVote
    <2>4. CASE ext[c].vote[n] = "for"
      <3>1. Backed(c, n, t)
        BY <2>1, <2>3, <2>4 DEF VotesBacked
      <3>2. BackedNext(c, n, t)
        BY <1>2, <2>2, <3>1, BackedKept
      <3> QED
        BY <2>1, <2>3, <3>2
    <2>5. CASE RunExtend(c, n) /\ ExtendGranted(c, n) /\ Head(conn[c][n]).live
      <3>1. BackedNext(c, n, t)
        BY <2>2, <2>3, <2>5, FreshVote DEF Renewals
      <3> QED
        BY <2>1, <2>3, <3>1
    <2> QED
      BY <2>3, <2>4, <2>5
  <1> QED
    BY <1>1, <1>2 DEF VotesBacked, Backed, BackedNext

\* Where a permit, or its new expiration, comes from.
LEMMA PermitOrigin ==
  ASSUME TypeOK, [Next]_vars, NEW c \in Client, pc'[c] = "held"
  PROVE  \/ pc[c] = "held" /\ began'[c] = began[c]
         \/ AcquireSucceeds(c) /\ began'[c] = began[c]
         \/ ExtendSucceeds(c) /\ pc[c] = "held" /\ began'[c] = ext[c].began
  <1>0. pc \in [Client -> PC] /\ began \in [Client -> Nat]
    BY TypeParts
  <1>1. CASE Same(c)
    BY <1>1 DEF Same
  <1>2. CASE CallStep(c)
    <2>1. ~(StartAttempt(c) \/ AcquireRefused(c) \/ AcquireFails(c) \/ CleanupDone(c)
            \/ StartRelease(c) \/ EndRelease(c))
      BY <1>0 DEF StartAttempt, AcquireRefused, AcquireFails, CleanupDone, CloseRound, StartRelease,
           EndRelease
    <2>2. CASE StartExtend(c) \/ ExtendFails(c)
      BY <2>2 DEF StartExtend, ExtendFails, EndExtend
    <2>3. CASE ExtendSucceeds(c)
      BY <1>0, <2>3 DEF ExtendSucceeds, EndExtend
    <2>4. CASE AcquireSucceeds(c)
      BY <2>4 DEF AcquireSucceeds
    <2> QED
      BY <1>2, <2>1, <2>2, <2>3, <2>4 DEF CallStep
  <1>3. CASE \E m \in Node : NodeStep(c, m)
    BY <1>3 DEF NodeStep, NoScript, ScriptStep, RunAcquire, RunExtend, RunRelease, TimeoutStep,
         Timeout, ExtendTimeout
  <1>4. CASE GetStatus \/ Tick \/ UNCHANGED vars
    BY <1>1, <1>4, Elsewhere
  <1>5. ASSUME NEW d \in Client \ {c},
               CallStep(d) \/ \E m \in Node : NodeStep(d, m)
        PROVE  Same(c)
    BY <1>5, Locality
  <1> QED
    BY <1>1, <1>2, <1>3, <1>4, <1>5, StepCases

\* So does the permit that they grant, until it is released.
LEMMA PermitBackedStep ==
  ASSUME TypeOK, [Next]_vars, OneTtl, NEW c \in Client, Timely(c), VotesBacked(c),
         PermitBacked(c)
  PROVE  PermitBacked(c)'
  <1>0. /\ now \in Nat /\ began[c] \in Nat /\ ext[c].began \in Nat /\ Ttl[c] \in Nat
    BY TypeParts, TtlType DEF ExtOK, ExtendCall
  <1>1. ASSUME pc'[c] = "held"
        PROVE  \E Q : IsQuorum(Q) /\ \A n \in Q : BackedNext(c, n, began'[c] + Ttl[c])
    <2>1. PICK t \in Int : t = began'[c] + Ttl[c] /\ t <= now + Ttl[c]
      <3>1. began'[c] \in {began[c], ext[c].began}
        BY <1>1, PermitOrigin
      <3> QED
        BY <1>0, <3>1 DEF Timely
    <2>2. ASSUME NEW Q, IsQuorum(Q), \A n \in Q : Backed(c, n, t)
          PROVE  \E R : IsQuorum(R) /\ \A n \in R : BackedNext(c, n, began'[c] + Ttl[c])
      <3>1. \A n \in Q : BackedNext(c, n, t)
        BY <1>1, <2>1, <2>2, BackedKept DEF IsQuorum
      <3> QED
        BY <2>1, <2>2, <3>1
    <2>3. CASE pc[c] = "held" /\ began'[c] = began[c]
      BY <2>1, <2>2, <2>3 DEF PermitBacked
    <2>4. CASE AcquireSucceeds(c) /\ began'[c] = began[c]
      <3>1. pc[c] = "acquiring" /\ IsQuorum(With(vote[c], "for"))
        BY <2>4, QuorumOfVotes DEF AcquireSucceeds
      <3>2. \A n \in With(vote[c], "for") : Backed(c, n, t)
        BY <2>1, <2>4, <3>1 DEF With, VotesBacked
      <3> QED
        BY <2>2, <3>1, <3>2
    <2>5. CASE ExtendSucceeds(c) /\ pc[c] = "held" /\ began'[c] = ext[c].began
      <3>1. ext[c].on /\ IsQuorum(With(ext[c].vote, "for"))
        BY <2>5, QuorumOfVotes DEF ExtendSucceeds
      <3>2. \A n \in With(ext[c].vote, "for") : Backed(c, n, t)
        BY <2>1, <2>5, <3>1 DEF With, VotesBacked
      <3> QED
        BY <2>2, <3>1, <3>2
    <2> QED
      BY <1>1, <2>3, <2>4, <2>5, PermitOrigin
  <1> QED
    BY <1>1 DEF PermitBacked, Backed, BackedNext

PermitInv ==
  /\ TypeOK
  /\ \A c \in Client :
       /\ Plain(c) /\ Commands(c) /\ Renewals(c) /\ Timely(c)
       /\ VotesBacked(c) /\ PermitBacked(c)

\* Each covered permit has its place in the sets of a quorum of nodes.
LEMMA CoveredPlaces ==
  ASSUME PermitInv
  PROVE  PermitsBounded
  <1> DEFINE S == {c \in Client : Covered(c)}
             M == [n \in Node |-> Members(score[n])]
  <1>0. /\ now \in Nat /\ began \in [Client -> Nat]
        /\ \A n \in Node, c \in Client : score[n][c] \in Nat
        /\ \A n \in Node : Cardinality(M[n]) <= MaxPermits
    <2>1. TypeOK
      BY DEF PermitInv
    <2> QED
      BY <2>1 DEF TypeOK
  <1>1. /\ QuorumSize \in Nat /\ Cardinality(Node) \in Nat /\ MaxPermits \in Nat
        /\ \A Q : IsQuorum(Q) => IsFiniteSet(Q) /\ Cardinality(Q) >= QuorumSize
    <2>1. Cardinality(Node) \in Nat
      BY NodeAssumption, FS_CardinalityType
    <2>2. \A Q \in SUBSET Node : IsFiniteSet(Q) /\ Cardinality(Q) \in Nat
      BY NodeAssumption, FS_Subset, FS_CardinalityType
    <2> QED
      BY <2>1, <2>2, PermitAssumption DEF IsQuorum, QuorumSize
  <1>2. ASSUME NEW c \in S
        PROVE  Cardinality({n \in Node : c \in M[n]}) >= QuorumSize
    <2>1. PICK Q : IsQuorum(Q) /\ \A n \in Q : Backed(c, n, began[c] + Ttl[c])
      BY <1>2 DEF PermitInv, PermitBacked, Covered, Valid
    <2>2. \A n \in Q : c \in M[n]
      <3>1. now < began[c] + Ttl[c] /\ began[c] + Ttl[c] \in Nat
        BY <1>0, <1>2, TtlType DEF Covered
      <3>2. \A n \in Q : n \in Node /\ score[n][c] >= began[c] + Ttl[c]
        BY <2>1, <3>1 DEF Backed, IsQuorum
      <3> QED
        BY <1>0, <1>2, <3>1, <3>2 DEF Members
    <2>3. Q \in SUBSET {n \in Node : c \in M[n]}
      BY <2>1, <2>2 DEF IsQuorum
    <2> HIDE DEF M
    <2>4. /\ IsFiniteSet({n \in Node : c \in M[n]})
          /\ Cardinality({n \in Node : c \in M[n]}) \in Nat
      BY NodeAssumption, FS_Subset, FS_CardinalityType
    <2>5. Cardinality(Q) \in Nat /\ Cardinality(Q) <= Cardinality({n \in Node : c \in M[n]})
      BY <1>1, <2>1, <2>3, <2>4, FS_Subset, FS_CardinalityType
    <2> QED
      BY <1>1, <2>1, <2>4, <2>5
  <1>3. M \in [Node -> SUBSET Client] /\ S \in SUBSET Client
    BY DEF Members
  <1>4. IsFiniteSet(Client) /\ IsFiniteSet(Node)
    BY PermitAssumption, NodeAssumption
  <1>5. Cardinality(S) * QuorumSize <= Cardinality(Node) * MaxPermits
    <2> HIDE DEF S, M
    <2> QED
      BY <1>0, <1>1, <1>2, <1>3, <1>4, CountPlaces
  <1> QED
    BY <1>5 DEF PermitsBounded

\* The covered permits take up no more places than the nodes have, when all callers ask for
\* the same ttl and retry at most once: each has one on a quorum of nodes, which neither
\* its own round nor the TTL of a set can take away before the ttl is over.
THEOREM PermitsAreBounded ==
  ASSUME OneTtl, FewAttempts
  PROVE  Spec => []PermitsBounded
  <1>1. Init => PermitInv
    <2> SUFFICES ASSUME Init
                 PROVE  PermitInv
      OBVIOUS
    <2>1. TypeOK
      BY InitType
    <2>2. \A c \in Client : /\ Plain(c) /\ Commands(c) /\ Timely(c)
                            /\ VotesBacked(c) /\ PermitBacked(c)
      BY DEF Init, Plain, Commands, Lawful, NoExtend, Timely, VotesBacked, PermitBacked
    <2>3. \A c \in Client : Renewals(c)
      <3>1. \A c \in Client, n \in Node : AtMost(conn[c][n], 0)
        BY DEF Init, AtMost
      <3> QED
        BY <3>1, TtlType DEF Init, Renewals, Renewable, Nobody
    <2> QED
      BY <2>1, <2>2, <2>3 DEF PermitInv
  <1>2. PermitInv /\ [Next]_vars => PermitInv'
    BY TypeStep, PlainStep, CommandsStep, RenewalsStep, TimelyStep, VotesBackedStep, PermitBackedStep
       DEF PermitInv
  <1>3. PermitInv => PermitsBounded
    BY CoveredPlaces
  <1> QED
    BY <1>1, <1>2, <1>3, PTL DEF Spec
=============================================================================
