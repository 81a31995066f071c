---------------------------- MODULE LatchProofs ----------------------------
(***************************************************************************)
(* Proofs about the countdown latch, for every number of nodes, processes, *)
(* creators, workers and waiters, and any timeouts, refusals and failures: *)
(* what opens it, what a countDown() that went through is worth, when the  *)
(* nodes agree, and that who listens is subscribed.                        *)
(***************************************************************************)
EXTENDS Latch, FiniteSetTheorems, SequenceTheorems, TLAPS

(***************************************************************************)
(* Types.                                                                  *)
(***************************************************************************)
\* What the workers that began have to report.
Started == {d \in Worker : pc[d] # "idle"}
Reported == {event[c] : c \in Started}

\* What a node keeps of a latch: how often it was counted down says which events it saw.
Consistent(x) ==
  /\ x.count \in Nat /\ IsFiniteSet(x.events)
  /\ x.count + Cardinality(x.events) = x.target
  /\ \E k \in Creator : x.target = Count[k]

LatchOK ==
  /\ latch \in [Node -> [count : Int, target : Nat, events : SUBSET Reported]]
  /\ \A n \in Node : Exists(n) => Consistent(latch[n])

\* A caller that somebody voted for knows what to return.
CallsOK ==
  /\ pc \in [Call -> PC] /\ vote \in [Call -> [Node -> Vote]]
  /\ first \in [Call -> {"none", "done", "exists"}]
  /\ \A c \in Call : \A n \in Node : vote[c][n] = "for" => first[c] # "none"
  /\ IsFiniteSet(Reported)

\* Only calls that began have sent something.
RestOK ==
  /\ conn \in [Process -> [Node -> Seq(Call)]]
  /\ \A p \in Process, n \in Node : \A i \in 1..Len(conn[p][n]) : pc[conn[p][n][i]] # "idle"
  /\ event \in {s.event : s \in Setup} /\ pubSub \in BOOLEAN
  /\ waiter \in [Waiter -> WaiterPC]
  /\ faults \in Nat /\ skipped \in BOOLEAN

SubOK == PubSubTypeOK(Waiter)

Types == LatchOK /\ CallsOK /\ RestOK /\ SubOK

\* What the assumption on the constants says.
LEMMA Constants ==
  /\ IsFiniteSet(Waiter)
  /\ \A c \in Call : Proc[c] \in Process
  /\ \A k \in Creator : Count[k] \in Nat \ {0}
  /\ \A s \in Setup : s.pubSub \in BOOLEAN /\ s.faults \in Nat
  /\ ReadNode \in Node /\ Creator \subseteq Call /\ Worker \subseteq Call
  /\ Creator \intersect Worker = {}
  BY LatchAssumption DEF Call

\* What a call's votes are at first.
LEMMA VotesType ==
  NoVotes \in [Node -> Vote] /\ \A refused : Opening(refused) \in [Node -> Vote]
  BY DEF NoVotes, Opening, Vote

\* What is proved about the types is what the runs check, and more.
LEMMA TypesImplyTypeOK == Types => TypeOK
  <1> SUFFICES ASSUME Types
               PROVE  TypeOK
    OBVIOUS
  <1>1. Reported \subseteq {event[c] : c \in Worker}
    BY DEF Reported, Started
  <1>2. \A n \in Node : latch[n].events \subseteq Reported
    BY DEF Types, LatchOK
  <1> QED
    BY <1>1, <1>2 DEF Types, LatchOK, CallsOK, RestOK, SubOK, Consistent, TypeOK

\* Nothing has begun.
LEMMA TypesInit == Init => Types
  <1> SUFFICES ASSUME Init
               PROVE  Types
    OBVIOUS
  <1>1. Reported = {}
    BY Constants DEF Init, Reported, Started
  <1>2. LatchOK
    <2>1. Missing \in [count : Int, target : Nat, events : SUBSET Reported]
      BY DEF Missing
    <2>2. \A n \in Node : latch[n] = Missing
      BY DEF Init
    <2>3. latch \in [Node -> [count : Int, target : Nat, events : SUBSET Reported]]
      BY <2>1 DEF Init
    <2> QED
      BY <2>2, <2>3 DEF LatchOK, Exists
  <1>3. CallsOK
    <2>1. /\ pc \in [Call -> PC] /\ first \in [Call -> {"none", "done", "exists"}]
          /\ IsFiniteSet(Reported)
      BY <1>1, FS_EmptySet DEF Init, PC
    <2>2. vote \in [Call -> [Node -> Vote]] /\ \A c \in Call : vote[c] = NoVotes
      BY VotesType DEF Init
    <2>3. \A n \in Node : NoVotes[n] # "for"
      BY DEF NoVotes
    <2> QED
      BY <2>1, <2>2, <2>3 DEF CallsOK
  <1>4. RestOK
    <2>1. PICK s \in Setup : event = s.event /\ pubSub = s.pubSub /\ faults = s.faults
      BY DEF Init
    <2>2. /\ conn \in [Process -> [Node -> Seq(Call)]]
          /\ \A p \in Process, n \in Node : conn[p][n] = <<>>
      BY DEF Init
    <2>3. \A p \in Process, n \in Node : \A i \in 1..Len(conn[p][n]) : pc[conn[p][n][i]] # "idle"
      BY <2>2
    <2>4. waiter \in [Waiter -> WaiterPC] /\ skipped \in BOOLEAN
      BY DEF Init, WaiterPC
    <2> QED
      BY <2>1, <2>2, <2>3, <2>4, Constants DEF RestOK
  <1>5. SubOK
    <2>1. entry \in BOOLEAN /\ subscribed \in BOOLEAN /\ stranded \in BOOLEAN
      BY DEF Init, PubSubInit
    <2> QED
      BY <2>1 DEF Init, PubSubInit, SubOK, PubSubTypeOK
  <1> QED
    BY <1>2, <1>3, <1>4, <1>5 DEF Types

(***************************************************************************)
(* Kinds of steps.                                                         *)
(***************************************************************************)
CallStep(c) == Start(c) \/ CallSucceeds(c) \/ CallFails(c) \/ \E n \in Node : Timeout(c, n)
ScriptStep(p, n) == RunCreate(p, n) \/ RunCountDown(p, n)
WaiterStep ==
  \/ \E w \in Waiter : StartAwait(w) \/ Subscribe(w) \/ Deadline(w) \/ Look(w) \/ LookFails(w)
  \/ Deliver \/ Subscription

\* Waiters only look.
LEMMA WaiterLooks ==
  WaiterStep \/ UNCHANGED vars =>
    UNCHANGED <<latch, conn, pc, vote, first, event, pubSub, skipped>>
  BY DEF WaiterStep, StartAwait, Subscribe, Deadline, Look, LookFails, Deliver, Subscription,
         KeepLatch, latchVars, vars

\* A waiter's step, a call's, or that of a command on its node.
LEMMA StepCases ==
  ASSUME [Next]_vars
  PROVE  \/ WaiterStep \/ UNCHANGED vars
         \/ \E c \in Call : CallStep(c)
         \/ \E p \in Process, n \in Node : ScriptStep(p, n)
  BY DEF Next, WaiterStep, CallStep, ScriptStep

\* Once begun a call is never idle again, so that nothing reported is forgotten.
LEMMA ReportedGrows ==
  ASSUME Types, [Next]_vars
  PROVE  /\ event' = event /\ Reported \subseteq Reported' /\ IsFiniteSet(Reported')
         /\ \A c \in Call : pc[c] # "idle" => pc'[c] # "idle"
         /\ \A c \in Worker : pc[c] # "idle" => event[c] \in Reported
  <1>0. pc \in [Call -> PC] /\ IsFiniteSet(Reported) /\ Worker \subseteq Call
    BY Constants DEF Types, CallsOK
  <1>1. event' = event
    <2>1. CASE \E c \in Call : CallStep(c)
      BY <2>1 DEF CallStep, Start, CallSucceeds, CallFails, Outcome, Timeout
    <2>2. CASE \E p \in Process, n \in Node : ScriptStep(p, n)
      BY <2>2 DEF ScriptStep, RunCreate, RunCountDown
    <2> QED
      BY <2>1, <2>2, StepCases, WaiterLooks
  <1>2. \/ pc' = pc
        \/ \E c \in Call : \E outcome : outcome # "idle" /\ pc' = [pc EXCEPT ![c] = outcome]
    <2>1. ASSUME NEW c \in Call, CallStep(c)
          PROVE  pc' = pc \/ \E outcome : outcome # "idle" /\ pc' = [pc EXCEPT ![c] = outcome]
      <3>1. first[c] # "idle"
        BY DEF Types, CallsOK
      <3> QED
        BY <2>1, <3>1 DEF CallStep, Start, CallSucceeds, CallFails, Outcome, Timeout
    <2>2. CASE \E p \in Process, n \in Node : ScriptStep(p, n)
      BY <2>2 DEF ScriptStep, RunCreate, RunCountDown
    <2> QED
      BY <2>1, <2>2, StepCases, WaiterLooks
  <1>3. \A c \in Call : pc[c] # "idle" => pc'[c] # "idle"
    BY <1>0, <1>2
  <1>4. Reported \subseteq Reported'
    BY <1>0, <1>1, <1>3 DEF Reported, Started
  <1>5. IsFiniteSet(Reported')
    <2>1. CASE pc' = pc
      BY <1>0, <1>1, <2>1 DEF Reported, Started
    <2>2. ASSUME NEW c \in Call, NEW outcome, pc' = [pc EXCEPT ![c] = outcome]
          PROVE  IsFiniteSet(Reported')
      <3>1. Reported' \subseteq Reported \union {event[c]}
        BY <1>0, <1>1, <2>2 DEF Reported, Started
      <3>2. IsFiniteSet(Reported \union {event[c]})
        BY <1>0, FS_AddElement
      <3> QED
        BY <3>1, <3>2, FS_Subset
    <2> QED
      BY <1>2, <2>1, <2>2
  <1> QED
    BY <1>0, <1>1, <1>3, <1>4, <1>5 DEF Reported, Started


(***************************************************************************)
(* What a command does to its node.                                        *)
(***************************************************************************)
\* The command is executed, and its caller has begun.
LEMMA HeadCommand ==
  ASSUME Types, NEW p \in Process, NEW n \in Node, conn[p][n] # <<>>
  PROVE  /\ Head(conn[p][n]) \in Call /\ pc[Head(conn[p][n])] # "idle"
         /\ conn[p][n] \in Seq(Call) /\ Tail(conn[p][n]) \in Seq(Call)
         /\ Len(Tail(conn[p][n])) = Len(conn[p][n]) - 1 /\ Len(conn[p][n]) \in Nat
         /\ Head(conn[p][n]) = conn[p][n][1] /\ 1 \in 1..Len(conn[p][n])
         /\ \A i \in 1..Len(Tail(conn[p][n])) :
              i + 1 \in 1..Len(conn[p][n]) /\ Tail(conn[p][n])[i] = conn[p][n][i + 1]
  <1> DEFINE q == conn[p][n]
  <1>1. q \in Seq(Call) /\ q # <<>> /\ \A i \in 1..Len(q) : pc[q[i]] # "idle"
    BY DEF Types, RestOK
  <1> HIDE DEF q
  <1>2. /\ Len(q) \in Nat /\ Len(q) > 0 /\ Len(Tail(q)) = Len(q) - 1
        /\ Tail(q) \in Seq(Call) /\ Head(q) = q[1]
        /\ \A i \in 1..Len(Tail(q)) : Tail(q)[i] = q[i + 1]
    BY <1>1, HeadTailProperties, EmptySeq, LenProperties
  <1>3. 1 \in 1..Len(q) /\ q[1] \in Call
    BY <1>1, <1>2, ElementOfSeq
  <1>4. \A i \in 1..Len(Tail(q)) : i + 1 \in 1..Len(q) /\ Tail(q)[i] = q[i + 1]
    BY <1>2
  <1> QED
    BY <1>1, <1>2, <1>3, <1>4 DEF q

\* A latch appears with the count of some create(), and is only counted down until it is
\* complete.
Progress(n) ==
  \/ latch'[n] = latch[n]
  \/ ~Exists(n) /\ Exists(n)'
  \/ /\ Exists(n) /\ ~Completed(n) /\ Exists(n)'
     /\ latch[n].events \subseteq latch'[n].events

\* Only the two scripts change a node's latch.
LEMMA LatchStep ==
  ASSUME Types, [Next]_vars
  PROVE  LatchOK' /\ \A n \in Node : Progress(n)
  <1> DEFINE Entry == [count : Int, target : Nat, events : SUBSET Reported']
  <1>0. /\ latch \in [Node -> [count : Int, target : Nat, events : SUBSET Reported]]
        /\ latch \in [Node -> Entry] /\ Missing.count = -1 /\ event' = event
        /\ \A n \in Node : Exists(n) => Consistent(latch[n])
        /\ Reported \subseteq Reported'
    <2>1. Reported \subseteq Reported' /\ event' = event
      BY ReportedGrows
    <2>2. latch \in [Node -> [count : Int, target : Nat, events : SUBSET Reported]]
      BY DEF Types, LatchOK
    <2>3. latch \in [Node -> Entry]
      BY <2>1, <2>2
    <2> QED
      BY <2>1, <2>2, <2>3 DEF Types, LatchOK, Missing
  <1>1. ASSUME latch' = latch
        PROVE  LatchOK' /\ \A n \in Node : Progress(n)
    BY <1>0, <1>1 DEF LatchOK, Exists, Progress
  <1>2. ASSUME NEW n \in Node, NEW x \in Entry, latch' = [latch EXCEPT ![n] = x], Consistent(x),
               \/ ~Exists(n)
               \/ Exists(n) /\ ~Completed(n) /\ latch[n].events \subseteq x.events
        PROVE  LatchOK' /\ \A m \in Node : Progress(m)
    <2>1. latch' \in [Node -> Entry] /\ \A m \in Node \ {n} : latch'[m] = latch[m]
      BY <1>0, <1>2
    <2>2. latch'[n] = x /\ x # Missing
      BY <1>0, <1>2 DEF Consistent
    <2>3. LatchOK'
      BY <1>0, <1>2, <2>1, <2>2 DEF LatchOK, Exists
    <2> QED
      BY <1>2, <2>1, <2>2, <2>3 DEF Progress, Exists
  <1>3. ASSUME NEW p \in Process, NEW n \in Node, RunCreate(p, n)
        PROVE  LatchOK' /\ \A m \in Node : Progress(m)
    <2>1. CASE Exists(n)
      BY <1>1, <1>3, <2>1 DEF RunCreate
    <2>2. CASE ~Exists(n)
      <3>1. PICK k \in Creator :
              latch' = [latch EXCEPT ![n] = [count |-> Count[k], target |-> Count[k], events |-> {}]]
        BY <1>3, <2>2 DEF RunCreate
      <3> DEFINE x == [count |-> Count[k], target |-> Count[k], events |-> {}]
      <3>2. x \in Entry /\ Consistent(x)
        BY Constants, FS_EmptySet DEF Consistent
      <3> QED
        BY <1>2, <2>2, <3>1, <3>2
    <2> QED
      BY <2>1, <2>2
  <1>4. ASSUME NEW p \in Process, NEW n \in Node, RunCountDown(p, n)
        PROVE  LatchOK' /\ \A m \in Node : Progress(m)
    <2> DEFINE c == Head(conn[p][n])
    <2>0. c \in Worker /\ pc[c] # "idle"
      BY <1>4, HeadCommand DEF RunCountDown
    <2>1. CASE CountDownStatus(c, n) \notin {"counted", "completed"}
      BY <1>1, <1>4, <2>1 DEF RunCountDown
    <2>2. CASE CountDownStatus(c, n) \in {"counted", "completed"}
      <3> DEFINE E == latch[n].events \union {event[c]}
                 x == [count |-> latch[n].count - 1, target |-> latch[n].target, events |-> E]
      <3>1. Exists(n) /\ ~Completed(n) /\ event[c] \notin latch[n].events
        BY <2>2 DEF CountDownStatus, Seen
      <3>2. latch' = [latch EXCEPT ![n] = x]
        <4>1. latch' = [latch EXCEPT ![n].count = @ - 1, ![n].events = @ \union {event[c]}]
          BY <1>4, <2>2 DEF RunCountDown
        <4>2. latch[n] \in [count : Int, target : Nat, events : SUBSET Reported]
          BY <1>0
        <4>3. latch'[n] = x
          BY <1>0, <4>1, <4>2
        <4> QED
          BY <1>0, <4>1, <4>3
      <3>3. Consistent(latch[n]) /\ latch[n].count # 0
        BY <1>0, <3>1 DEF Completed
      <3>4. event[c] \in Reported'
        BY <2>0, ReportedGrows
      <3>5. x \in Entry
        BY <1>0, <3>4
      <3>6. /\ IsFiniteSet(E) /\ Cardinality(E) = Cardinality(latch[n].events) + 1
            /\ Cardinality(latch[n].events) \in Nat
        BY <3>1, <3>3, FS_AddElement, FS_CardinalityType DEF Consistent
      <3>7. Consistent(x)
        BY <3>3, <3>6 DEF Consistent
      <3>8. latch[n].events \subseteq x.events
        OBVIOUS
      <3> HIDE DEF x
      <3> QED
        BY <1>2, <3>1, <3>2, <3>5, <3>7, <3>8
    <2> QED
      BY <2>1, <2>2
  <1>5. CASE WaiterStep \/ UNCHANGED vars
    BY <1>1, <1>5, WaiterLooks
  <1>6. CASE \E c \in Call : CallStep(c)
    <2>1. latch' = latch
      BY <1>6 DEF CallStep, Start, CallSucceeds, CallFails, Outcome, Timeout
    <2> QED
      BY <1>1, <2>1
  <1> QED
    BY <1>3, <1>4, <1>5, <1>6, StepCases DEF ScriptStep

\* What a node counted stays counted.
LEMMA NodesRemember ==
  ASSUME Types, [Next]_vars, NEW n \in Node
  PROVE  /\ Exists(n) => Exists(n)'
         /\ Completed(n) => Completed(n)'
         /\ \A c \in Worker : Exists(n) /\ Seen(c, n) => Seen(c, n)'
  BY LatchStep, ReportedGrows DEF Progress, Exists, Completed, Seen


(***************************************************************************)
(* Type correctness.                                                       *)
(***************************************************************************)
\* A call that wins a quorum has been told by somebody what to return.
LEMMA CallsStep ==
  ASSUME Types, [Next]_vars
  PROVE  CallsOK'
  <1>0. /\ pc \in [Call -> PC] /\ vote \in [Call -> [Node -> Vote]]
        /\ first \in [Call -> {"none", "done", "exists"}]
        /\ \A c \in Call : \A n \in Node : vote[c][n] = "for" => first[c] # "none"
    BY DEF Types, CallsOK
  <1>1. IsFiniteSet(Reported')
    BY ReportedGrows
  <1>2. CASE UNCHANGED <<pc, vote, first>>
    BY <1>0, <1>1, <1>2 DEF CallsOK
  <1>3. ASSUME NEW c \in Call, NEW outcome \in PC, Outcome(c, outcome)
        PROVE  CallsOK'
    <2>1. NoVotes \in [Node -> Vote] /\ \A n \in Node : NoVotes[n] # "for"
      BY VotesType DEF NoVotes
    <2> QED
      BY <1>0, <1>1, <1>3, <2>1 DEF Outcome, CallsOK
  <1>4. ASSUME NEW c \in Call, Start(c)
        PROVE  CallsOK'
    <2>1. PICK refused \in SUBSET Node : vote' = [vote EXCEPT ![c] = Opening(refused)]
      BY <1>4 DEF Start
    <2>2. Opening(refused) \in [Node -> Vote] /\ \A n \in Node : Opening(refused)[n] # "for"
      BY VotesType DEF Opening
    <2>3. pc' \in [Call -> PC] /\ first' = first
      BY <1>0, <1>4 DEF Start, PC
    <2> QED
      BY <1>0, <1>1, <2>1, <2>2, <2>3 DEF CallsOK
  <1>5. ASSUME NEW c \in Call, CallSucceeds(c)
        PROVE  CallsOK'
    <2>1. PICK n \in Node : vote[c][n] = "for"
      <3>1. Cardinality(With(vote[c], "for")) >= QuorumSize
        BY <1>5 DEF CallSucceeds, Quorum
      <3>2. Cardinality({}) = 0 /\ QuorumSize \in Nat /\ QuorumSize > 0
        BY FS_EmptySet, FS_CardinalityType, NodeAssumption DEF QuorumSize
      <3>3. With(vote[c], "for") # {}
        BY <3>1, <3>2
      <3> QED
        BY <3>3 DEF With
    <2>2. first[c] \in PC
      BY <1>0, <2>1 DEF PC
    <2> QED
      BY <1>3, <1>5, <2>2 DEF CallSucceeds
  <1>6. ASSUME NEW c \in Call, CallFails(c)
        PROVE  CallsOK'
    BY <1>3, <1>6 DEF CallFails, PC
  <1>7. ASSUME NEW c \in Call, NEW n \in Node, Timeout(c, n)
        PROVE  CallsOK'
    BY <1>0, <1>1, <1>7 DEF Timeout, CallsOK, Vote
  <1>8. ASSUME NEW c \in Call, NEW n \in Node, NEW for, NEW effect, Answer(c, n, for, effect), pc' = pc
        PROVE  CallsOK'
    <2>1. CASE UNCHANGED <<vote, first>>
      BY <1>2, <1>8, <2>1
    <2>2. CASE \E v \in {"for", "against"}, x \in {"done", "exists"} :
                 /\ vote' = [vote EXCEPT ![c][n] = v]
                 /\ first' = [first EXCEPT ![c] = x]
      BY <1>0, <1>1, <1>8, <2>2 DEF CallsOK, Vote
    <2>3. CASE \E v \in {"for", "against"} :
                 /\ vote' = [vote EXCEPT ![c][n] = v]
                 /\ first' = first /\ first[c] # "none"
      BY <1>0, <1>1, <1>8, <2>3 DEF CallsOK, Vote
    <2>4. CASE pc[c] = "running" /\ vote[c][n] = "pending"
      <3>1. \E v \in {"for", "against"} : vote' = [vote EXCEPT ![c][n] = v]
        BY <1>8, <2>4 DEF Answer
      <3>2. \/ \E x \in {"done", "exists"} : first' = [first EXCEPT ![c] = x]
            \/ first' = first /\ first[c] # "none"
        BY <1>0, <1>8, <2>4 DEF Answer
      <3> QED
        BY <2>2, <2>3, <3>1, <3>2
    <2> QED
      BY <1>8, <2>1, <2>4 DEF Answer
  <1>9. ASSUME NEW p \in Process, NEW n \in Node, ScriptStep(p, n)
        PROVE  CallsOK'
    <2>1. Head(conn[p][n]) \in Call
      BY <1>9, HeadCommand DEF ScriptStep, RunCreate, RunCountDown
    <2>2. pc' = pc /\ \E for, effect : Answer(Head(conn[p][n]), n, for, effect)
      BY <1>9 DEF ScriptStep, RunCreate, RunCountDown
    <2> QED
      BY <1>8, <2>1, <2>2
  <1>10. CASE WaiterStep \/ UNCHANGED vars
    BY <1>2, <1>10, WaiterLooks
  <1> QED
    BY <1>4, <1>5, <1>6, <1>7, <1>9, <1>10, StepCases DEF CallStep

\* The connections carry calls that have begun.
LEMMA ConnStep ==
  ASSUME Types, [Next]_vars
  PROVE  /\ conn' \in [Process -> [Node -> Seq(Call)]]
         /\ \A p \in Process, n \in Node : \A i \in 1..Len(conn'[p][n]) : pc'[conn'[p][n][i]] # "idle"
  <1> DEFINE Begun(q) == q \in Seq(Call) /\ \A i \in 1..Len(q) : pc'[q[i]] # "idle"
  <1>0. /\ conn \in [Process -> [Node -> Seq(Call)]] /\ pc \in [Call -> PC]
        /\ \A p \in Process, n \in Node : Begun(conn[p][n])
    <2>1. ASSUME NEW p \in Process, NEW n \in Node, NEW i \in 1..Len(conn[p][n])
          PROVE  pc'[conn[p][n][i]] # "idle"
      <3>1. conn[p][n] \in Seq(Call) /\ pc[conn[p][n][i]] # "idle"
        BY DEF Types, RestOK
      <3> QED
        BY <3>1, ReportedGrows, ElementOfSeq
    <2> QED
      BY <2>1 DEF Types, RestOK, CallsOK
  <1>1. CASE conn' = conn
    BY <1>0, <1>1
  <1>2. ASSUME NEW c \in Call, Start(c)
        PROVE  \A p \in Process, n \in Node : Begun(conn'[p][n])
    <2> SUFFICES ASSUME NEW p \in Process, NEW n \in Node
                 PROVE  Begun(conn'[p][n])
      OBVIOUS
    <2>1. PICK refused : conn' = [conn EXCEPT ![Proc[c]] = Send(@, c, refused)]
      BY <1>2 DEF Start
    <2>2. conn'[p][n] = conn[p][n] \/ conn'[p][n] = Append(conn[p][n], c)
      BY <1>0, <2>1, Constants DEF Send
    <2>3. pc'[c] = "running"
      BY <1>0, <1>2 DEF Start
    <2> DEFINE q == conn[p][n]
    <2>4. q \in Seq(Call) /\ Begun(q)
      BY <1>0
    <2> HIDE DEF q
    <2>5. Begun(Append(q, c))
      BY <2>3, <2>4, AppendProperties, LenProperties
    <2> QED
      BY <2>2, <2>4, <2>5 DEF q
  <1>3. ASSUME NEW p \in Process, NEW n \in Node, ScriptStep(p, n)
        PROVE  \A r \in Process, m \in Node : Begun(conn'[r][m])
    <2>1. conn[p][n] # <<>> /\ Pop(p, n)
      BY <1>3 DEF ScriptStep, RunCreate, RunCountDown
    <2>2. Begun(Tail(conn[p][n]))
      BY <1>0, <2>1, HeadCommand
    <2> HIDE DEF Begun
    <2> QED
      BY <1>0, <2>1, <2>2 DEF Pop
  <1>4. ASSUME NEW c \in Call, Start(c)
        PROVE  conn' \in [Process -> [Node -> Seq(Call)]]
    BY <1>0, <1>4, Constants, AppendProperties DEF Start, Send
  <1>5. ASSUME NEW p \in Process, NEW n \in Node, ScriptStep(p, n)
        PROVE  conn' \in [Process -> [Node -> Seq(Call)]]
    <2>1. conn[p][n] # <<>> /\ Pop(p, n)
      BY <1>5 DEF ScriptStep, RunCreate, RunCountDown
    <2> QED
      BY <1>0, <2>1, HeadCommand DEF Pop
  <1>6. ASSUME NEW c \in Call, CallSucceeds(c) \/ CallFails(c) \/ \E n \in Node : Timeout(c, n)
        PROVE  conn' = conn
    BY <1>6 DEF CallSucceeds, CallFails, Outcome, Timeout
  <1>7. CASE WaiterStep \/ UNCHANGED vars
    BY <1>1, <1>7, WaiterLooks
  <1>8. CASE \E c \in Call : CallStep(c)
    BY <1>1, <1>2, <1>4, <1>6, <1>8 DEF CallStep
  <1>9. CASE \E p \in Process, n \in Node : ScriptStep(p, n)
    BY <1>3, <1>5, <1>9
  <1> QED
    BY <1>7, <1>8, <1>9, StepCases


(***************************************************************************)
(* The waiters' subscription.                                              *)
(***************************************************************************)
\* Everything that happens to it.
LEMMA SubCases ==
  ASSUME [Next]_vars
  PROVE  \/ UNCHANGED subVars
         \/ Published /\ UNCHANGED <<entry, listeners, subConn, subscribed, manager, stranded>>
         \/ \E w \in Waiter : Listen(w) \/ ListenInVain(w) \/ Leave({w})
         \/ Deliver \/ RunSubscription \/ OrphanTimer \/ SubscribeFails \/ Shutdown
  <1>1. CASE \E c \in Call : CallStep(c)
    BY <1>1 DEF CallStep, Start, CallSucceeds, CallFails, Outcome, Timeout
  <1>2. CASE \E p \in Process, n \in Node : ScriptStep(p, n)
    BY <1>2 DEF ScriptStep, RunCreate, RunCountDown
  <1>3. CASE \E w \in Waiter : StartAwait(w) \/ Subscribe(w) \/ Deadline(w) \/ Look(w) \/ LookFails(w)
    BY <1>3 DEF StartAwait, Subscribe, Deadline, Look, LookFails
  <1>4. CASE Deliver \/ Subscription \/ UNCHANGED vars
    BY <1>4 DEF Subscription, vars
  <1> QED
    BY <1>1, <1>2, <1>3, <1>4, StepCases DEF WaiterStep

SubCmd == {"subscribe", "unsubscribe"}

\* What Leave and Deliver send after everything else.
LEMMA Unsubscribes ==
  ASSUME NEW q \in Seq(SubCmd), NEW k \in Nat
  PROVE  q \o [i \in 1..k |-> "unsubscribe"] \in Seq(SubCmd)
  <1>1. [i \in 1..k |-> "unsubscribe"] \in [1..k -> SubCmd]
    BY DEF SubCmd
  <1>2. [i \in 1..k |-> "unsubscribe"] \in Seq(SubCmd)
    BY <1>1, SeqDef
  <1> QED
    BY <1>2, ConcatProperties

\* The subscription keeps its types.
LEMMA SubStep ==
  ASSUME SubOK, [Next]_vars
  PROVE  SubOK'
  <1>0. /\ listeners \subseteq Waiter /\ subConn \in Seq(SubCmd) /\ inbox \in Nat
        /\ manager \in {"new", "up", "down"} /\ IsFiniteSet(listeners)
        /\ entry \in BOOLEAN /\ subscribed \in BOOLEAN /\ stranded \in BOOLEAN
    BY Constants, FS_Subset DEF SubOK, PubSubTypeOK, SubCmd
  <1>1. ASSUME listeners' \subseteq Waiter, subConn' \in Seq(SubCmd), inbox' \in Nat,
               manager' \in {"new", "up", "down"},
               entry' \in BOOLEAN, subscribed' \in BOOLEAN, stranded' \in BOOLEAN
        PROVE  SubOK'
    BY <1>1 DEF SubOK, PubSubTypeOK, SubCmd
  <1>2. CASE UNCHANGED subVars
    BY <1>0, <1>1, <1>2 DEF subVars
  <1>3. CASE Published /\ UNCHANGED <<entry, listeners, subConn, subscribed, manager, stranded>>
    BY <1>0, <1>1, <1>3 DEF Published
  <1>4. ASSUME NEW w \in Waiter, Listen(w)
        PROVE  SubOK'
    <2>1. subConn' \in Seq(SubCmd)
      BY <1>0, <1>4, AppendProperties DEF Listen, SubCmd
    <2> QED
      BY <1>0, <1>1, <1>4, <2>1 DEF Listen
  <1>5. ASSUME NEW w \in Waiter, ListenInVain(w)
        PROVE  SubOK'
    BY <1>0, <1>1, <1>5 DEF ListenInVain
  <1>6. ASSUME NEW w \in Waiter, Leave({w})
        PROVE  SubOK'
    <2>1. Cardinality({w}) \in Nat
      BY FS_Singleton, FS_CardinalityType
    <2>2. subConn' \in Seq(SubCmd)
      BY <1>0, <1>6, <2>1, Unsubscribes DEF Leave
    <2>3. entry' \in BOOLEAN
      BY <1>6 DEF Leave, EntryAfter
    <2>4. stranded' \in BOOLEAN
      BY <1>6 DEF Leave
    <2> QED
      BY <1>0, <1>1, <1>6, <2>2, <2>3, <2>4 DEF Leave
  <1>7. CASE Deliver
    <2>1. Cardinality(listeners) \in Nat
      BY <1>0, FS_CardinalityType
    <2>2. subConn' \in Seq(SubCmd)
      BY <1>0, <1>7, <2>1, Unsubscribes DEF Deliver
    <2>3. inbox' \in Nat /\ listeners' \subseteq Waiter
      BY <1>0, <1>7 DEF Deliver
    <2> QED
      BY <1>0, <1>1, <1>7, <2>2, <2>3 DEF Deliver
  <1>8. CASE RunSubscription
    <2>1. subConn' \in Seq(SubCmd)
      BY <1>0, <1>8, HeadTailProperties DEF RunSubscription
    <2>2. subscribed' \in BOOLEAN
      BY <1>8 DEF RunSubscription
    <2> QED
      BY <1>0, <1>1, <1>8, <2>1, <2>2 DEF RunSubscription
  <1>9. CASE OrphanTimer
    BY <1>0, <1>1, <1>9 DEF OrphanTimer
  <1>10. CASE SubscribeFails
    <2>1. subConn' \in Seq(SubCmd)
      BY <1>0, <1>10, HeadTailProperties DEF SubscribeFails
    <2> QED
      BY <1>0, <1>1, <1>10, <2>1 DEF SubscribeFails
  <1>11. CASE Shutdown
    <2>1. subConn' \in Seq(SubCmd)
      BY <1>11, EmptySeq DEF Shutdown
    <2> QED
      BY <1>0, <1>1, <1>11, <2>1 DEF Shutdown
  <1> QED
    BY <1>2, <1>3, <1>4, <1>5, <1>6, <1>7, <1>8, <1>9, <1>10, <1>11, SubCases

\* Only the empty queue has no commands.
LEMMA EmptyLength == \A q \in Seq(SubCmd) : Len(q) \in Nat /\ (Len(q) = 0 <=> q = <<>>)
  BY EmptySeq, LenProperties

\* As long as nobody ended the subscription under the others, the channel has listeners
\* exactly when it has an entry, and then the last thing sent is SUBSCRIBE.
Listening ==
  ~stranded =>
    /\ entry <=> listeners # {}
    /\ listeners # {} =>
         IF subConn = <<>> THEN subscribed ELSE subConn[Len(subConn)] = "subscribe"

\* Who leaves while others listen strands them; all else keeps the last word a SUBSCRIBE.
LEMMA ListeningStep ==
  ASSUME SubOK, Listening, [Next]_vars
  PROVE  Listening'
  <1>0. subConn \in Seq(SubCmd) /\ entry \in BOOLEAN /\ stranded \in BOOLEAN
    BY DEF SubOK, PubSubTypeOK, SubCmd
  <1>1. CASE UNCHANGED subVars
    BY <1>1 DEF subVars, Listening
  <1>2. CASE Published /\ UNCHANGED <<entry, listeners, subConn, subscribed, manager, stranded>>
    BY <1>2 DEF Listening
  <1>3. ASSUME NEW w \in Waiter, Listen(w)
        PROVE  Listening'
    <2>1. CASE entry
      BY <1>3, <2>1 DEF Listen, Listening
    <2>2. CASE ~entry
      <3>1. subConn' = Append(subConn, "subscribe") /\ "subscribe" \in SubCmd
        BY <1>3, <2>2 DEF Listen, SubCmd
      <3>2. subConn'[Len(subConn')] = "subscribe" /\ Len(subConn') > 0
        BY <1>0, <3>1, AppendProperties, LenProperties
      <3>3. subConn' # <<>>
        BY <3>2
      <3> QED
        BY <1>3, <2>2, <3>2, <3>3 DEF Listen, Listening
    <2> QED
      BY <2>1, <2>2
  <1>4. ASSUME NEW w \in Waiter, ListenInVain(w)
        PROVE  Listening'
    BY <1>4 DEF ListenInVain, Listening
  <1>5. ASSUME NEW w \in Waiter, Leave({w})
        PROVE  Listening'
    <2>1. stranded' = (stranded \/ listeners' # {}) /\ entry' = (entry /\ listeners' # {})
      BY <1>5 DEF Leave, EntryAfter
    <2> QED
      BY <1>0, <2>1 DEF Listening
  <1>6. CASE Deliver
    BY <1>6 DEF Deliver, Listening
  <1>7. CASE RunSubscription
    <2>1. /\ subConn # <<>> /\ subConn' = Tail(subConn) /\ subscribed' = (Head(subConn) = "subscribe")
          /\ entry' = entry /\ listeners' = listeners /\ stranded' = stranded
      BY <1>7 DEF RunSubscription
    <2>2. ASSUME ~stranded, listeners # {}
          PROVE  IF subConn' = <<>> THEN subscribed' ELSE subConn'[Len(subConn')] = "subscribe"
      <3>1. subConn[Len(subConn)] = "subscribe"
        BY <2>1, <2>2 DEF Listening
      <3>2. /\ Len(subConn) \in Nat /\ Len(subConn) > 0 /\ Len(Tail(subConn)) = Len(subConn) - 1
            /\ Tail(subConn) \in Seq(SubCmd) /\ Head(subConn) = subConn[1]
            /\ \A i \in 1..Len(Tail(subConn)) : Tail(subConn)[i] = subConn[i + 1]
        BY <1>0, <2>1, HeadTailProperties, EmptySeq, LenProperties
      <3> DEFINE t == Tail(subConn)
      <3>5. t \in Seq(SubCmd) /\ Len(t) = Len(subConn) - 1
        BY <3>2
      <3>6. \A i \in 1..Len(t) : t[i] = subConn[i + 1]
        BY <3>2
      <3>7. subConn' = t
        BY <2>1
      <3> HIDE DEF t
      <3>3. CASE Len(subConn) = 1
        <4>1. t = <<>>
          BY <3>3, <3>5, EmptyLength
        <4> QED
          BY <2>1, <3>1, <3>2, <3>3, <3>7, <4>1
      <3>4. CASE Len(subConn) # 1
        <4>1. Len(t) \in 1..Len(t)
          BY <3>2, <3>4, <3>5
        <4>2. t[Len(t)] = subConn[Len(subConn)]
          BY <3>2, <3>5, <3>6, <4>1
        <4>3. t # <<>>
          BY <3>5, <4>1, EmptyLength
        <4> QED
          BY <3>1, <3>7, <4>2, <4>3
      <3> QED
        BY <3>3, <3>4
    <2> QED
      BY <2>1, <2>2 DEF Listening
  <1>8. CASE OrphanTimer
    BY <1>8 DEF OrphanTimer, Listening
  <1>9. CASE SubscribeFails
    BY <1>9 DEF SubscribeFails, Listening
  <1>10. CASE Shutdown
    BY <1>10 DEF Shutdown, Listening
  <1> QED
    BY <1>1, <1>2, <1>3, <1>4, <1>5, <1>6, <1>7, <1>8, <1>9, <1>10, SubCases


\* The connections, the waiters and what is given keep their types.
LEMMA RestStep ==
  ASSUME Types, [Next]_vars
  PROVE  RestOK'
  <1>0. /\ event \in {s.event : s \in Setup} /\ pubSub \in BOOLEAN /\ event' = event
        /\ waiter \in [Waiter -> WaiterPC] /\ faults \in Nat /\ skipped \in BOOLEAN
    BY ReportedGrows DEF Types, RestOK
  <1>1. pubSub' = pubSub /\ faults' \in Nat /\ skipped' \in BOOLEAN
    <2>1. CASE \E c \in Call : CallStep(c)
      <3>1. PICK c \in Call : CallStep(c)
        BY <2>1
      <3>2. pubSub' = pubSub
        BY <3>1 DEF CallStep, Start, CallSucceeds, CallFails, Outcome, Timeout
      <3>3. faults' \in {faults, faults - 1} /\ (faults' # faults => faults > 0)
        BY <3>1 DEF CallStep, Start, CallSucceeds, CallFails, Outcome, Timeout
      <3>4. skipped' = skipped \/ skipped' \in BOOLEAN
        BY <3>1 DEF CallStep, Start, CallSucceeds, CallFails, Outcome, Timeout
      <3> QED
        BY <1>0, <3>2, <3>3, <3>4
    <2>2. CASE \E p \in Process, n \in Node : ScriptStep(p, n)
      <3>1. PICK p \in Process, n \in Node : ScriptStep(p, n)
        BY <2>2
      <3>2. pubSub' = pubSub /\ faults' = faults
        BY <3>1 DEF ScriptStep, RunCreate, RunCountDown
      <3>3. skipped' = skipped \/ skipped' \in BOOLEAN
        BY <3>1 DEF ScriptStep, RunCreate, RunCountDown
      <3> QED
        BY <1>0, <3>2, <3>3
    <2>3. CASE WaiterStep
      <3>1. UNCHANGED <<pubSub, skipped>>
        BY <2>3, WaiterLooks
      <3>2. faults' \in {faults, faults - 1} /\ (faults' # faults => faults > 0)
        BY <2>3 DEF WaiterStep, StartAwait, Subscribe, Deadline, Look, LookFails, Deliver,
                    Subscription, KeepLatch, latchVars
      <3> QED
        BY <1>0, <3>1, <3>2
    <2>4. CASE UNCHANGED vars
      BY <1>0, <2>4 DEF vars, latchVars
    <2> QED
      BY <2>1, <2>2, <2>3, <2>4, StepCases
  <1>2. waiter' \in [Waiter -> WaiterPC]
    <2>1. CASE waiter' = waiter
      BY <1>0, <2>1
    <2>2. ASSUME NEW w \in Waiter, NEW stage \in WaiterPC, Goes(w, stage)
          PROVE  waiter' \in [Waiter -> WaiterPC]
      BY <1>0, <2>2 DEF Goes
    <2>3. ASSUME NEW w \in Waiter,
                 StartAwait(w) \/ Subscribe(w) \/ Deadline(w) \/ Look(w) \/ LookFails(w)
          PROVE  waiter' \in [Waiter -> WaiterPC]
      <3>1. \E stage \in WaiterPC : Goes(w, stage)
        BY <2>3 DEF StartAwait, Subscribe, Deadline, Look, LookFails, WaiterPC
      <3> QED
        BY <2>2, <3>1
    <2>4. CASE Deliver
      BY <1>0, <2>4 DEF Deliver, WaiterPC
    <2>5. CASE Subscription
      BY <2>1, <2>5 DEF Subscription, latchVars
    <2>6. CASE \E c \in Call : CallStep(c)
      BY <2>1, <2>6 DEF CallStep, Start, CallSucceeds, CallFails, Outcome, Timeout
    <2>7. CASE \E p \in Process, n \in Node : ScriptStep(p, n)
      BY <2>1, <2>7 DEF ScriptStep, RunCreate, RunCountDown
    <2>8. CASE UNCHANGED vars
      BY <2>1, <2>8 DEF vars, latchVars
    <2> QED
      BY <2>3, <2>4, <2>5, <2>6, <2>7, <2>8, StepCases DEF WaiterStep
  <1> QED
    BY <1>0, <1>1, <1>2, ConnStep DEF RestOK

\* The parts keep each other.
LEMMA TypesStep ==
  Types /\ [Next]_vars => Types'
  BY LatchStep, CallsStep, RestStep, SubStep DEF Types

\* The inductive invariant behind every theorem of this module.
LEMMA TypesInvariant == Spec => []Types
  BY TypesInit, TypesStep, PTL DEF Spec

\* Every variable keeps its type, and what a node still counts is what the events it has
\* seen leave of the target its creator asked for (LATCH_COUNTDOWN_SCRIPT).
THEOREM TypeCorrect == Spec => []TypeOK
  BY TypesInvariant, TypesImplyTypeOK, PTL

(***************************************************************************)
(* Who listens is subscribed.                                              *)
(***************************************************************************)
\* Listening needs no more than the types.
LEMMA ListeningInvariant == Spec => []Listening
  <1>1. Init => Listening
    BY DEF Init, PubSubInit, Listening
  <1>2. SubOK /\ Listening /\ [Next]_vars => Listening'
    BY ListeningStep
  <1>3. Types => SubOK
    BY DEF Types
  <1> QED
    BY <1>1, <1>2, <1>3, TypesInvariant, PTL DEF Spec

\* However waiters come, leave and are woken, no entry of channelListeners outlives its
\* subscription: as long as nobody unsubscribed the channel under the others, who
\* listens hears of the completion (subscribeSync and localCleanup).
THEOREM ListenersAreSubscribed == Spec => []ListenersSubscribed
  <1>1. Listening => ListenersSubscribed
    BY DEF Listening, ListenersSubscribed
  <1> QED
    BY <1>1, ListeningInvariant, PTL

(***************************************************************************)
(* What a waiter may conclude.                                             *)
(***************************************************************************)
\* The node a waiter reads stays complete.
OpenedIsComplete == \A w \in Waiter : waiter[w] = "opened" => Completed(ReadNode)

\* Only a look at a complete node opens, and complete it stays.
LEMMA OpenedStep ==
  ASSUME Types, OpenedIsComplete, [Next]_vars
  PROVE  OpenedIsComplete'
  <1> SUFFICES ASSUME NEW w \in Waiter, waiter'[w] = "opened"
               PROVE  Completed(ReadNode)'
    BY DEF OpenedIsComplete
  <1>0. waiter \in [Waiter -> WaiterPC] /\ ReadNode \in Node
    BY Constants DEF Types, RestOK
  <1>1. waiter[w] = "opened" \/ Completed(ReadNode)
    <2>1. CASE waiter' = waiter
      BY <2>1
    <2>2. ASSUME NEW v \in Waiter, NEW stage, Goes(v, stage), stage = "opened" => Completed(ReadNode)
          PROVE  waiter[w] = "opened" \/ Completed(ReadNode)
      BY <1>0, <2>2 DEF Goes
    <2>3. ASSUME NEW v \in Waiter,
                 StartAwait(v) \/ Subscribe(v) \/ Deadline(v) \/ Look(v) \/ LookFails(v)
          PROVE  waiter[w] = "opened" \/ Completed(ReadNode)
      <3>1. \E stage : Goes(v, stage) /\ (stage = "opened" => Completed(ReadNode))
        BY <2>3 DEF StartAwait, Subscribe, Deadline, Look, LookFails
      <3> QED
        BY <2>2, <3>1
    <2>4. CASE Deliver
      BY <1>0, <2>4 DEF Deliver
    <2>5. CASE Subscription
      BY <2>1, <2>5 DEF Subscription, latchVars
    <2>6. CASE \E c \in Call : CallStep(c)
      BY <2>1, <2>6 DEF CallStep, Start, CallSucceeds, CallFails, Outcome, Timeout
    <2>7. CASE \E p \in Process, n \in Node : ScriptStep(p, n)
      BY <2>1, <2>7 DEF ScriptStep, RunCreate, RunCountDown
    <2>8. CASE UNCHANGED vars
      BY <2>1, <2>8 DEF vars, latchVars
    <2> QED
      BY <2>3, <2>4, <2>5, <2>6, <2>7, <2>8, StepCases DEF WaiterStep
  <1>2. Completed(ReadNode)
    BY <1>1 DEF OpenedIsComplete
  <1> QED
    BY <1>0, <1>2, NodesRemember

\* A complete node has seen as many events as its creator asked for.
LEMMA CompleteMeansReported ==
  ASSUME Types, NEW n \in Node, Completed(n)
  PROVE  /\ latch[n].events \subseteq Reported /\ IsFiniteSet(Reported)
         /\ Cardinality(Reported) \in Nat /\ Cardinality(latch[n].events) = latch[n].target
         /\ \E k \in Creator : latch[n].target = Count[k] /\ Cardinality(Reported) >= Count[k]
  <1>1. latch[n].events \subseteq Reported /\ IsFiniteSet(Reported)
    BY DEF Types, LatchOK, CallsOK
  <1>2. Consistent(latch[n]) /\ latch[n].count = 0
    BY DEF Types, LatchOK, Completed
  <1>3. Cardinality(latch[n].events) <= Cardinality(Reported) /\ Cardinality(Reported) \in Nat
        /\ Cardinality(latch[n].events) \in Nat
    BY <1>1, FS_Subset, FS_CardinalityType
  <1>4. Cardinality(latch[n].events) = latch[n].target
    BY <1>2, <1>3 DEF Consistent
  <1> QED
    BY <1>1, <1>2, <1>3, <1>4 DEF Consistent

\* The events of the node that was read have been reported.
LEMMA OpensImplied == Types /\ OpenedIsComplete => OpensOnTarget
  <1> SUFFICES ASSUME Types, OpenedIsComplete, NEW w \in Waiter, waiter[w] = "opened"
               PROVE  \E k \in Creator : Cardinality(Reported) >= Count[k]
    BY DEF OpensOnTarget, Reported, Started
  <1>1. Completed(ReadNode) /\ ReadNode \in Node
    BY Constants DEF OpenedIsComplete
  <1> QED
    BY <1>1, CompleteMeansReported

\* await() returns only when enough different events have been reported, whatever was
\* repeated, timed out or created twice (awaitLatch and LATCH_COUNTDOWN_SCRIPT).
THEOREM LatchOpensOnTarget == Spec => []OpensOnTarget
  <1>1. Init => OpenedIsComplete
    BY DEF Init, OpenedIsComplete
  <1>2. Types /\ OpenedIsComplete /\ [Next]_vars => OpenedIsComplete'
    BY OpenedStep
  <1> QED
    BY <1>1, <1>2, TypesInvariant, OpensImplied, PTL DEF Spec


(***************************************************************************)
(* What a countDown() that went through is worth.                          *)
(***************************************************************************)
\* The node has counted the event of worker c, or was complete without it.
Has(c, n) == Completed(n) \/ Seen(c, n)

\* What a node has of a worker it never loses.
LEMMA HasStays ==
  ASSUME Types, [Next]_vars, NEW c \in Worker, NEW n \in Node, Has(c, n)
  PROVE  Has(c, n)'
  <1>1. Seen(c, n) => Exists(n)
    BY DEF Seen, Exists, Missing
  <1> QED
    BY <1>1, NodesRemember DEF Has

\* What LATCH_COUNTDOWN_SCRIPT leaves behind, on a node that has the latch.
LEMMA Counts ==
  ASSUME Types, [Next]_vars, NEW p \in Process, NEW n \in Node, RunCountDown(p, n),
         NEW c \in Worker, c = Head(conn[p][n]), CountDownStatus(c, n) # "missing"
  PROVE  Has(c, n)'
  <1>1. CASE CountDownStatus(c, n) \in {"counted", "completed"}
    <2>1. latch' = [latch EXCEPT ![n].count = @ - 1, ![n].events = @ \union {event[c]}]
      BY <1>1 DEF RunCountDown
    <2>2. latch \in [Node -> [count : Int, target : Nat, events : SUBSET Reported]]
      BY DEF Types, LatchOK
    <2>3. event[c] \in latch'[n].events /\ event' = event
      BY <2>1, <2>2, ReportedGrows
    <2> QED
      BY <2>3 DEF Has, Seen
  <1>2. CASE CountDownStatus(c, n) \notin {"counted", "completed"}
    <2>1. Has(c, n)
      BY <1>2 DEF CountDownStatus, Has
    <2> QED
      BY <2>1, HasStays
  <1> QED
    BY <1>1, <1>2

\* A vote for comes from a node that counted the event.
Backed == \A c \in Worker : \A n \in Node : vote[c][n] = "for" => Has(c, n)

\* Only its own command, on a node that has the latch, votes for a worker.
LEMMA VoteCases ==
  ASSUME Types, [Next]_vars, NEW c \in Worker, NEW n \in Node, vote'[c][n] = "for"
  PROVE  \/ vote[c][n] = "for"
         \/ \E p \in Process : /\ RunCountDown(p, n) /\ c = Head(conn[p][n])
                               /\ CountDownStatus(c, n) # "missing"
  <1>0. vote \in [Call -> [Node -> Vote]] /\ c \in Call /\ c \notin Creator
    BY Constants DEF Types, CallsOK
  <1>1. CASE vote' = vote
    BY <1>1
  <1>2. ASSUME NEW d \in Call, Start(d)
        PROVE  vote[c][n] = "for"
    <2>1. PICK refused \in SUBSET Node : vote' = [vote EXCEPT ![d] = Opening(refused)]
      BY <1>2 DEF Start
    <2>2. Opening(refused)[n] # "for"
      BY DEF Opening
    <2> QED
      BY <1>0, <2>1, <2>2
  <1>3. ASSUME NEW d \in Call, CallSucceeds(d) \/ CallFails(d)
        PROVE  vote[c][n] = "for"
    <2>1. vote' = [vote EXCEPT ![d] = NoVotes]
      BY <1>3 DEF CallSucceeds, CallFails, Outcome
    <2>2. NoVotes[n] # "for"
      BY DEF NoVotes
    <2> QED
      BY <1>0, <2>1, <2>2
  <1>4. ASSUME NEW d \in Call, NEW m \in Node, Timeout(d, m)
        PROVE  vote[c][n] = "for"
    BY <1>0, <1>4 DEF Timeout
  <1>5. ASSUME NEW d \in Call, NEW m \in Node, NEW for, NEW effect, Answer(d, m, for, effect)
        PROVE  vote[c][n] = "for" \/ (c = d /\ n = m /\ for)
    BY <1>0, <1>5 DEF Answer
  <1>6. ASSUME NEW p \in Process, NEW m \in Node, RunCreate(p, m)
        PROVE  vote[c][n] = "for"
    <2>1. Head(conn[p][m]) \in Creator /\ Answer(Head(conn[p][m]), m, TRUE, ~Exists(m))
      BY <1>6 DEF RunCreate
    <2> QED
      BY <1>0, <1>5, <2>1, Constants
  <1>7. ASSUME NEW p \in Process, NEW m \in Node, RunCountDown(p, m)
        PROVE  \/ vote[c][n] = "for"
               \/ c = Head(conn[p][n]) /\ n = m /\ CountDownStatus(c, n) # "missing"
    <2> DEFINE d == Head(conn[p][m])
               status == CountDownStatus(d, m)
    <2>1. d \in Call /\ \E effect : Answer(d, m, status # "missing", effect)
      BY <1>7, Constants DEF RunCountDown
    <2>2. vote[c][n] = "for" \/ (c = d /\ n = m /\ status # "missing")
      BY <1>5, <2>1
    <2> QED
      BY <2>2
  <1>8. CASE WaiterStep \/ UNCHANGED vars
    BY <1>1, <1>8, WaiterLooks
  <1> QED
    BY <1>2, <1>3, <1>4, <1>6, <1>7, <1>8, StepCases DEF CallStep, ScriptStep

\* Votes for are backed by their nodes.
LEMMA BackedStep ==
  ASSUME Types, Backed, [Next]_vars
  PROVE  Backed'
  <1> SUFFICES ASSUME NEW c \in Worker, NEW n \in Node, vote'[c][n] = "for"
               PROVE  Has(c, n)'
    BY DEF Backed
  <1>1. CASE vote[c][n] = "for"
    BY <1>1, HasStays DEF Backed
  <1>2. ASSUME NEW p \in Process, RunCountDown(p, n), c = Head(conn[p][n]),
               CountDownStatus(c, n) # "missing"
        PROVE  Has(c, n)'
    BY <1>2, Counts
  <1> QED
    BY <1>1, <1>2, VoteCases

\* A call that went through had a quorum of votes.
LEMMA OutcomeCases ==
  ASSUME Types, [Next]_vars, NEW c \in Worker, pc'[c] \in {"done", "exists"}
  PROVE  pc[c] \in {"done", "exists"} \/ Quorum(vote[c])
  <1>0. pc \in [Call -> PC] /\ c \in Call
    BY Constants DEF Types, CallsOK
  <1>1. CASE \E d \in Call : CallStep(d)
    <2>1. PICK d \in Call : CallStep(d)
      BY <1>1
    <2>2. CASE CallSucceeds(d)
      BY <1>0, <2>2 DEF CallSucceeds, Outcome
    <2>3. CASE ~CallSucceeds(d)
      BY <1>0, <2>1, <2>3 DEF CallStep, Start, CallFails, Outcome, Timeout
    <2> QED
      BY <2>2, <2>3
  <1>2. CASE \E p \in Process, n \in Node : ScriptStep(p, n)
    BY <1>2 DEF ScriptStep, RunCreate, RunCountDown
  <1>3. CASE WaiterStep \/ UNCHANGED vars
    BY <1>3, WaiterLooks
  <1> QED
    BY <1>1, <1>2, <1>3, StepCases

\* The nodes the event of c is safe with.
Holders(c) == {n \in Node : Has(c, n)}

\* The nodes an event is safe with are ever more.
LEMMA HoldersGrow ==
  ASSUME Types, [Next]_vars, NEW c \in Worker
  PROVE  /\ Holders(c) \subseteq Holders(c)' /\ IsFiniteSet(Holders(c)')
         /\ \A X \in SUBSET Holders(c)' : Cardinality(X) <= Cardinality(Holders(c)')
         /\ \A X \in SUBSET Holders(c)' : Cardinality(X) \in Nat
         /\ Cardinality(Holders(c)') \in Nat
  <1>1. Holders(c) \subseteq Holders(c)'
    BY HasStays DEF Holders
  <1>2. Holders(c)' \subseteq Node /\ IsFiniteSet(Node)
    BY NodeAssumption DEF Holders
  <1>3. IsFiniteSet(Holders(c)')
    BY <1>2, FS_Subset
  <1> QED
    BY <1>1, <1>3, FS_Subset, FS_CardinalityType

\* A quorum of votes is a quorum of nodes with the event.
LEMMA CountedStep ==
  ASSUME Types, Backed, CountedOnQuorum, [Next]_vars
  PROVE  CountedOnQuorum'
  <1> SUFFICES ASSUME NEW c \in Worker, pc'[c] \in {"done", "exists"}
               PROVE  Cardinality(Holders(c)') >= QuorumSize
    BY DEF CountedOnQuorum, Holders, Has
  <1>0. QuorumSize \in Int
    BY NodeAssumption, FS_CardinalityType DEF QuorumSize
  <1>1. CASE pc[c] \in {"done", "exists"}
    <2>1. Cardinality(Holders(c)) >= QuorumSize
      BY <1>1 DEF CountedOnQuorum, Holders, Has
    <2> QED
      BY <1>0, <2>1, HoldersGrow
  <1>2. CASE Quorum(vote[c])
    <2>1. With(vote[c], "for") \subseteq Holders(c)
      BY DEF Backed, With, Holders
    <2>2. Cardinality(With(vote[c], "for")) >= QuorumSize
      BY <1>2 DEF Quorum
    <2>3. With(vote[c], "for") \in SUBSET Holders(c)'
      BY <2>1, HoldersGrow
    <2> QED
      BY <1>0, <2>2, <2>3, HoldersGrow
  <1> QED
    BY <1>1, <1>2, OutcomeCases

\* Votes are backed, and so is what they decide.
LEMMA BackedInvariant == Spec => [](Backed /\ CountedOnQuorum)
  <1>1. Init => Backed /\ CountedOnQuorum
    <2> SUFFICES ASSUME Init
                 PROVE  Backed /\ CountedOnQuorum
      OBVIOUS
    <2>1. \A c \in Worker : pc[c] = "idle" /\ \A n \in Node : vote[c][n] = "none"
      BY Constants DEF Init, NoVotes
    <2> QED
      BY <2>1 DEF Backed, CountedOnQuorum
  <1>2. Types /\ Backed /\ CountedOnQuorum /\ [Next]_vars => (Backed /\ CountedOnQuorum)'
    BY BackedStep, CountedStep
  <1> QED
    BY <1>1, <1>2, TypesInvariant, PTL DEF Spec

\* A countDown() that went through is counted on a quorum, and stays counted, whatever was
\* in flight when it ended (countDown and LATCH_COUNTDOWN_SCRIPT).
THEOREM EventsAreCounted == Spec => []CountedOnQuorum
  BY BackedInvariant, PTL


(***************************************************************************)
(* When the nodes agree.                                                   *)
(***************************************************************************)
\* The command of worker c is still in the connection to node n.
Sent(c, n) == \E i \in 1..Len(conn[Proc[c]][n]) : conn[Proc[c]][n][i] = c

\* While no node was skipped, every event that was reported is on its way to a node, or the
\* node has it.
Underway ==
  ~skipped => \A c \in Worker : \A n \in Node : pc[c] # "idle" => Sent(c, n) \/ Has(c, n)

\* What a step does to the connections.
LEMMA ConnCases ==
  ASSUME Types, [Next]_vars, NEW c \in Worker, NEW n \in Node, Sent(c, n)
  PROVE  \/ Sent(c, n)'
         \/ RunCountDown(Proc[c], n) /\ c = Head(conn[Proc[c]][n])
  <1> DEFINE p == Proc[c]
  <1>0. /\ p \in Process /\ c \in Call /\ c \notin Creator
        /\ conn \in [Process -> [Node -> Seq(Call)]]
    BY Constants DEF Types, RestOK
  <1>1. ASSUME conn'[p][n] = conn[p][n]
        PROVE  Sent(c, n)'
    BY <1>1 DEF Sent
  <1>2. ASSUME NEW d, conn'[p][n] = Append(conn[p][n], d)
        PROVE  Sent(c, n)'
    <2> DEFINE q == conn[p][n]
    <2>1. q \in Seq(Call)
      BY <1>0
    <2>2. PICK i \in 1..Len(q) : q[i] = c
      BY DEF Sent
    <2> HIDE DEF q
    <2>3. i \in 1..Len(Append(q, d)) /\ Append(q, d)[i] = c
      BY <2>1, <2>2, AppendProperties, LenProperties
    <2>4. conn'[p][n] = Append(q, d)
      BY <1>2 DEF q
    <2> QED
      BY <2>3, <2>4 DEF Sent
  <1>3. CASE \E d \in Call : CallStep(d)
    <2>1. PICK d \in Call : CallStep(d)
      BY <1>3
    <2>2. CASE Start(d)
      <3>1. PICK refused : conn' = [conn EXCEPT ![Proc[d]] = Send(@, d, refused)]
        BY <2>2 DEF Start
      <3>2. conn'[p][n] = conn[p][n] \/ conn'[p][n] = Append(conn[p][n], d)
        BY <1>0, <3>1, Constants DEF Send
      <3> QED
        BY <1>1, <1>2, <3>2
    <2>3. CASE ~Start(d)
      <3>1. conn' = conn
        BY <2>1, <2>3 DEF CallStep, CallSucceeds, CallFails, Outcome, Timeout
      <3> QED
        BY <1>1, <3>1
    <2> QED
      BY <2>2, <2>3
  <1>4. ASSUME NEW r \in Process, NEW m \in Node, ScriptStep(r, m)
        PROVE  Sent(c, n)' \/ (RunCountDown(p, n) /\ c = Head(conn[p][n]))
    <2>1. Pop(r, m) /\ conn[r][m] # <<>>
      BY <1>4 DEF ScriptStep, RunCreate, RunCountDown
    <2>2. CASE r # p \/ m # n
      <3>1. conn'[p][n] = conn[p][n]
        BY <1>0, <2>1, <2>2 DEF Pop
      <3> QED
        BY <1>1, <3>1
    <2>3. CASE r = p /\ m = n
      <3>1. conn'[p][n] = Tail(conn[p][n])
        BY <1>0, <2>1, <2>3 DEF Pop
      <3>2. PICK i \in 1..Len(conn[p][n]) : conn[p][n][i] = c
        BY DEF Sent
      <3>3. CASE i = 1
        <4>1. Head(conn[p][n]) = c
          BY <1>0, <2>1, <2>3, <3>2, <3>3, HeadCommand
        <4>2. RunCountDown(p, n)
          BY <1>0, <1>4, <2>3, <4>1 DEF ScriptStep, RunCreate
        <4> QED
          BY <4>1, <4>2
      <3>4. CASE i # 1
        <4> DEFINE q == conn[p][n]
                   t == Tail(q)
        <4>1. /\ Len(t) = Len(q) - 1 /\ Len(q) \in Nat
              /\ \A j \in 1..Len(t) : t[j] = q[j + 1]
          BY <1>0, <2>1, <2>3, HeadCommand
        <4>2. i \in 1..Len(q) /\ q[i] = c /\ conn'[p][n] = t
          BY <3>1, <3>2
        <4> HIDE DEF q, t
        <4>3. i - 1 \in 1..Len(t) /\ t[i - 1] = q[i]
          BY <3>4, <4>1, <4>2
        <4>4. Sent(c, n)'
          BY <4>2, <4>3 DEF Sent
        <4> QED
          BY <4>4
      <3> QED
        BY <3>3, <3>4
    <2> QED
      BY <2>2, <2>3
  <1>5. CASE WaiterStep \/ UNCHANGED vars
    <2>1. conn' = conn
      BY <1>5, WaiterLooks
    <2> QED
      BY <1>1, <2>1
  <1> QED
    BY <1>3, <1>4, <1>5, StepCases

\* A call begins by sending its command to every node that its breakers let it through to.
LEMMA BeginSends ==
  ASSUME Types, [Next]_vars, ~skipped', NEW c \in Worker, NEW n \in Node,
         pc[c] = "idle", pc'[c] # "idle"
  PROVE  Sent(c, n)'
  <1>0. /\ pc \in [Call -> PC] /\ c \in Call /\ Proc[c] \in Process
        /\ conn \in [Process -> [Node -> Seq(Call)]]
    BY Constants DEF Types, CallsOK, RestOK
  <1>1. Start(c)
    <2>1. CASE \E d \in Call : CallStep(d)
      <3>1. PICK d \in Call : CallStep(d)
        BY <2>1
      <3>2. d = c
        BY <1>0, <3>1 DEF CallStep, Start, CallSucceeds, CallFails, Outcome, Timeout
      <3> QED
        BY <3>1, <3>2 DEF CallStep, CallSucceeds, CallFails, Timeout
    <2>2. CASE \E p \in Process, m \in Node : ScriptStep(p, m)
      BY <2>2 DEF ScriptStep, RunCreate, RunCountDown
    <2>3. CASE WaiterStep \/ UNCHANGED vars
      BY <2>3, WaiterLooks
    <2> QED
      BY <2>1, <2>2, <2>3, StepCases
  <1>2. conn' = [conn EXCEPT ![Proc[c]] = Send(@, c, {})]
    BY <1>1 DEF Start
  <1>3. conn'[Proc[c]][n] = Append(conn[Proc[c]][n], c)
    BY <1>0, <1>2 DEF Send
  <1> DEFINE q == conn[Proc[c]][n]
  <1>4. q \in Seq(Call)
    BY <1>0
  <1> HIDE DEF q
  <1>5. LET l == Len(Append(q, c)) IN l \in 1..l /\ Append(q, c)[l] = c
    BY <1>0, <1>4, AppendProperties, LenProperties
  <1>6. conn'[Proc[c]][n] = Append(q, c)
    BY <1>3 DEF q
  <1> QED
    BY <1>5, <1>6 DEF Sent

\* A command leaves its connection only by being executed.
LEMMA UnderwayStep ==
  ASSUME Types, Underway, [Next]_vars
  PROVE  Underway'
  <1> SUFFICES ASSUME ~skipped', NEW c \in Worker, NEW n \in Node, pc'[c] # "idle"
               PROVE  Sent(c, n)' \/ Has(c, n)'
    BY DEF Underway
  <1>1. ~skipped
    <2>1. CASE \E d \in Call : CallStep(d)
      BY <2>1 DEF CallStep, Start, CallSucceeds, CallFails, Outcome, Timeout
    <2>2. CASE \E p \in Process, m \in Node : ScriptStep(p, m)
      BY <2>2 DEF ScriptStep, RunCreate, RunCountDown
    <2>3. CASE WaiterStep \/ UNCHANGED vars
      BY <2>3, WaiterLooks
    <2> QED
      BY <2>1, <2>2, <2>3, StepCases
  <1>2. CASE pc[c] = "idle"
    BY <1>2, BeginSends
  <1>3. CASE Has(c, n)
    BY <1>3, HasStays
  <1>4. CASE Sent(c, n)
    <2>1. ASSUME RunCountDown(Proc[c], n), c = Head(conn[Proc[c]][n])
          PROVE  Has(c, n)'
      <3>1. CountDownStatus(c, n) # "missing"
        BY <2>1 DEF RunCountDown
      <3>2. Proc[c] \in Process
        BY Constants
      <3> QED
        BY <2>1, <3>1, <3>2, Counts
    <2> QED
      BY <1>4, <2>1, ConnCases
  <1> QED
    BY <1>1, <1>2, <1>3, <1>4 DEF Underway

\* Once everything has run, a node that is not complete has all that was reported.
LEMMA QuietNodes ==
  ASSUME Types, Underway, Quiet, ~skipped, NEW n \in Node, ~Completed(n)
  PROVE  latch[n].events = Reported
  <1>1. latch[n].events \subseteq Reported
    BY DEF Types, LatchOK
  <1>2. ASSUME NEW c \in Started
        PROVE  event[c] \in latch[n].events
    <2>1. c \in Worker /\ pc[c] # "idle" /\ Proc[c] \in Process
      BY Constants DEF Started
    <2>2. conn[Proc[c]][n] = <<>>
      BY <2>1 DEF Quiet
    <2>3. ~Sent(c, n)
      BY <2>2 DEF Sent
    <2> QED
      BY <2>1, <2>3 DEF Underway, Has, Seen
  <1> QED
    BY <1>1, <1>2 DEF Reported

\* A complete node and one that is not cannot have counted the same events down from the
\* same target.
LEMMA NoneLeftBehind ==
  ASSUME Types, Underway, Quiet, ~skipped, NEW m \in Node, NEW n \in Node,
         Completed(m), latch[m].target = latch[n].target
  PROVE  Completed(n)
  <1> SUFFICES ASSUME ~Completed(n)
               PROVE  FALSE
    OBVIOUS
  <1>1. latch[n].events = Reported
    BY QuietNodes
  <1>2. /\ Cardinality(Reported) \in Nat /\ latch[m].target > 0
        /\ Cardinality(Reported) >= latch[m].target
    BY CompleteMeansReported, Constants
  <1>3. Exists(n)
    BY <1>2 DEF Exists, Missing
  <1>4. /\ latch[n].count \in Nat
        /\ latch[n].count + Cardinality(latch[n].events) = latch[n].target
    BY <1>3 DEF Types, LatchOK, Consistent
  <1>5. latch[n].count = 0
    BY <1>1, <1>2, <1>4
  <1> QED
    BY <1>3, <1>5 DEF Completed

\* Nodes that have the same events, and the same target, have the same count.
LEMMA AgreeImplied == Types /\ Underway => NodesAgree
  <1> SUFFICES ASSUME Types, Underway, Quiet, ~skipped, NEW m \in Node, NEW n \in Node,
                      latch[m].target = latch[n].target
               PROVE  latch[m].count = latch[n].count
    BY DEF NodesAgree
  <1>1. CASE Completed(m) \/ Completed(n)
    <2>1. Completed(m) /\ Completed(n)
      BY <1>1, NoneLeftBehind
    <2> QED
      BY <2>1 DEF Completed
  <1>2. CASE ~Completed(m) /\ ~Completed(n)
    <2>1. latch[m].events = Reported /\ latch[n].events = Reported
      BY <1>2, QuietNodes
    <2>2. \A l \in Node : Exists(l) => Consistent(latch[l])
      BY DEF Types, LatchOK
    <2>3. Cardinality(Reported) \in Nat
      BY FS_CardinalityType DEF Types, CallsOK
    <2>4. \A l \in Node : Exists(l) => latch[l].target > 0
      BY <2>2, Constants DEF Consistent
    <2>5. \A l \in Node : ~Exists(l) => latch[l].target = 0 /\ latch[l].count = -1
      BY DEF Exists, Missing
    <2>6. Exists(m) <=> Exists(n)
      BY <2>4, <2>5
    <2>7. CASE Exists(m) /\ Exists(n)
      BY <2>1, <2>2, <2>3, <2>7 DEF Consistent
    <2>8. CASE ~Exists(m) /\ ~Exists(n)
      BY <2>5, <2>8
    <2> QED
      BY <2>6, <2>7, <2>8
  <1> QED
    BY <1>1, <1>2

\* Commands that were merely late reach every node: as long as no node was counted down
\* before it had the latch, the nodes agree once everything has run (countDown, with the
\* commands of a decided round still in its connections).
THEOREM NodesCatchUp == Spec => []NodesAgree
  <1>1. Init => Underway
    BY Constants DEF Init, Underway
  <1>2. Types /\ Underway /\ [Next]_vars => Underway'
    BY UnderwayStep
  <1> QED
    BY <1>1, <1>2, TypesInvariant, AgreeImplied, PTL DEF Spec
=============================================================================
