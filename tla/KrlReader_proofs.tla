-------------------------- MODULE KrlReader_proofs --------------------------
(***************************************************************************)
(* Type correctness of KrlReader, that its lock keeps the session single,  *)
(* that a session lost while idle costs no read its answer, and that a     *)
(* write changes one node, for any number of requests, nodes, attempts and *)
(* failures.                                                               *)
(***************************************************************************)
EXTENDS KrlReader, FiniteSetTheorems, TLAPS

Place == {"idle", "lock", "ensure", "connect", "node", "write", "reply"}

\* The requests that are inside the lock.
Inside == {"ensure", "connect", "node", "write"}

\* Whoever is inside is the first of those that asked for the lock, and whoever connects
\* has found no session, which nobody else can have opened since.
LockInv ==
    /\ pc \in [Requests -> Place] /\ lock \in Seq(Requests)
    /\ client \in {"none", "live", "dead"} /\ open \in Int
    /\ \A r \in Requests : pc[r] \in Inside => lock # <<>> /\ r = Head(lock)
    /\ \A r \in Requests : pc[r] = "connect" => client = "none"
    /\ OneSession

\* The head of a sequence is not changed by what is appended to it.
LEMMA HeadAppend ==
    ASSUME NEW S, NEW s \in Seq(S), s # <<>>, NEW x \in S
    PROVE  Append(s, x) # <<>> /\ Head(Append(s, x)) = Head(s)
OBVIOUS

\* An attempt that fails leaves the invariant, whether it is made again or answered.
LEMMA GiveUpStep ==
    ASSUME LockInv, NEW r \in Requests, pc[r] \in Inside, GiveUp(r)
    PROVE  LockInv'
<1> USE DEF LockInv, Place, Inside, OneSession
<1>1. CASE r \in Pollers /\ attempt[r] < Attempts
  BY <1>1 DEF GiveUp, Reset, Set
<1>2. CASE ~(r \in Pollers /\ attempt[r] < Attempts)
  <2>1. pc' = [pc EXCEPT ![r] = "reply"] /\ lock' = Tail(lock)
    BY <1>2 DEF GiveUp, Answered, Set
  <2>2. /\ client' \in {"none", "live", "dead"} /\ open' \in Int /\ OneSession'
        /\ client' = "none" \/ client' = client
    BY <1>2 DEF GiveUp, Reset
  <2> QED BY <2>1, <2>2
<1> QED BY <1>1, <1>2

\* So does a node that fails, with another node to try or without.
LEMMA NextNodeStep ==
    ASSUME LockInv, NEW r \in Requests, pc[r] \in Inside, NextNode(r)
    PROVE  LockInv'
<1>1. CASE node[r] < Len(Nodes)
  BY <1>1 DEF NextNode, Set, LockInv, Place, Inside, OneSession
<1>2. CASE ~(node[r] < Len(Nodes))
  BY <1>2, GiveUpStep DEF NextNode
<1> QED BY <1>1, <1>2

LEMMA LockStep == LockInv /\ [Next]_vars => LockInv'
<1> SUFFICES ASSUME LockInv, [Next]_vars PROVE LockInv'
  OBVIOUS
<1>1. ASSUME NEW r \in Requests, Arrive(r) PROVE LockInv'
  <2>1. pc' = [pc EXCEPT ![r] = "lock"] /\ lock' = Append(lock, r)
    BY <1>1 DEF Arrive, At
  <2>2. lock # <<>> => lock' # <<>> /\ Head(lock') = Head(lock)
    BY <2>1, HeadAppend DEF LockInv
  <2> QED BY <1>1, <2>1, <2>2 DEF Arrive, LockInv, Place, Inside, OneSession
<1>2. ASSUME NEW r \in Requests, Acquire(r) PROVE LockInv'
  BY <1>2 DEF Acquire, At, LockInv, Place, Inside, OneSession
<1>3. ASSUME NEW r \in Requests, Ensure(r) PROVE LockInv'
  BY <1>3 DEF Ensure, At, LockInv, Place, Inside, OneSession
<1>4. ASSUME NEW r \in Requests, Connect(r) PROVE LockInv'
  <2>1. /\ pc' = [pc EXCEPT ![r] = "node"] /\ lock' = lock
        /\ pc[r] = "connect" /\ client' = "live" /\ open' = open + 1
    BY <1>4 DEF Connect, At
  <2>2. \A q \in Requests : pc'[q] # "connect"
    BY <2>1 DEF LockInv, Place, Inside
  <2>3. client = "none" /\ open' = 1
    BY <2>1 DEF LockInv, OneSession
  <2> QED BY <2>1, <2>2, <2>3 DEF LockInv, Place, Inside, OneSession
<1>5. ASSUME NEW r \in Requests, ConnectFails(r) PROVE LockInv'
  BY <1>5, GiveUpStep DEF ConnectFails, Inside
<1>6. ASSUME NEW r \in Requests, Read(r) \/ Write(r) PROVE LockInv'
  <2>1. /\ pc' = [pc EXCEPT ![r] = "reply"] /\ lock' = Tail(lock)
        /\ pc[r] \in Inside /\ UNCHANGED <<client, open>>
    BY <1>6 DEF Read, Write, Answered, Set, Inside
  <2>2. lock \in Seq(Requests) /\ lock # <<>> /\ Tail(lock) \in Seq(Requests)
    BY <2>1 DEF LockInv
  <2>3. \A q \in Requests : pc'[q] \notin Inside
    BY <2>1 DEF LockInv, Place, Inside
  <2> QED BY <2>1, <2>2, <2>3 DEF LockInv, Place, Inside, OneSession
<1>7. ASSUME NEW r \in Requests, ReadType(r) PROVE LockInv'
  BY <1>7 DEF ReadType, At, LockInv, Place, Inside, OneSession
<1>8. ASSUME NEW r \in Requests, NodeFails(r) \/ WriteUnanswered(r) PROVE LockInv'
  BY <1>8, NextNodeStep DEF NodeFails, WriteUnanswered, Inside
<1>9. ASSUME NEW r \in Requests, Deliver(r) PROVE LockInv'
  BY <1>9 DEF Deliver, Forget, At, server, LockInv, Place, Inside, OneSession
<1>10. ASSUME UNCHANGED <<pc, lock, client, open>> PROVE LockInv'
  BY <1>10 DEF LockInv, OneSession
<1>11. ASSUME NEW n \in NodeSet, RobotSets(n) PROVE LockInv'
  BY <1>10, <1>11 DEF RobotSets, request
<1>12. CASE ConnectionLost
  BY <1>12 DEF ConnectionLost, Drop, LockInv, OneSession
<1>13. CASE ServerGone
  BY <1>13 DEF ServerGone, Drop, LockInv, OneSession
<1>14. CASE ServerBack
  BY <1>10, <1>14 DEF ServerBack, request
<1>15. CASE UNCHANGED vars
  BY <1>10, <1>15 DEF vars, request
<1> QED BY <1>1, <1>2, <1>3, <1>4, <1>5, <1>6, <1>7, <1>8, <1>9, <1>11, <1>12, <1>13, <1>14, <1>15
        DEF Next, Serve

\* The process holds one connection to the controller or none, and knows the one it
\* holds: that _ensure tests _client before the await that connects does no harm, because
\* every caller is inside the lock.
THEOREM SessionSingle == Spec => []OneSession
<1>1. Init => LockInv
  BY DEF Init, LockInv, Place, Inside, OneSession
<1>2. LockInv => OneSession
  BY DEF LockInv
<1> QED BY <1>1, <1>2, LockStep, PTL DEF Spec

-----------------------------------------------------------------------------
LEMMA TypeGiveUp ==
    ASSUME TypeOK, LockInv, NEW r \in Requests, pc[r] \in Inside, GiveUp(r)
    PROVE  /\ client' \in {"none", "live", "dead"} /\ open' \in Int /\ lock' \in Seq(Requests)
           /\ pc' \in [Requests -> Place] /\ attempt' \in [Requests -> 0..Attempts]
           /\ outcome' \in [Requests -> {Failure, 0, 1}]
<1> USE KrlAssumption DEF TypeOK, Place
<1>1. client' \in {"none", "live", "dead"} /\ open' \in Int
  BY DEF GiveUp, Reset
<1>2. CASE r \in Pollers /\ attempt[r] < Attempts
  <2>1. attempt[r] + 1 \in 0..Attempts
    BY <1>2
  <2>2. /\ pc' = [pc EXCEPT ![r] = "ensure"] /\ attempt' = [attempt EXCEPT ![r] = attempt[r] + 1]
        /\ UNCHANGED <<lock, outcome>>
    BY <1>2 DEF GiveUp, Set
  <2> QED BY <1>1, <2>1, <2>2
<1>3. CASE ~(r \in Pollers /\ attempt[r] < Attempts)
  <2>1. lock \in Seq(Requests) /\ lock # <<>> /\ Tail(lock) \in Seq(Requests)
    BY DEF LockInv
  <2> QED BY <1>1, <1>3, <2>1 DEF GiveUp, Answered, Set
<1> QED BY <1>2, <1>3

LEMMA TypeNextNode ==
    ASSUME TypeOK, LockInv, NEW r \in Requests, pc[r] \in Inside, NextNode(r)
    PROVE  /\ client' \in {"none", "live", "dead"} /\ open' \in Int /\ lock' \in Seq(Requests)
           /\ pc' \in [Requests -> Place] /\ attempt' \in [Requests -> 0..Attempts]
           /\ outcome' \in [Requests -> {Failure, 0, 1}] /\ node' \in [Requests -> 0..Len(Nodes)]
<1>1. CASE node[r] < Len(Nodes)
  <2>1. node[r] + 1 \in 0..Len(Nodes)
    BY <1>1, KrlAssumption DEF TypeOK
  <2>2. /\ node' = [node EXCEPT ![r] = node[r] + 1] /\ pc' = [pc EXCEPT ![r] = "node"]
        /\ UNCHANGED <<client, open, lock, attempt, outcome>>
    BY <1>1 DEF NextNode, Set
  <2> QED BY <2>1, <2>2 DEF TypeOK, Place
<1>2. CASE ~(node[r] < Len(Nodes))
  <2>1. GiveUp(r) /\ UNCHANGED node
    BY <1>2 DEF NextNode
  <2> QED BY <2>1, TypeGiveUp DEF TypeOK
<1> QED BY <1>1, <1>2

\* A node that can be reached is a node of the variable, and holds one of its values.
LEMMA ReachableNode ==
    ASSUME TypeOK, NEW r \in Requests, Reachable(r)
    PROVE  Nodes[node[r]] \in NodeSet /\ value[Nodes[node[r]]] \in {0, 1}
BY DEF Reachable, TypeOK

LEMMA TypeStore ==
    ASSUME TypeOK, NEW r \in Requests, Reachable(r), Store(r)
    PROVE  value' \in [NodeSet -> 0..1] /\ wrote' \in [Requests -> SUBSET NodeSet]
<1> DEFINE n == Nodes[node[r]]
<1>1. n \in NodeSet /\ value \in [NodeSet -> 0..1] /\ value[n] \in 0..1
  BY ReachableNode DEF TypeOK
<1>2. value' = [value EXCEPT ![n] = 1 - value[n]] /\ wrote' = [wrote EXCEPT ![r] = wrote[r] \cup {n}]
  BY DEF Store, Set
<1> HIDE DEF n
<1>3. value' \in [NodeSet -> 0..1]
  BY <1>1, <1>2
<1> QED BY <1>1, <1>2, <1>3 DEF TypeOK

LEMMA TypeStep == TypeOK /\ LockInv /\ [Next]_vars => TypeOK'
<1> SUFFICES ASSUME TypeOK, LockInv, [Next]_vars PROVE TypeOK'
  OBVIOUS
<1> USE KrlAssumption DEF At, Set
<1>1. ASSUME NEW r \in Requests, Arrive(r) \/ Acquire(r) \/ Ensure(r) \/ Connect(r) \/ ReadType(r)
      PROVE  TypeOK'
  <2>1. Len(Nodes) \in Nat /\ Len(Nodes) >= 1
    OBVIOUS
  <2>2. CASE Arrive(r)
    BY <2>2 DEF Arrive, server, TypeOK
  <2>3. CASE Acquire(r)
    <3>1. (~up) \in BOOLEAN
      BY Zenon
    <3>2. troubled' \in [Requests -> BOOLEAN]
      BY <2>3, <3>1, Zenon DEF Acquire, TypeOK
    <3> QED BY <2>3, <3>2 DEF Acquire, server, TypeOK
  <2>4. CASE Ensure(r)
    BY <2>1, <2>4 DEF Ensure, server, TypeOK
  <2>5. CASE Connect(r)
    BY <2>5 DEF Connect, server, TypeOK
  <2>6. CASE ReadType(r)
    BY <2>6 DEF ReadType, server, TypeOK
  <2> QED BY <1>1, <2>2, <2>3, <2>4, <2>5, <2>6
<1>2. ASSUME NEW r \in Requests, Trouble(r)
      PROVE  trouble' \in 0..MaxTrouble /\ troubled' \in [Requests -> BOOLEAN]
  BY <1>2 DEF Trouble, TypeOK
<1>3. ASSUME NEW r \in Requests, ConnectFails(r) PROVE TypeOK'
  <2>1. trouble' \in 0..MaxTrouble /\ troubled' \in [Requests -> BOOLEAN]
    BY <1>2, <1>3 DEF ConnectFails, TypeOK
  <2> QED BY <1>3, <2>1, TypeGiveUp DEF ConnectFails, Inside, TypeOK, Place
<1>4. ASSUME NEW r \in Requests, Answered(r, outcome'[r]), outcome'[r] \in {Failure, 0, 1},
             pc[r] \in Inside
      PROVE  /\ pc' \in [Requests -> Place] /\ lock' \in Seq(Requests)
             /\ outcome' \in [Requests -> {Failure, 0, 1}]
  <2>1. lock \in Seq(Requests) /\ lock # <<>> /\ Tail(lock) \in Seq(Requests)
    BY <1>4 DEF LockInv
  <2> QED BY <1>4, <2>1 DEF Answered, Place, TypeOK
<1>5. ASSUME NEW r \in Requests, Read(r) PROVE TypeOK'
  <2>1. Answered(r, value[Nodes[node[r]]]) /\ value[Nodes[node[r]]] \in {0, 1}
    BY <1>5, ReachableNode DEF Read
  <2>2. outcome'[r] = value[Nodes[node[r]]]
    BY <2>1 DEF Answered, TypeOK
  <2> QED BY <1>4, <1>5, <2>1, <2>2 DEF Read, server, Inside, TypeOK, Place
<1>6. ASSUME NEW r \in Requests, NodeFails(r) PROVE TypeOK'
  <2>1. trouble' \in 0..MaxTrouble /\ troubled' \in [Requests -> BOOLEAN]
    BY <1>2, <1>6 DEF NodeFails, TypeOK
  <2> QED BY <1>6, <2>1, TypeNextNode DEF NodeFails, Inside, TypeOK, Place
<1>7. ASSUME NEW r \in Requests, Write(r) PROVE TypeOK'
  <2>1. Answered(r, 0)
    BY <1>7 DEF Write
  <2>2. outcome'[r] = 0
    BY <2>1 DEF Answered, TypeOK
  <2> QED BY <1>4, <1>7, <2>1, <2>2, TypeStore DEF Write, Inside, TypeOK, Place
<1>8. ASSUME NEW r \in Requests, WriteUnanswered(r) PROVE TypeOK'
  BY <1>2, <1>8, TypeStore, TypeNextNode DEF WriteUnanswered, Inside, TypeOK, Place
<1>9. ASSUME NEW r \in Requests, Deliver(r) PROVE TypeOK'
  <2>1. outcome[r] \in {Failure, 0, 1} /\ cell' \in 0..1
    BY <1>9 DEF Deliver, Failure, TypeOK
  <2> QED BY <1>9, <2>1 DEF Deliver, Forget, server, TypeOK
<1>10. ASSUME NEW n \in NodeSet, RobotSets(n) PROVE TypeOK'
  <2>1. value' = [value EXCEPT ![n] = 1 - value[n]] /\ value \in [NodeSet -> 0..1]
    BY <1>10 DEF RobotSets, TypeOK
  <2>2. value' \in [NodeSet -> 0..1]
    BY <2>1
  <2> QED BY <1>10, <2>2 DEF RobotSets, request, TypeOK
<1>11. ASSUME Hit PROVE troubled' \in [Requests -> BOOLEAN]
  BY <1>11, Zenon DEF Hit, TypeOK
<1>12. CASE ConnectionLost
  BY <1>11, <1>12 DEF ConnectionLost, Drop, TypeOK
<1>13. CASE ServerGone
  <2>1. up' = FALSE /\ trouble' = trouble + 1 /\ trouble < MaxTrouble
    BY <1>13 DEF ServerGone
  <2>2. client' \in {"none", "live", "dead"} /\ open' \in Int
    BY <1>13 DEF ServerGone, Drop, TypeOK
  <2>3. trouble' \in 0..MaxTrouble
    BY <2>1 DEF TypeOK
  <2>4. up' \in BOOLEAN
    BY <2>1, Zenon
  <2> QED BY <1>11, <1>13, <2>2, <2>3, <2>4 DEF ServerGone, TypeOK
<1>14. CASE ServerBack
  BY <1>14 DEF ServerBack, request, TypeOK
<1>15. CASE UNCHANGED vars
  BY <1>15 DEF vars, server, request, TypeOK
<1> QED BY <1>1, <1>3, <1>5, <1>6, <1>7, <1>8, <1>9, <1>10, <1>12, <1>13, <1>14, <1>15
        DEF Next, Serve

LEMMA LockAndTypes == Spec => [](TypeOK /\ LockInv)
<1>1. Init => TypeOK /\ LockInv
  <2>1. Init => TypeOK
    <3>1. 0 \in 0..Len(Nodes) /\ 0 \in 0..Attempts
      BY KrlAssumption
    <3> QED BY <3>1, KrlAssumption DEF Init, TypeOK
  <2>2. Init => LockInv
    BY DEF Init, LockInv, Place, Inside, OneSession
  <2> QED BY <2>1, <2>2
<1> QED BY <1>1, TypeStep, LockStep, PTL DEF Spec

\* Attempts and nodes are counted within the loops of read_var and write_var, for any
\* requests, nodes, attempts and failures.
THEOREM KrlTypes == Spec => []TypeOK
<1> QED BY LockAndTypes, PTL

-----------------------------------------------------------------------------
\* What a read knows that nothing has troubled: it was not refused by a controller that is
\* away, its second attempt has a session, and the nodes it is past do not exist.
Tried(r) ==
    /\ up /\ (attempt[r] > 1 => client # "dead")
    /\ attempt[r] > 1 /\ pc[r] = "node" =>
         /\ client = "live" /\ node[r] \in 1..Len(Nodes)
         /\ \A j \in 1..(node[r] - 1) : Nodes[j] \notin exists

ReadInv(r) ==
    /\ pc[r] # "write" /\ (pc[r] = "connect" => node[r] = 1)
    /\ pc[r] \in Inside /\ ~troubled[r] => Tried(r)
    /\ pc[r] = "reply" /\ outcome[r] = Failure => troubled[r]

\* A write that nothing has troubled changes its node and is answered in one step.
WriteInv(r) ==
    /\ pc[r] \in {"idle", "lock"} => wrote[r] = {}
    /\ pc[r] = "reply" /\ outcome[r] # Failure => wrote[r] # {}
    /\ ~troubled[r] => IF pc[r] = "reply" THEN \A m, n \in wrote[r] : m = n ELSE wrote[r] = {}

AnswerInv ==
    /\ exists # {} /\ \A r \in Pollers : ReadInv(r)
    /\ \A r \in Writers : WriteInv(r)

\* A request's step leaves the other requests' state alone; and the session, unless it is
\* inside the lock.
LEMMA OthersAlone ==
    ASSUME TypeOK, NEW r \in Requests, Arrive(r) \/ Serve(r) \/ WriteUnanswered(r)
    PROVE  /\ exists' = exists /\ up' = up
           /\ pc[r] \in Inside \/ client' = client
           /\ \A q \in Requests \ {r} :
                 /\ pc'[q] = pc[q] /\ attempt'[q] = attempt[q] /\ node'[q] = node[q]
                 /\ outcome'[q] = outcome[q] /\ wrote'[q] = wrote[q] /\ troubled'[q] = troubled[q]
<1> USE DEF TypeOK, At, Set, server
<1>1. CASE Arrive(r)
  BY <1>1 DEF Arrive
<1>2. CASE Acquire(r) \/ Ensure(r) \/ Connect(r) \/ ReadType(r)
  BY <1>2 DEF Acquire, Ensure, Connect, ReadType, Inside
<1>3. CASE ConnectFails(r)
  BY <1>3 DEF ConnectFails, GiveUp, Answered, Trouble, Inside
<1>4. CASE Read(r)
  BY <1>4 DEF Read, Answered
<1>5. CASE NodeFails(r)
  BY <1>5 DEF NodeFails, NextNode, GiveUp, Answered, Trouble, Inside
<1>6. CASE Write(r)
  BY <1>6 DEF Write, Store, Answered
<1>7. CASE WriteUnanswered(r)
  BY <1>7 DEF WriteUnanswered, Store, Trouble, NextNode, GiveUp, Answered, Inside
<1>8. CASE Deliver(r)
  BY <1>8 DEF Deliver, Forget
<1> QED BY <1>1, <1>2, <1>3, <1>4, <1>5, <1>6, <1>7, <1>8 DEF Serve

LEMMA OthersKept ==
    ASSUME TypeOK, LockInv, AnswerInv, NEW r \in Requests, NEW q \in Requests \ {r},
           Arrive(r) \/ Serve(r) \/ WriteUnanswered(r)
    PROVE  (q \in Pollers => ReadInv(q)') /\ (q \in Writers => WriteInv(q)')
<1>1. /\ exists' = exists /\ up' = up
      /\ pc[r] \in Inside \/ client' = client
      /\ pc'[q] = pc[q] /\ attempt'[q] = attempt[q] /\ node'[q] = node[q]
      /\ outcome'[q] = outcome[q] /\ wrote'[q] = wrote[q] /\ troubled'[q] = troubled[q]
  BY OthersAlone
<1>2. pc[r] \in Inside => pc[q] \notin Inside
  BY DEF LockInv
<1> QED BY <1>1, <1>2 DEF AnswerInv, ReadInv, WriteInv, Tried

\* The nodes of a variable that are all passed by cannot be all the controller has.
LEMMA SomeNode ==
    ASSUME TypeOK, exists # {}
    PROVE  \E j \in 1..Len(Nodes) : Nodes[j] \in exists
<1>1. DOMAIN Nodes = 1..Len(Nodes)
  BY KrlAssumption
<1> QED BY <1>1 DEF TypeOK, NodeSet

LEMMA ReadStep ==
    ASSUME TypeOK, LockInv, AnswerInv, Attempts > 1, NEW r \in Pollers, Arrive(r) \/ Serve(r)
    PROVE  ReadInv(r)'
<1> USE DEF At, Set
<1>0. /\ r \in Requests /\ r \notin Writers /\ ReadInv(r)
      /\ Len(Nodes) \in Nat /\ Len(Nodes) >= 1 /\ Attempts \in Nat
      /\ node[r] \in 0..Len(Nodes) /\ attempt[r] \in 0..Attempts
      /\ exists' = exists /\ up' = up
  BY KrlAssumption, OthersAlone DEF Requests, AnswerInv, TypeOK
<1>1. CASE Arrive(r) \/ Deliver(r)
  <2>1. pc'[r] \in {"lock", "idle"}
    BY <1>0, <1>1 DEF Arrive, Deliver, Forget, TypeOK
  <2> QED BY <2>1 DEF ReadInv, Inside
<1>2. CASE Acquire(r)
  <2>1. pc'[r] = "ensure" /\ attempt'[r] = 1
    BY <1>0, <1>2 DEF Acquire, TypeOK
  <2>2. troubled' = [troubled EXCEPT ![r] = ~up] /\ DOMAIN troubled = Requests
    BY <1>2 DEF Acquire, TypeOK
  <2>3. troubled'[r] \/ up
    BY <1>0, <2>2, Zenon
  <2> QED BY <1>0, <2>1, <2>3 DEF ReadInv, Tried
<1>3. CASE Ensure(r)
  <2>1. /\ pc[r] = "ensure" /\ pc'[r] = IF client = "none" THEN "connect" ELSE "node"
        /\ node'[r] = 1 /\ UNCHANGED <<client, attempt, troubled>>
    BY <1>0, <1>3 DEF Ensure, TypeOK
  <2>2. client \in {"none", "live", "dead"}
    BY DEF TypeOK
  <2> QED BY <1>0, <2>1, <2>2 DEF ReadInv, Tried, Inside
<1>4. CASE Connect(r)
  <2>1. /\ pc[r] = "connect" /\ pc'[r] = "node" /\ client' = "live" /\ node'[r] = node[r]
        /\ UNCHANGED <<attempt, troubled>>
    BY <1>0, <1>4 DEF Connect, TypeOK
  <2>2. node[r] = 1
    BY <1>0, <2>1 DEF ReadInv
  <2> QED BY <1>0, <2>1, <2>2 DEF ReadInv, Tried, Inside
<1>5. ASSUME GiveUp(r), troubled'[r] \/ (~troubled[r] /\ attempt[r] <= 1 /\ up) PROVE ReadInv(r)'
  <2>1. CASE attempt[r] < Attempts
    <3>1. pc'[r] = "ensure" /\ client' = "none" /\ attempt'[r] = attempt[r] + 1
      BY <1>0, <1>5, <2>1 DEF GiveUp, Reset, TypeOK
    <3> QED BY <1>0, <1>5, <3>1 DEF ReadInv, Tried
  <2>2. CASE ~(attempt[r] < Attempts)
    <3>1. pc'[r] = "reply" /\ troubled'[r]
      BY <1>0, <1>5, <2>2 DEF GiveUp, Answered, TypeOK
    <3> QED BY <3>1 DEF ReadInv, Inside
  <2> QED BY <2>1, <2>2
<1>6. CASE ConnectFails(r)
  <2>1. pc[r] = "connect" /\ GiveUp(r) /\ (troubled'[r] \/ (~up /\ troubled' = troubled))
    BY <1>0, <1>6 DEF ConnectFails, Trouble, TypeOK
  <2>2. troubled'[r]
    BY <1>0, <2>1 DEF ReadInv, Tried, Inside
  <2> QED BY <1>5, <2>1, <2>2
<1>7. CASE Read(r)
  <2>1. value[Nodes[node[r]]] \in {0, 1}
    BY <1>0, <1>7, ReachableNode DEF Read
  <2>2. pc'[r] = "reply" /\ outcome'[r] = value[Nodes[node[r]]]
    BY <1>0, <1>7 DEF Read, Answered, TypeOK
  <2> QED BY <2>1, <2>2 DEF ReadInv, Failure, Inside
<1>8. CASE NodeFails(r)
  <2>1. pc[r] = "node" /\ NextNode(r) /\ (troubled'[r] \/ (~Reachable(r) /\ troubled' = troubled))
    BY <1>0, <1>8 DEF NodeFails, Trouble, TypeOK, ReadInv
  <2>2. CASE node[r] < Len(Nodes)
    <3>1. /\ node'[r] = node[r] + 1 /\ pc'[r] = "node" /\ UNCHANGED <<client, attempt>>
      BY <1>0, <2>1, <2>2 DEF NextNode, TypeOK
    <3>2. CASE troubled'[r]
      BY <3>1, <3>2 DEF ReadInv
    <3>3. CASE ~troubled'[r]
      <4>1. ~troubled[r] /\ Tried(r) /\ ~Reachable(r)
        BY <1>0, <2>1, <3>3 DEF ReadInv, Inside
      <4>2. attempt[r] > 1 => /\ node'[r] \in 1..Len(Nodes)
                              /\ \A j \in 1..(node'[r] - 1) : Nodes[j] \notin exists
        BY <1>0, <2>1, <2>2, <3>1, <4>1 DEF Tried, Reachable
      <4> QED BY <1>0, <2>1, <3>1, <4>1, <4>2 DEF ReadInv, Tried
    <3> QED BY <3>2, <3>3
  <2>3. CASE ~(node[r] < Len(Nodes))
    <3>1. GiveUp(r)
      BY <2>1, <2>3 DEF NextNode
    <3>2. CASE troubled'[r]
      BY <1>5, <3>1, <3>2
    <3>3. CASE ~troubled'[r]
      <4>1. ~troubled[r] /\ Tried(r) /\ ~Reachable(r) /\ node[r] = Len(Nodes)
        BY <1>0, <2>1, <2>3, <3>3 DEF ReadInv, Inside
      <4>2. attempt[r] > 1 => \A j \in 1..Len(Nodes) : Nodes[j] \notin exists
        BY <1>0, <2>1, <4>1 DEF Tried, Reachable
      <4>3. attempt[r] <= 1 /\ up
        BY <1>0, <4>1, <4>2, SomeNode DEF AnswerInv, Tried
      <4> QED BY <1>5, <3>1, <4>1, <4>3
    <3> QED BY <3>2, <3>3
  <2> QED BY <2>2, <2>3
<1>9. CASE ReadType(r) \/ Write(r)
  BY <1>0, <1>9 DEF ReadType, Write, ReadInv
<1> QED BY <1>1, <1>2, <1>3, <1>4, <1>6, <1>7, <1>8, <1>9 DEF Serve

LEMMA WriteStep ==
    ASSUME TypeOK, LockInv, AnswerInv, NEW r \in Writers,
           Arrive(r) \/ Serve(r) \/ WriteUnanswered(r)
    PROVE  WriteInv(r)'
<1> USE DEF At, Set
<1>0. /\ r \in Requests /\ r \notin Pollers /\ WriteInv(r)
  BY KrlAssumption DEF Requests, AnswerInv
<1>1. CASE Arrive(r) \/ Ensure(r) \/ Connect(r) \/ ReadType(r)
  <2>1. UNCHANGED <<wrote, troubled>> /\ pc[r] # "reply" /\ pc'[r] # "reply"
    BY <1>0, <1>1 DEF Arrive, Ensure, Connect, ReadType, TypeOK
  <2>2. pc'[r] \in {"idle", "lock"} => pc[r] = "idle"
    BY <1>0, <1>1 DEF Arrive, Ensure, Connect, ReadType, TypeOK
  <2> QED BY <1>0, <2>1, <2>2 DEF WriteInv
<1>2. CASE Acquire(r)
  <2>1. pc[r] = "lock" /\ pc'[r] = "ensure" /\ wrote' = wrote
    BY <1>0, <1>2 DEF Acquire, TypeOK
  <2> QED BY <1>0, <2>1 DEF WriteInv
<1>3. ASSUME pc[r] \in Inside, GiveUp(r) \/ NextNode(r), troubled'[r] \/ wrote'[r] = {}
      PROVE  WriteInv(r)'
  <2>1. /\ pc'[r] \notin {"idle", "lock"} /\ (pc'[r] = "reply" => outcome'[r] = Failure)
    BY <1>0, <1>3 DEF GiveUp, NextNode, Answered, Inside, TypeOK
  <2> QED BY <1>3, <2>1 DEF WriteInv
<1>4. CASE ConnectFails(r)
  <2>1. /\ pc[r] = "connect" /\ GiveUp(r) /\ wrote' = wrote
        /\ troubled'[r] \/ troubled' = troubled
    BY <1>0, <1>4 DEF ConnectFails, Trouble, TypeOK
  <2> QED BY <1>0, <1>3, <2>1 DEF WriteInv, Inside
<1>5. CASE NodeFails(r)
  <2>1. /\ pc[r] \in {"node", "write"} /\ NextNode(r) /\ wrote' = wrote
        /\ troubled'[r] \/ troubled' = troubled
    BY <1>0, <1>5 DEF NodeFails, Trouble, TypeOK
  <2> QED BY <1>0, <1>3, <2>1 DEF WriteInv, Inside
<1>6. CASE Write(r)
  <2>1. /\ pc[r] = "write" /\ pc'[r] = "reply" /\ troubled' = troubled
        /\ wrote'[r] = wrote[r] \cup {Nodes[node[r]]}
    BY <1>0, <1>6 DEF Write, Store, Answered, TypeOK
  <2> QED BY <1>0, <2>1 DEF WriteInv
<1>7. CASE WriteUnanswered(r)
  <2>1. pc[r] = "write" /\ NextNode(r) /\ troubled'[r]
    BY <1>0, <1>7 DEF WriteUnanswered, Trouble, TypeOK
  <2> QED BY <1>3, <2>1 DEF Inside
<1>8. CASE Deliver(r)
  <2>1. pc'[r] = "idle" /\ wrote'[r] = {}
    BY <1>0, <1>8 DEF Deliver, Forget, TypeOK
  <2> QED BY <2>1 DEF WriteInv
<1>9. CASE Read(r)
  BY <1>0, <1>9 DEF Read
<1> QED BY <1>1, <1>2, <1>4, <1>5, <1>6, <1>7, <1>8, <1>9 DEF Serve

\* A session that is lost troubles the one request that is inside.
LEMMA LossStep ==
    ASSUME TypeOK, LockInv, AnswerInv, Hit, exists' = exists,
           UNCHANGED <<pc, attempt, node, outcome, wrote>>
    PROVE  AnswerInv'
<1>1. \A r \in Requests : troubled[r] => troubled'[r]
  BY Zenon DEF Hit
<1>2. \A r \in Requests : pc[r] \in Inside => troubled'[r]
  BY Zenon DEF Hit, LockInv
<1>3. ASSUME NEW r \in Pollers PROVE ReadInv(r)'
  BY <1>1, <1>2 DEF AnswerInv, ReadInv, Requests
<1>4. ASSUME NEW r \in Writers PROVE WriteInv(r)'
  BY <1>1 DEF AnswerInv, WriteInv, Requests
<1> QED BY <1>3, <1>4 DEF AnswerInv

LEMMA AnswerStep ==
    ASSUME Attempts > 1
    PROVE  TypeOK /\ LockInv /\ AnswerInv /\ [Next]_vars => AnswerInv'
<1> SUFFICES ASSUME TypeOK, LockInv, AnswerInv, [Next]_vars PROVE AnswerInv'
  OBVIOUS
<1>1. ASSUME NEW r \in Requests, Arrive(r) \/ Serve(r) \/ WriteUnanswered(r) PROVE AnswerInv'
  <2>1. exists' = exists
    BY <1>1, OthersAlone
  <2>2. r \in Pollers => Arrive(r) \/ Serve(r)
    BY <1>1 DEF WriteUnanswered, AnswerInv, ReadInv
  <2>3. \A q \in Pollers : ReadInv(q)'
    BY <1>1, <2>2, OthersKept, ReadStep DEF Requests
  <2>4. \A q \in Writers : WriteInv(q)'
    BY <1>1, OthersKept, WriteStep DEF Requests
  <2> QED BY <2>1, <2>3, <2>4 DEF AnswerInv
<1>2. ASSUME UNCHANGED <<exists, up, client, request>> PROVE AnswerInv'
  BY <1>2 DEF AnswerInv, ReadInv, WriteInv, Tried, request
<1>3. CASE ConnectionLost \/ ServerGone
  BY <1>3, LossStep DEF ConnectionLost, ServerGone
<1>4. CASE ServerBack
  BY <1>4 DEF ServerBack, AnswerInv, ReadInv, WriteInv, Tried, request
<1>5. ASSUME NEW n \in NodeSet, RobotSets(n) PROVE AnswerInv'
  BY <1>2, <1>5 DEF RobotSets
<1>6. CASE UNCHANGED vars
  BY <1>2, <1>6 DEF vars, server
<1> QED BY <1>1, <1>3, <1>4, <1>5, <1>6 DEF Next

LEMMA Answers ==
    ASSUME Attempts > 1
    PROVE  Spec => []AnswerInv
<1>1. Init => AnswerInv
  BY DEF Init, AnswerInv, ReadInv, WriteInv, Requests, Inside
<1>2. TypeOK /\ LockInv /\ AnswerInv /\ [Next]_vars => AnswerInv'
  BY AnswerStep
<1> QED BY <1>1, <1>2, LockAndTypes, PTL DEF Spec

\* With two attempts or more a session that was lost while nobody used it costs no read
\* its answer: only what goes wrong while a read has the lock makes it fail.
THEOREM IdleLossHarmless ==
    ASSUME Attempts > 1
    PROVE  Spec => []ErrorMeansTrouble
<1>1. AnswerInv => ErrorMeansTrouble
  BY DEF AnswerInv, ReadInv, ErrorMeansTrouble
<1> QED BY <1>1, Answers, PTL

\* A write that is answered as done has changed a node, and one that nothing troubled has
\* changed only that one.
THEOREM OneNodeWritten ==
    ASSUME Attempts > 1
    PROVE  Spec => []WriteReachesOneNode
<1>1. AnswerInv => WriteReachesOneNode
  <2> SUFFICES ASSUME AnswerInv, NEW r \in Writers, ~troubled[r]
               PROVE  Cardinality(wrote[r]) <= 1
    BY DEF AnswerInv, WriteInv, WriteReachesOneNode
  <2>1. \A m, n \in wrote[r] : m = n
    BY DEF AnswerInv, WriteInv
  <2>2. CASE wrote[r] = {}
    BY <2>2, FS_EmptySet
  <2>3. CASE wrote[r] # {}
    <3>1. PICK n : wrote[r] = {n}
      BY <2>1, <2>3
    <3>2. Cardinality({n}) = 1
      BY FS_Singleton, Zenon
    <3> QED BY <3>1, <3>2
  <2> QED BY <2>2, <2>3
<1> QED BY <1>1, Answers, PTL

=============================================================================
