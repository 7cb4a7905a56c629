----------------------------- MODULE KrlReader -----------------------------
(***************************************************************************)
(* KRLReader of the web server: one OPC UA session to a robot's controller *)
(* behind an asyncio lock, shared by the reads of the dashboard, which     *)
(* asks for every ArcTech variable each two seconds whether or not the     *)
(* last poll has been answered, and by the writes of POST /api/krl-var.    *)
(*                                                                         *)
(* One KRL variable with two values, and the nodes it may live under,      *)
(* tried in order; what clients write is of the variable's type and the    *)
(* controller accepts it.                                                  *)
(***************************************************************************)
EXTENDS Integers, Sequences, FiniteSets

CONSTANTS
    Pollers,     \* requests of agPoll that may be under way at once
    Writers,     \* clients that write the variable
    Nodes,       \* _krl_node_id: the nodes to try, in order
    Attempts,    \* attempts of read_var
    MaxTrouble   \* bound: connections lost, servers gone, requests timed out

ASSUME KrlAssumption ==
    /\ Pollers \cap Writers = {} /\ Nodes \in Seq(STRING) /\ Nodes # <<>>
    /\ Attempts \in Nat \ {0} /\ MaxTrouble \in Nat

VARIABLES
    exists,    \* the nodes the controller has
    value,     \* what each of them holds
    up,        \* the controller answers
    trouble,
    client,    \* _client: none, live, or dead since its connection was lost
    open,      \* connections this process holds
    lock,      \* _lock: those that wait for it in order; the first one owns it
    pc,        \* where each request is
    attempt,   \* attempt of read_var
    node,      \* how many nodes it has tried in this attempt
    outcome,   \* what it is answered
    wrote,     \* the nodes a write has changed
    troubled,  \* something went wrong since it has the lock
    cell       \* what the dashboard shows

server == <<exists, value, up, trouble>>
request == <<pc, attempt, node, outcome, wrote, troubled>>
vars == <<server, client, open, lock, request, cell>>

Requests == Pollers \cup Writers
NodeSet == {Nodes[i] : i \in DOMAIN Nodes}
Failure == -1

Init ==
    /\ exists \in (SUBSET NodeSet) \ {{}} /\ value = [n \in NodeSet |-> 0]
    /\ up = TRUE /\ trouble = 0
    /\ client = "none" /\ open = 0 /\ lock = <<>>
    /\ pc = [r \in Requests |-> "idle"]
    /\ attempt = [r \in Requests |-> 0] /\ node = [r \in Requests |-> 0]
    /\ outcome = [r \in Requests |-> 0] /\ wrote = [r \in Requests |-> {}]
    /\ troubled = [r \in Requests |-> FALSE]
    /\ cell = 0

\* r is the request at this point, and goes on there.
At(r, here, there) == pc[r] = here /\ pc' = [pc EXCEPT ![r] = there]
Set(f, r, v) == [f EXCEPT ![r] = v]

-----------------------------------------------------------------------------
(* A request: handle_krl_read, handle_krl_write *)

Arrive(r) ==
    /\ At(r, "idle", "lock") /\ lock' = Append(lock, r)
    /\ UNCHANGED <<server, client, open, attempt, node, outcome, wrote, troubled, cell>>

\* Mutant: the lock is not taken.
AcquireUnlocked(r) ==
    /\ At(r, "lock", "ensure")
    /\ attempt' = Set(attempt, r, 1) /\ troubled' = Set(troubled, r, ~up)
    /\ UNCHANGED <<server, client, open, lock, node, outcome, wrote, cell>>

\* async with self._lock: an asyncio.Lock wakes those that wait in order.
Acquire(r) ==
    /\ At(r, "lock", "ensure") /\ lock # <<>> /\ r = Head(lock)
    /\ attempt' = Set(attempt, r, 1) /\ troubled' = Set(troubled, r, ~up)
    /\ UNCHANGED <<server, client, open, lock, node, outcome, wrote, cell>>

\* The lock is released and the handler answers.
Answered(r, v) ==
    /\ pc' = Set(pc, r, "reply") /\ outcome' = Set(outcome, r, v)
    /\ lock' = Tail(lock)

\* _ensure
Ensure(r) ==
    /\ At(r, "ensure", IF client = "none" THEN "connect" ELSE "node")
    /\ node' = Set(node, r, 1)
    /\ UNCHANGED <<server, client, open, lock, attempt, outcome, wrote, troubled, cell>>

Connect(r) ==
    /\ up /\ At(r, "connect", "node")
    /\ client' = "live" /\ open' = open + 1
    /\ UNCHANGED <<server, lock, attempt, node, outcome, wrote, troubled, cell>>

\* _reset: disconnect may raise, the reference is dropped all the same.
Reset == client' = "none" /\ open' = IF client = "live" THEN open - 1 ELSE open

\* Mutant: the session is kept after a failure.
GiveUpKeepingSession(r) ==
    /\ IF r \in Pollers /\ attempt[r] < Attempts
       THEN /\ pc' = Set(pc, r, "ensure") /\ attempt' = Set(attempt, r, attempt[r] + 1)
            /\ UNCHANGED <<lock, outcome>>
       ELSE Answered(r, Failure) /\ UNCHANGED attempt
    /\ UNCHANGED <<client, open>>

\* Mutant: a failure is answered without a second attempt.
GiveUpAtOnce(r) ==
    /\ Answered(r, Failure) /\ UNCHANGED attempt
    /\ IF r \in Pollers THEN Reset ELSE UNCHANGED <<client, open>>

\* An attempt has failed.  read_var resets the session and tries again; write_var raises.
GiveUp(r) ==
    IF r \in Pollers
    THEN /\ Reset
         /\ IF attempt[r] < Attempts
            THEN /\ pc' = Set(pc, r, "ensure") /\ attempt' = Set(attempt, r, attempt[r] + 1)
                 /\ UNCHANGED <<lock, outcome>>
            ELSE Answered(r, Failure) /\ UNCHANGED attempt
    ELSE Answered(r, Failure) /\ UNCHANGED <<client, open, attempt>>

\* A request to the controller times out, or is refused.
Trouble(r) ==
    /\ trouble < MaxTrouble /\ trouble' = trouble + 1
    /\ troubled' = Set(troubled, r, TRUE)

ConnectFails(r) ==
    /\ pc[r] = "connect" /\ GiveUp(r)
    /\ \/ ~up /\ UNCHANGED <<trouble, troubled>>
       \/ Trouble(r)
    /\ UNCHANGED <<exists, value, up, node, wrote, cell>>

Reachable(r) == client = "live" /\ Nodes[node[r]] \in exists

\* The except branch of one node: on to the next one, if there is one.
NextNode(r) ==
    IF node[r] < Len(Nodes)
    THEN /\ node' = Set(node, r, node[r] + 1) /\ pc' = Set(pc, r, "node")
         /\ UNCHANGED <<client, open, lock, attempt, outcome>>
    ELSE GiveUp(r) /\ UNCHANGED node

\* read_value of read_var
Read(r) ==
    /\ r \in Pollers /\ pc[r] = "node" /\ Reachable(r)
    /\ Answered(r, value[Nodes[node[r]]])
    /\ UNCHANGED <<server, client, open, attempt, node, wrote, troubled, cell>>

\* read_value of write_var, which finds out the type of the value
ReadType(r) ==
    /\ r \in Writers /\ At(r, "node", "write") /\ Reachable(r)
    /\ UNCHANGED <<server, client, open, lock, attempt, node, outcome, wrote, troubled, cell>>

\* The node does not exist, the session is dead, or the request times out; whichever it
\* is, the next node is tried.
NodeFails(r) ==
    /\ pc[r] \in {"node", "write"} /\ NextNode(r)
    /\ \/ ~Reachable(r) /\ UNCHANGED <<trouble, troubled>>
       \/ Trouble(r)
    /\ UNCHANGED <<exists, value, up, wrote, cell>>

Store(r) ==
    /\ value' = [value EXCEPT ![Nodes[node[r]]] = 1 - @]
    /\ wrote' = Set(wrote, r, wrote[r] \cup {Nodes[node[r]]})

\* Mutant: write_var goes on with the next node after a write that succeeded.
WriteWithoutReturn(r) ==
    /\ pc[r] = "write" /\ Reachable(r) /\ Store(r) /\ NextNode(r)
    /\ UNCHANGED <<exists, up, trouble, troubled, cell>>

\* write_value
Write(r) ==
    /\ pc[r] = "write" /\ Reachable(r) /\ Store(r) /\ Answered(r, 0)
    /\ UNCHANGED <<exists, up, trouble, client, open, attempt, node, troubled, cell>>

\* write_value took effect, but its answer did not arrive in time.
WriteUnanswered(r) ==
    /\ pc[r] = "write" /\ Reachable(r) /\ Store(r) /\ Trouble(r) /\ NextNode(r)
    /\ UNCHANGED <<exists, up, cell>>

\* The request is over, its locals are gone.
Forget(r) ==
    /\ At(r, "reply", "idle")
    /\ attempt' = Set(attempt, r, 0) /\ node' = Set(node, r, 0)
    /\ outcome' = Set(outcome, r, 0) /\ wrote' = Set(wrote, r, {})
    /\ troubled' = Set(troubled, r, FALSE)

\* Mutant: agState remembers that the cell was filled, and not with what.
DeliverOnce(r) ==
    /\ Forget(r) /\ UNCHANGED <<server, client, open, lock>>
    /\ cell' = IF r \in Pollers /\ outcome[r] # Failure /\ cell = 0 THEN outcome[r] ELSE cell

\* The reply reaches the page, in no order with the replies of other requests.  agPoll
\* leaves the cell as it is on an error.
Deliver(r) ==
    /\ Forget(r) /\ UNCHANGED <<server, client, open, lock>>
    /\ cell' = IF r \in Pollers /\ outcome[r] # Failure THEN outcome[r] ELSE cell

-----------------------------------------------------------------------------
(* The robot's controller and the network *)

RobotSets(n) ==
    /\ n \in exists /\ value' = [value EXCEPT ![n] = 1 - @]
    /\ UNCHANGED <<exists, up, trouble, client, open, lock, request, cell>>

\* Whoever has the lock is troubled by it.
Hit == troubled' = [r \in Requests |-> troubled[r] \/ (lock # <<>> /\ r = Head(lock))]

Drop == client' = "dead" /\ open' = open - 1

ConnectionLost ==
    /\ client = "live" /\ Drop /\ Hit
    /\ trouble < MaxTrouble /\ trouble' = trouble + 1
    /\ UNCHANGED <<exists, value, up, lock, pc, attempt, node, outcome, wrote, cell>>

ServerGone ==
    /\ up /\ up' = FALSE /\ Hit
    /\ IF client = "live" THEN Drop ELSE UNCHANGED <<client, open>>
    /\ trouble < MaxTrouble /\ trouble' = trouble + 1
    /\ UNCHANGED <<exists, value, lock, pc, attempt, node, outcome, wrote, cell>>

ServerBack ==
    /\ ~up /\ up' = TRUE
    /\ UNCHANGED <<exists, value, trouble, client, open, lock, request, cell>>

-----------------------------------------------------------------------------
Serve(r) ==
    \/ Acquire(r) \/ Ensure(r) \/ Connect(r) \/ ConnectFails(r) \/ Read(r) \/ ReadType(r)
    \/ NodeFails(r) \/ Write(r) \/ Deliver(r)

Next ==
    \/ \E r \in Requests : Arrive(r) \/ Serve(r) \/ WriteUnanswered(r)
    \/ \E n \in NodeSet : RobotSets(n)
    \/ ConnectionLost \/ ServerGone \/ ServerBack

Spec == Init /\ [][Next]_vars

\* The event loop runs ready coroutines; every OPC UA request ends within the client's
\* timeout of 10 s; HTTP answers arrive; an open page polls every two seconds.  Nothing
\* is assumed of the controller, nor that anybody writes.
FairSpec ==
    /\ Spec /\ \A r \in Requests : WF_vars(Serve(r))
    /\ \A r \in Pollers : WF_vars(Arrive(r))

-----------------------------------------------------------------------------
(* Properties *)

TypeOK ==
    /\ exists \in SUBSET NodeSet /\ value \in [NodeSet -> 0..1]
    /\ up \in BOOLEAN /\ trouble \in 0..MaxTrouble
    /\ client \in {"none", "live", "dead"} /\ open \in Int
    /\ lock \in Seq(Requests)
    /\ pc \in [Requests -> {"idle", "lock", "ensure", "connect", "node", "write", "reply"}]
    /\ attempt \in [Requests -> 0..Attempts] /\ node \in [Requests -> 0..Len(Nodes)]
    /\ outcome \in [Requests -> {Failure, 0, 1}]
    /\ wrote \in [Requests -> SUBSET NodeSet] /\ troubled \in [Requests -> BOOLEAN]
    /\ cell \in 0..1

\* The process never holds a connection it has no reference to: however requests overlap
\* and fail, what is open is the one session of _client, and controllers allow few.
OneSession == open = IF client = "live" THEN 1 ELSE 0

\* A session that was lost while nobody used it costs no read its answer: read_var's
\* second attempt, on a new session, finds the value.
ErrorMeansTrouble ==
    \A r \in Pollers : pc[r] = "reply" /\ outcome[r] = Failure => troubled[r]

\* A write that is answered as done has changed a node; none changes two nodes, as a
\* variable may live under R1 and under System, unless an answer was lost on the way.
WriteReachesOneNode ==
    \A r \in Writers :
        /\ pc[r] = "reply" /\ outcome[r] # Failure => wrote[r] # {}
        /\ ~troubled[r] => Cardinality(wrote[r]) <= 1

\* write_var never drops a dead session, yet writes come to succeed again once the
\* controller stays up, because the reads of an open page drop it.
WritesRecover ==
    <>[]up => <>[](\A r \in Writers : pc[r] = "reply" => outcome[r] # Failure)

\* The page comes to show the variable's value, though polls overlap, their replies
\* overtake one another, and a timeout may have answered with another node's value.
FirstNode == Nodes[CHOOSE i \in DOMAIN Nodes :
                      Nodes[i] \in exists /\ \A j \in 1..(i - 1) : Nodes[j] \notin exists]

CellConverges ==
    \A v \in [NodeSet -> 0..1] : <>[](up /\ value = v) => <>[](cell = v[FirstNode])

=============================================================================
