--------------------------- MODULE StoreAndForward ---------------------------
(***************************************************************************)
(* What the spool promises for each record, whatever tasks, statements and *)
(* transactions bring it about: once a record is durable only storing it   *)
(* in the database, or its age, ends its stay; a stored record stays       *)
(* stored, and a record that is gone never comes back.                     *)
(***************************************************************************)
EXTENDS Integers

CONSTANT Record   \* numbered in the order in which they are produced

VARIABLES status, horizon   \* records up to horizon may be purged

Status == {"new", "held", "durable", "stored", "gone"}

Init == status = [r \in Record |-> "new"] /\ horizon = 0

\* A record a collector produced is queued, or refused because the queue is full.
Accept(a, b) == a = "new" /\ b \in {"held", "gone"}

\* In memory: it may be spooled, stored, or lost with the process.
Leave(a, b) == a = "held" /\ b \in {"durable", "stored", "gone"}

\* On disk: it is replayed, or purged once it is old.
Replay(a, b) == a = "durable" /\ b = "stored"
Purge(a, b, r) == a = "durable" /\ b = "gone" /\ r <= horizon

May(a, b, r) == a = b \/ Accept(a, b) \/ Leave(a, b) \/ Replay(a, b) \/ Purge(a, b, r)

\* A batch moves many records at once.
Move ==
    /\ status' \in [Record -> Status]
    /\ \A r \in Record : May(status[r], status'[r], r)
    /\ UNCHANGED horizon

Age == horizon' = horizon + 1 /\ UNCHANGED status

Next == Move \/ Age

Spec == Init /\ [][Next]_<<status, horizon>>

=============================================================================
