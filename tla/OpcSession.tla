----------------------------- MODULE OpcSession -----------------------------
(***************************************************************************)
(* One OpcCollector and the OPC UA server it subscribes to.  The handler   *)
(* keeps a snapshot of all variables from two sources that know nothing of *)
(* each other: change notifications, queued by the server, and the direct  *)
(* reads of the session loop, whose answers arrive node by node.  Every    *)
(* change of the snapshot is put in the record queue.                      *)
(*                                                                         *)
(* The values a node takes are numbered in the order in which it takes     *)
(* them; numbers that are equal modulo Values are the same value.          *)
(***************************************************************************)
EXTENDS Integers, Sequences, FiniteSets

CONSTANTS
    Nodes,        \* scalar_nodes of the endpoint
    Values,       \* how many different values a node takes
    QueueSize,    \* queue_size: the server's queue of each monitored node
    MaxMisses,    \* read rounds that fill the 10 s of read_stale_ns
    MaxChanges,   \* bound: changes of value
    MaxOutages    \* bound: how often the server stops answering, or refuses

ASSUME OpcAssumption ==
    /\ Nodes # {} /\ IsFiniteSet(Nodes)
    /\ Values \in Nat \ {0} /\ QueueSize \in Nat \ {0} /\ MaxMisses \in Nat \ {0}
    /\ MaxChanges \in Nat /\ MaxOutages \in Nat

VARIABLES
    value,     \* server: the value each node has
    up,        \* server: it answers
    valid,     \* server: it still knows the session and its subscription
    pending,   \* server: notifications of each node not yet delivered
    base,      \* history: the values when the subscription was created
    pc,        \* where _run_session waits
    snapshot,  \* the handler's _snapshot; None where it has no key
    got,       \* answers of the read round in progress
    misses,    \* read rounds without an answer since the last good one
    full,      \* the record queue is full: BatchWriter lags
    record,    \* the values of the last record put in the queue
    skipped,   \* the latest record met a full queue
    changes, outages

serverVars == <<value, up, valid, pending, base>>
handlerVars == <<snapshot, record, skipped>>
loopVars == <<pc, got, misses>>
vars == <<serverVars, handlerVars, loopVars, full, changes, outages>>

None == 0
Version == Nat \ {None}
NoValues == [n \in Nodes |-> None]

\* An answer that has not come, and one that is an exception.
Open == -1
Failed == -2

Same(u, v) == (u = None) = (v = None) /\ u % Values = v % Values

Init ==
    /\ value = [n \in Nodes |-> 1]
    /\ up = TRUE /\ valid = FALSE
    /\ pending = [n \in Nodes |-> <<>>] /\ base = value
    /\ pc = "connect" /\ got = NoValues /\ misses = 0
    /\ snapshot = NoValues /\ record = NoValues /\ skipped = FALSE
    /\ full = FALSE /\ changes = 0 /\ outages = 0

-----------------------------------------------------------------------------
(* _ChangeHandler *)

\* put_nowait: the record is skipped when the queue is full.
Put(values) ==
    /\ record' = IF full THEN record ELSE values
    /\ skipped' = full

Connected == pc \in {"loop", "reading"}

\* Mutant: the key is overwritten before it is compared with the new value.
NotifyComparesNew(n) ==
    /\ Connected /\ up /\ valid /\ pending[n] # <<>>
    /\ pending' = [pending EXCEPT ![n] = Tail(@)]
    /\ snapshot' = [snapshot EXCEPT ![n] = Head(pending[n])]
    /\ UNCHANGED <<value, up, valid, base, record, skipped, loopVars, full, changes, outages>>

\* datachange_notification: the next queued value of n.
Notify(n) ==
    /\ Connected /\ up /\ valid /\ pending[n] # <<>>
    /\ pending' = [pending EXCEPT ![n] = Tail(@)]
    /\ snapshot' = [snapshot EXCEPT ![n] = Head(pending[n])]
    /\ IF Same(snapshot[n], Head(pending[n])) THEN UNCHANGED <<record, skipped>> ELSE Put(snapshot')
    /\ UNCHANGED <<value, up, valid, base, loopVars, full, changes, outages>>

-----------------------------------------------------------------------------
(* run and _run_session *)

Connect ==
    /\ pc = "connect" /\ up
    /\ pc' = "subscribe"
    /\ UNCHANGED <<serverVars, handlerVars, got, misses, full, changes, outages>>

\* Mutant: the handler of the last session is used again.
SubscribeKeepsHandler ==
    /\ pc = "subscribe" /\ up
    /\ valid' = TRUE /\ base' = value
    /\ pending' = [n \in Nodes |-> <<value[n]>>]
    /\ misses' = 0 /\ pc' = "loop"
    /\ UNCHANGED <<value, up, got, handlerVars, full, changes, outages>>

\* A new handler and a new subscription, which starts with the present values.
Subscribe ==
    /\ pc = "subscribe" /\ up
    /\ valid' = TRUE /\ base' = value
    /\ pending' = [n \in Nodes |-> <<value[n]>>]
    /\ snapshot' = NoValues /\ misses' = 0 /\ pc' = "loop"
    /\ UNCHANGED <<value, up, got, record, skipped, full, changes, outages>>

\* The server does not answer, or refuses: the credentials, one more session, a node.
ConnectFails ==
    /\ pc \in {"connect", "subscribe"} /\ pc' = "delay"
    /\ \/ ~up /\ UNCHANGED outages
       \/ outages < MaxOutages /\ outages' = outages + 1
    /\ UNCHANGED <<serverVars, handlerVars, got, misses, full, changes>>

\* reconnect_delay_s has passed.
Reconnect ==
    /\ pc = "delay" /\ pc' = "connect"
    /\ UNCHANGED <<serverVars, handlerVars, got, misses, full, changes, outages>>

\* snapshot_interval_s has passed: the cached snapshot is put once more.
Heartbeat ==
    /\ pc = "loop" /\ snapshot # NoValues
    /\ Put(snapshot)
    /\ UNCHANGED <<serverVars, snapshot, loopVars, full, changes, outages>>

\* read_interval_s has passed: gather reads every node.
ReadAll ==
    /\ pc = "loop"
    /\ got' = [n \in Nodes |-> Open] /\ pc' = "reading"
    /\ UNCHANGED <<serverVars, handlerVars, misses, full, changes, outages>>

Answer(n) ==
    /\ pc = "reading" /\ got[n] = Open
    /\ got' = [got EXCEPT ![n] = IF up /\ valid THEN value[n] ELSE Failed]
    /\ UNCHANGED <<serverVars, handlerVars, pc, misses, full, changes, outages>>

Answered == \A n \in Nodes : got[n] # Open
Good == {n \in Nodes : got[n] \in Version}

\* Mutant: force_refresh updates the snapshot and emits nothing.
RefreshSilent ==
    /\ pc = "reading" /\ Answered /\ Good # {}
    /\ snapshot' = [n \in Nodes |-> IF n \in Good THEN got[n] ELSE snapshot[n]]
    /\ got' = NoValues /\ misses' = 0 /\ pc' = "loop"
    /\ UNCHANGED <<serverVars, record, skipped, full, changes, outages>>

\* force_refresh
Refresh ==
    /\ pc = "reading" /\ Answered /\ Good # {}
    /\ snapshot' = [n \in Nodes |-> IF n \in Good THEN got[n] ELSE snapshot[n]]
    /\ Put(snapshot')
    /\ got' = NoValues /\ misses' = 0 /\ pc' = "loop"
    /\ UNCHANGED <<serverVars, full, changes, outages>>

\* Every read failed, and less than 10 s have passed since the last good one.
ReadMissed ==
    /\ pc = "reading" /\ Answered /\ Good = {} /\ misses + 1 < MaxMisses
    /\ got' = NoValues /\ misses' = misses + 1 /\ pc' = "loop"
    /\ UNCHANGED <<serverVars, handlerVars, full, changes, outages>>

\* Mutant: only a session that never had a good read is given up.
SessionEndsEmpty ==
    /\ pc = "reading" /\ Answered /\ Good = {} /\ snapshot = NoValues
    /\ got' = NoValues /\ pc' = "delay" /\ valid' = FALSE
    /\ UNCHANGED <<value, up, pending, base, handlerVars, misses, full, changes, outages>>

\* Every read failed for 10 s (slow rounds take longer, so any round may be the
\* last): ConnectionError ends the session, and the client closes it.
SessionEnds ==
    /\ pc = "reading" /\ Answered /\ Good = {}
    /\ got' = NoValues /\ pc' = "delay" /\ valid' = FALSE
    /\ UNCHANGED <<value, up, pending, base, handlerVars, misses, full, changes, outages>>

-----------------------------------------------------------------------------
(* The server and the queue's reader *)

\* A full queue of the server loses its oldest value: the client asks for no other rule.
Enqueued(q, v) == Append(IF Len(q) < QueueSize THEN q ELSE Tail(q), v)

Change(n) ==
    /\ changes < MaxChanges /\ changes' = changes + 1
    /\ value' = [value EXCEPT ![n] = @ + 1]
    /\ pending' = IF valid THEN [pending EXCEPT ![n] = Enqueued(@, value[n] + 1)] ELSE pending
    /\ UNCHANGED <<up, valid, base, handlerVars, loopVars, full, outages>>

\* The network is cut, or the server restarts and forgets its sessions.
ServerGoes ==
    /\ up /\ outages < MaxOutages /\ outages' = outages + 1
    /\ up' = FALSE /\ valid' \in {FALSE, valid}
    /\ UNCHANGED <<value, pending, base, handlerVars, loopVars, full, changes>>

ServerReturns ==
    /\ ~up /\ up' = TRUE
    /\ UNCHANGED <<value, valid, pending, base, handlerVars, loopVars, full, changes, outages>>

QueueTurns ==
    /\ full' = ~full
    /\ UNCHANGED <<serverVars, handlerVars, loopVars, changes, outages>>

-----------------------------------------------------------------------------
Reading == ReadAll \/ (\E n \in Nodes : Answer(n)) \/ Refresh \/ ReadMissed
Session == Connect \/ Subscribe \/ ConnectFails \/ Reconnect
LastRound == misses + 1 >= MaxMisses /\ SessionEnds

Next ==
    \/ Session \/ Reading \/ SessionEnds \/ Heartbeat
    \/ \E n \in Nodes : Notify(n) \/ Change(n)
    \/ ServerGoes \/ ServerReturns \/ QueueTurns

Spec == Init /\ [][Next]_vars

\* The event loop runs the session's coroutine, sleeps end, and timeout_s bounds every
\* request, so connecting and reading end one way or the other.  Ten seconds without a
\* good read are a bounded number of rounds.  Nothing is assumed of the server or the
\* queue, not even that notifications are delivered.
FairSpec == Spec /\ WF_vars(Session) /\ WF_vars(Reading) /\ WF_vars(LastRound)

-----------------------------------------------------------------------------
(* Properties *)

TypeOK ==
    /\ value \in [Nodes -> Version] /\ base \in [Nodes -> Version]
    /\ up \in BOOLEAN /\ valid \in BOOLEAN /\ full \in BOOLEAN /\ skipped \in BOOLEAN
    /\ pending \in [Nodes -> Seq(Version)] /\ \A n \in Nodes : Len(pending[n]) <= QueueSize
    /\ pc \in {"connect", "subscribe", "loop", "reading", "delay"}
    /\ snapshot \in [Nodes -> Nat] /\ record \in [Nodes -> Nat]
    /\ got \in [Nodes -> Version \cup {None, Open, Failed}]
    /\ (pc # "reading") = (got = NoValues)
    /\ misses \in 0..(MaxMisses - 1)
    /\ changes \in Nat /\ outages \in Nat

\* What was put in the queue last shows every value the handler knows, unless that
\* record met a full queue: "no actual change; skip emit" never hides a change, although
\* the snapshot has two sources.
RecordShowsSnapshot ==
    \A n \in Nodes : snapshot[n] # None /\ ~skipped => Same(record[n], snapshot[n])

\* Nothing of an earlier session is reported as a value of this one.
SnapshotOfSession ==
    Connected => \A n \in Nodes : snapshot[n] # None => snapshot[n] >= base[n]

\* With the server answering and room in the queue for good, the records come to show
\* the present value of every node, whatever was overwritten, skipped or lost before.
Steady == <>[](up /\ ~full)
Current == \A n \in Nodes : Same(record[n], value[n])

Converges == Steady => <>[]Current

\* A session nobody answers, because the server is gone or has forgotten it, does not
\* stay: it ends and the collector connects again.
Mute == Connected /\ ~(up /\ valid)

MuteSessionEnds == Mute ~> ~Mute

=============================================================================
