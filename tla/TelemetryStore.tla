--------------------------- MODULE TelemetryStore ---------------------------
(***************************************************************************)
(* Store-and-forward of the data-collect supervisor: collectors put        *)
(* records in one bounded asyncio queue, BatchWriter.run drains it and     *)
(* inserts batches in TimescaleDB, a batch whose insert failed goes to the *)
(* SQLite spool, and run_spool_retry replays the spool.                    *)
(*                                                                         *)
(* Records are numbered in the order in which they are produced.  Each     *)
(* await of the two tasks ends an action: what happens between two awaits  *)
(* is one atomic step of the event loop.                                   *)
(***************************************************************************)
EXTENDS Integers, Sequences, FiniteSets

CONSTANTS
    MaxRecords,  \* bound: how many records the collectors produce
    QueueMax,    \* storage.queue_maxsize
    BatchSize,   \* storage.batch_size
    DrainMax,    \* max_batch of Spool.drain
    Poison,      \* records the table rejects (a NaN in the values is no jsonb)
    MaxOutages,  \* bound: how often the database goes away
    MaxStops,    \* bound: how often the process is killed or shut down
    MaxFaults    \* bound: how often SQLite fails to write (disk full, I/O error)

Record == 1..MaxRecords

ASSUME BoundsAssumption ==
    /\ MaxRecords \in Nat /\ QueueMax \in Nat \ {0}
    /\ BatchSize \in Nat \ {0} /\ DrainMax \in Nat \ {0}
    /\ MaxOutages \in Nat /\ MaxStops \in Nat /\ MaxFaults \in Nat
    /\ Poison \subseteq Record

VARIABLES
    produced,  \* records produced so far
    queue,     \* record_queue
    batch,     \* BatchWriter.run's local batch
    wpc,       \* where BatchWriter.run waits
    spool,     \* rows the SQLite connection sees, those of the open transaction included
    disk,      \* rows SQLite has committed
    nextId,    \* the spool's AUTOINCREMENT
    rbatch,    \* rows run_spool_retry has drained
    rpc,       \* where run_spool_retry waits
    db,        \* rows of radian_os.telemetry, per record
    dbUp,      \* the database answers
    proc,      \* the supervisor process: up, stopping (stop_event set) or down
    horizon,   \* records up to this one are older than purge_old's seven days
    outages, stops, faults

queueVars  == <<produced, queue>>
writerVars == <<batch, wpc>>
spoolVars  == <<spool, disk, nextId>>
retryVars  == <<rbatch, rpc>>
dbVars     == <<db, dbUp, outages>>
procVars   == <<proc, horizon, stops>>
vars == <<queueVars, writerVars, spoolVars, retryVars, dbVars, procVars, faults>>

Row == [id: Nat \ {0}, rec: Record]

Members(s)  == {s[i] : i \in DOMAIN s}
RecsOf(rows) == {x.rec : x \in rows}
IdsOf(rows)  == {x.id : x \in rows}

Stored == {r \in Record : db[r] > 0}
Running == proc # "down"

\* Every row of the spool somebody still knows of.
Rows == spool \cup disk \cup rbatch

\* Where a record still waits: what _flush has inserted in the spool lives there,
\* not in the batch that is cleared after the commit.
Unwritten == Members(queue) \cup (IF wpc = "commit" THEN {} ELSE Members(batch))
Held == Unwritten \cup RecsOf(spool) \cup RecsOf(rbatch)
Aged   == {r \in Record : r <= horizon}

WriterPc == {"poll", "insert", "answer", "spool", "commit", "dead"}
RetryPc  == {"sleep", "insert", "answer", "delete", "commit", "purge", "purged"}

TypeOK ==
    /\ produced \in 0..MaxRecords
    /\ queue \in Seq(Record) /\ Len(queue) <= QueueMax
    /\ batch \in Seq(Record) /\ Len(batch) <= BatchSize
    /\ wpc \in WriterPc
    /\ spool \subseteq Row /\ disk \subseteq Row /\ rbatch \subseteq Row
    /\ nextId \in Nat \ {0}
    /\ rpc \in RetryPc
    /\ db \in [Record -> Nat]
    /\ dbUp \in BOOLEAN /\ proc \in {"up", "stopping", "down"}
    /\ horizon \in Nat
    /\ outages \in Nat /\ stops \in Nat /\ faults \in Nat

\* The process has just started on an empty spool; create_pool needs the database.
Init ==
    /\ produced = 0 /\ queue = <<>>
    /\ batch = <<>> /\ wpc = "poll"
    /\ spool = {} /\ disk = {} /\ nextId = 1
    /\ rbatch = {} /\ rpc = "sleep"
    /\ db = [r \in Record |-> 0]
    /\ dbUp = TRUE /\ proc = "up"
    /\ horizon = 0
    /\ outages = 0 /\ stops = 0 /\ faults = 0

-----------------------------------------------------------------------------
(* Collectors and the log handler *)

\* put_nowait: a full queue raises QueueFull and the record is dropped.
Emit ==
    /\ Running /\ produced < MaxRecords
    /\ produced' = produced + 1
    /\ queue' = IF Len(queue) < QueueMax THEN Append(queue, produced + 1) ELSE queue
    /\ UNCHANGED <<writerVars, spoolVars, retryVars, dbVars, procVars, faults>>

-----------------------------------------------------------------------------
(* BatchWriter.run and _flush *)

\* get_nowait until the batch is full or the queue is empty.
Room == IF BatchSize - Len(batch) <= Len(queue) THEN BatchSize - Len(batch) ELSE Len(queue)

DrainQueue ==
    /\ batch' = batch \o SubSeq(queue, 1, Room)
    /\ queue' = SubSeq(queue, Room + 1, Len(queue))

\* The flush interval has not passed: keep what was drained and sleep.
WriterPoll ==
    /\ Running /\ wpc = "poll"
    /\ DrainQueue
    /\ Len(batch') < BatchSize
    /\ UNCHANGED <<produced, wpc, spoolVars, retryVars, dbVars, procVars, faults>>

\* Mutant: only a full batch is flushed, the interval is forgotten.
WriterFlushFullOnly ==
    /\ Running /\ wpc = "poll"
    /\ DrainQueue
    /\ Len(batch') = BatchSize
    /\ wpc' = "insert"
    /\ UNCHANGED <<produced, spoolVars, retryVars, dbVars, procVars, faults>>

\* A full batch, or a non-empty one after the flush interval.
WriterFlush ==
    /\ Running /\ wpc = "poll"
    /\ DrainQueue
    /\ batch' # <<>>
    /\ wpc' = "insert"
    /\ UNCHANGED <<produced, spoolVars, retryVars, dbVars, procVars, faults>>

\* ON CONFLICT DO NOTHING never applies: the table has no unique index.
Inserted(recs) == [r \in Record |-> IF r \in recs THEN db[r] + 1 ELSE db[r]]

\* The statement commits on the server; its answer is still on the way.
InsertCommits ==
    /\ Running /\ wpc = "insert" /\ dbUp
    /\ Members(batch) \cap Poison = {}
    /\ db' = Inserted(Members(batch))
    /\ wpc' = "answer"
    /\ UNCHANGED <<queueVars, batch, spoolVars, retryVars, dbUp, outages, procVars, faults>>

InsertAnswers ==
    /\ Running /\ wpc = "answer" /\ dbUp
    /\ batch' = <<>> /\ wpc' = "poll"
    /\ UNCHANGED <<queueVars, spoolVars, retryVars, dbVars, procVars, faults>>

\* Mutant: the failure is logged and the batch cleared without spooling it.
InsertFailsUnspooled ==
    /\ Running /\ wpc \in {"insert", "answer"} /\ ~dbUp
    /\ batch' = <<>> /\ wpc' = "poll"
    /\ UNCHANGED <<queueVars, spoolVars, retryVars, dbVars, procVars, faults>>

\* Connection lost or command_timeout, before or after the commit, or a rejected row.
InsertFails ==
    /\ Running
    /\ \/ wpc \in {"insert", "answer"} /\ ~dbUp
       \/ wpc = "insert" /\ Members(batch) \cap Poison # {}
    /\ wpc' = "spool"
    /\ UNCHANGED <<queueVars, batch, spoolVars, retryVars, dbVars, procVars, faults>>

-----------------------------------------------------------------------------
(* Spool.write, called by _flush *)

\* Mutant: the batch is written to the spool last record first.
NewRowsReversed(n) == {[id |-> nextId + Len(batch) - i, rec |-> batch[i]] : i \in 1..n}

\* The rows executemany inserts for the first n records of the batch.
NewRows(n) == {[id |-> nextId + i - 1, rec |-> batch[i]] : i \in 1..n}

SpoolInsert ==
    /\ Running /\ wpc = "spool"
    /\ spool' = spool \cup NewRows(Len(batch))
    /\ nextId' = nextId + Len(batch)
    /\ wpc' = "commit"
    /\ UNCHANGED <<queueVars, batch, disk, retryVars, dbVars, procVars, faults>>

\* One connection serves both tasks: a commit commits what either has written.
SpoolCommit ==
    /\ Running /\ wpc = "commit"
    /\ disk' = spool
    /\ batch' = <<>> /\ wpc' = "poll"
    /\ UNCHANGED <<queueVars, spool, nextId, retryVars, dbVars, procVars, faults>>

\* SQLite raises.  The rows before the failing one stay in the open transaction,
\* or SQLite rolls all of it back.  Nothing catches the exception: the task ends,
\* its batch with it, and the supervisor does not start it again.
SpoolFails ==
    /\ Running /\ wpc \in {"spool", "commit"}
    /\ faults < MaxFaults /\ faults' = faults + 1
    /\ \/ spool' = disk
       \/ wpc = "commit" /\ spool' = spool
       \/ wpc = "spool" /\ \E n \in 0..(Len(batch) - 1) : spool' = spool \cup NewRows(n)
    /\ nextId' = nextId + Len(batch)
    /\ batch' = <<>> /\ wpc' = "dead"
    /\ UNCHANGED <<queueVars, disk, retryVars, dbVars, procVars>>

-----------------------------------------------------------------------------
(* BatchWriter.run_spool_retry *)

\* ORDER BY id ASC LIMIT max_batch
Oldest == {x \in spool : Cardinality({y \in spool : y.id < x.id}) < DrainMax}

\* pending_count is 0: sleep again.
RetryIdle ==
    /\ Running /\ rpc = "sleep" /\ spool = {}
    /\ UNCHANGED vars

\* pending_count and drain only read, and this task alone deletes rows.
RetryDrain ==
    /\ Running /\ rpc = "sleep" /\ spool # {}
    /\ rbatch' = Oldest /\ rpc' = "insert"
    /\ UNCHANGED <<queueVars, writerVars, spoolVars, dbVars, procVars, faults>>

RetryCommits ==
    /\ Running /\ rpc = "insert" /\ dbUp
    /\ RecsOf(rbatch) \cap Poison = {}
    /\ db' = Inserted(RecsOf(rbatch))
    /\ rpc' = "answer"
    /\ UNCHANGED <<queueVars, writerVars, spoolVars, rbatch, dbUp, outages, procVars, faults>>

RetryAnswers ==
    /\ Running /\ rpc = "answer" /\ dbUp
    /\ rpc' = "delete"
    /\ UNCHANGED <<queueVars, writerVars, spoolVars, rbatch, dbVars, procVars, faults>>

\* Mutant: the replayed rows are not confirmed.
ConfirmDeleteSkipped ==
    /\ Running /\ rpc = "delete"
    /\ rpc' = "commit"
    /\ UNCHANGED <<queueVars, writerVars, spoolVars, rbatch, dbVars, procVars, faults>>

\* Spool.confirm_drain: DELETE ... WHERE id IN (ids)
ConfirmDelete ==
    /\ Running /\ rpc = "delete"
    /\ spool' = {x \in spool : x.id \notin IdsOf(rbatch)}
    /\ rpc' = "commit"
    /\ UNCHANGED <<queueVars, writerVars, disk, nextId, rbatch, dbVars, procVars, faults>>

ConfirmCommit ==
    /\ Running /\ rpc = "commit"
    /\ disk' = spool
    /\ rbatch' = {} /\ rpc' = "purge"
    /\ UNCHANGED <<queueVars, writerVars, spool, nextId, dbVars, procVars, faults>>

\* Mutant: the purge has no cutoff.
PurgeDeleteAll ==
    /\ Running /\ rpc = "purge"
    /\ spool' = {} /\ rpc' = "purged"
    /\ UNCHANGED <<queueVars, writerVars, disk, nextId, rbatch, dbVars, procVars, faults>>

\* Spool.purge_old, only after a replay that succeeded.
PurgeDelete ==
    /\ Running /\ rpc = "purge"
    /\ spool' = {x \in spool : x.rec \notin Aged}
    /\ rpc' = "purged"
    /\ UNCHANGED <<queueVars, writerVars, disk, nextId, rbatch, dbVars, procVars, faults>>

PurgeCommit ==
    /\ Running /\ rpc = "purged"
    /\ disk' = spool
    /\ rpc' = "sleep"
    /\ UNCHANGED <<queueVars, writerVars, spool, nextId, rbatch, dbVars, procVars, faults>>

\* Mutant: the rows are confirmed although the insert raised.
RetryInsertFailsConfirmed ==
    /\ Running /\ rpc \in {"insert", "answer"} /\ ~dbUp
    /\ rpc' = "delete"
    /\ UNCHANGED <<queueVars, writerVars, spoolVars, rbatch, dbVars, procVars, faults>>

\* Mutant: the exception ends the retry task.
RetryInsertFailsForGood ==
    /\ Running /\ rpc \in {"insert", "answer"} /\ ~dbUp
    /\ rpc' = "ended"
    /\ UNCHANGED <<queueVars, writerVars, spoolVars, rbatch, dbVars, procVars, faults>>

\* except Exception: logged, and the next round starts over.
RetryInsertFails ==
    /\ Running
    /\ \/ rpc \in {"insert", "answer"} /\ ~dbUp
       \/ rpc = "insert" /\ RecsOf(rbatch) \cap Poison # {}
    /\ rbatch' = {} /\ rpc' = "sleep"
    /\ UNCHANGED <<queueVars, writerVars, spoolVars, dbVars, procVars, faults>>

RetrySpoolFails ==
    /\ Running /\ rpc \in {"delete", "commit", "purge", "purged"}
    /\ faults < MaxFaults /\ faults' = faults + 1
    /\ spool' \in {spool, disk}
    /\ rbatch' = {} /\ rpc' = "sleep"
    /\ UNCHANGED <<queueVars, writerVars, disk, nextId, dbVars, procVars>>

-----------------------------------------------------------------------------
(* The process and its surroundings *)

\* Memory is gone and the open transaction is rolled back.
ProcessEnds ==
    /\ proc' = "down"
    /\ queue' = <<>> /\ batch' = <<>> /\ wpc' = "poll"
    /\ rbatch' = {} /\ rpc' = "sleep"
    /\ spool' = disk
    /\ UNCHANGED <<produced, disk, nextId, dbVars, horizon, faults>>

Crash == Running /\ stops < MaxStops /\ stops' = stops + 1 /\ ProcessEnds

\* SIGINT or SIGTERM: stop_event is set, and main will run next.
Signal ==
    /\ proc = "up" /\ stops < MaxStops
    /\ proc' = "stopping" /\ stops' = stops + 1
    /\ UNCHANGED <<queueVars, writerVars, spoolVars, retryVars, dbVars, horizon, faults>>

\* main cancels every task where it waits, then closes the pool and the spool.
\* CancelledError is no Exception: neither _flush's spooling nor the final drain
\* at the end of run is reached.
Shutdown == proc = "stopping" /\ UNCHANGED stops /\ ProcessEnds

\* create_pool raises while the database is away, and main with it.
Restart ==
    /\ proc = "down" /\ dbUp
    /\ proc' = "up"
    /\ UNCHANGED <<queueVars, writerVars, spoolVars, retryVars, dbVars, horizon, stops, faults>>

DbGoes ==
    /\ dbUp /\ outages < MaxOutages
    /\ dbUp' = FALSE /\ outages' = outages + 1
    /\ UNCHANGED <<queueVars, writerVars, spoolVars, retryVars, db, procVars, faults>>

DbReturns ==
    /\ ~dbUp /\ dbUp' = TRUE
    /\ UNCHANGED <<queueVars, writerVars, spoolVars, retryVars, db, outages, procVars, faults>>

\* Records carry the host's clock when they are produced, so they age in order.
Age ==
    /\ horizon < produced /\ horizon' = horizon + 1
    /\ UNCHANGED <<queueVars, writerVars, spoolVars, retryVars, dbVars, proc, stops, faults>>

-----------------------------------------------------------------------------
Flush == InsertCommits \/ InsertAnswers \/ InsertFails \/ SpoolInsert \/ SpoolCommit
Writer == WriterPoll \/ WriterFlush \/ Flush \/ SpoolFails
Replay == RetryDrain \/ RetryCommits \/ RetryAnswers \/ RetryInsertFails
Cleanup == ConfirmDelete \/ ConfirmCommit \/ PurgeDelete \/ PurgeCommit
Retry == RetryIdle \/ Replay \/ Cleanup \/ RetrySpoolFails
Environment == Crash \/ Signal \/ Shutdown \/ Restart \/ DbGoes \/ DbReturns \/ Age

Next == Emit \/ Writer \/ Retry \/ Environment

Spec == Init /\ [][Next]_vars

\* The event loop runs every ready task, command_timeout ends every statement, and
\* the retry sleep ends.  Nothing is assumed of the database or of restarts.
Fairness == WF_vars(WriterFlush) /\ WF_vars(Flush) /\ WF_vars(Replay) /\ WF_vars(Cleanup)

FairSpec == Spec /\ Fairness

-----------------------------------------------------------------------------
(* Properties *)

\* A committed row leaves the spool only once its record is in the database or
\* has passed purge_old's cutoff, whatever fails between insert and confirm_drain.
DurableUntilStored ==
    [][\A x \in disk : x \in disk' \/ x.rec \in Stored \cup Aged]_vars

\* While the process runs and SQLite works, no record that was queued is lost:
\* it moves on to the batch, the spool or the database, or it ages out of the spool.
NoLossWhileUp ==
    [][faults' = 0 /\ proc' # "down" => Held \subseteq Held' \cup Stored' \cup Aged]_vars

\* Records stay in the order in which they were produced, across queue, batch and
\* spool: a smaller spool id is an older record, and every spooled record is older
\* than those _flush has not written yet.
Increasing(s) == \A i, j \in DOMAIN s : i < j => s[i] < s[j]

PipelineOrder ==
    /\ Increasing(batch \o queue)
    /\ \A x, y \in Rows : x.id < y.id => x.rec < y.rec
    /\ \A x \in Rows, r \in Unwritten : x.rec < r

\* What run_spool_retry relies on: an id names one row for good, what it is about to
\* delete is stored, and a committed row that the open transaction has deleted is
\* either stored or old and in nobody's hands.
IdsFresh == \A x \in Rows : x.id < nextId
IdsUnique == \A x, y \in Rows : x.id = y.id => x = y
KnownRecords ==
    Stored \cup Members(batch) \cup Members(queue) \cup RecsOf(Rows) \subseteq 1..produced
AnsweredStored == wpc = "answer" => Members(batch) \subseteq Stored
ReplayEmpty == rpc \in {"sleep", "purge", "purged"} => rbatch = {}
ReplayStored == rpc \in {"answer", "delete", "commit"} => RecsOf(rbatch) \subseteq Stored
ReplaySpooled == rpc \in {"insert", "answer", "delete"} /\ faults = 0 => rbatch \subseteq spool
DeletedAccounted == \A x \in disk : x \in spool \/ x.rec \in Stored \/ x.rec \in Aged \ Held

SpoolInv ==
    /\ IdsFresh /\ IdsUnique /\ KnownRecords
    /\ AnsweredStored
    /\ ReplayEmpty /\ ReplayStored /\ ReplaySpooled
    /\ DeletedAccounted

\* The table has no unique index, so a replay of what was already stored is a
\* second row; it takes an outage, a stop or a SQLite failure each time.
BoundedDuplication ==
    \A r \in Record : db[r] <= 1 + outages + stops + faults

\* With process and database up for good, no record stays in memory for ever,
\* unless a SQLite failure has ended the writer task.
Steady == <>[](proc = "up" /\ dbUp)

InMemory(r) == r \in Members(queue) \cup Members(batch)

QueueDrains ==
    Steady => \A r \in Record : InMemory(r) ~> (~InMemory(r) \/ wpc = "dead")

\* With process and database up for good, every spooled row is replayed.
SpoolDrains ==
    Steady => \A r \in Record : r \in RecsOf(spool) ~> r \notin RecsOf(spool)

\* What the tasks do to one record, seen through where it is kept.
Status(r) ==
    CASE r > produced          -> "new"
      [] r <= produced /\ db[r] > 0 -> "stored"
      [] r <= produced /\ db[r] = 0 /\ r \in RecsOf(disk) -> "durable"
      [] r <= produced /\ db[r] = 0 /\ r \in Held \ RecsOf(disk) -> "held"
      [] OTHER -> "gone"

Promise == INSTANCE StoreAndForward WITH status <- [r \in Record |-> Status(r)]

KeepsPromise == Promise!Spec

=============================================================================
