# Radian OS 2.0: TLA+ models, checks and proofs

Radian OS 2.0 collects telemetry from welding cells, stores it in TimescaleDB, records
the tool path of every print, shows all of it in a browser, and runs a camera bridge
beside it. This directory holds TLA+ models of the parts of it that run concurrently or
have to survive failures, the TLC configurations that check them, and proofs for TLAPS.

    tlc -workers 2 -config MCTelemetryStore.cfg MCTelemetryStore
    tlapm TelemetryStore_proofs.tla

`PROJECT.json` maps every definition to the lines it models and lists runs, mutants,
findings, hazards and theorems. Paths below are relative to `src/Data collect/src/`, those
of the vision bridge to `src/vision_bridge/`.

## 1. Inventory

### The processes

    OPC UA servers  ESP32  PLC                      camera
          |           |     |                          |
     OpcCollector  Esp32  Schneider             capture thread --> MJPEG queues --> /stream
          \___________|_____/    log handler           |
                      |  record_queue  /               ring
                 BatchWriter -- spool (SQLite)         |
                      |                         inference thread --> result, event --> /ws
                 TimescaleDB: telemetry, print_jobs, toolpath_points
                  |         ^          \
           toolpath writer  |      web server: /events, /api/jobs, /api/toolpath, /api/krl-var
           (own process) ---+          |
                                     browser

`start.sh` and `start.ps1` start the supervisor (collectors and `BatchWriter` in one event
loop), the web server and the toolpath writer, three processes that share only the
database. The bridge runs on another machine and shares nothing with them.

| Component | State | Operations | What is hard | What makes it correct |
|---|---|---|---|---|
| Store and forward: `storage/writer.py`, `storage/spool.py`, `collectors/base.py`, `supervisor.py` | the bounded queue, the writer's local batch, the SQLite spool and its open transaction, the telemetry table | `_emit`, `run`, `_flush`, `run_spool_retry`, `Spool.write/drain/confirm_drain/purge_old`, shutdown, restart | two tasks in one SQLite transaction; an insert whose answer is lost; a crash between any two steps; purge by age | durable records leave only when stored or old; order; bounded duplication; queue and spool drain |
| OPC UA collector: `collectors/opc_collector.py` | snapshot, record queue, session, read round | notifications, direct reads, heartbeat, reconnect | notifications arrive between the answers of a read round; a mute server raises nothing | the records come to show the present values; a mute session ends |
| Toolpath writer and jobs: `toolpath/writer.py`, `schema_toolpath.sql`, `api_jobs_delete` | the cell's state, last position and job in memory; jobs and points in the database | `_tick`, `_ensure_job`, `_write_point`, `_complete_job`, deletion | statements commit one by one; a statement fails halfway; the writer restarts; jobs are deleted behind its back | one open job per program; points lie in their program's job, are counted, and are not repeated |
| Event stream: `web/server.py` `events`, `connectSSE`, the watchdog | per connection a cursor; in the browser the last row per device | seeds, polls, reconnects | rows reach the table late, in batches and, from the spool, out of order; lines die silently | nothing passed by but replayed rows and ties, never backwards, a dead line is replaced |
| Vision pipeline: `main.py`, `inference/pipeline.py`, `/ws` in `api.py` | latest frame, ring, result, one event, thread flags | the patched capture loop, inference loop, `wait_for_result`, `stop` | two threads and the clients' executor threads; one event for all clients; cameras that fail | clients and inference catch up; threads end |
| MJPEG streams: `streaming/broadcaster.py` | scheduled coroutines, a bounded queue per viewer | `publish_sync`, `_broadcast`, `subscribe` | a thread publishes to an event loop; slow, leaving and broken viewers | frames in order, one stream for all, the last frame is shown |
| Polling collectors: `collectors/esp32_collector.py`, `schneider_collector.py`, `main` and `_resilient` in `supervisor.py` | a task, its await, its client or HTTP session | gathered requests, reconnects, restart, cancellation | a part of the answers; a failure or a cancellation at any await | no client stays open; a device that is back is recorded whole; a signal ends the process |
| KRL variables: `KRLReader`, `handle_krl_read/write`, `agPoll` | one OPC UA session behind a lock | read with one retry, write | a session lost at any await; reads and writes of many requests; a late answer taken for a missing node | one session; an idle loss costs no answer; a write reaches one node; service resumes |
| Toolpath page: `loadJobs`, `selectJob`, `startLive`, deletion | selected job, points, cursor, intervals | fetches of jobs, of a job and of its new points | fetches overlap, replies come late and out of order | a selected job is shown whole and followed |
| Camera providers: `camera/`, `start` and `stop` of the pipeline | SDK handle, buffers, capture thread | `connect`, `grab_frame`, `disconnect` | exceptions half-way; buffers not given back; a stop during a grab | buffers come back; the newest frame; no close under a grab; closed in the end |
| Service scripts | PID files | start, stop, status | PID files against processes | at most one of each service runs |
| Inference engine and tasks, `/config`, `/health`, `/snapshot`, CSV export, log handler, `LosslessQueue`, schema, installation, discovery, legacy page, vendored code | little or none | | | see section 6 |

## 2. Plan

The order follows what the system cannot afford to get wrong: losing telemetry, then
recording prints, then what is shown.

| Module | Models | Proofs | State |
|---|---|---|---|
| `StoreAndForward` | abstract: what is promised for one record | | done |
| `TelemetryStore` | the store, refining `StoreAndForward` | `TelemetryStore_proofs` | done |
| `OpcSession` | one collector and its OPC UA server | `OpcSession_proofs` | done |
| `ToolpathJobs` | writer, jobs and deletion | `ToolpathJobs_proofs` | done |
| `EventStream` | `/events` and the browser | `WebServer_proofs` | done |
| `VisionPipeline` | capture, inference and `/ws` | `VisionBridge_proofs` | done |
| `MjpegBroadcaster` | `/stream` | `MjpegBroadcaster_proofs` | done |
| `PollingCollectors` | ESP32, Modbus, `_resilient`, the end of the process | `PollingCollectors_proofs` | done |
| `KrlReader` | the shared session and its requests | `KrlReader_proofs` | done |
| `CameraProvider` | both SDKs from start-up to shutdown | `VisionBridge_proofs` | done |
| `LiveFollow` | the toolpath page's fetches | `WebServer_proofs` | done |
| `ServiceScripts` | PID files, and `ToolpathJobs` with the two writers they permit | | planned |

Every safety property of every run has its theorem. Theorems to come: the safety that
liveness rests on, such as that a client of `VisionPipeline` that lacks a result is on its way
to it; and that `VisionPipeline`'s camera is an abstraction of `CameraProvider`.

Two proof modules hold two components each. `WebServer_proofs` extends both `EventStream` and
`LiveFollow`, which is why what would be `Init`, `Next` and `Spec` in `LiveFollow` is `PageInit`,
`PageNext` and `PageSpec`. `VisionBridge_proofs` extends `CameraProvider` and instantiates
`VisionPipeline` as `Vision`.

## 3. The modules and the code

Everywhere, an action is what happens between two points where another actor can step in:
two awaits of an event loop, two statements that autocommit, two accesses of shared state
by a thread. Names follow the source.

**TelemetryStore.** `wpc` and `rpc` say where `BatchWriter.run` and `run_spool_retry` wait.
Both use one SQLite connection, so `spool` is what that connection sees and `disk` what is
committed: any commit commits the other task's work too, and a crash loses the
difference. An insert has three outcomes: it fails, it commits and answers, or it commits
and the answer is lost. `Restart` builds all memory state anew and keeps `disk` and the
table. Simplifications: ids of spool rows whose transaction is lost are not given out
again; `purge_old`'s seven days are `horizon`, the records that are old, which only grows;
an outage covers refused connections and timeouts alike. `Poison` are records the table
rejects.

**StoreAndForward** knows a status per record: new, held, durable, stored, gone. A durable
record may only become stored, or be purged once old.

**OpcSession.** The values of a node are numbered in the order it takes them and compared
modulo `Values`, so a node can return to a former value. The server queues notifications
per node (`QueueSize`, oldest dropped). A read round is open until each node has answered;
notifications run meanwhile. `MaxMisses` rounds stand for the ten seconds of
`read_stale_ns`. A full record queue makes `put_nowait` fail after the snapshot was
updated. Connecting and subscribing fail when the server is away, and now and then when it is
not. At least one node resolves.

**ToolpathJobs.** One robot's cell; cells share only the connection. Each SQL statement is
an action, each may fail or find the connection lost, and the writer may restart anywhere.
`recent` stands for the 24 hours of `_FIND_OPEN_JOB`; any job may expire at any time, so no
order of expiry is assumed. A snapshot is the program's name, whether it is active, and a
position on one axis; the read of the welder's latest row is folded into the insert of
the point. `Snapshots` holds one whose program has no name. The web server's
deletion is two statements.

**EventStream.** Rows are numbered as they are queued, and `ts` is the timestamp each is stored
with; nothing makes `ts` unique, and `Stamped` says what it is worth. `tick` is the wall clock,
whose ticks stand for whatever makes stamps equal: the microsecond that `to_timestamp` rounds to
(`storage/writer.py:38`), or the tick of a coarse clock, such as that of Windows, where
`start.ps1` runs the system and one publish cycle's notifications may share a stamp. Any number of
rows may share one. A record of a device is stamped by the clock, a log record by
`int(record.created * 1e9)` (`collectors/log_handler.py:27`): log records are in order among
themselves, but the truncated float may end up `Skew`, one microsecond, on either side of a
device's stamp. The clock is not set back, and as web server and supervisor run on one machine
they share it. `ORDER BY ts` leaves rows of one stamp in any order (`Sorted`, `Snapshots`), so the
model takes each. `Flush`, `Replay` and `Produce` are what `TelemetryStore` does, seen from the
table: a batch appears at once, in order, or goes to the spool and appears later. The wire delivers
in order, loses what is on it when it dies, and may still deliver it after the handler has ended.
Old handlers of abandoned connections write to nobody and are not kept.

**VisionPipeline.** The capture loop is the one `main.py` patches in. Frames are numbered as
`_frame_id` counts them. The ring (a class of `core`, which is not in the repository) is
modelled from its use: writing overwrites, reading takes the newest unread frame or times
out. `ShapeFits` says whether frames have the shape the ring was allocated with. Both threads look
at `_running` before they block, so a frame may still be stored, and one analysed, after the
stop. `publish_sync` is `MjpegBroadcaster`; an exception it does not catch itself, which would
end the capture thread, is not modelled.
`wait_for_result` does not tell a set event from a timeout, nor does the model.

**MjpegBroadcaster.** `chunks` are the coroutines `run_coroutine_threadsafe` has scheduled;
`_broadcast` awaits nothing, so it is one step for all queues. A client whose connection
breaks while a chunk is sent leaves its generator suspended and its queue registered until
it is finalised.

**PollingCollectors.** A task is at one await: its start, `connect`, the gathered requests, one
of its sleeps, `_resilient`'s sleep. A poll cycle asks for all blocks at once and each is
answered, or fails, by itself; `gather` keeps the exceptions, so what is emitted holds what
was answered. For the same reason the ESP32 collector's back-off is no step of the model:
nothing a device does leads to it. A Modbus connection that is lost is `stale` until
pymodbus notices, then `dead`. A cancellation is delivered at the await where the task is.
A value is the version of its device's state. A Modbus cycle may also raise as a whole: a
`ModbusException` keeps the client, anything else closes it and waits.

**KrlReader.** One variable with two values, and the nodes it may live under, tried in order.
The lock is the queue of those that wait; its head owns it. Each await inside it (the
connection, a read of a node, a write) is a step during which the controller may go, come
back or be silent for longer than the timeout. `read_var` makes two attempts and drops the
session between them; `write_var` does neither. HTTP answers overtake one another, and `cell`
is what the last to arrive leaves on the page.

**CameraProvider.** Start-up goes through its calls one by one, and any of them may raise.
The SDK's buffers are free, filled (`out`) or held by `grab_frame`; pylon keeps the newest
frame only and gives buffers back however the grab ends, Aravis has the one buffer `connect`
pushes. Seconds pass only where the code waits: 2 in pylon's grab, 1 in Aravis', 3 in
`join`. `Pool` (pylon's ten) is more than two: one buffer is looked at, one waits, one is
filled. What becomes of a frame is in `VisionPipeline` and `MjpegBroadcaster`.

**LiveFollow.** A fetch takes a slot, is answered by the server when it likes, and its answer
arrives when it likes. The page's functions run from an await to the next. An interval that
is overwritten without being cleared goes on as `leaked`. Points are their `ts`. `clean` is a
history variable: when the job was selected, nothing old was under way that would still
change the points. The user selects, switches tab or mode and deletes; jobs start and end. A
deletion is two statements, which may fail between; the page takes any answer for success,
and stays as it is when the fetch throws, whatever the server has deleted by then.

## 4. What the runs check

Passing runs (distinct states in brackets; the longest takes about three minutes).

* `store` (105 thousand): three records, a queue of two, batches of two, drains of one, one
  outage, one crash or shutdown, one SQLite failure, combined in every order. Three records
  are enough for one to be in the table, one in the spool and one in memory, and for the
  queue and batch to be full; a drain of one makes the retry loop run more than once.
  `PipelineOrder` relates queue, batch and spool. `NoLossWhileUp`: nothing is lost but by age,
  by a stop, or by a failing SQLite.
  `BoundedDuplication`: a row is doubled only by an outage, a stop or a fault.
  `KeepsPromise`: it implements `StoreAndForward`. `QueueDrains`, `SpoolDrains`: once process
  and database stay up.
* `opc` (285 thousand): two nodes with two values each, two changes, one outage. Two changes
  let a node change and change back, which is where comparing with an overwritten snapshot
  could lose a change.
* `toolpath` (131 thousand): one writer, two programs, four events of any kind (snapshots,
  expiries, failures, restarts, deletions). The defects one could expect (a job opened twice,
  a point under the wrong program) take three or four events.
* `events` (1.55 million): three rows of a device or of the log in two ticks of the clock, a `Skew`
  of one, batches of at most two, one lost connection. Three rows against a `LIMIT` of two leave a
  batch over, and three of one tick are a tie that the `LIMIT` cuts; two can be spooled, with the
  third overtaking them; one connection is lost, another seeds and polls. `NoGap` says how much
  the cursor passes by: between where it began and where it stands, a row that was not sent
  was replayed from the spool, or has the timestamp of a row that was sent, up to `Skew`. The
  code does lose such ties: `ts > $1` skips what `LIMIT 200` (`web/server.py:1557-1559`) cut off,
  and what a later batch brings. Without that exception, or without the `Skew` in it,
  TLC refutes `NoGap`.
* `vision` (195 thousand): two clients, two frames, two troubles (camera failures and rejected
  frames), a limit of two errors. Two clients are what it takes to steal each other's event;
  two frames, to overtake an inference. `FramesInferred` is about a frame no newer one follows,
  such as the last before the camera pauses: with frames that keep coming, the inference
  thread may skip any of them. It is run with frames that fit the ring. They need not:
  `main.py:95` allocates 1080 x 1920 whatever the camera sends, and of frames of another shape none
  is analysed.
* `mjpeg` (23 thousand): two viewers, queues of two, five frames: enough to fill a queue, drop
  twice, and leave and come back meanwhile.
* `polling` (167 thousand): an ESP32 with one block and a PLC with two, one change of each
  device's state, one trouble. Two blocks are what it takes to answer in part.
* `krl` (248 thousand): two overlapping polls, one writer, two nodes, two troubles. One trouble
  is absorbed by the second attempt, two are not; two polls let answers overtake each other.
* `camera` (30 thousand): both SDKs, three errors in a row, three buffers, five frames: enough
  to overwrite a waiting frame, to lose buffers one by one if they were not given back, and
  to end the capture by its error counter.
* `live` (507 thousand): two jobs, two points, two fetches at a time, limits of one point, two
  events, one failed fetch. Two jobs make answers of the job selected before arrive late; with
  limits of one the page has to ask more than once for what it shows.

Runs that are refuted, each a statement of the repository against its code:

* `store_poison`: one row the table rejects keeps the rows drained with it in the spool for
  ever, against "drains the spool when connectivity recovers" (`storage/spool.py:5`).
* `camera_starves`: Aravis has one buffer, and a damaged frame takes it (`camera/aravis.py:135`),
  against "keep the acquisition pipeline filled" (`camera/aravis.py:142`).

Seen while modelling, without a run of their own.

* Store: overflow of the record queue is dropped, not spooled (`storage/writer.py:11-12`). The
  "Final drain on shutdown" (`storage/writer.py:140`) is never reached, because the task is
  cancelled at its await. The log handler feeds the writer's own error messages into the
  queue the writer drains (`supervisor.py:117`).
* Toolpath: a paused job is resumed however old it is (`toolpath/writer.py:15`). A point
  inserted between the two `DELETE`s outlives its job (`web/server.py:1643`). The page's delete
  button does not look at the status it is answered with (`web/server.py:1456`). `start.sh` permits
  two writers, which `ToolpathJobs` with two `Writers` shows to open two jobs.
* Collectors: a notification and a direct read overtake each other, against "delivered in
  order" (`collectors/opc_collector.py:16`). When no node resolves, the OPC collector connects
  again at once, for ever (`collectors/opc_collector.py:282`). The back-off of the ESP32 collector
  (`collectors/esp32_collector.py:91`, promised in `collectors/base.py:58`) never applies.
* Web server: the watchdog takes a healthy but quiet stream for dead, because a keepalive
  comment is no message (`web/server.py:1048-1049`). Rows that share a timestamp are lost to a
  browser when the `LIMIT`, or the end of a batch, comes between them. Rows in the writer's batch while a browser
  connects are never streamed to it. Two `selectJob` under way mix their jobs, and leave an
  interval nothing can stop (`web/server.py:1291`). `KRLReader.close` waits for a shutdown
  of the application that `main` never performs.
* Bridge: the capture loop does not reconnect (`inference/pipeline.py:153`): after twenty errors
  in a row it ends for good. A result may carry the `frame_id` of a later frame
  (`inference/tasks/base.py:75`). A frame that does not fit the ring is never made to fit
  (`main.py:91-92`). `/config` changes the quality of `/snapshot` but not of `/stream`
  (`api.py:197`), answers ok for an exposure Aravis ignores, and applies what precedes an
  error.

### Bounds

Every count that could grow has a bound that is a constant, and it stands in the guard of
the action that would pass it: `MaxRecords`, `MaxOutages`, `MaxStops`, `MaxFaults`,
`MaxEvents`, `MaxChanges`, `MaxRows`, `MaxTick`, `MaxDrops`, `MaxFrames`, `MaxTrouble`, `MaxJobs`,
`MaxPoints`, `Slots`. `QueueMax`, `BatchSize`, `DrainMax`, `QueueSize`, `MaxMisses`, `Limit`,
`SeedLimit`, `MaxErrors`, `MaxDepth`, `Pool`, `Attempts`, `FullLimit` and `LiveLimit` are limits of
the code, given small values (`Attempts` its own); `Skew` is the microsecond of a log record's rounding. Runs in which the system really may stop
(all bounds spent, services ended) switch the deadlock check off: `toolpath`, `opc`, `vision`,
`camera`, `camera_starves`, `live` and `polling`. No symmetry is declared.

Every module's `TypeOK` is proved and is no part of its run, and neither is
`VisionPipeline`'s `ResultsForward`; TLC checks them, and the inductive invariants below, when
they are added to a configuration.

### Fairness

Fairness is given only to what the program's own scheduler runs and what a timeout ends,
each time in the comment above `FairSpec` (`FairPageSpec` in `LiveFollow`): ready coroutines
and threads, statements under `command_timeout`, requests to devices under `timeout_s`,
sleeps, `read_blocking` and `wait_for_result` with their timeouts, the browser's reconnect,
watchdog and intervals, the seconds that pass in a grab and in `join`, CPython's collection
of what nothing refers to.
It is weak, with one exception: an interval of `LiveFollow` fires strongly fairly, because it
needs one of `Slots`, a bound of the model and none of the browser.

Nothing is assumed of databases, cameras, OPC servers, networks, restarts or users;
where a property needs the database up or the server answering, it says so itself
(`Steady`, or a premise under `<>[]`).

`MjpegBroadcaster` assumes that a connection takes a chunk or breaks; TCP sees to that.

## 5. What is proved

The theorems hold for every value of the constants that the modules' assumptions allow: any
number of records, clients, writers, nodes, buffers, troubles, and so on.

| Module | Theorem | Statement |
|---|---|---|
| `TelemetryStore_proofs` | `TypeCorrect` | `Spec => []TypeOK`, with the bounds on queue and batch |
| | `StoreInvariant` | `Spec => []StoreInv`, the inductive invariant |
| | `RecordsInOrder` | `Spec => []PipelineOrder` |
| | `SpoolAccounted` | `Spec => []SpoolInv` |
| | `DurableSafe` | `Spec => DurableUntilStored` |
| | `NoLoss` | `Spec => NoLossWhileUp` |
| | `FewDuplicates` | `Spec => []BoundedDuplication` |
| | `Implements` | `Spec => KeepsPromise`, the refinement of `StoreAndForward` |
| `ToolpathJobs_proofs` | `JobTypes` | `Spec => []TypeOK` |
| | `PointsFiled` | `Spec => []PointsUnderTheirProgram` |
| | `OneJob` | `Spec => []OneOpenJob`, for a single writer |
| | `RowsAndTotal` | `Spec => []PointsCounted`, for finitely many writers |
| | `CompleteStays` | `Spec => NoPointAfterComplete`, for a single writer |
| | `FewCopies` | `Spec => []BoundedCopies`, for a single writer and `Dedup > 0` |
| `OpcSession_proofs` | `OpcTypes` | `Spec => []TypeOK` |
| | `ShowsSnapshot` | `Spec => []RecordShowsSnapshot` |
| | `OwnSession` | `Spec => []SnapshotOfSession` |
| `PollingCollectors_proofs` | `PollingTypes` | `Spec => []TypeOK` |
| | `NoClientLeft` | `Spec => []NothingLeftOpen` |
| `KrlReader_proofs` | `KrlTypes` | `Spec => []TypeOK` |
| | `SessionSingle` | `Spec => []OneSession` |
| | `IdleLossHarmless` | `Spec => []ErrorMeansTrouble`, with more than one attempt |
| | `OneNodeWritten` | `Spec => []WriteReachesOneNode`, with more than one attempt |
| `VisionBridge_proofs` | `CameraTypes` | `Spec => []TypeOK` |
| | `BuffersKept` | `Spec => []BuffersReturned` |
| | `JoinSuffices` | `Spec => []NotPulledAway` |
| | `NewestFrame` | `Spec => Freshest` |
| | `VisionInvariant` | `Vision!Spec => []VisionInv`, with `TypeOK`, under `VisionAssumption` |
| | `InferenceForward` | `Vision!Spec => Vision!ResultsForward`, under `VisionAssumption` |
| `MjpegBroadcaster_proofs` | `StreamTypes` | `Spec => []TypeOK` |
| | `InOrder` | `Spec => []StreamInOrder` |
| | `OneStreamForAll` | `Spec => []SameStream` |
| `WebServer_proofs` | `StreamInvariant` | `Spec => []StreamInv`, the inductive invariant |
| | `StreamTyped` | `Spec => []TypeOK` |
| | `OnlyTiesPassedBy` | `Spec => []NoGap` |
| | `CardsGoForward` | `Spec => NeverBackwards` |
| | `PageTyped` | `PageSpec => []PageTypeOK` |
| | `JobShownWhole` | `PageSpec => []ShowsJob` |

The arguments, each an invariant with one proof step per action:

* **TelemetryStore.** `StoreInv` is `TypeOK /\ SpoolInv /\ PipelineOrder`. None of the three is
  inductive alone: that `confirm_drain` deletes only stored rows needs ids that name one row
  each (`IdsUnique`), which needs ids below `nextId`; that the refinement never brings a record
  back needs the order of records across queue, batch and spool, since it is the order that
  says that a record in memory is not in the spool as well. `DurableSafe` rests on `DiskStep` (a
  step leaves `disk` alone or commits `spool`) and on `DeletedAccounted`; `NoLoss` on `HeldStep`
  and `StoredGrows`; `FewDuplicates` on `DupInv`: a record that may be inserted again, from the
  queue, the batch, the spool or the drained rows, has one row less than it may come to. A
  signal counts there only once the process has ended, since what it cuts short may be
  inserted after it arrived. `Implements` rests on `MayStep`, which follows one record's status
  through every action.
* **ToolpathJobs.** `Typing` adds to `TypeOK` that a tick in progress has a snapshot and that a
  cell that is not idle follows a job that was created. `ProgramInv` adds that this job is of the
  cell's program: without it `insert` could file a point anywhere. `OneInv` speaks of one
  writer: an open job of its cell's program is its cell's job, and between `_FIND_OPEN_JOB` and
  `_CREATE_JOB` the program has none. With two writers `OneOpenJob` does not hold. `CountInv`
  counts: rows, total and points under way of a job move together, and each failure or
  restart leaves one row uncounted at most. `ActiveInv`: between the completion of its job and
  the change to another, the cell is looking for that other or a statement has failed.
  `CopyInv`: a snapshot that has its one row more than the mishaps is written, so that the next
  tick finds it near the last position, or will never again be the latest.
* **OpcSession.** `RecordShowsSnapshot` is inductive with `TypeOK`. `SessionInv` says that whatever
  is queued, answered or in the snapshot is no older than the session's `base`.
* **PollingCollectors.** `OpenInv` relates where a task is to what it holds open; a cancellation
  or a failure is a step from any place.
* **KrlReader.** `LockInv` says that only the head of the lock is inside it, and that what is open
  is the session of `_client`. `AnswerInv` follows a request nobody has troubled: its second
  attempt has a live session and the nodes it is past do not exist, so it finds the value.
  It needs that second attempt, whence the assumption on `Attempts`.
* **CameraProvider.** `CameraInv` is `Shapes /\ Counted /\ Numbered /\ Timed`: types; where the
  buffers are; frames in order, with the waiting one pylon's newest; and that `join` has not
  waited longer than the grab it waits for, which is why three seconds suffice. That a newest
  frame can always be taken needs a third buffer, hence `Pool > 2`.
* **MjpegBroadcaster.** `StreamInv` orders all that is on its way to a client: shown, being sent,
  queued, scheduled. `OneStream` compares queues, from a client that has just come (an empty
  queue) through chunks delivered to all of them at once.
* **EventStream.** The queries sort by timestamp, and a result is one of `Sorted`, the enumerations
  of its rows in which no stamp is older than the one before. `FetchedRows`: up to its last row, an
  answer leaves out only rows of that row's own stamp.
  `NoGap` needs `TableInv` (what is under way was queued after all that was flushed or spooled, so its
  stamp is older by `Skew` at the most: `StampsInOrder`, `NotOlder`), `CursorInv` (the cursor stands
  at the stamp of a row that was sent, or where it began) and `AnswerInv`: of the rows between the
  cursor and the last row of an answer, each is in the answer, was replayed since, or is within
  `Skew` of that last row. Ties are let through there and nowhere else: they are what a `LIMIT` or a
  later batch cuts off. `NeverBackwards` needs no order of ties, since it speaks of stamps; it rests
  on `WireInv`: a device's events are written in the order of their stamps, none is older than its
  card, and none is newer than the cursor while the handler polls.
* **LiveFollow.** `ShowsJob` is not inductive: late answers add points to those shown.
  `FollowInv` says what each fetch under way may still bring. While selectJob's fetch is out, no
  interval runs and nothing else brings points. A poll asks from a `lastTs` up to which every
  point is shown (`Passed`), and of its answer each point has all older ones in the answer or on
  the page (`Whole`). An old answer that sets `lastTs` back sets it to a point that is shown with
  all before it, so the next poll asks twice, and leaves no gap.
* **VisionPipeline.** `FrameOrder`: the frame under analysis is older than the one in the ring,
  both are newer than the result's and not newer than `latest`, the label of a result lies
  between its frame and `latest`, and no client has more than the result. `ErrorsCounted` is what
  bounds `errors`.

Only model-checked: liveness everywhere, since fairness and ENABLED are out of the prover's
reach. What `store_poison` and `camera_starves` refute is liveness too.

## 6. What is not modelled

* The service scripts: shell text around PID files. What they permit, a second toolpath
  writer, is a constant of `ToolpathJobs`.
* CSV export, health and the page itself: they read and draw. Of the toolpath page, the
  drawing, the filter and the player of playback mode, which run without an await.
* `/config`, which sets attributes one after the other and keeps no state; `/snapshot`,
  `/inference` and `/health` of the bridge, which only read.
* The TensorRT engine and the tasks: synchronous calls of the inference thread, of which
  `VisionPipeline` sees a result or a rejected frame.
* `LosslessQueue`, which nothing uses; installation, discovery and the tests, which are run by
  hand against hardware; the legacy page and vendored code.
* Of what is modelled: wording, formatting, scaling and the values themselves; OPC UA
  certificates and type coercion; more than one robot, browser or OPC server at a time, because
  they share nothing but the tables; TimescaleDB's compression and retention; wall-clock time,
  in whose place any timer may expire at any moment its actor is waiting.

Two hazards have no property. `OpcSession` assumes that a node resolves, so the loop at
`collectors/opc_collector.py:282` is outside it. `EventStream` states what follows the start of the
cursor; that the seeds and the start leave a gap (`web/server.py:1548`) is known and left.
