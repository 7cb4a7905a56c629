------------------------- MODULE PollingCollectors -------------------------
(***************************************************************************)
(* The collectors that poll, Esp32Collector over HTTP and                  *)
(* SchneiderCollector over Modbus TCP, each a task under _resilient, with  *)
(* the supervisor that builds them at the start and cancels them at the    *)
(* end.  A poll cycle asks for every block (an endpoint, a range of        *)
(* registers) at once, gathers the answers as they come, and emits what    *)
(* has been answered.                                                      *)
(*                                                                         *)
(* A value is the version of its device's state it was read from.          *)
(* Esp32Collector's back-off is not a step here: gather keeps what _fetch  *)
(* raises, so nothing a device does leads to it.                           *)
(***************************************************************************)
EXTENDS Integers, FiniteSets

CONSTANTS
    Collectors,  \* the entries of collectors.yaml
    Modbus,      \* those of them that are SchneiderCollectors
    Blocks,      \* the endpoints, or the register blocks, of each
    MaxChanges,  \* bound: changes of a device's state
    MaxTrouble   \* bound: devices lost, requests failed, clients not made

ASSUME PollingAssumption ==
    /\ Modbus \subseteq Collectors /\ \A c \in Collectors : Blocks[c] # {}
    /\ MaxChanges \in Nat /\ MaxTrouble \in Nat

VARIABLES
    built,     \* the collectors that are enabled
    at,        \* the await each task is in
    link,      \* the Modbus connection: none, live, stale (lost, which nobody has
               \* noticed) or dead (client.connected is False)
    open,      \* clients, or HTTP sessions, that were made and not closed
    reply,     \* the results of gather
    record,    \* the last record each has put into the queue
    stop,      \* stop_event
    cancelled, \* tasks with a cancellation to be delivered
    main,      \* the supervisor: runs, gathers its tasks, is down
    up, now,   \* the devices: reachable, version of the state
    full,      \* record_queue is full
    trouble

task == <<at, link, open, reply, record>>
supervisor == <<built, stop, cancelled, main>>
device == <<up, now, full>>
vars == <<task, supervisor, device, trouble>>

Pending == -2
None == -1
Silent(c) == [b \in Blocks[c] |-> None]
Asked(c) == [b \in Blocks[c] |-> Pending]

\* _build_collectors skips what is not enabled; with nothing enabled main returns.
Init ==
    /\ built \in (SUBSET Collectors) \ {{}}
    /\ at = [c \in Collectors |-> IF c \in built THEN "start" ELSE "done"]
    /\ link = [c \in Collectors |-> "none"] /\ open = [c \in Collectors |-> 0]
    /\ reply = [c \in Collectors |-> Silent(c)] /\ record = [c \in Collectors |-> Silent(c)]
    /\ stop = FALSE /\ cancelled = {} /\ main = "runs"
    /\ up \in [Collectors -> BOOLEAN] /\ now = [c \in Collectors |-> 0]
    /\ full = FALSE /\ trouble = 0

\* A task that is to be cancelled is resumed with CancelledError, whatever it awaited.
Resumes(c, places) == at[c] \in places /\ c \notin cancelled
Goto(c, place) == at' = [at EXCEPT ![c] = place]
Trouble == trouble < MaxTrouble /\ trouble' = trouble + 1

\* Every client is made in its own try, and every session in its own async with.
Made(c) == open' = [open EXCEPT ![c] = @ + 1]
Closed(c) == open' = [open EXCEPT ![c] = @ - 1] /\ link' = [link EXCEPT ![c] = "none"]

-----------------------------------------------------------------------------
(* _resilient, and run up to its first await *)

Enter(c) ==
    /\ Resumes(c, {"start", "restart"})
    /\ IF stop
       THEN Goto(c, "done") /\ UNCHANGED <<open, reply>>
       ELSE /\ Made(c)
            /\ IF c \in Modbus
               THEN Goto(c, "connect") /\ UNCHANGED reply
               ELSE Goto(c, "poll") /\ reply' = [reply EXCEPT ![c] = Asked(c)]
    /\ UNCHANGED <<link, record, supervisor, device, trouble>>

\* The client, or the session, cannot be made: run raises to _resilient, which waits.
EnterRaises(c) ==
    /\ Resumes(c, {"start", "restart", "delay"}) /\ (stop => at[c] = "delay") /\ Trouble
    /\ Goto(c, "restart")
    /\ UNCHANGED <<link, open, reply, record, supervisor, device>>

\* Modbus: client.connect()
Connect(c) ==
    /\ Resumes(c, {"connect"}) /\ up[c]
    /\ Goto(c, "poll") /\ link' = [link EXCEPT ![c] = "live"]
    /\ reply' = [reply EXCEPT ![c] = Asked(c)]
    /\ UNCHANGED <<open, record, supervisor, device, trouble>>

ConnectFails(c) ==
    /\ Resumes(c, {"connect"}) /\ Goto(c, "delay") /\ Closed(c)
    /\ \/ ~up[c] /\ UNCHANGED trouble
       \/ Trouble
    /\ UNCHANGED <<reply, record, supervisor, device>>

\* Modbus: reconnect_delay_s is over, and the loop makes another client.
Again(c) ==
    /\ Resumes(c, {"delay"}) /\ Goto(c, "connect") /\ Made(c)
    /\ UNCHANGED <<link, reply, record, supervisor, device, trouble>>

-----------------------------------------------------------------------------
(* A poll cycle *)

\* Mutant: the inner loop does not look whether the client is connected.
PollUnchecked(c) ==
    /\ Resumes(c, {"interval"}) /\ Goto(c, "poll")
    /\ reply' = [reply EXCEPT ![c] = Asked(c)]
    /\ UNCHANGED <<link, open, record, supervisor, device, trouble>>

\* poll_interval_s is over.  On a dead connection the Modbus client is closed and replaced.
Poll(c) ==
    /\ Resumes(c, {"interval"})
    /\ IF link[c] = "dead"
       THEN Goto(c, "delay") /\ Closed(c) /\ UNCHANGED reply
       ELSE /\ Goto(c, "poll") /\ reply' = [reply EXCEPT ![c] = Asked(c)]
            /\ UNCHANGED <<link, open>>
    /\ UNCHANGED <<record, supervisor, device, trouble>>

\* The requests of a cycle that waits for them are under way.
UnderWay(c, b) == Resumes(c, {"poll"}) /\ reply[c][b] = Pending
Reachable(c) == up[c] /\ (c \in Modbus => link[c] = "live")

Answer(c, b) ==
    /\ UnderWay(c, b) /\ Reachable(c)
    /\ reply' = [reply EXCEPT ![c][b] = now[c]]
    /\ UNCHANGED <<at, link, open, record, supervisor, device, trouble>>

\* A request raises, or is answered by an error: gather keeps it for its block.
RequestFails(c, b) ==
    /\ UnderWay(c, b) /\ reply' = [reply EXCEPT ![c][b] = None]
    /\ \/ ~Reachable(c) /\ UNCHANGED trouble
       \/ Trouble
    /\ UNCHANGED <<at, link, open, record, supervisor, device>>

\* All requests are over: the record holds the blocks that were answered.  No block, no
\* record; a full queue, no record either.
Merge(c) ==
    /\ Resumes(c, {"poll"}) /\ \A b \in Blocks[c] : reply[c][b] # Pending
    /\ Goto(c, "interval") /\ reply' = [reply EXCEPT ![c] = Silent(c)]
    /\ record' = IF reply[c] # Silent(c) /\ ~full
                 THEN [record EXCEPT ![c] = reply[c]] ELSE record
    /\ UNCHANGED <<link, open, supervisor, device, trouble>>

\* Modbus: the cycle raises before its requests are sent or when it reads their results.
\* ModbusException keeps the client; any other exception closes it.
PollRaises(c) ==
    /\ Resumes(c, {"poll"}) /\ c \in Modbus /\ Trouble
    /\ reply[c] = Asked(c) \/ \A b \in Blocks[c] : reply[c][b] # Pending
    /\ reply' = [reply EXCEPT ![c] = Silent(c)]
    /\ \/ Goto(c, "interval") /\ UNCHANGED <<link, open>>
       \/ Goto(c, "delay") /\ Closed(c)
    /\ UNCHANGED <<record, supervisor, device>>

-----------------------------------------------------------------------------
(* The end of the process *)

Signal ==
    /\ main = "runs" /\ ~stop /\ stop' = TRUE
    /\ UNCHANGED <<task, built, cancelled, main, device, trouble>>

\* main wakes up and cancels every task that has not ended.
CancelAll ==
    /\ main = "runs" /\ stop /\ main' = "gathers"
    /\ cancelled' = {c \in Collectors : at[c] # "done"}
    /\ UNCHANGED <<task, built, stop, device, trouble>>

InUse(c) == at[c] \in {"connect", "poll", "interval"}

\* Mutant: client.close() stands in the except branch of failures, which a cancellation
\* does not take.
CancelledOpen(c) ==
    /\ c \in cancelled /\ cancelled' = cancelled \ {c} /\ Goto(c, "done")
    /\ reply' = [reply EXCEPT ![c] = Silent(c)]
    /\ UNCHANGED <<link, open, record, built, stop, main, device, trouble>>

\* Mutant: the Modbus loop takes a cancellation for one more failure.
CancelledRetried(c) ==
    /\ c \in cancelled /\ cancelled' = cancelled \ {c}
    /\ Goto(c, IF c \in Modbus /\ InUse(c) THEN "delay" ELSE "done")
    /\ reply' = [reply EXCEPT ![c] = Silent(c)]
    /\ IF InUse(c) THEN Closed(c) ELSE UNCHANGED <<link, open>>
    /\ UNCHANGED <<record, built, stop, main, device, trouble>>

\* CancelledError leaves run through its finally, or its async with, and ends _resilient.
Cancelled(c) ==
    /\ c \in cancelled /\ cancelled' = cancelled \ {c} /\ Goto(c, "done")
    /\ reply' = [reply EXCEPT ![c] = Silent(c)]
    /\ IF InUse(c) THEN Closed(c) ELSE UNCHANGED <<link, open>>
    /\ UNCHANGED <<record, built, stop, main, device, trouble>>

\* The tasks are gathered, and the writer stops.
Down ==
    /\ main = "gathers" /\ main' = "down" /\ \A c \in Collectors : at[c] = "done"
    /\ UNCHANGED <<task, built, stop, cancelled, device, trouble>>

-----------------------------------------------------------------------------
(* The devices, the network, and the queue *)

Changes(c) ==
    /\ now[c] < MaxChanges /\ now' = [now EXCEPT ![c] = @ + 1]
    /\ UNCHANGED <<task, supervisor, up, full, trouble>>

DeviceGoes(c) ==
    /\ up[c] /\ up' = [up EXCEPT ![c] = FALSE] /\ Trouble
    /\ link' = [link EXCEPT ![c] = IF @ = "live" THEN "stale" ELSE @]
    /\ UNCHANGED <<at, open, reply, record, supervisor, now, full>>

DeviceReturns(c) ==
    /\ ~up[c] /\ up' = [up EXCEPT ![c] = TRUE]
    /\ UNCHANGED <<task, supervisor, now, full, trouble>>

\* TCP finds out that the connection is gone.
LossNoticed(c) ==
    /\ link[c] = "stale" /\ link' = [link EXCEPT ![c] = "dead"]
    /\ UNCHANGED <<at, open, reply, record, supervisor, device, trouble>>

QueueTurns ==
    /\ full' = ~full /\ UNCHANGED <<task, supervisor, up, now, trouble>>

-----------------------------------------------------------------------------
Run(c) ==
    \/ Enter(c) \/ Connect(c) \/ ConnectFails(c) \/ Again(c) \/ Poll(c) \/ Merge(c)
    \/ Cancelled(c)

Next ==
    \/ \E c \in Collectors :
         \/ Run(c) \/ EnterRaises(c) \/ PollRaises(c)
         \/ \E b \in Blocks[c] : Answer(c, b) \/ RequestFails(c, b)
         \/ Changes(c) \/ DeviceGoes(c) \/ DeviceReturns(c) \/ LossNoticed(c)
    \/ Signal \/ CancelAll \/ Down \/ QueueTurns

Spec == Init /\ [][Next]_vars

\* The event loop runs ready tasks, timers end, and so does every request, within
\* timeout_s.  Nothing is assumed of the devices; a lost connection is noticed in the end.
FairSpec ==
    /\ Spec /\ WF_vars(CancelAll) /\ WF_vars(Down)
    /\ \A c \in Collectors :
         /\ WF_vars(Run(c)) /\ WF_vars(LossNoticed(c))
         /\ \A b \in Blocks[c] : WF_vars(Answer(c, b) \/ RequestFails(c, b))

-----------------------------------------------------------------------------
(* Properties *)

TypeOK ==
    /\ built \subseteq Collectors
    /\ at \in [Collectors -> {"start", "restart", "connect", "delay", "poll", "interval", "done"}]
    /\ link \in [Collectors -> {"none", "live", "stale", "dead"}]
    /\ open \in [Collectors -> Int]
    /\ DOMAIN reply = Collectors /\ DOMAIN record = Collectors
    /\ \A c \in Collectors : /\ reply[c] \in [Blocks[c] -> Pending..MaxChanges]
                             /\ record[c] \in [Blocks[c] -> None..MaxChanges]
    /\ stop \in BOOLEAN /\ cancelled \subseteq Collectors
    /\ main \in {"runs", "gathers", "down"}
    /\ up \in [Collectors -> BOOLEAN] /\ now \in [Collectors -> 0..MaxChanges]
    /\ full \in BOOLEAN /\ trouble \in 0..MaxTrouble

\* A PLC accepts few connections.  Wherever a failure or a cancellation finds a task, it
\* leaves no client behind: one is open while its task uses it, and none while the task
\* waits to connect or to be restarted, and when it has ended.
NothingLeftOpen ==
    \A c \in Collectors : open[c] = IF InUse(c) THEN 1 ELSE 0

\* A device that comes back is recorded again, whole and as it is now, whatever happened
\* to its connection, its requests, its client and the queue before.
RecordsResume ==
    \A c \in Collectors :
        <>[](c \in built /\ up[c] /\ ~stop /\ ~full)
            => <>[](record[c] = [b \in Blocks[c] |-> now[c]])

\* A signal ends the process, whatever every task awaits when it arrives.
SignalEnds == stop ~> main = "down"

=============================================================================
