---------------------------- MODULE EventStream ----------------------------
(***************************************************************************)
(* The dashboard's live stream: the handler of /events seeds a browser     *)
(* with the newest rows of the telemetry table and then polls the table    *)
(* for what is newer than its cursor last_ts; the browser's EventSource    *)
(* connects again when the stream ends, and its watchdog when the stream   *)
(* is silent.                                                              *)
(*                                                                         *)
(* Every connection has a handler and a cursor of its own, so there is one *)
(* browser.  Rows are numbered as they are queued; dev says which device a *)
(* row is of and ts is the timestamp it is stored with, which other rows   *)
(* may share: the clock moves in ticks, the table keeps microseconds, and  *)
(* nothing in the schema makes ts unique.  How rows get into the table is  *)
(* TelemetryStore: here, that they get there later than they are made, in  *)
(* the order of the queue, but for those the spool replays.                *)
(***************************************************************************)
EXTENDS Integers, Sequences, FiniteSets, SequencesExt

CONSTANTS
    Devices,    \* device_ids
    System,     \* the device_id of log records
    Limit,      \* LIMIT of the poll
    SeedLimit,  \* LIMIT of the seeded log records
    Skew,       \* a log record's ts is this far from the clock, at the most
    MaxRows,    \* bound: rows produced
    MaxTick,    \* bound: values of the wall clock
    MaxDrops    \* bound: connections lost, and handlers ended by an error

ASSUME StreamAssumption ==
    /\ Limit \in Nat \ {0} /\ SeedLimit \in Nat /\ Skew \in Nat
    /\ MaxRows \in Nat /\ MaxTick \in Nat /\ MaxDrops \in Nat
    /\ System \notin Devices

VARIABLES
    dev,      \* the device_id of each row
    tick,     \* the wall clock when each row is made
    ts,       \* the timestamp each row is stored with
    made,     \* rows made so far
    flight,   \* rows in the supervisor's queue and batch
    spool,    \* rows the spool keeps
    table,    \* rows in radian_os.telemetry
    late,     \* rows the spool replayed
    pc,       \* where the connection's handler is
    answer,   \* the rows its poll has fetched
    cursor,   \* last_ts
    wire,     \* events written, and not yet received
    dead,     \* the connection carries nothing any more, and nobody was told
    silent,   \* 45 seconds have passed since lastEventTime
    shown,    \* the row whose values each device's card shows; 0 is none
    start,    \* the cursor this connection began to poll with
    sent,     \* rows it was polled for
    drops

rowVars == <<dev, tick, ts>>
tableVars == <<rowVars, made, flight, spool, table, late>>
handlerVars == <<pc, answer, cursor, start, sent>>
lineVars == <<wire, dead>>
browserVars == <<silent, shown>>
vars == <<tableVars, handlerVars, lineVars, browserVars, drops>>

Row == 1..MaxRows

\* A record of a device is stamped by the wall clock.  A log record's float of seconds is
\* truncated to nanoseconds before it is rounded to microseconds, like the others; that
\* keeps log records in order, but not among the records of devices.
Stamped ==
    /\ \A r \in Row : /\ ts[r] \in (tick[r] - Skew)..(tick[r] + Skew)
                      /\ dev[r] # System => ts[r] = tick[r]
                      /\ r = 1 => tick[r] = 1
    /\ \A r, q \in Row :
          r < q => tick[r] <= tick[q] /\ (dev[r] = System /\ dev[q] = System => ts[r] <= ts[q])

Init ==
    /\ dev \in [Row -> Devices \union {System}]
    /\ tick \in [Row -> 1..MaxTick] /\ ts \in [Row -> (1 - Skew)..(MaxTick + Skew)] /\ Stamped
    /\ made = 0 /\ flight = <<>> /\ spool = {} /\ table = {} /\ late = {}
    /\ pc = "off" /\ answer = <<>> /\ cursor = 0 /\ start = 0 /\ sent = {}
    /\ wire = <<>> /\ dead = FALSE
    /\ silent = FALSE /\ shown = [d \in Devices |-> 0] /\ drops = 0

\* datetime.now(): the clock has not ticked since the last row, or no row has seen it tick.
Now == IF made = 0 THEN 0 ELSE tick[made]

\* ORDER BY ts ASC: rows of one timestamp come in any order.
Sorted(rows) ==
    {s \in [1..Cardinality(rows) -> rows] :
        IsInjective(s) /\ \A i, j \in DOMAIN s : i < j => ts[s[i]] <= ts[s[j]]}
FirstOf(n, s) == SubSeq(s, 1, IF Len(s) < n THEN Len(s) ELSE n)
LastOf(n, s) == SubSeq(s, IF Len(s) < n THEN 1 ELSE Len(s) - n + 1, Len(s))
RowsOf(d) == {r \in table : dev[r] = d}

\* DISTINCT ON (device_id) ... ORDER BY device_id, ts DESC: of each device that has rows
\* one of the newest.
Snapshots ==
    {newest \in [Devices -> Row \union {0}] :
        \A d \in Devices :
            IF RowsOf(d) = {} THEN newest[d] = 0
            ELSE newest[d] \in RowsOf(d) /\ \A r \in RowsOf(d) : ts[r] <= ts[newest[d]]}

\* resp.write: what is written to a dead connection is lost.
Written(s) == IF dead THEN wire ELSE wire \o s

-----------------------------------------------------------------------------
(* The table, as the supervisor's writer fills it *)

Produce ==
    /\ made < MaxRows /\ made' = made + 1 /\ flight' = Append(flight, made')
    /\ UNCHANGED <<rowVars, spool, table, late, handlerVars, lineVars, browserVars, drops>>

\* A batch is one statement: it appears in the table at once.
Flush ==
    /\ flight # <<>> /\ flight' = <<>>
    /\ \/ table' = table \union ToSet(flight) /\ UNCHANGED spool
       \/ spool' = spool \union ToSet(flight) /\ UNCHANGED table
    /\ UNCHANGED <<rowVars, made, late, handlerVars, lineVars, browserVars, drops>>

Replay ==
    /\ spool # {} /\ spool' = {}
    /\ table' = table \union spool /\ late' = late \union spool
    /\ UNCHANGED <<rowVars, made, flight, handlerVars, lineVars, browserVars, drops>>

-----------------------------------------------------------------------------
(* The handler: events *)

SeedDevices ==
    /\ pc = "devices" /\ pc' = "logs"
    /\ \E newest \in Snapshots :
          wire' = Written(SetToSeq({newest[d] : d \in Devices} \ {0}))
    /\ UNCHANGED <<tableVars, answer, cursor, start, sent, dead, browserVars, drops>>

SeedLogs ==
    /\ pc = "logs" /\ pc' = "cursor"
    /\ \E s \in Sorted(RowsOf(System)) : wire' = Written(LastOf(SeedLimit, s))
    /\ UNCHANGED <<tableVars, answer, cursor, start, sent, dead, browserVars, drops>>

\* Mutant: the poll begins at the epoch.
BeginAtEpoch ==
    /\ pc = "cursor" /\ pc' = "poll"
    /\ cursor' = 0 /\ start' = cursor' /\ sent' = {}
    /\ UNCHANGED <<tableVars, answer, lineVars, browserVars, drops>>

\* last_ts = datetime.now(), once the seeds are written
Begin ==
    /\ pc = "cursor" /\ pc' = "poll"
    /\ cursor' = Now /\ start' = cursor' /\ sent' = {}
    /\ UNCHANGED <<tableVars, answer, lineVars, browserVars, drops>>

\* WHERE ts > $1
Newer == {r \in table : ts[r] > cursor}

\* Mutant: rows are held back until they fill a batch.
PollFullOnly ==
    /\ pc = "poll" /\ Cardinality(Newer) >= Limit /\ pc' = "answer"
    /\ \E s \in Sorted(Newer) : answer' = FirstOf(Limit, s)
    /\ UNCHANGED <<tableVars, cursor, start, sent, lineVars, browserVars, drops>>

\* The answer arrives after the table was read.  Without rows there is at most a
\* keepalive comment, which is no event to the browser.
Poll ==
    /\ pc = "poll" /\ Newer # {} /\ pc' = "answer"
    /\ \E s \in Sorted(Newer) : answer' = FirstOf(Limit, s)
    /\ UNCHANGED <<tableVars, cursor, start, sent, lineVars, browserVars, drops>>

\* Mutant: the cursor is set to the present time.
AnswerNow ==
    /\ pc = "answer" /\ pc' = "poll" /\ answer' = <<>>
    /\ cursor' = Now /\ wire' = Written(answer) /\ sent' = sent \union ToSet(answer)
    /\ UNCHANGED <<tableVars, start, dead, browserVars, drops>>

Answer ==
    /\ pc = "answer" /\ pc' = "poll" /\ answer' = <<>>
    /\ cursor' = ts[Last(answer)] /\ wire' = Written(answer)
    /\ sent' = sent \union ToSet(answer)
    /\ UNCHANGED <<tableVars, start, dead, browserVars, drops>>

\* A fetch raises, or the connection is reset; what was written may still be received.
StreamEnds ==
    /\ pc # "off" /\ drops < MaxDrops /\ drops' = drops + 1
    /\ pc' = "off" /\ answer' = <<>>
    /\ UNCHANGED <<tableVars, cursor, start, sent, lineVars, browserVars>>

LineDies ==
    /\ pc # "off" /\ ~dead /\ drops < MaxDrops /\ drops' = drops + 1
    /\ dead' = TRUE /\ wire' = <<>>
    /\ UNCHANGED <<tableVars, handlerVars, browserVars>>

-----------------------------------------------------------------------------
(* The browser: connectSSE and the watchdog *)

\* The handler of an abandoned connection goes on alone until a write fails.
NewConnection ==
    /\ pc' = "devices" /\ answer' = <<>> /\ sent' = {} /\ wire' = <<>> /\ dead' = FALSE
    /\ UNCHANGED <<cursor, start>>

\* EventSource connects again by itself, if it learns of the end.
Connect ==
    /\ pc = "off" /\ ~dead /\ NewConnection
    /\ UNCHANGED <<tableVars, browserVars, drops>>

Receive ==
    /\ wire # <<>> /\ wire' = Tail(wire)
    /\ silent' = FALSE
    /\ shown' = [d \in Devices |-> IF dev[Head(wire)] = d THEN Head(wire) ELSE shown[d]]
    /\ UNCHANGED <<tableVars, handlerVars, dead, drops>>

\* No message for 45 seconds: the line is dead, or there is nothing to say.
Quiet == wire = <<>> /\ (dead \/ (pc = "poll" /\ Newer = {}))

\* Mutant: every check of the watchdog starts the 45 seconds anew.
SilenceNever ==
    /\ Quiet /\ silent' = FALSE
    /\ UNCHANGED <<tableVars, handlerVars, lineVars, shown, drops>>

Silence ==
    /\ Quiet /\ ~silent /\ silent' = TRUE
    /\ UNCHANGED <<tableVars, handlerVars, lineVars, shown, drops>>

Watchdog ==
    /\ silent /\ silent' = FALSE /\ NewConnection
    /\ UNCHANGED <<tableVars, shown, drops>>

-----------------------------------------------------------------------------
Handler == SeedDevices \/ SeedLogs \/ Begin \/ Poll \/ Answer

Next ==
    \/ Produce \/ Flush \/ Replay
    \/ Handler \/ StreamEnds \/ LineDies
    \/ Connect \/ Receive \/ Silence \/ Watchdog

Spec == Init /\ [][Next]_vars

\* The web server's loop and the browser run, and on a dead line 45 seconds without an
\* event do pass.  Nothing is assumed of the supervisor.
FairSpec ==
    /\ Spec /\ WF_vars(Handler) /\ WF_vars(Connect) /\ WF_vars(Receive)
    /\ WF_vars(dead /\ Silence) /\ WF_vars(Watchdog)

-----------------------------------------------------------------------------
(* Properties *)

TypeOK ==
    /\ dev \in [Row -> Devices \union {System}] /\ tick \in [Row -> 1..MaxTick] /\ ts \in [Row -> Int]
    /\ made \in 0..MaxRows
    /\ flight \in Seq(Row) /\ spool \subseteq Row /\ table \subseteq Row /\ late \subseteq table
    /\ pc \in {"off", "devices", "logs", "cursor", "poll", "answer"}
    /\ answer \in Seq(Row) /\ Len(answer) <= Limit /\ wire \in Seq(Row)
    /\ cursor \in Int /\ start \in Int /\ sent \subseteq Row
    /\ dead \in BOOLEAN /\ silent \in BOOLEAN
    /\ shown \in [Devices -> 0..MaxRows] /\ drops \in 0..MaxDrops

\* A device's card never goes back to values with an older timestamp, through seeds, polls,
\* ties, replays of the spool and new connections.
NeverBackwards ==
    [][\A d \in Devices : shown[d] # 0 => shown'[d] # 0 /\ ts'[shown'[d]] >= ts[shown[d]]]_vars

\* What the cursor passes by, and the browser is then never sent, is no more than this: rows
\* the spool held back, and rows of the timestamp of one that was sent, or so close before
\* it that the stamp of a log record may put them in the other order.  Such a tie is cut by
\* LIMIT, or comes into the table in a later batch.
NoGap ==
    pc \in {"poll", "answer"} =>
        \A r \in table \ (sent \union late) :
            start < ts[r] /\ ts[r] <= cursor =>
                \E q \in sent : ts[q] \in ts[r]..(ts[r] + Skew)

\* What is newer than the cursor reaches the browser, in whatever batches it takes, until
\* nothing newer is left and all that was written is received; or the browser connects anew.
CatchesUp ==
    pc = "poll" /\ Newer # {} ~>
        pc \in {"off", "devices"} \/ (~dead /\ wire = <<>> /\ Newer = {})

\* A connection that is silently dead is found out and replaced.
DeadLineFound == dead ~> ~dead

=============================================================================
