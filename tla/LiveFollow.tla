----------------------------- MODULE LiveFollow -----------------------------
(***************************************************************************)
(* The toolpath page of one browser: it lists the print jobs of a robot,   *)
(* shows the points of one, and follows it live while the toolpath writer  *)
(* adds points.  Page code runs to its next await without interruption;    *)
(* every fetch is answered when the server and the network get to it, so   *)
(* answers arrive in any order, and what the user clicks comes in between. *)
(* In playback mode the page loads a job, and the player takes over.       *)
(*                                                                         *)
(* A point is its ts, and allPoints the set of them: a point that is shown *)
(* twice counts once.                                                      *)
(***************************************************************************)
EXTENDS Integers, Sequences, FiniteSets

CONSTANTS
    MaxJobs,     \* bound: print jobs of the robot
    MaxPoints,   \* bound: points recorded, over all jobs
    Slots,       \* bound: fetches under way at once, 1..Slots
    FullLimit,   \* points /api/toolpath answers at most
    LiveLimit,   \* points /live answers at most
    MaxEvents,   \* bound: clicks of the user, jobs that start or end
    MaxTrouble   \* bound: fetches that fail

ASSUME LiveAssumption ==
    /\ {MaxJobs, MaxPoints, Slots, FullLimit, LiveLimit} \subseteq Nat \ {0}
    /\ MaxEvents \in Nat /\ MaxTrouble \in Nat

VARIABLES
    rows,      \* toolpath_points: the job of each point, by ts
    active,    \* the job with status active, or 0
    gone,      \* jobs deleted
    erased,    \* points deleted with their job
    slot,      \* the fetches under way
    events, trouble,
    mode,      \* "live" or "playback"
    cur,       \* currentJobId, or 0
    pts,       \* allPoints
    lastTs,    \* lastLiveTs
    liveTimer, \* the job whose interval liveTimer is, or 0
    leaked,    \* jobs with an interval nothing refers to any more
    clean      \* history: nothing old was under way when the job was selected

db == <<rows, active, gone, erased>>
net == <<slot, events, trouble>>
live == <<lastTs, liveTimer, leaked>>
view == <<mode, cur, pts, live, clean>>
pageVars == <<db, net, view>>

Job == 1..MaxJobs
Ts == 1..MaxPoints
Slot == 1..Slots

Idle == [kind |-> "idle", job |-> 0, since |-> 0, done |-> FALSE, reply |-> {}]
Fetch(kind, j, since) ==
    [kind |-> kind, job |-> j, since |-> since, done |-> FALSE, reply |-> {}]

\* The page is loaded, and loadJobs is called.
PageInit ==
    /\ rows = <<>> /\ active \in 0..MaxJobs /\ gone = {} /\ erased = {}
    /\ slot = [s \in Slot |-> IF s = 1 THEN Fetch("jobs", 0, 0) ELSE Idle]
    /\ events = 0 /\ trouble = 0 /\ mode = "live" /\ cur = 0 /\ pts = {} /\ lastTs = 0
    /\ liveTimer = 0 /\ leaked = {} /\ clean = TRUE

-----------------------------------------------------------------------------
(* What the server answers *)

\* ORDER BY ts ASC LIMIT k
First(k, S) == {t \in S : Cardinality({u \in S : u < t}) < k}

PointsOf(j) == {t \in DOMAIN rows \ erased : rows[t] = j}

\* api_toolpath
FullAnswer(j) == First(FullLimit, PointsOf(j))

\* Mutant: the newest points, as a live view might ask for.
LiveAnswerNewest(j, since) ==
    LET new == {t \in PointsOf(j) : t > since} IN new \ First(Cardinality(new) - LiveLimit, new)

\* api_toolpath_live
LiveAnswer(j, since) == First(LiveLimit, {t \in PointsOf(j) : t > since})

Greatest(S) == IF S = {} THEN 0 ELSE CHOOSE t \in S : \A u \in S : u <= t

-----------------------------------------------------------------------------
(* The page's functions *)

Free == {s \in Slot : slot[s].kind = "idle"}
\* A fetch is sent.
Issue(fetch) == LET s == CHOOSE s \in Free : \A q \in Free : s <= q
                IN slot' = [slot EXCEPT ![s] = fetch]

\* stopLive; of the job check every five seconds only liveJobPollTimer is left out, as it
\* is set and cleared together with liveTimer.
StopLive == liveTimer' = 0

\* startLive overwrites liveTimer, whatever it holds.
StartLive(j) ==
    /\ liveTimer' = j
    /\ leaked' = IF liveTimer = 0 THEN leaked ELSE leaked \cup {liveTimer}

\* Fetches whose answers would change the points that the page shows.
Touching(S) == \E s \in S : slot[s].kind \in {"full", "poll", "delete", "drop"}

\* selectJob up to its await; its fetch has taken slot s.
SelectJob(j, s) ==
    /\ StopLive /\ UNCHANGED <<leaked, lastTs>> /\ cur' = j /\ pts' = {}
    /\ slot' = [slot EXCEPT ![s] = Fetch("full", j, 0)]
    /\ clean' = (leaked = {} /\ ~Touching(Slot \ {s}))

-----------------------------------------------------------------------------
(* What the user does *)

Event == events < MaxEvents /\ events' = events + 1 /\ UNCHANGED trouble
Click == Event /\ UNCHANGED db

Choose(j) ==
    /\ Click /\ \E s \in Free : SelectJob(j, s)
    /\ UNCHANGED mode

\* The mode's change event.
SetMode ==
    /\ Click /\ mode' = IF mode = "live" THEN "playback" ELSE "live"
    /\ IF cur = 0
       THEN /\ StopLive
            /\ UNCHANGED <<slot, cur, pts, lastTs, leaked, clean>>
       ELSE \E s \in Free : SelectJob(cur, s)

\* A tab is clicked: setMachine.
SetMachine ==
    /\ Click /\ Free # {} /\ Issue(Fetch("jobs", 0, 0)) /\ StopLive
    /\ UNCHANGED <<mode, cur, pts, lastTs, leaked, clean>>

\* The deletion is confirmed.
Delete ==
    /\ Click /\ cur # 0 /\ Free # {} /\ Issue(Fetch("delete", cur, 0))
    /\ UNCHANGED view

-----------------------------------------------------------------------------
(* Timers: startLive *)

\* Every 200 ms, for the job the interval was started for.
PollLive(j) ==
    /\ j \in leaked \cup {liveTimer} /\ j # 0 /\ cur # 0
    /\ Free # {} /\ Issue(Fetch("poll", j, lastTs))
    /\ UNCHANGED <<db, events, trouble, view>>

\* Every five seconds: is there another active job?
Check ==
    /\ leaked \cup {liveTimer} # {0} /\ Free # {} /\ Issue(Fetch("check", 0, 0))
    /\ UNCHANGED <<db, events, trouble, view>>

-----------------------------------------------------------------------------
(* The server *)

\* Of the request only the job that selectJob was called with is used again, and an empty
\* answer to a poll changes nothing.
Respond(s, reply) ==
    slot' = [slot EXCEPT ![s] =
        IF @.kind = "poll" /\ reply = {} THEN Idle
        ELSE [@ EXCEPT !.done = TRUE, !.reply = reply, !.since = 0,
                       !.job = IF slot[s].kind = "full" THEN slot[s].job ELSE 0]]

Serve(s) ==
    /\ slot[s].kind \notin {"idle", "delete"} /\ ~slot[s].done
    /\ LET q == slot[s] IN
       /\ Respond(s, CASE q.kind = "full" -> FullAnswer(q.job)
                       [] q.kind = "poll" -> LiveAnswer(q.job, q.since)
                       [] q.kind = "drop" -> {}
                       [] OTHER -> {active} \ {0})
       /\ IF q.kind = "drop"
          THEN gone' = gone \cup {q.job} /\ active' = IF active = q.job THEN 0 ELSE active
          ELSE UNCHANGED <<gone, active>>
    /\ UNCHANGED <<rows, erased, events, trouble, view>>

\* A deletion is two statements, in no transaction: the points first, then the job.
ErasePoints(s) ==
    /\ slot[s].kind = "delete" /\ ~slot[s].done
    /\ erased' = erased \cup PointsOf(slot[s].job)
    /\ slot' = [slot EXCEPT ![s] = Fetch("drop", slot[s].job, 0)]
    /\ UNCHANGED <<rows, active, gone, events, trouble, view>>

Trouble == trouble < MaxTrouble /\ trouble' = trouble + 1

\* The fetch fails: the page goes on with an empty answer, and does not look at the
\* status of a deletion.
ServeFails(s) ==
    /\ slot[s].kind # "idle" /\ ~slot[s].done /\ Trouble
    /\ Respond(s, {})
    /\ UNCHANGED <<db, events, view>>

\* A deletion that no answer comes of, whatever the server has done by then: the fetch
\* throws, nothing catches it, and the page stays as it is.
DeleteThrows(s) ==
    /\ slot[s].kind \in {"delete", "drop"} /\ Trouble
    /\ slot' = [slot EXCEPT ![s] = Idle]
    /\ UNCHANGED <<db, events, view>>

-----------------------------------------------------------------------------
(* Answers *)

Done(s, kind) == slot[s].done /\ slot[s].kind = kind
End(s) == slot' = [slot EXCEPT ![s] = Idle]

\* loadJobs selects the active job in live mode.
JobsArrive(s) ==
    /\ Done(s, "jobs")
    /\ \/ /\ mode = "live" /\ \E j \in slot[s].reply : SelectJob(j, s)
          /\ UNCHANGED mode
       \/ /\ mode = "playback" \/ slot[s].reply = {}
          /\ End(s) /\ UNCHANGED view
    /\ UNCHANGED <<db, events, trouble>>

\* selectJob after its await.  The mode is the present one, the job that of the call.
FullArrives(s) ==
    /\ Done(s, "full") /\ End(s)
    /\ pts' = slot[s].reply
    /\ IF mode = "live" THEN lastTs' = Greatest(pts') /\ StartLive(slot[s].job)
       ELSE UNCHANGED live
    /\ UNCHANGED <<db, events, trouble, mode, cur, clean>>

\* Mutant: lastLiveTs stays what it was when the job was selected.
PollArrivesOldTs(s) ==
    /\ Done(s, "poll") /\ End(s)
    /\ pts' = pts \cup slot[s].reply
    /\ UNCHANGED <<db, events, trouble, mode, cur, live, clean>>

\* Neither the job nor the mode is looked at again.
PollArrives(s) ==
    /\ Done(s, "poll") /\ End(s)
    /\ pts' = pts \cup slot[s].reply
    /\ lastTs' = Greatest(slot[s].reply)
    /\ UNCHANGED <<db, events, trouble, mode, cur, liveTimer, leaked, clean>>

\* A job other than the current one is active: loadJobs.
CheckArrives(s) ==
    /\ Done(s, "check")
    /\ slot' = [slot EXCEPT ![s] = IF slot[s].reply \subseteq {cur} THEN Idle
                                   ELSE Fetch("jobs", 0, 0)]
    /\ UNCHANGED <<db, events, trouble, view>>

DeleteArrives(s) ==
    /\ Done(s, "delete") \/ Done(s, "drop")
    /\ slot' = [slot EXCEPT ![s] = Fetch("jobs", 0, 0)]
    /\ cur' = 0 /\ pts' = {}
    /\ UNCHANGED <<db, events, trouble, mode, live, clean>>

-----------------------------------------------------------------------------
(* The toolpath writer *)

\* A job starts, or is resumed.  What the writer still adds to a job that is deleted under
\* it is in ToolpathJobs.
JobStarts ==
    /\ Event /\ active = 0 /\ active' \in Job \ gone
    /\ UNCHANGED <<rows, gone, erased, slot, view>>

JobEnds == Event /\ active # 0 /\ active' = 0 /\ UNCHANGED <<rows, gone, erased, slot, view>>

PointRecorded ==
    /\ active # 0 /\ Len(rows) < MaxPoints /\ rows' = Append(rows, active)
    /\ UNCHANGED <<active, gone, erased, net, view>>

-----------------------------------------------------------------------------
Arrives(s) ==
    JobsArrive(s) \/ FullArrives(s) \/ PollArrives(s) \/ CheckArrives(s) \/ DeleteArrives(s)

User ==
    \/ \E j \in Job : Choose(j)
    \/ SetMode \/ SetMachine \/ Delete

PageNext ==
    \/ User \/ Check \/ \E j \in Job : PollLive(j)
    \/ \E s \in Slot : Serve(s) \/ ErasePoints(s) \/ ServeFails(s) \/ DeleteThrows(s) \/ Arrives(s)
    \/ JobStarts \/ JobEnds \/ PointRecorded

PageSpec == PageInit /\ [][PageNext]_pageVars

\* The server answers, answers arrive, intervals fire.  An interval fires whatever else is
\* under way; that it needs a slot is the bound's doing, hence the strong fairness.
FairPageSpec ==
    /\ PageSpec
    /\ \A s \in Slot : WF_pageVars(Serve(s) \/ ErasePoints(s)) /\ WF_pageVars(Arrives(s))
    /\ \A j \in Job : SF_pageVars(PollLive(j))

-----------------------------------------------------------------------------
(* Properties *)

\* A reply holds jobs for the one, points for the other; a full fetch is of a job,
\* and so is a deletion that is not done.
Request ==
    [kind: {"idle", "jobs", "check", "full", "poll", "delete", "drop"},
     job: 0..MaxJobs, since: 0..Len(rows), done: BOOLEAN, reply: SUBSET (Job \cup DOMAIN rows)]

ReplyOK(q) ==
    /\ q.kind \in {"jobs", "check"} => q.reply \subseteq Job
    /\ q.kind \in {"full", "poll"} => q.reply \subseteq DOMAIN rows
    /\ (q.kind = "full" \/ (q.kind \in {"delete", "drop"} /\ ~q.done)) => q.job # 0

PageTypeOK ==
    /\ rows \in Seq(Job) /\ Len(rows) <= MaxPoints /\ active \in 0..MaxJobs /\ gone \subseteq Job
    /\ erased \subseteq DOMAIN rows
    /\ slot \in [Slot -> Request] /\ \A s \in Slot : ReplyOK(slot[s])
    /\ mode \in {"live", "playback"} /\ cur \in 0..MaxJobs /\ pts \subseteq DOMAIN rows
    /\ lastTs \in 0..Len(rows) /\ liveTimer \in 0..MaxJobs /\ leaked \subseteq Job
    /\ clean \in BOOLEAN /\ events \in 0..MaxEvents /\ trouble \in 0..MaxTrouble

\* A job that was selected while no older fetch was under way, and no interval had been
\* lost, is shown without a point of another job and without a gap: polls of the interval
\* overlap, and their answers arrive late, twice, or out of order, and are cut short.
ShowsJob ==
    clean /\ cur # 0 =>
        \A t \in pts : /\ rows[t] = cur
                       /\ \A u \in PointsOf(cur) : u < t => u \in pts

\* Every point of the active job comes to be shown in a page that follows it live, unless
\* the user or the page turns to something else.
Missing(t) ==
    clean /\ mode = "live" /\ cur # 0 /\ liveTimer = cur /\ t \in PointsOf(cur) \ pts

FollowsLive == \A t \in Ts : Missing(t) ~> ~Missing(t)

=============================================================================
