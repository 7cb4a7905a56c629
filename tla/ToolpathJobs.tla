---------------------------- MODULE ToolpathJobs ----------------------------
(***************************************************************************)
(* The toolpath writer: a process of its own that polls the latest         *)
(* telemetry snapshot of a robot, drives the robot's cell through idle,    *)
(* active and paused, and records TCP positions under print jobs.  The web *)
(* server deletes jobs behind its back.                                    *)
(*                                                                         *)
(* One robot is modelled: cells share nothing but the connection, and the  *)
(* tables are keyed by robot.  Each SQL statement is one action, because   *)
(* statements autocommit and _tick awaits between them.                    *)
(***************************************************************************)
EXTENDS Integers, Sequences, FiniteSets

CONSTANTS
    Writers,     \* processes running src.toolpath.writer on this robot's cell
    Programs,    \* task_program_name of the robot
    NoProgram,   \* the name is missing or empty
    Snapshots,   \* what the collector may store: see Snapshot
    Dedup,       \* toolpath.dedup_mm
    MaxEvents    \* bound: snapshots stored, jobs expired, statements failed, writers
                 \* restarted and jobs deleted, all together

\* program_state = P_Active, task_program_name, and the TCP on one axis in mm.
Snapshot == [active: BOOLEAN, prog: Programs \cup {NoProgram}, pos: Int]

ASSUME ToolpathAssumption ==
    /\ NoProgram \notin Programs
    /\ Snapshots \subseteq Snapshot /\ Dedup \in Nat
    /\ MaxEvents \in Nat

VARIABLES
    telemetry,  \* the robot's snapshots by ts; only the latest is ever read
    fresh,      \* the latest snapshot is at most 10 s old
    jobs,       \* print_jobs of the robot, by job_id
    nextJob,    \* the BIGSERIAL of print_jobs
    points,     \* toolpath_points of the robot
    cell,       \* CellState of each writer
    pc,         \* the statement each writer waits for, "tick" between two ticks
    seen,       \* ts of the snapshot the tick has read
    conn,       \* the writer's connection is open
    del,        \* the DELETE request in progress
    expiries, faults, stops, deletes

dbVars == <<jobs, nextJob, points>>
memVars == <<cell, pc, seen, conn>>
delVars == <<del, deletes>>
envVars == <<telemetry, fresh, expiries>>
vars == <<envVars, dbVars, memVars, delVars, faults, stops>>

Events == Len(telemetry) + expiries + faults + stops + deletes
MayHappen == Events < MaxEvents

JobId == Nat \ {0}
Job == [prog: Programs, status: {"active", "complete"}, recent: BOOLEAN, total: Nat]
Point == [row: Nat, job: JobId, ts: Nat]
Cell == [state: {"idle", "active", "paused"}, job: Nat, prog: Programs \cup {NoProgram},
         last: Int, session: BOOLEAN]
Pc == {"tick", "find", "create", "complete", "resume", "insert", "touch"}

\* __init__: a cell that has followed no program yet.
NewCell == [state |-> "idle", job |-> 0, prog |-> NoProgram, last |-> 0, session |-> FALSE]

NoRequest == [job |-> 0, step |-> "none"]

Init ==
    /\ telemetry = <<>> /\ fresh = FALSE /\ expiries = 0
    /\ jobs = <<>> /\ nextJob = 1 /\ points = {}
    /\ cell = [w \in Writers |-> NewCell]
    /\ pc = [w \in Writers |-> "tick"]
    /\ seen = [w \in Writers |-> 0]
    /\ conn = [w \in Writers |-> TRUE]
    /\ del = NoRequest /\ deletes = 0
    /\ faults = 0 /\ stops = 0

-----------------------------------------------------------------------------
(* _tick: what the latest snapshot and the cell's state ask for.  A tick that *)
(* none of these covers changes nothing.                                      *)

Latest == telemetry[Len(telemetry)]

Recent == telemetry # <<>> /\ fresh
IsActive == Recent /\ Latest.active

\* "program_name and program_name != cell.program_name", but only when paused.
ChangedWhilePaused(w) ==
    cell[w].state = "paused" /\ Latest.prog # NoProgram /\ Latest.prog # cell[w].prog

Changed(w) == Latest.prog # NoProgram /\ Latest.prog # cell[w].prog

\* Mutant: a point is never a duplicate.
NearNever(w) == FALSE

\* points_this_session > 0 and dist < dedup_mm
Near(w) ==
    /\ cell[w].session
    /\ Latest.pos - cell[w].last < Dedup /\ cell[w].last - Latest.pos < Dedup

Reads(w, state) == conn[w] /\ pc[w] = "tick" /\ cell[w].state = state

Awaits(w, statement) ==
    /\ pc' = [pc EXCEPT ![w] = statement]
    /\ seen' = [seen EXCEPT ![w] = Len(telemetry)]
    /\ UNCHANGED <<envVars, dbVars, cell, conn, delVars, faults, stops>>

TickPause(w) ==
    /\ Reads(w, "active") /\ telemetry # <<>> /\ ~IsActive
    /\ cell' = [cell EXCEPT ![w] = [@ EXCEPT !.state = "paused"]]
    /\ UNCHANGED <<envVars, dbVars, pc, seen, conn, delVars, faults, stops>>

TickStart(w) ==
    Reads(w, "idle") /\ IsActive /\ Latest.prog # NoProgram /\ Awaits(w, "find")

TickSwitch(w) ==
    /\ Reads(w, "active") \/ Reads(w, "paused")
    /\ IsActive /\ Changed(w) /\ Awaits(w, "complete")

\* Mutant: a paused cell only goes on with another program.
TickResumeNever(w) ==
    /\ Reads(w, "paused") /\ IsActive /\ Latest.prog \notin {cell[w].prog, NoProgram}
    /\ Awaits(w, "resume")

TickResume(w) ==
    Reads(w, "paused") /\ IsActive /\ Latest.prog = cell[w].prog /\ Awaits(w, "resume")

\* The read of the Fronius snapshot that follows fills columns no decision looks at.
TickWrite(w) ==
    Reads(w, "active") /\ IsActive /\ ~Changed(w) /\ ~Near(w) /\ Awaits(w, "insert")

-----------------------------------------------------------------------------
(* The statements.  Row... is what a statement does to the tables, whether or *)
(* not its answer reaches the writer; an UPDATE of a deleted job is no error. *)

Prog(w) == telemetry[seen[w]].prog

\* Mutant: the comparison with the resume window is the wrong way round.
OpenJobsExpired(p) ==
    {j \in DOMAIN jobs : jobs[j].prog = p /\ jobs[j].status = "active" /\ ~jobs[j].recent}

\* _FIND_OPEN_JOB; the order of its candidates is left open.
OpenJobs(p) ==
    {j \in DOMAIN jobs : jobs[j].prog = p /\ jobs[j].status = "active" /\ jobs[j].recent}

RowCreated(w) ==
    /\ jobs' = [j \in DOMAIN jobs \cup {nextJob} |->
                   IF j = nextJob
                   THEN [prog |-> Prog(w), status |-> "active", recent |-> TRUE, total |-> 0]
                   ELSE jobs[j]]
    /\ nextJob' = nextJob + 1 /\ UNCHANGED points

Update(j, job) ==
    /\ jobs' = [k \in DOMAIN jobs |-> IF k = j THEN job ELSE jobs[k]]
    /\ UNCHANGED <<nextJob, points>>

RowCompleted(w) ==
    LET j == cell[w].job
    IN  Update(j, [jobs[j] EXCEPT !.status = "complete", !.recent = TRUE])

RowResumed(w) ==
    LET j == cell[w].job
    IN  Update(j, [jobs[j] EXCEPT !.recent = TRUE])

\* Mutant: total_points is not counted.
RowTouchedUncounted(w) == RowResumed(w)

RowTouched(w) ==
    LET j == cell[w].job
    IN  Update(j, [jobs[j] EXCEPT !.recent = TRUE, !.total = @ + 1])

\* Rows are told apart by a number of their own; the table has no key.
FreeRow == CHOOSE n \in 0..Cardinality(points) : \A p \in points : p.row # n

RowInserted(w) ==
    /\ points' = points \cup {[row |-> FreeRow, job |-> cell[w].job, ts |-> seen[w]]}
    /\ UNCHANGED <<jobs, nextJob>>

Executes(w) ==
    \/ pc[w] = "create" /\ RowCreated(w)
    \/ pc[w] = "complete" /\ RowCompleted(w)
    \/ pc[w] = "resume" /\ RowResumed(w)
    \/ pc[w] = "insert" /\ RowInserted(w)
    \/ pc[w] = "touch" /\ RowTouched(w)

TickEnds(w) == pc' = [pc EXCEPT ![w] = "tick"] /\ seen' = [seen EXCEPT ![w] = 0]

Surroundings == <<envVars, conn, delVars, faults, stops>>

\* Mutant: the new program is followed, under the job of the old one.
EntersOldJob(w, j) ==
    /\ cell' = [cell EXCEPT ![w] = [@ EXCEPT !.state = "active", !.session = FALSE,
                                            !.prog = Prog(w), !.job = IF @ = 0 THEN j ELSE @]]
    /\ TickEnds(w)

Enters(w, j) ==
    /\ cell' = [cell EXCEPT ![w] = [@ EXCEPT !.state = "active", !.session = FALSE,
                                            !.prog = Prog(w), !.job = j]]
    /\ TickEnds(w)

\* _ensure_job
FindsJob(w) ==
    /\ pc[w] = "find"
    /\ \E j \in OpenJobs(Prog(w)) : Enters(w, j)
    /\ UNCHANGED <<dbVars, Surroundings>>

FindsNone(w) ==
    /\ pc[w] = "find" /\ OpenJobs(Prog(w)) = {}
    /\ pc' = [pc EXCEPT ![w] = "create"]
    /\ UNCHANGED <<dbVars, cell, seen, Surroundings>>

Create(w) ==
    /\ pc[w] = "create" /\ RowCreated(w)
    /\ Enters(w, nextJob)
    /\ UNCHANGED Surroundings

Complete(w) ==
    /\ pc[w] = "complete" /\ RowCompleted(w)
    /\ pc' = [pc EXCEPT ![w] = "find"]
    /\ UNCHANGED <<cell, seen, Surroundings>>

Resume(w) ==
    /\ pc[w] = "resume" /\ RowResumed(w)
    /\ cell' = [cell EXCEPT ![w] = [@ EXCEPT !.state = "active", !.session = FALSE]]
    /\ TickEnds(w)
    /\ UNCHANGED Surroundings

Insert(w) ==
    /\ pc[w] = "insert" /\ RowInserted(w)
    /\ pc' = [pc EXCEPT ![w] = "touch"]
    /\ UNCHANGED <<cell, seen, Surroundings>>

Touch(w) ==
    /\ pc[w] = "touch" /\ RowTouched(w)
    /\ cell' = [cell EXCEPT ![w] = [@ EXCEPT !.last = telemetry[seen[w]].pos, !.session = TRUE]]
    /\ TickEnds(w)
    /\ UNCHANGED Surroundings

-----------------------------------------------------------------------------
(* What goes wrong *)

\* run catches the exception; the cell keeps what was assigned before.  A
\* connection that is lost takes the answer with it, and nothing opens another.
StatementRaises(w) ==
    /\ pc[w] # "tick" /\ MayHappen /\ faults' = faults + 1
    /\ \/ UNCHANGED <<dbVars, conn>>
       \/ conn' = [conn EXCEPT ![w] = FALSE] /\ (Executes(w) \/ UNCHANGED dbVars)
    /\ TickEnds(w)
    /\ UNCHANGED <<envVars, cell, delVars, stops>>

ConnectionLost(w) ==
    /\ conn[w] /\ pc[w] = "tick" /\ MayHappen /\ faults' = faults + 1
    /\ conn' = [conn EXCEPT ![w] = FALSE]
    /\ UNCHANGED <<envVars, dbVars, cell, pc, seen, delVars, stops>>

\* The process ends, between ticks by a signal or anywhere by a crash, and is
\* started again: the cells are new, the jobs in the database are not.
Restart(w) ==
    /\ MayHappen /\ stops' = stops + 1
    /\ Executes(w) \/ UNCHANGED dbVars
    /\ cell' = [cell EXCEPT ![w] = NewCell]
    /\ conn' = [conn EXCEPT ![w] = TRUE]
    /\ TickEnds(w)
    /\ UNCHANGED <<envVars, delVars, faults>>

-----------------------------------------------------------------------------
(* The web server's api_jobs_delete: two statements that commit on their own *)

DeleteRequest(j) ==
    /\ del = NoRequest /\ MayHappen /\ deletes' = deletes + 1
    /\ del' = [job |-> j, step |-> "points"]
    /\ UNCHANGED <<envVars, dbVars, memVars, faults, stops>>

DeletePoints ==
    /\ del.step = "points"
    /\ points' = {p \in points : p.job # del.job}
    /\ del' = [del EXCEPT !.step = "job"]
    /\ UNCHANGED <<envVars, jobs, nextJob, memVars, deletes, faults, stops>>

DeleteJob ==
    /\ del.step = "job"
    /\ jobs' = [k \in DOMAIN jobs \ {del.job} |-> jobs[k]]
    /\ del' = NoRequest
    /\ UNCHANGED <<envVars, nextJob, points, memVars, deletes, faults, stops>>

\* A statement raises: status 500, and what is done stays done.
DeleteFails ==
    /\ del # NoRequest /\ MayHappen /\ faults' = faults + 1
    /\ del' = NoRequest
    /\ UNCHANGED <<envVars, dbVars, memVars, deletes, stops>>

-----------------------------------------------------------------------------
(* The robot, its collector, and time *)

NewSnapshot(s) ==
    /\ MayHappen
    /\ telemetry' = Append(telemetry, s) /\ fresh' = TRUE
    /\ UNCHANGED <<expiries, dbVars, memVars, delVars, faults, stops>>

GoesStale ==
    /\ fresh /\ fresh' = FALSE
    /\ UNCHANGED <<telemetry, expiries, dbVars, memVars, delVars, faults, stops>>

\* last_active_at leaves the resume window; the order between jobs is left open.
Expires(j) ==
    /\ MayHappen /\ expiries' = expiries + 1
    /\ jobs[j].recent /\ jobs' = [jobs EXCEPT ![j].recent = FALSE]
    /\ UNCHANGED <<telemetry, fresh, nextJob, points, memVars, delVars, faults, stops>>

-----------------------------------------------------------------------------
Tick(w) == TickPause(w) \/ TickStart(w) \/ TickSwitch(w) \/ TickResume(w) \/ TickWrite(w)
EnsureJob(w) == FindsJob(w) \/ FindsNone(w) \/ Create(w)
Statement(w) == EnsureJob(w) \/ Complete(w) \/ Resume(w) \/ Insert(w) \/ Touch(w)
Trouble(w) == StatementRaises(w) \/ ConnectionLost(w) \/ Restart(w)
Deletion == (\E j \in DOMAIN jobs : DeleteRequest(j)) \/ DeletePoints \/ DeleteJob \/ DeleteFails

Robot ==
    \/ \E s \in Snapshots : NewSnapshot(s)
    \/ GoesStale
    \/ \E j \in DOMAIN jobs : Expires(j)

Next == (\E w \in Writers : Tick(w) \/ Statement(w) \/ Trouble(w)) \/ Deletion \/ Robot

Spec == Init /\ [][Next]_vars

\* run ticks every poll_interval and a statement is answered or raises.
FairSpec == Spec /\ \A w \in Writers : WF_vars(Tick(w)) /\ WF_vars(Statement(w))

-----------------------------------------------------------------------------
(* Properties *)

\* Types; and a cell that has left idle follows a job that was created and a
\* program that has a name.
TypeOK ==
    /\ telemetry \in Seq(Snapshots) /\ fresh \in BOOLEAN
    /\ nextJob \in JobId
    /\ DOMAIN jobs \subseteq 1..(nextJob - 1) /\ \A j \in DOMAIN jobs : jobs[j] \in Job
    /\ points \subseteq Point
    /\ cell \in [Writers -> Cell] /\ pc \in [Writers -> Pc] /\ seen \in [Writers -> Nat]
    /\ \A w \in Writers :
          /\ cell[w].state # "idle" => cell[w].job \in 1..(nextJob - 1) /\ cell[w].prog \in Programs
          /\ seen[w] \in IF pc[w] = "tick" THEN {0} ELSE 1..Len(telemetry)
    /\ conn \in [Writers -> BOOLEAN]
    /\ del \in [job: Nat, step: {"none", "points", "job"}]
    /\ expiries \in Nat /\ faults \in Nat /\ stops \in Nat /\ deletes \in Nat

\* schema_toolpath.sql:9-11: a job is keyed by robot and program, and a program that
\* restarts within the window goes on with its job.  So _FIND_OPEN_JOB never has two
\* candidates, whatever crashes, is lost or expires between SELECT and INSERT.
Open(j) == j \in DOMAIN jobs /\ jobs[j].status = "active" /\ jobs[j].recent

OneOpenJob == \A j, k \in DOMAIN jobs : Open(j) /\ Open(k) /\ jobs[j].prog = jobs[k].prog => j = k

\* A point lies in the job of the program the robot ran when it was sampled (or of
\* the last one known, when the snapshot names none), although snapshot, cell and job
\* are read and written with awaits in between.
PointsUnderTheirProgram ==
    \A p \in points : p.job \in DOMAIN jobs =>
        telemetry[p.ts].prog \in {jobs[p.job].prog, NoProgram}

\* A complete job gets no more points, unless a statement failed halfway through a
\* change of program and left the cell on the job it had just completed.
NoPointAfterComplete ==
    [][\A p \in points' \ points :
          faults = 0 /\ p.job \in DOMAIN jobs => jobs[p.job].status = "active"]_vars

\* total_points of a job and its rows drift apart by one at most for each statement
\* that fails and each stop between INSERT and UPDATE, and never the other way.
RowsOf(j) == {p \in points : p.job = j}
Uncounted(j) == {w \in Writers : pc[w] = "touch" /\ cell[w].job = j}

PointsCounted ==
    deletes = 0 => \A j \in DOMAIN jobs :
        Cardinality(RowsOf(j)) - jobs[j].total - Cardinality(Uncounted(j)) \in 0..(faults + stops)

\* A snapshot is recorded once in a job, and once more for each failed statement or
\* restart that made the writer forget it: readers use ts as their cursor.
BoundedCopies ==
    \A p \in points :
        Cardinality({q \in points : q.job = p.job /\ q.ts = p.ts}) <= 1 + faults + stops

\* While the robot goes on running program p and the connection holds, the writer
\* comes to follow p, and the robot's position to be within dedup_mm of the last
\* point recorded: no pause, failed statement or change of program blocks it for good.
Runs(p) == IsActive /\ Latest.prog = p
Follows(w, p) == cell[w].state = "active" /\ cell[w].prog = p /\ Near(w)

Recorded ==
    \A w \in Writers, p \in Programs :
        <>[](Runs(p) /\ conn[w]) => <>[]Follows(w, p)

=============================================================================
