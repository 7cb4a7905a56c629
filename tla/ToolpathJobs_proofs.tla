------------------------ MODULE ToolpathJobs_proofs -------------------------
(***************************************************************************)
(* Type correctness of ToolpathJobs, that points lie under the program     *)
(* they were sampled from, and that total_points is never ahead of the     *)
(* rows and behind by no more than what went wrong, for any programs,      *)
(* snapshots and events; of a single writer, that it never leaves a        *)
(* program with two open jobs, writes nothing to a complete one, and       *)
(* records a snapshot again only for what went wrong.                      *)
(***************************************************************************)
EXTENDS ToolpathJobs, TLAPS, FiniteSetTheorems

LEMMA AppendKeeps ==
    ASSUME NEW S, NEW s \in Seq(S), NEW x \in S
    PROVE  /\ Append(s, x) \in Seq(S) /\ Len(Append(s, x)) = Len(s) + 1
           /\ \A i \in 1..Len(s) : Append(s, x)[i] = s[i]
OBVIOUS

\* Fewer rows than numbers: one is free.
LEMMA RowFree ==
    ASSUME IsFiniteSet(points), points \subseteq Point
    PROVE  FreeRow \in Nat /\ \A p \in points : p.row # FreeRow
<1> DEFINE N == 0..Cardinality(points)
           Taken == {p \in points : p.row \in N}
<1>1. Cardinality(points) \in Nat
  BY FS_CardinalityType
<1>2. IsFiniteSet(Taken) /\ Cardinality(Taken) <= Cardinality(points)
  BY FS_Subset
<1>3. IsFiniteSet(N) /\ Cardinality(N) = Cardinality(points) + 1
  BY <1>1, FS_Interval
<1>4. \E n \in N : \A p \in points : p.row # n
  <2> SUFFICES ASSUME \A n \in N : \E p \in points : p.row = n PROVE FALSE
    OBVIOUS
  <2> DEFINE f == [p \in Taken |-> p.row]
  <2>1. f \in Surjection(Taken, N)
    BY DEF Surjection
  <2>2. Cardinality(N) <= Cardinality(Taken)
    BY <1>2, <2>1, FS_Surjection
  <2>3. Cardinality(Taken) \in Nat
    BY <1>2, FS_CardinalityType
  <2> QED BY <1>1, <1>2, <1>3, <2>2, <2>3
<1> QED BY <1>1, <1>4 DEF FreeRow

-----------------------------------------------------------------------------
(* Types *)

\* A statement that makes or looks for a job has a program to do it for, and points keep
\* to jobs that were made and snapshots that were stored.
Typing ==
    /\ TypeOK
    /\ IsFiniteSet(points)
    /\ \A w \in Writers : pc[w] \in {"find", "create", "complete"} => Prog(w) \in Programs
    /\ \A w \in Writers : pc[w] \in {"resume", "insert", "touch"} => cell[w].state # "idle"
    /\ \A p \in points : p.job \in 1..(nextJob - 1) /\ p.ts \in 1..Len(telemetry)

\* What a statement of w may do to the tables, answered or not.
Grows(w) ==
    /\ nextJob' \in JobId /\ nextJob' >= nextJob
    /\ DOMAIN jobs' \subseteq 1..(nextJob' - 1)
    /\ \A j \in DOMAIN jobs : j \in DOMAIN jobs' /\ jobs'[j] \in Job /\ jobs'[j].prog = jobs[j].prog
    /\ \A j \in DOMAIN jobs' \ DOMAIN jobs :
          pc[w] = "create" /\ j = nextJob /\ jobs'[j] \in Job /\ jobs'[j].prog = Prog(w)
    /\ points' \subseteq Point /\ IsFiniteSet(points')
    /\ \A p \in points' \ points : pc[w] = "insert" /\ p.job = cell[w].job /\ p.ts = seen[w]

LEMMA JobChanged ==
    ASSUME NEW job \in Job
    PROVE  /\ [job EXCEPT !.status = "complete", !.recent = TRUE] \in Job
           /\ [job EXCEPT !.status = "complete", !.recent = TRUE].prog = job.prog
           /\ [job EXCEPT !.recent = TRUE] \in Job
           /\ [job EXCEPT !.recent = TRUE].prog = job.prog
           /\ [job EXCEPT !.recent = TRUE, !.total = @ + 1] \in Job
           /\ [job EXCEPT !.recent = TRUE, !.total = @ + 1].prog = job.prog
<1> USE DEF Job
<1>1. [job EXCEPT !.recent = TRUE] \in Job /\ [job EXCEPT !.recent = TRUE].prog = job.prog
  OBVIOUS
<1>2. LET c == [job EXCEPT !.status = "complete", !.recent = TRUE]
      IN  c \in Job /\ c.prog = job.prog
  OBVIOUS
<1>3. LET c == [job EXCEPT !.recent = TRUE, !.total = @ + 1]
      IN  c \in Job /\ c.prog = job.prog
  <2>1. ASSUME NEW n \in Nat
        PROVE  LET c == [job EXCEPT !.recent = TRUE, !.total = n]
               IN  c \in Job /\ c.prog = job.prog
    OBVIOUS
  <2>2. job.total + 1 \in Nat
    OBVIOUS
  <2> QED BY <2>1, <2>2
<1> QED BY <1>1, <1>2, <1>3

LEMMA UpdateGrows ==
    ASSUME Typing, NEW w \in Writers, NEW j, NEW job, Update(j, job),
           j \in DOMAIN jobs => job \in Job /\ job.prog = jobs[j].prog
    PROVE  Grows(w)
BY DEF Update, Typing, TypeOK, Grows, JobId

LEMMA RowsGrow ==
    ASSUME Typing, NEW w \in Writers, Executes(w) \/ UNCHANGED dbVars
    PROVE  Grows(w)
<1>1. CASE UNCHANGED dbVars
  BY <1>1 DEF dbVars, Typing, TypeOK, Grows, JobId
<1>2. CASE pc[w] = "create" /\ RowCreated(w)
  <2>1. Prog(w) \in Programs
    BY <1>2 DEF Typing
  <2>2. [prog |-> Prog(w), status |-> "active", recent |-> TRUE, total |-> 0] \in Job
    BY <2>1 DEF Job
  <2> QED BY <1>2, <2>2 DEF RowCreated, Typing, TypeOK, Grows, JobId
<1>3. CASE RowCompleted(w) \/ RowResumed(w) \/ RowTouched(w)
  <2> DEFINE j == cell[w].job
  <2>1. j \in DOMAIN jobs => jobs[j] \in Job
    BY DEF Typing, TypeOK
  <2> QED BY <1>3, <2>1, JobChanged, UpdateGrows DEF RowCompleted, RowResumed, RowTouched
<1>4. CASE pc[w] = "insert" /\ RowInserted(w)
  <2> DEFINE new == [row |-> FreeRow, job |-> cell[w].job, ts |-> seen[w]]
  <2>1. FreeRow \in Nat
    BY RowFree DEF Typing, TypeOK
  <2>2. cell[w].job \in JobId
    BY <1>4 DEF Typing, TypeOK, JobId
  <2>3. new \in Point
    BY <2>1, <2>2 DEF Point, Typing, TypeOK
  <2>4. points' = points \cup {new} /\ UNCHANGED <<jobs, nextJob>>
    BY <1>4 DEF RowInserted
  <2>5. IsFiniteSet(points')
    BY <2>4, FS_AddElement DEF Typing
  <2>6. \A p \in points' \ points : p.job = cell[w].job /\ p.ts = seen[w]
    BY <2>4
  <2> HIDE DEF new
  <2> QED BY <1>4, <2>3, <2>4, <2>5, <2>6 DEF Typing, TypeOK, Grows, JobId
<1> QED BY <1>1, <1>2, <1>3, <1>4 DEF Executes

\* What the end of a tick leaves in memory.
Ended(w, c) ==
    /\ cell' = [cell EXCEPT ![w] = c] /\ c \in Cell
    /\ pc' = [pc EXCEPT ![w] = "tick"] /\ seen' = [seen EXCEPT ![w] = 0]

\* A cell that pauses, goes on or has recorded a point keeps its job and its program.
LEMMA CellKept ==
    ASSUME NEW c \in Cell, NEW d,
           \/ d = [c EXCEPT !.state = "paused"]
           \/ d = [c EXCEPT !.state = "active", !.session = FALSE]
           \/ \E x \in Int : d = [c EXCEPT !.last = x, !.session = TRUE]
    PROVE  d \in Cell /\ d.job = c.job /\ d.prog = c.prog
<1>1. CASE d = [c EXCEPT !.state = "paused"]
  BY <1>1 DEF Cell
<1>2. CASE d = [c EXCEPT !.state = "active", !.session = FALSE]
  BY <1>2 DEF Cell
<1>3. CASE \E x \in Int : d = [c EXCEPT !.last = x, !.session = TRUE]
  BY <1>3 DEF Cell
<1> QED BY <1>1, <1>2, <1>3

\* The snapshot a tick is about is one that was stored.
LEMMA SeenTyped ==
    ASSUME Typing, NEW w \in Writers, pc[w] # "tick"
    PROVE  telemetry[seen[w]].pos \in Int
<1>1. seen[w] \in 1..Len(telemetry) /\ telemetry \in Seq(Snapshots)
  BY DEF Typing, TypeOK
<1>2. telemetry[seen[w]] \in Snapshots
  BY <1>1
<1> QED BY <1>2, ToolpathAssumption DEF Snapshot

LEMMA EntersEnds ==
    ASSUME Typing, NEW w \in Writers, NEW j \in JobId, Prog(w) \in Programs, Enters(w, j)
    PROVE  \E c \in Cell : /\ Ended(w, c)
                           /\ c.state = "active" /\ c.job = j /\ c.prog = Prog(w)
<1>1. PICK r \in Cell, p \in Programs, n \in Nat : r = cell[w] /\ p = Prog(w) /\ n = j
  BY DEF Typing, TypeOK, JobId
<1> DEFINE c == [r EXCEPT !.state = "active", !.session = FALSE, !.prog = p, !.job = n]
<1>2. c \in Cell /\ c.state = "active" /\ c.job = n /\ c.prog = p
  BY DEF Cell
<1>3. cell' = [cell EXCEPT ![w] = c]
  BY <1>1 DEF Enters
<1> HIDE DEF c
<1>4. Ended(w, c)
  BY <1>2, <1>3 DEF Ended, Enters, TickEnds
<1> QED BY <1>1, <1>2, <1>4

\* The tables grew by a statement of w, and w's tick has ended or goes on.
LEMMA StatementTyped ==
    ASSUME Typing, NEW w \in Writers, Grows(w), UNCHANGED <<envVars, delVars>>,
           conn' \in [Writers -> BOOLEAN], faults' \in Nat, stops' \in Nat,
           NEW c \in Cell, Ended(w, c),
           c.state # "idle" => c.job \in 1..(nextJob' - 1) /\ c.prog \in Programs
    PROVE  Typing'
<1>1. cell' \in [Writers -> Cell] /\ pc' \in [Writers -> Pc] /\ seen' \in [Writers -> Nat]
  BY DEF Ended, Typing, TypeOK, Pc
<1>2. /\ cell'[w] = c /\ pc'[w] = "tick" /\ seen'[w] = 0
      /\ \A v \in Writers \ {w} : cell'[v] = cell[v] /\ pc'[v] = pc[v] /\ seen'[v] = seen[v]
  BY DEF Ended, Typing, TypeOK
<1>3. \A v \in Writers : cell'[v].state # "idle" =>
         cell'[v].job \in 1..(nextJob' - 1) /\ cell'[v].prog \in Programs
  BY <1>2 DEF Typing, TypeOK, Grows, JobId
<1>4. ASSUME NEW v \in Writers
      PROVE  /\ seen'[v] \in IF pc'[v] = "tick" THEN {0} ELSE 1..Len(telemetry)
             /\ pc'[v] \in {"find", "create", "complete"} => Prog(v)' \in Programs
             /\ pc'[v] \in {"resume", "insert", "touch"} => cell'[v].state # "idle"
  <2>1. telemetry' = telemetry
    BY DEF envVars
  <2>2. CASE v = w
    BY <1>2, <2>2
  <2>3. CASE v # w
    BY <1>2, <2>1, <2>3 DEF Typing, TypeOK, Prog
  <2> QED BY <2>2, <2>3
<1>5. \A p \in points' : p.job \in 1..(nextJob' - 1) /\ p.ts \in 1..Len(telemetry)
  <2>1. \A p \in points : p.job \in 1..(nextJob' - 1) /\ p.ts \in 1..Len(telemetry)
    BY DEF Typing, TypeOK, Grows, JobId
  <2>2. pc[w] = "insert" => cell[w].job \in 1..(nextJob - 1) /\ seen[w] \in 1..Len(telemetry)
    BY DEF Typing, TypeOK
  <2>3. cell[w].job \in 1..(nextJob - 1) => cell[w].job \in 1..(nextJob' - 1)
    BY DEF Typing, TypeOK, Grows, JobId
  <2>4. \A p \in points' \ points : p.job \in 1..(nextJob' - 1) /\ p.ts \in 1..Len(telemetry)
    BY <2>2, <2>3 DEF Grows
  <2> QED BY <2>1, <2>4
<1>6. \A j \in DOMAIN jobs' : jobs'[j] \in Job
  BY DEF Grows
<1> QED BY <1>1, <1>3, <1>4, <1>5, <1>6 DEF Typing, TypeOK, Grows, envVars, delVars, JobId

LEMMA TypeStep == Typing /\ [Next]_vars => Typing'
<1> SUFFICES ASSUME Typing, [Next]_vars PROVE Typing'
  OBVIOUS
<1>1. ASSUME NEW w \in Writers, TickPause(w) PROVE Typing'
  <2> DEFINE d == [cell[w] EXCEPT !.state = "paused"]
  <2>1. d \in Cell /\ d.job = cell[w].job /\ d.prog = cell[w].prog
    <3>1. cell[w] \in Cell
      BY DEF Typing, TypeOK
    <3> QED BY <3>1, CellKept
  <2>5. cell' = [cell EXCEPT ![w] = d]
    BY <1>1 DEF TickPause
  <2> HIDE DEF d
  <2>2. cell[w].state = "active" /\ pc[w] = "tick"
    BY <1>1 DEF TickPause, Reads
  <2>3. \A v \in Writers : /\ cell'[v] \in Cell
                           /\ cell'[v].job = cell[v].job /\ cell'[v].prog = cell[v].prog
                           /\ cell'[v].state # "idle" => cell[v].state # "idle"
                           /\ v # w => cell'[v] = cell[v]
    BY <2>1, <2>2, <2>5 DEF Typing, TypeOK
  <2>4. cell' \in [Writers -> Cell]
    BY <2>1, <2>5 DEF Typing, TypeOK
  <2> QED BY <1>1, <2>2, <2>3, <2>4
          DEF TickPause, envVars, dbVars, delVars, Typing, TypeOK, Prog
<1>2. ASSUME NEW w \in Writers, TickStart(w) \/ TickSwitch(w) \/ TickResume(w) \/ TickWrite(w)
      PROVE  Typing'
  <2>1. PICK s \in {"find", "complete", "resume", "insert"} :
           /\ Awaits(w, s) /\ telemetry # <<>>
           /\ s \in {"find", "complete"} => Latest.prog # NoProgram
           /\ s \in {"resume", "insert"} => cell[w].state # "idle"
    BY <1>2 DEF TickStart, TickSwitch, TickResume, TickWrite, IsActive, Recent, Changed, Reads
  <2>2. Len(telemetry) \in 1..Len(telemetry) /\ Latest \in Snapshots
    BY <2>1 DEF Typing, TypeOK, Latest
  <2>3. s \in {"find", "complete"} => Latest.prog \in Programs
    BY <2>1, <2>2, ToolpathAssumption DEF Snapshot
  <2>4. /\ pc' \in [Writers -> Pc] /\ seen' \in [Writers -> Nat]
        /\ pc'[w] = s /\ seen'[w] = Len(telemetry)
        /\ \A v \in Writers \ {w} : pc'[v] = pc[v] /\ seen'[v] = seen[v]
    BY <2>1, <2>2 DEF Awaits, Typing, TypeOK, Pc
  <2>5. ASSUME NEW v \in Writers
        PROVE  /\ seen'[v] \in IF pc'[v] = "tick" THEN {0} ELSE 1..Len(telemetry)
               /\ pc'[v] \in {"find", "create", "complete"} =>
                     telemetry[seen'[v]].prog \in Programs
               /\ pc'[v] \in {"resume", "insert", "touch"} => cell[v].state # "idle"
    <3>1. CASE v = w
      BY <2>1, <2>2, <2>3, <2>4, <3>1 DEF Latest
    <3>2. CASE v # w
      BY <2>4, <3>2 DEF Typing, TypeOK, Prog
    <3> QED BY <3>1, <3>2
  <2>6. UNCHANGED <<envVars, dbVars, cell, conn, delVars, faults, stops>>
    BY <2>1 DEF Awaits
  <2> QED BY <2>4, <2>5, <2>6 DEF envVars, dbVars, delVars, Typing, TypeOK, Prog
<1>3. ASSUME NEW w \in Writers, NEW j \in 1..(nextJob' - 1), Enters(w, j), Grows(w),
             pc[w] \in {"find", "create"}, UNCHANGED Surroundings
      PROVE  Typing'
  <2>1. Prog(w) \in Programs /\ j \in JobId
    BY <1>3 DEF Typing, Grows, JobId
  <2>2. PICK c \in Cell : Ended(w, c) /\ c.state = "active" /\ c.job = j /\ c.prog = Prog(w)
    BY <1>3, <2>1, EntersEnds
  <2> QED BY <1>3, <2>1, <2>2, StatementTyped
          DEF Surroundings, envVars, delVars, Typing, TypeOK
<1>4. ASSUME NEW w \in Writers, FindsJob(w) PROVE Typing'
  <2>1. PICK j \in OpenJobs(Prog(w)) : Enters(w, j)
    BY <1>4 DEF FindsJob
  <2>2. Grows(w) /\ pc[w] = "find" /\ UNCHANGED <<dbVars, Surroundings>>
    BY <1>4, RowsGrow DEF FindsJob
  <2>3. j \in 1..(nextJob' - 1)
    BY <2>2 DEF OpenJobs, dbVars, Typing, TypeOK
  <2> QED BY <1>3, <2>1, <2>2, <2>3
<1>5. ASSUME NEW w \in Writers, Create(w) PROVE Typing'
  <2>1. /\ Grows(w) /\ pc[w] = "create" /\ UNCHANGED Surroundings
        /\ Enters(w, nextJob) /\ nextJob' = nextJob + 1
    BY <1>5, RowsGrow DEF Create, Executes, RowCreated
  <2>2. nextJob \in 1..(nextJob' - 1)
    BY <2>1 DEF Typing, TypeOK, JobId
  <2> QED BY <1>3, <2>1, <2>2
<1>6. ASSUME NEW w \in Writers, FindsNone(w) \/ Complete(w) \/ Insert(w) PROVE Typing'
  <2>1. Grows(w) /\ UNCHANGED <<cell, seen, Surroundings>>
    BY <1>6, RowsGrow DEF FindsNone, Complete, Insert, Executes
  <2>2. PICK s \in {"create", "find", "touch"} :
           /\ pc' = [pc EXCEPT ![w] = s] /\ pc[w] # "tick"
           /\ s \in {"create", "find"} => pc[w] \in {"find", "complete"}
           /\ s = "touch" => pc[w] = "insert"
    BY <1>6 DEF FindsNone, Complete, Insert
  <2>3. pc' \in [Writers -> Pc] /\ pc'[w] = s /\ \A v \in Writers \ {w} : pc'[v] = pc[v]
    BY <2>2 DEF Typing, TypeOK, Pc
  <2>4. ASSUME NEW v \in Writers
        PROVE  /\ cell[v].state # "idle" =>
                     cell[v].job \in 1..(nextJob' - 1) /\ cell[v].prog \in Programs
               /\ seen[v] \in IF pc'[v] = "tick" THEN {0} ELSE 1..Len(telemetry)
               /\ pc'[v] \in {"find", "create", "complete"} => Prog(v) \in Programs
               /\ pc'[v] \in {"resume", "insert", "touch"} => cell[v].state # "idle"
    <3>1. cell[v].state # "idle" => cell[v].job \in 1..(nextJob' - 1) /\ cell[v].prog \in Programs
      BY <2>1 DEF Typing, TypeOK, Grows, JobId
    <3>2. CASE v = w
      BY <2>2, <2>3, <3>1, <3>2 DEF Typing, TypeOK
    <3>3. CASE v # w
      BY <2>3, <3>1, <3>3 DEF Typing, TypeOK
    <3> QED BY <3>2, <3>3
  <2>5. \A p \in points' : p.job \in 1..(nextJob' - 1) /\ p.ts \in 1..Len(telemetry)
    <3>1. \A p \in points : p.job \in 1..(nextJob' - 1) /\ p.ts \in 1..Len(telemetry)
      BY <2>1 DEF Typing, TypeOK, Grows, JobId
    <3>2. pc[w] = "insert" => cell[w].job \in 1..(nextJob' - 1) /\ seen[w] \in 1..Len(telemetry)
      BY <2>4 DEF Typing, TypeOK
    <3> QED BY <2>1, <3>1, <3>2 DEF Grows
  <2>6. UNCHANGED <<envVars, delVars>> /\ conn' = conn /\ faults' = faults /\ stops' = stops
    BY <2>1 DEF Surroundings
  <2>7. \A j \in DOMAIN jobs' : jobs'[j] \in Job
    BY <2>1 DEF Grows
  <2> QED BY <2>1, <2>3, <2>4, <2>5, <2>6, <2>7
          DEF Typing, TypeOK, Grows, envVars, delVars, JobId, Prog
<1>7. ASSUME NEW w \in Writers, Resume(w) \/ Touch(w) PROVE Typing'
  <2>1. /\ Grows(w) /\ UNCHANGED Surroundings /\ pc[w] \in {"resume", "touch"}
        /\ TickEnds(w)
    BY <1>7, RowsGrow DEF Resume, Touch, Executes
  <2>2. PICK c \in Cell : c = cell[w]
    BY DEF Typing, TypeOK
  <2>3. PICK d : /\ cell' = [cell EXCEPT ![w] = d]
                 /\ \/ d = [c EXCEPT !.state = "active", !.session = FALSE]
                    \/ d = [c EXCEPT !.last = telemetry[seen[w]].pos, !.session = TRUE]
    BY <1>7, <2>2 DEF Resume, Touch
  <2>4. telemetry[seen[w]].pos \in Int
    BY <2>1, SeenTyped
  <2>5. d \in Cell /\ d.job = c.job /\ d.prog = c.prog
    BY <2>3, <2>4, CellKept
  <2>6. Ended(w, d)
    BY <2>1, <2>3, <2>5 DEF Ended, TickEnds
  <2>7. c.job \in 1..(nextJob' - 1) /\ c.prog \in Programs
    <3>1. cell[w].state # "idle"
      BY <2>1 DEF Typing
    <3> QED BY <2>1, <2>2, <3>1 DEF Typing, TypeOK, Grows, JobId
  <2> QED BY <2>1, <2>5, <2>6, <2>7, StatementTyped
          DEF Surroundings, envVars, delVars, Typing, TypeOK
<1>8. ASSUME NEW w \in Writers, StatementRaises(w) PROVE Typing'
  <2>1. /\ Grows(w) /\ UNCHANGED <<envVars, cell, delVars, stops>> /\ TickEnds(w)
        /\ faults' = faults + 1 /\ conn' \in [Writers -> BOOLEAN]
    <3>1. conn \in [Writers -> BOOLEAN] /\ conn' \in {conn, [conn EXCEPT ![w] = FALSE]}
      BY <1>8 DEF StatementRaises, Typing, TypeOK
    <3> QED BY <1>8, <3>1, RowsGrow DEF StatementRaises
  <2>2. cell[w] \in Cell /\ cell = [cell EXCEPT ![w] = cell[w]]
    BY DEF Typing, TypeOK
  <2>3. Ended(w, cell[w])
    BY <2>1, <2>2 DEF Ended, TickEnds
  <2>4. cell[w].state # "idle" => cell[w].job \in 1..(nextJob' - 1) /\ cell[w].prog \in Programs
    BY <2>1 DEF Typing, TypeOK, Grows, JobId
  <2>5. faults' \in Nat /\ stops' \in Nat
    BY <2>1 DEF Typing, TypeOK
  <2> QED BY <2>1, <2>2, <2>3, <2>4, <2>5, StatementTyped
<1>9. ASSUME NEW w \in Writers, Restart(w) PROVE Typing'
  <2>1. /\ Grows(w) /\ UNCHANGED <<envVars, delVars, faults>> /\ TickEnds(w)
        /\ stops' = stops + 1 /\ cell' = [cell EXCEPT ![w] = NewCell]
        /\ conn' = [conn EXCEPT ![w] = TRUE]
    BY <1>9, RowsGrow DEF Restart
  <2>2. NewCell \in Cell /\ NewCell.state = "idle"
    BY DEF NewCell, Cell
  <2>3. Ended(w, NewCell)
    BY <2>1, <2>2 DEF Ended, TickEnds
  <2>4. faults' \in Nat /\ stops' \in Nat /\ conn' \in [Writers -> BOOLEAN]
    BY <2>1 DEF Typing, TypeOK
  <2> QED BY <2>1, <2>2, <2>3, <2>4, StatementTyped
<1>10. ASSUME NEW w \in Writers, ConnectionLost(w) PROVE Typing'
  <2>1. /\ UNCHANGED <<envVars, dbVars, cell, pc, seen, delVars, stops>>
        /\ faults' \in Nat /\ conn' \in [Writers -> BOOLEAN]
    BY <1>10 DEF ConnectionLost, Typing, TypeOK
  <2> QED BY <2>1 DEF envVars, dbVars, delVars, Typing, TypeOK, Prog
<1>11. ASSUME NEW j \in DOMAIN jobs, DeleteRequest(j) PROVE Typing'
  <2>1. del' \in [job: Nat, step: {"none", "points", "job"}] /\ deletes' \in Nat
    BY <1>11 DEF DeleteRequest, Typing, TypeOK, JobId
  <2> QED BY <1>11, <2>1 DEF DeleteRequest, envVars, dbVars, memVars, Typing, TypeOK, Prog
<1>12. CASE DeletePoints
  <2>1. del' \in [job: Nat, step: {"none", "points", "job"}]
    BY <1>12 DEF DeletePoints, Typing, TypeOK
  <2>2. points' \subseteq points /\ IsFiniteSet(points')
    BY <1>12, FS_Subset DEF DeletePoints, Typing
  <2> QED BY <1>12, <2>1, <2>2 DEF DeletePoints, envVars, memVars, Typing, TypeOK, Prog
<1>13. CASE DeleteJob
  <2>1. del' \in [job: Nat, step: {"none", "points", "job"}]
    BY <1>13 DEF DeleteJob, NoRequest
  <2>2. DOMAIN jobs' \subseteq DOMAIN jobs /\ \A k \in DOMAIN jobs' : jobs'[k] = jobs[k]
    BY <1>13 DEF DeleteJob
  <2>3. UNCHANGED <<envVars, nextJob, points, memVars, deletes, faults, stops>>
    BY <1>13 DEF DeleteJob
  <2> QED BY <2>1, <2>2, <2>3 DEF envVars, memVars, Typing, TypeOK, Prog
<1>14. CASE DeleteFails
  <2>1. del' \in [job: Nat, step: {"none", "points", "job"}] /\ faults' \in Nat
    BY <1>14 DEF DeleteFails, NoRequest, Typing, TypeOK
  <2> QED BY <1>14, <2>1 DEF DeleteFails, envVars, dbVars, memVars, Typing, TypeOK, Prog
<1>15. ASSUME NEW s \in Snapshots, NewSnapshot(s) PROVE Typing'
  <2>1. /\ telemetry' \in Seq(Snapshots) /\ Len(telemetry') = Len(telemetry) + 1
        /\ \A i \in 1..Len(telemetry) : telemetry'[i] = telemetry[i]
    BY <1>15, AppendKeeps DEF NewSnapshot, Typing, TypeOK
  <2>2. ASSUME NEW w \in Writers
        PROVE  /\ seen[w] \in IF pc[w] = "tick" THEN {0} ELSE 1..Len(telemetry')
               /\ pc[w] # "tick" => telemetry'[seen[w]] = telemetry[seen[w]]
    BY <2>1 DEF Typing, TypeOK
  <2>3. UNCHANGED <<dbVars, memVars, delVars, expiries, faults, stops>> /\ fresh' \in BOOLEAN
    BY <1>15 DEF NewSnapshot
  <2>4. \A p \in points : p.ts \in 1..Len(telemetry')
    BY <2>1 DEF Typing, TypeOK
  <2>5. \A w \in Writers : pc[w] \in {"find", "create", "complete"} => Prog(w)' \in Programs
    BY <2>2, <2>3 DEF memVars, Typing, Prog
  <2> QED BY <2>1, <2>2, <2>3, <2>4, <2>5 DEF dbVars, memVars, delVars, Typing, TypeOK
<1>16. CASE GoesStale
  BY <1>16 DEF GoesStale, dbVars, memVars, delVars, Typing, TypeOK, Prog
<1>17. ASSUME NEW j \in DOMAIN jobs, Expires(j) PROVE Typing'
  <2>1. jobs[j] \in Job /\ jobs' = [jobs EXCEPT ![j] = [jobs[j] EXCEPT !.recent = FALSE]]
    BY <1>17 DEF Expires, Typing, TypeOK
  <2>2. [jobs[j] EXCEPT !.recent = FALSE] \in Job
    BY <2>1 DEF Job
  <2>3. DOMAIN jobs' = DOMAIN jobs /\ \A k \in DOMAIN jobs : jobs'[k] \in Job
    BY <2>1, <2>2 DEF Typing, TypeOK
  <2>4. UNCHANGED <<telemetry, fresh, nextJob, points, memVars, delVars, faults, stops>>
        /\ expiries' \in Nat
    BY <1>17 DEF Expires, Typing, TypeOK
  <2> QED BY <2>3, <2>4 DEF memVars, delVars, Typing, TypeOK, Prog
<1>18. CASE UNCHANGED vars
  BY <1>18 DEF vars, envVars, dbVars, memVars, delVars, Typing, TypeOK, Prog
<1> QED BY <1>1, <1>2, <1>4, <1>5, <1>6, <1>7, <1>8, <1>9, <1>10, <1>11, <1>12, <1>13, <1>14,
           <1>15, <1>16, <1>17, <1>18
        DEF Next, Tick, Statement, EnsureJob, Trouble, Deletion, Robot

LEMMA TypingAlways == Spec => []Typing
<1>1. Init => Typing
  <2> SUFFICES ASSUME Init PROVE Typing
    OBVIOUS
  <2>1. NewCell \in Cell /\ NewCell.state = "idle"
    BY DEF NewCell, Cell
  <2>2. IsFiniteSet(points)
    BY FS_EmptySet DEF Init
  <2>3. jobs = <<>> /\ DOMAIN jobs = {}
    BY DEF Init
  <2>4. telemetry \in Seq(Snapshots)
    BY DEF Init
  <2>5. del \in [job: Nat, step: {"none", "points", "job"}]
    BY DEF Init, NoRequest
  <2>6. fresh \in BOOLEAN /\ seen \in [Writers -> Nat] /\ conn \in [Writers -> BOOLEAN]
    BY Zenon DEF Init
  <2>7. cell \in [Writers -> Cell] /\ pc \in [Writers -> Pc]
    BY <2>1 DEF Init, Pc
  <2>8. nextJob = 1 /\ points = {} /\ \A w \in Writers : pc[w] = "tick" /\ seen[w] = 0
    BY DEF Init
  <2>9. cell = [w \in Writers |-> NewCell]
        /\ expiries = 0 /\ faults = 0 /\ stops = 0 /\ deletes = 0
    BY DEF Init
  <2> QED BY <2>1, <2>2, <2>3, <2>4, <2>5, <2>6, <2>7, <2>8, <2>9 DEF Typing, TypeOK, JobId
<1> QED BY <1>1, TypeStep, PTL DEF Spec

\* A cell that has left idle follows a job that was created and a program that has a
\* name, jobs and points are well-formed, and a tick in progress has a snapshot.
THEOREM JobTypes == Spec => []TypeOK
<1>1. Typing => TypeOK
  BY DEF Typing
<1> QED BY <1>1, TypingAlways, PTL

-----------------------------------------------------------------------------
(* Points and programs *)

\* The job of a cell is a job of its program, unless it is deleted, and a point under way
\* was sampled from that program.
CellInv ==
    \A w \in Writers :
        /\ cell[w].state # "idle" /\ cell[w].job \in DOMAIN jobs =>
              jobs[cell[w].job].prog = cell[w].prog
        /\ pc[w] \in {"insert", "touch"} => Prog(w) \in {cell[w].prog, NoProgram}

ProgramInv == CellInv /\ PointsUnderTheirProgram

\* No job takes the number of one that a cell or a point already refers to, so what the
\* tables gain changes the program of neither.
LEMMA GrowsKeeps ==
    ASSUME Typing, ProgramInv, NEW w \in Writers, Grows(w), telemetry' = telemetry
    PROVE  /\ PointsUnderTheirProgram'
           /\ \A v \in Writers : cell[v].state # "idle" /\ cell[v].job \in DOMAIN jobs' =>
                 jobs'[cell[v].job].prog = cell[v].prog
<1>1. \A j \in 1..(nextJob - 1) :
         j \in DOMAIN jobs' => j \in DOMAIN jobs /\ jobs'[j].prog = jobs[j].prog
  BY DEF Grows, Typing, TypeOK, JobId
<1>2. \A v \in Writers : cell[v].state # "idle" => cell[v].job \in 1..(nextJob - 1)
  BY DEF Typing, TypeOK
<1>3. \A v \in Writers : cell[v].state # "idle" /\ cell[v].job \in DOMAIN jobs' =>
         jobs'[cell[v].job].prog = cell[v].prog
  BY <1>1, <1>2 DEF ProgramInv, CellInv
<1>4. ASSUME NEW p \in points', p.job \in DOMAIN jobs'
      PROVE  telemetry[p.ts].prog \in {jobs'[p.job].prog, NoProgram}
  <2>1. CASE p \in points
    BY <1>1, <1>4, <2>1 DEF ProgramInv, PointsUnderTheirProgram, Typing
  <2>2. CASE p \notin points
    <3>1. pc[w] = "insert" /\ p.job = cell[w].job /\ p.ts = seen[w] /\ cell[w].state # "idle"
      BY <2>2 DEF Grows, Typing
    <3>2. Prog(w) \in {cell[w].prog, NoProgram}
      BY <3>1 DEF ProgramInv, CellInv
    <3> QED BY <1>3, <1>4, <3>1, <3>2 DEF Prog
  <2> QED BY <2>1, <2>2
<1> QED BY <1>3, <1>4 DEF PointsUnderTheirProgram

\* A cell that goes on as it was, or starts anew, or enters a job of its program.
LEMMA CellInvKept ==
    ASSUME Typing, ProgramInv, NEW w \in Writers, Grows(w), telemetry' = telemetry,
           NEW c \in Cell, Ended(w, c),
           c.state # "idle" /\ c.job \in DOMAIN jobs' => jobs'[c.job].prog = c.prog
    PROVE  ProgramInv'
<1>1. PointsUnderTheirProgram'
  BY GrowsKeeps
<1>2. ASSUME NEW v \in Writers
      PROVE  /\ cell'[v].state # "idle" /\ cell'[v].job \in DOMAIN jobs' =>
                   jobs'[cell'[v].job].prog = cell'[v].prog
             /\ pc'[v] \in {"insert", "touch"} => Prog(v)' \in {cell'[v].prog, NoProgram}
  <2>1. CASE v = w
    BY <2>1 DEF Ended, Typing, TypeOK
  <2>2. CASE v # w
    <3>1. cell'[v] = cell[v] /\ pc'[v] = pc[v] /\ seen'[v] = seen[v]
      BY <2>2 DEF Ended, Typing, TypeOK
    <3> QED BY <3>1, GrowsKeeps DEF ProgramInv, CellInv, Prog
  <2> QED BY <2>1, <2>2
<1> QED BY <1>1, <1>2 DEF ProgramInv, CellInv

LEMMA ProgramStep == Typing /\ ProgramInv /\ [Next]_vars => ProgramInv'
<1> SUFFICES ASSUME Typing, ProgramInv, [Next]_vars PROVE ProgramInv'
  OBVIOUS
<1>1. ASSUME NEW w \in Writers, TickPause(w) PROVE ProgramInv'
  <2>1. PICK c \in Cell : c = cell[w]
    BY DEF Typing, TypeOK
  <2>2. PICK d : cell' = [cell EXCEPT ![w] = d] /\ d = [c EXCEPT !.state = "paused"]
    BY <1>1, <2>1 DEF TickPause
  <2>3. d.job = c.job /\ d.prog = c.prog
    BY <2>2, CellKept
  <2>4. /\ cell[w].state = "active" /\ UNCHANGED <<telemetry, jobs, points, pc, seen>>
    BY <1>1 DEF TickPause, Reads, envVars, dbVars
  <2>5. \A v \in Writers : /\ cell'[v].job = cell[v].job /\ cell'[v].prog = cell[v].prog
                           /\ cell'[v].state # "idle" => cell[v].state # "idle"
    BY <2>1, <2>2, <2>3, <2>4 DEF Typing, TypeOK
  <2>7. CellInv'
    <3>1. ASSUME NEW v \in Writers
          PROVE  /\ cell'[v].state # "idle" /\ cell'[v].job \in DOMAIN jobs' =>
                       jobs'[cell'[v].job].prog = cell'[v].prog
                 /\ pc'[v] \in {"insert", "touch"} => Prog(v)' \in {cell'[v].prog, NoProgram}
      <4>1. cell'[v].job = cell[v].job /\ cell'[v].prog = cell[v].prog
            /\ (cell'[v].state # "idle" => cell[v].state # "idle")
        BY <2>5
      <4>2. jobs' = jobs /\ pc' = pc /\ Prog(v)' = Prog(v)
        BY <2>4 DEF Prog
      <4> QED BY <4>1, <4>2 DEF ProgramInv, CellInv
    <3> QED BY <3>1 DEF CellInv
  <2>8. PointsUnderTheirProgram'
    BY <2>4 DEF ProgramInv, PointsUnderTheirProgram
  <2> QED BY <2>7, <2>8 DEF ProgramInv
<1>2. ASSUME NEW w \in Writers, TickStart(w) \/ TickSwitch(w) \/ TickResume(w) \/ TickWrite(w)
      PROVE  ProgramInv'
  <2>1. PICK s \in {"find", "complete", "resume", "insert"} :
           /\ Awaits(w, s)
           /\ s = "insert" => Latest.prog \in {cell[w].prog, NoProgram}
    BY <1>2 DEF TickStart, TickSwitch, TickResume, TickWrite, Changed
  <2>2. /\ UNCHANGED <<telemetry, jobs, points, cell>>
        /\ pc'[w] = s /\ seen'[w] = Len(telemetry)
        /\ \A v \in Writers \ {w} : pc'[v] = pc[v] /\ seen'[v] = seen[v]
    BY <2>1 DEF Awaits, envVars, dbVars, Typing, TypeOK
  <2>3. \A v \in Writers :
           pc'[v] \in {"insert", "touch"} => telemetry[seen'[v]].prog \in {cell[v].prog, NoProgram}
    BY <2>1, <2>2 DEF Latest, ProgramInv, CellInv, Prog
  <2> QED BY <2>2, <2>3 DEF ProgramInv, CellInv, PointsUnderTheirProgram, Prog
<1>3. ASSUME NEW w \in Writers, NEW j \in JobId, Enters(w, j), Grows(w), UNCHANGED Surroundings,
             pc[w] \in {"find", "create"}, j \in DOMAIN jobs' => jobs'[j].prog = Prog(w)
      PROVE  ProgramInv'
  <2>1. PICK c \in Cell : Ended(w, c) /\ c.job = j /\ c.prog = Prog(w)
    BY <1>3, EntersEnds DEF Typing
  <2> QED BY <1>3, <2>1, CellInvKept DEF Surroundings, envVars
<1>4. ASSUME NEW w \in Writers, FindsJob(w) PROVE ProgramInv'
  <2>1. PICK j \in OpenJobs(Prog(w)) : Enters(w, j)
    BY <1>4 DEF FindsJob
  <2>2. Grows(w) /\ pc[w] = "find" /\ UNCHANGED <<dbVars, Surroundings>>
    BY <1>4, RowsGrow DEF FindsJob
  <2>3. j \in JobId /\ jobs'[j].prog = Prog(w)
    BY <2>2 DEF OpenJobs, dbVars, Typing, TypeOK, JobId
  <2> QED BY <1>3, <2>1, <2>2, <2>3
<1>5. ASSUME NEW w \in Writers, Create(w) PROVE ProgramInv'
  <2>1. /\ Grows(w) /\ pc[w] = "create" /\ UNCHANGED Surroundings
        /\ Enters(w, nextJob)
    BY <1>5, RowsGrow DEF Create, Executes
  <2>2. nextJob \in JobId /\ nextJob \notin DOMAIN jobs
    BY DEF Typing, TypeOK, JobId
  <2>3. nextJob \in DOMAIN jobs' => jobs'[nextJob].prog = Prog(w)
    BY <2>1, <2>2 DEF Grows
  <2> QED BY <1>3, <2>1, <2>2, <2>3
<1>6. ASSUME NEW w \in Writers, FindsNone(w) \/ Complete(w) \/ Insert(w) PROVE ProgramInv'
  <2>1. Grows(w) /\ UNCHANGED <<telemetry, cell, seen>>
    BY <1>6, RowsGrow DEF FindsNone, Complete, Insert, Executes, Surroundings, envVars
  <2>2. \A v \in Writers : pc'[v] \in {"insert", "touch"} => pc[v] \in {"insert", "touch"}
    BY <1>6 DEF FindsNone, Complete, Insert, Typing, TypeOK
  <2> QED BY <2>1, <2>2, GrowsKeeps DEF ProgramInv, CellInv, Prog
<1>7. ASSUME NEW w \in Writers, Resume(w) \/ Touch(w) PROVE ProgramInv'
  <2>1. /\ Grows(w) /\ UNCHANGED telemetry /\ pc[w] \in {"resume", "touch"} /\ TickEnds(w)
    BY <1>7, RowsGrow DEF Resume, Touch, Executes, Surroundings, envVars
  <2>2. PICK c \in Cell : c = cell[w]
    BY DEF Typing, TypeOK
  <2>3. PICK d : /\ cell' = [cell EXCEPT ![w] = d]
                 /\ \/ d = [c EXCEPT !.state = "active", !.session = FALSE]
                    \/ d = [c EXCEPT !.last = telemetry[seen[w]].pos, !.session = TRUE]
    BY <1>7, <2>2 DEF Resume, Touch
  <2>4. telemetry[seen[w]].pos \in Int
    BY <2>1, SeenTyped
  <2>5. d \in Cell /\ d.job = c.job /\ d.prog = c.prog
    BY <2>3, <2>4, CellKept
  <2>6. Ended(w, d)
    BY <2>1, <2>3, <2>5 DEF Ended, TickEnds
  <2>7. d.job \in DOMAIN jobs' => jobs'[d.job].prog = d.prog
    <3>1. cell[w].state # "idle"
      BY <2>1 DEF Typing
    <3> QED BY <2>1, <2>2, <2>5, <3>1, GrowsKeeps
  <2> QED BY <2>1, <2>5, <2>6, <2>7, CellInvKept
<1>8. ASSUME NEW w \in Writers, StatementRaises(w) PROVE ProgramInv'
  <2>1. Grows(w) /\ UNCHANGED <<telemetry, cell>> /\ TickEnds(w)
    BY <1>8, RowsGrow DEF StatementRaises, envVars
  <2>2. cell[w] \in Cell /\ cell = [cell EXCEPT ![w] = cell[w]]
    BY DEF Typing, TypeOK
  <2>3. Ended(w, cell[w])
    BY <2>1, <2>2 DEF Ended, TickEnds
  <2> QED BY <2>1, <2>2, <2>3, GrowsKeeps, CellInvKept
<1>9. ASSUME NEW w \in Writers, Restart(w) PROVE ProgramInv'
  <2>1. /\ Grows(w) /\ UNCHANGED telemetry /\ TickEnds(w)
        /\ cell' = [cell EXCEPT ![w] = NewCell]
    BY <1>9, RowsGrow DEF Restart, envVars
  <2>2. NewCell \in Cell /\ NewCell.state = "idle"
    BY DEF NewCell, Cell
  <2> QED BY <2>1, <2>2, CellInvKept DEF Ended, TickEnds
<1>10. CASE \/ \E w \in Writers : ConnectionLost(w)
            \/ \E j \in DOMAIN jobs : DeleteRequest(j)
            \/ DeleteFails \/ GoesStale \/ UNCHANGED vars
  <2>1. UNCHANGED <<telemetry, jobs, points, cell, pc, seen>>
    BY <1>10 DEF ConnectionLost, DeleteRequest, DeleteFails, GoesStale, vars, envVars, dbVars,
                 memVars
  <2> QED BY <2>1 DEF ProgramInv, CellInv, PointsUnderTheirProgram, Prog
<1>11. CASE DeletePoints \/ DeleteJob \/ \E j \in DOMAIN jobs : Expires(j)
  <2>1. /\ UNCHANGED <<telemetry, cell, pc, seen>> /\ points' \subseteq points
        /\ DOMAIN jobs' \subseteq DOMAIN jobs
        /\ \A k \in DOMAIN jobs' : jobs'[k].prog = jobs[k].prog
    <3>1. CASE DeletePoints
      BY <3>1 DEF DeletePoints, envVars, memVars
    <3>2. CASE DeleteJob
      BY <3>2 DEF DeleteJob, envVars, memVars
    <3>3. ASSUME NEW j \in DOMAIN jobs, Expires(j)
          PROVE  /\ UNCHANGED <<telemetry, cell, pc, seen, points>> /\ DOMAIN jobs' = DOMAIN jobs
                 /\ \A k \in DOMAIN jobs' : jobs'[k].prog = jobs[k].prog
      <4>1. jobs[j] \in Job /\ jobs' = [jobs EXCEPT ![j] = [jobs[j] EXCEPT !.recent = FALSE]]
        BY <3>3 DEF Expires, Typing, TypeOK
      <4>2. [jobs[j] EXCEPT !.recent = FALSE].prog = jobs[j].prog
        BY <4>1 DEF Job
      <4> QED BY <3>3, <4>1, <4>2 DEF Expires, memVars
    <3> QED BY <1>11, <3>1, <3>2, <3>3
  <2> QED BY <2>1 DEF ProgramInv, CellInv, PointsUnderTheirProgram, Prog
<1>12. ASSUME NEW s \in Snapshots, NewSnapshot(s) PROVE ProgramInv'
  <2>1. \A i \in 1..Len(telemetry) : telemetry'[i] = telemetry[i]
    BY <1>12, AppendKeeps DEF NewSnapshot, Typing, TypeOK
  <2>2. UNCHANGED <<jobs, points, cell, pc, seen>>
    BY <1>12 DEF NewSnapshot, dbVars, memVars
  <2>3. \A w \in Writers : pc[w] # "tick" => Prog(w)' = Prog(w)
    BY <2>1, <2>2 DEF Typing, TypeOK, Prog
  <2>4. \A p \in points : telemetry'[p.ts].prog = telemetry[p.ts].prog
    BY <2>1 DEF Typing
  <2>5. CellInv'
    BY <2>2, <2>3 DEF ProgramInv, CellInv
  <2>6. PointsUnderTheirProgram'
    BY <2>2, <2>4 DEF ProgramInv, PointsUnderTheirProgram
  <2> QED BY <2>5, <2>6 DEF ProgramInv
<1> QED BY <1>1, <1>2, <1>4, <1>5, <1>6, <1>7, <1>8, <1>9, <1>10, <1>11, <1>12
        DEF Next, Tick, Statement, EnsureJob, Trouble, Deletion, Robot

LEMMA ProgramAlways == Spec => []ProgramInv
<1>1. Init => ProgramInv
  BY DEF Init, ProgramInv, CellInv, PointsUnderTheirProgram, NewCell
<1> QED BY <1>1, TypingAlways, ProgramStep, PTL DEF Spec

\* Whatever the writers' statements, failures, restarts and deletions make of the tables,
\* a point lies in a job of the program the robot ran when it was sampled.
THEOREM PointsFiled == Spec => []PointsUnderTheirProgram
<1>1. ProgramInv => PointsUnderTheirProgram
  BY DEF ProgramInv
<1> QED BY <1>1, ProgramAlways, PTL

-----------------------------------------------------------------------------
(* One open job *)

\* For a writer w that has the robot to itself: the open job of its cell's program is its
\* cell's job, and while it is about to create a job, its program has none open.
OneInv(w) ==
    /\ OneOpenJob
    /\ pc[w] = "create" => \A j \in DOMAIN jobs : Open(j) => jobs[j].prog # Prog(w)
    /\ cell[w].state # "idle" =>
          \A j \in DOMAIN jobs : Open(j) /\ jobs[j].prog = cell[w].prog => j = cell[w].job
    /\ cell[w].state # "idle" /\ pc[w] \in {"find", "create", "complete"} =>
          Prog(w) # cell[w].prog

\* A statement opens the job it creates, or its cell's job again.
OpenGrows(w) ==
    \A j \in DOMAIN jobs' : Open(j)' =>
        \/ Open(j) /\ jobs'[j].prog = jobs[j].prog
        \/ pc[w] \in {"resume", "touch"} /\ j = cell[w].job /\ jobs'[j].prog = cell[w].prog
        \/ pc[w] = "create" /\ j = nextJob /\ jobs'[j].prog = Prog(w)

LEMMA RowsOpen ==
    ASSUME Typing, ProgramInv, NEW w \in Writers, Executes(w) \/ UNCHANGED dbVars
    PROVE  OpenGrows(w)
<1>1. Grows(w)
  BY RowsGrow
<1>2. ASSUME NEW j \in DOMAIN jobs', Open(j)', j \notin DOMAIN jobs
      PROVE  pc[w] = "create" /\ j = nextJob /\ jobs'[j].prog = Prog(w)
  BY <1>1, <1>2 DEF Grows
<1>3. ASSUME NEW j \in DOMAIN jobs', Open(j)', j \in DOMAIN jobs, ~Open(j)
      PROVE  pc[w] \in {"resume", "touch"} /\ j = cell[w].job /\ jobs'[j].prog = cell[w].prog
  <2>1. jobs'[j] # jobs[j]
    BY <1>3 DEF Open
  <2>2. j = cell[w].job /\ pc[w] \in {"complete", "resume", "touch"}
    BY <1>3, <2>1 DEF dbVars, Executes, RowCreated, RowCompleted, RowResumed, RowTouched,
                      RowInserted, Update, Typing, TypeOK, JobId
  <2>3. pc[w] # "complete"
    <3> SUFFICES ASSUME pc[w] = "complete" PROVE FALSE
      OBVIOUS
    <3>1. RowCompleted(w)
      BY <2>1 DEF Executes, dbVars
    <3>2. PICK job \in Job : job = jobs[j]
      BY <1>3 DEF Typing, TypeOK
    <3>3. jobs'[j] = [job EXCEPT !.status = "complete", !.recent = TRUE]
      BY <1>3, <2>2, <3>1, <3>2 DEF RowCompleted, Update
    <3>4. jobs'[j].status = "complete"
      BY <3>3 DEF Job
    <3> QED BY <1>3, <3>4 DEF Open
  <2>4. cell[w].state # "idle"
    BY <2>2, <2>3 DEF Typing
  <2>5. jobs'[j].prog = jobs[j].prog
    BY <1>1, <1>3 DEF Grows
  <2> QED BY <1>3, <2>2, <2>3, <2>4, <2>5 DEF ProgramInv, CellInv
<1>4. \A j \in DOMAIN jobs : j \in DOMAIN jobs' => jobs'[j].prog = jobs[j].prog
  BY <1>1 DEF Grows
<1> QED BY <1>2, <1>3, <1>4 DEF OpenGrows

LEMMA OneOpenKept ==
    ASSUME Typing, ProgramInv, NEW w \in Writers, OneInv(w), OpenGrows(w)
    PROVE  /\ OneOpenJob'
           /\ cell[w].state # "idle" =>
                 \A j \in DOMAIN jobs' : Open(j)' /\ jobs'[j].prog = cell[w].prog => j = cell[w].job
<1>1. ASSUME cell[w].state # "idle", NEW j \in DOMAIN jobs', Open(j)', jobs'[j].prog = cell[w].prog
      PROVE  j = cell[w].job
  <2>1. CASE Open(j) /\ jobs'[j].prog = jobs[j].prog
    BY <1>1, <2>1 DEF OneInv, Open
  <2>2. CASE pc[w] = "create" /\ jobs'[j].prog = Prog(w)
    BY <1>1, <2>2 DEF OneInv
  <2> QED BY <1>1, <2>1, <2>2 DEF OpenGrows
<1>2. ASSUME NEW j \in DOMAIN jobs', NEW k \in DOMAIN jobs', Open(j)', Open(k)',
             jobs'[j].prog = jobs'[k].prog, ~Open(j) \/ Open(k)
      PROVE  j = k
  <2>1. CASE Open(j)
    BY <1>2, <2>1 DEF OneInv, OneOpenJob, OpenGrows, Open, Typing, TypeOK, JobId
  <2>2. CASE pc[w] \in {"resume", "touch"} /\ j = cell[w].job /\ jobs'[j].prog = cell[w].prog
    <3>1. cell[w].state # "idle"
      BY <2>2 DEF Typing
    <3> QED BY <1>1, <1>2, <2>2, <3>1
  <2>3. CASE ~Open(j) /\ pc[w] = "create" /\ j = nextJob /\ jobs'[j].prog = Prog(w)
    <3>1. Open(k) => k \in DOMAIN jobs /\ jobs[k].prog # Prog(w)
      BY <2>3 DEF OneInv, Open
    <3> QED BY <1>2, <2>3, <3>1 DEF OpenGrows
  <2> QED BY <1>2, <2>1, <2>2, <2>3 DEF OpenGrows
<1>3. OneOpenJob'
  BY <1>2 DEF OneOpenJob
<1> QED BY <1>1, <1>3

\* Jobs that are deleted or expire, and a robot that goes on, open none.
LEMMA OneInvShrinks ==
    ASSUME Typing, NEW w \in Writers, OneInv(w), UNCHANGED <<cell, pc, seen>>,
           DOMAIN jobs' \subseteq DOMAIN jobs,
           \A j \in DOMAIN jobs' : jobs'[j].prog = jobs[j].prog /\ (Open(j)' => Open(j)),
           pc[w] # "tick" => Prog(w)' = Prog(w)
    PROVE  OneInv(w)'
<1>1. OneOpenJob'
  BY DEF OneInv, OneOpenJob
<1>2. pc[w] = "create" => \A j \in DOMAIN jobs' : Open(j)' => jobs'[j].prog # Prog(w)'
  BY DEF OneInv
<1>3. cell[w].state # "idle" =>
         \A j \in DOMAIN jobs' : Open(j)' /\ jobs'[j].prog = cell[w].prog => j = cell[w].job
  BY DEF OneInv
<1>4. cell[w].state # "idle" /\ pc[w] \in {"find", "create", "complete"} => Prog(w)' # cell[w].prog
  BY DEF OneInv
<1> QED BY <1>1, <1>2, <1>3, <1>4 DEF OneInv

LEMMA OneStep ==
    ASSUME Typing, ProgramInv, NEW w, Writers = {w}, OneInv(w), [Next]_vars
    PROVE  OneInv(w)'
<1>1. CASE TickPause(w)
  <2>1. PICK c \in Cell : c = cell[w]
    BY DEF Typing, TypeOK
  <2>2. PICK d : cell' = [cell EXCEPT ![w] = d] /\ d = [c EXCEPT !.state = "paused"]
    BY <1>1, <2>1 DEF TickPause
  <2>3. d.job = c.job /\ d.prog = c.prog
    BY <2>2, CellKept
  <2>4. cell[w].state # "idle" /\ pc[w] = "tick" /\ UNCHANGED <<jobs, pc>>
    BY <1>1 DEF TickPause, Reads, dbVars
  <2>5. cell'[w].job = cell[w].job /\ cell'[w].prog = cell[w].prog
    BY <2>1, <2>2, <2>3 DEF Typing, TypeOK
  <2> QED BY <2>4, <2>5 DEF OneInv, OneOpenJob, Open
<1>2. CASE TickStart(w) \/ TickSwitch(w) \/ TickResume(w) \/ TickWrite(w)
  <2>1. PICK s \in {"find", "complete", "resume", "insert"} :
           /\ Awaits(w, s)
           /\ s \in {"find", "complete"} /\ cell[w].state # "idle" => Latest.prog # cell[w].prog
    BY <1>2 DEF TickStart, TickSwitch, TickResume, TickWrite, Changed, Reads
  <2>2. UNCHANGED <<telemetry, jobs, cell>> /\ pc'[w] = s /\ Prog(w)' = Latest.prog
    BY <2>1 DEF Awaits, envVars, dbVars, Typing, TypeOK, Prog, Latest
  <2> QED BY <2>1, <2>2 DEF OneInv, OneOpenJob, Open
<1>3. CASE FindsJob(w)
  <2>1. PICK j \in OpenJobs(Prog(w)) : Enters(w, j)
    BY <1>3 DEF FindsJob
  <2>2. pc[w] = "find" /\ jobs' = jobs
    BY <1>3 DEF FindsJob, dbVars
  <2>3. j \in DOMAIN jobs /\ Open(j) /\ jobs[j].prog = Prog(w) /\ j \in JobId
    BY DEF OpenJobs, Open, Typing, TypeOK, JobId
  <2>4. Prog(w) \in Programs
    BY <2>2 DEF Typing
  <2>5. PICK c \in Cell : Ended(w, c) /\ c.job = j /\ c.prog = Prog(w)
    BY <2>1, <2>3, <2>4, EntersEnds
  <2>6. cell'[w] = c /\ pc'[w] = "tick"
    BY <2>5 DEF Ended, Typing, TypeOK
  <2> QED BY <2>2, <2>3, <2>5, <2>6 DEF OneInv, OneOpenJob, Open
<1>4. CASE Create(w)
  <2>1. pc[w] = "create" /\ Enters(w, nextJob) /\ OpenGrows(w)
    BY <1>4, RowsOpen DEF Create, Executes
  <2>2. Prog(w) \in Programs /\ nextJob \in JobId
    BY <2>1 DEF Typing, TypeOK
  <2>3. PICK c \in Cell : Ended(w, c) /\ c.job = nextJob /\ c.prog = Prog(w)
    BY <2>1, <2>2, EntersEnds
  <2>4. cell'[w] = c /\ pc'[w] = "tick"
    BY <2>3 DEF Ended, Typing, TypeOK
  <2>5. \A j \in DOMAIN jobs' : Open(j)' /\ jobs'[j].prog = Prog(w) => j = nextJob
    BY <2>1 DEF OneInv, OpenGrows, Open
  <2>6. OneOpenJob'
    BY <2>1, OneOpenKept
  <2> QED BY <2>3, <2>4, <2>5, <2>6 DEF OneInv
<1>5. CASE FindsNone(w)
  <2>1. /\ pc[w] = "find" /\ pc'[w] = "create" /\ UNCHANGED <<telemetry, jobs, cell, seen>>
        /\ OpenJobs(Prog(w)) = {}
    BY <1>5 DEF FindsNone, Surroundings, envVars, dbVars, Typing, TypeOK
  <2>2. \A j \in DOMAIN jobs : Open(j) => jobs[j].prog # Prog(w)
    BY <2>1 DEF OpenJobs, Open
  <2> QED BY <2>1, <2>2 DEF OneInv, OneOpenJob, Open, Prog
<1>6. CASE Complete(w) \/ Insert(w)
  <2>1. /\ OpenGrows(w) /\ UNCHANGED <<telemetry, cell, seen>>
        /\ pc'[w] \in {"find", "touch"} /\ (pc'[w] = "find" => pc[w] = "complete")
    BY <1>6, RowsOpen DEF Complete, Insert, Executes, Surroundings, envVars, Typing, TypeOK
  <2>2. Prog(w)' = Prog(w)
    BY <2>1 DEF Prog
  <2> QED BY <2>1, <2>2, OneOpenKept DEF OneInv
<1>7. CASE Resume(w) \/ Touch(w)
  <2>1. OpenGrows(w) /\ pc[w] \in {"resume", "touch"} /\ TickEnds(w)
    BY <1>7, RowsOpen DEF Resume, Touch, Executes
  <2>2. PICK c \in Cell : c = cell[w]
    BY DEF Typing, TypeOK
  <2>3. PICK d : /\ cell' = [cell EXCEPT ![w] = d]
                 /\ \/ d = [c EXCEPT !.state = "active", !.session = FALSE]
                    \/ d = [c EXCEPT !.last = telemetry[seen[w]].pos, !.session = TRUE]
    BY <1>7, <2>2 DEF Resume, Touch
  <2>4. telemetry[seen[w]].pos \in Int
    BY <2>1, SeenTyped
  <2>5. d.job = c.job /\ d.prog = c.prog
    BY <2>3, <2>4, CellKept
  <2>6. cell'[w].job = cell[w].job /\ cell'[w].prog = cell[w].prog /\ pc'[w] = "tick"
    BY <2>1, <2>2, <2>3, <2>5 DEF TickEnds, Typing, TypeOK
  <2>7. cell[w].state # "idle"
    BY <2>1 DEF Typing
  <2> QED BY <2>1, <2>6, <2>7, OneOpenKept DEF OneInv
<1>8. CASE StatementRaises(w)
  <2>1. OpenGrows(w) /\ UNCHANGED cell /\ pc'[w] = "tick"
    BY <1>8, RowsOpen DEF StatementRaises, TickEnds, Typing, TypeOK
  <2> QED BY <2>1, OneOpenKept DEF OneInv
<1>9. CASE Restart(w)
  <2>1. OpenGrows(w) /\ cell'[w] = NewCell /\ pc'[w] = "tick"
    BY <1>9, RowsOpen DEF Restart, TickEnds, Typing, TypeOK
  <2> QED BY <2>1, OneOpenKept DEF OneInv, NewCell
<1>10. CASE \/ ConnectionLost(w)
            \/ \E j \in DOMAIN jobs : DeleteRequest(j)
            \/ DeletePoints \/ DeleteFails \/ GoesStale \/ UNCHANGED vars
  <2>1. UNCHANGED <<telemetry, jobs, cell, pc, seen>>
    BY <1>10 DEF ConnectionLost, DeleteRequest, DeletePoints, DeleteFails, GoesStale, vars,
                 envVars, dbVars, memVars
  <2> QED BY <2>1, OneInvShrinks DEF Open, Prog
<1>11. CASE DeleteJob
  <2>1. UNCHANGED <<telemetry, cell, pc, seen>>
    BY <1>11 DEF DeleteJob, envVars, memVars
  <2>2. DOMAIN jobs' \subseteq DOMAIN jobs /\ \A j \in DOMAIN jobs' : jobs'[j] = jobs[j]
    BY <1>11 DEF DeleteJob
  <2> QED BY <2>1, <2>2, OneInvShrinks DEF Open, Prog
<1>12. ASSUME NEW j \in DOMAIN jobs, Expires(j) PROVE OneInv(w)'
  <2>1. jobs[j] \in Job /\ jobs' = [jobs EXCEPT ![j] = [jobs[j] EXCEPT !.recent = FALSE]]
    BY <1>12 DEF Expires, Typing, TypeOK
  <2>2. [jobs[j] EXCEPT !.recent = FALSE].prog = jobs[j].prog
        /\ ~[jobs[j] EXCEPT !.recent = FALSE].recent
    BY <2>1 DEF Job
  <2>3. DOMAIN jobs' = DOMAIN jobs
        /\ \A k \in DOMAIN jobs : jobs'[k].prog = jobs[k].prog /\ (Open(k)' => Open(k))
    BY <2>1, <2>2 DEF Open
  <2>4. UNCHANGED <<telemetry, cell, pc, seen>>
    BY <1>12 DEF Expires, memVars
  <2> QED BY <2>3, <2>4, OneInvShrinks DEF Prog
<1>13. ASSUME NEW s \in Snapshots, NewSnapshot(s) PROVE OneInv(w)'
  <2>1. \A i \in 1..Len(telemetry) : telemetry'[i] = telemetry[i]
    BY <1>13, AppendKeeps DEF NewSnapshot, Typing, TypeOK
  <2>2. UNCHANGED <<jobs, cell, pc, seen>>
    BY <1>13 DEF NewSnapshot, dbVars, memVars
  <2>3. pc[w] # "tick" => Prog(w)' = Prog(w)
    BY <2>1, <2>2 DEF Typing, TypeOK, Prog
  <2> QED BY <2>2, <2>3, OneInvShrinks DEF Open
<1> QED BY <1>1, <1>2, <1>3, <1>4, <1>5, <1>6, <1>7, <1>8, <1>9, <1>10, <1>11, <1>12, <1>13
        DEF Next, Tick, Statement, EnsureJob, Trouble, Deletion, Robot

\* A robot's programs have at most one open job each, whatever is lost, restarted, expired
\* or deleted between the SELECT and the INSERT, as long as one writer follows the robot.
THEOREM OneJob == ASSUME NEW w, Writers = {w} PROVE Spec => []OneOpenJob
<1>1. Init => OneInv(w)
  BY DEF Init, OneInv, OneOpenJob, Open, NewCell
<1>2. OneInv(w) => OneOpenJob
  BY DEF OneInv
<1>3. Typing /\ ProgramInv /\ OneInv(w) /\ [Next]_vars => OneInv(w)'
  BY OneStep
<1> QED BY <1>1, <1>2, <1>3, TypingAlways, ProgramAlways, PTL DEF Spec

-----------------------------------------------------------------------------
(* Complete jobs *)

\* For a writer w that has the robot to itself: between the completion of its cell's job
\* and the change to another it is looking for that other, or a statement has failed.
ActiveInv(w) ==
    /\ faults = 0 /\ cell[w].state # "idle" /\ pc[w] \notin {"find", "create"}
    /\ cell[w].job \in DOMAIN jobs
    => jobs[cell[w].job].status = "active"

LEMMA StatusKept ==
    ASSUME Typing, NEW w \in Writers, Executes(w) \/ UNCHANGED dbVars, pc[w] # "complete",
           NEW j \in DOMAIN jobs
    PROVE  j \in DOMAIN jobs' /\ jobs'[j].status = jobs[j].status
<1>1. PICK job \in Job : job = jobs[j]
  BY DEF Typing, TypeOK
<1>2. CASE jobs'[j] = jobs[j] /\ j \in DOMAIN jobs'
  BY <1>2
<1>3. CASE /\ j \in DOMAIN jobs'
           /\ \/ jobs'[j] = [job EXCEPT !.recent = TRUE]
              \/ jobs'[j] = [job EXCEPT !.recent = TRUE, !.total = job.total + 1]
  BY <1>1, <1>3 DEF Job
<1>4. j # nextJob
  BY DEF Typing, TypeOK, JobId
<1> QED BY <1>1, <1>2, <1>3, <1>4 DEF dbVars, Executes, RowCreated, RowResumed, RowTouched,
                                      RowInserted, Update

LEMMA ActiveKept ==
    ASSUME Typing, NEW w \in Writers, ActiveInv(w), Executes(w) \/ UNCHANGED dbVars, faults = 0,
           cell[w].state # "idle", pc[w] \notin {"find", "create", "complete"},
           cell[w].job \in DOMAIN jobs'
    PROVE  jobs'[cell[w].job].status = "active"
<1>1. cell[w].job \in DOMAIN jobs
  BY RowsGrow DEF Grows
<1> QED BY <1>1, StatusKept DEF ActiveInv

LEMMA ActiveStep ==
    ASSUME Typing, NEW w, Writers = {w}, ActiveInv(w), [Next]_vars
    PROVE  ActiveInv(w)'
<1> USE DEF Surroundings
<1>0. /\ w \in Writers /\ faults \in Nat /\ pc \in [Writers -> Pc] /\ cell \in [Writers -> Cell]
      /\ \A j \in DOMAIN jobs : jobs[j] \in Job
  BY DEF Typing, TypeOK
<1>1. CASE TickPause(w)
  <2>1. PICK c \in Cell : c = cell[w]
    BY <1>0
  <2>2. PICK d : cell' = [cell EXCEPT ![w] = d] /\ d = [c EXCEPT !.state = "paused"]
    BY <1>1, <2>1 DEF TickPause
  <2>3. cell'[w].job = cell[w].job
    BY <1>0, <2>1, <2>2, CellKept
  <2>4. cell[w].state # "idle" /\ pc[w] = "tick" /\ UNCHANGED <<jobs, pc, faults>>
    BY <1>1 DEF TickPause, Reads, dbVars
  <2> QED BY <2>3, <2>4 DEF ActiveInv
<1>2. CASE TickStart(w) \/ TickSwitch(w) \/ TickResume(w) \/ TickWrite(w)
  <2>1. pc[w] = "tick" /\ UNCHANGED <<jobs, cell, faults>>
    BY <1>2 DEF TickStart, TickSwitch, TickResume, TickWrite, Reads, Awaits, dbVars
  <2> QED BY <2>1 DEF ActiveInv
<1>3. CASE FindsJob(w)
  <2>1. PICK j \in OpenJobs(Prog(w)) : Enters(w, j)
    BY <1>3 DEF FindsJob
  <2>2. pc[w] = "find" /\ jobs' = jobs
    BY <1>3 DEF FindsJob, dbVars
  <2>3. j \in JobId /\ jobs[j].status = "active"
    BY DEF OpenJobs, Typing, TypeOK, JobId
  <2>4. PICK c \in Cell : Ended(w, c) /\ c.job = j
    BY <1>0, <2>1, <2>2, <2>3, EntersEnds DEF Typing
  <2>5. cell'[w].job = j
    BY <1>0, <2>4 DEF Ended
  <2> QED BY <2>2, <2>3, <2>5 DEF ActiveInv
<1>4. CASE Create(w)
  <2>1. pc[w] = "create" /\ Enters(w, nextJob) /\ RowCreated(w) /\ nextJob \in JobId
    BY <1>4 DEF Create, Typing, TypeOK
  <2>2. PICK c \in Cell : Ended(w, c) /\ c.job = nextJob
    BY <1>0, <2>1, EntersEnds DEF Typing
  <2>3. cell'[w].job = nextJob
    BY <1>0, <2>2 DEF Ended
  <2>4. jobs'[nextJob].status = "active"
    BY <2>1 DEF RowCreated
  <2> QED BY <2>3, <2>4 DEF ActiveInv
<1>5. CASE FindsNone(w) \/ Complete(w)
  <2>1. pc'[w] \in {"find", "create"}
    BY <1>0, <1>5 DEF FindsNone, Complete
  <2> QED BY <2>1 DEF ActiveInv
<1>6. CASE Insert(w)
  <2>1. /\ Executes(w) /\ UNCHANGED <<cell, faults>>
        /\ pc[w] = "insert"
    BY <1>6 DEF Insert, Executes
  <2> QED BY <1>0, <2>1, ActiveKept DEF ActiveInv
<1>7. CASE Resume(w) \/ Touch(w)
  <2>1. /\ Executes(w) /\ pc[w] \in {"resume", "touch"} /\ UNCHANGED faults
        /\ cell[w].state # "idle"
    BY <1>7 DEF Resume, Touch, Executes, Typing
  <2>2. PICK c \in Cell : c = cell[w]
    BY <1>0
  <2>3. PICK d : /\ cell' = [cell EXCEPT ![w] = d]
                 /\ \/ d = [c EXCEPT !.state = "active", !.session = FALSE]
                    \/ d = [c EXCEPT !.last = telemetry[seen[w]].pos, !.session = TRUE]
    BY <1>7, <2>2 DEF Resume, Touch
  <2>4. telemetry[seen[w]].pos \in Int
    BY <1>0, <2>1, SeenTyped
  <2>5. d.job = c.job
    BY <2>3, <2>4, CellKept
  <2>6. cell'[w].job = cell[w].job
    BY <1>0, <2>2, <2>3, <2>5
  <2> QED BY <1>0, <2>1, <2>6, ActiveKept DEF ActiveInv
<1>8. CASE StatementRaises(w) \/ ConnectionLost(w) \/ DeleteFails
  BY <1>0, <1>8 DEF StatementRaises, ConnectionLost, DeleteFails, ActiveInv
<1>9. CASE Restart(w)
  <2>1. cell'[w] = NewCell
    BY <1>0, <1>9 DEF Restart
  <2> QED BY <2>1 DEF ActiveInv, NewCell
<1>10. ASSUME UNCHANGED <<cell, pc, faults>>, DOMAIN jobs' \subseteq DOMAIN jobs,
              \A j \in DOMAIN jobs' : jobs'[j].status = jobs[j].status
       PROVE  ActiveInv(w)'
  BY <1>10 DEF ActiveInv
<1>11. CASE \/ \E j \in DOMAIN jobs : DeleteRequest(j)
            \/ DeletePoints \/ DeleteJob \/ GoesStale
            \/ \E s \in Snapshots : NewSnapshot(s)
            \/ UNCHANGED vars
  <2>1. UNCHANGED <<cell, pc, faults>>
    BY <1>11 DEF DeleteRequest, DeletePoints, DeleteJob, GoesStale, NewSnapshot, vars, memVars
  <2>2. DOMAIN jobs' \subseteq DOMAIN jobs /\ \A j \in DOMAIN jobs' : jobs'[j] = jobs[j]
    BY <1>11 DEF DeleteRequest, DeletePoints, DeleteJob, GoesStale, NewSnapshot, vars, dbVars
  <2> QED BY <1>10, <2>1, <2>2
<1>12. ASSUME NEW j \in DOMAIN jobs, Expires(j) PROVE ActiveInv(w)'
  <2>1. jobs' = [jobs EXCEPT ![j] = [jobs[j] EXCEPT !.recent = FALSE]]
    BY <1>12 DEF Expires
  <2>2. [jobs[j] EXCEPT !.recent = FALSE].status = jobs[j].status
    BY <1>0 DEF Job
  <2>3. UNCHANGED <<cell, pc, faults>>
    BY <1>12 DEF Expires, memVars
  <2> QED BY <1>10, <2>1, <2>2, <2>3
<1> QED BY <1>1, <1>2, <1>3, <1>4, <1>5, <1>6, <1>7, <1>8, <1>9, <1>11, <1>12
        DEF Next, Tick, Statement, EnsureJob, Trouble, Deletion, Robot

\* A complete job gets no more points, unless a statement has failed, from a writer that
\* has the robot to itself.
THEOREM CompleteStays == ASSUME NEW w, Writers = {w} PROVE Spec => NoPointAfterComplete
<1> DEFINE Kept == \A p \in points' \ points :
                      faults = 0 /\ p.job \in DOMAIN jobs => jobs[p.job].status = "active"
<1>1. Init => ActiveInv(w)
  BY DEF Init, ActiveInv, NewCell
<1>2. Typing /\ ActiveInv(w) /\ [Next]_vars => ActiveInv(w)'
  BY ActiveStep
<1>3. Typing /\ ActiveInv(w) /\ [Next]_vars => [Kept]_vars
  <2> SUFFICES ASSUME Typing, ActiveInv(w), Next, NEW p \in points' \ points, faults = 0,
                      p.job \in DOMAIN jobs
               PROVE  jobs[p.job].status = "active"
    OBVIOUS
  <2>1. Executes(w) /\ pc[w] = "insert"
    <3>1. CASE Tick(w) \/ Deletion \/ Robot \/ ConnectionLost(w)
      BY <3>1 DEF Tick, TickPause, TickStart, TickSwitch, TickResume, TickWrite, Awaits, Deletion,
                  DeleteRequest, DeletePoints, DeleteJob, DeleteFails, Robot, NewSnapshot,
                  GoesStale, Expires, ConnectionLost, dbVars
    <3>2. CASE Statement(w)
      BY <3>2 DEF Statement, EnsureJob, FindsJob, FindsNone, Create, Complete, Resume, Insert,
                  Touch, Executes, RowCreated, RowCompleted, RowResumed, RowTouched, Update, dbVars
    <3>3. CASE StatementRaises(w) \/ Restart(w)
      BY <3>3 DEF StatementRaises, Restart, Executes, RowCreated, RowCompleted, RowResumed,
                  RowTouched, Update, dbVars
    <3> QED BY <3>1, <3>2, <3>3 DEF Next, Trouble
  <2>2. p.job = cell[w].job /\ cell[w].state # "idle"
    BY <2>1, RowsGrow DEF Grows, Typing
  <2> QED BY <2>1, <2>2 DEF ActiveInv
<1> QED BY <1>1, <1>2, <1>3, TypingAlways, PTL DEF Spec, NoPointAfterComplete

-----------------------------------------------------------------------------
(* Counted points *)

Rows(j) == Cardinality(RowsOf(j))
Late(j) == Cardinality(Uncounted(j))

\* Nothing of a request that deletes is under way unless it was made.
CountInv == (del # NoRequest => deletes # 0) /\ PointsCounted

\* The jobs a row or a writer may belong to were created before.
LEMMA CountTypes ==
    ASSUME Typing, IsFiniteSet(Writers), NEW j
    PROVE  /\ IsFiniteSet(RowsOf(j)) /\ Rows(j) \in Nat
           /\ IsFiniteSet(Uncounted(j)) /\ Late(j) \in Nat
           /\ j \in DOMAIN jobs => jobs[j].total \in Nat
           /\ j = nextJob => RowsOf(j) = {} /\ Uncounted(j) = {} /\ j \notin DOMAIN jobs
<1>1. IsFiniteSet(RowsOf(j)) /\ Rows(j) \in Nat
  BY FS_Subset, FS_CardinalityType DEF Typing, RowsOf, Rows
<1>2. IsFiniteSet(Uncounted(j)) /\ Late(j) \in Nat
  BY FS_Subset, FS_CardinalityType DEF Uncounted, Late
<1>3. j \in DOMAIN jobs => jobs[j].total \in Nat
  BY DEF Typing, TypeOK, Job
<1>4. ASSUME j = nextJob PROVE RowsOf(j) = {} /\ Uncounted(j) = {} /\ j \notin DOMAIN jobs
  <2>1. nextJob \in Nat /\ nextJob \notin 1..(nextJob - 1)
    BY DEF Typing, TypeOK, JobId
  <2>2. \A p \in points : p.job # nextJob
    BY <2>1 DEF Typing
  <2>3. \A w \in Writers : pc[w] = "touch" => cell[w].job # nextJob
    BY <2>1 DEF Typing, TypeOK
  <2>4. nextJob \notin DOMAIN jobs
    BY <2>1 DEF Typing, TypeOK
  <2> QED BY <1>4, <2>2, <2>3, <2>4 DEF RowsOf, Uncounted
<1> QED BY <1>1, <1>2, <1>3, <1>4

\* What a statement that is executed adds to a job's rows and to its count.
LEMMA RowsCounted ==
    ASSUME Typing, IsFiniteSet(Writers), NEW w \in Writers, Executes(w), NEW j \in DOMAIN jobs'
    PROVE  \/ /\ j \in DOMAIN jobs
              /\ Rows(j)' = Rows(j) + IF pc[w] = "insert" /\ j = cell[w].job THEN 1 ELSE 0
              /\ jobs'[j].total =
                    jobs[j].total + IF pc[w] = "touch" /\ j = cell[w].job THEN 1 ELSE 0
           \/ /\ j = nextJob /\ pc[w] = "create"
              /\ Rows(j)' = 0 /\ jobs'[j].total = 0
<1> USE DEF Rows
<1>0. Rows(j) \in Nat /\ (j \in DOMAIN jobs => jobs[j] \in Job /\ jobs[j].total \in Nat)
  BY CountTypes DEF Typing, TypeOK
<1>1. CASE pc[w] = "create" /\ RowCreated(w)
  <2>1. points' = points /\ RowsOf(j)' = RowsOf(j)
    BY <1>1 DEF RowCreated, RowsOf
  <2>2. CASE j = nextJob
    <3>1. jobs'[j].total = 0
      BY <1>1, <2>2 DEF RowCreated
    <3>2. Cardinality(RowsOf(j)') = 0
      BY <2>1, <2>2, CountTypes, FS_EmptySet
    <3> QED BY <1>1, <2>2, <3>1, <3>2
  <2>3. CASE j # nextJob
    <3>1. j \in DOMAIN jobs /\ jobs'[j] = jobs[j]
      BY <1>1, <2>3 DEF RowCreated
    <3> QED BY <1>0, <1>1, <2>1, <3>1
  <2> QED BY <2>2, <2>3
<1>2. CASE pc[w] \in {"complete", "resume"} /\ (RowCompleted(w) \/ RowResumed(w))
  <2>1. points' = points /\ RowsOf(j)' = RowsOf(j) /\ j \in DOMAIN jobs
    BY <1>2 DEF RowCompleted, RowResumed, Update, RowsOf
  <2>2. \/ jobs'[j] = jobs[j]
        \/ jobs'[j] = [jobs[j] EXCEPT !.status = "complete", !.recent = TRUE]
        \/ jobs'[j] = [jobs[j] EXCEPT !.recent = TRUE]
    BY <1>2, <2>1 DEF RowCompleted, RowResumed, Update
  <2>3. jobs'[j].total = jobs[j].total
    BY <1>0, <2>1, <2>2 DEF Job
  <2> QED BY <1>0, <1>2, <2>1, <2>3
<1>3. CASE pc[w] = "insert" /\ RowInserted(w)
  <2> DEFINE new == [row |-> FreeRow, job |-> cell[w].job, ts |-> seen[w]]
  <2>1. points' = points \cup {new} /\ jobs' = jobs /\ new \notin points
    BY <1>3, RowFree DEF RowInserted, Typing, TypeOK
  <2>2. new.job = cell[w].job
    OBVIOUS
  <2> HIDE DEF new
  <2>3. CASE j = cell[w].job
    <3>1. RowsOf(j)' = RowsOf(j) \cup {new} /\ new \notin RowsOf(j)
      BY <2>1, <2>2, <2>3 DEF RowsOf
    <3>2. IsFiniteSet(RowsOf(j))
      BY CountTypes
    <3>3. Cardinality(RowsOf(j) \cup {new}) = Cardinality(RowsOf(j)) + 1
      <4> HIDE DEF RowsOf
      <4> QED BY <3>1, <3>2, FS_AddElement
    <3>4. Cardinality(RowsOf(j)') = Cardinality(RowsOf(j)) + 1
      BY <3>1, <3>3
    <3> QED BY <1>0, <1>3, <2>1, <2>3, <3>4
  <2>4. CASE j # cell[w].job
    <3>1. RowsOf(j)' = RowsOf(j)
      BY <2>1, <2>2, <2>4 DEF RowsOf
    <3> QED BY <1>0, <1>3, <2>1, <2>4, <3>1
  <2> QED BY <2>3, <2>4
<1>4. CASE pc[w] = "touch" /\ RowTouched(w)
  <2>1. points' = points /\ RowsOf(j)' = RowsOf(j) /\ j \in DOMAIN jobs
    BY <1>4 DEF RowTouched, Update, RowsOf
  <2>2. CASE j = cell[w].job
    <3>1. jobs'[j] = [jobs[j] EXCEPT !.recent = TRUE, !.total = jobs[j].total + 1]
      BY <1>4, <2>1, <2>2 DEF RowTouched, Update
    <3>2. jobs'[j].total = jobs[j].total + 1
      BY <1>0, <2>1, <3>1 DEF Job
    <3> QED BY <1>0, <1>4, <2>1, <2>2, <3>2
  <2>3. CASE j # cell[w].job
    <3>1. jobs'[j] = jobs[j]
      BY <1>4, <2>1, <2>3 DEF RowTouched, Update
    <3> QED BY <1>0, <1>4, <2>1, <2>3, <3>1
  <2> QED BY <2>2, <2>3
<1> QED BY <1>1, <1>2, <1>3, <1>4 DEF Executes

\* A writer that has inserted a point, or has counted it, is one more or one less.
LEMMA LateCounted ==
    ASSUME Typing, IsFiniteSet(Writers), NEW w \in Writers, NEW j,
           \A v \in Writers \ {w} : pc'[v] = pc[v] /\ cell'[v] = cell[v],
           pc[w] = "touch" => pc'[w] # "touch", pc'[w] = "touch" => cell'[w] = cell[w]
    PROVE  Late(j)' = Late(j) + (IF pc'[w] = "touch" /\ j = cell[w].job THEN 1 ELSE 0)
                              - (IF pc[w] = "touch" /\ j = cell[w].job THEN 1 ELSE 0)
<1> USE DEF Late
<1>0. IsFiniteSet(Uncounted(j)) /\ Late(j) \in Nat
  BY CountTypes
<1>1. CASE pc'[w] = "touch" /\ j = cell[w].job
  <2>1. Uncounted(j)' = Uncounted(j) \cup {w} /\ w \notin Uncounted(j)
    BY <1>1 DEF Uncounted
  <2>2. Cardinality(Uncounted(j)') = Cardinality(Uncounted(j)) + 1
    BY <1>0, <2>1, FS_AddElement
  <2> QED BY <1>0, <1>1, <2>2
<1>2. CASE pc[w] = "touch" /\ j = cell[w].job
  <2>1. Uncounted(j)' = Uncounted(j) \ {w} /\ w \in Uncounted(j)
    BY <1>2 DEF Uncounted
  <2>2. Cardinality(Uncounted(j)') = Cardinality(Uncounted(j)) - 1
    BY <1>0, <2>1, FS_RemoveElement
  <2> QED BY <1>0, <1>2, <2>2
<1>3. CASE ~(pc'[w] = "touch" /\ j = cell[w].job) /\ ~(pc[w] = "touch" /\ j = cell[w].job)
  <2>1. Uncounted(j)' = Uncounted(j)
    BY <1>3 DEF Uncounted
  <2> QED BY <1>0, <1>3, <2>1
<1> QED BY <1>1, <1>2, <1>3

\* A statement that is answered keeps rows, count and the points under way balanced; one
\* that is not, or a restart, leaves one row uncounted at most.
LEMMA WriterCounts ==
    ASSUME Typing, CountInv, IsFiniteSet(Writers), NEW w \in Writers,
           \A v \in Writers \ {w} : pc'[v] = pc[v] /\ cell'[v] = cell[v],
           Executes(w) \/ UNCHANGED dbVars, UNCHANGED delVars,
           \/ /\ pc[w] \in {"insert", "touch"} => Executes(w)
              /\ (pc'[w] = "touch" <=> pc[w] = "insert") /\ (pc'[w] = "touch" => cell'[w] = cell[w])
              /\ UNCHANGED <<faults, stops>>
           \/ /\ pc'[w] = "tick" /\ faults' \in Nat /\ stops' \in Nat
              /\ faults' + stops' = faults + stops + 1
    PROVE  CountInv'
<1>1. SUFFICES ASSUME deletes = 0, NEW j \in DOMAIN jobs'
               PROVE  Rows(j)' - jobs'[j].total - Late(j)' \in 0..(faults' + stops')
  BY DEF CountInv, PointsCounted, delVars, Rows, Late
<1>2. /\ faults \in Nat /\ stops \in Nat /\ Rows(j) \in Nat /\ Late(j) \in Nat
      /\ j \in DOMAIN jobs => /\ jobs[j].total \in Nat
                              /\ Rows(j) - jobs[j].total - Late(j) \in 0..(faults + stops)
  BY <1>1, CountTypes DEF Typing, TypeOK, CountInv, PointsCounted, Rows, Late
<1>3. Late(j)' = Late(j) + (IF pc'[w] = "touch" /\ j = cell[w].job THEN 1 ELSE 0)
                         - (IF pc[w] = "touch" /\ j = cell[w].job THEN 1 ELSE 0)
  BY LateCounted
<1>4. CASE Executes(w) /\ j \in DOMAIN jobs /\ ~(j = nextJob /\ pc[w] = "create")
  <2>1. /\ Rows(j)' = Rows(j) + IF pc[w] = "insert" /\ j = cell[w].job THEN 1 ELSE 0
        /\ jobs'[j].total = jobs[j].total + IF pc[w] = "touch" /\ j = cell[w].job THEN 1 ELSE 0
    BY <1>4, RowsCounted
  <2> QED BY <1>2, <1>3, <1>4, <2>1
<1>5. CASE Executes(w) /\ ~(j \in DOMAIN jobs /\ ~(j = nextJob /\ pc[w] = "create"))
  <2>1. j = nextJob => j \notin DOMAIN jobs
    BY CountTypes
  <2>2. j = nextJob /\ pc[w] = "create" /\ Rows(j)' = 0 /\ jobs'[j].total = 0
    BY <1>1, <1>5, <2>1, RowsCounted
  <2>3. Late(j) = 0
    BY <2>2, CountTypes, FS_EmptySet DEF Late
  <2> QED BY <1>2, <1>3, <2>2, <2>3
<1>6. CASE UNCHANGED dbVars /\ ~Executes(w)
  <2>1. j \in DOMAIN jobs /\ jobs'[j].total = jobs[j].total /\ Rows(j)' = Rows(j)
    BY <1>6 DEF dbVars, Rows, RowsOf
  <2> QED BY <1>2, <1>3, <1>6, <2>1
<1> QED BY <1>4, <1>5, <1>6

LEMMA CountStep ==
    ASSUME IsFiniteSet(Writers)
    PROVE  Typing /\ CountInv /\ [Next]_vars => CountInv'
<1> SUFFICES ASSUME Typing, CountInv, [Next]_vars PROVE CountInv'
  OBVIOUS
<1> USE DEF memVars, Surroundings
<1>0. /\ faults \in Nat /\ stops \in Nat /\ deletes \in Nat
      /\ pc \in [Writers -> Pc] /\ cell \in [Writers -> Cell]
  BY DEF Typing, TypeOK
<1>1. ASSUME NEW w \in Writers, Tick(w) PROVE CountInv'
  <2>1. CASE TickPause(w)
    BY <1>0, <2>1, WriterCounts DEF TickPause, Reads, dbVars
  <2>2. CASE ~TickPause(w)
    <3>1. /\ pc[w] = "tick" /\ UNCHANGED <<dbVars, cell, delVars, faults, stops>>
          /\ pc' \in {[pc EXCEPT ![w] = s] : s \in {"find", "complete", "resume", "insert"}}
      BY <1>1, <2>2 DEF Tick, TickStart, TickSwitch, TickResume, TickWrite, Reads, Awaits
    <3> QED BY <1>0, <3>1, WriterCounts
  <2> QED BY <2>1, <2>2
<1>2. ASSUME NEW w \in Writers, Statement(w) PROVE CountInv'
  <2>1. CASE FindsJob(w)
    BY <1>0, <2>1, WriterCounts DEF FindsJob, Enters, TickEnds
  <2>2. CASE FindsNone(w)
    BY <1>0, <2>2, WriterCounts DEF FindsNone
  <2>3. CASE Create(w)
    BY <1>0, <2>3, WriterCounts DEF Create, Enters, TickEnds, Executes
  <2>4. CASE Complete(w)
    BY <1>0, <2>4, WriterCounts DEF Complete, Executes
  <2>5. CASE Resume(w)
    BY <1>0, <2>5, WriterCounts DEF Resume, TickEnds, Executes
  <2>6. CASE Insert(w)
    BY <1>0, <2>6, WriterCounts DEF Insert, Executes
  <2>7. CASE Touch(w)
    BY <1>0, <2>7, WriterCounts DEF Touch, TickEnds, Executes
  <2> QED BY <1>2, <2>1, <2>2, <2>3, <2>4, <2>5, <2>6, <2>7 DEF Statement, EnsureJob
<1>3. ASSUME NEW w \in Writers, StatementRaises(w) \/ Restart(w) PROVE CountInv'
  <2>1. /\ Executes(w) \/ UNCHANGED dbVars
        /\ UNCHANGED delVars /\ pc' = [pc EXCEPT ![w] = "tick"]
        /\ \A v \in Writers \ {w} : cell'[v] = cell[v]
        /\ \/ faults' = faults + 1 /\ stops' = stops
           \/ faults' = faults /\ stops' = stops + 1
    BY <1>0, <1>3 DEF StatementRaises, Restart, TickEnds
  <2> QED BY <1>0, <2>1, WriterCounts
<1>4. ASSUME UNCHANGED <<pc, cell, points>>, faults' + stops' \in {faults + stops, faults + stops + 1},
             faults' \in Nat, stops' \in Nat, UNCHANGED delVars,
             DOMAIN jobs' = DOMAIN jobs, \A j \in DOMAIN jobs : jobs'[j].total = jobs[j].total
      PROVE  CountInv'
  <2> SUFFICES ASSUME deletes = 0, NEW j \in DOMAIN jobs
               PROVE  Rows(j)' - jobs'[j].total - Late(j)' \in 0..(faults' + stops')
    BY <1>4 DEF CountInv, PointsCounted, delVars, Rows, Late
  <2>1. /\ Rows(j) - jobs[j].total - Late(j) \in 0..(faults + stops)
        /\ Rows(j) \in Nat /\ Late(j) \in Nat /\ jobs[j].total \in Nat
    BY CountTypes DEF CountInv, PointsCounted, Rows, Late
  <2>2. Rows(j)' = Rows(j) /\ Late(j)' = Late(j)
    BY <1>4 DEF Rows, Late, RowsOf, Uncounted
  <2> QED BY <1>0, <1>4, <2>1, <2>2
<1>5. ASSUME NEW w \in Writers, ConnectionLost(w) PROVE CountInv'
  BY <1>0, <1>4, <1>5 DEF ConnectionLost, dbVars
<1>6. CASE Deletion
  <2>1. deletes' # 0
    <3>1. CASE \E j \in DOMAIN jobs : DeleteRequest(j)
      BY <1>0, <3>1 DEF DeleteRequest
    <3>2. CASE DeletePoints \/ DeleteJob \/ DeleteFails
      <4>1. del # NoRequest /\ deletes' = deletes
        BY <3>2 DEF DeletePoints, DeleteJob, DeleteFails, NoRequest
      <4> QED BY <4>1 DEF CountInv
    <3> QED BY <1>6, <3>1, <3>2 DEF Deletion
  <2> QED BY <2>1 DEF CountInv, PointsCounted
<1>7. ASSUME NEW j \in DOMAIN jobs, Expires(j) PROVE CountInv'
  <2>1. /\ DOMAIN jobs' = DOMAIN jobs
        /\ \A k \in DOMAIN jobs : jobs'[k].total = jobs[k].total
    <3>1. jobs' = [jobs EXCEPT ![j].recent = FALSE] /\ \A k \in DOMAIN jobs : jobs[k] \in Job
      BY <1>7 DEF Expires, Typing, TypeOK
    <3> QED BY <3>1 DEF Job
  <2> QED BY <1>0, <1>4, <1>7, <2>1 DEF Expires
<1>8. CASE GoesStale \/ \E s \in Snapshots : NewSnapshot(s)
  BY <1>0, <1>4, <1>8 DEF GoesStale, NewSnapshot, dbVars
<1>9. CASE UNCHANGED vars
  BY <1>0, <1>4, <1>9 DEF vars, dbVars
<1> QED BY <1>1, <1>2, <1>3, <1>5, <1>6, <1>7, <1>8, <1>9 DEF Next, Trouble, Robot

\* As long as no job is deleted, a job's total_points is never ahead of its rows, and
\* behind by the points being counted and one for each failed statement and each stop,
\* for any finite number of writers.
THEOREM RowsAndTotal == ASSUME IsFiniteSet(Writers) PROVE Spec => []PointsCounted
<1>1. Init => CountInv
  BY DEF Init, CountInv, PointsCounted
<1>2. CountInv => PointsCounted
  BY DEF CountInv
<1>3. Typing /\ CountInv /\ [Next]_vars => CountInv'
  BY CountStep
<1> QED BY <1>1, <1>2, <1>3, TypingAlways, PTL DEF Spec

-----------------------------------------------------------------------------
(* Copies *)

CopiesIn(rows, j, t) == {q \in rows : q.job = j /\ q.ts = t}
CopiesOf(j, t) == CopiesIn(points, j, t)
Copies(j, t) == Cardinality(CopiesOf(j, t))
Mishaps == faults + stops

\* The latest snapshot has been written, and the next tick will find it near the last one.
Written(w) ==
    /\ cell[w].state = "active" /\ ~Changed(w)
    /\ \/ pc[w] = "touch" /\ seen[w] = Len(telemetry)
       \/ pc[w] = "tick" /\ cell[w].session /\ cell[w].last = Latest.pos

\* For a writer w that has the robot to itself: what it is about to insert has been
\* inserted only for what went wrong, and a snapshot that has its one copy more than that
\* is written, or will never again be the latest.
CopyInv(w) ==
    /\ \A j, t : Copies(j, t) <= 1 + Mishaps
    /\ pc[w] = "insert" => /\ Copies(cell[w].job, seen[w]) <= Mishaps
                           /\ cell[w].state = "active"
                           /\ seen[w] = Len(telemetry) => ~Changed(w)
    /\ \A j : IsActive /\ Copies(j, Len(telemetry)) > Mishaps => Written(w)

LEMMA CopyTypes ==
    ASSUME Typing, NEW j, NEW t
    PROVE  IsFiniteSet(CopiesOf(j, t)) /\ Copies(j, t) \in Nat /\ Mishaps \in Nat
<1>1. IsFiniteSet(CopiesOf(j, t)) /\ Copies(j, t) \in Nat
  BY FS_Subset, FS_CardinalityType DEF Typing, CopiesIn, CopiesOf, Copies
<1> QED BY <1>1 DEF Typing, TypeOK, Mishaps

LEMMA CopiesShrink ==
    ASSUME Typing, points' \subseteq points, NEW j, NEW t
    PROVE  Copies(j, t)' \in Nat /\ Copies(j, t)' <= Copies(j, t)
<1>1. CopiesOf(j, t)' \subseteq CopiesOf(j, t)
  BY DEF CopiesIn, CopiesOf
<1> QED BY <1>1, CopyTypes, FS_Subset, FS_CardinalityType DEF Copies

\* A statement that is executed adds one row at most, to what the tick is about.
LEMMA CopiesGrow ==
    ASSUME Typing, NEW w \in Writers, Executes(w) \/ UNCHANGED dbVars, NEW j, NEW t
    PROVE  \/ Copies(j, t)' = Copies(j, t)
           \/ /\ pc[w] = "insert" /\ j = cell[w].job /\ t = seen[w]
              /\ Copies(j, t)' = Copies(j, t) + 1
<1>1. CASE points' = points
  BY <1>1 DEF Copies, CopiesOf
<1>2. CASE pc[w] = "insert" /\ RowInserted(w)
  <2> DEFINE new == [row |-> FreeRow, job |-> cell[w].job, ts |-> seen[w]]
  <2>1. points' = points \cup {new} /\ new \notin points
    BY <1>2, RowFree DEF RowInserted, Typing, TypeOK
  <2>2. new.job = cell[w].job /\ new.ts = seen[w]
    OBVIOUS
  <2> HIDE DEF new
  <2>3. CASE j = cell[w].job /\ t = seen[w]
    <3>1. CopiesOf(j, t)' = CopiesOf(j, t) \cup {new} /\ new \notin CopiesOf(j, t)
      BY <2>1, <2>2, <2>3 DEF CopiesIn, CopiesOf
    <3>2. Cardinality(CopiesOf(j, t) \cup {new}) = Cardinality(CopiesOf(j, t)) + 1
      BY <3>1, CopyTypes, FS_AddElement
    <3> QED BY <1>2, <2>3, <3>1, <3>2 DEF Copies
  <2>4. CASE ~(j = cell[w].job /\ t = seen[w])
    <3>1. CopiesOf(j, t)' = CopiesOf(j, t)
      BY <2>1, <2>2, <2>4 DEF CopiesIn, CopiesOf
    <3> QED BY <3>1 DEF Copies
  <2> QED BY <2>3, <2>4
<1> QED BY <1>1, <1>2 DEF Executes, RowCreated, RowCompleted, RowResumed, RowTouched, Update, dbVars

\* After a failure or a restart there may be one copy more, and it need not be written.
LEMMA CopiesAfterTrouble ==
    ASSUME Typing, NEW w \in Writers, CopyInv(w), Executes(w) \/ UNCHANGED dbVars,
           Mishaps' = Mishaps + 1, pc'[w] = "tick"
    PROVE  CopyInv(w)'
<1>1. \A j, t : Copies(j, t)' <= Mishaps'
  <2> SUFFICES ASSUME NEW j, NEW t PROVE Copies(j, t)' <= Mishaps'
    OBVIOUS
  <2>1. Copies(j, t) \in Nat /\ Mishaps \in Nat
    BY CopyTypes
  <2>2. CASE Copies(j, t)' = Copies(j, t)
    BY <2>1, <2>2 DEF CopyInv
  <2>3. CASE /\ pc[w] = "insert" /\ j = cell[w].job /\ t = seen[w]
             /\ Copies(j, t)' = Copies(j, t) + 1
    BY <2>1, <2>3 DEF CopyInv
  <2> QED BY <2>2, <2>3, CopiesGrow
<1>2. \A j, t : Copies(j, t)' \in Nat /\ Mishaps' \in Nat
  <2> SUFFICES ASSUME NEW j, NEW t PROVE Copies(j, t)' \in Nat /\ Mishaps' \in Nat
    OBVIOUS
  <2> QED BY CopyTypes, CopiesGrow
<1>3. \A j, t : Copies(j, t)' <= 1 + Mishaps' /\ ~(Copies(j, t)' > Mishaps')
  BY <1>1, <1>2
<1> QED BY <1>3 DEF CopyInv

\* What inserts no row keeps what is written, as long as the latest snapshot stays it.
LEMMA CopiesKept ==
    ASSUME Typing, NEW w \in Writers, CopyInv(w), points' \subseteq points,
           UNCHANGED <<telemetry, faults, stops>>, fresh' => fresh,
           pc'[w] = "insert" => /\ Copies(cell'[w].job, seen'[w]) <= Mishaps
                                /\ cell'[w].state = "active"
                                /\ seen'[w] = Len(telemetry) => ~Changed(w)',
           Written(w) /\ IsActive => Written(w)'
    PROVE  CopyInv(w)'
<1>1. Mishaps' = Mishaps /\ Mishaps \in Nat /\ (IsActive' => IsActive)
  BY DEF Mishaps, IsActive, Recent, Latest, Typing, TypeOK
<1>2. \A j, t : Copies(j, t) \in Nat /\ Copies(j, t)' \in Nat /\ Copies(j, t)' <= Copies(j, t)
  BY CopiesShrink, CopyTypes
<1>3. \A j, t : Copies(j, t)' <= 1 + Mishaps'
  BY <1>1, <1>2 DEF CopyInv
<1>4. pc'[w] = "insert" => Copies(cell[w].job, seen[w])' <= Mishaps'
  <2>1. Copies(cell[w].job, seen[w])' <= Copies(cell'[w].job, seen'[w])
    BY <1>2 DEF Copies, CopiesOf
  <2> QED BY <1>1, <1>2, <2>1 DEF Copies, CopiesOf
<1>5. \A j : IsActive' /\ Copies(j, Len(telemetry))' > Mishaps' => Written(w)'
  <2> SUFFICES ASSUME NEW j, IsActive', Copies(j, Len(telemetry))' > Mishaps' PROVE Written(w)'
    OBVIOUS
  <2>1. Copies(j, Len(telemetry))' <= Copies(j, Len(telemetry))
    BY <1>2 DEF Copies, CopiesOf
  <2>2. Copies(j, Len(telemetry)) > Mishaps
    BY <1>1, <1>2, <2>1 DEF Copies, CopiesOf
  <2> QED BY <1>1, <2>2 DEF CopyInv
<1> QED BY <1>3, <1>4, <1>5 DEF CopyInv

LEMMA CopyStep ==
    ASSUME Dedup > 0, Typing, NEW w, Writers = {w}, CopyInv(w), [Next]_vars
    PROVE  CopyInv(w)'
<1> USE DEF Surroundings
<1>0. /\ w \in Writers /\ faults \in Nat /\ stops \in Nat
      /\ pc \in [Writers -> Pc] /\ cell \in [Writers -> Cell] /\ seen \in [Writers -> Nat]
  BY DEF Typing, TypeOK
<1>1. CASE TickPause(w)
  <2>1. ~IsActive /\ points' = points /\ UNCHANGED <<telemetry, fresh, faults, stops>> /\ pc'[w] = "tick"
    BY <1>1 DEF TickPause, Reads, envVars, dbVars
  <2> QED BY <1>0, <2>1, CopiesKept
<1>2. CASE TickStart(w) \/ TickSwitch(w) \/ TickResume(w)
  <2>1. /\ points' = points /\ UNCHANGED <<telemetry, fresh, faults, stops>>
        /\ pc'[w] # "insert" /\ ~(cell[w].state = "active" /\ ~Changed(w))
    BY <1>0, <1>2 DEF TickStart, TickSwitch, TickResume, Reads, Awaits, envVars, dbVars, Changed
  <2> QED BY <1>0, <2>1, CopiesKept DEF Written
<1>3. CASE TickWrite(w)
  <2>1. /\ pc[w] = "tick" /\ cell[w].state = "active" /\ IsActive /\ ~Changed(w) /\ ~Near(w)
        /\ points' = points /\ UNCHANGED <<telemetry, fresh, faults, stops, cell>>
        /\ seen'[w] = Len(telemetry)
    BY <1>0, <1>3 DEF TickWrite, Reads, Awaits, envVars, dbVars
  <2>2. ~Written(w)
    <3>1. cell[w].last \in Int /\ Dedup \in Nat
      BY <1>0, ToolpathAssumption DEF Cell
    <3> QED BY <2>1, <3>1 DEF Written, Near
  <2>3. Copies(cell[w].job, Len(telemetry)) <= Mishaps
    <3>1. ~(Copies(cell[w].job, Len(telemetry)) > Mishaps)
      BY <2>1, <2>2 DEF CopyInv
    <3>2. Copies(cell[w].job, Len(telemetry)) \in Nat /\ Mishaps \in Nat
      BY CopyTypes
    <3> QED BY <3>1, <3>2
  <2>4. ~Changed(w)'
    BY <2>1 DEF Changed, Latest
  <2> QED BY <1>0, <2>1, <2>2, <2>3, <2>4, CopiesKept
<1>4. CASE FindsJob(w) \/ FindsNone(w) \/ Create(w) \/ Complete(w) \/ Resume(w)
  <2>1. /\ points' = points /\ UNCHANGED <<telemetry, fresh, faults, stops>>
        /\ pc'[w] # "insert" /\ pc[w] \notin {"tick", "touch"}
    BY <1>0, <1>4 DEF FindsJob, FindsNone, Create, Complete, Resume, Enters, TickEnds, envVars, dbVars,
                      RowCreated, RowCompleted, RowResumed, Update
  <2> QED BY <1>0, <2>1, CopiesKept DEF Written
<1>5. CASE Insert(w)
  <2>1. /\ Executes(w) /\ pc[w] = "insert" /\ pc'[w] = "touch"
        /\ UNCHANGED <<telemetry, fresh, cell, seen, faults, stops>>
    BY <1>0, <1>5 DEF Insert, Executes, envVars
  <2>2. Mishaps' = Mishaps /\ Mishaps \in Nat
    BY <1>0, <2>1 DEF Mishaps
  <2>3. ASSUME NEW j, NEW t
        PROVE  /\ Copies(j, t) \in Nat /\ Copies(j, t)' <= 1 + Mishaps
               /\ Copies(j, t)' > Mishaps =>
                     Copies(j, t) > Mishaps \/ (j = cell[w].job /\ t = seen[w])
    <3>1. Copies(j, t) \in Nat /\ Copies(j, t) <= 1 + Mishaps
      BY CopyTypes DEF CopyInv
    <3>2. CASE Copies(j, t)' = Copies(j, t)
      BY <2>2, <3>1, <3>2
    <3>3. CASE j = cell[w].job /\ t = seen[w] /\ Copies(j, t)' = Copies(j, t) + 1
      BY <2>1, <2>2, <3>1, <3>3 DEF CopyInv
    <3> QED BY <1>0, <2>1, <3>2, <3>3, CopiesGrow
  <2>4. \A j : IsActive' /\ Copies(j, Len(telemetry))' > Mishaps' => Written(w)'
    <3> SUFFICES ASSUME NEW j, IsActive', Copies(j, Len(telemetry))' > Mishaps' PROVE Written(w)'
      OBVIOUS
    <3>1. IsActive /\ Len(telemetry)' = Len(telemetry)
      BY <2>1 DEF IsActive, Recent, Latest
    <3>2. Copies(j, Len(telemetry)) > Mishaps \/ seen[w] = Len(telemetry)
      BY <2>2, <2>3, <3>1 DEF Copies, CopiesOf
    <3>3. ~(Copies(j, Len(telemetry)) > Mishaps)
      BY <2>1, <3>1 DEF CopyInv, Written
    <3>4. cell[w].state = "active" /\ ~Changed(w)
      BY <2>1, <3>2, <3>3 DEF CopyInv
    <3> QED BY <2>1, <3>2, <3>3, <3>4 DEF Written, Changed, Latest
  <2> QED BY <2>1, <2>2, <2>3, <2>4 DEF CopyInv
<1>6. CASE Touch(w)
  <2>1. /\ points' = points /\ UNCHANGED <<telemetry, fresh, faults, stops>>
        /\ pc[w] = "touch" /\ pc'[w] = "tick"
    BY <1>0, <1>6 DEF Touch, RowTouched, Update, TickEnds, envVars
  <2>2. PICK c \in Cell : c = cell[w]
    BY <1>0
  <2>3. PICK d : /\ cell' = [cell EXCEPT ![w] = d]
                 /\ d = [c EXCEPT !.last = telemetry[seen[w]].pos, !.session = TRUE]
    BY <1>6, <2>2 DEF Touch
  <2>4. telemetry[seen[w]].pos \in Int
    BY <1>0, <2>1, SeenTyped
  <2>5. d.state = c.state /\ d.prog = c.prog /\ d.last = telemetry[seen[w]].pos
        /\ d.session = TRUE
    <3>1. PICK x \in Int : x = telemetry[seen[w]].pos
      BY <2>4
    <3>2. d = [c EXCEPT !.last = x, !.session = TRUE]
      BY <2>3, <3>1
    <3>3. d.state = c.state /\ d.prog = c.prog /\ d.last = x /\ d.session = TRUE
      BY <3>2 DEF Cell
    <3> QED BY <3>1, <3>3
  <2>6. cell'[w] = d
    BY <1>0, <2>3
  <2>7. Written(w) => Written(w)'
    BY <2>1, <2>2, <2>5, <2>6 DEF Written, Changed, Latest
  <2> QED BY <1>0, <2>1, <2>7, CopiesKept
<1>7. CASE StatementRaises(w) \/ Restart(w)
  <2>1. /\ Executes(w) \/ UNCHANGED dbVars
        /\ Mishaps' = Mishaps + 1 /\ pc'[w] = "tick"
    BY <1>0, <1>7 DEF StatementRaises, Restart, TickEnds, Mishaps
  <2> QED BY <1>0, <2>1, CopiesAfterTrouble
<1>8. CASE ConnectionLost(w) \/ DeleteFails
  <2>1. UNCHANGED <<points, cell, pc, seen>> /\ Mishaps' = Mishaps + 1
    BY <1>0, <1>8 DEF ConnectionLost, DeleteFails, Mishaps, dbVars, memVars
  <2>2. ASSUME NEW j, NEW t
        PROVE  Copies(j, t)' <= 1 + Mishaps' /\ ~(Copies(j, t)' > Mishaps')
    <3>1. Copies(j, t) \in Nat /\ Mishaps \in Nat /\ Copies(j, t) <= 1 + Mishaps
      BY CopyTypes DEF CopyInv
    <3>2. Copies(j, t)' = Copies(j, t)
      BY <2>1 DEF Copies, CopiesOf
    <3> QED BY <2>1, <3>1, <3>2
  <2>3. pc'[w] = "insert" => /\ Copies(cell[w].job, seen[w])' <= Mishaps'
                             /\ cell'[w].state = "active"
                             /\ seen'[w] = Len(telemetry') => ~Changed(w)'
    <3>1. telemetry' = telemetry
      BY <1>8 DEF ConnectionLost, DeleteFails, envVars
    <3>2. Copies(cell[w].job, seen[w]) \in Nat /\ Mishaps \in Nat
      BY CopyTypes
    <3>3. Copies(cell[w].job, seen[w])' = Copies(cell[w].job, seen[w])
      BY <2>1 DEF Copies, CopiesOf
    <3> QED BY <2>1, <3>1, <3>2, <3>3 DEF CopyInv, Changed, Latest
  <2>4. \A j : ~(Copies(j, Len(telemetry))' > Mishaps')
    BY <2>2 DEF Copies, CopiesOf
  <2> QED BY <2>2, <2>3, <2>4 DEF CopyInv
<1>9. CASE \/ \E j \in DOMAIN jobs : DeleteRequest(j) \/ Expires(j)
           \/ DeletePoints \/ DeleteJob \/ GoesStale \/ UNCHANGED vars
  <2>1. /\ points' \subseteq points /\ UNCHANGED <<telemetry, cell, pc, seen, faults, stops>>
        /\ fresh' => fresh
    BY <1>9 DEF DeleteRequest, DeletePoints, DeleteJob, GoesStale, Expires, vars, envVars, dbVars, memVars
  <2>2. (Written(w) => Written(w)') /\ (Changed(w)' <=> Changed(w))
    BY <2>1 DEF Written, Changed, Latest
  <2> QED BY <1>0, <2>1, <2>2, CopiesKept DEF CopyInv
<1>10. ASSUME NEW s \in Snapshots, NewSnapshot(s) PROVE CopyInv(w)'
  <2>1. /\ telemetry' = Append(telemetry, s) /\ telemetry \in Seq(Snapshots)
        /\ UNCHANGED <<points, cell, pc, seen, faults, stops>>
    BY <1>10 DEF NewSnapshot, dbVars, memVars, Typing, TypeOK
  <2>2. Len(telemetry') = Len(telemetry) + 1 /\ Len(telemetry) \in Nat
    BY <2>1, AppendKeeps
  <2>3. Mishaps' = Mishaps /\ Mishaps \in Nat /\ \A j, t : Copies(j, t)' = Copies(j, t)
    BY <1>0, <2>1 DEF Mishaps, Copies, CopiesOf
  <2>4. \A j : ~(Copies(j, Len(telemetry))' > Mishaps')
    <3> SUFFICES ASSUME NEW j PROVE ~(Copies(j, Len(telemetry))' > Mishaps')
      OBVIOUS
    <3>1. CopiesOf(j, Len(telemetry))' = {}
      BY <2>1, <2>2 DEF CopiesOf, CopiesIn, Typing
    <3>2. Copies(j, Len(telemetry))' = 0
      BY <3>1, FS_EmptySet DEF Copies
    <3> QED BY <2>3, <3>2
  <2>5. pc[w] = "insert" => seen[w] # Len(telemetry')
    BY <1>0, <2>2 DEF Typing, TypeOK
  <2>6. Copies(cell[w].job, seen[w])' = Copies(cell[w].job, seen[w])
    BY <2>1 DEF Copies, CopiesOf
  <2> QED BY <2>1, <2>3, <2>4, <2>5, <2>6 DEF CopyInv
<1> QED BY <1>1, <1>2, <1>3, <1>4, <1>5, <1>6, <1>7, <1>8, <1>9, <1>10
        DEF Next, Tick, Statement, EnsureJob, Trouble, Deletion, Robot

\* A writer that has the robot to itself records a snapshot once in a job, and once more
\* for each failure and each restart, whatever distance above nothing it calls a duplicate.
THEOREM FewCopies ==
    ASSUME NEW w, Writers = {w}, Dedup > 0
    PROVE  Spec => []BoundedCopies
<1>1. Init => CopyInv(w)
  <2> SUFFICES ASSUME Init PROVE CopyInv(w)
    OBVIOUS
  <2>1. ASSUME NEW j, NEW t PROVE Copies(j, t) = 0
    <3>1. CopiesOf(j, t) = {}
      BY DEF Init, CopiesOf, CopiesIn
    <3> QED BY <3>1, FS_EmptySet DEF Copies
  <2>2. Mishaps = 0 /\ pc[w] = "tick" /\ ~IsActive
    BY DEF Init, Mishaps, IsActive, Recent
  <2> QED BY <2>1, <2>2 DEF CopyInv
<1>2. Typing /\ CopyInv(w) => BoundedCopies
  <2> SUFFICES ASSUME Typing, CopyInv(w), NEW p \in points
               PROVE  Copies(p.job, p.ts) <= 1 + faults + stops
    BY DEF BoundedCopies, Copies, CopiesOf, CopiesIn
  <2>1. Copies(p.job, p.ts) \in Nat /\ Copies(p.job, p.ts) <= 1 + Mishaps
    BY CopyTypes DEF CopyInv
  <2> QED BY <2>1 DEF Mishaps, Typing, TypeOK
<1>3. Typing /\ CopyInv(w) /\ [Next]_vars => CopyInv(w)'
  BY CopyStep
<1> QED BY <1>1, <1>2, <1>3, TypingAlways, PTL DEF Spec

=============================================================================
