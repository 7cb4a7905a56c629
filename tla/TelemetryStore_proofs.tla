------------------------ MODULE TelemetryStore_proofs ------------------------
(***************************************************************************)
(* Type correctness of TelemetryStore, its order of records, what the      *)
(* spool and the queue keep, how often a record may be stored, and that it *)
(* implements StoreAndForward, for every value of its constants.           *)
(***************************************************************************)
EXTENDS TelemetryStore, SequenceTheorems, TLAPS

-----------------------------------------------------------------------------
(* Sequences *)

\* What get_nowait takes from the queue goes to the end of the batch, in order,
\* and neither grows beyond its limit.
LEMMA DrainFacts ==
    ASSUME TypeOK, DrainQueue
    PROVE  /\ batch' \in Seq(Record) /\ Len(batch') <= BatchSize
           /\ queue' \in Seq(Record) /\ Len(queue') <= QueueMax
           /\ batch' \o queue' = batch \o queue
<1>1. /\ queue \in Seq(Record) /\ Len(queue) \in Nat /\ Len(queue) <= QueueMax
      /\ batch \in Seq(Record) /\ Len(batch) \in Nat /\ Len(batch) <= BatchSize
      /\ BatchSize \in Nat /\ QueueMax \in Nat
  BY BoundsAssumption, LenProperties DEF TypeOK
<1>2. /\ Room \in 0..Len(queue)
      /\ Room <= BatchSize - Len(batch)
  BY <1>1 DEF Room
<1> DEFINE front == SubSeq(queue, 1, Room)
           back  == SubSeq(queue, Room + 1, Len(queue))
<1>3. /\ front \in Seq(Record) /\ Len(front) = Room
      /\ back \in Seq(Record) /\ Len(back) = Len(queue) - Room
  <2>1. \A i \in 1..Len(queue) : queue[i] \in Record
    BY <1>1, ElementOfSeq
  <2>2. /\ SubSeq(queue, 1, Room) \in Seq(Record)
        /\ Len(SubSeq(queue, 1, Room)) = IF 1 <= Room THEN Room - 1 + 1 ELSE 0
    BY <1>1, <1>2, <2>1, SubSeqProperties
  <2>3. /\ SubSeq(queue, Room + 1, Len(queue)) \in Seq(Record)
        /\ Len(SubSeq(queue, Room + 1, Len(queue)))
             = IF Room + 1 <= Len(queue) THEN Len(queue) - (Room + 1) + 1 ELSE 0
    BY <1>1, <1>2, <2>1, SubSeqProperties
  <2> QED BY <1>1, <1>2, <2>2, <2>3
<1>4. batch' = batch \o front /\ queue' = back
  BY DEF DrainQueue
<1>5. batch' \in Seq(Record) /\ Len(batch') = Len(batch) + Room
  BY <1>1, <1>3, <1>4, ConcatProperties
<1>6. front \o back = queue
  <2>1. SubSeq(queue, 1, Room) \o SubSeq(queue, Room + 1, Len(queue)) = SubSeq(queue, 1, Len(queue))
    <3>1. 1 \in 1..(Len(queue) + 1) /\ Room \in (1 - 1)..Len(queue) /\ Len(queue) \in Room..Len(queue)
      BY <1>1, <1>2
    <3> QED BY <1>1, <3>1, ConcatAdjacentSubSeq, Zenon
  <2>2. SubSeq(queue, 1, Len(queue)) = queue
    BY <1>1, SubSeqFull
  <2> QED BY <2>1, <2>2
<1> HIDE DEF front, back
<1>7. (batch \o front) \o back = batch \o (front \o back)
  <2>1. batch \in Seq(Record) /\ front \in Seq(Record) /\ back \in Seq(Record)
    BY <1>1, <1>3
  <2>2. \A S : \A s, t, u \in Seq(S) : (s \o t) \o u = s \o (t \o u)
    BY ConcatAssociative
  <2> QED BY <2>1, <2>2
<1>8. batch' \o queue' = batch \o queue
  BY <1>4, <1>6, <1>7, Zenon
<1>9. Len(batch') <= BatchSize /\ Len(queue') <= QueueMax /\ queue' \in Seq(Record)
  BY <1>1, <1>2, <1>3, <1>4, <1>5
<1> QED BY <1>5, <1>8, <1>9, Zenon

-----------------------------------------------------------------------------
(* Type correctness *)

LEMMA NewRowsType ==
    ASSUME TypeOK, NEW n \in 0..Len(batch)
    PROVE  NewRows(n) \subseteq Row
BY DEF TypeOK, NewRows, Row

\* Every step keeps every variable in its range: no batch outgrows batch_size and
\* the queue never exceeds queue_maxsize.
LEMMA TypeStep == TypeOK /\ [Next]_vars => TypeOK'
<1> SUFFICES ASSUME TypeOK, [Next]_vars PROVE TypeOK'
  OBVIOUS
<1> USE BoundsAssumption
<1>1. CASE Emit
  <2>1. queue \in Seq(Record) /\ produced + 1 \in Record
    BY <1>1 DEF Emit, TypeOK, Record
  <2>2. /\ Append(queue, produced + 1) \in Seq(Record)
        /\ Len(Append(queue, produced + 1)) = Len(queue) + 1
    BY <2>1, AppendProperties
  <2>3. queue' \in Seq(Record) /\ Len(queue') <= QueueMax
    BY <1>1, <2>2, LenProperties DEF Emit, TypeOK
  <2>4. produced' \in 0..MaxRecords
    BY <1>1 DEF Emit, TypeOK
  <2> QED BY <1>1, <2>3, <2>4 DEF Emit, TypeOK, writerVars, spoolVars, retryVars, dbVars, procVars
<1>2. CASE WriterPoll
  <2>1. DrainQueue
    BY <1>2 DEF WriterPoll
  <2> QED BY <1>2, <2>1, DrainFacts DEF WriterPoll, TypeOK, Running, queueVars, writerVars, spoolVars, retryVars, dbVars, procVars, WriterPc, RetryPc
<1>3. CASE WriterFlush
  <2>1. DrainQueue
    BY <1>3 DEF WriterFlush
  <2> QED BY <1>3, <2>1, DrainFacts DEF WriterFlush, TypeOK, Running, queueVars, writerVars, spoolVars, retryVars, dbVars, procVars, WriterPc, RetryPc
<1>4. CASE InsertCommits
  BY <1>4 DEF InsertCommits, Inserted, TypeOK, Running, queueVars, writerVars, spoolVars, retryVars, dbVars, procVars, WriterPc, RetryPc
<1>5. CASE InsertAnswers
  BY <1>5 DEF InsertAnswers, TypeOK, Running, queueVars, writerVars, spoolVars, retryVars, dbVars, procVars, WriterPc, RetryPc
<1>6. CASE InsertFails
  BY <1>6 DEF InsertFails, TypeOK, Running, queueVars, writerVars, spoolVars, retryVars, dbVars, procVars, WriterPc, RetryPc
<1>7. CASE SpoolInsert
  BY <1>7 DEF SpoolInsert, NewRows, Row, TypeOK, Running, queueVars, writerVars, spoolVars, retryVars, dbVars, procVars, WriterPc, RetryPc
<1>8. CASE SpoolCommit
  BY <1>8 DEF SpoolCommit, TypeOK, Running, queueVars, writerVars, spoolVars, retryVars, dbVars, procVars, WriterPc, RetryPc
<1>9. CASE SpoolFails
  <2>1. \A n \in 0..(Len(batch) - 1) : NewRows(n) \subseteq Row
    <3>1. \A n \in 0..(Len(batch) - 1) : n \in 0..Len(batch)
      BY DEF TypeOK
    <3> QED BY <3>1, NewRowsType
  <2>2. spool' \subseteq Row
    BY <1>9, <2>1 DEF SpoolFails, TypeOK
  <2> QED BY <1>9, <2>2 DEF SpoolFails, TypeOK, Running, queueVars, writerVars, spoolVars, retryVars, dbVars, procVars, WriterPc, RetryPc
<1>10. CASE RetryIdle
  BY <1>10 DEF RetryIdle, TypeOK, vars, queueVars, writerVars, spoolVars, retryVars, dbVars, procVars
<1>11. CASE RetryDrain
  BY <1>11 DEF RetryDrain, Oldest, TypeOK, Running, queueVars, writerVars, spoolVars, retryVars, dbVars, procVars, WriterPc, RetryPc
<1>12. CASE RetryCommits
  BY <1>12 DEF RetryCommits, Inserted, TypeOK, Running, queueVars, writerVars, spoolVars, retryVars, dbVars, procVars, WriterPc, RetryPc
<1>13. CASE RetryAnswers
  BY <1>13 DEF RetryAnswers, TypeOK, Running, queueVars, writerVars, spoolVars, retryVars, dbVars, procVars, WriterPc, RetryPc
<1>14. CASE RetryInsertFails
  BY <1>14 DEF RetryInsertFails, TypeOK, Running, queueVars, writerVars, spoolVars, retryVars, dbVars, procVars, WriterPc, RetryPc
<1>15. CASE ConfirmDelete
  BY <1>15 DEF ConfirmDelete, TypeOK, Running, queueVars, writerVars, spoolVars, retryVars, dbVars, procVars, WriterPc, RetryPc
<1>16. CASE ConfirmCommit
  BY <1>16 DEF ConfirmCommit, TypeOK, Running, queueVars, writerVars, spoolVars, retryVars, dbVars, procVars, WriterPc, RetryPc
<1>17. CASE PurgeDelete
  BY <1>17 DEF PurgeDelete, TypeOK, Running, queueVars, writerVars, spoolVars, retryVars, dbVars, procVars, WriterPc, RetryPc
<1>18. CASE PurgeCommit
  BY <1>18 DEF PurgeCommit, TypeOK, Running, queueVars, writerVars, spoolVars, retryVars, dbVars, procVars, WriterPc, RetryPc
<1>19. CASE RetrySpoolFails
  BY <1>19 DEF RetrySpoolFails, TypeOK, Running, queueVars, writerVars, spoolVars, retryVars, dbVars, procVars, WriterPc, RetryPc
<1>20. CASE Crash
  BY <1>20 DEF Crash, ProcessEnds, TypeOK, Running, queueVars, writerVars, spoolVars, retryVars, dbVars, procVars, WriterPc, RetryPc
<1>21. CASE Signal
  BY <1>21 DEF Signal, TypeOK, Running, queueVars, writerVars, spoolVars, retryVars, dbVars, procVars, WriterPc, RetryPc
<1>22. CASE Shutdown
  BY <1>22 DEF Shutdown, ProcessEnds, TypeOK, Running, queueVars, writerVars, spoolVars, retryVars, dbVars, procVars, WriterPc, RetryPc
<1>23. CASE Restart
  BY <1>23 DEF Restart, TypeOK, Running, queueVars, writerVars, spoolVars, retryVars, dbVars, procVars, WriterPc, RetryPc
<1>24. CASE DbGoes
  <2>1. dbUp' \in BOOLEAN
    BY <1>24, Zenon DEF DbGoes
  <2>2. outages' \in Nat
    BY <1>24 DEF DbGoes, TypeOK
  <2> QED BY <1>24, <2>1, <2>2, Zenon DEF DbGoes, TypeOK, Running, queueVars, writerVars, spoolVars, retryVars, dbVars, procVars, WriterPc, RetryPc
<1>25. CASE DbReturns
  BY <1>25 DEF DbReturns, TypeOK, Running, queueVars, writerVars, spoolVars, retryVars, dbVars, procVars, WriterPc, RetryPc
<1>26. CASE Age
  BY <1>26 DEF Age, TypeOK, Running, queueVars, writerVars, spoolVars, retryVars, dbVars, procVars, WriterPc, RetryPc
<1>27. CASE UNCHANGED vars
  BY <1>27 DEF TypeOK, vars, queueVars, writerVars, spoolVars, retryVars, dbVars, procVars
<1> QED BY <1>1, <1>2, <1>3, <1>4, <1>5, <1>6, <1>7, <1>8, <1>9, <1>10, <1>11, <1>12, <1>13, <1>14, <1>15, <1>16, <1>17, <1>18, <1>19, <1>20, <1>21, <1>22, <1>23, <1>24, <1>25, <1>26, <1>27
     DEF Next, Writer, Flush, Retry, Replay, Cleanup, Environment

THEOREM TypeCorrect == Spec => []TypeOK
<1>1. Init => TypeOK
  BY BoundsAssumption, EmptySeq DEF Init, TypeOK, WriterPc, RetryPc
<1> QED BY <1>1, TypeStep, PTL DEF Spec

-----------------------------------------------------------------------------
(* The spool *)

LEMMA ConcatMembers ==
    ASSUME NEW b \in Seq(Record), NEW q \in Seq(Record)
    PROVE  Members(b \o q) = Members(b) \cup Members(q)
<1>1. /\ Len(b) \in Nat /\ DOMAIN b = 1..Len(b)
      /\ Len(q) \in Nat /\ DOMAIN q = 1..Len(q)
  BY LenProperties
<1>2. /\ DOMAIN (b \o q) = 1..(Len(b) + Len(q))
      /\ \A i \in 1..(Len(b) + Len(q)) :
           (b \o q)[i] = IF i <= Len(b) THEN b[i] ELSE q[i - Len(b)]
  BY ConcatProperties, LenProperties
<1>3. ASSUME NEW r \in Members(q) PROVE r \in Members(b \o q)
  <2>1. PICK i \in 1..Len(q) : r = q[i]
    BY <1>1, <1>3 DEF Members
  <2>2. (b \o q)[i + Len(b)] = q[i] /\ i + Len(b) \in DOMAIN (b \o q)
    BY <1>1, <1>2
  <2> QED BY <2>1, <2>2 DEF Members
<1>4. ASSUME NEW r \in Members(b) PROVE r \in Members(b \o q)
  BY <1>1, <1>2, <1>4 DEF Members
<1>5. ASSUME NEW r \in Members(b \o q) PROVE r \in Members(b) \cup Members(q)
  <2>1. PICK i \in 1..(Len(b) + Len(q)) : r = (b \o q)[i]
    BY <1>2, <1>5 DEF Members
  <2>2. CASE i <= Len(b)
    BY <1>1, <1>2, <2>1, <2>2 DEF Members
  <2>3. CASE i > Len(b)
    <3>1. r = q[i - Len(b)] /\ i - Len(b) \in 1..Len(q)
      BY <1>1, <1>2, <2>1, <2>3
    <3> QED BY <1>1, <3>1 DEF Members
  <2> QED BY <1>1, <2>2, <2>3
<1> QED BY <1>3, <1>4, <1>5

LEMMA InRecord ==
    ASSUME TypeOK
    PROVE  /\ Members(batch) \subseteq Record /\ Members(queue) \subseteq Record
           /\ RecsOf(spool) \subseteq Record /\ RecsOf(disk) \subseteq Record
           /\ RecsOf(rbatch) \subseteq Record
<1>1. Members(batch) \subseteq Record /\ Members(queue) \subseteq Record
  BY LenProperties, ElementOfSeq DEF TypeOK, Members
<1>2. /\ RecsOf(spool) \subseteq Record /\ RecsOf(disk) \subseteq Record
      /\ RecsOf(rbatch) \subseteq Record
  BY DEF TypeOK, RecsOf, Row
<1> QED BY <1>1, <1>2

LEMMA InsertedStored ==
    ASSUME TypeOK, NEW recs \in SUBSET Record, db' = Inserted(recs)
    PROVE  Stored' = Stored \cup recs
<1>1. \A r \in Record : db[r] \in Nat /\ db'[r] = IF r \in recs THEN db[r] + 1 ELSE db[r]
  BY DEF TypeOK, Inserted
<1> QED BY <1>1 DEF Stored

LEMMA NewRowsFacts ==
    ASSUME TypeOK, NEW n \in 0..Len(batch)
    PROVE  /\ \A x \in NewRows(n) : /\ x.id >= nextId /\ x.id < nextId + Len(batch)
                                    /\ x.rec \in Members(batch)
           /\ \A x, y \in NewRows(n) : x.id = y.id => x = y
BY LenProperties DEF TypeOK, NewRows, Members

LEMMA DrainMembers ==
    ASSUME TypeOK, DrainQueue
    PROVE  Members(batch') \cup Members(queue') = Members(batch) \cup Members(queue)
<1>1. Members(batch' \o queue') = Members(batch') \cup Members(queue')
  BY DrainFacts, ConcatMembers
<1>2. Members(batch \o queue) = Members(batch) \cup Members(queue)
  BY ConcatMembers DEF TypeOK
<1> QED BY <1>1, <1>2, DrainFacts

\* The rows of run_spool_retry and of the open transaction stay accounted for.
LEMMA SpoolStep == TypeOK /\ PipelineOrder /\ SpoolInv /\ [Next]_vars => SpoolInv'
<1> SUFFICES ASSUME TypeOK, PipelineOrder, SpoolInv, [Next]_vars PROVE SpoolInv'
  OBVIOUS
<1> USE BoundsAssumption
<1>1. CASE Emit
  <2>1. /\ Members(queue') \subseteq Members(queue) \cup {produced + 1}
        /\ queue \in Seq(Record) /\ produced' = produced + 1 /\ produced \in Nat
    <3>1. queue \in Seq(Record) /\ produced + 1 \in Record /\ produced \in Nat
      BY <1>1 DEF Emit, TypeOK, Record
    <3>2. /\ Len(Append(queue, produced + 1)) = Len(queue) + 1
          /\ \A i \in 1..Len(queue) : Append(queue, produced + 1)[i] = queue[i]
          /\ Append(queue, produced + 1)[Len(queue) + 1] = produced + 1
          /\ Append(queue, produced + 1) \in Seq(Record)
      BY <3>1, AppendProperties
    <3>3. Members(Append(queue, produced + 1)) \subseteq Members(queue) \cup {produced + 1}
      BY <3>1, <3>2, LenProperties DEF Members
    <3> QED BY <1>1, <3>1, <3>3 DEF Emit
  <2>2. KnownRecords'
    <3>1. Rows' = Rows /\ Stored' = Stored /\ batch' = batch
      BY <1>1 DEF Emit, Rows, Stored, spoolVars, writerVars, retryVars, dbVars
    <3>2. 1..produced \subseteq 1..produced' /\ produced + 1 \in 1..produced'
      BY <2>1
    <3> QED BY <2>1, <3>1, <3>2 DEF SpoolInv, KnownRecords
  <2>3. \A x \in disk : x.rec # produced + 1
    BY <2>1 DEF SpoolInv, KnownRecords, Rows, RecsOf
  <2>4. DeletedAccounted'
    BY <1>1, <2>1, <2>3 DEF Emit, SpoolInv, DeletedAccounted, Stored, Held, Unwritten, Aged, spoolVars, writerVars, retryVars, dbVars, procVars
  <2> QED BY <1>1, <2>2, <2>4 DEF Emit, SpoolInv, IdsFresh, IdsUnique, AnsweredStored, ReplayEmpty, ReplayStored, ReplaySpooled, Stored, Rows, spoolVars, writerVars, retryVars, dbVars, procVars
<1>2. CASE WriterPoll
  <2>1. Members(batch') \cup Members(queue') = Members(batch) \cup Members(queue)
    BY <1>2, DrainMembers DEF WriterPoll
  <2>2. Unwritten' = Unwritten
    BY <1>2, <2>1 DEF WriterPoll, Unwritten
  <2> QED BY <1>2, <2>1, <2>2 DEF WriterPoll, SpoolInv, IdsFresh, IdsUnique, KnownRecords, AnsweredStored, ReplayEmpty, ReplayStored, ReplaySpooled, DeletedAccounted, Stored, Held, Aged, Rows, spoolVars, retryVars, dbVars, procVars
<1>3. CASE WriterFlush
  <2>1. Members(batch') \cup Members(queue') = Members(batch) \cup Members(queue)
    BY <1>3, DrainMembers DEF WriterFlush
  <2>2. Unwritten' = Unwritten
    BY <1>3, <2>1 DEF WriterFlush, Unwritten
  <2> QED BY <1>3, <2>1, <2>2 DEF WriterFlush, SpoolInv, IdsFresh, IdsUnique, KnownRecords, AnsweredStored, ReplayEmpty, ReplayStored, ReplaySpooled, DeletedAccounted, Stored, Held, Aged, Rows, spoolVars, retryVars, dbVars, procVars
<1>4. CASE InsertCommits
  <2>1. Stored' = Stored \cup Members(batch) /\ Stored \subseteq Stored'
    BY <1>4, InsertedStored, InRecord DEF InsertCommits
  <2>2. KnownRecords'
    BY <1>4, <2>1 DEF InsertCommits, SpoolInv, KnownRecords, Rows, RecsOf, queueVars, spoolVars, writerVars, retryVars
  <2>3. AnsweredStored' /\ ReplayStored'
    BY <1>4, <2>1 DEF InsertCommits, SpoolInv, AnsweredStored, ReplayStored, queueVars, spoolVars, writerVars, retryVars
  <2>4. DeletedAccounted'
    BY <1>4, <2>1 DEF InsertCommits, SpoolInv, DeletedAccounted, Held, Unwritten, Aged, queueVars, spoolVars, writerVars, retryVars, procVars
  <2> QED BY <1>4, <2>2, <2>3, <2>4 DEF InsertCommits, SpoolInv, IdsFresh, IdsUnique, ReplayEmpty, ReplaySpooled, Rows, queueVars, spoolVars, writerVars, retryVars, procVars
<1>5. CASE InsertAnswers
  BY <1>5 DEF InsertAnswers, SpoolInv, IdsFresh, IdsUnique, KnownRecords, AnsweredStored, ReplayEmpty, ReplayStored, ReplaySpooled, DeletedAccounted, TypeOK, Stored, Held, Unwritten, Aged, Rows, RecsOf, Members, Running, queueVars, writerVars, spoolVars, retryVars, dbVars, procVars
<1>6. CASE InsertFails
  <2>1. Unwritten' = Unwritten
    BY <1>6 DEF InsertFails, Unwritten, queueVars
  <2> QED BY <1>6, <2>1 DEF InsertFails, SpoolInv, IdsFresh, IdsUnique, KnownRecords, AnsweredStored, ReplayEmpty, ReplayStored, ReplaySpooled, DeletedAccounted, Stored, Held, Aged, Rows, queueVars, spoolVars, retryVars, dbVars, procVars
<1>7. CASE SpoolInsert
  <2>1. PICK n \in 0..Len(batch) : spool' \subseteq spool \cup disk \cup NewRows(n)
    BY <1>7 DEF SpoolInsert, TypeOK
  <2>2. /\ \A x \in NewRows(n) : x.id >= nextId /\ x.id < nextId + Len(batch) /\ x.rec \in Members(batch)
        /\ \A x, y \in NewRows(n) : x.id = y.id => x = y
    BY <2>1, NewRowsFacts
  <2>3. Rows' \subseteq Rows \cup NewRows(n) /\ nextId' = nextId + Len(batch)
    BY <1>7, <2>1 DEF SpoolInsert, Rows, retryVars
  <2>4. \A x \in Rows : x.id \in Nat
    BY DEF TypeOK, Rows, Row
  <2>5. nextId \in Nat /\ Len(batch) \in Nat
    BY DEF TypeOK
  <2>6. IdsFresh' /\ IdsUnique'
    <3>1. IdsFresh'
      BY <2>2, <2>3, <2>4, <2>5 DEF SpoolInv, IdsFresh
    <3>2. ASSUME NEW x \in Rows', NEW y \in Rows', x.id = y.id PROVE x = y
      <4>1. (x \in Rows /\ y \in Rows) \/ (x \in NewRows(n) /\ y \in NewRows(n))
        BY <2>2, <2>3, <2>4, <2>5, <3>2 DEF SpoolInv, IdsFresh
      <4> QED BY <2>2, <3>2, <4>1 DEF SpoolInv, IdsUnique
    <3> QED BY <3>1, <3>2 DEF IdsUnique
  <2>7. KnownRecords'
    <3>1. RecsOf(Rows') \subseteq RecsOf(Rows) \cup Members(batch)
      BY <2>2, <2>3 DEF RecsOf
    <3>2. Members(batch') \subseteq Members(batch) /\ Members(queue') = Members(queue)
      BY <1>7 DEF SpoolInsert, Members, queueVars
    <3> QED BY <1>7, <3>1, <3>2 DEF SpoolInsert, SpoolInv, KnownRecords, Stored, dbVars, queueVars
  <2>8. DeletedAccounted'
    <3>1. RecsOf(spool') \subseteq RecsOf(spool) \cup Members(batch)
      <4>1. spool' = spool \cup NewRows(Len(batch)) /\ Len(batch) \in 0..Len(batch)
        BY <1>7, <2>5 DEF SpoolInsert
      <4> QED BY <4>1, NewRowsFacts DEF RecsOf
    <3>2. Held' \subseteq Held
      BY <1>7, <3>1 DEF SpoolInsert, Held, Unwritten, queueVars, retryVars
    <3> QED BY <1>7, <3>2 DEF SpoolInsert, SpoolInv, DeletedAccounted, Stored, Aged, dbVars, procVars
  <2> QED BY <1>7, <2>6, <2>7, <2>8 DEF SpoolInsert, SpoolInv, AnsweredStored, ReplayEmpty, ReplayStored, ReplaySpooled, Stored, dbVars, retryVars
<1>8. CASE SpoolCommit
  BY <1>8 DEF SpoolCommit, SpoolInv, IdsFresh, IdsUnique, KnownRecords, AnsweredStored, ReplayEmpty, ReplayStored, ReplaySpooled, DeletedAccounted, TypeOK, Stored, Held, Unwritten, Aged, Rows, RecsOf, Members, Running, queueVars, writerVars, spoolVars, retryVars, dbVars, procVars
<1>9. CASE SpoolFails
  <2>0. 0 \in 0..Len(batch) /\ \A k \in 0..(Len(batch) - 1) : k \in 0..Len(batch)
    BY DEF TypeOK
  <2>1. PICK n \in 0..Len(batch) : spool' \subseteq spool \cup disk \cup NewRows(n)
    BY <1>9, <2>0 DEF SpoolFails
  <2>2. /\ \A x \in NewRows(n) : x.id >= nextId /\ x.id < nextId + Len(batch) /\ x.rec \in Members(batch)
        /\ \A x, y \in NewRows(n) : x.id = y.id => x = y
    BY <2>1, NewRowsFacts
  <2>3. Rows' \subseteq Rows \cup NewRows(n) /\ nextId' = nextId + Len(batch)
    BY <1>9, <2>1 DEF SpoolFails, Rows, retryVars
  <2>4. \A x \in Rows : x.id \in Nat
    BY DEF TypeOK, Rows, Row
  <2>5. nextId \in Nat /\ Len(batch) \in Nat
    BY DEF TypeOK
  <2>6. IdsFresh' /\ IdsUnique'
    <3>1. IdsFresh'
      BY <2>2, <2>3, <2>4, <2>5 DEF SpoolInv, IdsFresh
    <3>2. ASSUME NEW x \in Rows', NEW y \in Rows', x.id = y.id PROVE x = y
      <4>1. (x \in Rows /\ y \in Rows) \/ (x \in NewRows(n) /\ y \in NewRows(n))
        BY <2>2, <2>3, <2>4, <2>5, <3>2 DEF SpoolInv, IdsFresh
      <4> QED BY <2>2, <3>2, <4>1 DEF SpoolInv, IdsUnique
    <3> QED BY <3>1, <3>2 DEF IdsUnique
  <2>7. KnownRecords'
    <3>1. RecsOf(Rows') \subseteq RecsOf(Rows) \cup Members(batch)
      BY <2>2, <2>3 DEF RecsOf
    <3>2. Members(batch') \subseteq Members(batch) /\ Members(queue') = Members(queue)
      BY <1>9 DEF SpoolFails, Members, queueVars
    <3> QED BY <1>9, <3>1, <3>2 DEF SpoolFails, SpoolInv, KnownRecords, Stored, dbVars, queueVars
  <2>8. DeletedAccounted'
    <3>1. CASE spool' = disk
      BY <1>9, <3>1 DEF SpoolFails, DeletedAccounted
    <3>2. CASE wpc = "commit" /\ spool' = spool
      <4>1. Held' \subseteq Held
        BY <1>9, <3>2 DEF SpoolFails, Held, Unwritten, Members, queueVars, retryVars
      <4> QED BY <1>9, <3>2, <4>1 DEF SpoolFails, SpoolInv, DeletedAccounted, Stored, Aged, dbVars, procVars
    <3>3. ASSUME wpc = "spool", NEW k \in 0..(Len(batch) - 1), spool' = spool \cup NewRows(k)
          PROVE  DeletedAccounted'
      <4>1. RecsOf(spool') \subseteq RecsOf(spool) \cup Members(batch)
        <5>1. k \in 0..Len(batch)
          BY <2>5
        <5> QED BY <3>3, <5>1, NewRowsFacts DEF RecsOf
      <4>2. Held' \subseteq Held
        <5>1. Members(batch') = {}
          BY <1>9 DEF SpoolFails, Members
        <5> QED BY <1>9, <3>3, <4>1, <5>1 DEF SpoolFails, Held, Unwritten, queueVars, retryVars
      <4> QED BY <1>9, <3>3, <4>2 DEF SpoolFails, SpoolInv, DeletedAccounted, Stored, Aged, dbVars, procVars
    <3> QED BY <1>9, <3>1, <3>2, <3>3 DEF SpoolFails
  <2>9. faults' # 0
    BY <1>9 DEF SpoolFails, TypeOK
  <2> QED BY <1>9, <2>6, <2>7, <2>8, <2>9 DEF SpoolFails, SpoolInv, AnsweredStored, ReplayEmpty, ReplayStored, ReplaySpooled, Stored, dbVars, retryVars
<1>10. CASE RetryIdle
  BY <1>10 DEF RetryIdle, SpoolInv, IdsFresh, IdsUnique, KnownRecords, AnsweredStored, ReplayEmpty, ReplayStored, ReplaySpooled, DeletedAccounted, Stored, Held, Unwritten, Aged, Rows, vars, queueVars, writerVars, spoolVars, retryVars, dbVars, procVars
<1>11. CASE RetryDrain
  <2>1. Oldest \subseteq spool
    BY DEF Oldest
  <2>2. Rows' = Rows /\ Held' = Held
    BY <1>11, <2>1 DEF RetryDrain, SpoolInv, ReplayEmpty, Rows, Held, Unwritten, RecsOf, queueVars, spoolVars, writerVars
  <2> QED BY <1>11, <2>1, <2>2 DEF RetryDrain, SpoolInv, IdsFresh, IdsUnique, KnownRecords, AnsweredStored, ReplayEmpty, ReplayStored, ReplaySpooled, DeletedAccounted, Stored, Aged, queueVars, spoolVars, writerVars, dbVars, procVars
<1>12. CASE RetryCommits
  <2>1. Stored' = Stored \cup RecsOf(rbatch) /\ Stored \subseteq Stored'
    BY <1>12, InsertedStored, InRecord DEF RetryCommits
  <2>2. KnownRecords'
    BY <1>12, <2>1 DEF RetryCommits, SpoolInv, KnownRecords, Rows, RecsOf, queueVars, spoolVars, writerVars, retryVars
  <2>3. AnsweredStored' /\ ReplayStored'
    BY <1>12, <2>1 DEF RetryCommits, SpoolInv, AnsweredStored, ReplayStored, queueVars, spoolVars, writerVars, retryVars
  <2>4. DeletedAccounted'
    BY <1>12, <2>1 DEF RetryCommits, SpoolInv, DeletedAccounted, Held, Unwritten, Aged, queueVars, spoolVars, writerVars, retryVars, procVars
  <2> QED BY <1>12, <2>2, <2>3, <2>4 DEF RetryCommits, SpoolInv, IdsFresh, IdsUnique, ReplayEmpty, ReplaySpooled, Rows, queueVars, spoolVars, writerVars, retryVars, procVars
<1>13. CASE RetryAnswers
  BY <1>13 DEF RetryAnswers, SpoolInv, IdsFresh, IdsUnique, KnownRecords, AnsweredStored, ReplayEmpty, ReplayStored, ReplaySpooled, DeletedAccounted, TypeOK, Stored, Held, Unwritten, Aged, Rows, RecsOf, Members, Running, queueVars, writerVars, spoolVars, retryVars, dbVars, procVars
<1>14. CASE RetryInsertFails
  BY <1>14 DEF RetryInsertFails, SpoolInv, IdsFresh, IdsUnique, KnownRecords, AnsweredStored, ReplayEmpty, ReplayStored, ReplaySpooled, DeletedAccounted, TypeOK, Stored, Held, Unwritten, Aged, Rows, RecsOf, Members, Running, queueVars, writerVars, spoolVars, retryVars, dbVars, procVars
<1>15. CASE ConfirmDelete
  BY <1>15 DEF ConfirmDelete, IdsOf, SpoolInv, IdsFresh, IdsUnique, KnownRecords, AnsweredStored, ReplayEmpty, ReplayStored, ReplaySpooled, DeletedAccounted, TypeOK, Stored, Held, Unwritten, Aged, Rows, RecsOf, Members, Running, queueVars, writerVars, spoolVars, retryVars, dbVars, procVars
<1>16. CASE ConfirmCommit
  BY <1>16 DEF ConfirmCommit, SpoolInv, IdsFresh, IdsUnique, KnownRecords, AnsweredStored, ReplayEmpty, ReplayStored, ReplaySpooled, DeletedAccounted, TypeOK, Stored, Held, Unwritten, Aged, Rows, RecsOf, Members, Running, queueVars, writerVars, spoolVars, retryVars, dbVars, procVars
<1>17. CASE PurgeDelete
  <2>1. Rows' = Rows \ (spool \ (spool' \cup disk)) /\ Rows' \subseteq Rows /\ Held' \subseteq Held
    BY <1>17 DEF PurgeDelete, SpoolInv, ReplayEmpty, Rows, Held, Unwritten, RecsOf, queueVars, writerVars
  <2>2. ASSUME NEW x \in disk, x.rec \in Aged PROVE x.rec \notin Held'
    <3>1. x.rec \notin RecsOf(spool')
      BY <1>17, <2>2 DEF PurgeDelete, RecsOf
    <3>2. RecsOf(rbatch') = {}
      BY <1>17 DEF PurgeDelete, SpoolInv, ReplayEmpty, RecsOf
    <3>3. x.rec \notin Unwritten
      BY <2>2 DEF PipelineOrder, Rows, TypeOK, Row, Record
    <3> QED BY <1>17, <3>1, <3>2, <3>3 DEF PurgeDelete, Held, Unwritten, queueVars, writerVars
  <2>3. DeletedAccounted'
    BY <1>17, <2>1, <2>2 DEF PurgeDelete, SpoolInv, DeletedAccounted, Stored, Aged, dbVars, procVars
  <2>4. KnownRecords'
    BY <1>17, <2>1 DEF PurgeDelete, SpoolInv, KnownRecords, Stored, RecsOf, queueVars, writerVars, dbVars
  <2> QED BY <1>17, <2>1, <2>3, <2>4 DEF PurgeDelete, SpoolInv, IdsFresh, IdsUnique, AnsweredStored, ReplayEmpty, ReplayStored, ReplaySpooled, Stored, writerVars, dbVars
<1>18. CASE PurgeCommit
  BY <1>18 DEF PurgeCommit, SpoolInv, IdsFresh, IdsUnique, KnownRecords, AnsweredStored, ReplayEmpty, ReplayStored, ReplaySpooled, DeletedAccounted, TypeOK, Stored, Held, Unwritten, Aged, Rows, RecsOf, Members, Running, queueVars, writerVars, spoolVars, retryVars, dbVars, procVars
<1>19. CASE RetrySpoolFails
  BY <1>19 DEF RetrySpoolFails, SpoolInv, IdsFresh, IdsUnique, KnownRecords, AnsweredStored, ReplayEmpty, ReplayStored, ReplaySpooled, DeletedAccounted, TypeOK, Stored, Held, Unwritten, Aged, Rows, RecsOf, Members, Running, queueVars, writerVars, spoolVars, retryVars, dbVars, procVars
<1>20. CASE Crash
  BY <1>20 DEF Crash, ProcessEnds, SpoolInv, IdsFresh, IdsUnique, KnownRecords, AnsweredStored, ReplayEmpty, ReplayStored, ReplaySpooled, DeletedAccounted, TypeOK, Stored, Held, Unwritten, Aged, Rows, RecsOf, Members, Running, queueVars, writerVars, spoolVars, retryVars, dbVars, procVars
<1>21. CASE Signal
  BY <1>21 DEF Signal, SpoolInv, IdsFresh, IdsUnique, KnownRecords, AnsweredStored, ReplayEmpty, ReplayStored, ReplaySpooled, DeletedAccounted, TypeOK, Stored, Held, Unwritten, Aged, Rows, RecsOf, Members, Running, queueVars, writerVars, spoolVars, retryVars, dbVars, procVars
<1>22. CASE Shutdown
  BY <1>22 DEF Shutdown, ProcessEnds, SpoolInv, IdsFresh, IdsUnique, KnownRecords, AnsweredStored, ReplayEmpty, ReplayStored, ReplaySpooled, DeletedAccounted, TypeOK, Stored, Held, Unwritten, Aged, Rows, RecsOf, Members, Running, queueVars, writerVars, spoolVars, retryVars, dbVars, procVars
<1>23. CASE Restart
  BY <1>23 DEF Restart, SpoolInv, IdsFresh, IdsUnique, KnownRecords, AnsweredStored, ReplayEmpty, ReplayStored, ReplaySpooled, DeletedAccounted, TypeOK, Stored, Held, Unwritten, Aged, Rows, RecsOf, Members, Running, queueVars, writerVars, spoolVars, retryVars, dbVars, procVars
<1>24. CASE DbGoes
  BY <1>24 DEF DbGoes, SpoolInv, IdsFresh, IdsUnique, KnownRecords, AnsweredStored, ReplayEmpty, ReplayStored, ReplaySpooled, DeletedAccounted, TypeOK, Stored, Held, Unwritten, Aged, Rows, RecsOf, Members, Running, queueVars, writerVars, spoolVars, retryVars, dbVars, procVars
<1>25. CASE DbReturns
  BY <1>25 DEF DbReturns, SpoolInv, IdsFresh, IdsUnique, KnownRecords, AnsweredStored, ReplayEmpty, ReplayStored, ReplaySpooled, DeletedAccounted, TypeOK, Stored, Held, Unwritten, Aged, Rows, RecsOf, Members, Running, queueVars, writerVars, spoolVars, retryVars, dbVars, procVars
<1>26. CASE Age
  BY <1>26 DEF Age, SpoolInv, IdsFresh, IdsUnique, KnownRecords, AnsweredStored, ReplayEmpty, ReplayStored, ReplaySpooled, DeletedAccounted, TypeOK, Stored, Held, Unwritten, Aged, Rows, RecsOf, Members, Running, queueVars, writerVars, spoolVars, retryVars, dbVars, procVars
<1>27. CASE UNCHANGED vars
  BY <1>27 DEF SpoolInv, IdsFresh, IdsUnique, KnownRecords, AnsweredStored, ReplayEmpty, ReplayStored, ReplaySpooled, DeletedAccounted, Stored, Held, Unwritten, Aged, Rows, vars, queueVars, writerVars, spoolVars, retryVars, dbVars, procVars
<1> QED BY <1>1, <1>2, <1>3, <1>4, <1>5, <1>6, <1>7, <1>8, <1>9, <1>10, <1>11, <1>12, <1>13, <1>14, <1>15, <1>16, <1>17, <1>18, <1>19, <1>20, <1>21, <1>22, <1>23, <1>24, <1>25, <1>26, <1>27
     DEF Next, Writer, Flush, Retry, Replay, Cleanup, Environment

-----------------------------------------------------------------------------
(* The order of records *)

LEMMA IncreasingParts ==
    ASSUME NEW b \in Seq(Record), NEW q \in Seq(Record)
    PROVE  Increasing(b \o q) <=> /\ Increasing(b) /\ Increasing(q)
                                  /\ \A r \in Members(b), t \in Members(q) : r < t
<1>1. /\ Len(b) \in Nat /\ DOMAIN b = 1..Len(b)
      /\ Len(q) \in Nat /\ DOMAIN q = 1..Len(q)
  BY LenProperties
<1>2. /\ DOMAIN (b \o q) = 1..(Len(b) + Len(q))
      /\ \A i \in 1..(Len(b) + Len(q)) :
           (b \o q)[i] = IF i <= Len(b) THEN b[i] ELSE q[i - Len(b)]
  BY ConcatProperties, LenProperties
<1> HIDE DEF Increasing, Members
<1>3. ASSUME Increasing(b \o q)
      PROVE  /\ Increasing(b) /\ Increasing(q)
             /\ \A r \in Members(b), t \in Members(q) : r < t
  <2>1. Increasing(b)
    BY <1>1, <1>2, <1>3 DEF Increasing
  <2>2. \A j \in DOMAIN q : /\ j + Len(b) \in DOMAIN (b \o q)
                            /\ (b \o q)[j + Len(b)] = q[j]
    BY <1>1, <1>2
  <2>3. Increasing(q)
    <3> SUFFICES ASSUME NEW i \in DOMAIN q, NEW j \in DOMAIN q, i < j
                 PROVE  q[i] < q[j]
      BY DEF Increasing
    <3>1. i + Len(b) < j + Len(b)
      BY <1>1
    <3> QED BY <1>3, <2>2, <3>1 DEF Increasing
  <2>4. ASSUME NEW i \in DOMAIN b, NEW j \in DOMAIN q PROVE b[i] < q[j]
    <3>1. i \in DOMAIN (b \o q) /\ (b \o q)[i] = b[i] /\ i < j + Len(b)
      BY <1>1, <1>2
    <3> QED BY <1>3, <2>2, <3>1 DEF Increasing
  <2> QED BY <2>1, <2>3, <2>4 DEF Members
<1>4. ASSUME Increasing(b), Increasing(q), \A r \in Members(b), t \in Members(q) : r < t
      PROVE  Increasing(b \o q)
  <2> SUFFICES ASSUME NEW i \in DOMAIN (b \o q), NEW j \in DOMAIN (b \o q), i < j
               PROVE  (b \o q)[i] < (b \o q)[j]
    BY DEF Increasing
  <2>1. CASE j <= Len(b)
    BY <1>1, <1>2, <1>4, <2>1 DEF Increasing
  <2>2. CASE i > Len(b)
    <3>1. /\ i - Len(b) \in DOMAIN q /\ j - Len(b) \in DOMAIN q
          /\ i - Len(b) < j - Len(b)
          /\ (b \o q)[i] = q[i - Len(b)] /\ (b \o q)[j] = q[j - Len(b)]
      BY <1>1, <1>2, <2>2
    <3> QED BY <1>4, <3>1 DEF Increasing
  <2>3. CASE i <= Len(b) /\ j > Len(b)
    <3>1. /\ i \in DOMAIN b /\ (b \o q)[i] = b[i]
          /\ j - Len(b) \in DOMAIN q /\ (b \o q)[j] = q[j - Len(b)]
      BY <1>1, <1>2, <2>3
    <3> QED BY <1>4, <3>1 DEF Members
  <2> QED BY <1>1, <1>2, <2>1, <2>2, <2>3
<1> QED BY <1>3, <1>4

LEMMA IncreasingAppend ==
    ASSUME NEW q \in Seq(Record), NEW n \in Record, Increasing(q), \A r \in Members(q) : r < n
    PROVE  /\ Increasing(Append(q, n)) /\ Append(q, n) \in Seq(Record)
           /\ Members(Append(q, n)) = Members(q) \cup {n}
<1>1. /\ Len(q) \in Nat /\ DOMAIN q = 1..Len(q)
      /\ Append(q, n) \in Seq(Record) /\ DOMAIN Append(q, n) = 1..(Len(q) + 1)
      /\ \A i \in 1..Len(q) : Append(q, n)[i] = q[i]
      /\ Append(q, n)[Len(q) + 1] = n
  BY AppendProperties, LenProperties
<1>2. Members(Append(q, n)) = Members(q) \cup {n}
  BY <1>1 DEF Members
<1>3. ASSUME NEW i \in 1..(Len(q) + 1), NEW j \in 1..(Len(q) + 1), i < j
      PROVE  Append(q, n)[i] < Append(q, n)[j]
  <2>1. i \in 1..Len(q) /\ q[i] \in Members(q)
    BY <1>1, <1>3 DEF Members
  <2>2. CASE j <= Len(q)
    BY <1>1, <1>3, <2>1, <2>2 DEF Increasing
  <2>3. CASE j = Len(q) + 1
    BY <1>1, <2>1, <2>3
  <2> QED BY <1>1, <2>2, <2>3
<1> QED BY <1>1, <1>2, <1>3 DEF Increasing

LEMMA IncreasingEmpty ==
    ASSUME NEW q \in Seq(Record), Increasing(q)
    PROVE  Increasing(<<>> \o q)
BY ConcatEmptySeq

\* A step that brings neither rows nor records keeps their order.
LEMMA OrderShrinks ==
    ASSUME TypeOK, PipelineOrder, Rows' \subseteq Rows, Unwritten' \subseteq Unwritten,
           \/ batch' = batch /\ queue' = queue
           \/ batch' = <<>> /\ queue' \in {queue, <<>>}
    PROVE  PipelineOrder'
<1>1. Increasing(batch' \o queue')
  <2>1. batch \in Seq(Record) /\ queue \in Seq(Record) /\ <<>> \in Seq(Record)
    BY EmptySeq DEF TypeOK
  <2>2. Increasing(queue) /\ Increasing(<<>>)
    <3>1. Increasing(queue)
      BY <2>1, IncreasingParts DEF PipelineOrder
    <3>2. Increasing(<<>>)
      BY DEF Increasing
    <3> QED BY <3>1, <3>2
  <2>3. Increasing(<<>> \o queue) /\ Increasing(<<>> \o <<>>)
    BY <2>1, <2>2, IncreasingEmpty
  <2> QED BY <2>3 DEF PipelineOrder
<1> QED BY <1>1 DEF PipelineOrder

\* The rows a batch adds to the spool come after every row before them, and before
\* what is still in the queue.
LEMMA OrderSpooled ==
    ASSUME TypeOK, SpoolInv, PipelineOrder, wpc = "spool", NEW n \in 0..Len(batch),
           Rows' \subseteq Rows \cup NewRows(n), Unwritten' = Members(queue),
           batch' \in {batch, <<>>}, queue' = queue
    PROVE  PipelineOrder'
<1> DEFINE new == NewRows(n)
<1>1. /\ batch \in Seq(Record) /\ queue \in Seq(Record) /\ nextId \in Nat
      /\ Len(batch) \in Nat /\ DOMAIN batch = 1..Len(batch)
  BY LenProperties DEF TypeOK
<1>2. /\ Increasing(batch) /\ Increasing(queue)
      /\ \A r \in Members(batch), t \in Members(queue) : r < t
  BY <1>1, IncreasingParts DEF PipelineOrder
<1>3. Unwritten = Members(queue) \cup Members(batch)
  BY DEF Unwritten
<1>4. \A x \in new : x.id >= nextId /\ x.rec \in Members(batch)
  BY NewRowsFacts
<1>5. \A x \in Rows : x.id \in Nat /\ x.id < nextId
  BY DEF SpoolInv, IdsFresh, TypeOK, Rows, Row
<1>6. /\ \A x, y \in new : x.id < y.id => x.rec < y.rec
      /\ \A x \in new : x.id \in Nat
  <2>1. ASSUME NEW i \in 1..n, NEW j \in 1..n, nextId + i - 1 < nextId + j - 1
        PROVE  batch[i] < batch[j]
    <3>1. i < j /\ i \in DOMAIN batch /\ j \in DOMAIN batch
      BY <1>1, <2>1
    <3> QED BY <1>2, <3>1 DEF Increasing
  <2>2. \A i \in 1..n : nextId + i - 1 \in Nat
    BY <1>1
  <2> QED BY <2>1, <2>2 DEF NewRows
<1> HIDE DEF new
<1>7. ASSUME NEW x \in Rows \cup new, NEW y \in Rows \cup new, x.id < y.id
      PROVE  x.rec < y.rec
  <2>1. CASE x \in Rows /\ y \in Rows
    BY <1>7, <2>1 DEF PipelineOrder
  <2>2. CASE x \in Rows /\ y \in new
    BY <1>3, <1>4, <2>2 DEF PipelineOrder
  <2>3. CASE x \in new /\ y \in new
    BY <1>6, <1>7, <2>3
  <2>4. CASE x \in new /\ y \in Rows
    BY <1>1, <1>4, <1>5, <1>6, <1>7, <2>4
  <2> QED BY <2>1, <2>2, <2>3, <2>4
<1>8. \A x \in Rows \cup new, r \in Members(queue) : x.rec < r
  BY <1>2, <1>3, <1>4 DEF PipelineOrder
<1>9. Increasing(batch' \o queue')
  <2>1. Increasing(<<>> \o queue)
    BY <1>1, <1>2, IncreasingEmpty
  <2> QED BY <2>1 DEF PipelineOrder
<1>10. Rows' \subseteq Rows \cup new
  BY DEF new
<1> QED BY <1>7, <1>8, <1>9, <1>10 DEF PipelineOrder

\* Every step keeps records in the order of production and row ids in that order.
LEMMA OrderStep == TypeOK /\ SpoolInv /\ PipelineOrder /\ [Next]_vars => PipelineOrder'
<1> SUFFICES ASSUME TypeOK, SpoolInv, PipelineOrder, [Next]_vars PROVE PipelineOrder'
  OBVIOUS
<1>1. CASE Emit
  <2>1. /\ batch \in Seq(Record) /\ queue \in Seq(Record) /\ produced \in Nat
        /\ produced + 1 \in Record
    BY <1>1, BoundsAssumption DEF Emit, TypeOK, Record
  <2>2. /\ \A r \in Members(batch) \cup Members(queue) : r < produced + 1
        /\ \A x \in Rows : x.rec < produced + 1
    <3>1. \A r \in 1..produced : r < produced + 1
      BY <2>1
    <3>2. /\ Members(batch) \cup Members(queue) \subseteq 1..produced
          /\ \A x \in Rows : x.rec \in 1..produced
      BY DEF SpoolInv, KnownRecords, RecsOf
    <3> QED BY <3>1, <3>2
  <2>3. /\ Increasing(batch) /\ Increasing(queue)
        /\ \A r \in Members(batch), t \in Members(queue) : r < t
    BY <2>1, IncreasingParts DEF PipelineOrder
  <2>4. /\ Increasing(Append(queue, produced + 1)) /\ Append(queue, produced + 1) \in Seq(Record)
        /\ Members(Append(queue, produced + 1)) = Members(queue) \cup {produced + 1}
    BY <2>1, <2>2, <2>3, IncreasingAppend
  <2>5. Increasing(batch' \o queue') /\ Unwritten' \subseteq Unwritten \cup {produced + 1}
    <3>1. Increasing(batch \o Append(queue, produced + 1))
      BY <2>1, <2>2, <2>3, <2>4, IncreasingParts
    <3> QED BY <1>1, <2>4, <3>1 DEF Emit, PipelineOrder, Unwritten, writerVars
  <2>6. Rows' = Rows
    BY <1>1 DEF Emit, Rows, spoolVars, retryVars
  <2> QED BY <2>2, <2>5, <2>6 DEF PipelineOrder
<1>2. CASE WriterPoll
  <2>1. batch' \o queue' = batch \o queue
    BY <1>2, DrainFacts DEF WriterPoll
  <2>2. Unwritten' = Unwritten
    BY <1>2, DrainMembers DEF WriterPoll, Unwritten
  <2>3. Rows' = Rows
    BY <1>2 DEF WriterPoll, Rows, spoolVars, retryVars
  <2> QED BY <2>1, <2>2, <2>3 DEF PipelineOrder
<1>3. CASE WriterFlush
  <2>1. batch' \o queue' = batch \o queue
    BY <1>3, DrainFacts DEF WriterFlush
  <2>2. Unwritten' = Unwritten
    BY <1>3, DrainMembers DEF WriterFlush, Unwritten
  <2>3. Rows' = Rows
    BY <1>3 DEF WriterFlush, Rows, spoolVars, retryVars
  <2> QED BY <2>1, <2>2, <2>3 DEF PipelineOrder
<1>4. CASE InsertCommits
  <2>1. Rows' \subseteq Rows /\ Unwritten' \subseteq Unwritten
    BY <1>4 DEF InsertCommits, Rows, Unwritten, queueVars, writerVars, spoolVars, retryVars, dbVars, procVars
  <2> QED BY <1>4, <2>1, OrderShrinks DEF InsertCommits, queueVars, writerVars
<1>5. CASE InsertAnswers
  <2>1. Rows' \subseteq Rows /\ Unwritten' \subseteq Unwritten
    BY <1>5 DEF InsertAnswers, Rows, Unwritten, Members, queueVars, writerVars, spoolVars, retryVars, dbVars, procVars
  <2> QED BY <1>5, <2>1, OrderShrinks DEF InsertAnswers, queueVars, writerVars
<1>6. CASE InsertFails
  <2>1. Rows' \subseteq Rows /\ Unwritten' \subseteq Unwritten
    BY <1>6 DEF InsertFails, Rows, Unwritten, queueVars, writerVars, spoolVars, retryVars, dbVars, procVars
  <2> QED BY <1>6, <2>1, OrderShrinks DEF InsertFails, queueVars, writerVars
<1>7. CASE SpoolInsert
  <2>1. Rows' = Rows \cup NewRows(Len(batch)) /\ Unwritten' = Members(queue)
    BY <1>7 DEF SpoolInsert, Rows, Unwritten, queueVars, retryVars
  <2>2. Len(batch) \in 0..Len(batch)
    BY DEF TypeOK
  <2> QED BY <1>7, <2>1, <2>2, OrderSpooled DEF SpoolInsert, queueVars
<1>8. CASE SpoolCommit
  <2>1. Rows' \subseteq Rows /\ Unwritten' \subseteq Unwritten
    BY <1>8 DEF SpoolCommit, Rows, Unwritten, Members, queueVars, writerVars, spoolVars, retryVars, dbVars, procVars
  <2> QED BY <1>8, <2>1, OrderShrinks DEF SpoolCommit, queueVars, writerVars
<1>9. CASE SpoolFails
  <2>1. Members(batch') = {} /\ queue' = queue /\ batch' = <<>> /\ Unwritten' = Members(queue)
    BY <1>9 DEF SpoolFails, Members, Unwritten, queueVars
  <2>2. CASE spool' \in {spool, disk}
    <3>1. Rows' \subseteq Rows /\ Unwritten' \subseteq Unwritten
      BY <1>9, <2>1, <2>2 DEF SpoolFails, Rows, Unwritten, retryVars
    <3> QED BY <2>1, <3>1, OrderShrinks
  <2>3. ASSUME wpc = "spool", NEW n \in 0..(Len(batch) - 1), spool' = spool \cup NewRows(n)
        PROVE  PipelineOrder'
    <3>1. n \in 0..Len(batch) /\ Rows' \subseteq Rows \cup NewRows(n)
      BY <1>9, <2>3 DEF SpoolFails, TypeOK, Rows, retryVars
    <3> QED BY <2>1, <2>3, <3>1, OrderSpooled
  <2> QED BY <1>9, <2>2, <2>3 DEF SpoolFails
<1>10. CASE RetryIdle
  BY <1>10, OrderShrinks DEF RetryIdle, Rows, Unwritten, vars, queueVars, writerVars, spoolVars, retryVars, dbVars, procVars
<1>11. CASE RetryDrain
  <2>1. Rows' \subseteq Rows /\ Unwritten' \subseteq Unwritten
    BY <1>11 DEF RetryDrain, Oldest, Rows, Unwritten, queueVars, writerVars, spoolVars, retryVars, dbVars, procVars
  <2> QED BY <1>11, <2>1, OrderShrinks DEF RetryDrain, Oldest, queueVars, writerVars
<1>12. CASE RetryCommits
  <2>1. Rows' \subseteq Rows /\ Unwritten' \subseteq Unwritten
    BY <1>12 DEF RetryCommits, Rows, Unwritten, queueVars, writerVars, spoolVars, retryVars, dbVars, procVars
  <2> QED BY <1>12, <2>1, OrderShrinks DEF RetryCommits, queueVars, writerVars
<1>13. CASE RetryAnswers
  <2>1. Rows' \subseteq Rows /\ Unwritten' \subseteq Unwritten
    BY <1>13 DEF RetryAnswers, Rows, Unwritten, queueVars, writerVars, spoolVars, retryVars, dbVars, procVars
  <2> QED BY <1>13, <2>1, OrderShrinks DEF RetryAnswers, queueVars, writerVars
<1>14. CASE RetryInsertFails
  <2>1. Rows' \subseteq Rows /\ Unwritten' \subseteq Unwritten
    BY <1>14 DEF RetryInsertFails, Rows, Unwritten, queueVars, writerVars, spoolVars, retryVars, dbVars, procVars
  <2> QED BY <1>14, <2>1, OrderShrinks DEF RetryInsertFails, queueVars, writerVars
<1>15. CASE ConfirmDelete
  <2>1. Rows' \subseteq Rows /\ Unwritten' \subseteq Unwritten
    BY <1>15 DEF ConfirmDelete, Rows, Unwritten, queueVars, writerVars, spoolVars, retryVars, dbVars, procVars
  <2> QED BY <1>15, <2>1, OrderShrinks DEF ConfirmDelete, queueVars, writerVars
<1>16. CASE ConfirmCommit
  <2>1. Rows' \subseteq Rows /\ Unwritten' \subseteq Unwritten
    BY <1>16 DEF ConfirmCommit, Rows, Unwritten, queueVars, writerVars, spoolVars, retryVars, dbVars, procVars
  <2> QED BY <1>16, <2>1, OrderShrinks DEF ConfirmCommit, queueVars, writerVars
<1>17. CASE PurgeDelete
  <2>1. Rows' \subseteq Rows /\ Unwritten' \subseteq Unwritten
    BY <1>17 DEF PurgeDelete, Rows, Unwritten, queueVars, writerVars, spoolVars, retryVars, dbVars, procVars
  <2> QED BY <1>17, <2>1, OrderShrinks DEF PurgeDelete, queueVars, writerVars
<1>18. CASE PurgeCommit
  <2>1. Rows' \subseteq Rows /\ Unwritten' \subseteq Unwritten
    BY <1>18 DEF PurgeCommit, Rows, Unwritten, queueVars, writerVars, spoolVars, retryVars, dbVars, procVars
  <2> QED BY <1>18, <2>1, OrderShrinks DEF PurgeCommit, queueVars, writerVars
<1>19. CASE RetrySpoolFails
  <2>1. Rows' \subseteq Rows /\ Unwritten' \subseteq Unwritten
    BY <1>19 DEF RetrySpoolFails, Rows, Unwritten, queueVars, writerVars, spoolVars, retryVars, dbVars, procVars
  <2> QED BY <1>19, <2>1, OrderShrinks DEF RetrySpoolFails, queueVars, writerVars
<1>20. CASE Crash
  <2>1. Rows' \subseteq Rows /\ Unwritten' \subseteq Unwritten
    BY <1>20 DEF Crash, ProcessEnds, Rows, Unwritten, Members, queueVars, writerVars, spoolVars, retryVars, dbVars, procVars
  <2> QED BY <1>20, <2>1, OrderShrinks DEF Crash, ProcessEnds, queueVars, writerVars
<1>21. CASE Signal
  <2>1. Rows' \subseteq Rows /\ Unwritten' \subseteq Unwritten
    BY <1>21 DEF Signal, Rows, Unwritten, queueVars, writerVars, spoolVars, retryVars, dbVars, procVars
  <2> QED BY <1>21, <2>1, OrderShrinks DEF Signal, queueVars, writerVars
<1>22. CASE Shutdown
  <2>1. Rows' \subseteq Rows /\ Unwritten' \subseteq Unwritten
    BY <1>22 DEF Shutdown, ProcessEnds, Rows, Unwritten, Members, queueVars, writerVars, spoolVars, retryVars, dbVars, procVars
  <2> QED BY <1>22, <2>1, OrderShrinks DEF Shutdown, ProcessEnds, queueVars, writerVars
<1>23. CASE Restart
  <2>1. Rows' \subseteq Rows /\ Unwritten' \subseteq Unwritten
    BY <1>23 DEF Restart, Rows, Unwritten, queueVars, writerVars, spoolVars, retryVars, dbVars, procVars
  <2> QED BY <1>23, <2>1, OrderShrinks DEF Restart, queueVars, writerVars
<1>24. CASE DbGoes
  <2>1. Rows' \subseteq Rows /\ Unwritten' \subseteq Unwritten
    BY <1>24 DEF DbGoes, Rows, Unwritten, queueVars, writerVars, spoolVars, retryVars, dbVars, procVars
  <2> QED BY <1>24, <2>1, OrderShrinks DEF DbGoes, queueVars, writerVars
<1>25. CASE DbReturns
  <2>1. Rows' \subseteq Rows /\ Unwritten' \subseteq Unwritten
    BY <1>25 DEF DbReturns, Rows, Unwritten, queueVars, writerVars, spoolVars, retryVars, dbVars, procVars
  <2> QED BY <1>25, <2>1, OrderShrinks DEF DbReturns, queueVars, writerVars
<1>26. CASE Age
  <2>1. Rows' \subseteq Rows /\ Unwritten' \subseteq Unwritten
    BY <1>26 DEF Age, Rows, Unwritten, queueVars, writerVars, spoolVars, retryVars, dbVars, procVars
  <2> QED BY <1>26, <2>1, OrderShrinks DEF Age, queueVars, writerVars
<1>27. CASE UNCHANGED vars
  BY <1>27, OrderShrinks DEF Rows, Unwritten, vars, queueVars, writerVars, spoolVars, retryVars, dbVars, procVars
<1> QED BY <1>1, <1>2, <1>3, <1>4, <1>5, <1>6, <1>7, <1>8, <1>9, <1>10, <1>11, <1>12, <1>13, <1>14, <1>15, <1>16, <1>17, <1>18, <1>19, <1>20, <1>21, <1>22, <1>23, <1>24, <1>25, <1>26, <1>27
     DEF Next, Writer, Flush, Retry, Replay, Cleanup, Environment

-----------------------------------------------------------------------------
(* The theorems *)

StoreInv == TypeOK /\ SpoolInv /\ PipelineOrder

\* The inductive invariant: types, the spool's bookkeeping and the order of records.
THEOREM StoreInvariant == Spec => []StoreInv
<1>1. Init => StoreInv
  <2> SUFFICES ASSUME Init PROVE StoreInv
    OBVIOUS
  <2>1. TypeOK
    BY BoundsAssumption, EmptySeq DEF Init, TypeOK, WriterPc, RetryPc
  <2>2. Rows = {} /\ Stored = {} /\ Members(batch) = {} /\ Members(queue) = {} /\ RecsOf(Rows) = {}
    BY DEF Init, Rows, Stored, Members, RecsOf
  <2>3. SpoolInv
    BY <2>2 DEF Init, SpoolInv, IdsFresh, IdsUnique, KnownRecords, AnsweredStored, ReplayEmpty, ReplayStored, ReplaySpooled, DeletedAccounted
  <2>4. PipelineOrder
    <3>1. Increasing(<<>> \o <<>>)
      BY EmptySeq, IncreasingEmpty DEF Increasing
    <3> QED BY <2>2, <3>1 DEF Init, PipelineOrder
  <2> QED BY <2>1, <2>3, <2>4 DEF StoreInv
<1>2. StoreInv /\ [Next]_vars => StoreInv'
  BY TypeStep, SpoolStep, OrderStep DEF StoreInv
<1> QED BY <1>1, <1>2, PTL DEF Spec

\* Between queue, batch and spool no record overtakes another.
THEOREM RecordsInOrder == Spec => []PipelineOrder
BY StoreInvariant, PTL DEF StoreInv

\* What the replay deletes is stored, and ids name one row for good.
THEOREM SpoolAccounted == Spec => []SpoolInv
BY StoreInvariant, PTL DEF StoreInv

\* SQLite commits what the shared connection has written, or nothing.
LEMMA DiskStep == [Next]_vars => disk' \in {disk, spool}
<1>1. CASE Emit
  BY <1>1 DEF Emit, spoolVars
<1>2. CASE WriterPoll
  BY <1>2 DEF WriterPoll, spoolVars
<1>3. CASE WriterFlush
  BY <1>3 DEF WriterFlush, spoolVars
<1>4. CASE InsertCommits
  BY <1>4 DEF InsertCommits, spoolVars
<1>5. CASE InsertAnswers
  BY <1>5 DEF InsertAnswers, spoolVars
<1>6. CASE InsertFails
  BY <1>6 DEF InsertFails, spoolVars
<1>7. CASE SpoolInsert
  BY <1>7 DEF SpoolInsert, spoolVars
<1>8. CASE SpoolCommit
  BY <1>8 DEF SpoolCommit, spoolVars
<1>9. CASE SpoolFails
  BY <1>9 DEF SpoolFails, spoolVars
<1>10. CASE RetryIdle
  BY <1>10 DEF RetryIdle, spoolVars, vars
<1>11. CASE RetryDrain
  BY <1>11 DEF RetryDrain, spoolVars
<1>12. CASE RetryCommits
  BY <1>12 DEF RetryCommits, spoolVars
<1>13. CASE RetryAnswers
  BY <1>13 DEF RetryAnswers, spoolVars
<1>14. CASE RetryInsertFails
  BY <1>14 DEF RetryInsertFails, spoolVars
<1>15. CASE ConfirmDelete
  BY <1>15 DEF ConfirmDelete, spoolVars
<1>16. CASE ConfirmCommit
  BY <1>16 DEF ConfirmCommit, spoolVars
<1>17. CASE PurgeDelete
  BY <1>17 DEF PurgeDelete, spoolVars
<1>18. CASE PurgeCommit
  BY <1>18 DEF PurgeCommit, spoolVars
<1>19. CASE RetrySpoolFails
  BY <1>19 DEF RetrySpoolFails, spoolVars
<1>20. CASE Crash
  BY <1>20 DEF Crash, ProcessEnds, spoolVars
<1>21. CASE Signal
  BY <1>21 DEF Signal, spoolVars
<1>22. CASE Shutdown
  BY <1>22 DEF Shutdown, ProcessEnds, spoolVars
<1>23. CASE Restart
  BY <1>23 DEF Restart, spoolVars
<1>24. CASE DbGoes
  BY <1>24 DEF DbGoes, spoolVars
<1>25. CASE DbReturns
  BY <1>25 DEF DbReturns, spoolVars
<1>26. CASE Age
  BY <1>26 DEF Age, spoolVars
<1>27. CASE UNCHANGED vars
  BY <1>27 DEF vars, spoolVars
<1> QED BY <1>1, <1>2, <1>3, <1>4, <1>5, <1>6, <1>7, <1>8, <1>9, <1>10, <1>11, <1>12, <1>13, <1>14, <1>15, <1>16, <1>17, <1>18, <1>19, <1>20, <1>21, <1>22, <1>23, <1>24, <1>25, <1>26, <1>27
     DEF Next, Writer, Flush, Retry, Replay, Cleanup, Environment

\* No crash, outage, failed statement or shared transaction removes a committed row
\* whose record is neither stored nor older than seven days.
THEOREM DurableSafe == Spec => DurableUntilStored
<1>1. StoreInv /\ [Next]_vars => [\A x \in disk : x \in disk' \/ x.rec \in Stored \cup Aged]_vars
  BY DiskStep DEF StoreInv, SpoolInv, DeletedAccounted
<1> QED BY <1>1, StoreInvariant, PTL DEF Spec, DurableUntilStored

\* The store grows, whatever else happens.
LEMMA StoredGrows == TypeOK /\ [Next]_vars => Stored \subseteq Stored'
<1> SUFFICES ASSUME TypeOK, [Next]_vars PROVE Stored \subseteq Stored'
  OBVIOUS
<1>1. CASE Emit
  BY <1>1 DEF Emit, Stored, dbVars
<1>2. CASE WriterPoll
  BY <1>2 DEF WriterPoll, Stored, dbVars
<1>3. CASE WriterFlush
  BY <1>3 DEF WriterFlush, Stored, dbVars
<1>4. CASE InsertCommits
  BY <1>4, InsertedStored, InRecord DEF InsertCommits
<1>5. CASE InsertAnswers
  BY <1>5 DEF InsertAnswers, Stored, dbVars
<1>6. CASE InsertFails
  BY <1>6 DEF InsertFails, Stored, dbVars
<1>7. CASE SpoolInsert
  BY <1>7 DEF SpoolInsert, Stored, dbVars
<1>8. CASE SpoolCommit
  BY <1>8 DEF SpoolCommit, Stored, dbVars
<1>9. CASE SpoolFails
  BY <1>9 DEF SpoolFails, Stored, dbVars
<1>10. CASE RetryIdle
  BY <1>10 DEF RetryIdle, Stored, dbVars, vars
<1>11. CASE RetryDrain
  BY <1>11 DEF RetryDrain, Stored, dbVars
<1>12. CASE RetryCommits
  BY <1>12, InsertedStored, InRecord DEF RetryCommits
<1>13. CASE RetryAnswers
  BY <1>13 DEF RetryAnswers, Stored, dbVars
<1>14. CASE RetryInsertFails
  BY <1>14 DEF RetryInsertFails, Stored, dbVars
<1>15. CASE ConfirmDelete
  BY <1>15 DEF ConfirmDelete, Stored, dbVars
<1>16. CASE ConfirmCommit
  BY <1>16 DEF ConfirmCommit, Stored, dbVars
<1>17. CASE PurgeDelete
  BY <1>17 DEF PurgeDelete, Stored, dbVars
<1>18. CASE PurgeCommit
  BY <1>18 DEF PurgeCommit, Stored, dbVars
<1>19. CASE RetrySpoolFails
  BY <1>19 DEF RetrySpoolFails, Stored, dbVars
<1>20. CASE Crash
  BY <1>20 DEF Crash, ProcessEnds, Stored, dbVars
<1>21. CASE Signal
  BY <1>21 DEF Signal, Stored, dbVars
<1>22. CASE Shutdown
  BY <1>22 DEF Shutdown, ProcessEnds, Stored, dbVars
<1>23. CASE Restart
  BY <1>23 DEF Restart, Stored, dbVars
<1>24. CASE DbGoes
  BY <1>24 DEF DbGoes, Stored, dbVars
<1>25. CASE DbReturns
  BY <1>25 DEF DbReturns, Stored, dbVars
<1>26. CASE Age
  BY <1>26 DEF Age, Stored, dbVars
<1>27. CASE UNCHANGED vars
  BY <1>27 DEF vars, dbVars, Stored
<1> QED BY <1>1, <1>2, <1>3, <1>4, <1>5, <1>6, <1>7, <1>8, <1>9, <1>10, <1>11, <1>12, <1>13, <1>14, <1>15, <1>16, <1>17, <1>18, <1>19, <1>20, <1>21, <1>22, <1>23, <1>24, <1>25, <1>26, <1>27
     DEF Next, Writer, Flush, Retry, Replay, Cleanup, Environment

\* A record in memory or in the spool goes nowhere but on, to the database or out of
\* age, while the process runs and SQLite does not fail.
LEMMA HeldStep ==
    ASSUME StoreInv, [Next]_vars, faults' = 0, proc' # "down"
    PROVE  Held \subseteq Held' \cup Stored' \cup Aged
<1> USE DEF StoreInv
<1>0. Stored \subseteq Stored' /\ faults \in Nat
  BY StoredGrows DEF TypeOK
<1>1. CASE Emit
  <2>1. Members(queue) \subseteq Members(queue')
    <3>1. queue \in Seq(Record) /\ produced + 1 \in Record
      BY <1>1, BoundsAssumption DEF Emit, TypeOK, Record
    <3>2. Members(queue) \subseteq Members(Append(queue, produced + 1))
      BY <3>1, AppendProperties, LenProperties DEF Members
    <3> QED BY <1>1, <3>2 DEF Emit
  <2> QED BY <1>1, <2>1 DEF Emit, Held, Unwritten, writerVars, spoolVars, retryVars
<1>2. CASE WriterPoll
  <2>1. Members(batch') \cup Members(queue') = Members(batch) \cup Members(queue)
    BY <1>2, DrainMembers DEF WriterPoll
  <2> QED BY <1>2, <2>1 DEF WriterPoll, Held, Unwritten, spoolVars, retryVars
<1>3. CASE WriterFlush
  <2>1. Members(batch') \cup Members(queue') = Members(batch) \cup Members(queue)
    BY <1>3, DrainMembers DEF WriterFlush
  <2> QED BY <1>3, <2>1 DEF WriterFlush, Held, Unwritten, spoolVars, retryVars
<1>4. CASE InsertCommits
  BY <1>4 DEF InsertCommits, Held, Unwritten, queueVars, writerVars, spoolVars, retryVars, dbVars, procVars
<1>5. CASE InsertAnswers
  <2>1. Members(batch) \subseteq Stored
    BY <1>5 DEF InsertAnswers, SpoolInv, AnsweredStored
  <2> QED BY <1>5, <2>1, <1>0 DEF InsertAnswers, Held, Unwritten, queueVars, spoolVars, retryVars
<1>6. CASE InsertFails
  BY <1>6 DEF InsertFails, Held, Unwritten, queueVars, writerVars, spoolVars, retryVars, dbVars, procVars
<1>7. CASE SpoolInsert
  <2>1. Members(batch) \subseteq RecsOf(NewRows(Len(batch)))
    <3>1. \A i \in DOMAIN batch : /\ [id |-> nextId + i - 1, rec |-> batch[i]] \in NewRows(Len(batch))
                                  /\ [id |-> nextId + i - 1, rec |-> batch[i]].rec = batch[i]
      BY LenProperties DEF TypeOK, NewRows
    <3> QED BY <3>1 DEF Members, RecsOf
  <2>2. RecsOf(spool') = RecsOf(spool) \cup RecsOf(NewRows(Len(batch)))
    BY <1>7 DEF SpoolInsert, RecsOf
  <2> QED BY <1>7, <2>1, <2>2 DEF SpoolInsert, Held, Unwritten, queueVars, retryVars
<1>8. CASE SpoolCommit
  BY <1>8 DEF SpoolCommit, Held, Unwritten, queueVars, writerVars, spoolVars, retryVars, dbVars, procVars
<1>9. CASE SpoolFails
  BY <1>9, <1>0 DEF SpoolFails
<1>10. CASE RetryIdle
  BY <1>10 DEF RetryIdle, Held, Unwritten, vars, queueVars, writerVars, spoolVars, retryVars, dbVars, procVars
<1>11. CASE RetryDrain
  <2>1. RecsOf(rbatch) = {}
    BY <1>11 DEF RetryDrain, SpoolInv, ReplayEmpty, RecsOf
  <2> QED BY <1>11, <2>1 DEF RetryDrain, Held, Unwritten, queueVars, writerVars, spoolVars
<1>12. CASE RetryCommits
  BY <1>12 DEF RetryCommits, Held, Unwritten, queueVars, writerVars, spoolVars, retryVars, dbVars, procVars
<1>13. CASE RetryAnswers
  BY <1>13 DEF RetryAnswers, Held, Unwritten, queueVars, writerVars, spoolVars, retryVars, dbVars, procVars
<1>14. CASE RetryInsertFails
  <2>1. rbatch \subseteq spool
    BY <1>14 DEF RetryInsertFails, SpoolInv, ReplaySpooled
  <2>2. RecsOf(rbatch) \subseteq RecsOf(spool)
    BY <2>1 DEF RecsOf
  <2> QED BY <1>14, <2>2 DEF RetryInsertFails, Held, Unwritten, queueVars, writerVars, spoolVars
<1>15. CASE ConfirmDelete
  <2>1. ASSUME NEW x \in spool, x.id \in IdsOf(rbatch) PROVE x.rec \in Stored
    <3>1. x \in rbatch
      BY <2>1 DEF IdsOf, SpoolInv, IdsUnique, Rows
    <3> QED BY <1>15, <3>1 DEF ConfirmDelete, SpoolInv, ReplayStored, RecsOf
  <2>2. RecsOf(spool) \subseteq RecsOf(spool') \cup Stored
    BY <1>15, <2>1 DEF ConfirmDelete, RecsOf
  <2> QED BY <1>15, <1>0, <2>2 DEF ConfirmDelete, Held, Unwritten, queueVars, writerVars
<1>16. CASE ConfirmCommit
  <2>1. RecsOf(rbatch) \subseteq Stored
    BY <1>16 DEF ConfirmCommit, SpoolInv, ReplayStored
  <2> QED BY <1>16, <1>0, <2>1 DEF ConfirmCommit, Held, Unwritten, queueVars, writerVars
<1>17. CASE PurgeDelete
  <2>1. RecsOf(spool) \subseteq RecsOf(spool') \cup Aged
    BY <1>17, InRecord DEF PurgeDelete, RecsOf, Aged
  <2> QED BY <1>17, <2>1 DEF PurgeDelete, Held, Unwritten, queueVars, writerVars
<1>18. CASE PurgeCommit
  BY <1>18 DEF PurgeCommit, Held, Unwritten, queueVars, writerVars, spoolVars, retryVars, dbVars, procVars
<1>19. CASE RetrySpoolFails
  BY <1>19, <1>0 DEF RetrySpoolFails
<1>20. CASE Crash
  BY <1>20 DEF Crash, ProcessEnds
<1>21. CASE Signal
  BY <1>21 DEF Signal, Held, Unwritten, queueVars, writerVars, spoolVars, retryVars, dbVars, procVars
<1>22. CASE Shutdown
  BY <1>22 DEF Shutdown, ProcessEnds
<1>23. CASE Restart
  BY <1>23 DEF Restart, Held, Unwritten, queueVars, writerVars, spoolVars, retryVars, dbVars, procVars
<1>24. CASE DbGoes
  BY <1>24 DEF DbGoes, Held, Unwritten, queueVars, writerVars, spoolVars, retryVars, dbVars, procVars
<1>25. CASE DbReturns
  BY <1>25 DEF DbReturns, Held, Unwritten, queueVars, writerVars, spoolVars, retryVars, dbVars, procVars
<1>26. CASE Age
  BY <1>26 DEF Age, Held, Unwritten, queueVars, writerVars, spoolVars, retryVars, dbVars, procVars
<1>27. CASE UNCHANGED vars
  BY <1>27 DEF Held, Unwritten, vars, queueVars, writerVars, spoolVars, retryVars, dbVars, procVars
<1> QED BY <1>1, <1>2, <1>3, <1>4, <1>5, <1>6, <1>7, <1>8, <1>9, <1>10, <1>11, <1>12, <1>13, <1>14, <1>15, <1>16, <1>17, <1>18, <1>19, <1>20, <1>21, <1>22, <1>23, <1>24, <1>25, <1>26, <1>27
     DEF Next, Writer, Flush, Retry, Replay, Cleanup, Environment

\* While the process runs and SQLite works, no queued record is lost.
THEOREM NoLoss == Spec => NoLossWhileUp
<1>1. StoreInv /\ [Next]_vars =>
        [faults' = 0 /\ proc' # "down" => Held \subseteq Held' \cup Stored' \cup Aged]_vars
  BY HeldStep
<1> QED BY <1>1, StoreInvariant, PTL DEF Spec, NoLossWhileUp

-----------------------------------------------------------------------------
(* Duplicates *)

\* What has gone wrong and is over.  A signal counts once the process has ended: what it
\* cuts short may have been inserted after it arrived.
Past == outages + stops + faults - (IF proc = "stopping" THEN 1 ELSE 0)

\* A batch, or drained rows, that are inserted or will be, and not by mistake.
BatchDone == wpc = "commit" \/ (wpc = "answer" /\ dbUp)
Replayed(x) ==
    /\ x \in rbatch
    /\ (rpc = "answer" /\ dbUp) \/ rpc = "delete" \/ (rpc = "commit" /\ x \notin spool)

\* A record that may be inserted again has one row less to its name than it may come to.
DupInv ==
    /\ proc = "stopping" => stops > 0
    /\ \A r \in Record : db[r] <= 1 + Past
    /\ \A r \in Members(queue) : db[r] <= Past
    /\ BatchDone \/ \A r \in Members(batch) : db[r] <= Past
    /\ \A x \in Rows : Replayed(x) \/ db[x.rec] <= Past

LEMMA PastTypes == TypeOK /\ DupInv => Past \in Nat
BY DEF TypeOK, DupInv, Past

\* A step that inserts nothing and at which nothing goes wrong: what may be inserted
\* afterwards might have been inserted before.
LEMMA NothingInserted ==
    ASSUME DupInv, db' = db, Past' = Past, proc' = "stopping" => stops' > 0,
           Members(queue') \subseteq Members(queue),
           \/ BatchDone' \/ Members(batch') = {}
           \/ ~BatchDone /\ Members(batch') \subseteq Members(batch) \cup Members(queue),
           \A x \in Rows' : \/ Replayed(x)'
                            \/ x \in Rows /\ ~Replayed(x)
                            \/ ~BatchDone /\ x.rec \in Members(batch)
    PROVE  DupInv'
<1>1. \A r \in Members(queue') : db'[r] <= Past'
  BY DEF DupInv
<1>2. BatchDone' \/ \A r \in Members(batch') : db'[r] <= Past'
  BY DEF DupInv
<1>3. \A x \in Rows' : Replayed(x)' \/ db'[x.rec] <= Past'
  BY DEF DupInv
<1> QED BY <1>1, <1>2, <1>3 DEF DupInv

\* When something goes wrong, every record may be inserted once more.
LEMMA MoreMayCome ==
    ASSUME TypeOK, TypeOK', DupInv, db' = db, Past' \in Nat, Past' >= Past + 1,
           proc' = "stopping" => stops' > 0
    PROVE  DupInv'
<1>0. Past \in Nat
  BY PastTypes
<1>1. ASSUME NEW r \in Record PROVE db'[r] \in Nat /\ db'[r] <= Past'
  <2>1. db[r] \in Nat /\ db[r] <= 1 + Past
    BY DEF DupInv, TypeOK
  <2> QED BY <1>0, <2>1
<1>2. /\ Members(batch') \subseteq Record /\ Members(queue') \subseteq Record
      /\ \A x \in Rows' : x.rec \in Record
  BY DEF TypeOK, Members, Rows, Row
<1>3. \A r \in Record : db'[r] <= 1 + Past'
  BY <1>1
<1> QED BY <1>1, <1>2, <1>3 DEF DupInv

\* A batch, or drained rows, that are inserted had been inserted by mistake only.
LEMMA InsertsOnce ==
    ASSUME TypeOK, DupInv, Past' = Past, NEW recs \in SUBSET Record, db' = Inserted(recs),
           \A r \in recs : db[r] <= Past
    PROVE  /\ \A r \in Record : db'[r] <= 1 + Past
           /\ \A r \in Record \ recs : db'[r] = db[r]
<1>1. Past \in Nat /\ \A r \in Record : db[r] \in Nat
  BY PastTypes DEF TypeOK
<1> QED BY <1>1 DEF DupInv, Inserted

LEMMA DupStep == StoreInv /\ DupInv /\ [Next]_vars => DupInv'
<1> SUFFICES ASSUME StoreInv, DupInv, [Next]_vars PROVE DupInv'
  OBVIOUS
<1>0. TypeOK /\ TypeOK' /\ SpoolInv /\ PipelineOrder /\ Past \in Nat
  BY TypeStep, PastTypes DEF StoreInv
<1>counts. outages \in Nat /\ stops \in Nat /\ faults \in Nat
  BY <1>0 DEF TypeOK
<1> USE DEF queueVars, writerVars, spoolVars, retryVars, dbVars, procVars
<1>1. CASE Emit
  <2>1. Members(queue') \subseteq Members(queue) \cup {produced + 1}
    <3>1. queue \in Seq(Record) /\ produced + 1 \in Record
      BY <1>0, <1>1 DEF Emit, TypeOK, Record
    <3>2. \A i \in 1..(Len(queue) + 1) : Append(queue, produced + 1)[i] =
             IF i <= Len(queue) THEN queue[i] ELSE produced + 1
      BY <3>1
    <3>3. DOMAIN Append(queue, produced + 1) = 1..(Len(queue) + 1) /\ DOMAIN queue = 1..Len(queue)
          /\ Len(queue) \in Nat
      BY <3>1
    <3>4. Members(Append(queue, produced + 1)) \subseteq Members(queue) \cup {produced + 1}
      BY <3>2, <3>3 DEF Members
    <3> QED BY <1>1, <3>4 DEF Emit
  <2>2. db[produced + 1] = 0
    <3>1. produced + 1 \in Record /\ db[produced + 1] \in Nat
      BY <1>0, <1>1 DEF Emit, TypeOK, Record
    <3>2. produced + 1 \notin Stored
      BY <1>0 DEF SpoolInv, KnownRecords, TypeOK
    <3> QED BY <3>1, <3>2 DEF Stored
  <2>3. \A r \in Members(queue') : db'[r] <= Past'
    BY <1>0, <1>1, <2>1, <2>2 DEF Emit, DupInv, Past
  <2>4. UNCHANGED <<batch, wpc, spool, disk, rbatch, rpc, db, dbUp, outages, proc, stops, faults>>
    BY <1>1 DEF Emit
  <2> QED BY <2>3, <2>4 DEF DupInv, Past, BatchDone, Replayed, Rows
<1>2. CASE WriterPoll \/ WriterFlush
  <2>1. Members(batch') \cup Members(queue') = Members(batch) \cup Members(queue)
    BY <1>0, <1>2, DrainMembers DEF WriterPoll, WriterFlush
  <2>2. ~BatchDone
    BY <1>2 DEF WriterPoll, WriterFlush, BatchDone
  <2>3. Members(queue') \subseteq Members(queue)
    <3>1. /\ batch \in Seq(Record) /\ queue \in Seq(Record) /\ Room \in 0..Len(queue)
      BY <1>0, BoundsAssumption DEF TypeOK, Room
    <3>2. queue' = SubSeq(queue, Room + 1, Len(queue))
      BY <1>2 DEF WriterPoll, WriterFlush, DrainQueue
    <3>3. \A i \in DOMAIN queue' : queue'[i] = queue[i + Room] /\ i + Room \in DOMAIN queue
      BY <3>1, <3>2
    <3> QED BY <3>3 DEF Members
  <2>4. /\ db' = db /\ Past' = Past /\ proc' = proc /\ stops' = stops
        /\ \A x : (x \in Rows' <=> x \in Rows) /\ (Replayed(x)' <=> Replayed(x))
    BY <1>2 DEF WriterPoll, WriterFlush, Past, Rows, Replayed
  <2>5. \A x \in Rows' : \/ Replayed(x)'
                         \/ x \in Rows /\ ~Replayed(x)
                         \/ ~BatchDone /\ x.rec \in Members(batch)
    BY <2>4
  <2> QED BY <2>1, <2>2, <2>3, <2>4, <2>5, NothingInserted DEF DupInv
<1>3. CASE InsertCommits
  <2>1. /\ wpc = "insert" /\ dbUp /\ BatchDone' /\ ~BatchDone /\ db' = Inserted(Members(batch))
        /\ UNCHANGED <<queue, batch, spool, disk, rbatch, rpc, dbUp, outages, proc, stops, faults>>
    BY <1>3 DEF InsertCommits, BatchDone
  <2>2. Past' = Past /\ Rows' = Rows /\ \A x : Replayed(x)' <=> Replayed(x)
    BY <2>1 DEF Past, Rows, Replayed
  <2>3. Members(batch) \subseteq Record /\ Members(queue) \subseteq Record /\ \A x \in Rows : x.rec \in Record
    BY <1>0, InRecord DEF Rows, RecsOf
  <2>4. /\ \A r \in Record : db'[r] <= 1 + Past
        /\ \A r \in Record \ Members(batch) : db'[r] = db[r]
    BY <1>0, <2>1, <2>2, <2>3, InsertsOnce DEF DupInv
  <2>5. \A r \in Members(queue) : r \notin Members(batch)
    <3>1. \A r \in Members(batch), t \in Members(queue) : r < t
      BY <1>0, IncreasingParts DEF PipelineOrder, TypeOK
    <3> QED BY <2>3, <3>1 DEF Record
  <2>6. \A x \in Rows : x.rec \notin Members(batch)
    <3>1. Members(batch) \subseteq Unwritten
      BY <2>1 DEF Unwritten
    <3> QED BY <1>0, <2>3, <3>1 DEF PipelineOrder, Record
  <2>7. \A r \in Members(queue) : db'[r] <= Past
    BY <2>3, <2>4, <2>5 DEF DupInv
  <2>8. \A x \in Rows : Replayed(x) \/ db'[x.rec] <= Past
    BY <2>3, <2>4, <2>6 DEF DupInv
  <2> QED BY <2>1, <2>2, <2>4, <2>7, <2>8 DEF DupInv
<1>4. CASE RetryCommits
  <2>1. /\ rpc = "insert" /\ rpc' = "answer" /\ dbUp /\ db' = Inserted(RecsOf(rbatch))
        /\ UNCHANGED <<queue, batch, wpc, spool, disk, rbatch, dbUp, outages, proc, stops, faults>>
    BY <1>4 DEF RetryCommits
  <2>2. /\ Past' = Past /\ Rows' = Rows /\ (BatchDone' <=> BatchDone)
        /\ \A x : ~Replayed(x) /\ (x \in rbatch => Replayed(x)')
    BY <2>1 DEF Past, Rows, Replayed, BatchDone
  <2>3. /\ Members(batch) \subseteq Record /\ Members(queue) \subseteq Record
        /\ RecsOf(rbatch) \subseteq Record /\ \A x \in Rows : x.rec \in Record /\ x.id \in Nat
    BY <1>0, InRecord DEF Rows, RecsOf, TypeOK, Row
  <2>4. \A r \in RecsOf(rbatch) : db[r] <= Past
    BY <2>2 DEF DupInv, RecsOf, Rows
  <2>5. /\ \A r \in Record : db'[r] <= 1 + Past
        /\ \A r \in Record \ RecsOf(rbatch) : db'[r] = db[r]
    BY <1>0, <2>1, <2>2, <2>3, <2>4, InsertsOnce
  <2>6. \A r \in Unwritten : r \in Record => r \notin RecsOf(rbatch)
    <3>1. \A x \in rbatch, r \in Unwritten : x.rec < r
      BY <1>0 DEF PipelineOrder, Rows
    <3> QED BY <2>3, <3>1 DEF RecsOf, Record
  <2>7. \A r \in Members(queue) : db'[r] <= Past
    BY <2>3, <2>5, <2>6 DEF DupInv, Unwritten
  <2>8. BatchDone \/ \A r \in Members(batch) : db'[r] <= Past
    BY <2>3, <2>5, <2>6 DEF DupInv, Unwritten, BatchDone
  <2>9. ASSUME NEW x \in Rows PROVE x \in rbatch \/ db'[x.rec] <= Past
    <3>1. CASE x.rec \in RecsOf(rbatch)
      <4>1. PICK y \in rbatch : y.rec = x.rec
        BY <3>1 DEF RecsOf
      <4>2. y \in Rows /\ ~(x.id < y.id) /\ ~(y.id < x.id)
        BY <1>0, <2>3, <4>1 DEF PipelineOrder, Rows, Record
      <4>3. x = y
        BY <1>0, <2>3, <4>2 DEF SpoolInv, IdsUnique
      <4> QED BY <4>3
    <3>2. CASE x.rec \notin RecsOf(rbatch)
      BY <2>2, <2>3, <2>5, <3>2 DEF DupInv
    <3> QED BY <3>1, <3>2
  <2> QED BY <2>1, <2>2, <2>5, <2>7, <2>8, <2>9 DEF DupInv
<1>5. CASE InsertAnswers
  <2>1. Members(batch') = {}
    BY <1>5 DEF InsertAnswers, Members
  <2> QED BY <1>5, <2>1, NothingInserted DEF InsertAnswers, DupInv, Past, Rows, Replayed
<1>6. CASE InsertFails
  <2>1. ~BatchDone /\ batch' = batch
    BY <1>6 DEF InsertFails, BatchDone
  <2> QED BY <1>6, <2>1, NothingInserted DEF InsertFails, DupInv, Past, Rows, Replayed
<1>7. CASE SpoolInsert
  <2>1. ~BatchDone /\ BatchDone' /\ UNCHANGED <<db, queue, proc, stops>> /\ Past' = Past
    BY <1>7 DEF SpoolInsert, BatchDone, Past
  <2>2. \A x \in NewRows(Len(batch)) : x.rec \in Members(batch)
    <3>1. Len(batch) \in 0..Len(batch)
      BY <1>0, LenProperties DEF TypeOK
    <3> QED BY <1>0, <3>1, NewRowsFacts
  <2>3. ASSUME NEW x \in Rows'
        PROVE  \/ Replayed(x)'
               \/ x \in Rows /\ ~Replayed(x)
               \/ ~BatchDone /\ x.rec \in Members(batch)
    <3>1. CASE x \in NewRows(Len(batch))
      BY <2>1, <2>2, <3>1
    <3>2. CASE x \notin NewRows(Len(batch))
      BY <1>7, <3>2 DEF SpoolInsert, Rows, Replayed
    <3> QED BY <3>1, <3>2
  <2> QED BY <2>1, <2>3, NothingInserted DEF DupInv
<1>8. CASE SpoolCommit
  <2>1. Members(batch') = {}
    BY <1>8 DEF SpoolCommit, Members
  <2> QED BY <1>8, <2>1, NothingInserted DEF SpoolCommit, DupInv, Past, Rows, Replayed
<1>9. CASE RetryIdle
  BY <1>9, NothingInserted DEF RetryIdle, vars, DupInv, Past, Rows, Replayed, BatchDone
<1>10. CASE RetryDrain
  <2>1. UNCHANGED <<db, queue, batch, proc, stops>> /\ Past' = Past /\ (BatchDone' <=> BatchDone)
    BY <1>10 DEF RetryDrain, Past, BatchDone
  <2>2. \A x \in Rows' : x \in Rows /\ ~Replayed(x)
    BY <1>10 DEF RetryDrain, Oldest, Rows, Replayed
  <2> QED BY <2>1, <2>2, NothingInserted DEF DupInv
<1>11. CASE RetryAnswers
  <2>1. UNCHANGED <<db, queue, batch, proc, stops>> /\ Past' = Past /\ (BatchDone' <=> BatchDone)
    BY <1>11 DEF RetryAnswers, Past, BatchDone
  <2>2. \A x \in Rows' : Replayed(x)' \/ (x \in Rows /\ ~Replayed(x))
    BY <1>11 DEF RetryAnswers, Rows, Replayed
  <2> QED BY <2>1, <2>2, NothingInserted DEF DupInv
<1>12. CASE RetryInsertFails
  <2>1. UNCHANGED <<db, queue, batch, proc, stops>> /\ Past' = Past /\ (BatchDone' <=> BatchDone)
    BY <1>12 DEF RetryInsertFails, Past, BatchDone
  <2>2. \A x \in Rows' : x \in Rows /\ ~Replayed(x)
    BY <1>12 DEF RetryInsertFails, Rows, Replayed
  <2> QED BY <2>1, <2>2, NothingInserted DEF DupInv
<1>13. CASE ConfirmDelete
  <2>1. UNCHANGED <<db, queue, batch, proc, stops>> /\ Past' = Past /\ (BatchDone' <=> BatchDone)
    BY <1>13 DEF ConfirmDelete, Past, BatchDone
  <2>2. \A x \in Rows' : Replayed(x)' \/ (x \in Rows /\ ~Replayed(x))
    BY <1>13 DEF ConfirmDelete, IdsOf, Rows, Replayed
  <2> QED BY <2>1, <2>2, NothingInserted DEF DupInv
<1>14. CASE ConfirmCommit
  <2>1. UNCHANGED <<db, queue, batch, proc, stops>> /\ Past' = Past /\ (BatchDone' <=> BatchDone)
    BY <1>14 DEF ConfirmCommit, Past, BatchDone
  <2>2. \A x \in Rows' : x \in Rows /\ ~Replayed(x)
    BY <1>14 DEF ConfirmCommit, Rows, Replayed
  <2> QED BY <2>1, <2>2, NothingInserted DEF DupInv
<1>15. CASE PurgeDelete \/ PurgeCommit
  <2>1. UNCHANGED <<db, queue, batch, proc, stops>> /\ Past' = Past /\ (BatchDone' <=> BatchDone)
    BY <1>15 DEF PurgeDelete, PurgeCommit, Past, BatchDone
  <2>2. \A x \in Rows' : x \in Rows /\ ~Replayed(x)
    BY <1>15 DEF PurgeDelete, PurgeCommit, Rows, Replayed
  <2> QED BY <2>1, <2>2, NothingInserted DEF DupInv
<1>16. CASE SpoolFails \/ RetrySpoolFails \/ DbGoes
  <2>1. UNCHANGED <<db, proc, stops>>
    BY <1>16 DEF SpoolFails, RetrySpoolFails, DbGoes
  <2>2. \/ outages' = outages /\ faults' = faults + 1
        \/ outages' = outages + 1 /\ faults' = faults
    BY <1>16 DEF SpoolFails, RetrySpoolFails, DbGoes
  <2>3. Past' = Past + 1
    BY <1>counts, <2>1, <2>2 DEF Past
  <2> QED BY <1>0, <2>1, <2>3, MoreMayCome DEF DupInv
<1>17. CASE Crash \/ Shutdown
  <2>1. /\ UNCHANGED <<db, outages, faults>> /\ proc' = "down"
        /\ stops' = stops + 1 \/ (proc = "stopping" /\ stops' = stops)
    BY <1>17 DEF Crash, Shutdown, ProcessEnds
  <2>2. Past' \in Nat /\ Past' >= Past + 1
    BY <1>counts, <1>0, <2>1 DEF Past
  <2> QED BY <1>0, <2>1, <2>2, MoreMayCome
<1>18. CASE Signal
  <2>1. UNCHANGED <<db, queue, batch>> /\ Past' = Past /\ stops' > 0 /\ (BatchDone' <=> BatchDone)
    BY <1>0, <1>18 DEF Signal, Past, BatchDone, TypeOK
  <2>2. \A x : (x \in Rows' <=> x \in Rows) /\ (Replayed(x)' <=> Replayed(x))
    BY <1>18 DEF Signal, Rows, Replayed
  <2>3. \A x \in Rows' : Replayed(x)' \/ (x \in Rows /\ ~Replayed(x))
    BY <2>2
  <2> QED BY <2>1, <2>3, NothingInserted
<1>19. CASE Restart \/ Age
  <2>1. /\ UNCHANGED <<db, queue, batch>> /\ Past' = Past /\ (BatchDone' <=> BatchDone)
        /\ proc' = "stopping" => stops' > 0
    BY <1>19 DEF Restart, Age, Past, BatchDone, DupInv
  <2>2. \A x \in Rows' : Replayed(x)' \/ (x \in Rows /\ ~Replayed(x))
    BY <1>19 DEF Restart, Age, Rows, Replayed
  <2> QED BY <2>1, <2>2, NothingInserted
<1>20. CASE DbReturns
  <2>1. UNCHANGED <<db, queue, batch, proc, stops>> /\ Past' = Past /\ (BatchDone => BatchDone')
    BY <1>20 DEF DbReturns, Past, BatchDone
  <2>2. \A x \in Rows' : Replayed(x)' \/ (x \in Rows /\ ~Replayed(x))
    BY <1>20 DEF DbReturns, Rows, Replayed
  <2> QED BY <2>1, <2>2, NothingInserted DEF DupInv
<1>21. CASE UNCHANGED vars
  BY <1>21 DEF vars, DupInv, Past, BatchDone, Replayed, Rows
<1> QED BY <1>1, <1>2, <1>3, <1>4, <1>5, <1>6, <1>7, <1>8, <1>9, <1>10, <1>11, <1>12, <1>13, <1>14, <1>15, <1>16, <1>17, <1>18, <1>19, <1>20, <1>21
     DEF Next, Writer, Flush, Retry, Replay, Cleanup, Environment

\* The table has no unique index, so a record can have several rows: one more at most for
\* each outage, stop and SQLite failure.
THEOREM FewDuplicates == Spec => []BoundedDuplication
<1>1. Init => DupInv
  BY DEF Init, DupInv, Past, BatchDone, Replayed, Rows, Members
<1>2. StoreInv /\ DupInv /\ [Next]_vars => DupInv'
  BY DupStep
<1>3. StoreInv /\ DupInv => BoundedDuplication
  BY DEF StoreInv, TypeOK, DupInv, Past, BoundedDuplication
<1> QED BY <1>1, <1>2, <1>3, StoreInvariant, PTL DEF Spec

-----------------------------------------------------------------------------
(* TelemetryStore implements StoreAndForward *)

\* Where the status of a record comes from.
StatusOK ==
    \A r \in Record :
        /\ Status(r) = "new" <=> r > produced
        /\ Status(r) = "stored" <=> r <= produced /\ r \in Stored
        /\ Status(r) = "durable" <=> /\ r <= produced /\ r \notin Stored
                                     /\ r \in RecsOf(disk)
        /\ Status(r) = "gone" <=> /\ r <= produced /\ r \notin Stored
                                  /\ r \notin RecsOf(disk) \cup Held
        /\ Status(r) \in {"new", "held", "durable", "stored", "gone"}

LEMMA StatusValues == TypeOK => StatusOK
<1> SUFFICES ASSUME TypeOK, NEW r \in Record
             PROVE  /\ Status(r) = "new" <=> r > produced
                    /\ Status(r) = "stored" <=> r <= produced /\ r \in Stored
                    /\ Status(r) = "durable" <=> /\ r <= produced /\ r \notin Stored
                                                 /\ r \in RecsOf(disk)
                    /\ Status(r) = "gone" <=> /\ r <= produced /\ r \notin Stored
                                              /\ r \notin RecsOf(disk) \cup Held
                    /\ Status(r) \in {"new", "held", "durable", "stored", "gone"}
  BY DEF StatusOK
<1>1. r \in Nat /\ produced \in Nat /\ db[r] \in Nat
  BY BoundsAssumption DEF TypeOK, Record
<1>2. r \in Stored <=> db[r] > 0
  BY DEF Stored
<1>3. (r > produced <=> ~(r <= produced)) /\ (db[r] > 0 <=> ~(db[r] = 0))
  BY <1>1
<1> QED BY <1>2, <1>3 DEF Status

\* A record not produced yet is nowhere, and produced only grows.
LEMMA ProducedGrows == TypeOK /\ [Next]_vars => produced' \in {produced, produced + 1}
BY DEF Next, Writer, Flush, Retry, Replay, Cleanup, Environment, vars, queueVars, ProcessEnds, Emit,
    WriterPoll, WriterFlush, InsertCommits, InsertAnswers, InsertFails, SpoolInsert, SpoolCommit, SpoolFails,
    RetryIdle, RetryDrain, RetryCommits, RetryAnswers, RetryInsertFails, ConfirmDelete, ConfirmCommit,
    PurgeDelete, PurgeCommit, RetrySpoolFails, Crash, Signal, Shutdown, Restart, DbGoes, DbReturns, Age

\* Everywhere a record can be.
Present == Stored \cup RecsOf(disk) \cup Held

LEMMA PresentKnown ==
    ASSUME StoreInv
    PROVE  \A r \in Present : r \in Record /\ r <= produced
<1>1. Present \subseteq 1..produced
  BY DEF Present, Held, Unwritten, StoreInv, SpoolInv, KnownRecords, RecsOf, Rows
<1> QED BY <1>1, BoundsAssumption DEF StoreInv, TypeOK, Record

\* Nothing comes from nowhere but the record that is being produced.
LEMMA NothingReturns ==
    ASSUME StoreInv, [Next]_vars
    PROVE  /\ Stored' \cup RecsOf(disk') \subseteq Present
           /\ Held' \subseteq Present \cup {produced + 1}
<1> USE DEF StoreInv
<1>1. CASE Emit
  <2>1. Members(queue') \subseteq Members(queue) \cup {produced + 1}
    <3>1. queue \in Seq(Record) /\ produced + 1 \in Record
      BY <1>1, BoundsAssumption DEF Emit, TypeOK, Record
    <3>2. Members(Append(queue, produced + 1)) \subseteq Members(queue) \cup {produced + 1}
      BY <3>1, AppendProperties, LenProperties DEF Members
    <3> QED BY <1>1, <3>2 DEF Emit
  <2> QED BY <1>1, <2>1 DEF Emit, Present, Stored, Held, Unwritten, writerVars, spoolVars, retryVars, dbVars
<1>2. CASE WriterPoll
  <2>1. Members(batch') \cup Members(queue') = Members(batch) \cup Members(queue)
    BY <1>2, DrainMembers DEF WriterPoll
  <2> QED BY <1>2, <2>1 DEF WriterPoll, Present, Stored, Held, Unwritten, spoolVars, retryVars, dbVars
<1>3. CASE WriterFlush
  <2>1. Members(batch') \cup Members(queue') = Members(batch) \cup Members(queue)
    BY <1>3, DrainMembers DEF WriterFlush
  <2> QED BY <1>3, <2>1 DEF WriterFlush, Present, Stored, Held, Unwritten, spoolVars, retryVars, dbVars
<1>4. CASE InsertCommits
  <2>1. Stored' = Stored \cup Members(batch)
    BY <1>4, InsertedStored, InRecord DEF InsertCommits
  <2>2. Held' = Held /\ disk' = disk /\ Members(batch) \subseteq Held
    BY <1>4 DEF InsertCommits, Held, Unwritten, queueVars, spoolVars, retryVars
  <2> QED BY <2>1, <2>2 DEF Present
<1>5. CASE InsertAnswers
  <2>1. Members(batch') = {}
    BY <1>5 DEF InsertAnswers, Members
  <2> QED BY <1>5, <2>1 DEF InsertAnswers, Present, Stored, Held, Unwritten, queueVars, spoolVars, retryVars, dbVars
<1>6. CASE InsertFails
  BY <1>6 DEF InsertFails, Present, Stored, Held, Unwritten, queueVars, writerVars, spoolVars, retryVars, dbVars, procVars
<1>7. CASE SpoolInsert
  <2>1. Len(batch) \in 0..Len(batch)
    BY DEF TypeOK
  <2>2. RecsOf(NewRows(Len(batch))) \subseteq Members(batch)
    BY <2>1, NewRowsFacts DEF RecsOf
  <2>3. RecsOf(spool') = RecsOf(spool) \cup RecsOf(NewRows(Len(batch)))
    BY <1>7 DEF SpoolInsert, RecsOf
  <2> QED BY <1>7, <2>2, <2>3 DEF SpoolInsert, Present, Stored, Held, Unwritten, queueVars, retryVars, dbVars
<1>8. CASE SpoolCommit
  <2>1. Members(batch') = {}
    BY <1>8 DEF SpoolCommit, Members
  <2> QED BY <1>8, <2>1 DEF SpoolCommit, Present, Stored, Held, Unwritten, queueVars, retryVars, dbVars
<1>9. CASE SpoolFails
  <2>1. Members(batch') = {} /\ queue' = queue /\ rbatch' = rbatch /\ disk' = disk /\ Stored' = Stored
    BY <1>9 DEF SpoolFails, Members, Stored, queueVars, retryVars, dbVars
  <2>2. RecsOf(spool') \subseteq Present
    <3>1. CASE spool' \in {spool, disk}
      BY <3>1 DEF Present, Held, RecsOf
    <3>2. ASSUME wpc = "spool", NEW k \in 0..(Len(batch) - 1), spool' = spool \cup NewRows(k)
          PROVE  RecsOf(spool') \subseteq Present
      <4>1. k \in 0..Len(batch)
        BY DEF TypeOK
      <4>2. RecsOf(NewRows(k)) \subseteq Members(batch)
        BY <4>1, NewRowsFacts DEF RecsOf
      <4>3. RecsOf(spool') = RecsOf(spool) \cup RecsOf(NewRows(k))
        BY <3>2 DEF RecsOf
      <4> QED BY <3>2, <4>2, <4>3 DEF Present, Held, Unwritten
    <3> QED BY <1>9, <3>1, <3>2 DEF SpoolFails
  <2> QED BY <1>9, <2>1, <2>2 DEF SpoolFails, Present, Held, Unwritten
<1>10. CASE RetryIdle
  BY <1>10 DEF RetryIdle, Present, Stored, Held, Unwritten, vars, queueVars, writerVars, spoolVars, retryVars, dbVars, procVars
<1>11. CASE RetryDrain
  BY <1>11 DEF RetryDrain, Present, Stored, Held, Unwritten, RecsOf, Oldest, queueVars, writerVars, spoolVars, retryVars, dbVars, procVars
<1>12. CASE RetryCommits
  <2>1. Stored' = Stored \cup RecsOf(rbatch)
    BY <1>12, InsertedStored, InRecord DEF RetryCommits
  <2>2. Held' = Held /\ disk' = disk /\ RecsOf(rbatch) \subseteq Held
    BY <1>12 DEF RetryCommits, Held, Unwritten, queueVars, writerVars, spoolVars
  <2> QED BY <2>1, <2>2 DEF Present
<1>13. CASE RetryAnswers
  BY <1>13 DEF RetryAnswers, Present, Stored, Held, Unwritten, queueVars, writerVars, spoolVars, retryVars, dbVars, procVars
<1>14. CASE RetryInsertFails
  BY <1>14 DEF RetryInsertFails, Present, Stored, Held, Unwritten, RecsOf, Oldest, queueVars, writerVars, spoolVars, retryVars, dbVars, procVars
<1>15. CASE ConfirmDelete
  BY <1>15 DEF ConfirmDelete, Present, Stored, Held, Unwritten, RecsOf, Oldest, queueVars, writerVars, spoolVars, retryVars, dbVars, procVars
<1>16. CASE ConfirmCommit
  BY <1>16 DEF ConfirmCommit, Present, Stored, Held, Unwritten, RecsOf, Oldest, queueVars, writerVars, spoolVars, retryVars, dbVars, procVars
<1>17. CASE PurgeDelete
  BY <1>17 DEF PurgeDelete, Present, Stored, Held, Unwritten, RecsOf, Oldest, queueVars, writerVars, spoolVars, retryVars, dbVars, procVars
<1>18. CASE PurgeCommit
  BY <1>18 DEF PurgeCommit, Present, Stored, Held, Unwritten, queueVars, writerVars, spoolVars, retryVars, dbVars, procVars
<1>19. CASE RetrySpoolFails
  BY <1>19 DEF RetrySpoolFails, Present, Stored, Held, Unwritten, RecsOf, Oldest, queueVars, writerVars, spoolVars, retryVars, dbVars, procVars
<1>20. CASE Crash
  <2>1. Members(batch') = {} /\ Members(queue') = {} /\ RecsOf(rbatch') = {}
    BY <1>20 DEF Crash, ProcessEnds, Members, RecsOf
  <2> QED BY <1>20, <2>1 DEF Crash, ProcessEnds, Present, Stored, Held, Unwritten, dbVars
<1>21. CASE Signal
  BY <1>21 DEF Signal, Present, Stored, Held, Unwritten, queueVars, writerVars, spoolVars, retryVars, dbVars, procVars
<1>22. CASE Shutdown
  <2>1. Members(batch') = {} /\ Members(queue') = {} /\ RecsOf(rbatch') = {}
    BY <1>22 DEF Shutdown, ProcessEnds, Members, RecsOf
  <2> QED BY <1>22, <2>1 DEF Shutdown, ProcessEnds, Present, Stored, Held, Unwritten, dbVars
<1>23. CASE Restart
  BY <1>23 DEF Restart, Present, Stored, Held, Unwritten, queueVars, writerVars, spoolVars, retryVars, dbVars, procVars
<1>24. CASE DbGoes
  BY <1>24 DEF DbGoes, Present, Stored, Held, Unwritten, queueVars, writerVars, spoolVars, retryVars, dbVars, procVars
<1>25. CASE DbReturns
  BY <1>25 DEF DbReturns, Present, Stored, Held, Unwritten, queueVars, writerVars, spoolVars, retryVars, dbVars, procVars
<1>26. CASE Age
  BY <1>26 DEF Age, Present, Stored, Held, Unwritten, queueVars, writerVars, spoolVars, retryVars, dbVars, procVars
<1>27. CASE UNCHANGED vars
  BY <1>27 DEF Present, Stored, Held, Unwritten, vars, queueVars, writerVars, spoolVars, retryVars, dbVars, procVars
<1> QED BY <1>1, <1>2, <1>3, <1>4, <1>5, <1>6, <1>7, <1>8, <1>9, <1>10, <1>11, <1>12, <1>13, <1>14, <1>15, <1>16, <1>17, <1>18, <1>19, <1>20, <1>21, <1>22, <1>23, <1>24, <1>25, <1>26, <1>27
     DEF Next, Writer, Flush, Retry, Replay, Cleanup, Environment

\* A commit puts nothing in anybody's hands.
LEMMA CommitKeepsHeld ==
    ASSUME [Next]_vars
    PROVE  \/ disk' = disk
           \/ disk' = spool /\ Held' \subseteq Held
<1>1. CASE Emit
  BY <1>1 DEF Emit, spoolVars
<1>2. CASE WriterPoll
  BY <1>2 DEF WriterPoll, spoolVars
<1>3. CASE WriterFlush
  BY <1>3 DEF WriterFlush, spoolVars
<1>4. CASE InsertCommits
  BY <1>4 DEF InsertCommits, spoolVars
<1>5. CASE InsertAnswers
  BY <1>5 DEF InsertAnswers, spoolVars
<1>6. CASE InsertFails
  BY <1>6 DEF InsertFails, spoolVars
<1>7. CASE SpoolInsert
  BY <1>7 DEF SpoolInsert, spoolVars
<1>8. CASE SpoolCommit
  BY <1>8 DEF SpoolCommit, Held, Unwritten, Members, RecsOf, queueVars, writerVars, spoolVars, retryVars, dbVars, procVars
<1>9. CASE SpoolFails
  BY <1>9 DEF SpoolFails, spoolVars
<1>10. CASE RetryIdle
  BY <1>10 DEF RetryIdle, spoolVars, vars
<1>11. CASE RetryDrain
  BY <1>11 DEF RetryDrain, spoolVars
<1>12. CASE RetryCommits
  BY <1>12 DEF RetryCommits, spoolVars
<1>13. CASE RetryAnswers
  BY <1>13 DEF RetryAnswers, spoolVars
<1>14. CASE RetryInsertFails
  BY <1>14 DEF RetryInsertFails, spoolVars
<1>15. CASE ConfirmDelete
  BY <1>15 DEF ConfirmDelete, spoolVars
<1>16. CASE ConfirmCommit
  BY <1>16 DEF ConfirmCommit, Held, Unwritten, Members, RecsOf, queueVars, writerVars, spoolVars, retryVars, dbVars, procVars
<1>17. CASE PurgeDelete
  BY <1>17 DEF PurgeDelete, spoolVars
<1>18. CASE PurgeCommit
  BY <1>18 DEF PurgeCommit, Held, Unwritten, Members, RecsOf, queueVars, writerVars, spoolVars, retryVars, dbVars, procVars
<1>19. CASE RetrySpoolFails
  BY <1>19 DEF RetrySpoolFails, spoolVars
<1>20. CASE Crash
  BY <1>20 DEF Crash, ProcessEnds, spoolVars
<1>21. CASE Signal
  BY <1>21 DEF Signal, spoolVars
<1>22. CASE Shutdown
  BY <1>22 DEF Shutdown, ProcessEnds, spoolVars
<1>23. CASE Restart
  BY <1>23 DEF Restart, spoolVars
<1>24. CASE DbGoes
  BY <1>24 DEF DbGoes, spoolVars
<1>25. CASE DbReturns
  BY <1>25 DEF DbReturns, spoolVars
<1>26. CASE Age
  BY <1>26 DEF Age, spoolVars
<1>27. CASE UNCHANGED vars
  BY <1>27 DEF vars, spoolVars
<1> QED BY <1>1, <1>2, <1>3, <1>4, <1>5, <1>6, <1>7, <1>8, <1>9, <1>10, <1>11, <1>12, <1>13, <1>14, <1>15, <1>16, <1>17, <1>18, <1>19, <1>20, <1>21, <1>22, <1>23, <1>24, <1>25, <1>26, <1>27
     DEF Next, Writer, Flush, Retry, Replay, Cleanup, Environment

\* Only Age moves the purge's cutoff, and it moves nothing else.
LEMMA HorizonStep == [Next]_vars => horizon' = horizon \/ Age
BY DEF Next, Writer, Flush, Retry, Replay, Cleanup, Environment, vars, procVars, ProcessEnds, Emit,
    WriterPoll, WriterFlush, InsertCommits, InsertAnswers, InsertFails, SpoolInsert, SpoolCommit, SpoolFails,
    RetryIdle, RetryDrain, RetryCommits, RetryAnswers, RetryInsertFails, ConfirmDelete, ConfirmCommit,
    PurgeDelete, PurgeCommit, RetrySpoolFails, Crash, Signal, Shutdown, Restart, DbGoes, DbReturns

\* One record moves the way StoreAndForward allows.
LEMMA MayStep ==
    ASSUME StoreInv, StoreInv', [Next]_vars, NEW r \in Record
    PROVE  Promise!May(Status(r), Status(r)', r)
<1> USE DEF Promise!May, Promise!Accept, Promise!Leave, Promise!Replay, Promise!Purge
<1>1. /\ TypeOK /\ TypeOK'
      /\ produced \in Nat /\ r \in Nat
      /\ produced' \in {produced, produced + 1}
  <2>1. TypeOK /\ TypeOK'
    BY DEF StoreInv
  <2>2. produced \in Nat /\ r \in Nat
    BY <2>1, BoundsAssumption DEF TypeOK, Record
  <2> QED BY <2>1, <2>2, ProducedGrows
<1>2. /\ Status(r)' = "new" <=> r > produced'
      /\ Status(r)' = "stored" <=> r <= produced' /\ r \in Stored'
      /\ Status(r)' = "durable" <=> r <= produced' /\ r \notin Stored' /\ r \in RecsOf(disk')
      /\ Status(r)' = "gone" <=> r <= produced' /\ r \notin Stored' /\ r \notin RecsOf(disk') \cup Held'
      /\ Status(r)' \in {"new", "held", "durable", "stored", "gone"}
  <2>1. (TypeOK => StatusOK)'
    BY StatusValues, PTL
  <2> QED BY <1>1, <2>1 DEF StatusOK
<1>0. /\ Status(r) = "new" <=> r > produced
      /\ Status(r) = "stored" <=> r <= produced /\ r \in Stored
      /\ Status(r) = "durable" <=> r <= produced /\ r \notin Stored /\ r \in RecsOf(disk)
      /\ Status(r) = "gone" <=> r <= produced /\ r \notin Stored /\ r \notin RecsOf(disk) \cup Held
      /\ Status(r) \in {"new", "held", "durable", "stored", "gone"}
  BY <1>1, StatusValues DEF StatusOK
<1>3. CASE Status(r) = "new"
  <2>1. r > produced
    BY <1>0, <1>1, <1>3
  <2>2. r \notin Stored' \cup RecsOf(disk')
    BY <1>1, <2>1, NothingReturns, PresentKnown
  <2> QED BY <1>2, <1>3, <2>2
<1>4. CASE Status(r) = "held"
  <2>1. r <= produced
    BY <1>0, <1>1, <1>4
  <2> QED BY <1>1, <1>2, <1>4, <2>1
<1>5. CASE Status(r) = "stored"
  <2>1. r <= produced /\ r \in Stored
    BY <1>0, <1>1, <1>5
  <2> QED BY <1>1, <1>2, <1>5, <2>1, StoredGrows
<1>6. CASE Status(r) = "gone"
  <2>1. r <= produced /\ r \notin Present
    BY <1>0, <1>6 DEF Present
  <2>2. r \notin Stored' \cup RecsOf(disk') \cup Held'
    BY <1>1, <2>1, NothingReturns
  <2> QED BY <1>1, <1>2, <1>6, <2>1, <2>2
<1>7. CASE Status(r) = "durable"
  <2>1. r <= produced /\ r \notin Stored /\ r \in RecsOf(disk)
    BY <1>0, <1>1, <1>7
  <2>2. PICK x \in disk : x.rec = r
    BY <2>1 DEF RecsOf
  <2>3. CASE x \in disk'
    <3>1. r \in RecsOf(disk')
      BY <2>2, <2>3 DEF RecsOf
    <3> QED BY <1>1, <1>2, <1>7, <2>1, <3>1
  <2>4. CASE x \notin disk'
    <3>1. disk' = spool /\ Held' \subseteq Held
      BY <2>2, <2>4, CommitKeepsHeld
    <3>2. r \in Aged \ Held
      BY <2>1, <2>2, <2>4, <3>1 DEF StoreInv, SpoolInv, DeletedAccounted
    <3>3. r <= horizon /\ r \notin Held' \cup RecsOf(disk')
      BY <3>1, <3>2 DEF Aged, Held
    <3> QED BY <1>1, <1>2, <1>7, <2>1, <3>3
  <2> QED BY <2>3, <2>4
<1> QED BY <1>1, <1>3, <1>4, <1>5, <1>6, <1>7, <1>0

\* The supervisor's tasks, statements and transactions keep StoreAndForward's promise.
THEOREM Implements == Spec => KeepsPromise
<1>1. Init => Promise!Init
  <2> SUFFICES ASSUME Init PROVE Promise!Init
    OBVIOUS
  <2>1. produced = 0 /\ \A r \in Record : r > produced /\ ~(r <= produced)
    BY BoundsAssumption DEF Init, Record
  <2>2. \A r \in Record : Status(r) = "new"
    BY <2>1 DEF Status
  <2> QED BY <2>2 DEF Init, Promise!Init
<1>2. StoreInv /\ StoreInv' /\ [Next]_vars
        => [Promise!Next]_<<[r \in Record |-> Status(r)], horizon>>
  <2> SUFFICES ASSUME StoreInv, StoreInv', [Next]_vars
               PROVE  Promise!Move \/ Promise!Age
    BY DEF Promise!Next
  <2>1. CASE horizon' = horizon
    <3>1. \A r \in Record : Status(r)' \in Promise!Status
      <4>1. (TypeOK => StatusOK)'
        BY StatusValues, PTL
      <4> QED BY <4>1 DEF StoreInv, StatusOK, Promise!Status
    <3>2. [r \in Record |-> Status(r)]' \in [Record -> Promise!Status]
      BY <3>1
    <3> QED BY <2>1, <3>2, MayStep DEF Promise!Move
  <2>2. CASE Age
    <3>1. \A r \in Record : Status(r)' = Status(r)
      BY <2>2 DEF Age, Status, Held, Unwritten, queueVars, writerVars, spoolVars, retryVars, dbVars, procVars
    <3> QED BY <2>2, <3>1 DEF Age, Promise!Age
  <2> QED BY <2>1, <2>2, HorizonStep
<1> QED BY <1>1, <1>2, StoreInvariant, PTL DEF Spec, KeepsPromise, Promise!Spec

=============================================================================
