------------------------- MODULE WebServer_proofs --------------------------
(***************************************************************************)
(* The two live views the web server feeds.  EventStream: types, that the  *)
(* cursor passes nothing by but replayed rows and ties, and that no card   *)
(* goes back to older values, for any devices, rows, clock ticks, limits   *)
(* and lost connections.  LiveFollow: types, and that a job is shown       *)
(* whole, for any jobs, points, limits, clicks and fetches under way.      *)
(***************************************************************************)
EXTENDS EventStream, LiveFollow, FiniteSetTheorems, TLAPS

-----------------------------------------------------------------------------
(* Least and greatest *)

\* A set of numbers has a least element, one that is bounded has a greatest.
LEMMA Least ==
    ASSUME NEW S \in SUBSET Nat, S # {}
    PROVE  \E n \in S : \A m \in S : n <= m
<1>1. PICK n \in S : \A m \in S : <<m, n>> \notin OpToRel(<, Nat)
  BY WFMin, NatLessThanWellFounded, Zenon
<1>2. ASSUME NEW m \in S PROVE n <= m
  <2>1. ~(m < n) /\ m \in Nat /\ n \in Nat
    BY <1>1 DEF OpToRel
  <2> QED BY <2>1
<1> QED BY <1>2

LEMMA Most ==
    ASSUME NEW N \in Nat, NEW S \in SUBSET (1..N), S # {}
    PROVE  \E t \in S : \A u \in S : u <= t
<1> DEFINE Gaps == {N - t : t \in S}
<1>0. \A t \in S : N - t \in Nat
  OBVIOUS
<1>1. Gaps \in SUBSET Nat /\ Gaps # {}
  BY <1>0
<1>2. PICK g \in Gaps : \A h \in Gaps : g <= h
  BY <1>1, Least
<1>3. PICK t \in S : g = N - t
  BY <1>2
<1>4. ASSUME NEW u \in S PROVE u <= t
  <2>1. g <= N - u
    BY <1>2
  <2> QED BY <1>3, <2>1
<1> QED BY <1>4

-----------------------------------------------------------------------------
(* EventStream: rows and their timestamps *)

\* Rows queued in order are stored with timestamps that are in order up to the rounding of
\* log records, and of two records of devices the later is never the older.
LEMMA StampsInOrder ==
    ASSUME TypeOK, Stamped, NEW r \in Row, NEW q \in Row, r < q
    PROVE  /\ ts[r] <= ts[q] + Skew
           /\ dev[r] # System /\ dev[q] # System => ts[r] <= ts[q]
<1>1. ts[r] \in Int /\ ts[q] \in Int /\ tick[r] \in Int /\ tick[q] \in Int /\ Skew \in Nat
  BY StreamAssumption DEF TypeOK
<1>2. /\ tick[r] <= tick[q] /\ tick[r] - Skew <= ts[r] /\ ts[r] <= tick[r] + Skew
      /\ tick[q] - Skew <= ts[q] /\ ts[q] <= tick[q] + Skew
  BY <1>1 DEF Stamped
<1>3. CASE dev[r] = System /\ dev[q] = System
  <2>1. ts[r] <= ts[q]
    BY <1>3 DEF Stamped
  <2> QED BY <1>1, <1>3, <2>1
<1>4. CASE dev[r] # System
  <2>1. ts[r] = tick[r]
    BY <1>4 DEF Stamped
  <2>2. dev[q] # System => ts[q] = tick[q]
    BY DEF Stamped
  <2> QED BY <1>1, <1>2, <2>1, <2>2
<1>5. CASE dev[q] # System /\ dev[r] = System
  <2>1. ts[q] = tick[q]
    BY <1>5 DEF Stamped
  <2> QED BY <1>1, <1>2, <1>5, <2>1
<1> QED BY <1>3, <1>4, <1>5

LEMMA RowNumbers ==
    /\ MaxRows \in Nat /\ MaxTick \in Nat /\ Skew \in Nat /\ Limit \in Nat /\ SeedLimit \in Nat
    /\ IsFiniteSet(Row) /\ \A r \in Row : r \in Nat /\ r # 0 /\ r \in 0..MaxRows
BY StreamAssumption, FS_Interval DEF Row

\* ORDER BY ts ASC: every row once, none before an older one.
LEMMA SortedRows ==
    ASSUME NEW S \in SUBSET Row, NEW s \in Sorted(S)
    PROVE  /\ s \in Seq(S) /\ s \in Seq(Row) /\ DOMAIN s = 1..Len(s)
           /\ \A i, j \in DOMAIN s : i < j => ts[s[i]] <= ts[s[j]]
           /\ \A r \in S : \E i \in DOMAIN s : s[i] = r
<1> DEFINE N == Cardinality(S)
<1>1. IsFiniteSet(S) /\ N \in Nat /\ IsFiniteSet(1..N) /\ Cardinality(1..N) = N
  <2>1. IsFiniteSet(S) /\ N \in Nat
    BY RowNumbers, FS_Subset, FS_CardinalityType
  <2> HIDE DEF N
  <2> QED BY <2>1, FS_Interval
<1>2. s \in [1..N -> S] /\ IsInjective(s)
  BY DEF Sorted
<1>3. s \in Injection(1..N, S)
  BY <1>2 DEF Injection, IsInjective
<1>4. s \in Surjection(1..N, S)
  BY <1>1, <1>3, FS_Injection
<1>5. \A r \in S : \E i \in 1..N : s[i] = r
  BY <1>4 DEF Surjection
<1>6. \A i, j \in DOMAIN s : i < j => ts[s[i]] <= ts[s[j]]
  BY DEF Sorted
<1>7. s \in Seq(S) /\ DOMAIN s = 1..N /\ Len(s) = N
  BY <1>1, <1>2
<1>8. s \in Seq(Row)
  BY <1>7
<1> QED BY <1>5, <1>6, <1>7, <1>8

\* The rows of the devices, each once, in whatever order.
LEMMA SeededRows ==
    ASSUME NEW S \in SUBSET Row
    PROVE  /\ SetToSeq(S) \in Seq(S)
           /\ \A i, j \in DOMAIN SetToSeq(S) : SetToSeq(S)[i] = SetToSeq(S)[j] => i = j
<1> DEFINE N == Cardinality(S)
<1>1. IsFiniteSet(S) /\ N \in Nat
  BY RowNumbers, FS_Subset, FS_CardinalityType
<1>2. ExistsBijection(1..N, S)
  BY <1>1, FS_CardinalityType
<1>3. \E f \in [1..N -> S] : IsInjective(f)
  BY <1>2 DEF ExistsBijection, Bijection, Injection, IsInjective
<1>4. SetToSeq(S) \in [1..N -> S] /\ IsInjective(SetToSeq(S))
  BY <1>3 DEF SetToSeq
<1> QED BY <1>1, <1>4 DEF IsInjective

\* A device without rows is not seeded, any other with one of its newest.
LEMMA NewestOfDevice ==
    ASSUME TypeOK, NEW newest \in Snapshots, NEW d \in Devices, newest[d] # 0
    PROVE  /\ newest[d] \in table /\ newest[d] \in Row /\ dev[newest[d]] = d
           /\ \A r \in table : dev[r] = d => ts[r] <= ts[newest[d]]
BY DEF Snapshots, RowsOf, TypeOK

\* LIMIT: the oldest rows, or the newest.
LEMMA FirstRows ==
    ASSUME NEW S, NEW s \in Seq(S), NEW n \in Nat
    PROVE  /\ FirstOf(n, s) \in Seq(S) /\ Len(FirstOf(n, s)) <= n
           /\ Len(FirstOf(n, s)) <= Len(s) /\ (Len(FirstOf(n, s)) < Len(s) => Len(FirstOf(n, s)) = n)
           /\ \A i \in 1..Len(FirstOf(n, s)) : FirstOf(n, s)[i] = s[i]
BY DEF FirstOf

LEMMA LastRows ==
    ASSUME NEW S, NEW s \in Seq(S), NEW n \in Nat
    PROVE  LastOf(n, s) \in Seq(S)
BY DEF LastOf

\* What a poll fetches: the oldest rows behind the cursor, in order, and of those up to the
\* last it leaves out only some that share their timestamp with it.
LEMMA FetchedRows ==
    ASSUME TypeOK, Newer # {}, NEW s \in Sorted(Newer), NEW a, a = FirstOf(Limit, s)
    PROVE  /\ a \in Seq(Row) /\ Len(a) <= Limit /\ a # <<>> /\ ToSet(a) \subseteq table
           /\ \A i, j \in DOMAIN a : i < j => ts[a[i]] <= ts[a[j]]
           /\ \A i \in DOMAIN a : cursor < ts[a[i]]
           /\ \A r \in table : cursor < ts[r] /\ ts[r] <= ts[Last(a)] =>
                 r \in ToSet(a) \/ ts[r] = ts[Last(a)]
<1>1. Newer \in SUBSET Row /\ cursor \in Int /\ \A r \in Row : ts[r] \in Int
  BY DEF Newer, TypeOK
<1>2. /\ s \in Seq(Newer) /\ DOMAIN s = 1..Len(s) /\ Len(s) \in Nat
      /\ \A i, j \in DOMAIN s : i < j => ts[s[i]] <= ts[s[j]]
      /\ \A r \in Newer : \E i \in DOMAIN s : s[i] = r
  BY <1>1, SortedRows
<1>3. /\ a \in Seq(Newer) /\ Len(a) <= Limit /\ Len(a) <= Len(s)
      /\ (Len(a) < Len(s) => Len(a) = Limit)
      /\ \A i \in 1..Len(a) : a[i] = s[i]
  BY <1>2, FirstRows, RowNumbers
<1>4. Len(a) \in 1..Len(s)
  <2>1. Len(s) # 0
    BY <1>2
  <2>2. Limit # 0
    BY StreamAssumption
  <2> QED BY <1>2, <1>3, <2>1, <2>2, RowNumbers
<1>5. /\ a \in Seq(Row) /\ a # <<>> /\ DOMAIN a = 1..Len(a) /\ Last(a) = s[Len(a)]
      /\ \A i \in DOMAIN a : a[i] \in Newer /\ i \in DOMAIN s /\ a[i] = s[i]
  <2>1. DOMAIN a = 1..Len(a) /\ Len(a) \in 1..Len(a) /\ Len(a) <= Len(s)
    BY <1>2, <1>3, <1>4
  <2>2. \A i \in DOMAIN a : a[i] \in Newer /\ i \in DOMAIN s /\ a[i] = s[i]
    BY <1>2, <1>3, <2>1
  <2>3. a \in Seq(Row)
    BY <1>1, <1>3
  <2>4. a # <<>> /\ Last(a) = s[Len(a)]
    BY <2>1, <2>2 DEF Last
  <2> QED BY <2>1, <2>2, <2>3, <2>4
<1>6. ToSet(a) \subseteq table /\ \A i \in DOMAIN a : cursor < ts[a[i]]
  BY <1>1, <1>5 DEF ToSet, Newer
<1>7. \A i, j \in DOMAIN a : i < j => ts[a[i]] <= ts[a[j]]
  BY <1>2, <1>5
<1>8. ASSUME NEW r \in table, cursor < ts[r], ts[r] <= ts[Last(a)], r \notin ToSet(a)
      PROVE  ts[r] = ts[Last(a)]
  <2>1. r \in Newer
    BY <1>8, <1>1 DEF Newer
  <2>2. PICK i \in DOMAIN s : s[i] = r
    BY <1>2, <2>1
  <2>3. Len(a) < i
    <3>1. i \notin DOMAIN a
      BY <1>5, <1>8, <2>2 DEF ToSet
    <3> QED BY <1>2, <1>4, <1>5, <3>1
  <2>4. ts[s[Len(a)]] <= ts[s[i]]
    BY <1>2, <1>4, <2>3
  <2>5. ts[r] \in Int /\ ts[Last(a)] \in Int
    BY <1>1, <1>2, <1>4, <1>5, <2>1
  <2> QED BY <1>5, <1>8, <2>2, <2>4, <2>5
<1> QED BY <1>3, <1>5, <1>6, <1>7, <1>8

-----------------------------------------------------------------------------
(* EventStream: types *)

LEMMA WrittenTypes ==
    ASSUME TypeOK, NEW s \in Seq(Row)
    PROVE  Written(s) \in Seq(Row)
BY DEF TypeOK, Written

LEMMA TypeStep ==
    ASSUME TypeOK, pc = "answer" => answer # <<>>, [Next]_vars
    PROVE  TypeOK'
<1> USE RowNumbers DEF rowVars, tableVars, handlerVars, lineVars, browserVars
<1>1. CASE Produce
  <2>1. made' \in Row /\ made' \in 0..MaxRows
    BY <1>1 DEF Produce, TypeOK, Row
  <2>2. flight' \in Seq(Row)
    BY <1>1, <2>1 DEF Produce, TypeOK
  <2> QED BY <1>1, <2>1, <2>2 DEF Produce, TypeOK
<1>2. CASE Flush
  <2>1. ToSet(flight) \subseteq Row /\ flight' \in Seq(Row)
    BY <1>2 DEF Flush, TypeOK, ToSet
  <2> QED BY <1>2, <2>1 DEF Flush, TypeOK
<1>3. CASE Replay
  BY <1>3 DEF Replay, TypeOK
<1>4. CASE SeedDevices
  <2>1. PICK newest \in Snapshots : wire' = Written(SetToSeq({newest[d] : d \in Devices} \ {0}))
    BY <1>4 DEF SeedDevices
  <2> DEFINE S == {newest[d] : d \in Devices} \ {0}
  <2>2. S \in SUBSET Row
    BY NewestOfDevice
  <2>3. SetToSeq(S) \in Seq(Row)
    BY <2>2, SeededRows
  <2> QED BY <1>4, <2>1, <2>3, WrittenTypes DEF SeedDevices, TypeOK
<1>5. CASE SeedLogs
  <2>1. PICK s \in Sorted(RowsOf(System)) : wire' = Written(LastOf(SeedLimit, s))
    BY <1>5 DEF SeedLogs
  <2>2. RowsOf(System) \in SUBSET Row
    BY DEF RowsOf, TypeOK
  <2>3. s \in Seq(Row)
    BY <2>2, SortedRows
  <2>4. LastOf(SeedLimit, s) \in Seq(Row)
    BY <2>3, LastRows
  <2> QED BY <1>5, <2>1, <2>4, WrittenTypes DEF SeedLogs, TypeOK
<1>6. CASE Begin
  <2>1. Now \in Int
    BY DEF Now, TypeOK, Row
  <2> QED BY <1>6, <2>1 DEF Begin, TypeOK
<1>7. CASE Poll
  <2>1. PICK s \in Sorted(Newer) : answer' = FirstOf(Limit, s)
    BY <1>7 DEF Poll
  <2>2. answer' \in Seq(Row) /\ Len(answer') <= Limit
    BY <1>7, <2>1, FetchedRows DEF Poll
  <2> QED BY <1>7, <2>2 DEF Poll, TypeOK
<1>8. CASE Answer
  <2>1. Last(answer) \in Row /\ answer' \in Seq(Row) /\ Len(answer') <= Limit
    BY <1>8 DEF Answer, TypeOK, Last
  <2>2. wire' \in Seq(Row)
    BY <1>8, WrittenTypes DEF Answer, TypeOK
  <2>3. ToSet(answer) \subseteq Row
    BY DEF TypeOK, ToSet
  <2>4. cursor' \in Int
    BY <1>8, <2>1 DEF Answer, TypeOK
  <2>5. sent' \subseteq Row
    BY <1>8, <2>3 DEF Answer, TypeOK
  <2> QED BY <1>8, <2>1, <2>2, <2>4, <2>5 DEF Answer, TypeOK
<1>9. CASE StreamEnds
  BY <1>9, StreamAssumption DEF StreamEnds, TypeOK
<1>10. CASE LineDies
  BY <1>10, StreamAssumption DEF LineDies, TypeOK
<1>11. CASE Connect \/ Watchdog
  <2>1. answer' = <<>> /\ wire' = <<>> /\ sent' = {} /\ pc' = "devices" /\ dead' = FALSE
        /\ UNCHANGED <<tableVars, shown, cursor, start, drops>> /\ silent' \in {silent, FALSE}
    BY <1>11 DEF Connect, Watchdog, NewConnection
  <2>2. <<>> \in Seq(Row) /\ Len(<<>>) <= Limit
    OBVIOUS
  <2> QED BY <2>1, <2>2 DEF TypeOK
<1>12. CASE Receive
  <2>1. Head(wire) \in Row /\ wire' \in Seq(Row)
    BY <1>12 DEF Receive, TypeOK
  <2>2. shown' \in [Devices -> 0..MaxRows]
    BY <1>12, <2>1 DEF Receive, TypeOK
  <2> QED BY <1>12, <2>1, <2>2 DEF Receive, TypeOK
<1>13. CASE Silence
  BY <1>13 DEF Silence, TypeOK
<1>14. CASE UNCHANGED vars
  BY <1>14 DEF vars, TypeOK
<1> QED BY <1>1, <1>2, <1>3, <1>4, <1>5, <1>6, <1>7, <1>8, <1>9, <1>10, <1>11, <1>12, <1>13, <1>14 DEF Next, Handler

-----------------------------------------------------------------------------
(* EventStream: the cursor *)

\* Rows reach the table in order, but for those the spool replays: what is still under
\* way was queued after all that was flushed before it.
TableInv ==
    /\ Stamped
    /\ table \cup spool \subseteq 1..made
    /\ \A f \in ToSet(flight) : f <= made /\ \A r \in table \cup spool : r < f

\* The cursor is where the connection began, or at a row that was sent.
Polling == pc \in {"poll", "answer"}

CursorInv ==
    Polling =>
        /\ start <= cursor /\ sent \subseteq table
        /\ cursor = start \/ \E q \in sent : ts[q] = cursor

\* Up to its last row, an answer leaves out only what was replayed since, and rows whose
\* timestamp is that of its last, up to the rounding of log records.
AnswerInv ==
    pc = "answer" =>
        /\ answer # <<>> /\ ToSet(answer) \subseteq table
        /\ \A i, j \in DOMAIN answer : i < j => ts[answer[i]] <= ts[answer[j]]
        /\ \A i \in DOMAIN answer : cursor < ts[answer[i]]
        /\ \A r \in table \ (ToSet(answer) \cup late) :
              cursor < ts[r] /\ ts[r] <= ts[Last(answer)] => ts[Last(answer)] <= ts[r] + Skew

LEMMA StampsStay ==
    ASSUME [Next]_vars
    PROVE  UNCHANGED <<dev, tick, ts>> /\ (Stamped => Stamped')
<1>1. UNCHANGED <<dev, tick, ts>>
  BY DEF Next, Handler, Produce, Flush, Replay, SeedDevices, SeedLogs, Begin, Poll, Answer, StreamEnds,
         LineDies, Connect, Receive, Silence, Watchdog, vars, tableVars, rowVars
<1> QED BY <1>1 DEF Stamped

LEMMA TableStep == TypeOK /\ TableInv /\ [Next]_vars => TableInv'
<1> SUFFICES ASSUME TypeOK, TableInv, [Next]_vars PROVE TableInv'
  OBVIOUS
<1>0. made \in Nat /\ flight \in Seq(Row) /\ table \subseteq Row /\ spool \subseteq Row
      /\ \A r \in Row : r \in Nat
  BY StreamAssumption DEF TypeOK, Row
<1>1. CASE Produce
  <2>1. ToSet(flight') = ToSet(flight) \cup {made + 1}
    <3>1. DOMAIN flight = 1..Len(flight) /\ DOMAIN flight' = 1..(Len(flight) + 1)
          /\ Len(flight) \in Nat
      BY <1>0, <1>1 DEF Produce
    <3>2. \A i \in DOMAIN flight' : flight'[i] = IF i = Len(flight) + 1 THEN made + 1 ELSE flight[i]
      BY <1>0, <1>1, <3>1 DEF Produce
    <3> QED BY <3>1, <3>2 DEF ToSet
  <2>2. ToSet(flight) \subseteq Nat
    BY <1>0 DEF ToSet
  <2>3. made' = made + 1 /\ table' = table /\ spool' = spool
    BY <1>1 DEF Produce
  <2>4. table \cup spool \subseteq 1..(made + 1) /\ \A r \in table \cup spool : r < made + 1
    BY <1>0 DEF TableInv
  <2> QED BY <1>0, <2>1, <2>2, <2>3, <2>4, StampsStay DEF TableInv
<1>2. CASE Flush
  <2>1. /\ made' = made /\ ToSet(flight') = {}
        /\ table' \cup spool' = table \cup spool \cup ToSet(flight)
    BY <1>2 DEF Flush, ToSet
  <2>2. ToSet(flight) \subseteq 1..made
    <3>1. ToSet(flight) \subseteq Row
      BY <1>0 DEF ToSet
    <3> QED BY <1>0, <3>1 DEF TableInv, Row
  <2> QED BY <2>1, <2>2, StampsStay DEF TableInv
<1>3. CASE Replay
  BY <1>3, StampsStay DEF Replay, TableInv, tableVars
<1>4. CASE UNCHANGED tableVars
  BY <1>4, StampsStay DEF TableInv, tableVars
<1> QED BY <1>1, <1>2, <1>3, <1>4
     DEF Next, Handler, SeedDevices, SeedLogs, Begin, Poll, Answer, StreamEnds, LineDies, Connect,
         Receive, Silence, Watchdog, vars, handlerVars, lineVars, browserVars

\* Rows that reach the table are replayed, or newer than all that was in it.
LEMMA NewRows ==
    ASSUME TypeOK, TableInv, Flush \/ Replay
    PROVE  /\ table \subseteq table' /\ late \subseteq late' /\ made' = made
           /\ \A r \in table' \ table : r \in late' \/ \A q \in table : q < r
           /\ \A r \in table' : r <= made
           /\ UNCHANGED <<handlerVars, lineVars, browserVars>>
<1>1. made \in Nat /\ flight \in Seq(Row) /\ \A r \in Row : r \in Nat
  BY StreamAssumption DEF TypeOK, Row
<1>2. CASE Flush
  BY <1>1, <1>2 DEF Flush, TableInv
<1>3. CASE Replay
  BY <1>1, <1>3 DEF Replay, TableInv
<1> QED BY <1>2, <1>3

\* A row that was queued after one with this timestamp is not stored with an older one, up
\* to the rounding of log records.
LEMMA NotOlder ==
    ASSUME TypeOK, Stamped, NEW q \in table, NEW r \in Row, q < r
    PROVE  ts[q] <= ts[r] + Skew
BY StampsInOrder DEF TypeOK

LEMMA CursorStep == TypeOK /\ TableInv /\ CursorInv /\ AnswerInv /\ [Next]_vars => CursorInv'
<1> SUFFICES ASSUME TypeOK, TableInv, CursorInv, AnswerInv, [Next]_vars PROVE CursorInv'
  OBVIOUS
<1>0. /\ cursor \in Int /\ start \in Int /\ \A r \in table : r \in Row /\ ts[r] \in Int
      /\ UNCHANGED ts
  BY StampsStay DEF TypeOK
<1>1. CASE Produce
  BY <1>0, <1>1 DEF Produce, CursorInv, Polling, handlerVars
<1>2. CASE Flush \/ Replay
  BY <1>0, <1>2, NewRows DEF CursorInv, Polling, handlerVars
<1>3. CASE Begin
  <2>1. Now \in Int
    BY RowNumbers DEF Now, TypeOK, Row
  <2> QED BY <1>3, <2>1 DEF Begin, CursorInv, Polling
<1>4. CASE Answer
  <2>1. Len(answer) \in DOMAIN answer /\ Last(answer) = answer[Len(answer)] /\ pc = "answer"
    BY <1>4 DEF Answer, AnswerInv, TypeOK, Last
  <2>2. /\ Last(answer) \in ToSet(answer) /\ ToSet(answer) \subseteq table
        /\ cursor < ts[Last(answer)] /\ ts[Last(answer)] \in Int
    BY <1>0, <2>1 DEF AnswerInv, ToSet
  <2>3. /\ cursor' = ts[Last(answer)] /\ sent' = sent \cup ToSet(answer)
        /\ UNCHANGED <<start, table>> /\ Polling
    BY <1>4 DEF Answer, Polling, tableVars
  <2>4. start' <= cursor'
    BY <1>0, <2>2, <2>3 DEF CursorInv
  <2> QED BY <1>0, <2>2, <2>3, <2>4 DEF CursorInv
<1>5. CASE Poll
  BY <1>0, <1>5 DEF Poll, CursorInv, Polling, tableVars
<1>6. CASE SeedDevices \/ SeedLogs \/ StreamEnds \/ Connect \/ Watchdog
  BY <1>6 DEF SeedDevices, SeedLogs, StreamEnds, Connect, Watchdog, NewConnection, CursorInv, Polling
<1>7. CASE LineDies \/ Receive \/ Silence \/ UNCHANGED vars
  BY <1>0, <1>7 DEF LineDies, Receive, Silence, vars, CursorInv, Polling, handlerVars, tableVars
<1> QED BY <1>1, <1>2, <1>3, <1>4, <1>5, <1>6, <1>7 DEF Next, Handler

LEMMA AnswerStep == TypeOK /\ TableInv /\ AnswerInv /\ [Next]_vars => AnswerInv'
<1> SUFFICES ASSUME TypeOK, TableInv, AnswerInv, [Next]_vars, pc' = "answer" PROVE AnswerInv'
  BY DEF AnswerInv
<1>0. /\ UNCHANGED ts /\ Skew \in Nat /\ \A r \in Row : r \in Nat /\ ts[r] \in Int
  BY StampsStay, RowNumbers DEF TypeOK
<1>1. CASE Flush \/ Replay
  <2>1. UNCHANGED <<pc, answer, cursor>> /\ pc = "answer"
    BY <1>1, NewRows DEF handlerVars
  <2>2. Last(answer) \in table
    BY <2>1 DEF AnswerInv, ToSet, Last, TypeOK
  <2>3. table' \subseteq Row /\ table \subseteq Row
    BY <1>1 DEF Flush, Replay, TypeOK, ToSet
  <2>4. ASSUME NEW r \in table', r \notin ToSet(answer) \cup late', cursor < ts[r], ts[r] <= ts[Last(answer)]
        PROVE  ts[Last(answer)] <= ts[r] + Skew
    <3>1. CASE r \in table
      BY <1>1, <2>1, <2>4, <3>1, NewRows DEF AnswerInv
    <3>2. CASE r \notin table
      <4>1. Last(answer) < r /\ r \in Row
        BY <1>1, <2>2, <2>3, <2>4, <3>2, NewRows
      <4> QED BY <2>2, <4>1, NotOlder DEF TableInv
    <3> QED BY <3>1, <3>2
  <2> QED BY <1>0, <1>1, <2>1, <2>4, NewRows DEF AnswerInv
<1>2. CASE Poll
  <2>1. PICK s \in Sorted(Newer) : answer' = FirstOf(Limit, s)
    BY <1>2 DEF Poll
  <2>2. /\ answer' \in Seq(Row) /\ answer' # <<>> /\ ToSet(answer') \subseteq table
        /\ \A i, j \in DOMAIN answer' : i < j => ts[answer'[i]] <= ts[answer'[j]]
        /\ \A i \in DOMAIN answer' : cursor < ts[answer'[i]]
        /\ \A r \in table : cursor < ts[r] /\ ts[r] <= ts[Last(answer')] =>
              r \in ToSet(answer') \/ ts[r] = ts[Last(answer')]
    BY <1>2, <2>1, FetchedRows DEF Poll
  <2>3. \A r \in table : ts[r] \in Int /\ ts[r] <= ts[r] + Skew
    BY <1>0 DEF TypeOK
  <2>4. UNCHANGED <<cursor, table, late>>
    BY <1>2 DEF Poll, tableVars
  <2> HIDE DEF ToSet, Last
  <2> QED BY <1>0, <2>2, <2>3, <2>4 DEF AnswerInv
<1>3. CASE UNCHANGED <<pc, answer, cursor, table, late>>
  BY <1>0, <1>3 DEF AnswerInv
<1>4. CASE Begin \/ Answer \/ SeedDevices \/ SeedLogs \/ StreamEnds \/ Connect \/ Watchdog
  BY <1>4 DEF Begin, Answer, SeedDevices, SeedLogs, StreamEnds, Connect, Watchdog, NewConnection
<1> QED BY <1>1, <1>2, <1>3, <1>4
     DEF Next, Handler, Produce, LineDies, Receive, Silence, vars, tableVars, handlerVars

LEMMA GapStep ==
    TypeOK /\ TableInv /\ CursorInv /\ AnswerInv /\ NoGap /\ [Next]_vars => NoGap'
<1> SUFFICES ASSUME TypeOK, TableInv, CursorInv, AnswerInv, NoGap, [Next]_vars,
                    Polling', NEW r \in table', r \notin sent' \cup late', start' < ts[r], ts[r] <= cursor'
             PROVE  \E q \in sent' : ts[q] \in ts[r]..(ts[r] + Skew)
  BY StampsStay DEF NoGap, Polling
<1>0. /\ cursor \in Int /\ start \in Int /\ Skew \in Nat
      /\ \A q \in Row : q \in Nat /\ ts[q] \in Int
  BY RowNumbers DEF TypeOK
<1>1. CASE Flush \/ Replay
  <2>1. UNCHANGED <<pc, cursor, start, sent>> /\ Polling
    BY <1>1, NewRows DEF handlerVars, Polling
  <2>2. CASE r \in table
    BY <1>1, <2>1, <2>2, NewRows DEF NoGap, Polling
  <2>3. CASE r \notin table
    <3>1. r \in Row /\ table \subseteq Row /\ \A q \in table : q < r
      <4>1. r \in Row /\ table \subseteq Row
        BY <1>1 DEF Flush, Replay, TypeOK, ToSet
      <4>2. \A q \in table : q < r
        BY <1>1, <2>3, NewRows
      <4> QED BY <4>1, <4>2
    <3>2. PICK q \in sent : ts[q] = cursor /\ q \in table
      BY <1>0, <2>1, <3>1 DEF CursorInv
    <3>3. ts[q] <= ts[r] + Skew
      BY <3>1, <3>2, NotOlder DEF TableInv
    <3> QED BY <1>0, <2>1, <3>1, <3>2, <3>3
  <2> QED BY <2>2, <2>3
<1>2. CASE Answer
  <2>1. UNCHANGED <<table, late, start>> /\ cursor' = ts[Last(answer)] /\ pc = "answer"
        /\ sent' = sent \cup ToSet(answer) /\ Polling
    BY <1>2 DEF Answer, tableVars, Polling
  <2>2. CASE ts[r] <= cursor
    BY <2>1, <2>2 DEF NoGap, Polling
  <2>3. CASE cursor < ts[r]
    <3>1. ts[Last(answer)] <= ts[r] + Skew
      BY <2>1, <2>3 DEF AnswerInv
    <3>2. Last(answer) \in ToSet(answer) /\ Last(answer) \in Row
      BY <2>1 DEF AnswerInv, TypeOK, ToSet, Last
    <3>3. ts[Last(answer)] \in ts[r]..(ts[r] + Skew)
      BY <1>0, <2>1, <3>1, <3>2 DEF TypeOK
    <3> QED BY <2>1, <3>2, <3>3
  <2> QED BY <1>0, <2>1, <2>2, <2>3 DEF TypeOK
<1>3. CASE Begin
  <2>1. Now \in Int /\ ts[r] \in Int /\ start' = Now /\ cursor' = Now
    BY <1>0, <1>3, RowNumbers DEF Begin, Now, TypeOK, Row, tableVars
  <2> QED BY <2>1
<1>4. CASE Poll \/ UNCHANGED <<pc, cursor, start, sent, table, late>>
  BY <1>4 DEF Poll, NoGap, Polling, tableVars
<1>5. CASE SeedDevices \/ SeedLogs \/ StreamEnds \/ Connect \/ Watchdog
  BY <1>5 DEF SeedDevices, SeedLogs, StreamEnds, Connect, Watchdog, NewConnection, Polling
<1> QED BY <1>1, <1>2, <1>3, <1>4, <1>5
     DEF Next, Handler, Produce, LineDies, Receive, Silence, vars, tableVars, handlerVars

-----------------------------------------------------------------------------
(* EventStream: the wire *)

\* A card shows a row of its device, and what is on its way to the card is no older, in
\* order; once the connection polls, nothing of it is newer than the cursor.
OnCard(d) == shown[d] = 0 \/ (shown[d] \in table /\ dev[shown[d]] = d)
CardBy(d, t) == shown[d] # 0 => ts[shown[d]] <= t

WireInv ==
    /\ ToSet(wire) \subseteq table /\ (pc = "devices" => wire = <<>>)
    /\ \A d \in Devices : OnCard(d)
    /\ \A i, j \in DOMAIN wire :
          i < j /\ dev[wire[i]] \in Devices /\ dev[wire[i]] = dev[wire[j]] => ts[wire[i]] <= ts[wire[j]]
    /\ \A i \in DOMAIN wire, d \in Devices : dev[wire[i]] = d => CardBy(d, ts[wire[i]])
    /\ Polling => /\ \A i \in DOMAIN wire : dev[wire[i]] \in Devices => ts[wire[i]] <= cursor
                  /\ \A d \in Devices : CardBy(d, cursor)

\* What is written is behind what was written before, or lost.
LEMMA WrittenRows ==
    ASSUME TypeOK, NEW s \in Seq(Row), NEW k \in DOMAIN Written(s)
    PROVE  \/ k \in DOMAIN wire /\ Written(s)[k] = wire[k]
           \/ /\ k - Len(wire) \in DOMAIN s /\ Written(s)[k] = s[k - Len(wire)]
              /\ \A i \in DOMAIN wire : i < k
<1>1. wire \in Seq(Row) /\ DOMAIN wire = 1..Len(wire) /\ DOMAIN s = 1..Len(s)
  BY DEF TypeOK
<1>2. CASE dead
  BY <1>2 DEF Written
<1>3. CASE ~dead
  <2>1. /\ Written(s) = wire \o s /\ Len(wire \o s) = Len(wire) + Len(s)
        /\ DOMAIN (wire \o s) = 1..(Len(wire) + Len(s))
        /\ Len(wire) \in Nat /\ Len(s) \in Nat
    BY <1>1, <1>3 DEF Written
  <2>2. (wire \o s)[k] = IF k <= Len(wire) THEN wire[k] ELSE s[k - Len(wire)]
    BY <1>1, <2>1
  <2> QED BY <1>1, <2>1, <2>2
<1> QED BY <1>2, <1>3

\* What a handler writes keeps the cards' rows in order, if it is in order itself and no
\* older than what is shown and on its way.
LEMMA WireGrows ==
    ASSUME TypeOK, WireInv, NEW s \in Seq(Row), wire' = Written(s),
           UNCHANGED <<dev, ts, table, shown>>, pc' # "devices", ToSet(s) \subseteq table,
           \A i, j \in DOMAIN s :
              i < j /\ dev[s[i]] \in Devices /\ dev[s[i]] = dev[s[j]] => ts[s[i]] <= ts[s[j]],
           \A j \in DOMAIN s :
              dev[s[j]] \in Devices =>
                 /\ CardBy(dev[s[j]], ts[s[j]])
                 /\ \A i \in DOMAIN wire : dev[wire[i]] = dev[s[j]] => ts[wire[i]] <= ts[s[j]],
           Polling' => /\ \A i \in DOMAIN wire : dev[wire[i]] \in Devices => ts[wire[i]] <= cursor'
                       /\ \A j \in DOMAIN s : dev[s[j]] \in Devices => ts[s[j]] <= cursor'
                       /\ \A d \in Devices : CardBy(d, cursor')
    PROVE  WireInv'
<1> DEFINE old(k) == k \in DOMAIN wire /\ wire'[k] = wire[k]
           new(k) == /\ k - Len(wire) \in DOMAIN s /\ wire'[k] = s[k - Len(wire)]
                     /\ \A i \in DOMAIN wire : i < k
<1>1. \A k \in DOMAIN wire' : old(k) \/ new(k)
  BY WrittenRows
<1>2. \A k \in DOMAIN wire' : k \in Int
  BY WrittenTypes DEF TypeOK
<1>3. Len(wire) \in Nat /\ DOMAIN wire \subseteq Int
  BY DEF TypeOK
<1>4. ToSet(wire') \subseteq table'
  BY <1>1 DEF WireInv, ToSet
<1>5. ASSUME NEW i \in DOMAIN wire', NEW j \in DOMAIN wire', i < j,
             dev[wire'[i]] \in Devices, dev[wire'[i]] = dev[wire'[j]]
      PROVE  ts[wire'[i]] <= ts[wire'[j]]
  <2>1. CASE old(i) /\ old(j)
    BY <1>5, <2>1 DEF WireInv
  <2>2. CASE old(i) /\ new(j)
    BY <1>5, <2>2
  <2>3. CASE new(i) /\ old(j)
    BY <1>2, <1>5, <2>3
  <2>4. CASE new(i) /\ new(j)
    <3>1. i - Len(wire) < j - Len(wire)
      BY <1>2, <1>3, <1>5
    <3> QED BY <1>5, <2>4, <3>1
  <2> QED BY <1>1, <2>1, <2>2, <2>3, <2>4
<1>6. ASSUME NEW i \in DOMAIN wire', NEW d \in Devices, dev[wire'[i]] = d
      PROVE  CardBy(d, ts[wire'[i]])
  BY <1>1, <1>6 DEF WireInv
<1>7. \A d \in Devices : OnCard(d)'
  BY DEF WireInv, OnCard
<1>8. ASSUME Polling' PROVE \A i \in DOMAIN wire' : dev[wire'[i]] \in Devices => ts[wire'[i]] <= cursor'
  BY <1>1, <1>8
<1> QED BY <1>4, <1>5, <1>6, <1>7, <1>8 DEF WireInv, CardBy

LEMMA WireStep ==
    TypeOK /\ TableInv /\ CursorInv /\ AnswerInv /\ WireInv /\ [Next]_vars => WireInv'
<1> SUFFICES ASSUME TypeOK, TableInv, CursorInv, AnswerInv, WireInv, [Next]_vars PROVE WireInv'
  OBVIOUS
<1>0. /\ cursor \in Int /\ wire \in Seq(Row) /\ table \subseteq Row
      /\ \A r \in Row : r \in Nat /\ r # 0 /\ ts[r] \in Int
      /\ UNCHANGED <<dev, ts>>
  BY RowNumbers, StampsStay DEF TypeOK
<1>1. CASE Flush \/ Replay
  <2>1. table \subseteq table' /\ UNCHANGED <<pc, cursor, wire, shown>>
    BY <1>1, NewRows DEF handlerVars, lineVars, browserVars
  <2> QED BY <1>0, <2>1 DEF WireInv, OnCard, CardBy, Polling
<1>2. CASE SeedDevices
  <2>1. PICK newest \in Snapshots : wire' = Written(SetToSeq({newest[d] : d \in Devices} \ {0}))
    BY <1>2 DEF SeedDevices
  <2> DEFINE S == {newest[d] : d \in Devices} \ {0}
             s == SetToSeq(S)
  <2>2. S \in SUBSET Row /\ S \subseteq table
    BY NewestOfDevice
  <2>3. \A r \in S : \A q \in table : dev[q] = dev[r] => ts[q] <= ts[r]
    BY NewestOfDevice
  <2>4. \A r, q \in S : dev[r] = dev[q] => r = q
    BY NewestOfDevice
  <2> HIDE DEF S
  <2>5. /\ s \in Seq(S) /\ s \in Seq(Row)
        /\ \A i, j \in DOMAIN s : s[i] = s[j] => i = j
    BY <2>2, SeededRows
  <2>6. wire = <<>> /\ wire' = Written(s) /\ UNCHANGED <<table, shown>> /\ pc' = "logs"
    BY <1>2, <2>1 DEF SeedDevices, WireInv, tableVars, browserVars, S
  <2> HIDE DEF s
  <2>7. \A j \in DOMAIN s : s[j] \in S /\ s[j] \in Row
    BY <2>5
  <2>8. \A j \in DOMAIN s : dev[s[j]] \in Devices => CardBy(dev[s[j]], ts[s[j]])
    BY <2>3, <2>7 DEF WireInv, OnCard, CardBy
  <2>9. ToSet(s) \subseteq table
    BY <2>2, <2>7 DEF ToSet
  <2>10. \A i, j \in DOMAIN s : i < j /\ dev[s[i]] = dev[s[j]] => ts[s[i]] <= ts[s[j]]
    BY <1>0, <2>4, <2>7
  <2> QED BY <1>0, <2>5, <2>6, <2>8, <2>9, <2>10, WireGrows DEF Polling
<1>3. CASE SeedLogs
  <2>1. PICK q \in Sorted(RowsOf(System)) : wire' = Written(LastOf(SeedLimit, q))
    BY <1>3 DEF SeedLogs
  <2> DEFINE s == LastOf(SeedLimit, q)
  <2>2. RowsOf(System) \in SUBSET Row /\ \A r \in RowsOf(System) : r \in table /\ dev[r] \notin Devices
    BY StreamAssumption DEF RowsOf, TypeOK
  <2>3. s \in Seq(RowsOf(System)) /\ s \in Seq(Row)
    <3>1. q \in Seq(RowsOf(System))
      BY <2>2, SortedRows
    <3>2. s \in Seq(RowsOf(System))
      BY <3>1, LastRows, RowNumbers
    <3> QED BY <2>2, <3>2
  <2>4. wire' = Written(s) /\ UNCHANGED <<table, shown>> /\ pc' = "cursor"
    BY <1>3, <2>1 DEF SeedLogs, tableVars, browserVars
  <2> HIDE DEF s
  <2>5. \A j \in DOMAIN s : s[j] \in RowsOf(System)
    BY <2>3
  <2> QED BY <1>0, <2>2, <2>3, <2>4, <2>5, WireGrows DEF Polling, ToSet
<1>4. CASE Begin
  <2>1. ASSUME NEW r \in table, dev[r] \in Devices PROVE ts[r] <= Now
    <3>1. /\ r \in 1..made /\ made \in Nat /\ made \in Row /\ made # 0
          /\ tick[r] \in Int /\ tick[made] \in Int
      BY <2>1, RowNumbers DEF TableInv, TypeOK, Row
    <3>2. ts[r] = tick[r]
      BY <1>0, <2>1, StreamAssumption DEF TableInv, Stamped
    <3>3. r # made => tick[r] <= tick[made]
      BY <1>0, <2>1, <3>1 DEF TableInv, Stamped
    <3> QED BY <3>1, <3>2, <3>3 DEF Now
  <2>2. \A i \in DOMAIN wire : dev[wire[i]] \in Devices => ts[wire[i]] <= Now
    BY <2>1 DEF WireInv, ToSet
  <2>3. \A d \in Devices : CardBy(d, Now)
    BY <2>1 DEF WireInv, OnCard, CardBy
  <2>4. cursor' = Now /\ pc' = "poll" /\ UNCHANGED <<table, wire, shown>>
    BY <1>4 DEF Begin, tableVars, lineVars, browserVars
  <2> HIDE DEF Now
  <2> QED BY <1>0, <2>2, <2>3, <2>4 DEF WireInv, OnCard, CardBy, Polling
<1>5. CASE Answer
  <2>1. /\ pc = "answer" /\ pc' = "poll" /\ cursor' = ts[Last(answer)] /\ wire' = Written(answer)
        /\ UNCHANGED <<table, shown>> /\ answer \in Seq(Row) /\ Polling
    BY <1>5 DEF Answer, tableVars, browserVars, TypeOK, Polling
  <2>2. Len(answer) \in DOMAIN answer /\ Last(answer) = answer[Len(answer)] /\ DOMAIN answer = 1..Len(answer)
    BY <2>1 DEF AnswerInv, Last
  <2>3. \A j \in DOMAIN answer : answer[j] \in Row /\ ts[answer[j]] \in Int /\ cursor < ts[answer[j]]
    BY <1>0, <2>1 DEF AnswerInv
  <2>4. \A j \in DOMAIN answer : ts[answer[j]] <= cursor'
    <3>1. \A j \in DOMAIN answer : j = Len(answer) \/ j < Len(answer)
      BY <2>1, <2>2
    <3> QED BY <2>1, <2>2, <2>3, <3>1 DEF AnswerInv
  <2>5. \A i, j \in DOMAIN answer : i < j => ts[answer[i]] <= ts[answer[j]]
    BY <2>1 DEF AnswerInv
  <2>6. \A i \in DOMAIN wire : dev[wire[i]] \in Devices => ts[wire[i]] <= cursor /\ ts[wire[i]] \in Int
    BY <1>0, <2>1 DEF WireInv
  <2>7. \A d \in Devices : CardBy(d, cursor) /\ (shown[d] # 0 => ts[shown[d]] \in Int)
    BY <1>0, <2>1 DEF WireInv, OnCard
  <2>8. \A i \in DOMAIN wire, j \in DOMAIN answer : dev[wire[i]] \in Devices => ts[wire[i]] <= ts[answer[j]]
    BY <1>0, <2>3, <2>6
  <2>9. \A d \in Devices, j \in DOMAIN answer : CardBy(d, ts[answer[j]])
    BY <1>0, <2>3, <2>7 DEF CardBy
  <2>10. ToSet(answer) \subseteq table
    BY <2>1 DEF AnswerInv
  <2>11. \A i \in DOMAIN wire : dev[wire[i]] \in Devices => ts[wire[i]] <= cursor'
    BY <2>1, <2>2, <2>8
  <2>12. \A d \in Devices : CardBy(d, cursor')
    BY <2>1, <2>2, <2>9
  <2> QED BY <1>0, <2>1, <2>4, <2>5, <2>8, <2>9, <2>10, <2>11, <2>12, WireGrows
<1>6. CASE Receive
  <2> DEFINE r == Head(wire)
  <2>1. /\ r = wire[1] /\ r \in table /\ r \in Row /\ 1 \in DOMAIN wire /\ DOMAIN wire = 1..Len(wire)
        /\ wire' = Tail(wire) /\ Len(wire) \in Nat
    BY <1>0, <1>6 DEF Receive, WireInv, ToSet
  <2>2. \A i \in DOMAIN wire' : i + 1 \in DOMAIN wire /\ wire'[i] = wire[i + 1] /\ i \in Int /\ 1 < i + 1
    BY <1>0, <2>1
  <2>3. /\ UNCHANGED <<dev, ts, table, pc, cursor>>
        /\ \A d \in Devices : shown'[d] = IF dev[r] = d THEN r ELSE shown[d]
    BY <1>0, <1>6 DEF Receive, tableVars, handlerVars
  <2> HIDE DEF r
  <2>4. ToSet(wire') \subseteq table'
    BY <2>2, <2>3 DEF WireInv, ToSet
  <2>5. \A d \in Devices : OnCard(d)'
    BY <2>1, <2>3 DEF WireInv, OnCard
  <2>6. \A i, j \in DOMAIN wire' :
           i < j /\ dev'[wire'[i]] \in Devices /\ dev'[wire'[i]] = dev'[wire'[j]]
              => ts'[wire'[i]] <= ts'[wire'[j]]
    BY <2>2, <2>3 DEF WireInv
  <2>7. \A i \in DOMAIN wire', d \in Devices :
           dev'[wire'[i]] = d => (shown'[d] # 0 => ts'[shown'[d]] <= ts'[wire'[i]])
    BY <2>1, <2>2, <2>3 DEF WireInv, CardBy
  <2>8. Polling' => /\ \A i \in DOMAIN wire' : dev'[wire'[i]] \in Devices => ts'[wire'[i]] <= cursor'
                    /\ \A d \in Devices : shown'[d] # 0 => ts'[shown'[d]] <= cursor'
    BY <2>1, <2>2, <2>3 DEF WireInv, Polling, CardBy
  <2>9. pc' = "devices" => wire' = <<>>
    BY <2>1, <2>3, <1>6 DEF WireInv, Receive
  <2> QED BY <2>4, <2>5, <2>6, <2>7, <2>8, <2>9 DEF WireInv, CardBy
<1>7. CASE Connect \/ Watchdog
  <2>1. wire' = <<>> /\ pc' = "devices" /\ UNCHANGED <<table, shown>>
    BY <1>7 DEF Connect, Watchdog, NewConnection, tableVars, browserVars
  <2> QED BY <1>0, <2>1 DEF WireInv, OnCard, Polling, ToSet
<1>8. CASE LineDies
  <2>1. wire' = <<>> /\ UNCHANGED <<table, shown, pc, cursor>>
    BY <1>8 DEF LineDies, tableVars, handlerVars, browserVars
  <2> QED BY <1>0, <2>1 DEF WireInv, OnCard, CardBy, Polling, ToSet
<1>9. CASE Poll \/ StreamEnds
  BY <1>0, <1>9 DEF Poll, StreamEnds, tableVars, lineVars, browserVars, WireInv, OnCard, CardBy, Polling
<1>10. CASE UNCHANGED <<table, wire, shown, pc, cursor>>
  BY <1>0, <1>10 DEF WireInv, OnCard, CardBy, Polling
<1> QED BY <1>1, <1>2, <1>3, <1>4, <1>5, <1>6, <1>7, <1>8, <1>9, <1>10
     DEF Next, Handler, Produce, Silence, vars, tableVars, handlerVars, lineVars, browserVars

-----------------------------------------------------------------------------
(* EventStream: the theorems *)

StreamInv == TypeOK /\ TableInv /\ CursorInv /\ AnswerInv /\ NoGap /\ WireInv

\* Types; rows reach the table in order, but for those the spool replays; the cursor stands
\* where it began or at the timestamp of a row that was sent; up to its last row an answer
\* leaves out only what was replayed since and what ties with that row; what is written to a
\* browser is not older than what its cards show.
THEOREM StreamInvariant == Spec => []StreamInv
<1>1. Init => StreamInv
  <2> SUFFICES ASSUME Init PROVE StreamInv
    OBVIOUS
  <2>1. TypeOK
    <3>1. <<>> \in Seq(Row) /\ Len(<<>>) <= Limit
      BY StreamAssumption
    <3>2. shown \in [Devices -> 0..MaxRows]
      BY StreamAssumption DEF Init
    <3>3. 0 \in 0..MaxRows /\ 0 \in 0..MaxDrops
      BY StreamAssumption
    <3>4. ts \in [Row -> Int]
      BY StreamAssumption DEF Init
    <3>5. flight \in Seq(Row) /\ answer \in Seq(Row) /\ wire \in Seq(Row) /\ Len(answer) <= Limit
      BY <3>1 DEF Init
    <3>6. shown \in [Devices -> 0..MaxRows] /\ made \in 0..MaxRows /\ drops \in 0..MaxDrops
      BY <3>2, <3>3 DEF Init
    <3>7. /\ dev \in [Row -> Devices \union {System}] /\ tick \in [Row -> 1..MaxTick]
          /\ spool = {} /\ table = {} /\ late = {} /\ sent = {} /\ pc = "off"
          /\ dead = FALSE /\ silent = FALSE
      BY DEF Init
    <3>8. cursor \in Int /\ start \in Int
      BY DEF Init
    <3> QED BY <3>4, <3>5, <3>6, <3>7, <3>8, Zenon DEF TypeOK
  <2>2. TableInv /\ CursorInv /\ AnswerInv /\ NoGap /\ WireInv
    BY DEF Init, TableInv, CursorInv, AnswerInv, NoGap, WireInv, OnCard, CardBy, Polling, ToSet
  <2> QED BY <2>1, <2>2 DEF StreamInv
<1>2. StreamInv /\ [Next]_vars => StreamInv'
  <2> SUFFICES ASSUME StreamInv, [Next]_vars PROVE StreamInv'
    OBVIOUS
  <2>1. TypeOK'
    BY TypeStep DEF StreamInv, AnswerInv
  <2> QED BY <2>1, TableStep, CursorStep, AnswerStep, GapStep, WireStep DEF StreamInv
<1> QED BY <1>1, <1>2, PTL DEF Spec

\* Rows, answers, cursors and cards stay of their kinds, and no poll fetches more than its
\* limit, whatever is produced, replayed and lost.
THEOREM StreamTyped == Spec => []TypeOK
<1>1. StreamInv => TypeOK
  BY DEF StreamInv
<1> QED BY <1>1, StreamInvariant, PTL

\* Whatever the clock's ticks, the batches, the polls and their limit: a row the cursor
\* passes by without sending it is one the spool replayed, or one whose timestamp is that
\* of a row that was sent, up to the rounding of log records.  No other row is lost.
THEOREM OnlyTiesPassedBy == Spec => []NoGap
<1>1. StreamInv => NoGap
  BY DEF StreamInv
<1> QED BY <1>1, StreamInvariant, PTL

\* No card goes back to a row with an older timestamp, whatever is seeded, polled, tied,
\* replayed and reconnected.
THEOREM CardsGoForward == Spec => NeverBackwards
<1> DEFINE Forward(d) == shown[d] # 0 => shown'[d] # 0 /\ ts'[shown'[d]] >= ts[shown[d]]
<1>1. StreamInv /\ [Next]_vars => [\A d \in Devices : Forward(d)]_vars
  <2> SUFFICES ASSUME StreamInv, Next, NEW d \in Devices, shown[d] # 0
               PROVE  shown'[d] # 0 /\ ts'[shown'[d]] >= ts[shown[d]]
    BY DEF vars
  <2>0. shown[d] \in Row /\ ts[shown[d]] \in Int /\ ts' = ts
    BY RowNumbers, StampsStay DEF StreamInv, TypeOK, WireInv, OnCard, vars
  <2>1. CASE Receive
    <3>1. Head(wire) = wire[1] /\ 1 \in DOMAIN wire /\ wire[1] \in Row /\ ts[wire[1]] \in Int /\ wire[1] # 0
      BY <2>1, RowNumbers DEF Receive, StreamInv, TypeOK
    <3>2. shown'[d] = IF dev[wire[1]] = d THEN wire[1] ELSE shown[d]
      BY <2>1, <3>1 DEF Receive
    <3>3. dev[wire[1]] = d => ts[shown[d]] <= ts[wire[1]]
      BY <2>1, <3>1 DEF StreamInv, WireInv, CardBy
    <3> QED BY <2>0, <3>1, <3>2, <3>3
  <2>2. CASE UNCHANGED shown
    BY <2>0, <2>2
  <2> QED BY <2>1, <2>2
       DEF Next, Handler, Produce, Flush, Replay, SeedDevices, SeedLogs, Begin, Poll, Answer,
           StreamEnds, LineDies, Connect, Silence, Watchdog, browserVars
<1> QED BY <1>1, StreamInvariant, PTL DEF Spec, NeverBackwards

-----------------------------------------------------------------------------
(* LiveFollow: answers *)

\* LIMIT cuts the newest points off: with a point go all that are older.
LEMMA FirstPoints ==
    ASSUME NEW N \in Nat, NEW S \in SUBSET (1..N), NEW k \in Nat
    PROVE  /\ First(k, S) \subseteq S
           /\ \A t \in First(k, S), u \in S : u < t => u \in First(k, S)
<1> DEFINE Older(t) == {u \in S : u < t}
<1>0. IsFiniteSet(1..N) /\ \A t \in S : t \in Int
  BY FS_Interval
<1>1. ASSUME NEW t \in S PROVE IsFiniteSet(Older(t)) /\ Cardinality(Older(t)) \in Nat
  <2>1. Older(t) \in SUBSET (1..N)
    OBVIOUS
  <2> QED BY <1>0, <2>1, FS_Subset, FS_CardinalityType
<1>2. ASSUME NEW t \in S, NEW u \in S, u < t PROVE Cardinality(Older(u)) <= Cardinality(Older(t))
  <2>1. \A x \in S : x < u => x < t
    BY <1>0, <1>2
  <2>2. Older(u) \in SUBSET Older(t)
    BY <2>1
  <2> QED BY <1>1, <2>2, FS_Subset
<1>3. First(k, S) = {t \in S : Cardinality(Older(t)) < k}
  BY DEF First
<1> HIDE DEF Older
<1>4. ASSUME NEW t \in First(k, S), NEW u \in S, u < t PROVE u \in First(k, S)
  <2>1. t \in S /\ Cardinality(Older(t)) < k
    BY <1>3
  <2> QED BY <1>1, <1>2, <1>3, <1>4, <2>1
<1> QED BY <1>3, <1>4

LEMMA GreatestPoint ==
    ASSUME PageTypeOK, NEW S \in SUBSET (DOMAIN rows)
    PROVE  /\ Greatest(S) \in 0..Len(rows) /\ (S = {} => Greatest(S) = 0)
           /\ S # {} => Greatest(S) \in S /\ \A t \in S : t <= Greatest(S)
<1>1. Len(rows) \in Nat /\ DOMAIN rows = 1..Len(rows)
  BY DEF PageTypeOK
<1>2. CASE S = {}
  BY <1>1, <1>2 DEF Greatest
<1>3. CASE S # {}
  <2>1. \E t \in S : \A u \in S : u <= t
    BY <1>1, <1>3, Most
  <2>2. Greatest(S) \in S /\ \A t \in S : t <= Greatest(S)
    BY <1>3, <2>1 DEF Greatest
  <2> QED BY <1>1, <1>3, <2>2
<1> QED BY <1>2, <1>3

LEMMA Answers ==
    ASSUME PageTypeOK, NEW j, NEW n
    PROVE  /\ FullAnswer(j) \in SUBSET PointsOf(j) /\ LiveAnswer(j, n) \in SUBSET PointsOf(j)
           /\ PointsOf(j) \in SUBSET DOMAIN rows
           /\ \A t \in FullAnswer(j), u \in PointsOf(j) : u < t => u \in FullAnswer(j)
           /\ \A t \in LiveAnswer(j, n), u \in PointsOf(j) : u < t /\ u > n => u \in LiveAnswer(j, n)
<1> DEFINE New == {t \in PointsOf(j) : t > n}
<1>1. Len(rows) \in Nat /\ DOMAIN rows = 1..Len(rows) /\ FullLimit \in Nat /\ LiveLimit \in Nat
  BY LiveAssumption DEF PageTypeOK
<1>2. PointsOf(j) \in SUBSET (1..Len(rows)) /\ New \in SUBSET (1..Len(rows))
  BY <1>1 DEF PointsOf
<1>3. FullAnswer(j) = First(FullLimit, PointsOf(j)) /\ LiveAnswer(j, n) = First(LiveLimit, New)
  BY DEF FullAnswer, LiveAnswer
<1>4. /\ First(FullLimit, PointsOf(j)) \subseteq PointsOf(j)
      /\ \A t \in First(FullLimit, PointsOf(j)), u \in PointsOf(j) :
            u < t => u \in First(FullLimit, PointsOf(j))
  BY <1>1, <1>2, FirstPoints
<1>5. /\ First(LiveLimit, New) \subseteq New
      /\ \A t \in First(LiveLimit, New), u \in New : u < t => u \in First(LiveLimit, New)
  BY <1>1, <1>2, FirstPoints
<1>6. \A u \in PointsOf(j) : u > n => u \in New
  OBVIOUS
<1> HIDE DEF New
<1> QED BY <1>1, <1>2, <1>3, <1>4, <1>5, <1>6 DEF New

-----------------------------------------------------------------------------
(* LiveFollow: types *)

\* What holds of the fetches when one is replaced and no point recorded.
LEMMA SlotTypes ==
    ASSUME PageTypeOK, UNCHANGED rows, NEW x, NEW q \in Request, ReplyOK(q),
           slot' = [slot EXCEPT ![x] = q]
    PROVE  slot' \in [Slot -> Request]' /\ \A s \in Slot : ReplyOK(slot[s])'
BY DEF PageTypeOK, Request, ReplyOK, Slot

LEMMA NewFetch ==
    ASSUME PageTypeOK, NEW kind \in {"jobs", "check", "full", "poll", "delete", "drop"},
           NEW j \in 0..MaxJobs, NEW n \in 0..Len(rows), kind \in {"full", "delete", "drop"} => j # 0
    PROVE  /\ Fetch(kind, j, n) \in Request /\ ReplyOK(Fetch(kind, j, n))
           /\ Idle \in Request /\ ReplyOK(Idle)
<1>1. Len(rows) \in Nat /\ MaxJobs \in Nat
  BY LiveAssumption DEF PageTypeOK
<1> QED BY <1>1 DEF Fetch, Idle, Request, ReplyOK

LEMMA AnsweredTypes ==
    ASSUME PageTypeOK, UNCHANGED rows, NEW s \in Slot, ~slot[s].done, NEW reply, Respond(s, reply),
           slot[s].kind \in {"full", "poll"} => reply \subseteq DOMAIN rows,
           slot[s].kind \notin {"full", "poll"} => reply \subseteq Job
    PROVE  slot' \in [Slot -> Request]' /\ \A q \in Slot : ReplyOK(slot[q])'
<1>1. slot[s] \in Request /\ ReplyOK(slot[s]) /\ Len(rows) \in Nat /\ MaxJobs \in Nat
  BY LiveAssumption DEF PageTypeOK
<1>2. Idle \in Request /\ ReplyOK(Idle)
  BY <1>1 DEF Idle, Request, ReplyOK
<1> DEFINE q == [slot[s] EXCEPT !.done = TRUE, !.reply = reply, !.since = 0,
                                !.job = IF slot[s].kind = "full" THEN slot[s].job ELSE 0]
<1>3. q \in Request /\ ReplyOK(q)
  <2>1. reply \in SUBSET (Job \cup DOMAIN rows) /\ 0 \in 0..Len(rows) /\ 0 \in 0..MaxJobs
    BY <1>1
  <2>2. /\ q.kind = slot[s].kind /\ q.done = TRUE /\ q.reply = reply
        /\ (q.kind = "full" => q.job = slot[s].job)
    BY <1>1 DEF Request
  <2>3. q \in Request
    BY <1>1, <2>1 DEF Request
  <2>4. slot[s].kind = "full" => slot[s].job # 0
    BY <1>1 DEF ReplyOK
  <2> HIDE DEF q
  <2>5. ReplyOK(q)
    BY <1>1, <2>2, <2>4 DEF ReplyOK, Request
  <2> QED BY <2>3, <2>5
<1>4. slot' = [slot EXCEPT ![s] = IF slot[s].kind = "poll" /\ reply = {} THEN Idle ELSE q]
  BY DEF Respond
<1> HIDE DEF q
<1>5. PICK r \in Request : ReplyOK(r) /\ slot' = [slot EXCEPT ![s] = r]
  BY <1>2, <1>3, <1>4
<1> QED BY <1>5, SlotTypes

LEMMA SelectTypes ==
    ASSUME PageTypeOK, UNCHANGED db, NEW j \in Job, NEW s \in Slot, SelectJob(j, s)
    PROVE  /\ slot' \in [Slot -> Request]' /\ \A q \in Slot : ReplyOK(slot[q])'
           /\ cur' \in Job /\ pts' = {} /\ liveTimer' = 0 /\ clean' \in BOOLEAN
           /\ UNCHANGED <<leaked, lastTs>>
<1>1. 0 \in 0..Len(rows) /\ j \in 0..MaxJobs /\ j # 0 /\ UNCHANGED rows
  BY LiveAssumption DEF PageTypeOK, Job, db
<1>2. Fetch("full", j, 0) \in Request /\ ReplyOK(Fetch("full", j, 0))
  BY <1>1, NewFetch
<1>3. slot' = [slot EXCEPT ![s] = Fetch("full", j, 0)]
  BY DEF SelectJob
<1>4. slot' \in [Slot -> Request]' /\ \A q \in Slot : ReplyOK(slot[q])'
  BY <1>1, <1>2, <1>3, SlotTypes
<1>5. clean' \in BOOLEAN
  BY Zenon DEF SelectJob
<1> QED BY <1>4, <1>5 DEF SelectJob, StopLive

LEMMA IssueTypes ==
    ASSUME PageTypeOK, UNCHANGED rows, NEW q \in Request, ReplyOK(q), Issue(q)
    PROVE  slot' \in [Slot -> Request]' /\ \A s \in Slot : ReplyOK(slot[s])'
<1>1. PICK x : slot' = [slot EXCEPT ![x] = q]
  BY DEF Issue
<1> QED BY <1>1, SlotTypes

\* What the rest of the page needs when no point is recorded.
RestOK ==
    /\ active \in 0..MaxJobs /\ gone \subseteq Job /\ erased \subseteq DOMAIN rows
    /\ mode \in {"live", "playback"} /\ cur \in 0..MaxJobs /\ pts \subseteq DOMAIN rows
    /\ lastTs \in 0..Len(rows) /\ liveTimer \in 0..MaxJobs /\ leaked \subseteq Job
    /\ clean \in BOOLEAN /\ events \in 0..MaxEvents /\ trouble \in 0..MaxTrouble

LEMMA PageTypeStep == PageTypeOK /\ [PageNext]_pageVars => PageTypeOK'
<1> SUFFICES ASSUME PageTypeOK, [PageNext]_pageVars PROVE PageTypeOK'
  OBVIOUS
<1>0. /\ Len(rows) \in Nat /\ DOMAIN rows = 1..Len(rows) /\ MaxJobs \in Nat /\ Job = 1..MaxJobs
      /\ MaxEvents \in Nat /\ MaxTrouble \in Nat /\ 0 \in 0..Len(rows) /\ 0 \in 0..MaxJobs
      /\ RestOK /\ rows \in Seq(Job) /\ Len(rows) <= MaxPoints
  BY LiveAssumption DEF PageTypeOK, RestOK, Job
<1>1. ASSUME UNCHANGED rows, RestOK', slot' \in [Slot -> Request]', \A s \in Slot : ReplyOK(slot[s])'
      PROVE  PageTypeOK'
  BY <1>0, <1>1 DEF PageTypeOK, RestOK
<1>2. ASSUME UNCHANGED <<rows, slot>>, RestOK' PROVE PageTypeOK'
  BY <1>2 DEF PageTypeOK, RestOK, Request, ReplyOK
<1>3. \A s \in Slot : slot[s] \in Request /\ ReplyOK(slot[s])
  BY DEF PageTypeOK
<1>4. Fetch("jobs", 0, 0) \in Request /\ ReplyOK(Fetch("jobs", 0, 0)) /\ Idle \in Request /\ ReplyOK(Idle)
  BY <1>0, NewFetch
<1>5. ASSUME NEW j \in Job, Choose(j) PROVE PageTypeOK'
  <2>1. PICK s \in Free : SelectJob(j, s)
    BY <1>5 DEF Choose
  <2>2. UNCHANGED <<db, mode, trouble>> /\ events' \in 0..MaxEvents
    BY <1>0, <1>5 DEF Choose, Click, Event, RestOK
  <2>3. s \in Slot /\ UNCHANGED rows
    BY <2>2 DEF Free, db
  <2>4. /\ slot' \in [Slot -> Request]' /\ \A q \in Slot : ReplyOK(slot[q])'
        /\ cur' \in Job /\ pts' = {} /\ liveTimer' = 0 /\ clean' \in BOOLEAN
        /\ UNCHANGED <<leaked, lastTs>>
    BY <2>1, <2>2, <2>3, SelectTypes
  <2>5. RestOK'
    BY <1>0, <2>2, <2>3, <2>4 DEF RestOK, db
  <2> QED BY <1>1, <2>3, <2>4, <2>5
<1>6. CASE SetMode
  <2>1. /\ UNCHANGED <<db, trouble>> /\ events' \in 0..MaxEvents /\ mode' \in {"live", "playback"}
        /\ UNCHANGED rows
    BY <1>0, <1>6 DEF SetMode, Click, Event, RestOK, db
  <2>2. CASE cur = 0
    BY <1>0, <1>2, <1>6, <2>1, <2>2 DEF SetMode, StopLive, RestOK, db
  <2>3. CASE cur # 0
    <3>1. PICK s \in Free : SelectJob(cur, s)
      BY <1>6, <2>3 DEF SetMode
    <3>2. cur \in Job
      BY <1>0, <2>3 DEF RestOK
    <3>3. /\ slot' \in [Slot -> Request]' /\ \A q \in Slot : ReplyOK(slot[q])'
          /\ cur' \in Job /\ pts' = {} /\ liveTimer' = 0 /\ clean' \in BOOLEAN
          /\ UNCHANGED <<leaked, lastTs>>
      BY <2>1, <3>1, <3>2, SelectTypes DEF Free
    <3>4. RestOK'
      BY <1>0, <2>1, <3>3 DEF RestOK, db
    <3> QED BY <1>1, <2>1, <3>3, <3>4
  <2> QED BY <2>2, <2>3
<1>7. CASE SetMachine
  <2>1. /\ Issue(Fetch("jobs", 0, 0)) /\ UNCHANGED <<db, rows>> /\ RestOK'
    BY <1>0, <1>7 DEF SetMachine, Click, Event, StopLive, RestOK, db
  <2> QED BY <1>1, <1>4, <2>1, IssueTypes
<1>8. CASE Delete
  <2>1. /\ Issue(Fetch("delete", cur, 0)) /\ cur # 0 /\ cur \in 0..MaxJobs /\ UNCHANGED <<db, rows>>
        /\ RestOK'
    BY <1>0, <1>8 DEF Delete, Click, Event, RestOK, db, view, live
  <2>2. Fetch("delete", cur, 0) \in Request /\ ReplyOK(Fetch("delete", cur, 0))
    BY <1>0, <2>1, NewFetch
  <2> QED BY <1>1, <2>1, <2>2, IssueTypes
<1>9. ASSUME NEW j \in Job, PollLive(j) PROVE PageTypeOK'
  <2>1. /\ Issue(Fetch("poll", j, lastTs)) /\ j \in 0..MaxJobs /\ lastTs \in 0..Len(rows)
        /\ UNCHANGED rows /\ RestOK'
    BY <1>0, <1>9 DEF PollLive, RestOK, db, view, live
  <2>2. Fetch("poll", j, lastTs) \in Request /\ ReplyOK(Fetch("poll", j, lastTs))
    BY <2>1, NewFetch
  <2> QED BY <1>1, <2>1, <2>2, IssueTypes
<1>10. CASE Check
  <2>1. Issue(Fetch("check", 0, 0)) /\ UNCHANGED rows /\ RestOK'
    BY <1>0, <1>10 DEF Check, RestOK, db, view, live
  <2>2. Fetch("check", 0, 0) \in Request /\ ReplyOK(Fetch("check", 0, 0))
    BY <1>0, NewFetch
  <2> QED BY <1>1, <2>1, <2>2, IssueTypes
<1>11. ASSUME NEW s \in Slot, Serve(s) PROVE PageTypeOK'
  <2> DEFINE q == slot[s]
             reply == CASE q.kind = "full" -> FullAnswer(q.job)
                        [] q.kind = "poll" -> LiveAnswer(q.job, q.since)
                        [] q.kind = "drop" -> {}
                        [] OTHER -> {active} \ {0}
  <2>1. ~q.done /\ Respond(s, reply) /\ UNCHANGED <<rows, events, trouble, view>>
    BY <1>11 DEF Serve
  <2>2. q.kind \in {"full", "poll"} => reply \subseteq DOMAIN rows
    <3>1. FullAnswer(q.job) \subseteq DOMAIN rows /\ LiveAnswer(q.job, q.since) \subseteq DOMAIN rows
      BY Answers
    <3> QED BY <3>1
  <2>3. q.kind \notin {"full", "poll"} => reply \subseteq Job
    BY <1>0 DEF RestOK
  <2>4. slot' \in [Slot -> Request]' /\ \A p \in Slot : ReplyOK(slot[p])'
    <3> HIDE DEF reply
    <3> QED BY <2>1, <2>2, <2>3, AnsweredTypes
  <2>5. q.kind = "drop" => q.job \in Job
    BY <1>0, <1>3, <2>1 DEF Request, ReplyOK
  <2>6. RestOK'
    BY <1>0, <1>11, <2>1, <2>5 DEF Serve, RestOK, view, live
  <2> QED BY <1>1, <2>1, <2>4, <2>6
<1>12. ASSUME NEW s \in Slot, ServeFails(s) PROVE PageTypeOK'
  <2>1. ~slot[s].done /\ Respond(s, {}) /\ UNCHANGED rows /\ RestOK'
    BY <1>0, <1>12 DEF ServeFails, Trouble, RestOK, db, view, live
  <2>2. slot' \in [Slot -> Request]' /\ \A p \in Slot : ReplyOK(slot[p])'
    BY <2>1, AnsweredTypes
  <2> QED BY <1>1, <2>1, <2>2
<1>13. ASSUME NEW s \in Slot, JobsArrive(s) PROVE PageTypeOK'
  <2>1. UNCHANGED <<db, rows, events, trouble, mode>>
    BY <1>13 DEF JobsArrive, db, view
  <2>2. ASSUME NEW j \in slot[s].reply, SelectJob(j, s) PROVE PageTypeOK'
    <3>1. j \in Job
      BY <1>3, <1>13 DEF JobsArrive, Done, ReplyOK
    <3>2. /\ slot' \in [Slot -> Request]' /\ \A q \in Slot : ReplyOK(slot[q])'
          /\ cur' \in Job /\ pts' = {} /\ liveTimer' = 0 /\ clean' \in BOOLEAN
          /\ UNCHANGED <<leaked, lastTs>>
      BY <2>1, <2>2, <3>1, SelectTypes
    <3>3. RestOK'
      BY <1>0, <2>1, <3>2 DEF RestOK, db
    <3> QED BY <1>1, <2>1, <3>2, <3>3
  <2>3. CASE End(s) /\ UNCHANGED view
    <3>1. slot' \in [Slot -> Request]' /\ \A p \in Slot : ReplyOK(slot[p])'
      BY <1>4, <2>1, <2>3, SlotTypes DEF End
    <3> QED BY <1>0, <1>1, <2>1, <2>3, <3>1 DEF RestOK, db, view, live
  <2> QED BY <1>13, <2>2, <2>3 DEF JobsArrive
<1>14. ASSUME NEW s \in Slot, FullArrives(s) PROVE PageTypeOK'
  <2>1. /\ End(s) /\ pts' = slot[s].reply /\ UNCHANGED <<rows, active, gone, erased, events, trouble, mode, cur, clean>>
        /\ slot[s].job \in Job /\ slot[s].reply \in SUBSET DOMAIN rows
    BY <1>0, <1>3, <1>14 DEF FullArrives, Done, Request, ReplyOK, db
  <2>2. Greatest(pts') \in 0..Len(rows)
    BY <2>1, GreatestPoint
  <2>3. lastTs' \in 0..Len(rows) /\ liveTimer' \in 0..MaxJobs /\ leaked' \subseteq Job
    <3>1. lastTs \in 0..Len(rows) /\ liveTimer \in 0..MaxJobs /\ leaked \subseteq Job
      BY <1>0 DEF RestOK
    <3>2. slot[s].job \in 0..MaxJobs
      BY <1>0, <2>1
    <3>3. liveTimer # 0 => liveTimer \in Job
      BY <1>0, <3>1
    <3>4. CASE mode = "live"
      BY <1>14, <2>2, <3>1, <3>2, <3>3, <3>4 DEF FullArrives, StartLive
    <3>5. CASE mode # "live"
      BY <1>14, <3>1, <3>5 DEF FullArrives, live
    <3> QED BY <3>4, <3>5
  <2>4. slot' \in [Slot -> Request]' /\ \A p \in Slot : ReplyOK(slot[p])'
    BY <1>4, <2>1, SlotTypes DEF End
  <2> QED BY <1>0, <1>1, <2>1, <2>3, <2>4 DEF RestOK
<1>15. ASSUME NEW s \in Slot, PollArrives(s) PROVE PageTypeOK'
  <2>1. /\ End(s) /\ pts' = pts \cup slot[s].reply /\ lastTs' = Greatest(slot[s].reply)
        /\ UNCHANGED <<rows, active, gone, erased, events, trouble, mode, cur, liveTimer, leaked, clean>>
        /\ slot[s].reply \in SUBSET DOMAIN rows
    BY <1>0, <1>3, <1>15 DEF PollArrives, Done, ReplyOK, db
  <2>2. lastTs' \in 0..Len(rows)
    BY <2>1, GreatestPoint
  <2>3. slot' \in [Slot -> Request]' /\ \A p \in Slot : ReplyOK(slot[p])'
    BY <1>4, <2>1, SlotTypes DEF End
  <2> QED BY <1>0, <1>1, <2>1, <2>2, <2>3 DEF RestOK
<1>16. ASSUME NEW s \in Slot, CheckArrives(s) \/ DeleteArrives(s) PROVE PageTypeOK'
  <2>1. PICK q \in Request : ReplyOK(q) /\ slot' = [slot EXCEPT ![s] = q]
    BY <1>4, <1>16 DEF CheckArrives, DeleteArrives
  <2>2. UNCHANGED rows /\ RestOK'
    BY <1>0, <1>16 DEF CheckArrives, DeleteArrives, RestOK, db, view, live
  <2> QED BY <1>1, <2>1, <2>2, SlotTypes
<1>17. CASE JobStarts \/ JobEnds
  <2>1. /\ UNCHANGED <<rows, gone, erased, slot, trouble, view>> /\ events' = events + 1
        /\ events < MaxEvents /\ active' \in 0..MaxJobs
    BY <1>0, <1>17 DEF JobStarts, JobEnds, Event
  <2>2. RestOK'
    BY <1>0, <2>1 DEF RestOK, view, live
  <2> QED BY <1>2, <2>1, <2>2
<1>18. CASE PointRecorded
  <2>1. /\ rows' = Append(rows, active) /\ active \in Job /\ Len(rows) < MaxPoints
        /\ UNCHANGED <<slot, active, gone, erased, events, trouble, view>>
    BY <1>0, <1>18 DEF PointRecorded, RestOK, net
  <2>2. rows' \in Seq(Job) /\ Len(rows') = Len(rows) + 1 /\ DOMAIN rows' = 1..(Len(rows) + 1)
    BY <1>0, <2>1
  <2>3. RestOK' /\ Len(rows') <= MaxPoints
    BY <1>0, <2>1, <2>2, LiveAssumption DEF RestOK, view, live
  <2>4. ASSUME NEW s \in Slot PROVE slot[s] \in Request' /\ ReplyOK(slot[s])'
    BY <1>0, <1>3, <2>1, <2>2 DEF Request, ReplyOK
  <2>5. slot' \in [Slot -> Request]' /\ \A s \in Slot : ReplyOK(slot[s])'
    <3>1. slot \in [Slot -> Request]
      BY DEF PageTypeOK
    <3> QED BY <2>1, <2>4, <3>1
  <2> QED BY <2>2, <2>3, <2>5 DEF PageTypeOK, RestOK
<1>19. ASSUME NEW s \in Slot, ErasePoints(s) PROVE PageTypeOK'
  <2>1. slot[s].job \in 0..MaxJobs /\ slot[s].job # 0
    BY <1>3, <1>19 DEF ErasePoints, Request, ReplyOK
  <2>2. Fetch("drop", slot[s].job, 0) \in Request /\ ReplyOK(Fetch("drop", slot[s].job, 0))
    BY <1>0, <2>1, NewFetch
  <2>3. UNCHANGED rows /\ RestOK'
    BY <1>0, <1>19 DEF ErasePoints, PointsOf, RestOK, view, live
  <2>4. slot' = [slot EXCEPT ![s] = Fetch("drop", slot[s].job, 0)]
    BY <1>19 DEF ErasePoints
  <2> QED BY <1>1, <2>2, <2>3, <2>4, SlotTypes
<1>20. ASSUME NEW s \in Slot, DeleteThrows(s) PROVE PageTypeOK'
  <2>1. slot' = [slot EXCEPT ![s] = Idle] /\ UNCHANGED rows /\ RestOK'
    BY <1>0, <1>20 DEF DeleteThrows, Trouble, RestOK, db, view, live
  <2> QED BY <1>1, <1>4, <2>1, SlotTypes
<1>21. CASE UNCHANGED pageVars
  BY <1>2, <1>0, <1>21 DEF pageVars, RestOK, db, net, view, live
<1> QED BY <1>5, <1>6, <1>7, <1>8, <1>9, <1>10, <1>11, <1>12, <1>13, <1>14, <1>15, <1>16, <1>17,
           <1>18, <1>19, <1>20, <1>21 DEF PageNext, User, Arrives

-----------------------------------------------------------------------------
(* LiveFollow: what the page shows *)

\* Points of the current job, with all that are older than one of them in S or in T.
Whole(S, T) == \A t \in S : rows[t] = cur /\ \A u \in PointsOf(cur) : u < t => u \in S \cup T
Passed(n) == \A u \in PointsOf(cur) : u <= n => u \in pts
Is(s, kinds) == slot[s].kind \in kinds

\* The one fetch of selectJob: no interval runs, and nothing else is under way that brings
\* points; its answer is of the current job.
FullInv(s) ==
    /\ liveTimer = 0 /\ slot[s].job = cur /\ \A q \in Slot \ {s} : ~Is(q, {"full", "poll"})
    /\ slot[s].done => Whole(slot[s].reply, {})

\* A poll asks from a point up to which all are shown; its answer lacks only what is.
PollInv(s) ==
    IF slot[s].done THEN Whole(slot[s].reply, pts)
    ELSE slot[s].job = cur /\ Passed(slot[s].since)

\* After a selection on a page at rest.
FollowInv ==
    clean /\ cur # 0 =>
        /\ leaked = {} /\ liveTimer \in {0, cur} /\ (liveTimer # 0 => Passed(lastTs))
        /\ \A s \in Slot : Is(s, {"full"}) => FullInv(s)
        /\ \A s \in Slot : Is(s, {"poll"}) => PollInv(s)
        /\ Whole(pts, {})

\* All points up to the newest of a whole answer are shown when it is.
LEMMA AllPassed ==
    ASSUME PageTypeOK, NEW S \in SUBSET (DOMAIN rows), NEW T, Whole(S, T)
    PROVE  \A u \in PointsOf(cur) : u <= Greatest(S) => u \in S \cup T
<1> SUFFICES ASSUME NEW u \in PointsOf(cur), u <= Greatest(S) PROVE u \in S \cup T
  OBVIOUS
<1>1. u \in 1..Len(rows) /\ Len(rows) \in Nat /\ Greatest(S) \in 0..Len(rows)
  BY GreatestPoint DEF PageTypeOK, PointsOf
<1>2. Greatest(S) \in S
  BY <1>1, GreatestPoint
<1> QED BY <1>1, <1>2 DEF Whole

\* A fetch that brings no points is sent or ends, and what is shown stays.
LEMMA Aside ==
    ASSUME PageTypeOK, FollowInv, NEW x, NEW q, q.kind \notin {"full", "poll"},
           slot' = [slot EXCEPT ![x] = q], UNCHANGED <<rows, cur, pts, lastTs, leaked>>,
           erased \subseteq erased', liveTimer' \in {0, liveTimer}, clean' => clean
    PROVE  FollowInv'
<1>1. \A s \in Slot : slot'[s] = slot[s] \/ slot'[s].kind \notin {"full", "poll"}
  BY DEF PageTypeOK
<1>2. PointsOf(cur)' \subseteq PointsOf(cur)
  BY DEF PointsOf
<1> QED BY <1>1, <1>2 DEF FollowInv, FullInv, PollInv, Whole, Passed, Is

LEMMA SelectFollows ==
    ASSUME PageTypeOK, NEW j, NEW s \in Slot, SelectJob(j, s)
    PROVE  FollowInv'
<1> SUFFICES ASSUME clean', cur' # 0 PROVE FollowInv'
  BY DEF FollowInv
<1>1. /\ leaked' = {} /\ pts' = {} /\ liveTimer' = 0 /\ cur' = j
      /\ slot' = [slot EXCEPT ![s] = Fetch("full", j, 0)]
      /\ \A q \in Slot \ {s} : slot[q].kind \notin {"full", "poll"}
  BY DEF SelectJob, StopLive, Touching
<1>2. /\ slot'[s] = Fetch("full", j, 0) /\ \A q \in Slot \ {s} : slot'[q] = slot[q]
  BY <1>1 DEF PageTypeOK
<1>3. Fetch("full", j, 0).kind = "full" /\ Fetch("full", j, 0).job = j /\ ~Fetch("full", j, 0).done
  BY DEF Fetch
<1> QED BY <1>1, <1>2, <1>3 DEF FollowInv, FullInv, PollInv, Whole, Is

LEMMA ServedFollows ==
    ASSUME PageTypeOK, FollowInv, NEW s \in Slot, Serve(s) \/ ServeFails(s)
    PROVE  FollowInv'
<1> SUFFICES ASSUME clean', cur' # 0 PROVE FollowInv'
  BY DEF FollowInv
<1> DEFINE q == slot[s]
<1>1. /\ UNCHANGED <<rows, cur, pts, lastTs, liveTimer, leaked, clean>> /\ clean /\ cur # 0
      /\ q.kind # "idle" /\ ~q.done /\ q \in Request /\ erased' = erased
  BY DEF Serve, ServeFails, db, view, live, PageTypeOK
<1>2. PICK reply :
        /\ Respond(s, reply)
        /\ q.kind = "full" => reply = {} \/ reply = FullAnswer(q.job)
        /\ q.kind = "poll" => reply = {} \/ reply = LiveAnswer(q.job, q.since)
  BY DEF Serve, ServeFails
<1>3. /\ q.kind = "poll" /\ reply = {} => slot'[s] = Idle
      /\ ~(q.kind = "poll" /\ reply = {}) =>
            /\ slot'[s].kind = q.kind /\ slot'[s].done /\ slot'[s].reply = reply
            /\ q.kind = "full" => slot'[s].job = q.job
  BY <1>1, <1>2 DEF Respond, PageTypeOK, Request
<1>4. \A p \in Slot \ {s} : slot'[p] = slot[p]
  BY <1>2 DEF Respond, PageTypeOK
<1>5. PointsOf(cur)' \subseteq PointsOf(cur)
  BY <1>1 DEF PointsOf
<1>6. Idle.kind = "idle"
  BY DEF Idle
<1>7. leaked' = {} /\ liveTimer' \in {0, cur'} /\ (liveTimer' # 0 => Passed(lastTs)')
  BY <1>1, <1>5 DEF FollowInv, Passed
<1>8. Whole(pts, {})'
  BY <1>1, <1>5 DEF FollowInv, Whole
<1>9. ASSUME NEW p \in Slot, Is(p, {"full"})' PROVE FullInv(p)'
  <2>1. Is(p, {"full"}) /\ FullInv(p)
    BY <1>1, <1>3, <1>4, <1>6, <1>9 DEF FollowInv, Is
  <2>2. /\ slot'[p].job = cur'
        /\ \A r \in Slot \ {p} : ~Is(r, {"full", "poll"})'
    BY <1>1, <1>3, <1>4, <1>6, <2>1 DEF FullInv, Is
  <2>3. ASSUME slot'[p].done PROVE Whole(slot[p].reply, {})'
    <3>1. CASE p # s
      BY <1>1, <1>4, <1>5, <2>1, <2>3, <3>1 DEF FullInv, Whole
    <3>2. CASE p = s
      <4>1. slot'[p].reply = {} \/ slot'[p].reply = FullAnswer(cur)
        BY <1>1, <1>2, <1>3, <2>1, <3>2 DEF FullInv, Is
      <4>2. \A t \in FullAnswer(cur) : rows[t] = cur
        BY Answers DEF PointsOf
      <4> QED BY <1>1, <1>5, <4>1, <4>2, Answers DEF Whole
    <3> QED BY <3>1, <3>2
  <2> QED BY <1>1, <2>1, <2>2, <2>3 DEF FullInv
<1>10. ASSUME NEW p \in Slot, Is(p, {"poll"})' PROVE PollInv(p)'
  <2>1. Is(p, {"poll"}) /\ PollInv(p)
    BY <1>1, <1>3, <1>4, <1>6, <1>10 DEF FollowInv, Is
  <2>2. CASE p # s
    BY <1>1, <1>4, <1>5, <2>1, <2>2 DEF PollInv, Whole, Passed
  <2>3. CASE p = s
    <3>1. /\ slot'[p].done /\ slot'[p].reply = LiveAnswer(cur, q.since) /\ Passed(q.since)
      BY <1>1, <1>2, <1>3, <1>6, <1>10, <2>1, <2>3 DEF PollInv, Is
    <3>2. \A t \in LiveAnswer(cur, q.since) : rows[t] = cur
      BY Answers DEF PointsOf
    <3>3. ASSUME NEW t \in LiveAnswer(cur, q.since), NEW u \in PointsOf(cur), u < t
          PROVE  u \in LiveAnswer(cur, q.since) \cup pts
      <4>1. u \in Int /\ q.since \in Int
        BY <1>1 DEF Request, PageTypeOK, PointsOf
      <4> QED BY <3>1, <3>3, <4>1, Answers DEF Passed
    <3>4. Whole(slot[p].reply, pts)'
      BY <1>1, <1>5, <3>1, <3>2, <3>3 DEF Whole
    <3> QED BY <3>1, <3>4 DEF PollInv
  <2> QED BY <2>2, <2>3
<1> QED BY <1>7, <1>8, <1>9, <1>10 DEF FollowInv

LEMMA FullFollows ==
    ASSUME PageTypeOK, FollowInv, NEW s \in Slot, FullArrives(s)
    PROVE  FollowInv'
<1> SUFFICES ASSUME clean', cur' # 0 PROVE FollowInv'
  BY DEF FollowInv
<1>1. /\ UNCHANGED <<rows, erased, cur, clean>> /\ clean /\ cur # 0 /\ slot[s].kind = "full" /\ slot[s].done
      /\ pts' = slot[s].reply /\ slot' = [slot EXCEPT ![s] = Idle]
      /\ slot[s].reply \in SUBSET (DOMAIN rows)
  BY DEF FullArrives, Done, End, db, PageTypeOK, ReplyOK
<1>2. FullInv(s) /\ leaked = {} /\ liveTimer = 0 /\ slot[s].job = cur /\ Whole(pts', {})
  BY <1>1 DEF FollowInv, FullInv, Is
<1>3. PointsOf(cur)' = PointsOf(cur)
  BY <1>1 DEF PointsOf
<1>4. \A p \in Slot : ~Is(p, {"full", "poll"})'
  BY <1>1, <1>2 DEF FullInv, Is, Idle, PageTypeOK
<1>5. leaked' = {} /\ liveTimer' \in {0, cur'} /\ (liveTimer' # 0 => lastTs' = Greatest(pts'))
  BY <1>1, <1>2 DEF FullArrives, StartLive, live
<1>6. \A u \in PointsOf(cur) : u <= Greatest(pts') => u \in pts'
  BY <1>1, <1>2, AllPassed
<1>7. Whole(pts, {})'
  BY <1>1, <1>2, <1>3 DEF Whole
<1>8. liveTimer' # 0 => Passed(lastTs)'
  BY <1>3, <1>5, <1>6 DEF Passed
<1>9. \A p \in Slot : ~Is(p, {"full"})' /\ ~Is(p, {"poll"})'
  BY <1>4 DEF Is
<1> QED BY <1>5, <1>7, <1>8, <1>9 DEF FollowInv

LEMMA PollFollows ==
    ASSUME PageTypeOK, FollowInv, NEW s \in Slot, PollArrives(s)
    PROVE  FollowInv'
<1> SUFFICES ASSUME clean', cur' # 0 PROVE FollowInv'
  BY DEF FollowInv
<1>1. /\ UNCHANGED <<rows, erased, cur, liveTimer, leaked, clean>> /\ clean /\ cur # 0
      /\ slot[s].kind = "poll" /\ slot[s].done
      /\ pts' = pts \cup slot[s].reply /\ lastTs' = Greatest(slot[s].reply)
      /\ slot' = [slot EXCEPT ![s] = Idle] /\ slot[s].reply \in SUBSET (DOMAIN rows)
  BY DEF PollArrives, Done, End, db, PageTypeOK, ReplyOK
<1>2. Whole(slot[s].reply, pts) /\ Whole(pts, {})
  BY <1>1 DEF FollowInv, PollInv, Is
<1>3. PointsOf(cur)' = PointsOf(cur)
  BY <1>1 DEF PointsOf
<1>4. slot'[s].kind = "idle" /\ \A p \in Slot \ {s} : slot'[p] = slot[p]
  BY <1>1 DEF Idle, PageTypeOK
<1>5. \A p \in Slot : ~Is(p, {"full"})'
  <2>1. \A p \in Slot : ~Is(p, {"full"})
    BY <1>1 DEF FollowInv, FullInv, Is
  <2> QED BY <1>4, <2>1 DEF Is
<1>6. ASSUME NEW p \in Slot, Is(p, {"poll"})' PROVE PollInv(p)'
  <2>1. p # s /\ slot'[p] = slot[p] /\ PollInv(p)
    BY <1>1, <1>4, <1>6 DEF FollowInv, Is
  <2> QED BY <1>1, <1>3, <2>1 DEF PollInv, Whole, Passed
<1>7. Passed(lastTs)'
  <2>1. \A u \in PointsOf(cur) : u <= lastTs' => u \in slot[s].reply \cup pts
    BY <1>1, <1>2, AllPassed
  <2> QED BY <1>1, <1>3, <2>1 DEF Passed
<1>8. Whole(pts, {})'
  BY <1>1, <1>2, <1>3 DEF Whole
<1> QED BY <1>1, <1>5, <1>6, <1>7, <1>8 DEF FollowInv

LEMMA PollSent ==
    ASSUME PageTypeOK, FollowInv, NEW j \in Job, PollLive(j)
    PROVE  FollowInv'
<1> SUFFICES ASSUME clean', cur' # 0 PROVE FollowInv'
  BY DEF FollowInv
<1>1. /\ UNCHANGED <<rows, erased, cur, pts, lastTs, liveTimer, leaked, clean>> /\ clean /\ cur # 0
  BY DEF PollLive, db, view, live
<1>2. PICK x : slot' = [slot EXCEPT ![x] = Fetch("poll", j, lastTs)]
  BY DEF PollLive, Issue
<1>3. j = cur /\ liveTimer # 0 /\ Passed(lastTs)
  BY <1>1 DEF PollLive, FollowInv, Job
<1>4. PointsOf(cur)' = PointsOf(cur)
  BY <1>1 DEF PointsOf
<1>5. \A p \in Slot : ~Is(p, {"full"})
  BY <1>1, <1>3 DEF FollowInv, FullInv
<1>6. \A p \in Slot : \/ slot'[p] = slot[p]
                      \/ /\ slot'[p].kind = "poll" /\ ~slot'[p].done
                         /\ slot'[p].job = cur /\ slot'[p].since = lastTs
  BY <1>2, <1>3 DEF Fetch, PageTypeOK
<1>7. \A p \in Slot : ~Is(p, {"full"})'
  BY <1>5, <1>6 DEF Is
<1>8. ASSUME NEW p \in Slot, Is(p, {"poll"})' PROVE PollInv(p)'
  BY <1>1, <1>3, <1>4, <1>6, <1>8 DEF FollowInv, PollInv, Whole, Passed, Is
<1> QED BY <1>1, <1>3, <1>4, <1>7, <1>8 DEF FollowInv, Whole, Passed

LEMMA FollowStep == PageTypeOK /\ FollowInv /\ [PageNext]_pageVars => FollowInv'
<1> SUFFICES ASSUME PageTypeOK, FollowInv, [PageNext]_pageVars PROVE FollowInv'
  OBVIOUS
<1>1. ASSUME UNCHANGED <<rows, erased, slot, view>> PROVE FollowInv'
  BY <1>1 DEF view, live, FollowInv, FullInv, PollInv, Whole, Passed, Is, PointsOf
<1>2. Idle.kind = "idle" /\ \A kind, j, n : Fetch(kind, j, n).kind = kind
  BY DEF Idle, Fetch
<1>3. ASSUME NEW j \in Job, Choose(j) PROVE FollowInv'
  BY <1>3, SelectFollows DEF Choose, Free
<1>4. CASE SetMode
  <2>1. CASE cur = 0
    BY <1>4, <2>1 DEF SetMode, FollowInv
  <2>2. CASE cur # 0
    BY <1>4, <2>2, SelectFollows DEF SetMode, Free
  <2> QED BY <2>1, <2>2
<1>5. CASE SetMachine \/ Delete \/ Check
  <2>1. PICK q \in {Fetch("jobs", 0, 0), Fetch("delete", cur, 0), Fetch("check", 0, 0)} : Issue(q)
    BY <1>5 DEF SetMachine, Delete, Check
  <2>2. PICK x : slot' = [slot EXCEPT ![x] = q]
    BY <2>1 DEF Issue
  <2>3. UNCHANGED <<rows, erased, cur, pts, lastTs, leaked, clean>> /\ liveTimer' \in {0, liveTimer}
    BY <1>5 DEF SetMachine, Delete, Check, Click, StopLive, db, view, live
  <2>4. q.kind \notin {"full", "poll"}
    BY <1>2, <2>1
  <2> QED BY <2>2, <2>3, <2>4, Aside
<1>6. ASSUME NEW j \in Job, PollLive(j) PROVE FollowInv'
  BY <1>6, PollSent
<1>7. ASSUME NEW s \in Slot, Serve(s) \/ ServeFails(s) PROVE FollowInv'
  BY <1>7, ServedFollows
<1>8. ASSUME NEW s \in Slot, JobsArrive(s) PROVE FollowInv'
  <2>1. ASSUME NEW j, SelectJob(j, s) PROVE FollowInv'
    BY <2>1, SelectFollows
  <2>2. CASE End(s) /\ UNCHANGED view
    <3>1. slot' = [slot EXCEPT ![s] = Idle] /\ UNCHANGED <<rows, erased, cur, pts, lastTs, leaked, liveTimer, clean>>
      BY <1>8, <2>2 DEF JobsArrive, End, db, view, live
    <3> QED BY <1>2, <3>1, Aside
  <2> QED BY <1>8, <2>1, <2>2 DEF JobsArrive
<1>9. ASSUME NEW s \in Slot, FullArrives(s) PROVE FollowInv'
  BY <1>9, FullFollows
<1>10. ASSUME NEW s \in Slot, PollArrives(s) PROVE FollowInv'
  BY <1>10, PollFollows
<1>11. ASSUME NEW s \in Slot, CheckArrives(s) PROVE FollowInv'
  <2>1. PICK q : q.kind \notin {"full", "poll"} /\ slot' = [slot EXCEPT ![s] = q]
    BY <1>2, <1>11 DEF CheckArrives
  <2>2. UNCHANGED <<rows, erased, cur, pts, lastTs, leaked, liveTimer, clean>>
    BY <1>11 DEF CheckArrives, db, view, live
  <2> QED BY <2>1, <2>2, Aside
<1>12. ASSUME NEW s \in Slot, DeleteArrives(s) PROVE FollowInv'
  BY <1>12 DEF DeleteArrives, FollowInv
<1>13. CASE JobStarts \/ JobEnds
  BY <1>1, <1>13 DEF JobStarts, JobEnds
<1>14. CASE PointRecorded
  <2>1. rows' = Append(rows, active) /\ UNCHANGED <<erased, slot, cur, pts, lastTs, liveTimer, leaked, clean>>
    BY <1>14 DEF PointRecorded, net, view, live
  <2>2. /\ Len(rows) \in Nat /\ DOMAIN rows = 1..Len(rows) /\ DOMAIN rows' = 1..(Len(rows) + 1)
        /\ \A t \in DOMAIN rows : rows'[t] = rows[t]
    BY <2>1 DEF PageTypeOK
  <2>3. \A u \in PointsOf(cur)' : u \in PointsOf(cur) \/ (u = Len(rows) + 1)
    BY <2>1, <2>2 DEF PointsOf
  <2>4. \A s \in Slot : /\ Is(s, {"full", "poll"}) => slot[s].reply \subseteq DOMAIN rows
                        /\ slot[s].since \in 0..Len(rows)
    BY DEF PageTypeOK, Request, ReplyOK, Is
  <2>5. pts \subseteq DOMAIN rows /\ lastTs \in 0..Len(rows)
    BY DEF PageTypeOK
  <2>6. ASSUME NEW S \in SUBSET DOMAIN rows, NEW T PROVE Whole(S, T) => Whole(S, T)'
    BY <2>1, <2>2, <2>3 DEF Whole
  <2>7. ASSUME NEW n \in 0..Len(rows) PROVE Passed(n) => Passed(n)'
    BY <2>1, <2>2, <2>3 DEF Passed
  <2>8. ASSUME NEW s \in Slot, Is(s, {"full"}), FullInv(s) PROVE FullInv(s)'
    BY <2>1, <2>4, <2>6, <2>8 DEF FullInv, Is
  <2>9. ASSUME NEW s \in Slot, Is(s, {"poll"}), PollInv(s) PROVE PollInv(s)'
    <3>1. Whole(slot[s].reply, pts) => Whole(slot[s].reply, pts)'
      BY <2>1, <2>4, <2>6, <2>9 DEF Is
    <3>2. Passed(slot[s].since) => Passed(slot[s].since)'
      BY <2>1, <2>4, <2>7
    <3> QED BY <2>1, <2>9, <3>1, <3>2 DEF PollInv
  <2> QED BY <2>1, <2>5, <2>6, <2>7, <2>8, <2>9 DEF FollowInv, Is
<1>15. ASSUME NEW s \in Slot, ErasePoints(s) \/ DeleteThrows(s) PROVE FollowInv'
  <2>1. PICK q \in {Fetch("drop", slot[s].job, 0), Idle} : slot' = [slot EXCEPT ![s] = q]
    BY <1>15 DEF ErasePoints, DeleteThrows
  <2>2. UNCHANGED <<rows, cur, pts, lastTs, leaked, liveTimer, clean>> /\ erased \subseteq erased'
    BY <1>15 DEF ErasePoints, DeleteThrows, db, view, live
  <2>3. q.kind \notin {"full", "poll"}
    BY <1>2, <2>1
  <2> QED BY <2>1, <2>2, <2>3, Aside
<1>16. CASE UNCHANGED pageVars
  BY <1>1, <1>16 DEF pageVars, db, net
<1> QED BY <1>3, <1>4, <1>5, <1>6, <1>7, <1>8, <1>9, <1>10, <1>11, <1>12, <1>13, <1>14, <1>15,
           <1>16 DEF PageNext, User, Arrives

\* Every answer is of the kind its request asked for: points that were recorded, or jobs; a
\* full answer and a deletion under way are of a job.
THEOREM PageTyped == PageSpec => []PageTypeOK
<1>1. PageInit => PageTypeOK
  <2> SUFFICES ASSUME PageInit PROVE PageTypeOK
    OBVIOUS
  <2>1. <<>> \in Seq(Job) /\ Len(<<>>) = 0 /\ MaxPoints \in Nat /\ MaxJobs \in Nat /\ DOMAIN <<>> = {}
    BY LiveAssumption
  <2>2. \A s \in Slot : slot[s] \in Request /\ ReplyOK(slot[s])
    BY <2>1 DEF PageInit, Fetch, Idle, Request, ReplyOK
  <2> QED BY <2>1, <2>2, LiveAssumption DEF PageInit, PageTypeOK
<1> QED BY <1>1, PageTypeStep, PTL DEF PageSpec

\* However polls overlap, and answers are late, cut short, lost or overtake one another, a
\* job selected on a page at rest is shown without a point of another job and without a gap.
THEOREM JobShownWhole == PageSpec => []ShowsJob
<1>1. PageInit => FollowInv
  BY DEF PageInit, FollowInv
<1>2. FollowInv => ShowsJob
  BY DEF FollowInv, ShowsJob, Whole
<1> QED BY <1>1, <1>2, FollowStep, PageTyped, PTL DEF PageSpec

=============================================================================
