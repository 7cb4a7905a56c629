------------------------- MODULE OpcSession_proofs --------------------------
(***************************************************************************)
(* Type correctness of OpcSession and its two invariants, for any nodes,   *)
(* values, queue sizes, changes and outages.                               *)
(***************************************************************************)
EXTENDS OpcSession, TLAPS

\* Taking the first value of a queue leaves values of the queue.
LEMMA TailValues ==
    ASSUME NEW S, NEW q \in Seq(S), q # <<>>
    PROVE  /\ Head(q) \in S /\ Tail(q) \in Seq(S) /\ Len(Tail(q)) = Len(q) - 1
           /\ Head(q) = q[1] /\ \A i \in 1..Len(Tail(q)) : Tail(q)[i] = q[i + 1]
OBVIOUS

LEMMA AppendValues ==
    ASSUME NEW S, NEW q \in Seq(S), NEW v \in S
    PROVE  /\ Append(q, v) \in Seq(S) /\ Len(Append(q, v)) = Len(q) + 1
           /\ \A i \in 1..Len(q) + 1 : Append(q, v)[i] = IF i = Len(q) + 1 THEN v ELSE q[i]
OBVIOUS

\* A full queue of the server keeps its length, holds the new value, and nothing else
\* that it did not hold before.
LEMMA EnqueuedValues ==
    ASSUME QueueSize \in Nat \ {0}, NEW q \in Seq(Version), Len(q) <= QueueSize,
           NEW v \in Version
    PROVE  /\ Enqueued(q, v) \in Seq(Version) /\ Len(Enqueued(q, v)) <= QueueSize
           /\ \A i \in 1..Len(Enqueued(q, v)) :
                 Enqueued(q, v)[i] = v \/ \E j \in 1..Len(q) : Enqueued(q, v)[i] = q[j]
<1>1. CASE Len(q) < QueueSize
  BY <1>1 DEF Enqueued
<1>2. CASE ~(Len(q) < QueueSize)
  <2>1. q # <<>> /\ Len(q) = QueueSize
    BY <1>2
  <2>2. /\ Tail(q) \in Seq(Version) /\ Len(Tail(q)) = Len(q) - 1
        /\ \A i \in 1..Len(Tail(q)) : Tail(q)[i] = q[i + 1]
    BY <2>1
  <2>3. Enqueued(q, v) = Append(Tail(q), v)
    BY <1>2 DEF Enqueued
  <2>4. /\ Enqueued(q, v) \in Seq(Version) /\ Len(Enqueued(q, v)) = Len(q)
        /\ \A i \in 1..Len(q) : Enqueued(q, v)[i] = IF i = Len(q) THEN v ELSE Tail(q)[i]
    BY <2>1, <2>2, <2>3, AppendValues
  <2>5. ASSUME NEW i \in 1..Len(q), i # Len(q) PROVE \E j \in 1..Len(q) : Tail(q)[i] = q[j]
    <3>1. i \in 1..Len(Tail(q)) /\ i + 1 \in 1..Len(q)
      BY <2>1, <2>2, <2>5
    <3> QED BY <2>2, <3>1
  <2> QED BY <2>1, <2>4, <2>5
<1> QED BY <1>1, <1>2

-----------------------------------------------------------------------------
LEMMA TypeStep == TypeOK /\ [Next]_vars => TypeOK'
<1> SUFFICES ASSUME TypeOK, [Next]_vars PROVE TypeOK'
  OBVIOUS
<1> USE OpcAssumption DEF TypeOK, serverVars, handlerVars, loopVars
<1>1. ASSUME NEW n \in Nodes, Notify(n) PROVE TypeOK'
  <2>1. Head(pending[n]) \in Version /\ Tail(pending[n]) \in Seq(Version)
        /\ Len(Tail(pending[n])) <= QueueSize
    BY <1>1, TailValues DEF Notify
  <2>2. snapshot' \in [Nodes -> Nat]
    BY <1>1, <2>1 DEF Notify, Version
  <2>3. record' \in [Nodes -> Nat]
    BY <1>1, <2>2 DEF Notify, Put
  <2>4. skipped' \in BOOLEAN
    BY <1>1, Zenon DEF Notify, Put
  <2> QED BY <1>1, <2>1, <2>2, <2>3, <2>4 DEF Notify
<1>2. CASE Connect \/ ConnectFails \/ Reconnect
  BY <1>2 DEF Connect, ConnectFails, Reconnect
<1>3. CASE Subscribe
  <2>1. \A n \in Nodes : <<value[n]>> \in Seq(Version) /\ Len(<<value[n]>>) <= QueueSize
    BY DEF Version
  <2> QED BY <1>3, <2>1 DEF Subscribe, NoValues, None
<1>4. CASE Heartbeat
  <2>1. skipped' \in BOOLEAN
    BY <1>4, Zenon DEF Heartbeat, Put
  <2> QED BY <1>4, <2>1 DEF Heartbeat, Put
<1>5. CASE ReadAll
  BY <1>5 DEF ReadAll, NoValues, None, Open
<1>6. ASSUME NEW n \in Nodes, Answer(n) PROVE TypeOK'
  <2>1. /\ got' \in [Nodes -> Version \cup {None, Open, Failed}]
        /\ got'[n] # None
    BY <1>6 DEF Answer, Version, None, Failed
  <2>2. got' # NoValues
    BY <2>1 DEF NoValues
  <2> QED BY <1>6, <2>1, <2>2 DEF Answer
<1>7. CASE Refresh
  <2>1. snapshot' \in [Nodes -> Nat]
    BY <1>7 DEF Refresh, Good, Version
  <2>2. record' \in [Nodes -> Nat]
    BY <1>7, <2>1 DEF Refresh, Put
  <2>3. skipped' \in BOOLEAN
    BY <1>7, Zenon DEF Refresh, Put
  <2> QED BY <1>7, <2>1, <2>2, <2>3 DEF Refresh, NoValues, None
<1>8. CASE ReadMissed
  BY <1>8 DEF ReadMissed, NoValues, None
<1>9. CASE SessionEnds
  BY <1>9 DEF SessionEnds, NoValues, None
<1>10. ASSUME NEW n \in Nodes, Change(n) PROVE TypeOK'
  <2>1. value[n] + 1 \in Version
    BY DEF Version, None
  <2>2. /\ Enqueued(pending[n], value[n] + 1) \in Seq(Version)
        /\ Len(Enqueued(pending[n], value[n] + 1)) <= QueueSize
    BY <2>1, EnqueuedValues
  <2> QED BY <1>10, <2>1, <2>2 DEF Change
<1>11. CASE ServerGoes
  <2>1. up' \in BOOLEAN /\ valid' \in BOOLEAN
    BY <1>11, Zenon DEF ServerGoes
  <2> QED BY <1>11, <2>1 DEF ServerGoes
<1>12. CASE ServerReturns
  BY <1>12 DEF ServerReturns
<1>13. CASE QueueTurns
  <2>1. full' \in BOOLEAN
    BY <1>13, Zenon DEF QueueTurns
  <2> QED BY <1>13, <2>1 DEF QueueTurns
<1>14. CASE UNCHANGED vars
  BY <1>14 DEF vars
<1> QED BY <1>1, <1>2, <1>3, <1>4, <1>5, <1>6, <1>7, <1>8, <1>9, <1>10, <1>11, <1>12, <1>13, <1>14
        DEF Next, Session, Reading

\* No server queue outgrows its size, answers are kept only while a round is open, and
\* fewer rounds than the limit have missed.
THEOREM OpcTypes == Spec => []TypeOK
<1>1. Init => TypeOK
  <2> SUFFICES ASSUME Init PROVE TypeOK
    OBVIOUS
  <2>1. /\ up \in BOOLEAN /\ valid \in BOOLEAN /\ full \in BOOLEAN /\ skipped \in BOOLEAN
    BY Zenon DEF Init
  <2>2. value \in [Nodes -> Version] /\ base \in [Nodes -> Version]
    BY DEF Init, Version, None
  <2>3. pending \in [Nodes -> Seq(Version)] /\ \A n \in Nodes : Len(pending[n]) <= QueueSize
    BY OpcAssumption DEF Init
  <2> QED BY <2>1, <2>2, <2>3, OpcAssumption DEF Init, TypeOK, NoValues, None
<1> QED BY <1>1, TypeStep, PTL DEF Spec

-----------------------------------------------------------------------------
LEMMA ShowsStep == TypeOK /\ RecordShowsSnapshot /\ [Next]_vars => RecordShowsSnapshot'
<1> SUFFICES ASSUME TypeOK, RecordShowsSnapshot, [Next]_vars PROVE RecordShowsSnapshot'
  OBVIOUS
<1> USE DEF RecordShowsSnapshot
<1>1. ASSUME NEW n \in Nodes, Notify(n) PROVE RecordShowsSnapshot'
  <2>1. Head(pending[n]) \in Version
    BY <1>1, TailValues DEF Notify, TypeOK
  <2>2. CASE Same(snapshot[n], Head(pending[n]))
    BY <1>1, <2>1, <2>2 DEF Notify, Same, Version, None, TypeOK
  <2>3. CASE ~Same(snapshot[n], Head(pending[n]))
    BY <1>1, <2>3 DEF Notify, Put, Same, TypeOK
  <2> QED BY <2>2, <2>3
<1>2. CASE Subscribe
  BY <1>2 DEF Subscribe, NoValues
<1>3. CASE Heartbeat
  BY <1>3 DEF Heartbeat, Put, Same
<1>4. CASE Refresh
  BY <1>4 DEF Refresh, Put, Same
<1>5. ASSUME UNCHANGED handlerVars PROVE RecordShowsSnapshot'
  BY <1>5 DEF handlerVars
<1>6. CASE Connect \/ ConnectFails \/ Reconnect \/ ReadAll \/ ReadMissed \/ SessionEnds
  BY <1>5, <1>6 DEF Connect, ConnectFails, Reconnect, ReadAll, ReadMissed, SessionEnds
<1>7. ASSUME NEW n \in Nodes, Answer(n) \/ Change(n) PROVE RecordShowsSnapshot'
  BY <1>5, <1>7 DEF Answer, Change
<1>8. CASE ServerGoes \/ ServerReturns \/ QueueTurns \/ UNCHANGED vars
  BY <1>5, <1>8 DEF ServerGoes, ServerReturns, QueueTurns, vars
<1> QED BY <1>1, <1>2, <1>3, <1>4, <1>6, <1>7, <1>8 DEF Next, Session, Reading

\* A change is never taken for none: although notifications and direct reads overwrite
\* each other's values in the snapshot, the last record shows the snapshot, unless it met
\* a full queue.
THEOREM ShowsSnapshot == Spec => []RecordShowsSnapshot
<1>1. Init => RecordShowsSnapshot
  BY DEF Init, RecordShowsSnapshot, NoValues
<1> QED BY <1>1, OpcTypes, ShowsStep, PTL DEF Spec

-----------------------------------------------------------------------------
\* Every way a value takes into the snapshot, a queued notification or an answer of the
\* round in progress, holds values the server has had since the subscription began.
SessionInv ==
    /\ \A n \in Nodes : value[n] >= base[n]
    /\ Connected => \A n \in Nodes : /\ snapshot[n] # None => snapshot[n] >= base[n]
                                     /\ \A i \in 1..Len(pending[n]) : pending[n][i] >= base[n]
    /\ pc = "reading" => \A n \in Nodes : got[n] \in Version => got[n] >= base[n]

LEMMA SessionStep == TypeOK /\ SessionInv /\ [Next]_vars => SessionInv'
<1> SUFFICES ASSUME TypeOK, SessionInv, [Next]_vars PROVE SessionInv'
  OBVIOUS
<1> USE DEF SessionInv, Connected
<1>1. ASSUME NEW n \in Nodes, Notify(n) PROVE SessionInv'
  <2>1. /\ Head(pending[n]) = pending[n][1] /\ 1 \in 1..Len(pending[n])
        /\ \A i \in 1..Len(Tail(pending[n])) :
              i + 1 \in 1..Len(pending[n]) /\ Tail(pending[n])[i] = pending[n][i + 1]
    BY <1>1, TailValues DEF Notify, TypeOK
  <2>2. /\ Head(pending[n]) >= base[n]
        /\ \A i \in 1..Len(Tail(pending[n])) : Tail(pending[n])[i] >= base[n]
    BY <1>1, <2>1 DEF Notify
  <2> QED BY <1>1, <2>2 DEF Notify, TypeOK, loopVars
<1>2. CASE Connect \/ ConnectFails \/ Reconnect
  BY <1>2 DEF Connect, ConnectFails, Reconnect, serverVars, handlerVars
<1>3. CASE Subscribe
  BY <1>3 DEF Subscribe, NoValues, None, TypeOK, Version
<1>4. CASE Heartbeat
  BY <1>4 DEF Heartbeat, serverVars, loopVars
<1>5. CASE ReadAll
  BY <1>5 DEF ReadAll, Open, Version, serverVars, handlerVars
<1>6. ASSUME NEW n \in Nodes, Answer(n) PROVE SessionInv'
  BY <1>6 DEF Answer, TypeOK, Failed, Version, serverVars, handlerVars
<1>7. CASE Refresh
  BY <1>7 DEF Refresh, Good, TypeOK, serverVars
<1>8. CASE ReadMissed \/ SessionEnds
  BY <1>8 DEF ReadMissed, SessionEnds, serverVars, handlerVars
<1>9. ASSUME NEW n \in Nodes, Change(n) PROVE SessionInv'
  <2> DEFINE p == pending[n]
             v == value[n] + 1
             q == Enqueued(p, v)
  <2>1. v \in Version /\ v >= base[n]
    BY DEF TypeOK, Version, None
  <2>2. p \in Seq(Version) /\ Len(p) <= QueueSize
    BY DEF TypeOK
  <2>3. Connected => \A j \in 1..Len(p) : p[j] >= base[n]
    OBVIOUS
  <2>4. pending' = IF valid THEN [pending EXCEPT ![n] = q] ELSE pending
    BY <1>9 DEF Change
  <2> HIDE DEF p, v, q
  <2>5. \A i \in 1..Len(q) : q[i] = v \/ \E j \in 1..Len(p) : q[i] = p[j]
    <3>1. \A i \in 1..Len(Enqueued(p, v)) :
             Enqueued(p, v)[i] = v \/ \E j \in 1..Len(p) : Enqueued(p, v)[i] = p[j]
      BY <2>1, <2>2, EnqueuedValues, OpcAssumption
    <3> QED BY <3>1 DEF q
  <2>6. Connected => \A i \in 1..Len(q) : q[i] >= base[n]
    BY <2>1, <2>3, <2>5
  <2>7. \A m \in Nodes : value'[m] >= base[m]
    BY <1>9 DEF Change, TypeOK, Version
  <2> QED BY <1>9, <2>4, <2>6, <2>7 DEF Change, TypeOK, handlerVars, loopVars
<1>10. CASE ServerGoes \/ ServerReturns \/ QueueTurns
  BY <1>10 DEF ServerGoes, ServerReturns, QueueTurns, serverVars, handlerVars, loopVars
<1>11. CASE UNCHANGED vars
  BY <1>11 DEF vars, serverVars, handlerVars, loopVars
<1> QED BY <1>1, <1>2, <1>3, <1>4, <1>5, <1>6, <1>7, <1>8, <1>9, <1>10, <1>11 DEF Next, Session, Reading

\* What a session reports are values of that session: a reconnect forgets the snapshot,
\* and no notification or answer of an earlier session comes through.
THEOREM OwnSession == Spec => []SnapshotOfSession
<1>1. Init => SessionInv
  BY DEF Init, SessionInv, Connected
<1>2. SessionInv => SnapshotOfSession
  BY DEF SessionInv, SnapshotOfSession
<1> QED BY <1>1, <1>2, OpcTypes, SessionStep, PTL DEF Spec

=============================================================================
