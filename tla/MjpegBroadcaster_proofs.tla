----------------------- MODULE MjpegBroadcaster_proofs ----------------------
(***************************************************************************)
(* Type correctness of MjpegBroadcaster, that no viewer's stream repeats a *)
(* frame or goes back, and that all viewers watch one stream, for any      *)
(* viewers, queue depth and frames.                                        *)
(***************************************************************************)
EXTENDS MjpegBroadcaster, TLAPS

\* Taking the first chunk of an increasing sequence leaves one.
LEMMA TailIncreases ==
    ASSUME NEW s \in Seq(Frame), s # <<>>
    PROVE  /\ Head(s) \in Frame /\ Head(s) = s[1] /\ 1 \in 1..Len(s)
           /\ Tail(s) \in Seq(Frame) /\ Len(Tail(s)) = Len(s) - 1
           /\ \A i \in 1..Len(Tail(s)) : Tail(s)[i] = s[i + 1] /\ i + 1 \in 1..Len(s)
           /\ Increasing(s) => /\ Increasing(Tail(s))
                               /\ \A i \in 1..Len(Tail(s)) : Head(s) < Tail(s)[i]
<1>1. /\ Head(s) \in Frame /\ Head(s) = s[1] /\ 1 \in 1..Len(s)
      /\ Tail(s) \in Seq(Frame) /\ Len(Tail(s)) = Len(s) - 1
      /\ \A i \in 1..Len(Tail(s)) : Tail(s)[i] = s[i + 1] /\ i + 1 \in 1..Len(s)
  OBVIOUS
<1>2. ASSUME Increasing(s)
      PROVE  /\ Increasing(Tail(s))
             /\ \A i \in 1..Len(Tail(s)) : Head(s) < Tail(s)[i]
  BY <1>1, <1>2 DEF Increasing
<1> QED BY <1>1, <1>2

\* A later chunk at the end keeps a sequence increasing.
LEMMA AppendIncreases ==
    ASSUME NEW s \in Seq(Frame), NEW x \in Frame
    PROVE  /\ Append(s, x) \in Seq(Frame) /\ Len(Append(s, x)) = Len(s) + 1
           /\ \A i \in 1..Len(Append(s, x)) :
                 Append(s, x)[i] = IF i = Len(s) + 1 THEN x ELSE s[i]
           /\ Increasing(s) /\ (\A i \in 1..Len(s) : s[i] < x) => Increasing(Append(s, x))
<1>1. /\ Append(s, x) \in Seq(Frame) /\ Len(Append(s, x)) = Len(s) + 1
      /\ \A i \in 1..Len(Append(s, x)) :
            Append(s, x)[i] = IF i = Len(s) + 1 THEN x ELSE s[i]
  OBVIOUS
<1>2. ASSUME Increasing(s), \A i \in 1..Len(s) : s[i] < x PROVE Increasing(Append(s, x))
  BY <1>1, <1>2 DEF Increasing, Frame
<1> QED BY <1>1, <1>2

\* Two increasing sequences, the second later than the first, make one.
LEMMA ConcatIncreases ==
    ASSUME NEW s \in Seq(Frame), NEW t \in Seq(Frame), Increasing(s), Increasing(t),
           \A i \in 1..Len(s), j \in 1..Len(t) : s[i] < t[j]
    PROVE  /\ s \o t \in Seq(Frame) /\ Len(s \o t) = Len(s) + Len(t)
           /\ Increasing(s \o t)
           /\ \A i \in 1..Len(s \o t) : \/ \E j \in 1..Len(s) : (s \o t)[i] = s[j]
                                        \/ \E j \in 1..Len(t) : (s \o t)[i] = t[j]
<1>1. /\ s \o t \in Seq(Frame) /\ Len(s \o t) = Len(s) + Len(t)
      /\ \A i \in 1..Len(s \o t) :
            (s \o t)[i] = IF i <= Len(s) THEN s[i] ELSE t[i - Len(s)]
  OBVIOUS
<1>2. \A i \in 1..Len(s \o t) :
         i \in 1..Len(s) \/ (i > Len(s) /\ i - Len(s) \in 1..Len(t))
  BY <1>1
<1>3. Increasing(s \o t)
  <2> SUFFICES ASSUME NEW i \in 1..Len(s \o t), NEW j \in 1..Len(s \o t), i < j
               PROVE  (s \o t)[i] < (s \o t)[j]
    BY DEF Increasing
  <2>1. CASE j <= Len(s)
    BY <1>1, <2>1 DEF Increasing
  <2>2. CASE i <= Len(s) /\ j > Len(s)
    BY <1>1, <1>2, <2>2
  <2>3. CASE i > Len(s)
    <3>1. i - Len(s) \in 1..Len(t) /\ j - Len(s) \in 1..Len(t) /\ i - Len(s) < j - Len(s)
      BY <1>1, <1>2, <2>3
    <3> QED BY <1>1, <2>3, <3>1 DEF Increasing
  <2> QED BY <1>1, <2>1, <2>2, <2>3
<1> QED BY <1>1, <1>2, <1>3

\* A queue gets a chunk that is later than all it holds, and may lose its oldest.
LEMMA DeliveredIncreases ==
    ASSUME MaxDepth \in Nat \ {0}, NEW q \in Seq(Frame), Len(q) <= MaxDepth, NEW x \in Frame
    PROVE  /\ Delivered(q, x) \in Seq(Frame) /\ Len(Delivered(q, x)) <= MaxDepth
           /\ \A i \in 1..Len(Delivered(q, x)) :
                 Delivered(q, x)[i] = x \/ \E j \in 1..Len(q) : Delivered(q, x)[i] = q[j]
           /\ Increasing(q) /\ (\A i \in 1..Len(q) : q[i] < x) => Increasing(Delivered(q, x))
<1>1. CASE Len(q) >= MaxDepth
  <2> DEFINE t == Tail(q)
  <2>1. /\ q # <<>> /\ t \in Seq(Frame) /\ Len(t) = Len(q) - 1
        /\ \A i \in 1..Len(t) : t[i] = q[i + 1] /\ i + 1 \in 1..Len(q)
        /\ Increasing(q) => Increasing(t)
    BY <1>1, TailIncreases
  <2>2. Delivered(q, x) = Append(t, x)
    BY <1>1 DEF Delivered
  <2> HIDE DEF t
  <2>3. /\ Append(t, x) \in Seq(Frame) /\ Len(Append(t, x)) = Len(q)
        /\ \A i \in 1..Len(q) : Append(t, x)[i] = IF i = Len(q) THEN x ELSE t[i]
    BY <2>1, AppendIncreases
  <2>4. ASSUME Increasing(q), \A i \in 1..Len(q) : q[i] < x PROVE Increasing(Append(t, x))
    <3>1. \A i \in 1..Len(t) : t[i] < x
      BY <2>1, <2>4
    <3> QED BY <2>1, <2>4, <3>1, AppendIncreases
  <2>5. \A i \in 1..Len(q) : Append(t, x)[i] = x \/ \E j \in 1..Len(q) : Append(t, x)[i] = q[j]
    BY <2>1, <2>3
  <2>6. Len(q) <= MaxDepth
    OBVIOUS
  <2> QED BY <2>2, <2>3, <2>4, <2>5, <2>6
<1>2. CASE ~(Len(q) >= MaxDepth)
  <2>1. Delivered(q, x) = Append(q, x)
    BY <1>2 DEF Delivered
  <2> QED BY <1>2, <2>1, AppendIncreases
<1> QED BY <1>1, <1>2

-----------------------------------------------------------------------------
LEMMA TypeStep == TypeOK /\ [Next]_vars => TypeOK'
<1> SUFFICES ASSUME TypeOK, [Next]_vars PROVE TypeOK'
  OBVIOUS
<1> USE BroadcastAssumption DEF TypeOK, loopVars, At
<1>1. CASE Publish
  <2>1. encoding' \in BOOLEAN
    BY <1>1, Zenon DEF Publish
  <2> QED BY <1>1, <2>1 DEF Publish, Frame
<1>2. CASE Schedule
  BY <1>2, AppendIncreases DEF Schedule
<1>3. CASE EncodeFails
  BY <1>3 DEF EncodeFails
<1>4. CASE Broadcast
  <2>1. Head(chunks) \in Frame /\ Tail(chunks) \in Seq(Frame)
    BY <1>4, TailIncreases DEF Broadcast
  <2>2. \A c \in Clients : /\ Delivered(queue[c], Head(chunks)) \in Seq(Frame)
                           /\ Len(Delivered(queue[c], Head(chunks))) <= MaxDepth
    BY <2>1, DeliveredIncreases
  <2> QED BY <1>4, <2>1, <2>2 DEF Broadcast
<1>5. ASSUME NEW c \in Clients, Subscribe(c) PROVE TypeOK'
  BY <1>5 DEF Subscribe
<1>6. ASSUME NEW c \in Clients, Yield(c) PROVE TypeOK'
  <2>1. /\ Head(queue[c]) \in Frame /\ Tail(queue[c]) \in Seq(Frame)
        /\ Len(Tail(queue[c])) <= MaxDepth
    BY <1>6, TailIncreases DEF Yield
  <2> QED BY <1>6, <2>1 DEF Yield
<1>7. ASSUME NEW c \in Clients, Sent(c) \/ Break(c) PROVE TypeOK'
  <2>1. /\ pc' \in [Clients -> {"off", "get", "send", "broken"}]
        /\ shown' \in [Clients -> Frame] /\ sending' \in [Clients -> Frame]
    <3>1. 0 \in Frame
      BY DEF Frame
    <3>2. CASE Sent(c)
      BY <3>1, <3>2 DEF Sent
    <3>3. CASE Break(c)
      BY <3>1, <3>3 DEF Break
    <3> QED BY <1>7, <3>2, <3>3
  <2>2. UNCHANGED <<frame, encoding, published, chunks, subscribed, queue>>
    BY <1>7 DEF Sent, Break
  <2> QED BY <2>1, <2>2
<1>8. ASSUME NEW c \in Clients, Leave(c) \/ Finalise(c) PROVE TypeOK'
  <2>1. /\ pc' \in [Clients -> {"off", "get", "send", "broken"}]
        /\ subscribed' \subseteq Clients
        /\ queue' = [queue EXCEPT ![c] = <<>>]
        /\ UNCHANGED <<frame, encoding, published, chunks, sending, shown>>
    BY <1>8 DEF Leave, Finalise, Discard
  <2> QED BY <2>1
<1>9. CASE UNCHANGED vars
  BY <1>9 DEF vars
<1> QED BY <1>1, <1>2, <1>3, <1>4, <1>5, <1>6, <1>7, <1>8, <1>9 DEF Next, Client

\* No queue outgrows its depth, and what is queued, sent and shown are frames of the
\* camera.
THEOREM StreamTypes == Spec => []TypeOK
<1>1. Init => TypeOK
  <2> SUFFICES ASSUME Init PROVE TypeOK
    OBVIOUS
  <2>1. encoding \in BOOLEAN
    BY Zenon DEF Init
  <2> QED BY <2>1, BroadcastAssumption DEF Init, TypeOK, Frame
<1> QED BY <1>1, TypeStep, PTL DEF Spec

-----------------------------------------------------------------------------
\* Where frame n may be relative to the camera: before the one it is encoding.
Past(n) == n <= frame /\ (encoding => n < frame)

Sending(c) == pc[c] = "send"

\* Every chunk on its way is earlier than the frame being encoded, and for every client
\* what was shown, what is being sent, its queue and what is scheduled follow one another.
Ordered(c) ==
    /\ Increasing(queue[c])
    /\ Past(shown[c]) /\ (Sending(c) => Past(sending[c]) /\ shown[c] < sending[c])
    /\ \A i \in 1..Len(queue[c]) : /\ Past(queue[c][i]) /\ shown[c] < queue[c][i]
                                   /\ Sending(c) => sending[c] < queue[c][i]
                                   /\ \A j \in 1..Len(chunks) : queue[c][i] < chunks[j]
    /\ \A j \in 1..Len(chunks) : /\ shown[c] < chunks[j]
                                 /\ Sending(c) => sending[c] < chunks[j]

Scheduled == Increasing(chunks) /\ \A j \in 1..Len(chunks) : Past(chunks[j])

StreamInv == Scheduled /\ \A c \in Clients : Ordered(c)

LEMMA StreamStep == TypeOK /\ StreamInv /\ [Next]_vars => StreamInv'
<1> SUFFICES ASSUME TypeOK, StreamInv, [Next]_vars PROVE StreamInv'
  OBVIOUS
<1> USE DEF StreamInv, Scheduled, Ordered, Past, Sending
<1>1. CASE Publish
  <2>1. frame' = frame + 1 /\ UNCHANGED <<chunks, pc, queue, sending, shown>>
    BY <1>1 DEF Publish, loopVars
  <2>2. frame \in Nat
    BY BroadcastAssumption DEF TypeOK, Frame
  <2>3. \A n \in Frame : Past(n) => Past(n)'
    BY <2>1, <2>2 DEF Frame
  <2> QED BY <2>1, <2>3 DEF TypeOK, Increasing
<1>2. CASE Schedule
  <2>1. /\ encoding /\ ~encoding' /\ chunks' = Append(chunks, frame)
        /\ UNCHANGED <<frame, pc, queue, sending, shown>>
    BY <1>2 DEF Schedule, loopVars
  <2>2. /\ Len(chunks') = Len(chunks) + 1 /\ chunks' \in Seq(Frame)
        /\ \A i \in 1..Len(chunks') : chunks'[i] = IF i = Len(chunks) + 1 THEN frame ELSE chunks[i]
        /\ Increasing(chunks')
    BY <2>1, AppendIncreases DEF TypeOK
  <2>3. \A i \in 1..Len(chunks') : chunks'[i] = frame \/ \E j \in 1..Len(chunks) : chunks'[i] = chunks[j]
    BY <2>2 DEF TypeOK
  <2>4. frame <= frame
    BY DEF TypeOK, Frame
  <2>5. Scheduled'
    BY <2>1, <2>2, <2>3, <2>4 DEF TypeOK, Frame
  <2>6. ASSUME NEW c \in Clients PROVE Ordered(c)'
    BY <2>1, <2>3 DEF TypeOK, Increasing
  <2> QED BY <2>5, <2>6
<1>3. CASE EncodeFails
  BY <1>3 DEF EncodeFails, loopVars, Increasing
<1>4. CASE Broadcast
  <2> DEFINE x == Head(chunks)
  <2>1. /\ x \in Frame /\ x = chunks[1] /\ 1 \in 1..Len(chunks) /\ chunks' = Tail(chunks)
        /\ \A i \in 1..Len(chunks') : chunks'[i] = chunks[i + 1] /\ i + 1 \in 1..Len(chunks)
        /\ Increasing(chunks') /\ \A i \in 1..Len(chunks') : x < chunks'[i]
    BY <1>4, TailIncreases DEF Broadcast, TypeOK
  <2>2. /\ UNCHANGED <<frame, encoding, pc, sending, shown>>
        /\ \A c \in Clients : queue'[c] = IF c \in subscribed THEN Delivered(queue[c], x) ELSE queue[c]
    BY <1>4 DEF Broadcast
  <2> HIDE DEF x
  <2>3. Scheduled'
    BY <2>1, <2>2
  <2>4. ASSUME NEW c \in Clients PROVE Ordered(c)'
    <3>1. CASE c \notin subscribed
      BY <2>1, <2>2, <3>1
    <3>2. CASE c \in subscribed
      <4>1. PICK q \in Seq(Frame) : q = queue[c] /\ Len(q) <= MaxDepth
        BY DEF TypeOK
      <4>2. queue'[c] = Delivered(q, x)
        BY <2>2, <3>2, <4>1
      <4>3. \A i \in 1..Len(queue'[c]) : queue'[c][i] = x \/ \E j \in 1..Len(q) : queue'[c][i] = q[j]
        <5>1. MaxDepth \in Nat \ {0} /\ x \in Frame /\ Len(q) <= MaxDepth
          BY <2>1, <4>1, BroadcastAssumption
        <5>2. \A i \in 1..Len(Delivered(q, x)) :
                 Delivered(q, x)[i] = x \/ \E j \in 1..Len(q) : Delivered(q, x)[i] = q[j]
          BY <5>1, DeliveredIncreases
        <5> QED BY <4>2, <5>2
      <4>4. Increasing(q) /\ \A i \in 1..Len(q) : q[i] < x
        <5>1. Increasing(queue[c]) /\ \A i \in 1..Len(queue[c]) : queue[c][i] < chunks[1]
          BY <2>1
        <5> QED BY <2>1, <4>1, <5>1
      <4>5. Increasing(queue'[c])
        <5>1. MaxDepth \in Nat \ {0} /\ x \in Frame /\ Len(q) <= MaxDepth
          BY <2>1, <4>1, BroadcastAssumption
        <5>2. Increasing(Delivered(q, x))
          BY <5>1, <4>4, DeliveredIncreases
        <5> QED BY <4>2, <5>2
      <4>6. /\ Past(x) /\ shown[c] < x /\ (Sending(c) => sending[c] < x)
            /\ \A j \in 1..Len(chunks') : x < chunks'[j]
        BY <2>1
      <4>7. \A i \in 1..Len(q) : /\ Past(q[i]) /\ shown[c] < q[i]
                                 /\ Sending(c) => sending[c] < q[i]
                                 /\ \A j \in 1..Len(chunks') : q[i] < chunks'[j]
        BY <2>1, <4>1
      <4>8. \A j \in 1..Len(chunks') : /\ shown[c] < chunks'[j]
                                       /\ Sending(c) => sending[c] < chunks'[j]
        BY <2>1
      <4> HIDE DEF Past, Sending
      <4>10. \A i \in 1..Len(queue'[c]) : /\ Past(queue'[c][i]) /\ shown[c] < queue'[c][i]
                                          /\ Sending(c) => sending[c] < queue'[c][i]
                                          /\ \A j \in 1..Len(chunks') : queue'[c][i] < chunks'[j]
        BY <4>3, <4>6, <4>7
      <4>11. Past(shown[c]) /\ (Sending(c) => Past(sending[c]) /\ shown[c] < sending[c])
        OBVIOUS
      <4> QED BY <2>2, <4>5, <4>8, <4>10, <4>11 DEF Past, Sending
    <3> QED BY <3>1, <3>2
  <2> QED BY <2>3, <2>4
<1>5. ASSUME NEW c \in Clients, NEW d \in Clients, Yield(d) PROVE Ordered(c)'
  <2>1. /\ UNCHANGED <<frame, encoding, chunks, shown>>
        /\ c # d => queue'[c] = queue[c] /\ pc'[c] = pc[c] /\ sending'[c] = sending[c]
    BY <1>5 DEF Yield, At, TypeOK
  <2>2. CASE c # d
    BY <2>1, <2>2
  <2>3. CASE c = d
    <3>1. /\ queue[c] # <<>> /\ queue'[c] = Tail(queue[c]) /\ sending'[c] = Head(queue[c])
      BY <1>5, <2>3 DEF Yield, At, TypeOK
    <3>2. /\ sending'[c] = queue[c][1] /\ 1 \in 1..Len(queue[c])
          /\ \A i \in 1..Len(queue'[c]) :
                /\ queue'[c][i] = queue[c][i + 1] /\ i + 1 \in 1..Len(queue[c])
                /\ sending'[c] < queue'[c][i]
          /\ Increasing(queue'[c])
      BY <3>1, TailIncreases DEF TypeOK
    <3> QED BY <2>1, <3>2
  <2> QED BY <2>2, <2>3
<1>6. ASSUME NEW c \in Clients, NEW d \in Clients, Sent(d) \/ Break(d) PROVE Ordered(c)'
  <2>1. /\ UNCHANGED <<frame, encoding, chunks, queue>>
        /\ c # d => pc'[c] = pc[c] /\ sending'[c] = sending[c] /\ shown'[c] = shown[c]
        /\ c = d => /\ pc[c] = "send" /\ pc'[c] # "send"
                    /\ shown'[c] \in {sending[c], shown[c]}
    BY <1>6 DEF Sent, Break, At, TypeOK
  <2> QED BY <2>1
<1>7. ASSUME NEW c \in Clients, NEW d \in Clients, Subscribe(d) \/ Leave(d) \/ Finalise(d)
      PROVE  Ordered(c)'
  <2>1. /\ UNCHANGED <<frame, encoding, chunks, sending, shown>>
        /\ c # d => pc'[c] = pc[c] /\ queue'[c] = queue[c]
        /\ c = d => pc'[c] # "send" /\ queue'[c] = <<>>
    BY <1>7 DEF Subscribe, Leave, Finalise, Discard, At, TypeOK
  <2>2. CASE c # d
    BY <2>1, <2>2
  <2>3. CASE c = d
    BY <2>1, <2>3 DEF Increasing
  <2> QED BY <2>2, <2>3
<1>8. ASSUME NEW d \in Clients,
             Subscribe(d) \/ Yield(d) \/ Sent(d) \/ Finalise(d) \/ Leave(d) \/ Break(d)
      PROVE  StreamInv'
  <2>1. UNCHANGED <<frame, encoding, chunks>>
    BY <1>8 DEF Subscribe, Yield, Sent, Finalise, Leave, Break, Discard
  <2>2. Scheduled'
    BY <2>1 DEF Increasing
  <2>3. \A c \in Clients : Ordered(c)'
    BY <1>5, <1>6, <1>7, <1>8
  <2> QED BY <2>2, <2>3
<1>9. CASE UNCHANGED vars
  BY <1>9 DEF vars, loopVars, Increasing
<1> QED BY <1>1, <1>2, <1>3, <1>4, <1>8, <1>9 DEF Next, Client

\* The pieces of a pipeline, each increasing and later than the one before, make it whole.
LEMMA OrderedIncreases ==
    ASSUME TypeOK, StreamInv, NEW c \in Clients
    PROVE  Increasing(Pipeline(c))
<1> DEFINE a == <<shown[c]>>
           b == IF pc[c] = "send" THEN <<sending[c]>> ELSE <<>>
           q == queue[c]
<1>1. /\ a \in Seq(Frame) /\ Len(a) = 1 /\ a[1] = shown[c] /\ Increasing(a)
      /\ b \in Seq(Frame) /\ Increasing(b)
      /\ \A i \in 1..Len(b) : Sending(c) /\ b[i] = sending[c]
      /\ q \in Seq(Frame) /\ Increasing(q)
      /\ chunks \in Seq(Frame) /\ Increasing(chunks)
  BY DEF TypeOK, StreamInv, Scheduled, Ordered, Increasing, Sending
<1>2. /\ \A i \in 1..Len(a), j \in 1..Len(b) : a[i] < b[j]
      /\ \A i \in 1..Len(a), j \in 1..Len(q) : a[i] < q[j]
      /\ \A i \in 1..Len(b), j \in 1..Len(q) : b[i] < q[j]
      /\ \A i \in 1..Len(a), j \in 1..Len(chunks) : a[i] < chunks[j]
      /\ \A i \in 1..Len(b), j \in 1..Len(chunks) : b[i] < chunks[j]
      /\ \A i \in 1..Len(q), j \in 1..Len(chunks) : q[i] < chunks[j]
  <2>1. Ordered(c)
    BY DEF StreamInv
  <2>2. \A i \in 1..Len(a) : a[i] = shown[c]
    BY <1>1
  <2> HIDE DEF a, b
  <2> QED BY <1>1, <2>1, <2>2 DEF Ordered
<1>3. Pipeline(c) = a \o b \o q \o chunks
  BY DEF Pipeline
<1> HIDE DEF a, b, q
<1>4. /\ a \o b \in Seq(Frame) /\ Increasing(a \o b)
      /\ \A i \in 1..Len(a \o b) : \/ \E j \in 1..Len(a) : (a \o b)[i] = a[j]
                                   \/ \E j \in 1..Len(b) : (a \o b)[i] = b[j]
  BY <1>1, <1>2, ConcatIncreases
<1>5. /\ (a \o b) \o q \in Seq(Frame) /\ Increasing((a \o b) \o q)
      /\ \A i \in 1..Len((a \o b) \o q) :
            \/ \E j \in 1..Len(a \o b) : ((a \o b) \o q)[i] = (a \o b)[j]
            \/ \E j \in 1..Len(q) : ((a \o b) \o q)[i] = q[j]
  <2>1. \A i \in 1..Len(a \o b), j \in 1..Len(q) : (a \o b)[i] < q[j]
    BY <1>2, <1>4
  <2> QED BY <1>1, <1>4, <2>1, ConcatIncreases
<1> DEFINE r == (a \o b) \o q
<1>6. r \in Seq(Frame) /\ Increasing(r) /\ Pipeline(c) = r \o chunks
  BY <1>3, <1>5
<1>7. \A i \in 1..Len(r), j \in 1..Len(chunks) : r[i] < chunks[j]
  <2>1. \A k \in 1..Len(a \o b), j \in 1..Len(chunks) : (a \o b)[k] < chunks[j]
    BY <1>2, <1>4
  <2>2. ASSUME NEW i \in 1..Len(r), NEW j \in 1..Len(chunks) PROVE r[i] < chunks[j]
    <3>1. CASE \E k \in 1..Len(a \o b) : r[i] = (a \o b)[k]
      BY <2>1, <3>1
    <3>2. CASE \E k \in 1..Len(q) : r[i] = q[k]
      BY <1>2, <3>2
    <3> QED BY <1>5, <3>1, <3>2
  <2> QED BY <2>2
<1> HIDE DEF r
<1>8. Increasing(r \o chunks)
  BY <1>1, <1>6, <1>7, ConcatIncreases
<1> QED BY <1>6, <1>8

\* Whatever is dropped from its queue, however late the event loop delivers and however
\* often a viewer returns, its stream never repeats a frame and never goes back.
THEOREM InOrder == Spec => []StreamInOrder
<1>1. Init => StreamInv
  BY DEF Init, StreamInv, Scheduled, Ordered, Past, Sending, Increasing
<1>2. TypeOK /\ StreamInv => StreamInOrder
  BY OrderedIncreases DEF StreamInOrder
<1> QED BY <1>1, <1>2, StreamTypes, StreamStep, PTL DEF Spec

-----------------------------------------------------------------------------
\* s is the end of t, by indices.
EndOf(s, t) == Len(s) <= Len(t) /\ \A i \in 1..Len(s) : s[i] = t[Len(t) - Len(s) + i]

LEMMA SuffixIndices ==
    ASSUME NEW s \in Seq(Frame), NEW t \in Seq(Frame), EndOf(s, t)
    PROVE  IsSuffix(s, t)
<1> DEFINE a == Reverse(s)
           b == Reverse(t)
<1>1. Len(s) \in Nat /\ Len(t) \in Nat /\ Len(s) <= Len(t)
  BY DEF EndOf
<1>2. /\ a \in Seq(Frame) /\ Len(a) = Len(s) /\ \A i \in 1..Len(s) : a[i] = s[Len(s) - i + 1]
      /\ b \in Seq(Frame) /\ Len(b) = Len(t) /\ \A i \in 1..Len(t) : b[i] = t[Len(t) - i + 1]
  BY DEF Reverse
<1> HIDE DEF a, b
<1>3. \A i \in 1..Len(s) : a[i] = b[i]
  <2> SUFFICES ASSUME NEW i \in 1..Len(s) PROVE a[i] = b[i]
    OBVIOUS
  <2> DEFINE j == Len(s) - i + 1
  <2>1. j \in 1..Len(s) /\ Len(t) - Len(s) + j = Len(t) - i + 1 /\ i \in 1..Len(t)
    BY <1>1
  <2>2. s[j] = t[Len(t) - Len(s) + j]
    BY <2>1 DEF EndOf
  <2> QED BY <1>2, <2>1, <2>2
<1>4. SubSeq(a, 1, Len(a)) = SubSeq(b, 1, Len(a))
  BY <1>1, <1>2, <1>3
<1> QED BY <1>1, <1>2, <1>4 DEF IsSuffix, IsPrefix, a, b

\* The end of a queue that has lost its oldest chunk, and of a queue whose oldest is lost.
LEMMA EndOfTail ==
    ASSUME NEW s \in Seq(Frame), NEW t \in Seq(Frame), EndOf(s, t)
    PROVE  /\ s # <<>> => EndOf(Tail(s), t)
           /\ t # <<>> => EndOf(s, Tail(t)) \/ (s = t /\ EndOf(Tail(t), s))
<1>1. Len(s) \in Nat /\ Len(t) \in Nat
  OBVIOUS
<1>2. ASSUME s # <<>> PROVE EndOf(Tail(s), t)
  BY <1>1, <1>2, TailIncreases DEF EndOf
<1>3. ASSUME t # <<>>, Len(s) < Len(t) PROVE EndOf(s, Tail(t))
  <2>1. /\ Len(Tail(t)) = Len(t) - 1
        /\ \A i \in 1..Len(Tail(t)) : Tail(t)[i] = t[i + 1]
    BY <1>3, TailIncreases
  <2>2. ASSUME NEW i \in 1..Len(s) PROVE s[i] = Tail(t)[Len(Tail(t)) - Len(s) + i]
    <3>1. /\ Len(Tail(t)) - Len(s) + i \in 1..Len(Tail(t))
          /\ Len(Tail(t)) - Len(s) + i + 1 = Len(t) - Len(s) + i
      BY <1>1, <1>3, <2>1
    <3> QED BY <2>1, <3>1 DEF EndOf
  <2> QED BY <1>1, <1>3, <2>1, <2>2 DEF EndOf
<1>4. ASSUME t # <<>>, ~(Len(s) < Len(t)) PROVE s = t /\ EndOf(Tail(t), s)
  <2>1. Len(s) = Len(t) /\ \A i \in 1..Len(s) : s[i] = t[i]
    BY <1>1, <1>4 DEF EndOf
  <2>2. s = t
    BY <2>1
  <2>3. EndOf(Tail(t), t)
    BY <1>1, <1>4, TailIncreases DEF EndOf
  <2> QED BY <2>2, <2>3
<1> QED BY <1>2, <1>3, <1>4

LEMMA EndOfAppend ==
    ASSUME NEW s \in Seq(Frame), NEW t \in Seq(Frame), EndOf(s, t), NEW x \in Frame
    PROVE  EndOf(Append(s, x), Append(t, x))
<1>1. /\ Len(s) \in Nat /\ Len(t) \in Nat
      /\ Len(Append(s, x)) = Len(s) + 1 /\ Len(Append(t, x)) = Len(t) + 1
      /\ \A i \in 1..(Len(s) + 1) : Append(s, x)[i] = IF i = Len(s) + 1 THEN x ELSE s[i]
      /\ \A i \in 1..(Len(t) + 1) : Append(t, x)[i] = IF i = Len(t) + 1 THEN x ELSE t[i]
  OBVIOUS
<1> DEFINE a == Append(s, x)
           b == Append(t, x)
<1>2. Len(s) <= Len(t) /\ \A i \in 1..Len(s) : s[i] = t[Len(t) - Len(s) + i]
  BY DEF EndOf
<1> HIDE DEF a, b
<1>3. ASSUME NEW i \in 1..Len(a) PROVE a[i] = b[Len(b) - Len(a) + i]
  <2>1. /\ Len(a) = Len(s) + 1 /\ Len(b) = Len(t) + 1 /\ i \in 1..(Len(s) + 1)
        /\ Len(b) - Len(a) + i = Len(t) - Len(s) + i
        /\ Len(t) - Len(s) + i \in 1..(Len(t) + 1)
    BY <1>1, <1>2 DEF a, b
  <2>2. CASE i = Len(s) + 1
    BY <1>1, <2>1, <2>2 DEF a, b
  <2>3. CASE i # Len(s) + 1
    <3>1. a[i] = s[i] /\ i \in 1..Len(s)
      BY <1>1, <2>1, <2>3 DEF a
    <3>2. b[Len(t) - Len(s) + i] = t[Len(t) - Len(s) + i]
      <4>1. Len(t) - Len(s) + i # Len(t) + 1
        BY <1>1, <2>1, <2>3
      <4> QED BY <1>1, <2>1, <4>1 DEF b
    <3> QED BY <1>2, <2>1, <3>1, <3>2
  <2> QED BY <2>2, <2>3
<1>4. Len(a) <= Len(b)
  BY <1>1, <1>2 DEF a, b
<1> QED BY <1>3, <1>4 DEF EndOf, a, b

\* What is delivered to both keeps the one the end of the other.
LEMMA EndOfDelivered ==
    ASSUME NEW s \in Seq(Frame), NEW t \in Seq(Frame), EndOf(s, t), NEW x \in Frame,
           MaxDepth \in Nat \ {0}, Len(s) <= MaxDepth, Len(t) <= MaxDepth
    PROVE  EndOf(Delivered(s, x), Delivered(t, x))
<1>1. Len(s) \in Nat /\ Len(t) \in Nat /\ Len(s) <= Len(t)
  BY DEF EndOf
<1>2. CASE Len(t) < MaxDepth
  BY <1>1, <1>2, EndOfAppend DEF Delivered
<1>3. CASE Len(t) >= MaxDepth /\ Len(s) < MaxDepth
  <2>1. t # <<>> /\ Tail(t) \in Seq(Frame)
    BY <1>3, TailIncreases
  <2>2. EndOf(s, Tail(t))
    BY <1>1, <1>3, <2>1, EndOfTail
  <2>3. EndOf(Append(s, x), Append(Tail(t), x))
    BY <2>1, <2>2, EndOfAppend
  <2>4. Delivered(s, x) = Append(s, x) /\ Delivered(t, x) = Append(Tail(t), x)
    BY <1>1, <1>3 DEF Delivered
  <2> QED BY <2>3, <2>4
<1>4. CASE Len(s) >= MaxDepth
  <2>1. t # <<>> /\ Len(s) = Len(t)
    BY <1>1, <1>4
  <2>2. s = t
    BY <1>1, <2>1 DEF EndOf
  <2>3. EndOf(Delivered(s, x), Delivered(s, x))
    BY DeliveredIncreases DEF EndOf
  <2> QED BY <2>2, <2>3
<1> QED BY <1>1, <1>2, <1>3, <1>4

Comparable(s, t) == EndOf(s, t) \/ EndOf(t, s)

\* A client that is not registered has no queue; of two queues one is the end of the other.
OneStream ==
    /\ \A c \in Clients : c \notin subscribed => queue[c] = <<>>
    /\ \A c, d \in Clients : Comparable(queue[c], queue[d])

LEMMA EmptyComparable ==
    ASSUME NEW s \in Seq(Frame)
    PROVE  Comparable(<<>>, s) /\ Comparable(s, <<>>)
<1>1. <<>> \in Seq(Frame) /\ Len(<<>>) = 0 /\ Len(s) >= 0
  OBVIOUS
<1> QED BY <1>1 DEF Comparable, EndOf

LEMMA OneStreamStep == TypeOK /\ OneStream /\ [Next]_vars => OneStream'
<1> SUFFICES ASSUME TypeOK, OneStream, [Next]_vars PROVE OneStream'
  OBVIOUS
<1>0. /\ MaxDepth \in Nat \ {0} /\ chunks \in Seq(Frame) /\ queue \in [Clients -> Seq(Frame)]
      /\ \A c \in Clients : queue[c] \in Seq(Frame) /\ Len(queue[c]) <= MaxDepth
      /\ pc \in [Clients -> {"off", "get", "send", "broken"}]
  BY BroadcastAssumption DEF TypeOK
<1>1. CASE Broadcast
  <2>1. PICK x \in Frame :
           \A c \in Clients :
              queue'[c] = IF c \in subscribed THEN Delivered(queue[c], x) ELSE queue[c]
    <3>1. Head(chunks) \in Frame
      BY <1>0, <1>1, TailIncreases DEF Broadcast
    <3> QED BY <1>1, <3>1 DEF Broadcast
  <2>2. subscribed' = subscribed
    BY <1>1 DEF Broadcast
  <2>3. ASSUME NEW c \in Clients, NEW d \in Clients PROVE Comparable(queue'[c], queue'[d])
    <3>1. Delivered(queue[c], x) \in Seq(Frame) /\ Delivered(queue[d], x) \in Seq(Frame)
      BY <1>0, DeliveredIncreases
    <3>2. CASE c \in subscribed /\ d \in subscribed
      BY <1>0, <2>1, <3>2, EndOfDelivered DEF OneStream, Comparable
    <3>3. CASE c \notin subscribed
      BY <1>0, <2>1, <3>1, <3>3, EmptyComparable DEF OneStream
    <3>4. CASE d \notin subscribed
      BY <1>0, <2>1, <3>1, <3>4, EmptyComparable DEF OneStream
    <3> QED BY <3>2, <3>3, <3>4
  <2> QED BY <2>1, <2>2, <2>3 DEF OneStream
<1>2. ASSUME NEW e \in Clients, Yield(e) PROVE OneStream'
  <2>1. /\ queue[e] # <<>> /\ subscribed' = subscribed
        /\ queue'[e] = Tail(queue[e]) /\ \A c \in Clients \ {e} : queue'[c] = queue[c]
    BY <1>0, <1>2 DEF Yield
  <2>2. ASSUME NEW c \in Clients \ {e} PROVE Comparable(Tail(queue[e]), queue[c])
    <3>1. queue[e] \in Seq(Frame) /\ queue[c] \in Seq(Frame)
      BY <1>0
    <3>2. CASE EndOf(queue[e], queue[c])
      BY <2>1, <3>1, <3>2, EndOfTail DEF Comparable
    <3>3. CASE EndOf(queue[c], queue[e])
      BY <2>1, <3>1, <3>3, EndOfTail DEF Comparable
    <3> QED BY <3>2, <3>3 DEF OneStream, Comparable
  <2>3. Comparable(Tail(queue[e]), Tail(queue[e]))
    BY <1>0, <2>1, TailIncreases DEF Comparable, EndOf
  <2> QED BY <2>1, <2>2, <2>3 DEF OneStream, Comparable
<1>3. ASSUME NEW e \in Clients, Subscribe(e) \/ Leave(e) \/ Finalise(e) PROVE OneStream'
  <2>1. /\ subscribed' \in {subscribed \union {e}, subscribed \ {e}}
        /\ queue'[e] = <<>> /\ \A c \in Clients \ {e} : queue'[c] = queue[c]
    BY <1>0, <1>3 DEF Subscribe, Leave, Finalise, Discard
  <2>2. ASSUME NEW c \in Clients, NEW d \in Clients PROVE Comparable(queue'[c], queue'[d])
    <3>1. queue'[c] \in Seq(Frame) /\ queue'[d] \in Seq(Frame)
      <4>1. <<>> \in Seq(Frame)
        OBVIOUS
      <4>2. \A f \in Clients : queue'[f] \in Seq(Frame)
        BY <1>0, <2>1, <4>1, Zenon
      <4> QED BY <4>2
    <3>2. CASE c = e \/ d = e
      BY <2>1, <3>1, <3>2, EmptyComparable
    <3>3. CASE c # e /\ d # e
      BY <2>1, <3>3 DEF OneStream
    <3> QED BY <3>2, <3>3
  <2> QED BY <2>1, <2>2 DEF OneStream
<1>4. CASE UNCHANGED <<subscribed, queue>>
  BY <1>4 DEF OneStream
<1>5. ASSUME NEW e \in Clients, Sent(e) \/ Break(e) PROVE OneStream'
  BY <1>4, <1>5 DEF Sent, Break
<1>6. CASE Publish \/ Schedule \/ EncodeFails \/ UNCHANGED vars
  BY <1>4, <1>6 DEF Publish, Schedule, EncodeFails, vars, loopVars
<1> QED BY <1>1, <1>2, <1>3, <1>5, <1>6 DEF Next, Client

\* Slow viewers lose their oldest chunks and nothing else: of two viewers' queues one is
\* the end of the other, for any number of viewers and any depth.
THEOREM OneStreamForAll == Spec => []SameStream
<1>1. Init => OneStream
  <2> SUFFICES ASSUME Init PROVE OneStream
    OBVIOUS
  <2>1. \A c \in Clients : queue[c] = <<>>
    BY DEF Init
  <2>2. Comparable(<<>>, <<>>)
    <3>1. <<>> \in Seq(Frame)
      OBVIOUS
    <3> QED BY <3>1, EmptyComparable, Zenon
  <2> QED BY <2>1, <2>2 DEF OneStream
<1>2. TypeOK /\ OneStream => SameStream
  <2> SUFFICES ASSUME TypeOK, OneStream, NEW c \in Clients, NEW d \in Clients
               PROVE  IsSuffix(queue[c], queue[d]) \/ IsSuffix(queue[d], queue[c])
    BY DEF SameStream
  <2>1. queue[c] \in Seq(Frame) /\ queue[d] \in Seq(Frame)
    BY DEF TypeOK
  <2>2. EndOf(queue[c], queue[d]) \/ EndOf(queue[d], queue[c])
    BY DEF OneStream, Comparable
  <2> QED BY <2>1, <2>2, SuffixIndices
<1> QED BY <1>1, <1>2, StreamTypes, OneStreamStep, PTL DEF Spec

=============================================================================
