-------------------------- MODULE MjpegBroadcaster --------------------------
(***************************************************************************)
(* MjpegBroadcaster of the vision bridge: the capture thread encodes a     *)
(* frame once and schedules its delivery on the event loop, which puts the *)
(* chunk in the bounded queue of every /stream subscriber; each subscriber *)
(* is a generator that takes chunks from its queue and has them sent.      *)
(*                                                                         *)
(* A chunk is the number of the frame it holds.                            *)
(***************************************************************************)
EXTENDS Integers, Sequences, SequencesExt

CONSTANTS
    Clients,    \* HTTP clients of /stream
    MaxDepth,   \* _max_queue_depth
    MaxFrames   \* bound: frames the capture thread hands over

ASSUME BroadcastAssumption == MaxDepth \in Nat \ {0} /\ MaxFrames \in Nat

VARIABLES
    frame,      \* the last frame handed to publish_sync
    encoding,   \* publish_sync is past its check for subscribers
    published,  \* the last frame scheduled for delivery
    chunks,     \* the _broadcast coroutines scheduled on the event loop
    subscribed, \* _queues: the clients whose queue is registered
    pc,         \* where each client's generator is
    queue,      \* each client's queue
    sending,    \* the chunk each generator has yielded and the server is sending
    shown       \* the last chunk sent to each client

loopVars == <<subscribed, pc, queue, sending, shown>>
vars == <<frame, encoding, published, chunks, loopVars>>

Frame == 0..MaxFrames

Init ==
    /\ frame = 0 /\ encoding = FALSE /\ published = 0 /\ chunks = <<>>
    /\ subscribed = {} /\ pc = [c \in Clients |-> "off"]
    /\ queue = [c \in Clients |-> <<>>]
    /\ sending = [c \in Clients |-> 0] /\ shown = [c \in Clients |-> 0]

-----------------------------------------------------------------------------
(* The capture thread: publish_sync *)

\* The check for subscribers is made without the lock, and before the encoding.
Publish ==
    /\ ~encoding /\ frame < MaxFrames
    /\ frame' = frame + 1 /\ encoding' = (subscribed # {})
    /\ UNCHANGED <<published, chunks, loopVars>>

\* imencode succeeded; run_coroutine_threadsafe keeps the order of the calls.
Schedule ==
    /\ encoding /\ encoding' = FALSE
    /\ chunks' = Append(chunks, frame) /\ published' = frame
    /\ UNCHANGED <<frame, loopVars>>

EncodeFails ==
    /\ encoding /\ encoding' = FALSE
    /\ UNCHANGED <<frame, published, chunks, loopVars>>

-----------------------------------------------------------------------------
(* The event loop: _broadcast *)

\* Mutant: put_nowait alone; QueueFull passes and the new chunk is lost.
DeliveredUnlessFull(q, chunk) == IF Len(q) >= MaxDepth THEN q ELSE Append(q, chunk)

\* A full queue loses its oldest chunk.
Delivered(q, chunk) ==
    IF Len(q) >= MaxDepth THEN Append(Tail(q), chunk) ELSE Append(q, chunk)

\* Mutant: the coroutine scheduled last runs first.
BroadcastLast ==
    /\ chunks # <<>> /\ chunks' = Front(chunks)
    /\ queue' = [c \in Clients |->
                   IF c \in subscribed THEN Delivered(queue[c], Last(chunks)) ELSE queue[c]]
    /\ UNCHANGED <<frame, encoding, published, subscribed, pc, sending, shown>>

\* There is no await in _broadcast, so all queues get the chunk in one step.
Broadcast ==
    /\ chunks # <<>> /\ chunks' = Tail(chunks)
    /\ queue' = [c \in Clients |->
                   IF c \in subscribed THEN Delivered(queue[c], Head(chunks)) ELSE queue[c]]
    /\ UNCHANGED <<frame, encoding, published, subscribed, pc, sending, shown>>

-----------------------------------------------------------------------------
(* The clients: subscribe *)

At(c, here, there) == pc[c] = here /\ pc' = [pc EXCEPT ![c] = there]

Subscribe(c) ==
    /\ At(c, "off", "get")
    /\ subscribed' = subscribed \union {c} /\ queue' = [queue EXCEPT ![c] = <<>>]
    /\ UNCHANGED <<frame, encoding, published, chunks, sending, shown>>

Yield(c) ==
    /\ queue[c] # <<>> /\ At(c, "get", "send")
    /\ sending' = [sending EXCEPT ![c] = Head(queue[c])]
    /\ queue' = [queue EXCEPT ![c] = Tail(@)]
    /\ UNCHANGED <<frame, encoding, published, chunks, subscribed, shown>>

\* The server has sent the chunk and asks the generator for the next.
Sent(c) ==
    /\ At(c, "send", "get")
    /\ shown' = [shown EXCEPT ![c] = sending[c]] /\ sending' = [sending EXCEPT ![c] = 0]
    /\ UNCHANGED <<frame, encoding, published, chunks, subscribed, queue>>

\* The finally block: the queue goes with its chunks.
Discard(c) ==
    /\ subscribed' = subscribed \ {c} /\ queue' = [queue EXCEPT ![c] = <<>>]
    /\ UNCHANGED <<frame, encoding, published, chunks, sending, shown>>

\* q.get() has waited for five seconds, or the request is cancelled there.  A chunk that
\* arrives in the same turn of the loop does not save the stream.
Leave(c) == At(c, "get", "off") /\ Discard(c)

\* The connection breaks while a chunk is sent: the generator stays suspended at its
\* yield, with its queue registered, until it is finalised.
Break(c) ==
    /\ At(c, "send", "broken") /\ sending' = [sending EXCEPT ![c] = 0]
    /\ UNCHANGED <<frame, encoding, published, chunks, subscribed, queue, shown>>

Finalise(c) == At(c, "broken", "off") /\ Discard(c)

-----------------------------------------------------------------------------
Client(c) == Yield(c) \/ Sent(c) \/ Finalise(c)

Next ==
    \/ Publish \/ Schedule \/ EncodeFails \/ Broadcast
    \/ \E c \in Clients : Subscribe(c) \/ Client(c) \/ Leave(c) \/ Break(c)

Spec == Init /\ [][Next]_vars

\* The event loop runs what is scheduled, and the connection takes a chunk or breaks.
\* The capture thread is not needed: with no new frame the streams are to settle.
FairSpec ==
    /\ Spec /\ WF_vars(Broadcast)
    /\ \A c \in Clients : WF_vars(Client(c) \/ Break(c))

-----------------------------------------------------------------------------
(* Properties *)

TypeOK ==
    /\ frame \in Frame /\ published \in Frame /\ encoding \in BOOLEAN
    /\ chunks \in Seq(Frame) /\ subscribed \subseteq Clients
    /\ pc \in [Clients -> {"off", "get", "send", "broken"}]
    /\ queue \in [Clients -> Seq(Frame)]
    /\ sending \in [Clients -> Frame] /\ shown \in [Clients -> Frame]
    /\ \A c \in Clients : Len(queue[c]) <= MaxDepth

\* The chunks a client was sent, is being sent, has in its queue and is still to get are
\* of ever later frames, whatever is dropped and however often it reconnects: a stream
\* never repeats a frame and never goes back.
Pipeline(c) ==
    <<shown[c]>> \o (IF pc[c] = "send" THEN <<sending[c]>> ELSE <<>>) \o queue[c] \o chunks

Increasing(s) == \A i, j \in 1..Len(s) : i < j => s[i] < s[j]

StreamInOrder == \A c \in Clients : Increasing(Pipeline(c))

\* All subscribers watch the same stream: of two queues one is the end of the other.  A
\* slow client loses its oldest chunks, and never one that a faster client still has to
\* get while it keeps an older one.
SameStream ==
    \A c, d \in Clients : IsSuffix(queue[c], queue[d]) \/ IsSuffix(queue[d], queue[c])

\* When the camera pauses, a client that is waiting for a chunk already scheduled is
\* shown the last frame published, however many it missed, or its stream ends.
ShowsLast ==
    \A c \in Clients :
        chunks # <<>> /\ pc[c] = "get" ~> pc[c] \in {"broken", "off"} \/ shown[c] = published

=============================================================================
