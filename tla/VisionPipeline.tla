--------------------------- MODULE VisionPipeline ---------------------------
(***************************************************************************)
(* The vision bridge: a capture thread grabs frames, keeps the latest and  *)
(* writes it to the ring buffer; an inference thread analyses the newest   *)
(* frame of the ring and stores one result; executor threads wait for      *)
(* results on behalf of WebSocket clients.  What the capture thread hands  *)
(* to the MJPEG streams in between is the module MjpegBroadcaster.         *)
(*                                                                         *)
(* Frames are numbered as they are grabbed, which is what _frame_id        *)
(* counts.  Each step of a thread that another thread can see is an action.*)
(***************************************************************************)
EXTENDS Integers, Sequences, FiniteSets

CONSTANTS
    Clients,      \* WebSocket clients of /ws
    MaxErrors,    \* max_errors: consecutive grab errors that end the capture
    ShapeFits,    \* the camera's frames have the shape the ring was allocated with
    MaxFrames,    \* bound: frames grabbed
    MaxTrouble    \* bound: times the camera fails, and frames preprocess rejects

ASSUME VisionAssumption ==
    /\ MaxErrors \in Nat \ {0} /\ ShapeFits \in BOOLEAN
    /\ MaxFrames \in Nat /\ MaxTrouble \in Nat

VARIABLES
    camOk,     \* the camera delivers frames
    running,   \* _running
    cpc,       \* where the capture thread is
    errors,    \* consecutive_errors
    latest,    \* _latest_frame and _frame_id; 0 before the first frame
    ring,      \* the newest frame the inference thread has not read; 0 is none
    ipc,       \* where the inference thread is
    frame,     \* the frame it analyses
    label,     \* the frame_id it puts in the result
    result,    \* _latest_result
    event,     \* _result_event
    wpc,       \* where each WebSocket client's thread is
    sent,      \* the frame of the last result each client was sent
    rejected,  \* a frame that preprocess raised on
    trouble

captureVars == <<camOk, running, cpc, errors, latest>>
inferVars == <<ipc, frame, label, result, rejected>>
wsVars == <<wpc, sent>>
vars == <<captureVars, ring, inferVars, event, wsVars, trouble>>

Frame == 0..MaxFrames
NoResult == [frame |-> 0, id |-> 0]

\* on_startup: the camera was opened and both threads run, or start raised and the
\* bridge serves without them.
Init ==
    /\ camOk = TRUE /\ running \in BOOLEAN
    /\ cpc = IF running THEN "loop" ELSE "ended"
    /\ ipc = IF running THEN "loop" ELSE "ended"
    /\ errors = 0 /\ latest = 0 /\ ring = 0
    /\ frame = 0 /\ label = 0 /\ result = NoResult /\ rejected = 0
    /\ event = FALSE
    /\ wpc = [c \in Clients |-> "off"] /\ sent = [c \in Clients |-> 0]
    /\ trouble = 0

-----------------------------------------------------------------------------
(* The capture thread: _patched_capture_loop *)

\* _running is looked at before each grab: one that is under way when the bridge stops may
\* still bring a frame.
CaptureLoop ==
    /\ cpc = "loop" /\ cpc' = IF running THEN "grab" ELSE "ended"
    /\ UNCHANGED <<camOk, running, errors, latest, ring, inferVars, event, wsVars, trouble>>

Grab ==
    /\ cpc = "grab" /\ camOk /\ latest < MaxFrames
    /\ errors' = 0 /\ latest' = latest + 1 /\ cpc' = "ring"
    /\ UNCHANGED <<camOk, running, ring, inferVars, event, wsVars, trouble>>

\* The camera that has sent its MaxFrames is about to send one more, until the bridge stops.
GrabFails ==
    /\ cpc = "grab" /\ (~camOk \/ (latest = MaxFrames /\ ~running))
    /\ errors' = errors + 1
    /\ running' = (running /\ errors' < MaxErrors)
    /\ cpc' = IF errors' < MaxErrors THEN "loop" ELSE "ended"
    /\ UNCHANGED <<camOk, latest, ring, inferVars, event, wsVars, trouble>>

\* Mutant: a frame that was not read yet is kept, and the new one dropped.
RingWriteKeepsOld ==
    /\ cpc = "ring" /\ cpc' = "loop"
    /\ ring' = IF ShapeFits /\ ring = 0 THEN latest ELSE ring
    /\ UNCHANGED <<camOk, running, errors, latest, inferVars, event, wsVars, trouble>>

\* ValueError on a shape mismatch: the frame is skipped, and nothing rebuilds the ring.
RingWrite ==
    /\ cpc = "ring" /\ cpc' = "loop"
    /\ ring' = IF ShapeFits THEN latest ELSE ring
    /\ UNCHANGED <<camOk, running, errors, latest, inferVars, event, wsVars, trouble>>

-----------------------------------------------------------------------------
(* The inference thread: _inference_loop *)

\* _running is looked at before read_blocking, too.
InferenceLoop ==
    /\ ipc = "loop" /\ ipc' = IF running THEN "read" ELSE "ended"
    /\ UNCHANGED <<captureVars, ring, frame, label, result, rejected, event, wsVars, trouble>>

Read ==
    /\ ipc = "read" /\ ring # 0
    /\ frame' = ring /\ ring' = 0 /\ ipc' = "infer"
    /\ UNCHANGED <<captureVars, label, result, rejected, event, wsVars, trouble>>

\* Mutant: read_blocking has no timeout.
ReadWaits == ipc = "read" /\ ring = 0 /\ UNCHANGED vars

ReadTimesOut ==
    /\ ipc = "read" /\ ring = 0 /\ ipc' = "loop"
    /\ UNCHANGED <<captureVars, ring, frame, label, result, rejected, event, wsVars, trouble>>

\* preprocess raises: the frame is given up.
Reject ==
    /\ ipc = "infer" /\ trouble < MaxTrouble /\ trouble' = trouble + 1
    /\ rejected' = frame /\ frame' = 0 /\ ipc' = "loop"
    /\ UNCHANGED <<captureVars, ring, label, result, event, wsVars>>

\* preprocess and infer are done; the frame_id is read only now.
Label ==
    /\ ipc = "infer" /\ label' = latest /\ ipc' = "store"
    /\ UNCHANGED <<captureVars, ring, frame, result, rejected, event, wsVars, trouble>>

Store ==
    /\ ipc = "store" /\ result' = [frame |-> frame, id |-> label]
    /\ frame' = 0 /\ label' = 0 /\ ipc' = "notify"
    /\ UNCHANGED <<captureVars, ring, rejected, event, wsVars, trouble>>

Notify ==
    /\ ipc = "notify" /\ event' = TRUE /\ ipc' = "loop"
    /\ UNCHANGED <<captureVars, ring, frame, label, result, rejected, wsVars, trouble>>

-----------------------------------------------------------------------------
(* WebSocket clients: websocket_endpoint and wait_for_result *)

At(c, here, there) == wpc[c] = here /\ wpc' = [wpc EXCEPT ![c] = there]

Accept(c) ==
    /\ At(c, "off", "wait") /\ sent' = [sent EXCEPT ![c] = 0]
    /\ UNCHANGED <<captureVars, ring, inferVars, event, trouble>>

\* Mutant: the wait has no timeout.
WakeBySet(c) ==
    /\ event /\ At(c, "wait", "clear")
    /\ UNCHANGED <<captureVars, ring, inferVars, event, sent, trouble>>

\* The event is set, or the timeout has passed: wait_for_result does not ask which.
Wake(c) ==
    /\ At(c, "wait", "clear")
    /\ UNCHANGED <<captureVars, ring, inferVars, event, sent, trouble>>

\* All clients share one event.
Clear(c) ==
    /\ At(c, "clear", "send") /\ event' = FALSE
    /\ UNCHANGED <<captureVars, ring, inferVars, sent, trouble>>

Send(c) ==
    /\ At(c, "send", "wait")
    /\ sent' = [sent EXCEPT ![c] = result.frame]
    /\ UNCHANGED <<captureVars, ring, inferVars, event, trouble>>

Disconnect(c) ==
    /\ At(c, "wait", "off")
    /\ UNCHANGED <<captureVars, ring, inferVars, event, sent, trouble>>

-----------------------------------------------------------------------------
(* The service and the camera *)

\* on_shutdown: stop() clears _running and waits for the threads.
Stop ==
    /\ running /\ running' = FALSE
    /\ UNCHANGED <<camOk, cpc, errors, latest, ring, inferVars, event, wsVars, trouble>>

CameraFails ==
    /\ camOk /\ trouble < MaxTrouble /\ trouble' = trouble + 1 /\ camOk' = FALSE
    /\ UNCHANGED <<running, cpc, errors, latest, ring, inferVars, event, wsVars>>

CameraReturns ==
    /\ ~camOk /\ camOk' = TRUE
    /\ UNCHANGED <<running, cpc, errors, latest, ring, inferVars, event, wsVars, trouble>>

-----------------------------------------------------------------------------
Capture == CaptureLoop \/ Grab \/ GrabFails \/ RingWrite
Inference == InferenceLoop \/ Read \/ ReadTimesOut \/ Label \/ Store \/ Notify
WebSocket(c) == Wake(c) \/ Clear(c) \/ Send(c)

Next ==
    \/ Capture \/ Inference \/ Reject
    \/ \E c \in Clients : Accept(c) \/ WebSocket(c) \/ Disconnect(c)
    \/ Stop \/ CameraFails \/ CameraReturns

Spec == Init /\ [][Next]_vars

\* The threads are scheduled, grab_frame and read_blocking time out, and waiting for a
\* result ends after a second.  Nothing is assumed of the camera.
FairSpec ==
    /\ Spec /\ WF_vars(Capture) /\ WF_vars(Inference)
    /\ \A c \in Clients : WF_vars(WebSocket(c))

-----------------------------------------------------------------------------
(* Properties *)

TypeOK ==
    /\ camOk \in BOOLEAN /\ running \in BOOLEAN /\ event \in BOOLEAN
    /\ cpc \in {"loop", "grab", "ring", "ended"}
    /\ ipc \in {"loop", "read", "infer", "store", "notify", "ended"}
    /\ errors \in 0..MaxErrors
    /\ {latest, ring, frame, label, rejected} \subseteq Frame
    /\ result \in [frame: Frame, id: Frame]
    /\ sent \in [Clients -> Frame]
    /\ wpc \in [Clients -> {"off", "wait", "clear", "send"}]
    /\ trouble \in Nat

\* No frame is analysed twice, none after a newer one, and no client is sent an older result
\* than it has had, although the clients wait for one event, read the result only after they
\* have cleared it, and a result is labelled with the frame_id of a later frame.
Forward ==
    /\ result' # result => result'.frame > result.frame /\ result'.id >= result'.frame
    /\ \A c \in Clients : wpc[c] # "off" => sent'[c] >= sent[c]

ResultsForward == [][Forward]_vars

\* Every connected client is sent the latest result in the end, although clients clear
\* one another's event before all have seen it.
ClientCatchesUp ==
    \A c \in Clients :
        wpc[c] # "off" /\ sent[c] # result.frame ~> wpc[c] = "off" \/ sent[c] = result.frame

\* A frame that the ring can hold and that no newer frame follows is not left unread: it is
\* analysed or preprocess rejects it, unless the bridge stops.  While frames keep coming
\* nothing is said: the inference thread may skip any of them.
FramesInferred ==
    ShapeFits =>
        \A f \in Frame \ {0} :
            latest = f ~> latest # f \/ f \in {result.frame, rejected} \/ ~running

\* Once _running is false, by a shutdown or by the capture thread itself, both threads
\* end, so stop() can join them: none sleeps for ever on a frame that does not come.
WorkersEnd == ~running ~> cpc = "ended" /\ ipc = "ended"

=============================================================================
