--------------------------- MODULE CameraProvider ---------------------------
(***************************************************************************)
(* The camera of the vision bridge from on_startup to on_shutdown: how a   *)
(* provider (pylon or Aravis) opens it step by step, grabs frames out of   *)
(* the SDK's buffers in the capture thread, and lets go of it when stop()  *)
(* has waited for that thread.  What happens to a frame afterwards is in   *)
(* VisionPipeline and MjpegBroadcaster.                                    *)
(*                                                                         *)
(* Time passes in seconds, and only where the code waits for it: in        *)
(* grab_frame and in join.                                                 *)
(***************************************************************************)
EXTENDS Integers, Sequences

CONSTANTS
    Sdks,         \* the providers CAMERA_PROVIDER may name
    MaxErrors,    \* max_errors: consecutive grab errors that end the capture
    Pool,         \* buffers pylon allocates; Aravis is given one
    MaxFrames     \* bound: frames the camera sends

ASSUME CameraAssumption ==
    /\ Sdks \in SUBSET {"basler", "aravis"} /\ MaxErrors \in Nat \ {0}
    /\ Pool \in Nat /\ Pool > 2   \* one is looked at, one waits, one is filled
    /\ MaxFrames \in Nat

VARIABLES
    sdk,       \* the provider
    spc,       \* where on_startup, then on_shutdown, is
    handle,    \* _camera, or _cam, is set
    device,    \* what the SDK has of the camera: closed, open or grabbing
    running,   \* _running
    cpc,       \* where the capture thread is
    errors,    \* consecutive_errors
    blocked,   \* seconds grab_frame has waited
    waited,    \* seconds join has waited
    free,      \* buffers the SDK can fill
    out,       \* filled buffers, to be retrieved
    held,      \* the frame grab_frame is looking at
    latest,    \* the last frame it returned
    sent       \* frames the camera has sent

startup == <<spc, handle, device, waited>>
thread == <<running, cpc, errors, blocked>>
buffers == <<free, out, held>>
vars == <<sdk, startup, thread, buffers, latest, sent>>

Frame == [n: 0..MaxFrames, kind: {"good", "failed", "garbled"}]
NoFrame == [n |-> 0, kind |-> "good"]

Buffers == [basler |-> Pool, aravis |-> 1]

\* Mutant: _GRAB_TIMEOUT_MS is five seconds.
LongGrab == [basler |-> 5, aravis |-> 1]

\* How long grab_frame waits at most: 2000 ms; 200 polls of 5 ms.
GrabSeconds == [basler |-> 2, aravis |-> 1]
JoinSeconds == 3

Init ==
    /\ sdk \in Sdks /\ spc = "create" /\ handle = FALSE /\ device = "closed"
    /\ running = FALSE /\ cpc = "none" /\ errors = 0 /\ blocked = 0 /\ waited = 0
    /\ free = 0 /\ out = <<>> /\ held = NoFrame /\ latest = 0 /\ sent = 0

-----------------------------------------------------------------------------
(* on_startup: start(), connect() *)

Goto(here, there) == spc = here /\ spc' = there

\* InstantCamera(device) is assigned before Open; Aravis.Camera.new opens it as well.
Create ==
    /\ Goto("create", IF sdk = "basler" THEN "open" ELSE "configure")
    /\ handle' = TRUE /\ device' = IF sdk = "basler" THEN "closed" ELSE "open"
    /\ UNCHANGED <<sdk, waited, thread, buffers, latest, sent>>

Open ==
    /\ Goto("open", "configure") /\ device' = "open"
    /\ UNCHANGED <<sdk, handle, waited, thread, buffers, latest, sent>>

\* Resolution, pixel format, ...: only the resolution raises.  StartGrabbing, or a stream
\* with its buffer and start_acquisition.
StartGrabbing ==
    /\ Goto("configure", "warmup")
    /\ device' = "grabbing" /\ free' = Buffers[sdk]
    /\ UNCHANGED <<sdk, handle, waited, thread, out, held, latest, sent>>

\* warmup is done, the threads are started.
StartThreads ==
    /\ Goto("warmup", "serving")
    /\ running' = TRUE /\ cpc' = "loop"
    /\ UNCHANGED <<sdk, handle, device, waited, errors, blocked, buffers, latest, sent>>

\* Any step may raise: the bridge serves without threads, with what was opened so far.
StartFails ==
    /\ spc \in {"create", "open", "configure", "warmup"} /\ spc' = "serving"
    /\ UNCHANGED <<sdk, handle, device, waited, thread, buffers, latest, sent>>

-----------------------------------------------------------------------------
(* The capture thread: the loop of _patched_capture_loop, and grab_frame *)

At(here, there) == cpc = here /\ cpc' = there

Enter ==
    /\ running /\ device = "grabbing" /\ handle /\ At("loop", "wait") /\ blocked' = 0
    /\ UNCHANGED <<sdk, startup, running, errors, buffers, latest, sent>>

Leave ==
    /\ ~running /\ At("loop", "ended")
    /\ UNCHANGED <<sdk, startup, running, errors, blocked, buffers, latest, sent>>

\* The except branch of the loop.
GrabError ==
    /\ errors' = errors + 1
    /\ running' = (running /\ errors' < MaxErrors)
    /\ cpc' = IF errors' < MaxErrors THEN "loop" ELSE "ended"
    /\ blocked' = 0

NotGrabbing ==
    /\ cpc = "loop" /\ running /\ (device # "grabbing" \/ ~handle) /\ GrabError
    /\ UNCHANGED <<sdk, startup, buffers, latest, sent>>

Timeout ==
    /\ cpc = "wait" /\ out = <<>> /\ blocked = GrabSeconds[sdk] /\ GrabError
    /\ UNCHANGED <<sdk, startup, buffers, latest, sent>>

Retrieve ==
    /\ out # <<>> /\ At("wait", "held")
    /\ sdk = "basler" \/ Head(out).kind # "failed"
    /\ held' = Head(out) /\ out' = Tail(out)
    /\ UNCHANGED <<sdk, startup, running, errors, blocked, free, latest, sent>>

\* try_pop_buffer has popped a buffer whose status is not SUCCESS: the loop polls on, and
\* the buffer is dropped.
PopFailed ==
    /\ sdk = "aravis" /\ cpc = "wait" /\ out # <<>> /\ Head(out).kind = "failed"
    /\ out' = Tail(out)
    /\ UNCHANGED <<sdk, startup, thread, free, held, latest, sent>>

Accept == held.kind = "good" /\ latest' = held.n /\ errors' = 0 /\ cpc' = "loop"

\* Mutant: the buffer is released only when the frame was converted.
ReturnOnSuccess ==
    /\ cpc = "held" /\ held' = NoFrame
    /\ \/ /\ Accept /\ blocked' = 0 /\ free' = free + 1 /\ UNCHANGED running
       \/ /\ held.kind # "good" /\ GrabError /\ UNCHANGED <<latest, free>>
    /\ UNCHANGED <<sdk, startup, out, sent>>

\* The frame is converted and its buffer goes back, also if GrabSucceeded is false or the
\* conversion raises.
Return ==
    /\ cpc = "held" /\ held' = NoFrame /\ free' = free + 1
    /\ \/ Accept /\ blocked' = 0 /\ UNCHANGED running
       \/ held.kind # "good" /\ GrabError /\ UNCHANGED latest
    /\ UNCHANGED <<sdk, startup, out, sent>>

-----------------------------------------------------------------------------
(* on_shutdown: stop(), disconnect() *)

Stop ==
    /\ Goto("serving", IF cpc = "none" THEN "disconnect" ELSE "join")
    /\ running' = FALSE
    /\ UNCHANGED <<sdk, handle, device, waited, cpc, errors, blocked, buffers, latest, sent>>

Join ==
    /\ Goto("join", "disconnect") /\ (cpc = "ended" \/ waited = JoinSeconds)
    /\ UNCHANGED <<sdk, handle, device, waited, thread, buffers, latest, sent>>

\* Mutant: only a camera that is grabbing is disconnected.
DisconnectGrabbing ==
    /\ Goto("disconnect", "done")
    /\ IF device = "grabbing" THEN handle' = FALSE /\ device' = "closed"
       ELSE UNCHANGED <<handle, device>>
    /\ UNCHANGED <<sdk, waited, thread, buffers, latest, sent>>

\* The reference is dropped in any case; that of Aravis is all that is dropped, and pylon
\* may raise before it closes the camera.
Disconnect ==
    /\ Goto("disconnect", "done") /\ handle' = FALSE
    /\ \/ handle /\ sdk = "basler" /\ device' = "closed"
       \/ UNCHANGED device
    /\ UNCHANGED <<sdk, waited, thread, buffers, latest, sent>>

-----------------------------------------------------------------------------
(* The SDK, the camera and the clock *)

\* What nothing refers to is destroyed, and closes the camera.
Collect ==
    /\ spc = "done" /\ ~handle /\ cpc \in {"none", "ended"} /\ device # "closed"
    /\ device' = "closed"
    /\ UNCHANGED <<sdk, spc, handle, waited, thread, buffers, latest, sent>>

\* Mutant: GrabStrategy_OneByOne.
QueuedOneByOne(f) == out' = Append(out, f) /\ free' = free - 1

\* GrabStrategy_LatestImageOnly: a frame takes the place of the one that waits.
Queued(f) ==
    IF sdk = "basler"
    THEN out' = <<f>> /\ free' = free - 1 + Len(out)
    ELSE out' = Append(out, f) /\ free' = free - 1

\* A frame arrives whole, damaged, or in another format; without a buffer it is lost.
Arrive ==
    /\ device = "grabbing" /\ sent < MaxFrames /\ sent' = sent + 1
    /\ \/ \E f \in Frame : f.n = sent' /\ free > 0 /\ Queued(f)
       \/ free = 0 /\ UNCHANGED <<free, out>>
    /\ UNCHANGED <<sdk, startup, thread, held, latest>>

\* pylon finds the camera gone, and IsGrabbing is false from then on.
Unplug ==
    /\ sdk = "basler" /\ device = "grabbing" /\ device' = "open"
    /\ UNCHANGED <<sdk, spc, handle, waited, thread, buffers, latest, sent>>

\* Somebody has something to do at once.
Pressing ==
    \/ cpc \in {"loop", "held"}
    \/ cpc = "wait" /\ (out # <<>> \/ blocked = GrabSeconds[sdk])
    \/ spc = "join" /\ (cpc = "ended" \/ waited = JoinSeconds)

Tick ==
    /\ ~Pressing /\ (cpc = "wait" \/ spc = "join")
    /\ blocked' = IF cpc = "wait" THEN blocked + 1 ELSE blocked
    /\ waited' = IF spc = "join" THEN waited + 1 ELSE waited
    /\ UNCHANGED <<sdk, spc, handle, device, running, cpc, errors, buffers, latest, sent>>

-----------------------------------------------------------------------------
Capture == Enter \/ Leave \/ NotGrabbing \/ Timeout \/ Retrieve \/ PopFailed \/ Return

Next ==
    \/ Create \/ Open \/ StartGrabbing \/ StartThreads \/ StartFails
    \/ Capture \/ Stop \/ Join \/ Disconnect
    \/ Collect \/ Arrive \/ Unplug \/ Tick

Spec == Init /\ [][Next]_vars

\* The thread is scheduled, time passes, stop() goes on, CPython destroys what nothing
\* refers to.  Nothing is assumed of the camera, nor that the bridge is ever stopped.
FairSpec ==
    /\ Spec
    /\ WF_vars(Capture) /\ WF_vars(Tick) /\ WF_vars(Join) /\ WF_vars(Disconnect)
    /\ WF_vars(Collect)

-----------------------------------------------------------------------------
(* Properties *)

TypeOK ==
    /\ sdk \in Sdks /\ device \in {"closed", "open", "grabbing"}
    /\ spc \in {"create", "open", "configure", "warmup", "serving", "join", "disconnect", "done"}
    /\ cpc \in {"none", "loop", "wait", "held", "ended"}
    /\ handle \in BOOLEAN /\ running \in BOOLEAN
    /\ errors \in 0..MaxErrors /\ blocked \in 0..GrabSeconds[sdk] /\ waited \in 0..JoinSeconds
    /\ free \in 0..Pool /\ out \in Seq(Frame) /\ held \in Frame
    /\ latest \in 0..MaxFrames /\ sent \in 0..MaxFrames

\* No failure of a grab costs pylon a buffer, so that it never runs out of them: what is
\* neither free nor waiting is what grab_frame is looking at.
BuffersReturned ==
    sdk = "basler" /\ spc = "serving" /\ cpc # "none" =>
        free + Len(out) + (IF cpc = "held" THEN 1 ELSE 0) = Buffers[sdk]

\* However many frames came while the thread was busy, and whichever were damaged, what
\* pylon gives it next is the newest that has come, and frames never go back.
Freshest ==
    [][ /\ latest' >= latest
        /\ sdk = "basler" /\ cpc = "wait" /\ cpc' = "held" => held'.n = sent ]_vars

\* stop() does not take the camera away from a thread that is inside the SDK: whatever
\* the thread was doing when it began, it has left before join gives up on it.
NotPulledAway == spc \in {"disconnect", "done"} => cpc \notin {"wait", "held"}

\* Once the bridge is stopped the camera is closed and another program can open it,
\* wherever the start had failed and even if pylon raises on the way.
Released == spc = "join" \/ spc = "disconnect" ~> device = "closed" /\ ~handle

\* aravis.py: the acquisition pipeline is kept filled.  While the camera is grabbed from
\* there is a buffer it can fill, or a filled one to be retrieved.
PipelineFilled ==
    device = "grabbing" /\ cpc \in {"loop", "wait"} => free + Len(out) > 0

=============================================================================
