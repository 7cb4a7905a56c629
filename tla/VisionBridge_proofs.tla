------------------------- MODULE VisionBridge_proofs -------------------------
(***************************************************************************)
(* The vision bridge.  CameraProvider: types; that pylon keeps its         *)
(* buffers, that frames never go back and pylon's are the newest, and that *)
(* stop() does not take the camera from a thread inside the SDK, for any   *)
(* number of buffers, errors and frames.  VisionPipeline: types, and that  *)
(* results never go back, for any clients, errors and frames.              *)
(***************************************************************************)
EXTENDS CameraProvider, SequenceTheorems, TLAPS

-----------------------------------------------------------------------------
(* CameraProvider *)

Starting == {"create", "open", "configure"}

\* The buffers that are somewhere.
Count == free + Len(out) + (IF cpc = "held" THEN 1 ELSE 0)

\* Types, but for the bound on free, which the count of the buffers gives.
Shapes ==
    /\ sdk \in {"basler", "aravis"} /\ sdk \in Sdks /\ device \in {"closed", "open", "grabbing"}
    /\ spc \in Starting \cup {"warmup", "serving", "join", "disconnect", "done"}
    /\ cpc \in {"none", "loop", "wait", "held", "ended"}
    /\ handle \in BOOLEAN /\ running \in BOOLEAN
    /\ errors \in 0..MaxErrors /\ (cpc # "ended" => errors < MaxErrors)
    /\ free \in Nat /\ out \in Seq(Frame) /\ held \in Frame
    /\ latest \in 0..MaxFrames /\ sent \in 0..MaxFrames

\* The thread starts after the SDK has got its buffers.  Aravis has one at most; pylon
\* has all of them as long as frames can come, and one filled frame at most waits.
Counted ==
    /\ cpc # "none" => spc \notin Starting \cup {"warmup"}
    /\ spc \in Starting => device # "grabbing" /\ free = 0 /\ out = <<>>
    /\ Len(out) <= 1
    /\ sdk = "aravis" => Count <= 1
    /\ sdk = "basler" /\ (cpc # "none" \/ spc = "warmup" \/ device = "grabbing") => Count = Pool
    /\ sdk = "basler" => free <= Pool

\* Frames are handed on in the order in which they came, and pylon keeps the newest.
Numbered ==
    /\ latest <= sent
    /\ cpc = "held" => latest <= held.n /\ held.n <= sent
    /\ out # <<>> => /\ latest <= out[1].n /\ out[1].n <= sent
                     /\ cpc = "held" => held.n <= out[1].n
                     /\ sdk = "basler" => out[1].n = sent

\* join has not waited longer than the grab it waits for, which ends within 2 s.
Timed ==
    /\ blocked \in 0..GrabSeconds[sdk] /\ waited \in 0..JoinSeconds
    /\ spc \notin {"join", "disconnect", "done"} => waited = 0
    /\ spc \in {"join", "disconnect", "done"} => ~running
    /\ spc = "join" /\ cpc \in {"wait", "held"} => waited <= blocked
    /\ NotPulledAway

CameraInv == Shapes /\ Counted /\ Numbered /\ Timed

\* What is left of a sequence of one, and what a frame that arrives makes of one.
LEMMA ShortSequence ==
    ASSUME NEW s \in Seq(Frame), Len(s) <= 1
    PROVE  /\ Len(s) \in Nat /\ (s = <<>> <=> Len(s) = 0)
           /\ s # <<>> => /\ Len(s) = 1 /\ Head(s) = s[1] /\ s[1] \in Frame
                          /\ Tail(s) = <<>>
           /\ \A f \in Frame : /\ <<f>> \in Seq(Frame) /\ Len(<<f>>) = 1 /\ <<f>>[1] = f
                               /\ <<f>> # <<>>
                               /\ s = <<>> => Append(s, f) = <<f>>
<1>1. Len(s) \in Nat /\ (s = <<>> <=> Len(s) = 0)
  BY EmptySeq
<1>2. ASSUME s # <<>> PROVE Len(s) = 1 /\ Head(s) = s[1] /\ s[1] \in Frame /\ Tail(s) = <<>>
  <2>0. Len(s) # 0
    BY <1>1, <1>2, Zenon
  <2>1. Len(s) = 1 /\ 1 \in 1..Len(s)
    <3>1. \A k \in Nat : k # 0 /\ k <= 1 => k = 1 /\ 1 \in 1..k
      OBVIOUS
    <3>2. Len(s) \in Nat /\ Len(s) # 0 /\ Len(s) <= 1
      BY <1>1, <2>0
    <3> QED BY <3>1, <3>2, Zenon
  <2>2. s[1] \in Frame /\ Head(s) = s[1]
    BY <2>1
  <2>3. Tail(s) \in Seq(Frame) /\ Len(Tail(s)) = 0
    BY <1>2, <2>1, HeadTailProperties
  <2>4. Tail(s) = <<>>
    BY <2>3, EmptySeq
  <2> QED BY <2>1, <2>2, <2>4
<1>3. ASSUME NEW f \in Frame
      PROVE  /\ <<f>> \in Seq(Frame) /\ Len(<<f>>) = 1 /\ <<f>>[1] = f /\ <<f>> # <<>>
             /\ s = <<>> => Append(s, f) = <<f>>
  <2>1. /\ <<f>> \in Seq(Frame) /\ Len(<<f>>) = 1 /\ <<f>>[1] = f /\ <<f>> # <<>>
    OBVIOUS
  <2>2. Append(<<>>, f) = <<f>>
    OBVIOUS
  <2> QED BY <2>1, <2>2
<1> QED BY <1>1, <1>2, <1>3

LEMMA Fields ==
    ASSUME NEW f \in Frame
    PROVE  f.n \in 0..MaxFrames /\ f.n \in Int
BY CameraAssumption DEF Frame

LEMMA CameraStep == CameraInv /\ [Next]_vars => CameraInv'
<1> SUFFICES ASSUME CameraInv, [Next]_vars PROVE CameraInv'
  OBVIOUS
<1>0. /\ Shapes /\ Counted /\ Numbered /\ Timed
      /\ MaxErrors \in Nat /\ Pool \in Nat /\ Pool > 2 /\ MaxFrames \in Nat
      /\ GrabSeconds["basler"] = 2 /\ GrabSeconds["aravis"] = 1 /\ JoinSeconds = 3
      /\ Buffers["basler"] = Pool /\ Buffers["aravis"] = 1
  BY CameraAssumption DEF CameraInv, GrabSeconds, JoinSeconds, Buffers
<1> USE <1>0 DEF startup, thread, buffers, Goto, At, Starting, NotPulledAway, Count
<1>1. CASE Create \/ Open
  BY <1>1 DEF Create, Open, CameraInv, Shapes, Counted, Numbered, Timed
<1>2. CASE StartGrabbing
  BY <1>2 DEF StartGrabbing, CameraInv, Shapes, Counted, Numbered, Timed
<1>3. CASE StartThreads
  BY <1>3 DEF StartThreads, CameraInv, Shapes, Counted, Numbered, Timed
<1>4. CASE StartFails
  BY <1>4 DEF StartFails, CameraInv, Shapes, Counted, Numbered, Timed
<1>5. CASE Enter \/ Leave
  <2>1. CASE Enter
    BY <2>1 DEF Enter, CameraInv, Shapes, Counted, Numbered, Timed
  <2>2. CASE Leave
    BY <2>2 DEF Leave, CameraInv, Shapes, Counted, Numbered, Timed
  <2> QED BY <1>5, <2>1, <2>2
<1>6. ASSUME GrabError, cpc \notin {"none", "ended"}, UNCHANGED <<sdk, startup>>
      PROVE  /\ cpc' \in {"loop", "ended"} /\ (cpc' # "ended" => errors' < MaxErrors)
             /\ errors' \in 0..MaxErrors /\ running' \in BOOLEAN /\ Timed'
  <2>1. running' \in BOOLEAN
    BY <1>6, Zenon DEF GrabError
  <2>2. /\ cpc' \in {"loop", "ended"} /\ (cpc' # "ended" => errors' < MaxErrors)
        /\ errors' \in 0..MaxErrors
    BY <1>6 DEF GrabError, Shapes
  <2>3. blocked' = 0 /\ (running' => running)
    BY <1>6 DEF GrabError
  <2>4. Timed'
    BY <1>6, <2>2, <2>3 DEF Shapes, Timed
  <2> QED BY <2>1, <2>2, <2>4
<1>7. CASE NotGrabbing \/ Timeout
  <2>1. GrabError /\ UNCHANGED <<sdk, startup, buffers, latest, sent>> /\ cpc \in {"loop", "wait"}
    BY <1>7 DEF NotGrabbing, Timeout
  <2> QED BY <1>6, <2>1 DEF CameraInv, Shapes, Counted, Numbered
<1>8. CASE Retrieve
  <2>1. /\ out # <<>> /\ cpc = "wait" /\ cpc' = "held" /\ held' = Head(out) /\ out' = Tail(out)
        /\ UNCHANGED <<sdk, startup, running, errors, blocked, free, latest, sent>>
    BY <1>8 DEF Retrieve
  <2>2. /\ Len(out) = 1 /\ held' = out[1] /\ held' \in Frame /\ out' = <<>> /\ Len(out') = 0
        /\ out' \in Seq(Frame)
    BY <2>1, ShortSequence, EmptySeq DEF Shapes, Counted
  <2>3. Shapes' /\ Counted'
    <3>1. Shapes'
      BY <2>1, <2>2 DEF Shapes
    <3>2. Count' = Count
      <4>1. /\ cpc # "held" /\ cpc' = "held" /\ free' = free /\ free \in Nat
            /\ Len(out) = 1 /\ Len(out') = 0
        BY <2>1, <2>2 DEF Shapes
      <4> QED BY <4>1
    <3>3. Counted'
      BY <2>1, <2>2, <3>2 DEF Shapes, Counted
    <3> QED BY <3>1, <3>3
  <2>4. Numbered'
    BY <2>1, <2>2 DEF Numbered
  <2>5. Timed'
    BY <2>1 DEF Timed
  <2> QED BY <2>3, <2>4, <2>5 DEF CameraInv
<1>9. CASE PopFailed
  <2>1. /\ out # <<>> /\ sdk = "aravis" /\ out' = Tail(out)
        /\ UNCHANGED <<sdk, startup, thread, free, held, latest, sent>>
    BY <1>9 DEF PopFailed
  <2>2. Len(out) = 1 /\ out' = <<>> /\ Len(out') = 0 /\ out' \in Seq(Frame)
    BY <2>1, ShortSequence, EmptySeq DEF Shapes, Counted
  <2>3. Shapes' /\ Counted'
    <3>1. Shapes'
      BY <2>1, <2>2 DEF Shapes
    <3>2. /\ Len(out) = 1 /\ Len(out') = 0 /\ out' = <<>> /\ sdk = "aravis"
          /\ UNCHANGED <<sdk, spc, device, cpc, free>>
      BY <2>1, <2>2
    <3>3. Counted'
      BY <3>2 DEF Shapes, Counted
    <3> QED BY <3>1, <3>3
  <2>4. Numbered' /\ Timed'
    BY <2>1, <2>2 DEF Numbered, Timed
  <2> QED BY <2>3, <2>4 DEF CameraInv
<1>10. CASE Return
  <2>1. /\ cpc = "held" /\ held' = NoFrame /\ NoFrame \in Frame /\ free' = free + 1
        /\ UNCHANGED <<sdk, startup, out, sent>>
    BY <1>10 DEF Return, NoFrame, Frame
  <2>2. held.n \in 0..MaxFrames
    BY Fields DEF Shapes
  <2>3. CASE Accept /\ blocked' = 0 /\ UNCHANGED running
    BY <2>1, <2>2, <2>3 DEF Accept, CameraInv, Shapes, Counted, Numbered, Timed
  <2>4. CASE GrabError /\ UNCHANGED latest
    BY <1>6, <2>1, <2>4 DEF CameraInv, Shapes, Counted, Numbered
  <2> QED BY <1>10, <2>3, <2>4 DEF Return
<1>11. CASE Stop
  <2>1. /\ spc = "serving" /\ spc' = IF cpc = "none" THEN "disconnect" ELSE "join"
        /\ running' = FALSE
        /\ UNCHANGED <<sdk, handle, device, waited, cpc, errors, blocked, buffers, latest, sent>>
    BY <1>11 DEF Stop
  <2>2. Timed'
    BY <2>1 DEF Shapes, Timed
  <2> QED BY <2>1, <2>2 DEF CameraInv, Shapes, Counted, Numbered
<1>12. CASE Join
  BY <1>12 DEF Join, CameraInv, Shapes, Counted, Numbered, Timed
<1>13. CASE Disconnect
  BY <1>13 DEF Disconnect, CameraInv, Shapes, Counted, Numbered, Timed
<1>14. CASE Collect \/ Unplug
  <2>1. /\ device' \in {"closed", "open"}
        /\ UNCHANGED <<sdk, spc, handle, waited, thread, buffers, latest, sent>>
    BY <1>14 DEF Collect, Unplug
  <2> QED BY <2>1 DEF CameraInv, Shapes, Counted, Numbered, Timed
<1>15. CASE Arrive
  <2>1. /\ device = "grabbing" /\ sent < MaxFrames /\ sent' = sent + 1
        /\ UNCHANGED <<sdk, startup, thread, held, latest>>
    BY <1>15 DEF Arrive
  <2>2. CASE free = 0 /\ UNCHANGED <<free, out>>
    <3>1. sdk # "basler"
      BY <2>1, <2>2 DEF Counted, Shapes
    <3> QED BY <2>1, <2>2, <3>1, ShortSequence, Fields DEF CameraInv, Shapes, Counted, Numbered,
                                                           Timed
  <2>3. ASSUME NEW f \in Frame, f.n = sent', free > 0, Queued(f) PROVE CameraInv'
    <3>1. CASE sdk = "basler"
      <4>1. out' = <<f>> /\ free' = free - 1 + Len(out)
        BY <2>3, <3>1 DEF Queued
      <4>2. /\ Len(out) \in {0, 1} /\ out' \in Seq(Frame) /\ Len(out') = 1 /\ out'[1] = f
        BY <4>1, ShortSequence DEF Shapes, Counted
      <4>3. held.n \in 0..MaxFrames
        BY Fields DEF Shapes
      <4> QED BY <2>1, <2>3, <3>1, <4>1, <4>2, <4>3
              DEF CameraInv, Shapes, Counted, Numbered, Timed
    <3>2. CASE sdk = "aravis"
      <4>1. out = <<>> /\ Len(out) = 0 /\ cpc # "held" /\ free = 1
        BY <2>3, <3>2, ShortSequence DEF Shapes, Counted
      <4>2. out' = <<f>> /\ free' = 0 /\ out' \in Seq(Frame) /\ Len(out') = 1 /\ out'[1] = f
        <5>1. out' = Append(<<>>, f) /\ free' = free - 1
          BY <2>3, <3>2, <4>1 DEF Queued
        <5>2. Append(<<>>, f) = <<f>> /\ <<f>> \in Seq(Frame) /\ Len(<<f>>) = 1 /\ <<f>>[1] = f
          OBVIOUS
        <5> QED BY <4>1, <5>1, <5>2
      <4> QED BY <2>1, <2>3, <3>2, <4>1, <4>2 DEF CameraInv, Shapes, Counted, Numbered, Timed
    <3> QED BY <3>1, <3>2 DEF Shapes
  <2> QED BY <1>15, <2>2, <2>3 DEF Arrive
<1>16. CASE Tick
  BY <1>16 DEF Tick, Pressing, CameraInv, Shapes, Counted, Numbered, Timed
<1>17. CASE UNCHANGED vars
  BY <1>17 DEF vars, CameraInv, Shapes, Counted, Numbered, Timed
<1> QED BY <1>1, <1>2, <1>3, <1>4, <1>5, <1>7, <1>8, <1>9, <1>10, <1>11, <1>12, <1>13, <1>14,
        <1>15, <1>16, <1>17 DEF Next, Capture

LEMMA CameraInvariant == Spec => []CameraInv
<1>1. Init => CameraInv
  <2>1. /\ <<>> \in Seq(Frame) /\ Len(<<>>) = 0 /\ NoFrame \in Frame
        /\ 0 \in 0..MaxErrors /\ 0 < MaxErrors /\ 0 \in 0..MaxFrames
    BY CameraAssumption DEF NoFrame, Frame
  <2>2. Sdks \subseteq {"basler", "aravis"} /\ Pool \in Nat
    BY CameraAssumption
  <2>3. \A k \in {"basler", "aravis"} : GrabSeconds[k] \in Nat
    BY DEF GrabSeconds
  <2> SUFFICES ASSUME Init PROVE CameraInv
    OBVIOUS
  <2>4. Shapes
    BY <2>1, <2>2 DEF Init, Shapes, Starting
  <2>5. Counted /\ Numbered
    BY <2>1, <2>2 DEF Init, Counted, Count, Numbered, Starting
  <2>6. Timed
    BY <2>2, <2>3 DEF Init, Timed, NotPulledAway, JoinSeconds
  <2> QED BY <2>4, <2>5, <2>6 DEF CameraInv
<1> QED BY <1>1, CameraStep, PTL DEF Spec

\* The SDK never has more buffers than it was given, the error counter stays below its
\* limit while the thread runs, and no wait is longer than its timeout.
THEOREM CameraTypes == Spec => []TypeOK
<1>1. CameraInv => TypeOK
  <2> SUFFICES ASSUME Shapes, Counted, Timed PROVE TypeOK
    BY DEF CameraInv
  <2>1. free \in 0..Pool
    BY CameraAssumption DEF Shapes, Counted, Count
  <2> QED BY <2>1 DEF Shapes, Timed, TypeOK, Starting
<1> QED BY <1>1, CameraInvariant, PTL

\* Damaged and garbled frames, timeouts and a camera that goes away cost pylon no buffer,
\* whatever the number it allocates.
THEOREM BuffersKept == Spec => []BuffersReturned
<1>1. CameraInv => BuffersReturned
  BY DEF CameraInv, Counted, Count, BuffersReturned, Buffers
<1> QED BY <1>1, CameraInvariant, PTL

\* stop() disconnects after three seconds whether or not the thread has ended, but no
\* grab it may find under way lasts that long.
THEOREM JoinSuffices == Spec => []NotPulledAway
<1>1. CameraInv => NotPulledAway
  BY DEF CameraInv, Timed
<1> QED BY <1>1, CameraInvariant, PTL

\* Frames never go back, and however many came while the thread was busy, pylon's next
\* one is the newest.
THEOREM NewestFrame == Spec => Freshest
<1> DEFINE Step == /\ latest' >= latest
                   /\ sdk = "basler" /\ cpc = "wait" /\ cpc' = "held" => held'.n = sent
<1>1. CameraInv /\ [Next]_vars => [Step]_vars
  <2> SUFFICES ASSUME CameraInv, Next PROVE Step
    OBVIOUS
  <2>1. latest' >= latest
    <3>1. latest \in Int
      BY CameraAssumption DEF CameraInv, Shapes
    <3>2. CASE Return
      <4>1. cpc = "held" /\ latest' \in {latest, held.n}
        BY <3>2 DEF Return, Accept
      <4>2. held.n \in Int /\ latest <= held.n
        BY <4>1, Fields DEF CameraInv, Shapes, Numbered
      <4> QED BY <3>1, <4>1, <4>2
    <3>3. CASE ~Return
      <4>1. latest' = latest
        BY <3>3 DEF Next, Capture, Create, Open, StartGrabbing, StartThreads, StartFails, Enter,
               Leave, NotGrabbing, Timeout, Retrieve, PopFailed, Stop, Join, Disconnect, Collect,
               Unplug, Arrive, Tick
      <4> QED BY <3>1, <4>1
    <3> QED BY <3>2, <3>3
  <2>2. ASSUME sdk = "basler", cpc = "wait", cpc' = "held" PROVE held'.n = sent
    <3>1. CASE Retrieve
      <4>1. out # <<>> /\ held' = Head(out)
        BY <3>1 DEF Retrieve
      <4>2. Head(out) = out[1] /\ out[1].n = sent
        BY <2>2, <4>1, ShortSequence DEF CameraInv, Shapes, Counted, Numbered
      <4> QED BY <4>1, <4>2
    <3>2. ~Timeout /\ ~NotGrabbing
      BY <2>2 DEF Timeout, NotGrabbing, GrabError
    <3>3. CASE ~Retrieve
      BY <2>2, <3>2, <3>3 DEF Next, Capture, Create, Open, StartGrabbing, StartThreads, StartFails,
             Enter, Leave, PopFailed, Return, Stop, Join, Disconnect, Collect, Unplug, Arrive, Tick,
             Goto, At, thread
    <3> QED BY <3>1, <3>3
  <2> QED BY <2>1, <2>2
<1>2. Spec => [][Step]_vars
  BY <1>1, CameraInvariant, PTL DEF Spec
<1> QED BY <1>2 DEF Freshest

-----------------------------------------------------------------------------
(* VisionPipeline.  What both modules have, the flag and the errors of the *)
(* capture thread and the latest frame, has one name in both.              *)

CONSTANTS Clients, ShapeFits, MaxTrouble
VARIABLES camOk, ring, ipc, frame, label, result, event, wpc, rejected, trouble

Vision == INSTANCE VisionPipeline

\* The frames there are, from the oldest to the newest: those clients were sent, the one of
\* the result, the one that is analysed, the one in the ring, the latest.
FrameOrder ==
    /\ ring <= latest /\ frame <= latest /\ (ring # 0 /\ frame # 0 => frame < ring)
    /\ cpc = "ring" => ring < latest /\ frame < latest /\ result.frame < latest
    /\ result.frame <= result.id /\ result.id <= latest
    /\ ring # 0 => result.frame < ring
    /\ frame # 0 => result.frame < frame
    /\ ipc \in {"infer", "store"} <=> frame # 0
    /\ ipc = "store" => frame <= label /\ label <= latest
    /\ \A c \in Clients : sent[c] <= result.frame

\* The capture ends with the error that reaches max_errors.
ErrorsCounted == cpc # "ended" => errors < MaxErrors

VisionInv == Vision!TypeOK /\ ErrorsCounted /\ FrameOrder

LEMMA CaptureStep ==
    Vision!VisionAssumption /\ VisionInv /\ Vision!Capture
        => VisionInv' /\ Vision!Forward
<1> SUFFICES ASSUME Vision!VisionAssumption, VisionInv, Vision!Capture
      PROVE  VisionInv' /\ Vision!Forward
  OBVIOUS
<1> USE DEF Vision!VisionAssumption, VisionInv, Vision!TypeOK, FrameOrder, ErrorsCounted,
            Vision!Frame, Vision!inferVars, Vision!wsVars, Vision!Forward
<1>1. CASE Vision!Grab
  BY <1>1 DEF Vision!Grab
<1>2. CASE Vision!GrabFails
  BY <1>2 DEF Vision!GrabFails
<1>3. CASE Vision!RingWrite
  BY <1>3 DEF Vision!RingWrite
<1>4. CASE Vision!CaptureLoop
  BY <1>4 DEF Vision!CaptureLoop
<1> QED BY <1>1, <1>2, <1>3, <1>4 DEF Vision!Capture

LEMMA InferenceStep ==
    Vision!VisionAssumption /\ VisionInv /\ (Vision!Inference \/ Vision!Reject)
        => VisionInv' /\ Vision!Forward
<1> SUFFICES ASSUME Vision!VisionAssumption, VisionInv, Vision!Inference \/ Vision!Reject
      PROVE  VisionInv' /\ Vision!Forward
  OBVIOUS
<1> USE DEF Vision!VisionAssumption, VisionInv, Vision!TypeOK, FrameOrder, ErrorsCounted,
            Vision!Frame, Vision!captureVars, Vision!wsVars, Vision!Forward
<1>1. CASE Vision!Read
  BY <1>1 DEF Vision!Read
<1>2. CASE Vision!Reject
  BY <1>2 DEF Vision!Reject
<1>3. CASE Vision!Label
  BY <1>3 DEF Vision!Label
<1>4. CASE Vision!Store
  BY <1>4 DEF Vision!Store
<1>5. CASE Vision!Notify
  BY <1>5 DEF Vision!Notify
<1>6. CASE Vision!InferenceLoop \/ Vision!ReadTimesOut
  BY <1>6 DEF Vision!InferenceLoop, Vision!ReadTimesOut
<1> QED BY <1>1, <1>2, <1>3, <1>4, <1>5, <1>6 DEF Vision!Inference

LEMMA ClientStep ==
    ASSUME Vision!VisionAssumption, VisionInv, NEW c \in Clients,
           Vision!Accept(c) \/ Vision!WebSocket(c) \/ Vision!Disconnect(c)
    PROVE  VisionInv' /\ Vision!Forward
<1> USE DEF Vision!VisionAssumption, VisionInv, Vision!TypeOK, FrameOrder, ErrorsCounted,
            Vision!Frame, Vision!captureVars, Vision!inferVars, Vision!At, Vision!Forward
<1>1. CASE Vision!Accept(c)
  BY <1>1 DEF Vision!Accept
<1>2. CASE Vision!Wake(c) \/ Vision!Disconnect(c)
  BY <1>2 DEF Vision!Wake, Vision!Disconnect
<1>3. CASE Vision!Clear(c)
  <2>1. event' \in BOOLEAN
    BY <1>3, Zenon DEF Vision!Clear
  <2> QED BY <1>3, <2>1 DEF Vision!Clear
<1>4. CASE Vision!Send(c)
  BY <1>4 DEF Vision!Send
<1> QED BY <1>1, <1>2, <1>3, <1>4 DEF Vision!WebSocket

LEMMA VisionStep ==
    Vision!VisionAssumption /\ VisionInv /\ [Vision!Next]_(Vision!vars)
        => VisionInv' /\ [Vision!Forward]_(Vision!vars)
<1> SUFFICES ASSUME Vision!VisionAssumption, VisionInv, [Vision!Next]_(Vision!vars)
      PROVE  VisionInv' /\ [Vision!Forward]_(Vision!vars)
  OBVIOUS
<1>1. CASE Vision!Stop \/ Vision!CameraFails \/ Vision!CameraReturns
  <2>0. running \in BOOLEAN /\ camOk \in BOOLEAN
    BY DEF VisionInv, Vision!TypeOK
  <2>1. /\ running' = FALSE \/ running' = running
        /\ camOk' = TRUE \/ camOk' = FALSE \/ camOk' = camOk
    BY <1>1, Zenon DEF Vision!Stop, Vision!CameraFails, Vision!CameraReturns
  <2>2. /\ UNCHANGED <<cpc, errors, latest, ring, Vision!inferVars, event, Vision!wsVars>>
        /\ trouble' \in {trouble, trouble + 1}
    BY <1>1 DEF Vision!Stop, Vision!CameraFails, Vision!CameraReturns
  <2>3. running' \in BOOLEAN /\ camOk' \in BOOLEAN /\ (running' => running)
    <3>1. running' \in BOOLEAN /\ camOk' \in BOOLEAN
      BY <2>0, <2>1
    <3>2. CASE running' = FALSE
      BY <3>1, <3>2
    <3>3. CASE running' = running
      BY <3>1, <3>3
    <3> QED BY <2>1, <3>2, <3>3
  <2>4. ErrorsCounted'
    BY <2>2, <2>3 DEF VisionInv, ErrorsCounted
  <2>5. Vision!TypeOK'
    BY <2>2, <2>3 DEF VisionInv, Vision!TypeOK, Vision!Frame, Vision!inferVars, Vision!wsVars
  <2>6. FrameOrder' /\ Vision!Forward
    BY <2>2 DEF VisionInv, Vision!TypeOK, FrameOrder, Vision!Frame, Vision!inferVars,
                Vision!wsVars, Vision!Forward
  <2> QED BY <2>4, <2>5, <2>6 DEF VisionInv
<1>2. CASE UNCHANGED Vision!vars
  BY <1>2 DEF Vision!vars, Vision!captureVars, Vision!inferVars, Vision!wsVars, VisionInv,
              Vision!TypeOK, FrameOrder, ErrorsCounted
<1> QED BY <1>1, <1>2, CaptureStep, InferenceStep, ClientStep DEF Vision!Next

\* Types, and the order of the frames in the ring, under analysis, in the result and at the
\* clients, whatever fails, is rejected, stops, connects and disconnects.
THEOREM VisionInvariant == ASSUME Vision!VisionAssumption PROVE Vision!Spec => []VisionInv
<1>1. Vision!Init => VisionInv
  <2> SUFFICES ASSUME Vision!Init PROVE VisionInv
    OBVIOUS
  <2>1. running \in BOOLEAN /\ camOk \in BOOLEAN /\ event \in BOOLEAN
    BY Zenon DEF Vision!Init
  <2>2. ErrorsCounted /\ FrameOrder
    BY DEF Vision!VisionAssumption, Vision!Init, FrameOrder, ErrorsCounted, Vision!NoResult
  <2>3. Vision!TypeOK
    BY <2>1 DEF Vision!VisionAssumption, Vision!Init, Vision!TypeOK, Vision!Frame, Vision!NoResult
  <2> QED BY <2>2, <2>3 DEF VisionInv
<1>2. VisionInv /\ [Vision!Next]_(Vision!vars) => VisionInv'
  BY VisionStep
<1> QED BY <1>1, <1>2, PTL DEF Vision!Spec

\* No result is of a frame analysed before or older than the one before, none is labelled
\* with a frame_id before its frame's, and no connected client is sent an older one.
THEOREM InferenceForward == ASSUME Vision!VisionAssumption PROVE Vision!Spec => Vision!ResultsForward
<1>1. VisionInv /\ [Vision!Next]_(Vision!vars) => [Vision!Forward]_(Vision!vars)
  BY VisionStep
<1>2. Vision!Spec => []VisionInv
  BY VisionInvariant
<1> QED BY <1>1, <1>2, PTL DEF Vision!Spec, Vision!ResultsForward

=============================================================================
