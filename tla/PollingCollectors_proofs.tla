---------------------- MODULE PollingCollectors_proofs ----------------------
(***************************************************************************)
(* That PollingCollectors is type-correct and never leaves a client open,  *)
(* for any number of collectors, blocks, changes and failures.             *)
(***************************************************************************)
EXTENDS PollingCollectors, TLAPS

Place == {"start", "restart", "connect", "delay", "poll", "interval", "done"}

LEMMA TypeStep == TypeOK /\ [Next]_vars => TypeOK'
<1> SUFFICES ASSUME TypeOK, [Next]_vars PROVE TypeOK'
  OBVIOUS
<1> USE PollingAssumption DEF TypeOK, Resumes, Goto, Made, Closed, Trouble, Asked, Silent,
        Pending, None, supervisor, device, task
<1>1. ASSUME NEW c \in Collectors, Run(c) PROVE TypeOK'
  <2>1. CASE Enter(c)
    <3>1. CASE stop
      BY <2>1, <3>1 DEF Enter
    <3>2. CASE ~stop /\ c \in Modbus
      BY <2>1, <3>2 DEF Enter
    <3>3. CASE ~stop /\ c \notin Modbus
      <4>1. Asked(c) \in [Blocks[c] -> Pending..MaxChanges]
        OBVIOUS
      <4>2. \A d \in Collectors : reply'[d] \in [Blocks[d] -> Pending..MaxChanges]
        BY <2>1, <3>3, <4>1 DEF Enter
      <4>3. /\ at' = [at EXCEPT ![c] = "poll"] /\ open' = [open EXCEPT ![c] = @ + 1]
            /\ DOMAIN reply' = DOMAIN reply
            /\ UNCHANGED <<link, record, supervisor, device, trouble>>
        BY <2>1, <3>3 DEF Enter
      <4> QED BY <4>2, <4>3
    <3> QED BY <3>1, <3>2, <3>3
  <2>2. CASE Connect(c)
    BY <2>2 DEF Connect
  <2>3. CASE ConnectFails(c)
    BY <2>3 DEF ConnectFails
  <2>4. CASE Again(c)
    BY <2>4 DEF Again
  <2>5. CASE Poll(c)
    <3>1. CASE link[c] = "dead"
      BY <2>5, <3>1 DEF Poll
    <3>2. CASE link[c] # "dead"
      BY <2>5, <3>2 DEF Poll
    <3> QED BY <3>1, <3>2
  <2>6. CASE Merge(c)
    <3>1. /\ reply[c] \in [Blocks[c] -> None..MaxChanges]
          /\ Silent(c) \in [Blocks[c] -> Pending..MaxChanges]
      BY <2>6 DEF Merge
    <3>2. \A d \in Collectors : /\ reply'[d] \in [Blocks[d] -> Pending..MaxChanges]
                                /\ record'[d] \in [Blocks[d] -> None..MaxChanges]
      BY <2>6, <3>1 DEF Merge
    <3> QED BY <2>6, <3>2 DEF Merge
  <2>7. CASE Cancelled(c)
    BY <2>7 DEF Cancelled, InUse
  <2> QED BY <1>1, <2>1, <2>2, <2>3, <2>4, <2>5, <2>6, <2>7 DEF Run
<1>2. ASSUME NEW c \in Collectors, EnterRaises(c) PROVE TypeOK'
  BY <1>2 DEF EnterRaises
<1>3. ASSUME NEW c \in Collectors, PollRaises(c) PROVE TypeOK'
  <2>1. Silent(c) \in [Blocks[c] -> Pending..MaxChanges]
    OBVIOUS
  <2>2. CASE Goto(c, "interval") /\ UNCHANGED <<link, open>>
    BY <1>3, <2>1, <2>2 DEF PollRaises
  <2>3. CASE Goto(c, "delay") /\ Closed(c)
    BY <1>3, <2>1, <2>3 DEF PollRaises
  <2> QED BY <1>3, <2>2, <2>3 DEF PollRaises
<1>4. ASSUME NEW c \in Collectors, NEW b \in Blocks[c], Answer(c, b) PROVE TypeOK'
  BY <1>4 DEF Answer, UnderWay
<1>5. ASSUME NEW c \in Collectors, NEW b \in Blocks[c], RequestFails(c, b) PROVE TypeOK'
  BY <1>5 DEF RequestFails, UnderWay
<1>6. ASSUME NEW c \in Collectors, Changes(c) PROVE TypeOK'
  BY <1>6 DEF Changes
<1>7. ASSUME NEW c \in Collectors, DeviceGoes(c) PROVE TypeOK'
  BY <1>7 DEF DeviceGoes
<1>8. ASSUME NEW c \in Collectors, DeviceReturns(c) \/ LossNoticed(c) PROVE TypeOK'
  BY <1>8 DEF DeviceReturns, LossNoticed
<1>9. CASE Signal
  BY <1>9 DEF Signal
<1>10. CASE CancelAll
  <2>1. cancelled' \subseteq Collectors /\ main' \in {"runs", "gathers", "down"}
    BY <1>10 DEF CancelAll
  <2> QED BY <1>10, <2>1 DEF CancelAll
<1>11. CASE Down
  <2>1. main' = "down" /\ UNCHANGED <<task, built, stop, cancelled, device, trouble>>
    BY <1>11 DEF Down
  <2> QED BY <2>1
<1>12. CASE QueueTurns
  <2>1. full' \in BOOLEAN
    BY <1>12, Zenon DEF QueueTurns
  <2> QED BY <1>12, <2>1 DEF QueueTurns
<1>13. CASE UNCHANGED vars
  BY <1>13 DEF vars
<1> QED BY <1>1, <1>2, <1>3, <1>4, <1>5, <1>6, <1>7, <1>8, <1>9, <1>10, <1>11, <1>12, <1>13 DEF Next

\* What the tasks await, what gather has collected and what the records hold stay of
\* their kinds; a record never holds a request that is still under way.
THEOREM PollingTypes == Spec => []TypeOK
<1>1. Init => TypeOK
  <2> SUFFICES ASSUME Init PROVE TypeOK
    OBVIOUS
  <2>1. \A c \in Collectors : Silent(c) \in [Blocks[c] -> None..MaxChanges]
    BY PollingAssumption DEF Silent, None
  <2>2. \A c \in Collectors : /\ reply[c] \in [Blocks[c] -> Pending..MaxChanges]
                              /\ record[c] \in [Blocks[c] -> None..MaxChanges]
    BY <2>1, PollingAssumption DEF Init, None, Pending
  <2>3. built \subseteq Collectors
    BY DEF Init
  <2>4. /\ up \in [Collectors -> BOOLEAN] /\ now \in [Collectors -> 0..MaxChanges]
        /\ trouble \in 0..MaxTrouble
    BY PollingAssumption DEF Init
  <2>5. /\ at \in [Collectors -> {"start", "restart", "connect", "delay", "poll", "interval", "done"}]
        /\ link \in [Collectors -> {"none", "live", "stale", "dead"}]
        /\ open \in [Collectors -> Int]
        /\ DOMAIN reply = Collectors /\ DOMAIN record = Collectors
    BY DEF Init
  <2>6. full \in BOOLEAN /\ stop \in BOOLEAN
    BY Zenon DEF Init
  <2>7. cancelled \subseteq Collectors /\ main \in {"runs", "gathers", "down"}
    BY DEF Init
  <2> QED BY <2>2, <2>3, <2>4, <2>5, <2>6, <2>7 DEF TypeOK
<1> QED BY <1>1, TypeStep, PTL DEF Spec

\* Only where each task is matters to what it holds open.
OpenInv ==
    /\ at \in [Collectors -> Place] /\ open \in [Collectors -> Int]
    /\ NothingLeftOpen

LEMMA OpenStep == OpenInv /\ [Next]_vars => OpenInv'
<1> SUFFICES ASSUME OpenInv, [Next]_vars PROVE OpenInv'
  OBVIOUS
<1> USE DEF OpenInv, NothingLeftOpen, InUse, Place
<1>1. ASSUME NEW c \in Collectors, Run(c) PROVE OpenInv'
  <2>1. CASE Enter(c)
    BY <2>1 DEF Enter, Resumes, Goto, Made
  <2>2. CASE Connect(c)
    BY <2>2 DEF Connect, Resumes, Goto
  <2>3. CASE ConnectFails(c)
    BY <2>3 DEF ConnectFails, Resumes, Goto, Closed
  <2>4. CASE Again(c)
    BY <2>4 DEF Again, Resumes, Goto, Made
  <2>5. CASE Poll(c)
    BY <2>5 DEF Poll, Resumes, Goto, Closed
  <2>6. CASE Merge(c)
    BY <2>6 DEF Merge, Resumes, Goto
  <2>7. CASE Cancelled(c)
    BY <2>7 DEF Cancelled, Goto, Closed
  <2> QED BY <1>1, <2>1, <2>2, <2>3, <2>4, <2>5, <2>6, <2>7 DEF Run
<1>2. ASSUME NEW c \in Collectors, EnterRaises(c) PROVE OpenInv'
  BY <1>2 DEF EnterRaises, Resumes, Goto
<1>3. ASSUME NEW c \in Collectors, PollRaises(c) PROVE OpenInv'
  BY <1>3 DEF PollRaises, Resumes, Goto, Closed
<1>4. ASSUME UNCHANGED <<at, open>> PROVE OpenInv'
  BY <1>4
<1>5. ASSUME NEW c \in Collectors, NEW b \in Blocks[c], Answer(c, b) \/ RequestFails(c, b)
      PROVE OpenInv'
  BY <1>4, <1>5 DEF Answer, RequestFails
<1>6. ASSUME NEW c \in Collectors,
             Changes(c) \/ DeviceGoes(c) \/ DeviceReturns(c) \/ LossNoticed(c)
      PROVE OpenInv'
  BY <1>4, <1>6 DEF Changes, DeviceGoes, DeviceReturns, LossNoticed, task
<1>7. CASE Signal \/ CancelAll \/ Down \/ QueueTurns
  BY <1>4, <1>7 DEF Signal, CancelAll, Down, QueueTurns, task
<1>8. CASE UNCHANGED vars
  BY <1>4, <1>8 DEF vars, task
<1> QED BY <1>1, <1>2, <1>3, <1>5, <1>6, <1>7, <1>8 DEF Next

\* However tasks are failed, restarted and cancelled, none of them leaves a client or an
\* HTTP session open, and none has two: finally and async with stand where they have to.
THEOREM NoClientLeft == Spec => []NothingLeftOpen
<1>1. Init => OpenInv
  BY DEF Init, OpenInv, NothingLeftOpen, InUse, Place
<1>2. OpenInv => NothingLeftOpen
  BY DEF OpenInv
<1> QED BY <1>1, <1>2, OpenStep, PTL DEF Spec

=============================================================================
