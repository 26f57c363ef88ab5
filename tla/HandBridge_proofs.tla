-------------------------- MODULE HandBridge_proofs --------------------------
(***************************************************************************)
(* Proofs about the Wuji hand executor, for all limits, steps, timeouts     *)
(* and published phases.                                                   *)
(***************************************************************************)
EXTENDS HandBridgeProperties, TLAPS

LEMMA OlderType ==
  ASSUME NEW timeout \in Nat, NEW age \in Ages(timeout)
  PROVE  Older(age, timeout) \in Ages(timeout)
  BY DEF Older, Ages, Old

LEMMA NewAges ==
  ASSUME NEW timeout \in Nat
  PROVE  0 \in Ages(timeout) /\ Old(timeout) \in Ages(timeout)
  BY DEF Ages, Old

\* A slewed output stays between where it is and where it goes.
LEMMA TowardInside ==
  ASSUME NEW angle \in Int, NEW goal \in Int, NEW step \in Nat, Inside(angle), Inside(goal)
  PROVE  Toward(angle, goal, step) \in Int /\ Inside(Toward(angle, goal, step))
  BY LimitsAssumption DEF Toward, Inside

-----------------------------------------------------------------------------
(* Types.                                                                  *)

\* The variables the callbacks write under the mutex, and the others.
InboxType ==
  /\ session \in Phases /\ sessionAge \in Ages(Freshness)
  /\ lastSession \in Sequences \cup {0}
  /\ held \in BOOLEAN /\ direct \in Lower .. Upper /\ inputAge \in Ages(InputTimeout)
DeviceType ==
  /\ open \in BOOLEAN /\ frame \in Ages(Freshness) \cup {None}
  /\ newFrame \in BOOLEAN /\ commands \in {0, 1}
LoopType ==
  /\ pc \in {"begin", "snapshot", "retarget", "shape", "send", "call", "measure", "publish", "done"}
  /\ fresh \in [session : BOOLEAN, input : BOOLEAN]
  /\ tracking \in BOOLEAN /\ desired \in Int /\ output \in Int /\ failed \in BOOLEAN
  /\ measuredAge \in Ages(Freshness)
SafetyType ==
  locked \in BOOLEAN /\ allowed \in BOOLEAN /\ stop \in {"none", "latched", "acked"}

LEMMA TypeParts ==
  TypeOK <=> /\ mode \in {"retarget", "direct"} /\ dry \in BOOLEAN
             /\ InboxType /\ DeviceType /\ LoopType /\ SafetyType
             /\ running \in Ages(EnableTimeout)
  BY DEF TypeOK, InboxType, DeviceType, LoopType, SafetyType

LEMMA TypeInit == Init => TypeOK
<1> SUFFICES ASSUME Init PROVE TypeOK
  OBVIOUS
<1>1. InboxType
  <2>1. sessionAge \in Ages(Freshness) /\ inputAge \in Ages(InputTimeout) /\ held \in BOOLEAN
    BY NewAges, TimeAssumption DEF Init
  <2> QED  BY <2>1, LimitsAssumption DEF Init, InboxType, Phases
<1>2. DeviceType
  <2>1. open \in BOOLEAN /\ newFrame \in BOOLEAN
    BY DEF Init
  <2> QED  BY <2>1 DEF Init, DeviceType
<1>3. SafetyType
  <2>1. stop \in {"none", "latched", "acked"} /\ allowed \in BOOLEAN
    BY DEF Init
  <2> QED  BY <2>1 DEF Init, SafetyType
<1>4. LoopType /\ running \in Ages(EnableTimeout)
  <2>1. measuredAge \in Ages(Freshness) /\ running \in Ages(EnableTimeout)
    BY NewAges, TimeAssumption DEF Init
  <2>2. tracking \in BOOLEAN /\ failed \in BOOLEAN /\ fresh \in [session : BOOLEAN, input : BOOLEAN]
    BY DEF Init
  <2> QED  BY <2>1, <2>2 DEF Init, LoopType
<1> QED  BY <1>1, <1>2, <1>3, <1>4, TypeParts DEF Init

\* Which steps change the variables of a part.
LEMMA InboxSteps ==
  ASSUME [Next]_vars
  PROVE  \/ UNCHANGED inbox
         \/ \E q \in Sequences : OnSessionState(q)
         \/ \E angle \in Angles : OnInput(angle)
         \/ RejectInput \/ Snapshot \/ Elapse
  BY DEF Next, vars, LatchStop, AckStop, RejectSessionState, OnJointStates, Tick, Send, BeginTick,
         Retarget, Shape, BeginSend, SendSucceeds, SendFails, SendCrashes, Measure, MeasureDry,
         EndTick, Quit

LEMMA DeviceSteps ==
  ASSUME [Next]_vars
  PROVE  UNCHANGED device \/ LatchStop \/ OnJointStates \/ SendSucceeds \/ Measure \/ Quit \/ Elapse
  BY DEF Next, vars, AckStop, OnSessionState, RejectSessionState, OnInput, RejectInput, Tick, Send,
         BeginTick, Snapshot, Retarget, Shape, BeginSend, SendFails, SendCrashes, MeasureDry, EndTick

LEMMA LoopSteps ==
  ASSUME [Next]_vars
  PROVE  \/ UNCHANGED loop
         \/ \E q \in Sequences : OnSessionState(q)
         \/ \E angle \in Angles : OnInput(angle)
         \/ Tick \/ Quit \/ Elapse
  BY DEF Next, vars, LatchStop, AckStop, RejectSessionState, RejectInput, OnJointStates

LEMMA SafetySteps ==
  ASSUME [Next]_vars
  PROVE  \/ UNCHANGED <<locked, allowed, stop>>
         \/ LatchStop \/ AckStop \/ RejectSessionState \/ RejectInput
         \/ \E q \in Sequences : OnSessionState(q)
         \/ Snapshot \/ Retarget \/ Shape \/ BeginSend \/ SendFails \/ Measure
  BY DEF Next, vars, OnInput, OnJointStates, Tick, Send, BeginTick, SendSucceeds, SendCrashes,
         MeasureDry, EndTick, Quit, Elapse

LEMMA InboxTypes ==
  ASSUME InboxType, [Next]_vars
  PROVE  InboxType'
<1>1. ASSUME NEW q \in Sequences, OnSessionState(q) PROVE InboxType'
  <2>1. PhaseAt[q] \in Phases /\ 0 \in Ages(Freshness)
    BY PhaseAssumption, NewAges, TimeAssumption
  <2>2. held' \in BOOLEAN
    BY <1>1 DEF OnSessionState, InboxType
  <2> QED  BY <1>1, <2>1, <2>2 DEF InboxType, OnSessionState
<1>2. ASSUME NEW angle \in Angles, OnInput(angle) PROVE InboxType'
  <2>1. direct' \in Lower .. Upper /\ inputAge' \in Ages(InputTimeout)
    BY <1>2, NewAges, TimeAssumption DEF OnInput, Inside, InboxType
  <2>2. held' \in BOOLEAN
    BY <1>2 DEF OnInput
  <2> QED  BY <1>2, <2>1, <2>2 DEF InboxType, OnInput
<1>3. CASE RejectInput \/ Snapshot
  <2>1. held' \in BOOLEAN
    BY <1>3 DEF RejectInput, Snapshot, InboxType
  <2> QED  BY <1>3, <2>1 DEF InboxType, RejectInput, Snapshot
<1>4. CASE Elapse
  <2>1. sessionAge' \in Ages(Freshness) /\ inputAge' \in Ages(InputTimeout)
    BY <1>4, OlderType, TimeAssumption DEF InboxType, Elapse
  <2> QED  BY <1>4, <2>1 DEF InboxType, Elapse
<1>5. CASE UNCHANGED inbox
  BY <1>5 DEF InboxType, inbox
<1> QED  BY <1>1, <1>2, <1>3, <1>4, <1>5, InboxSteps

LEMMA DeviceTypes ==
  ASSUME DeviceType, [Next]_vars
  PROVE  DeviceType'
<1>1. open' \in BOOLEAN
  <2>1. CASE LatchStop \/ Quit
    BY <2>1 DEF LatchStop, Quit
  <2>2. CASE Measure
    BY <2>2 DEF Measure
  <2>3. CASE UNCHANGED open
    BY <2>3 DEF DeviceType
  <2> QED
    BY <2>1, <2>2, <2>3, DeviceSteps DEF OnJointStates, SendSucceeds, Elapse, device
<1>2. newFrame' \in BOOLEAN
  <2>1. CASE OnJointStates \/ Measure
    BY <2>1 DEF OnJointStates, Measure
  <2>2. CASE UNCHANGED newFrame
    BY <2>2 DEF DeviceType
  <2> QED
    BY <2>1, <2>2, DeviceSteps DEF LatchStop, SendSucceeds, Quit, Elapse, device
<1>3. frame' \in Ages(Freshness) \cup {None}
  <2>1. CASE OnJointStates
    BY <2>1, NewAges, TimeAssumption DEF OnJointStates
  <2>2. CASE Elapse
    BY <2>2, OlderType, TimeAssumption DEF Elapse, DeviceType
  <2>3. CASE UNCHANGED frame
    BY <2>3 DEF DeviceType
  <2> QED
    BY <2>1, <2>2, <2>3, DeviceSteps DEF LatchStop, SendSucceeds, Measure, Quit, device
<1>4. commands' \in {0, 1}
  <2>1. commands' = 1 - commands \/ commands' = commands
    BY DeviceSteps DEF LatchStop, OnJointStates, SendSucceeds, Measure, Quit, Elapse, device
  <2>2. commands \in {0, 1}
    BY DEF DeviceType
  <2> QED  BY <2>1, <2>2
<1> QED  BY <1>1, <1>2, <1>3, <1>4 DEF DeviceType

LEMMA SafetyTypes ==
  ASSUME SafetyType, [Next]_vars
  PROVE  SafetyType'
<1>1. locked' \in BOOLEAN
  BY SafetySteps
  DEF SafetyType, LatchStop, AckStop, RejectSessionState, RejectInput, OnSessionState, Snapshot,
      Retarget, Shape, BeginSend, SendFails, Measure, inbox
<1>2. allowed' \in BOOLEAN
  BY SafetySteps
  DEF SafetyType, LatchStop, AckStop, RejectSessionState, RejectInput, OnSessionState, Snapshot,
      Retarget, Shape, BeginSend, SendFails, Measure, Tracks
<1>3. stop' \in {"none", "latched", "acked"}
  BY SafetySteps
  DEF SafetyType, LatchStop, AckStop, RejectSessionState, RejectInput, OnSessionState, Snapshot,
      Retarget, Shape, BeginSend, SendFails, Measure
<1> QED  BY <1>1, <1>2, <1>3 DEF SafetyType

\* Numbers and Booleans of the loop.
LEMMA LoopNumbers ==
  ASSUME InboxType, DeviceType, LoopType, Inside(output), [Next]_vars
  PROVE  /\ desired' \in Int /\ output' \in Int
         /\ measuredAge' \in Ages(Freshness)
<1>1. CASE Snapshot \/ Retarget
  <2>1. direct \in Int /\ desired \in Int /\ output \in Int /\ measuredAge \in Ages(Freshness)
    BY LimitsAssumption DEF InboxType, LoopType
  <2>2. desired' \in {direct, 0, desired} \cup Angles
    BY <1>1 DEF Snapshot, Retarget
  <2>3. desired' \in Int
    BY <2>1, <2>2, AnglesAssumption
  <2>4. output' = output /\ measuredAge' = measuredAge
    BY <1>1 DEF Snapshot, Retarget
  <2> QED  BY <2>1, <2>3, <2>4
<1>2. CASE Shape
  <2>1. desired' \in Int /\ Inside(desired')
    BY <1>2, LimitsAssumption DEF LoopType, Shape, Inside
  <2> QED  BY <1>2, <2>1, TowardInside, StepAssumption DEF LoopType, Shape
<1>3. CASE Measure \/ MeasureDry
  BY <1>3, NewAges, TimeAssumption DEF LoopType, DeviceType, Measure, MeasureDry
<1>4. CASE Elapse
  BY <1>4, OlderType, TimeAssumption DEF LoopType, Elapse
<1>5. CASE UNCHANGED <<desired, output, measuredAge>>
  BY <1>5 DEF LoopType
<1> QED
  BY <1>1, <1>2, <1>3, <1>4, <1>5, LoopSteps
  DEF OnSessionState, OnInput, Tick, Send, BeginTick, BeginSend, SendSucceeds, SendFails,
      SendCrashes, EndTick, Quit, loop

LEMMA LoopBooleans ==
  ASSUME LoopType, SafetyType, [Next]_vars
  PROVE  tracking' \in BOOLEAN /\ failed' \in BOOLEAN
<1>1. tracking' \in BOOLEAN
  BY LoopSteps
  DEF OnSessionState, OnInput, Tick, Send, BeginTick, Snapshot, Tracks, Retarget, Shape, BeginSend,
      SendSucceeds, SendFails, SendCrashes, Measure, MeasureDry, EndTick, Quit, Elapse, loop, LoopType
<1>2. failed' \in BOOLEAN
  BY LoopSteps
  DEF OnSessionState, OnInput, Tick, Send, BeginTick, Snapshot, Retarget, Shape, BeginSend,
      SendSucceeds, SendFails, SendCrashes, Measure, MeasureDry, EndTick, Quit, Elapse, loop,
      LoopType, SafetyType
<1> QED  BY <1>1, <1>2

LEMMA LoopPlaces ==
  ASSUME LoopType, [Next]_vars
  PROVE  pc' \in {"begin", "snapshot", "retarget", "shape", "send", "call", "measure",
                  "publish", "done"}
  BY LoopSteps
  DEF OnSessionState, OnInput, Tick, Send, BeginTick, Snapshot, Retarget, Shape, BeginSend,
      SendSucceeds, SendFails, SendCrashes, Measure, MeasureDry, EndTick, Quit, Elapse, loop, LoopType

LEMMA LoopTimes ==
  ASSUME LoopType, [Next]_vars
  PROVE  fresh' \in [session : BOOLEAN, input : BOOLEAN]
<1>1. CASE \/ \E q \in Sequences : OnSessionState(q)
           \/ \E angle \in Angles : OnInput(angle)
  BY <1>1 DEF OnSessionState, OnInput, ReceivedLate, LoopType
<1>2. CASE BeginTick
  BY <1>2 DEF BeginTick
<1>3. CASE UNCHANGED fresh
  <2>1. fresh \in [session : BOOLEAN, input : BOOLEAN]
    BY DEF LoopType
  <2> QED  BY <1>3, <2>1
<1> QED
  BY <1>1, <1>2, <1>3, LoopSteps
  DEF Tick, Send, Snapshot, Retarget, Shape, BeginSend, SendSucceeds, SendFails, SendCrashes,
      Measure, MeasureDry, EndTick, Quit, Elapse, loop

-----------------------------------------------------------------------------
(* The inductive invariant.                                                *)

\* The output is inside wherever the loop is.
OutputInside == Inside(output)

\* The status claims tracking only for an input that is held.
AllowedIsHeld == allowed => held

\* After a stop the device is closed, unless the stop came before the device was
\* connected; then the loop has been locked since it began and sends nothing.
StoppedIsSilent ==
  stop # "none" =>
    /\ locked
    /\ open => pc \in {"begin", "snapshot", "shape", "publish"} /\ (pc = "shape" => failed)

Inv == TypeOK /\ OutputInside /\ AllowedIsHeld /\ StoppedIsSilent

LEMMA InvInit == Init => Inv
<1> SUFFICES ASSUME Init PROVE Inv
  OBVIOUS
<1>1. OutputInside
  BY LimitsAssumption DEF Init, OutputInside, Inside
<1>2. AllowedIsHeld /\ StoppedIsSilent
  BY DEF Init, AllowedIsHeld, StoppedIsSilent
<1> QED  BY <1>1, <1>2, TypeInit DEF Inv

LEMMA TypeStep ==
  ASSUME Inv, [Next]_vars
  PROVE  TypeOK'
<1>1. /\ mode \in {"retarget", "direct"} /\ dry \in BOOLEAN /\ running \in Ages(EnableTimeout)
      /\ InboxType /\ DeviceType /\ LoopType /\ SafetyType /\ Inside(output)
  BY TypeParts DEF Inv, OutputInside
<1>2. UNCHANGED setup
  BY DEF Next, vars, LatchStop, AckStop, OnSessionState, RejectSessionState, OnInput, RejectInput,
         OnJointStates, Tick, Send, BeginTick, Snapshot, Retarget, Shape, BeginSend, SendSucceeds,
         SendFails, SendCrashes, Measure, MeasureDry, EndTick, Quit, Elapse
<1>3. running' \in Ages(EnableTimeout)
  <2>1. Elapse \/ UNCHANGED running
    BY DEF Next, vars, LatchStop, AckStop, OnSessionState, RejectSessionState, OnInput, RejectInput,
           OnJointStates, Tick, Send, BeginTick, Snapshot, Retarget, Shape, BeginSend, SendSucceeds,
           SendFails, SendCrashes, Measure, MeasureDry, EndTick, Quit
  <2> QED  BY <1>1, <2>1, OlderType, TimeAssumption DEF Elapse
<1>4. InboxType' /\ DeviceType' /\ SafetyType'
  BY <1>1, InboxTypes, DeviceTypes, SafetyTypes
<1>5. LoopType'
  BY <1>1, LoopNumbers, LoopBooleans, LoopPlaces, LoopTimes DEF LoopType
<1>6. mode' \in {"retarget", "direct"} /\ dry' \in BOOLEAN
  BY <1>1, <1>2 DEF setup
<1> QED  BY <1>3, <1>4, <1>5, <1>6 DEF TypeOK, InboxType, DeviceType, LoopType, SafetyType

LEMMA OutputStep ==
  ASSUME Inv, [Next]_vars
  PROVE  OutputInside'
<1>1. CASE Shape
  <2>1. desired' \in Int /\ Inside(desired')
    BY <1>1, LimitsAssumption DEF Inv, TypeOK, Shape, Inside
  <2> QED  BY <1>1, <2>1, TowardInside, StepAssumption DEF Inv, TypeOK, OutputInside, Shape
<1>2. CASE UNCHANGED output
  BY <1>2 DEF Inv, OutputInside, Inside
<1>3. Shape \/ UNCHANGED output
  BY DEF Next, vars, loop, LatchStop, AckStop, OnSessionState, RejectSessionState, OnInput,
     RejectInput, OnJointStates, Tick, Send, BeginTick, Snapshot, Retarget, BeginSend,
     SendSucceeds, SendFails, SendCrashes, Measure, MeasureDry, EndTick, Quit, Elapse
<1> QED  BY <1>1, <1>2, <1>3

LEMMA AllowedStep ==
  ASSUME Inv, [Next]_vars
  PROVE  AllowedIsHeld'
<1> USE DEF Inv, AllowedIsHeld
<1>1. CASE \E q \in Sequences : OnSessionState(q)
  BY <1>1 DEF OnSessionState
<1>2. CASE \E angle \in Angles : OnInput(angle)
  BY <1>2 DEF OnInput
<1>3. CASE RejectSessionState \/ RejectInput
  BY <1>3 DEF RejectSessionState, RejectInput
<1>4. CASE Snapshot
  BY <1>4 DEF Snapshot, Tracks
<1>5. CASE Retarget \/ Shape
  BY <1>5 DEF Retarget, Shape, inbox
<1>6. CASE Send \/ Measure
  BY <1>6 DEF Send, BeginSend, SendSucceeds, SendFails, SendCrashes, MeasureDry, Measure, inbox
<1>7. CASE UNCHANGED <<allowed, held>>
  BY <1>7
<1>8. CASE LatchStop \/ AckStop \/ OnJointStates \/ BeginTick \/ EndTick \/ Quit \/ Elapse \/ UNCHANGED vars
  BY <1>7, <1>8 DEF LatchStop, AckStop, OnJointStates, BeginTick, EndTick, Quit, Elapse, vars, inbox
<1> QED  BY <1>1, <1>2, <1>3, <1>4, <1>5, <1>6, <1>8 DEF Next, Tick

LEMMA SilentStep ==
  ASSUME Inv, [Next]_vars
  PROVE  StoppedIsSilent'
<1> USE DEF Inv, StoppedIsSilent
<1>1. CASE LatchStop
  BY <1>1 DEF LatchStop
<1>2. CASE \/ AckStop \/ RejectSessionState \/ RejectInput \/ OnJointStates \/ Elapse
           \/ \E q \in Sequences : OnSessionState(q)
           \/ \E angle \in Angles : OnInput(angle)
           \/ UNCHANGED vars
  BY <1>2 DEF AckStop, RejectSessionState, RejectInput, OnJointStates, OnSessionState,
              OnInput, Elapse, vars, device, loop
<1>3. CASE BeginTick \/ EndTick \/ Quit
  BY <1>3 DEF BeginTick, EndTick, Quit, device
<1>4. CASE Snapshot
  BY <1>4 DEF Snapshot, Tracks, device
<1>5. CASE Shape
  BY <1>5 DEF Shape, device
<1>6. CASE Retarget \/ Send
  BY <1>6 DEF Retarget, Send, BeginSend, SendSucceeds, SendFails, SendCrashes, MeasureDry, device
<1>7. CASE Measure
  BY <1>7 DEF Measure
<1> QED  BY <1>1, <1>2, <1>3, <1>4, <1>5, <1>6, <1>7 DEF Next, Tick

LEMMA InvStep == Inv /\ [Next]_vars => Inv'
  BY TypeStep, OutputStep, AllowedStep, SilentStep DEF Inv

-----------------------------------------------------------------------------
\* Every variable has its type, for all limits, steps, timeouts and phases.
THEOREM TypeCorrect == Spec => []TypeOK
<1>1. Inv => TypeOK  BY DEF Inv
<1> QED  BY <1>1, InvInit, InvStep, PTL DEF Spec

\* Every command the hand is given is inside the limits, for all limits around the
\* open hand, all slew rates and all answers of the retargeter (run).
THEOREM CommandsStayInside == Spec => []CommandsInside
<1>1. Inv => CommandsInside  BY DEF Inv, OutputInside, CommandsInside
<1> QED  BY <1>1, InvInit, InvStep, PTL DEF Spec

\* A status reports tracking only for an input that is held (publish_status).
THEOREM StatusIsTrue == Spec => []StatusIsHeld
<1>1. Inv => StatusIsHeld  BY DEF Inv, AllowedIsHeld, StatusIsHeld, StatusTracking
<1> QED  BY <1>1, InvInit, InvStep, PTL DEF Spec

\* Once the safety stop is acknowledged the hand is given no command
\* (on_safety_stop, send).
THEOREM StopIsSilent == Spec => AckMeansSilence
<1>1. Inv /\ [Next]_vars => [stop = "acked" => commands' = commands]_vars
  <2> SUFFICES ASSUME Inv, [Next]_vars, stop = "acked" PROVE commands' = commands
    OBVIOUS
  <2>1. ~SendSucceeds
    BY DEF Inv, StoppedIsSilent, SendSucceeds
  <2> QED
    BY <2>1
    DEF Next, vars, device, LatchStop, AckStop, OnSessionState, RejectSessionState, OnInput,
        RejectInput, OnJointStates, Tick, Send, BeginTick, Snapshot, Retarget, Shape, BeginSend,
        SendFails, SendCrashes, Measure, MeasureDry, EndTick, Quit, Elapse
<1> QED  BY <1>1, InvInit, InvStep, PTL DEF Spec, AckMeansSilence
=============================================================================
