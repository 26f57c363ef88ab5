------------------------ MODULE ArmCoordinator_proofs ------------------------
(***************************************************************************)
(* Proofs about the arm command coordinator, for every set of sides,       *)
(* components and instances, every configuration and every Home.           *)
(***************************************************************************)
EXTENDS ArmCoordinatorProperties, TLAPS

USE DEF Phases, Ages

-----------------------------------------------------------------------------
(* Arithmetic.                                                             *)

\* Rounding an integer angle gives an integer angle.
LEMMA FlType == \A n \in Int : Fl[n] \in Int
  BY PrecisionAssumption DEF Fl, Ulp, Abs

\* Angles up to Precision are not rounded.
LEMMA FlExact == \A n \in Int : Abs(n) <= Precision => Fl[n] = n
  BY PrecisionAssumption DEF Fl, Ulp, Abs

\* A point of the way home is an angle.
LEMMA InterpolateType ==
  ASSUME NEW x \in Int, NEW y \in Int, NEW e \in Nat
  PROVE  Interpolate(x, y, e) \in Int
<1> DEFINE way == Abs(x - y)
           full == IF MinDuration * MaxSpeed > way THEN MinDuration * MaxSpeed ELSE way
           done == e * MaxSpeed
<1>1. way \in Nat  BY DEF Abs
<1>2. MinDuration * MaxSpeed \in Nat /\ MinDuration * MaxSpeed > 0
  BY ConfigAssumption
<1>3. full \in Nat /\ full > 0  BY <1>1, <1>2
<1>4. done \in Nat  BY ConfigAssumption
<1> HIDE DEF way
<1>5. (y - x) * done \in Int  BY <1>4
<1> HIDE DEF done, full
<1>6. ((y - x) * done) \div full \in Int  BY <1>5, <1>3
<1>7. /\ Fl[x + Fl[y - x]] \in Int
      /\ Fl[x + Fl[((y - x) * done) \div full]] \in Int
  BY <1>6, FlType
<1> QED  BY <1>7 DEF Interpolate, done, full, way

\* The way home from Home stays there.
LEMMA InterpolateHome ==
  ASSUME NEW s \in Sides, NEW e \in Nat
  PROVE  Interpolate(Home[s], Home[s], e) = Home[s]
<1> DEFINE h == Home[s]
           full == IF MinDuration * MaxSpeed > Abs(h - h) THEN MinDuration * MaxSpeed ELSE Abs(h - h)
           done == e * MaxSpeed
<1>1. h \in Int /\ h - h = 0 /\ h + 0 = h /\ Abs(h) <= Precision
  BY SidesAssumption, PrecisionAssumption
<1>2. MinDuration * MaxSpeed \in Nat /\ MinDuration * MaxSpeed > 0  BY ConfigAssumption
<1>3. full \in Nat /\ full > 0  BY <1>1, <1>2 DEF Abs
<1>4. done \in Int  BY ConfigAssumption
<1>5. Fl[0] = 0 /\ Fl[h] = h  BY <1>1, FlExact, PrecisionAssumption DEF Abs
<1> HIDE DEF h, done, full
<1>6. (h - h) * done = 0  BY <1>1, <1>4
<1>7. 0 \div full = 0  BY <1>3
<1>8. /\ Fl[h + Fl[h - h]] = h
      /\ Fl[h + Fl[((h - h) * done) \div full]] = h
  BY <1>1, <1>5, <1>6, <1>7
<1> QED  BY <1>8 DEF Interpolate, done, full, h

-----------------------------------------------------------------------------
(* Type correctness.                                                       *)

SessionType ==
  /\ state \in Phases
  /\ atHome \in BOOLEAN
  /\ returnComplete \in BOOLEAN
  /\ teleopAge \in Ages
  /\ returnStart \in [Sides -> Int]
  /\ returnElapsed \in 0 .. MaxElapsed

InputsType ==
  /\ statuses \in [Components -> StatusMsg \cup {None}]
  /\ armState \in ArmMsg \cup {None}
  /\ proposals \in [Sides -> ProposalMsg \cup {None}]
  /\ handStatus \in [HandSides -> HandStatusMsg \cup {None}]
  /\ handState \in [HandSides -> HandStateMsg \cup {None}]

\* The three parts of TypeOK; a step disturbs one of them at a time.
LEMMA TypeParts == TypeOK <=> SessionType /\ safe \in [Sides -> Int] /\ InputsType
  BY DEF TypeOK, SessionType, InputsType

LEMMA ZeroAges == 0 \in Ages /\ 0 \in 0 .. MaxElapsed
  BY ConfigAssumption

LEMMA InputsUnchanged == InputsType /\ UNCHANGED inputs => InputsType'
  BY DEF InputsType, inputs

\* Rounded arithmetic keeps every command an integer angle.
LEMMA CommandType ==
  ASSUME TypeOK, NEW s \in Sides, NEW phase, NEW start \in [Sides -> Int],
         NEW elapsed \in Nat
  PROVE  CommandFor(s, phase, start, elapsed) \in Int
<1>1. Home[s] \in Int /\ start[s] \in Int  BY SidesAssumption
<1>2. Interpolate(start[s], Home[s], elapsed) \in Int  BY <1>1, InterpolateType
<1>3. ASSUME proposals[s] # None
      PROVE  Fl[safe[s] + Clip(proposals[s].pos - safe[s])] \in Int
  <2>1. proposals[s].pos \in Int
    BY <1>3, SidesAssumption DEF TypeOK, ProposalMsg
  <2>2. Clip(proposals[s].pos - safe[s]) \in Int
    BY <2>1, ConfigAssumption DEF Clip, TypeOK
  <2> QED  BY <2>2, FlType DEF TypeOK
<1> QED  BY <1>1, <1>2, <1>3 DEF CommandFor, Fresh

\* Growing older, a message remains one of its kind.
LEMMA OlderType ==
  /\ \A m \in StatusMsg \cup {None} : Older(m) \in StatusMsg \cup {None}
  /\ \A m \in ArmMsg \cup {None} : Older(m) \in ArmMsg \cup {None}
  /\ \A m \in ProposalMsg \cup {None} : Older(m) \in ProposalMsg \cup {None}
  /\ \A m \in HandStatusMsg \cup {None} : Older(m) \in HandStatusMsg \cup {None}
  /\ \A m \in HandStateMsg \cup {None} : Older(m) \in HandStateMsg \cup {None}
  BY ConfigAssumption
     DEF Older, StatusMsg, ArmMsg, ProposalMsg, HandStatusMsg, HandStateMsg

LEMMA FaultType == TypeOK /\ EnterFault /\ UNCHANGED <<safe, inputs>> => TypeOK'
<1> SUFFICES ASSUME TypeOK, EnterFault, UNCHANGED <<safe, inputs>> PROVE TypeOK'
  OBVIOUS
<1>1. SessionType /\ safe \in [Sides -> Int] /\ InputsType  BY TypeParts
<1>2. SessionType'
  <2>1. state' \in Phases /\ atHome' \in BOOLEAN  BY <1>1 DEF SessionType, EnterFault
  <2>2. teleopAge' \in Ages BY <1>1, ZeroAges DEF SessionType, EnterFault
  <2>3. returnComplete' \in BOOLEAN BY <1>1 DEF SessionType, EnterFault
  <2>4. returnStart' \in [Sides -> Int] BY <1>1 DEF SessionType, EnterFault
  <2>5. returnElapsed' \in 0 .. MaxElapsed BY <1>1, ZeroAges DEF SessionType, EnterFault
  <2> QED BY <2>1, <2>2, <2>3, <2>4, <2>5 DEF SessionType
<1>3. InputsType'  BY <1>1, InputsUnchanged
<1> QED  BY <1>1, <1>2, <1>3 DEF TypeOK, SessionType, InputsType

LEMMA ReturnType == TypeOK /\ BeginReturn /\ UNCHANGED <<safe, inputs>> => TypeOK'
<1> SUFFICES ASSUME TypeOK, BeginReturn, UNCHANGED <<safe, inputs>> PROVE TypeOK'
  OBVIOUS
<1>1. SessionType /\ safe \in [Sides -> Int] /\ InputsType  BY TypeParts
<1>2. SessionType'  BY <1>1, ZeroAges DEF SessionType, BeginReturn
<1>3. InputsType'  BY <1>1, InputsUnchanged
<1> QED  BY <1>1, <1>2, <1>3 DEF TypeOK, SessionType, InputsType

\* Every variable keeps its type.
LEMMA TypeStep == TypeOK /\ [Next]_vars => TypeOK'
<1> SUFFICES ASSUME TypeOK, [Next]_vars PROVE TypeOK'
  OBVIOUS
<1>1. ASSUME NEW c \in Components, NEW i \in Instances, NEW ok \in BOOLEAN,
             NEW newer \in BOOLEAN, UpdateComponent(c, i, ok, newer)
      PROVE  TypeOK'
  BY <1>1, FaultType, ConfigAssumption DEF UpdateComponent, TypeOK, StatusMsg, session
<1>2. ASSUME NEW i \in Instances, NEW home \in BOOLEAN, NEW newer \in BOOLEAN,
             UpdateArmState(i, home, newer)
      PROVE  TypeOK'
  BY <1>2, FaultType, ConfigAssumption DEF UpdateArmState, TypeOK, ArmMsg, session
<1>3. ASSUME NEW h \in HandSides, NEW i \in Instances, NEW ok \in BOOLEAN,
             NEW zero \in BOOLEAN, NEW tracking \in BOOLEAN, NEW newer \in BOOLEAN,
             UpdateHandExecutorStatus(h, i, ok, zero, tracking, newer)
      PROVE  TypeOK'
  BY <1>3, FaultType, ConfigAssumption
     DEF UpdateHandExecutorStatus, TypeOK, HandStatusMsg, session
<1>4. ASSUME NEW h \in HandSides, NEW i \in Instances, NEW zero \in BOOLEAN,
             NEW newer \in BOOLEAN, UpdateHandState(h, i, zero, newer)
      PROVE  TypeOK'
  BY <1>4, FaultType, ConfigAssumption DEF UpdateHandState, TypeOK, HandStateMsg, session
<1>5. ASSUME NEW s \in Sides, NEW c \in Components, NEW i \in Instances,
             NEW p \in Positions[s], NEW timely \in BOOLEAN, NEW newer \in BOOLEAN,
             UpdateProposal(s, c, i, p, timely, newer)
      PROVE  TypeOK'
  BY <1>5, FaultType, ConfigAssumption DEF UpdateProposal, TypeOK, ProposalMsg, session
<1>6. CASE RejectPayload
  BY <1>6, FaultType DEF RejectPayload
<1>7. CASE StartIntent
  <2>1. CASE UNCHANGED vars
    BY <2>1 DEF TypeOK, vars, session, inputs
  <2>2. CASE state = "idle" /\ StartReady
    <3>1. /\ state' = "teleop" /\ teleopAge' = 0 /\ atHome' = FALSE /\ returnComplete' = FALSE
          /\ proposals' = [s \in Sides |-> None]
          /\ UNCHANGED <<returnStart, returnElapsed, safe, statuses, armState, handStatus, handState>>
      BY <1>7, <2>2 DEF StartIntent
    <3>2. SessionType'
      BY <3>1, ZeroAges DEF SessionType, TypeOK
    <3>3. InputsType'
      BY <3>1 DEF InputsType, TypeOK
    <3> QED  BY <3>1, <3>2, <3>3 DEF TypeOK, SessionType, InputsType
  <2> QED  BY <1>7, <2>1, <2>2 DEF StartIntent
<1>8. CASE ReturnIntent
  BY <1>8, ReturnType DEF ReturnIntent, TypeOK, vars, session, inputs
<1>9. CASE Tick
  <2> PICK phase \in Phases : TickIn(phase)
    BY <1>9 DEF Tick
  <2> DEFINE entered == phase # state
             start == IF entered THEN safe ELSE returnStart
             elapsed == IF entered THEN 0 ELSE returnElapsed
  <2>1. start \in [Sides -> Int] /\ elapsed \in 0 .. MaxElapsed /\ elapsed \in Nat
    BY ConfigAssumption DEF TypeOK
  <2>2. safe' \in [Sides -> Int]
    <3>1. safe' = [s \in Sides |-> CommandFor(s, phase, start, elapsed)]
      BY DEF TickIn
    <3> HIDE DEF start, elapsed
    <3>2. \A s \in Sides : CommandFor(s, phase, start, elapsed) \in Int
      BY <2>1, CommandType
    <3> QED  BY <3>1, <3>2
  <2>3. /\ state' \in Phases
        /\ atHome' \in BOOLEAN
        /\ returnComplete' \in BOOLEAN
        /\ teleopAge' \in Ages
    BY ConfigAssumption DEF TickIn, TypeOK, ReturnCompletes
  <2>4. returnStart' \in [Sides -> Int] /\ returnElapsed' \in 0 .. MaxElapsed
    BY <2>1, SidesAssumption, ZeroAges DEF TickIn
  <2>5. InputsType'
    BY InputsUnchanged, TypeParts DEF TickIn
  <2> QED  BY <2>2, <2>3, <2>4, <2>5 DEF TypeOK, InputsType
<1>10. CASE Elapse
  <2>1. /\ teleopAge' \in Ages
        /\ returnElapsed' \in 0 .. MaxElapsed
    BY <1>10, ConfigAssumption DEF Elapse, TypeOK
  <2>2. /\ statuses' \in [Components -> StatusMsg \cup {None}]
        /\ armState' \in ArmMsg \cup {None}
        /\ proposals' \in [Sides -> ProposalMsg \cup {None}]
        /\ handStatus' \in [HandSides -> HandStatusMsg \cup {None}]
        /\ handState' \in [HandSides -> HandStateMsg \cup {None}]
    BY <1>10, OlderType DEF Elapse, TypeOK
  <2> QED  BY <1>10, <2>1, <2>2 DEF Elapse, TypeOK
<1>11. CASE UNCHANGED vars
  BY <1>11 DEF TypeOK, vars, session, inputs
<1>12. Domain["producer_arm"] \subseteq Components
  BY IdentityAssumption DEF Domains
<1> QED
  BY <1>1, <1>2, <1>3, <1>4, <1>5, <1>6, <1>7, <1>8, <1>9, <1>10, <1>11, <1>12
     DEF Next, Receive

LEMMA TypeInit == Init => TypeOK
<1> SUFFICES ASSUME Init PROVE TypeOK
  OBVIOUS
<1>1. SessionType /\ safe \in [Sides -> Int]
  BY ZeroAges, SidesAssumption DEF Init, SessionType
<1>2. InputsType
  BY DEF Init, InputsType
<1> QED  BY <1>1, <1>2, TypeParts

\* TypeOK is an invariant of the coordinator.
THEOREM TypeCorrect == Spec => []TypeOK
  BY TypeInit, TypeStep, PTL DEF Spec

-----------------------------------------------------------------------------
(* What the steps of the coordinator do to the session and the commands.   *)

\* A message that is accepted: at most one proposal is replaced, by a new one.
Accepted ==
  /\ UNCHANGED <<session, safe>>
  /\ \A s \in Sides : \/ proposals'[s] = proposals[s]
                      \/ proposals'[s] # None /\ proposals'[s].age = 0

Faulted == EnterFault /\ UNCHANGED <<safe, inputs>>

Returned == BeginReturn /\ UNCHANGED <<safe, inputs>>

Started ==
  /\ state = "idle" /\ state' = "teleop"
  /\ teleopAge' = 0
  /\ atHome' = FALSE /\ returnComplete' = FALSE
  /\ proposals' = [s \in Sides |-> None]
  /\ UNCHANGED <<returnStart, safe>>

\* Every step is of one of six kinds; Returned never leaves a fault.
LEMMA StepKinds ==
  TypeOK /\ [Next]_vars =>
    \/ Accepted
    \/ Faulted
    \/ Returned /\ state # "fault"
    \/ Started
    \/ Tick
    \/ Elapse
<1> SUFFICES ASSUME TypeOK, [Next]_vars,
                    ~Faulted, ~(Returned /\ state # "fault"), ~Started, ~Tick, ~Elapse
             PROVE  Accepted
  OBVIOUS
<1>1. ASSUME NEW c \in Components, NEW i \in Instances, NEW ok \in BOOLEAN,
             NEW newer \in BOOLEAN, UpdateComponent(c, i, ok, newer)
      PROVE  Accepted
  BY <1>1 DEF UpdateComponent, Accepted, Faulted
<1>2. ASSUME NEW i \in Instances, NEW home \in BOOLEAN, NEW newer \in BOOLEAN,
             UpdateArmState(i, home, newer)
      PROVE  Accepted
  BY <1>2 DEF UpdateArmState, Accepted, Faulted
<1>3. ASSUME NEW h \in HandSides, NEW i \in Instances, NEW ok \in BOOLEAN,
             NEW zero \in BOOLEAN, NEW tracking \in BOOLEAN, NEW newer \in BOOLEAN,
             UpdateHandExecutorStatus(h, i, ok, zero, tracking, newer)
      PROVE  Accepted
  BY <1>3 DEF UpdateHandExecutorStatus, Accepted, Faulted
<1>4. ASSUME NEW h \in HandSides, NEW i \in Instances, NEW zero \in BOOLEAN,
             NEW newer \in BOOLEAN, UpdateHandState(h, i, zero, newer)
      PROVE  Accepted
  BY <1>4 DEF UpdateHandState, Accepted, Faulted
<1>5. ASSUME NEW s \in Sides, NEW c \in Domain["producer_arm"], NEW i \in Instances,
             NEW p \in Positions[s], NEW timely \in BOOLEAN, NEW newer \in BOOLEAN,
             UpdateProposal(s, c, i, p, timely, newer)
      PROVE  Accepted
  <2> DEFINE m == [inst |-> i, pos |-> p, age |-> 0]
  <2>1. proposals' = [proposals EXCEPT ![s] = m] /\ UNCHANGED <<session, safe>>
    BY <1>5 DEF UpdateProposal, Faulted
  <2>2. m \in ProposalMsg  BY ZeroAges DEF ProposalMsg
  <2>3. m # None /\ m.age = 0  BY <2>2, NoneAssumption
  <2> QED  BY <2>1, <2>3 DEF Accepted, TypeOK
<1>6. ~RejectPayload
  BY DEF RejectPayload, Faulted
<1>7. CASE StartIntent
  BY <1>7 DEF StartIntent, Started, Accepted, vars, inputs
<1>8. CASE ReturnIntent
  BY <1>8 DEF ReturnIntent, Returned, Accepted, vars, inputs
<1>9. CASE UNCHANGED vars
  BY <1>9 DEF Accepted, vars, inputs
<1> QED
  BY <1>1, <1>2, <1>3, <1>4, <1>5, <1>6, <1>7, <1>8, <1>9 DEF Next, Receive

\* A tick neither starts teleop nor leaves idle or fault.
LEMMA TickPhases ==
  ASSUME TypeOK
  PROVE  /\ TickPhase = "idle" => state = "idle"
         /\ TickPhase = "teleop" => state = "teleop" /\ TeleopVerdict = "teleop"
         /\ state = "fault" => TickPhase = "fault"
         /\ state = "idle" => TickPhase = "idle"
  BY DEF TickPhase, TeleopVerdict, TypeOK

\* What a tick commands, by the phase it is computed in.
LEMMA TickCommands ==
  ASSUME TypeOK, NEW phase \in Phases, TickIn(phase), NEW s \in Sides
  PROVE  LET start == IF phase # state THEN safe ELSE returnStart
             elapsed == IF phase # state THEN 0 ELSE returnElapsed
         IN /\ phase = "idle" => safe'[s] = Home[s]
            /\ phase \in {"returning", "fault"} =>
                 safe'[s] = Interpolate(start[s], Home[s], elapsed)
            /\ phase = "teleop" =>
                 IF s \in ActiveSides /\ Fresh(proposals[s])
                 THEN safe'[s] = Fl[safe[s] + Clip(proposals[s].pos - safe[s])]
                 ELSE safe'[s] = Home[s]
<1> DEFINE start == IF phase # state THEN safe ELSE returnStart
           elapsed == IF phase # state THEN 0 ELSE returnElapsed
<1>1. safe'[s] = CommandFor(s, phase, start, elapsed)
  BY DEF TickIn
<1> HIDE DEF start, elapsed
<1>2. /\ phase = "idle" => safe'[s] = Home[s]
      /\ phase \in {"returning", "fault"} =>
           safe'[s] = Interpolate(start[s], Home[s], elapsed)
  BY <1>1 DEF CommandFor
<1>3. phase = "teleop" =>
        IF s \in ActiveSides /\ Fresh(proposals[s])
        THEN safe'[s] = Fl[safe[s] + Clip(proposals[s].pos - safe[s])]
        ELSE safe'[s] = Home[s]
  BY <1>1 DEF CommandFor
<1> QED  BY <1>2, <1>3 DEF start, elapsed

-----------------------------------------------------------------------------
(* The command invariant.                                                  *)

LEMMA CommandInvTick == CommandInv /\ Tick => CommandInv'
<1> SUFFICES ASSUME CommandInv, Tick PROVE CommandInv'
  OBVIOUS
<1>1. TypeOK /\ TypeOK'
  BY TypeStep DEF CommandInv, Next
<1>2. PICK phase \in Phases : phase = TickPhase /\ TickIn(phase)
  BY DEF Tick
<1> DEFINE start == IF phase # state THEN safe ELSE returnStart
           elapsed == IF phase # state THEN 0 ELSE returnElapsed
<1>3. elapsed \in Nat
  BY <1>1, ConfigAssumption DEF TypeOK
<1>4. InactiveSideAtHome'
  <2> SUFFICES ASSUME NEW s \in Sides \ ActiveSides PROVE safe'[s] = Home[s]
    BY DEF InactiveSideAtHome
  <2>1. start[s] = Home[s]
    BY DEF CommandInv, InactiveSideAtHome, InactiveStartAtHome
  <2> HIDE DEF elapsed
  <2>2. Interpolate(start[s], Home[s], elapsed) = Home[s]
    BY <1>3, <2>1, InterpolateHome
  <2> QED  BY <1>1, <1>2, <2>2, TickCommands DEF elapsed
<1>5. InactiveStartAtHome'
  BY <1>2 DEF TickIn, CommandInv, InactiveSideAtHome, InactiveStartAtHome
<1>6. atHome' => CommandsAtHome'
  BY <1>2 DEF TickIn, CommandsAtHome
<1>7. IdleAtHome'
  <2>1. CASE phase = "idle"
    BY <1>1, <1>2, <2>1, TickCommands DEF IdleAtHome, CommandsAtHome
  <2>2. CASE phase # "idle"
    BY <1>2, <1>6, <2>2 DEF TickIn, ReturnCompletes, IdleAtHome
  <2> QED  BY <2>1, <2>2
<1>8. LatchesTruthful'
  <2> SUFFICES ASSUME returnComplete' PROVE state' = "idle"
    BY <1>6, <1>7 DEF LatchesTruthful, IdleAtHome
  <2>1. CASE ReturnCompletes(phase, atHome')
    BY <1>2, <2>1 DEF TickIn
  <2>2. CASE ~ReturnCompletes(phase, atHome')
    BY <1>2, <2>2 DEF TickIn, CommandInv, LatchesTruthful
  <2> QED  BY <2>1, <2>2
<1>9. ProposalsSinceStart'
  BY <1>1, <1>2, TickPhases DEF TickIn, CommandInv, ProposalsSinceStart, inputs, ReturnCompletes
<1>10. SilentSideAtHome'
  <2> SUFFICES ASSUME state' = "teleop", NEW s \in Sides, proposals'[s] = None
               PROVE  safe'[s] = Home[s]
    BY DEF SilentSideAtHome
  <2>1. phase = "teleop" /\ ~Fresh(proposals[s])
    BY <1>2 DEF TickIn, inputs, Fresh
  <2> QED  BY <1>1, <1>2, <2>1, TickCommands
<1> QED  BY <1>1, <1>4, <1>5, <1>7, <1>8, <1>9, <1>10 DEF CommandInv

LEMMA CommandInvStep == CommandInv /\ [Next]_vars => CommandInv'
<1> SUFFICES ASSUME CommandInv, [Next]_vars PROVE CommandInv'
  OBVIOUS
<1>1. TypeOK /\ TypeOK'
  BY TypeStep DEF CommandInv
<1>2. CASE Accepted
  <2>1. ProposalsSinceStart'
    BY <1>1, <1>2 DEF Accepted, CommandInv, ProposalsSinceStart, session, TypeOK
  <2>2. SilentSideAtHome'
    BY <1>2 DEF Accepted, CommandInv, SilentSideAtHome, session
  <2> QED
    BY <1>1, <1>2, <2>1, <2>2
       DEF Accepted, CommandInv, session, InactiveSideAtHome, InactiveStartAtHome,
           IdleAtHome, LatchesTruthful, CommandsAtHome
<1>3. CASE Faulted
  BY <1>1, <1>3
     DEF Faulted, EnterFault, CommandInv, InactiveSideAtHome, InactiveStartAtHome,
         IdleAtHome, LatchesTruthful, CommandsAtHome, ProposalsSinceStart, SilentSideAtHome
<1>4. CASE Returned /\ state # "fault"
  BY <1>1, <1>4
     DEF Returned, BeginReturn, CommandInv, InactiveSideAtHome, InactiveStartAtHome,
         IdleAtHome, LatchesTruthful, CommandsAtHome, ProposalsSinceStart, SilentSideAtHome
<1>5. CASE Started
  <2>1. CommandsAtHome
    BY <1>5 DEF Started, CommandInv, IdleAtHome
  <2>2. ProposalsSinceStart' /\ SilentSideAtHome'
    BY <1>5, <2>1 DEF Started, ProposalsSinceStart, SilentSideAtHome, CommandsAtHome
  <2> QED
    BY <1>1, <1>5, <2>2
       DEF Started, CommandInv, InactiveSideAtHome, InactiveStartAtHome, IdleAtHome,
           LatchesTruthful, CommandsAtHome
<1>6. CASE Tick
  BY <1>6, CommandInvTick
<1>7. CASE Elapse
  <2>1. ProposalsSinceStart'
    <3> SUFFICES ASSUME state' = "teleop", NEW s \in Sides, proposals'[s] # None
                 PROVE  proposals'[s].age <= teleopAge'
      BY DEF ProposalsSinceStart
    <3>1. proposals'[s] = Older(proposals[s]) /\ state = "teleop"
      BY <1>7 DEF Elapse
    <3>2. proposals[s] # None
      BY <3>1 DEF Older
    <3>3. proposals[s] \in ProposalMsg /\ teleopAge \in 0 .. StateTimeout + 1
      BY <1>1, <3>2 DEF TypeOK
    <3>4. proposals[s].age <= teleopAge /\ proposals[s].age \in Int
      BY <3>1, <3>2, <3>3, ConfigAssumption DEF CommandInv, ProposalsSinceStart, ProposalMsg
    <3>5. proposals'[s].age = IF proposals[s].age > StateTimeout THEN proposals[s].age
                              ELSE proposals[s].age + 1
      BY <3>1, <3>2, <3>3 DEF Older, ProposalMsg
    <3>6. teleopAge' = IF teleopAge > StateTimeout THEN teleopAge ELSE teleopAge + 1
      BY <1>7, <3>1 DEF Elapse
    <3> QED  BY <3>3, <3>4, <3>5, <3>6, ConfigAssumption DEF ProposalMsg
  <2>2. SilentSideAtHome'
    <3> SUFFICES ASSUME state' = "teleop", NEW s \in Sides, proposals'[s] = None
                 PROVE  safe'[s] = Home[s]
      BY DEF SilentSideAtHome
    <3>1. proposals'[s] = Older(proposals[s]) /\ UNCHANGED <<state, safe>>
      BY <1>7 DEF Elapse
    <3>2. ASSUME proposals[s] # None PROVE FALSE
      <4>1. proposals[s] \in ProposalMsg
        BY <1>1, <3>2 DEF TypeOK
      <4>2. Older(proposals[s]) \in ProposalMsg
        BY <3>2, <4>1, ConfigAssumption DEF Older, ProposalMsg
      <4> QED  BY <3>1, <4>2, NoneAssumption
    <3> QED  BY <3>1, <3>2 DEF CommandInv, SilentSideAtHome
  <2> QED
    BY <1>1, <1>7, <2>1, <2>2
       DEF Elapse, CommandInv, InactiveSideAtHome, InactiveStartAtHome, IdleAtHome,
           LatchesTruthful, CommandsAtHome
<1> QED  BY <1>1, <1>2, <1>3, <1>4, <1>5, <1>6, <1>7, StepKinds

\* CommandInv is an invariant of the coordinator.
THEOREM CommandsInvariant == Spec => []CommandInv
<1>1. Init => CommandInv
  <2> SUFFICES ASSUME Init PROVE CommandInv
    OBVIOUS
  <2>1. TypeOK
    BY TypeInit
  <2> QED
    BY <2>1 DEF Init, CommandInv, InactiveSideAtHome, InactiveStartAtHome, IdleAtHome,
                LatchesTruthful, CommandsAtHome, ProposalsSinceStart, SilentSideAtHome
<1> QED  BY <1>1, CommandInvStep, PTL DEF Spec

-----------------------------------------------------------------------------
(* Limits and steps, for angles the number format represents exactly.      *)

\* No angle between the limits of a side, and no difference of two of them, is
\* rounded.  (arm_commands.cfg is an instance; without it rounding may carry a
\* command past a limit or a step by the rounding error.)
ExactArithmetic ==
  \A s \in Sides :
    /\ -Precision <= Lower[s] /\ Upper[s] <= Precision
    /\ Upper[s] - Lower[s] <= Precision

\* A quotient lies between the bounds of its dividend.
LEMMA DivBounds ==
  ASSUME NEW a \in Int, NEW f \in Nat, f > 0, NEW lo \in Int, NEW hi \in Int,
         lo * f <= a, a <= hi * f
  PROVE  a \div f \in lo .. hi
<1> DEFINE q == a \div f
<1>1. q \in Int /\ q * f <= a /\ a < q * f + f
  OBVIOUS
<1> HIDE DEF q
<1>2. q <= hi
  <2> SUFFICES ASSUME q >= hi + 1 PROVE FALSE
    BY <1>1
  <2>1. q * f >= (hi + 1) * f
    BY <1>1
  <2> QED  BY <1>1, <2>1
<1>3. lo <= q
  <2> SUFFICES ASSUME q + 1 <= lo PROVE FALSE
    BY <1>1
  <2>1. (q + 1) * f <= lo * f
    BY <1>1
  <2> QED  BY <1>1, <2>1
<1> QED  BY <1>1, <1>2, <1>3 DEF q

\* Part of the way d lies between its two ends.
LEMMA QuotientWithin ==
  ASSUME NEW d \in Int, NEW full \in Nat, full > 0, NEW n \in Nat, n < full
  PROVE  (d * n) \div full \in (IF d < 0 THEN d ELSE 0) .. (IF d < 0 THEN 0 ELSE d)
<1> DEFINE least == IF d < 0 THEN d ELSE 0
           most == IF d < 0 THEN 0 ELSE d
<1>1. least \in Int /\ most \in Int /\ d * n \in Int
  OBVIOUS
<1>2. least * full <= d * n /\ d * n <= most * full
  <2>1. full - n \in Nat /\ d * (full - n) = d * full - d * n /\ d * full \in Int
    OBVIOUS
  <2>2. CASE d < 0
    <3>1. d * full <= d * n  BY <2>1, <2>2
    <3>2. d * n <= 0 /\ 0 * full = 0  BY <2>2
    <3> QED  BY <2>2, <3>1, <3>2
  <2>3. CASE d >= 0
    <3>1. d * n <= d * full  BY <2>1, <2>3
    <3>2. 0 <= d * n /\ 0 * full = 0  BY <2>3
    <3> QED  BY <2>3, <3>1, <3>2
  <2> QED  BY <2>2, <2>3
<1>3. (d * n) \div full \in least .. most
  <2> DEFINE a == d * n
  <2>1. a \in Int /\ least * full <= a /\ a <= most * full  BY <1>1, <1>2
  <2> HIDE DEF a, least, most
  <2>2. a \div full \in least .. most  BY <1>1, <2>1, DivBounds
  <2> QED  BY <2>2 DEF a
<1> QED  BY <1>3

\* Every point of the way home lies between its two ends.
LEMMA InterpolateBetween ==
  ASSUME ExactArithmetic, NEW s \in Sides,
         NEW x \in Lower[s] .. Upper[s], NEW y \in Lower[s] .. Upper[s], NEW e \in Nat
  PROVE  Interpolate(x, y, e) \in Lower[s] .. Upper[s]
<1> DEFINE lo == Lower[s]
           hi == Upper[s]
           d == y - x
           full == IF MinDuration * MaxSpeed > Abs(x - y) THEN MinDuration * MaxSpeed ELSE Abs(x - y)
           done == e * MaxSpeed
           q == (d * done) \div full
<1>1. /\ lo \in Int /\ hi \in Int /\ x \in lo .. hi /\ y \in lo .. hi
      /\ -Precision <= lo /\ hi <= Precision /\ hi - lo <= Precision
      /\ Precision \in Nat
  BY SidesAssumption, PrecisionAssumption DEF ExactArithmetic
<1>2. MinDuration * MaxSpeed \in Nat /\ MinDuration * MaxSpeed > 0  BY ConfigAssumption
<1>3. full \in Nat /\ full > 0  BY <1>1, <1>2 DEF Abs
<1>4. done \in Nat  BY ConfigAssumption
<1>5. d \in Int /\ Abs(d) <= Precision  BY <1>1 DEF Abs
<1>6. ASSUME NEW n \in lo .. hi PROVE n \in Int /\ Fl[n] = n
  BY <1>1, FlExact DEF Abs
<1>7. Fl[x + Fl[d]] = y
  <2>1. Fl[d] = d /\ x + d = y  BY <1>1, <1>5, FlExact
  <2> QED  BY <2>1, <1>1, <1>6
<1> HIDE DEF lo, hi, full, done
<1>8. ASSUME ~(done >= full) PROVE Fl[x + Fl[q]] \in lo .. hi
  <2> DEFINE least == IF d < 0 THEN d ELSE 0
             most == IF d < 0 THEN 0 ELSE d
  <2>3. q \in least .. most
    <3> HIDE DEF d
    <3> QED  BY <1>3, <1>4, <1>5, <1>8, QuotientWithin
  <2> HIDE DEF q
  <2>4. q \in Int /\ Abs(q) <= Precision /\ x + q \in lo .. hi
    BY <2>3, <1>1, <1>5 DEF Abs
  <2> QED  BY <2>4, <1>6, FlExact
<1> QED  BY <1>1, <1>7, <1>8 DEF Interpolate, full, done, lo, hi

\* Commands and the starts of returns stay within the limits.
LimitInv ==
  \A s \in Sides : safe[s] \in Lower[s] .. Upper[s] /\ returnStart[s] \in Lower[s] .. Upper[s]

\* In teleop a side without a fresh proposal has not received any and stays at Home:
\* a proposal that went stale would have ended teleop, since the grace period after
\* the start is over by then.
LEMMA SilentSides ==
  ASSUME CommandInv, Tick, state' = "teleop", NEW s \in Sides,
         ~(s \in ActiveSides /\ Fresh(proposals[s]))
  PROVE  safe[s] = Home[s] /\ safe'[s] = Home[s]
<1>1. TypeOK  BY DEF CommandInv
<1>2. PICK phase \in Phases : phase = TickPhase /\ TickIn(phase)
  BY DEF Tick
<1>3. phase = "teleop"
  BY <1>2 DEF TickIn
<1>4. state = "teleop" /\ TeleopVerdict = "teleop"
  BY <1>1, <1>2, <1>3, TickPhases
<1>5. safe'[s] = Home[s]
  BY <1>1, <1>2, <1>3, TickCommands
<1>6. CASE s \notin ActiveSides
  BY <1>5, <1>6 DEF CommandInv, InactiveSideAtHome
<1>7. CASE proposals[s] = None
  BY <1>4, <1>5, <1>7 DEF CommandInv, SilentSideAtHome
<1>8. ASSUME s \in ActiveSides, proposals[s] # None, ~Fresh(proposals[s]) PROVE FALSE
  <2>1. ~ProposalLost
    BY <1>4 DEF TeleopVerdict
  <2>2. teleopAge <= StateTimeout
    BY <1>8, <2>1 DEF ProposalLost, Transitioning
  <2>3. proposals[s].age <= teleopAge
    BY <1>4, <1>8 DEF CommandInv, ProposalsSinceStart
  <2>4. proposals[s].age \in Int /\ teleopAge \in Int
    BY <1>1, <1>8, ConfigAssumption DEF TypeOK, ProposalMsg
  <2> QED  BY <1>8, <2>2, <2>3, <2>4, ConfigAssumption DEF Fresh
<1> QED  BY <1>6, <1>7, <1>8

\* In teleop a side either follows a fresh proposal within the limits or stays at Home.
LEMMA TeleopSides ==
  ASSUME CommandInv, Tick, state' = "teleop", NEW s \in Sides
  PROVE  \/ /\ Fresh(proposals[s]) /\ proposals[s].pos \in Lower[s] .. Upper[s]
            /\ safe'[s] = Fl[safe[s] + Clip(proposals[s].pos - safe[s])]
         \/ safe[s] = Home[s] /\ safe'[s] = Home[s]
<1>1. TypeOK  BY DEF CommandInv
<1>2. PICK phase \in Phases : phase = TickPhase /\ TickIn(phase)
  BY DEF Tick
<1>3. phase = "teleop"
  BY <1>2 DEF TickIn
<1>4. CASE s \in ActiveSides /\ Fresh(proposals[s])
  <2>1. safe'[s] = Fl[safe[s] + Clip(proposals[s].pos - safe[s])]
    BY <1>1, <1>2, <1>3, <1>4, TickCommands
  <2>2. TeleopVerdict = "teleop"
    BY <1>1, <1>2, <1>3, TickPhases
  <2>3. ~ProposalRejected
    BY <2>2 DEF TeleopVerdict
  <2> QED  BY <1>4, <2>1, <2>3 DEF ProposalRejected
<1>5. CASE ~(s \in ActiveSides /\ Fresh(proposals[s]))
  BY <1>5, SilentSides
<1> QED  BY <1>4, <1>5

\* Clipping towards a point within the limits moves by at most one step and
\* stays within them.
LEMMA ClippedStep ==
  ASSUME ExactArithmetic, NEW s \in Sides,
         NEW x \in Lower[s] .. Upper[s], NEW p \in Lower[s] .. Upper[s]
  PROVE  /\ Fl[x + Clip(p - x)] \in Lower[s] .. Upper[s]
         /\ Abs(Fl[x + Clip(p - x)] - x) <= MaxStep
<1>1. /\ Lower[s] \in Int /\ Upper[s] \in Int /\ Precision \in Nat
      /\ -Precision <= Lower[s] /\ Upper[s] <= Precision
  BY SidesAssumption, PrecisionAssumption DEF ExactArithmetic
<1> DEFINE q == x + Clip(p - x)
<1>2. q \in Lower[s] .. Upper[s] /\ Abs(q - x) <= MaxStep
  BY <1>1, ConfigAssumption DEF Clip, Abs
<1> HIDE DEF q
<1>3. Fl[q] = q
  BY <1>1, <1>2, FlExact DEF Abs
<1>4. Fl[q] \in Lower[s] .. Upper[s] /\ Abs(Fl[q] - x) <= MaxStep
  BY <1>2, <1>3
<1> QED  BY <1>4 DEF q

LEMMA LimitInvStep ==
  ASSUME ExactArithmetic, CommandInv, LimitInv, [Next]_vars
  PROVE  LimitInv'
<1>1. TypeOK  BY DEF CommandInv
<1>2. CASE Accepted
  BY <1>2 DEF Accepted, LimitInv, session
<1>3. CASE Faulted
  BY <1>3 DEF Faulted, EnterFault, LimitInv
<1>4. CASE Returned
  BY <1>4 DEF Returned, BeginReturn, LimitInv
<1>5. CASE Started
  BY <1>5 DEF Started, LimitInv
<1>6. CASE Elapse
  BY <1>6 DEF Elapse, LimitInv
<1>7. CASE Tick
  <2>1. PICK phase \in Phases : phase = TickPhase /\ TickIn(phase)
    BY <1>7 DEF Tick
  <2> DEFINE start == IF phase # state THEN safe ELSE returnStart
             elapsed == IF phase # state THEN 0 ELSE returnElapsed
  <2>2. elapsed \in Nat
    BY <1>1, ConfigAssumption DEF TypeOK
  <2> SUFFICES ASSUME NEW s \in Sides
               PROVE  safe'[s] \in Lower[s] .. Upper[s] /\ returnStart'[s] \in Lower[s] .. Upper[s]
    BY DEF LimitInv
  <2>3. /\ Home[s] \in Lower[s] .. Upper[s]
        /\ safe[s] \in Lower[s] .. Upper[s]
        /\ start[s] \in Lower[s] .. Upper[s]
    BY SidesAssumption DEF LimitInv
  <2>4. returnStart'[s] \in Lower[s] .. Upper[s]
    BY <2>1, <2>3 DEF TickIn
  <2>5. safe'[s] \in Lower[s] .. Upper[s]
    <3>1. CASE phase = "idle"
      BY <1>1, <2>1, <2>3, <3>1, TickCommands
    <3>2. CASE phase \in {"returning", "fault"}
      <4>1. safe'[s] = Interpolate(start[s], Home[s], elapsed)
        BY <1>1, <2>1, <3>2, TickCommands
      <4> HIDE DEF start, elapsed
      <4> QED  BY <2>2, <2>3, <4>1, InterpolateBetween
    <3>3. CASE phase = "teleop"
      <4>1. state' = "teleop"
        BY <2>1, <3>3 DEF TickIn, ReturnCompletes
      <4> QED  BY <1>7, <2>3, <4>1, TeleopSides, ClippedStep DEF Fresh
    <3> QED  BY <3>1, <3>2, <3>3
  <2> QED  BY <2>4, <2>5
<1> QED  BY <1>1, <1>2, <1>3, <1>4, <1>5, <1>6, <1>7, StepKinds

LEMMA LimitInvInit == Init => LimitInv
  BY SidesAssumption DEF Init, LimitInv

\* The final commands never leave the hard joint limits.
THEOREM CommandsWithinLimits == ExactArithmetic => (Spec => []SafeWithinLimits)
<1> SUFFICES ASSUME ExactArithmetic PROVE Spec => []SafeWithinLimits
  OBVIOUS
<1>1. CommandInv /\ LimitInv /\ [Next]_vars => LimitInv'
  BY LimitInvStep
<1>2. LimitInv => SafeWithinLimits
  BY DEF LimitInv, SafeWithinLimits
<1> QED  BY <1>1, <1>2, LimitInvInit, CommandsInvariant, PTL DEF Spec

\* In teleop no final command moves by more than one maximum step.
THEOREM TeleopStepsBounded == ExactArithmetic => (Spec => TeleopStepBounded)
<1> SUFFICES ASSUME ExactArithmetic PROVE Spec => TeleopStepBounded
  OBVIOUS
<1>1. CommandInv /\ LimitInv /\ [Next]_vars => LimitInv'
  BY LimitInvStep
<1>2. CommandInv /\ LimitInv /\ [Next]_vars =>
        [state' = "teleop" => \A s \in Sides : Abs(safe'[s] - safe[s]) <= MaxStep]_vars
  <2> SUFFICES ASSUME CommandInv, LimitInv, [Next]_vars, state' = "teleop", NEW s \in Sides
               PROVE  Abs(safe'[s] - safe[s]) <= MaxStep
    OBVIOUS
  <2>1. TypeOK /\ safe[s] \in Int  BY DEF CommandInv, TypeOK
  <2>2. CASE UNCHANGED safe
    BY <2>1, <2>2, ConfigAssumption DEF Abs
  <2>3. CASE Tick
    <3>1. safe[s] \in Lower[s] .. Upper[s]
      BY DEF LimitInv
    <3>2. CASE safe[s] = Home[s] /\ safe'[s] = Home[s]
      BY <2>1, <3>2, ConfigAssumption DEF Abs
    <3>3. CASE /\ proposals[s] # None /\ proposals[s].pos \in Lower[s] .. Upper[s]
               /\ safe'[s] = Fl[safe[s] + Clip(proposals[s].pos - safe[s])]
      BY <3>1, <3>3, ClippedStep
    <3> QED  BY <2>3, <3>2, <3>3, TeleopSides DEF Fresh
  <2>4. UNCHANGED safe \/ Tick
    BY <2>1, StepKinds DEF Accepted, Faulted, Returned, Started, Elapse
  <2> QED  BY <2>2, <2>3, <2>4
<1> QED  BY <1>1, <1>2, LimitInvInit, CommandsInvariant, PTL DEF Spec, TeleopStepBounded

-----------------------------------------------------------------------------
(* Faults.                                                                 *)

\* No step leaves a fault.
THEOREM FaultsAreFinal == Spec => FaultIsFinal
<1>1. TypeOK /\ [Next]_vars => [state = "fault" => state' = "fault"]_vars
  <2> SUFFICES ASSUME TypeOK, [Next]_vars, state = "fault" PROVE state' = "fault"
    OBVIOUS
  <2>1. CASE Tick
    <3>1. PICK phase \in Phases : phase = TickPhase /\ TickIn(phase)
      BY <2>1 DEF Tick
    <3> QED  BY <3>1, TickPhases DEF TickIn, ReturnCompletes
  <2>2. CASE ~Tick
    BY <2>2, StepKinds DEF Accepted, Faulted, EnterFault, Started, Elapse, session
  <2> QED  BY <2>1, <2>2
<1> QED  BY <1>1, TypeCorrect, PTL DEF Spec, FaultIsFinal
-----------------------------------------------------------------------------
(* The way home.                                                           *)

LEMMA DivMonotone ==
  ASSUME NEW a \in Int, NEW b \in Int, a <= b, NEW f \in Nat, f > 0
  PROVE  a \div f <= b \div f
<1> DEFINE q == a \div f
           r == b \div f
<1>1. /\ q \in Int /\ q * f <= a /\ a < q * f + f
      /\ r \in Int /\ r * f <= b /\ b < r * f + f
  OBVIOUS
<1> HIDE DEF q, r
<1>2. q <= r
  <2> SUFFICES ASSUME q >= r + 1 PROVE FALSE
    BY <1>1
  <2>1. q * f >= (r + 1) * f /\ (r + 1) * f = r * f + f
    BY <1>1
  <2> QED  BY <1>1, <2>1
<1> QED  BY <1>2 DEF q, r

\* Later parts of the way d are nearer to its end.
LEMMA QuotientNearer ==
  ASSUME NEW d \in Int, NEW full \in Nat, full > 0,
         NEW n \in Nat, NEW m \in Nat, n <= m, m < full
  PROVE  Abs(d - (d * m) \div full) <= Abs(d - (d * n) \div full)
<1> DEFINE q == (d * n) \div full
           r == (d * m) \div full
<1>1. d * n \in Int /\ d * m \in Int /\ n < full  OBVIOUS
<1>2. m - n \in Nat /\ d * (m - n) = d * m - d * n  OBVIOUS
<1>3. q \in (IF d < 0 THEN d ELSE 0) .. (IF d < 0 THEN 0 ELSE d)
  BY <1>1, QuotientWithin
<1>4. r \in (IF d < 0 THEN d ELSE 0) .. (IF d < 0 THEN 0 ELSE d)
  BY QuotientWithin
<1>5. CASE d < 0
  <2>1. d * (m - n) <= 0  BY <1>2, <1>5
  <2>2. d * m <= d * n  BY <1>1, <1>2, <2>1
  <2>3. r <= q
    <3> DEFINE a == d * m
               b == d * n
    <3>1. a \in Int /\ b \in Int /\ a <= b  BY <1>1, <2>2
    <3> HIDE DEF a, b
    <3>2. a \div full <= b \div full  BY <3>1, DivMonotone
    <3> QED  BY <3>2 DEF a, b
  <2> HIDE DEF q, r
  <2>4. Abs(d - r) <= Abs(d - q)  BY <1>3, <1>4, <1>5, <2>3 DEF Abs
  <2> QED  BY <2>4 DEF q, r
<1>6. CASE d >= 0
  <2>1. d * (m - n) >= 0  BY <1>2, <1>6
  <2>2. d * n <= d * m  BY <1>1, <1>2, <2>1
  <2>3. q <= r
    <3> DEFINE a == d * n
               b == d * m
    <3>1. a \in Int /\ b \in Int /\ a <= b  BY <1>1, <2>2
    <3> HIDE DEF a, b
    <3>2. a \div full <= b \div full  BY <3>1, DivMonotone
    <3> QED  BY <3>2 DEF a, b
  <2> HIDE DEF q, r
  <2>4. Abs(d - r) <= Abs(d - q)  BY <1>3, <1>4, <1>6, <2>3 DEF Abs
  <2> QED  BY <2>4 DEF q, r
<1> QED  BY <1>5, <1>6

\* A part of the way d is no longer than the part of its time.
LEMMA QuotientSlow ==
  ASSUME NEW d \in Int, NEW full \in Nat, full > 0, Abs(d) <= full,
         NEW n \in Nat, n < full
  PROVE  Abs((d * n) \div full) <= n
<1> DEFINE a == d * n
<1>1. a \in Int /\ -n * full <= a /\ a <= n * full
  <2>1. d + full \in Nat /\ full - d \in Nat  BY DEF Abs
  <2>2. /\ (d + full) * n \in Nat /\ (d + full) * n = d * n + n * full
        /\ (full - d) * n \in Nat /\ (full - d) * n = n * full - d * n
    BY <2>1
  <2>3. d * n \in Int /\ n * full \in Int /\ -n * full = -(n * full)  OBVIOUS
  <2> QED  BY <2>2, <2>3
<1> HIDE DEF a
<1>2. -n \in Int /\ n \in Int  OBVIOUS
<1>3. a \div full \in -n .. n  BY <1>1, <1>2, DivBounds
<1> DEFINE q == a \div full
<1>4. q \in -n .. n  BY <1>3
<1> HIDE DEF q
<1>5. Abs(q) <= n  BY <1>4 DEF Abs
<1> QED  BY <1>5 DEF a, q

\* The way from x Home in exact arithmetic: the whole way once its time is over,
\* and before that the part of it that fits the time.
Full(x, s) ==
  IF MinDuration * MaxSpeed > Abs(x - Home[s]) THEN MinDuration * MaxSpeed ELSE Abs(x - Home[s])

LEMMA FullType ==
  ASSUME NEW s \in Sides, NEW x \in Lower[s] .. Upper[s]
  PROVE  /\ Full(x, s) \in Nat /\ Full(x, s) > 0
         /\ Abs(Home[s] - x) <= Full(x, s)
<1>1. x \in Int /\ Home[s] \in Int  BY SidesAssumption
<1>2. MinDuration * MaxSpeed \in Nat /\ MinDuration * MaxSpeed > 0  BY ConfigAssumption
<1> QED  BY <1>1, <1>2 DEF Full, Abs

LEMMA ExactWay ==
  ASSUME ExactArithmetic, NEW s \in Sides, NEW x \in Lower[s] .. Upper[s], NEW e \in Nat
  PROVE  Interpolate(x, Home[s], e) =
           x + (IF e * MaxSpeed >= Full(x, s) THEN Home[s] - x
                ELSE ((Home[s] - x) * (e * MaxSpeed)) \div Full(x, s))
<1> DEFINE y == Home[s]
           d == y - x
           full == Full(x, s)
           done == e * MaxSpeed
           q == (d * done) \div full
<1>1. /\ x \in Int /\ y \in Lower[s] .. Upper[s] /\ Lower[s] \in Int /\ Upper[s] \in Int
      /\ -Precision <= Lower[s] /\ Upper[s] <= Precision /\ Upper[s] - Lower[s] <= Precision
      /\ Precision \in Nat
  BY SidesAssumption, PrecisionAssumption DEF ExactArithmetic
<1>2. full \in Nat /\ full > 0  BY FullType
<1>3. done \in Nat  BY ConfigAssumption
<1>4. Interpolate(x, y, e) = IF done >= full THEN Fl[x + Fl[d]] ELSE Fl[x + Fl[q]]
  BY DEF Interpolate, Full
<1> HIDE DEF y, full, done
<1>5. Fl[x + Fl[d]] = x + d
  <2>1. d \in Int /\ Abs(d) <= Precision /\ Abs(x + d) <= Precision /\ x + d \in Int
    BY <1>1 DEF Abs
  <2> QED  BY <2>1, FlExact
<1>6. CASE ~(done >= full)
  <2>1. q \in (IF d < 0 THEN d ELSE 0) .. (IF d < 0 THEN 0 ELSE d)
    <3>1. d \in Int /\ done < full  BY <1>1, <1>2, <1>3, <1>6
    <3> HIDE DEF d
    <3> QED  BY <1>2, <1>3, <3>1, QuotientWithin
  <2> HIDE DEF q
  <2>2. q \in Int /\ Abs(q) <= Precision /\ Abs(x + q) <= Precision /\ x + q \in Int
    BY <1>1, <2>1 DEF Abs
  <2>3. Fl[x + Fl[q]] = x + q  BY <2>2, FlExact
  <2> QED  BY <1>4, <1>6, <2>3 DEF q, y, full, done
<1>7. CASE done >= full
  BY <1>4, <1>5, <1>7 DEF y, full, done
<1> QED  BY <1>6, <1>7

\* The way begins where the command is.
LEMMA WayBegins ==
  ASSUME ExactArithmetic, NEW s \in Sides, NEW x \in Lower[s] .. Upper[s]
  PROVE  Interpolate(x, Home[s], 0) = x
<1> DEFINE d == Home[s] - x
           full == Full(x, s)
<1>1. x \in Int /\ d \in Int  BY SidesAssumption
<1>2. full \in Nat /\ full > 0  BY FullType
<1>3. 0 * MaxSpeed = 0 /\ 0 \in Nat  BY ConfigAssumption
<1>4. Interpolate(x, Home[s], 0) =
        x + (IF 0 * MaxSpeed >= full THEN d ELSE (d * (0 * MaxSpeed)) \div full)
  BY <1>3, ExactWay
<1> HIDE DEF d, full
<1>5. d * 0 = 0 /\ 0 \div full = 0  BY <1>1, <1>2
<1> QED  BY <1>1, <1>2, <1>3, <1>4, <1>5

\* Later points of the way are nearer to Home.
LEMMA WayNearer ==
  ASSUME ExactArithmetic, NEW s \in Sides, NEW x \in Lower[s] .. Upper[s],
         NEW e \in Nat, NEW g \in Nat, e <= g
  PROVE  Abs(Interpolate(x, Home[s], g) - Home[s]) <= Abs(Interpolate(x, Home[s], e) - Home[s])
<1> DEFINE d == Home[s] - x
           full == Full(x, s)
           done == e * MaxSpeed
           later == g * MaxSpeed
           q == IF done >= full THEN d ELSE (d * done) \div full
           r == IF later >= full THEN d ELSE (d * later) \div full
<1>1. x \in Int /\ Home[s] \in Int /\ d \in Int  BY SidesAssumption
<1>2. full \in Nat /\ full > 0  BY FullType
<1>3. done \in Nat /\ later \in Nat /\ done <= later
  <2>1. g - e \in Nat /\ g * MaxSpeed - e * MaxSpeed = (g - e) * MaxSpeed
    BY ConfigAssumption
  <2>2. (g - e) * MaxSpeed \in Nat  BY ConfigAssumption, <2>1
  <2> QED  BY ConfigAssumption, <2>1, <2>2
<1>4. Interpolate(x, Home[s], e) = x + q /\ Interpolate(x, Home[s], g) = x + r
  BY ExactWay
<1>5. q \in Int /\ r \in Int /\ Abs(d - r) <= Abs(d - q)
  <2> HIDE DEF d, full, done, later
  <2>1. q \in Int /\ r \in Int  BY <1>1, <1>2, <1>3
  <2>2. CASE later >= full
    BY <1>1, <2>1, <2>2 DEF Abs
  <2>3. CASE later < full
    <3>1. q = (d * done) \div full /\ r = (d * later) \div full  BY <1>2, <1>3, <2>3
    <3> HIDE DEF q, r
    <3> QED  BY <1>1, <1>2, <1>3, <2>1, <2>3, <3>1, QuotientNearer
  <2> QED  BY <1>2, <1>3, <2>1, <2>2, <2>3
<1> HIDE DEF q, r
<1>6. Abs(x + r - Home[s]) = Abs(d - r) /\ Abs(x + q - Home[s]) = Abs(d - q)
  BY <1>1, <1>5 DEF Abs
<1>7. Abs(x + r - Home[s]) <= Abs(x + q - Home[s])
  BY <1>5, <1>6
<1> HIDE DEF d
<1> QED  BY <1>1, <1>4, <1>5, <1>7

\* The way is no faster than the speed limit.
LEMMA WaySlow ==
  ASSUME ExactArithmetic, NEW s \in Sides, NEW x \in Lower[s] .. Upper[s], NEW e \in Nat
  PROVE  Abs(Interpolate(x, Home[s], e) - x) <= MaxSpeed * e
<1> DEFINE d == Home[s] - x
           full == Full(x, s)
           done == e * MaxSpeed
           q == IF done >= full THEN d ELSE (d * done) \div full
<1>1. x \in Int /\ d \in Int  BY SidesAssumption
<1>2. full \in Nat /\ full > 0 /\ Abs(d) <= full  BY FullType
<1>3. done \in Nat /\ done = MaxSpeed * e  BY ConfigAssumption
<1>4. Interpolate(x, Home[s], e) = x + q  BY ExactWay
<1>5. q \in Int /\ Abs(q) <= done
  <2> HIDE DEF d, full, done
  <2>1. q \in Int  BY <1>1, <1>2, <1>3
  <2>2. CASE done >= full
    BY <1>1, <1>2, <1>3, <2>2 DEF Abs
  <2>3. CASE done < full
    <3>1. q = (d * done) \div full  BY <1>2, <1>3, <2>3
    <3> HIDE DEF q
    <3> QED  BY <1>1, <1>2, <1>3, <2>1, <2>3, <3>1, QuotientSlow
  <2> QED  BY <1>2, <1>3, <2>1, <2>2, <2>3
<1> HIDE DEF q, done
<1>6. Abs(x + q - x) = Abs(q)  BY <1>1, <1>5 DEF Abs
<1> QED  BY <1>3, <1>4, <1>5, <1>6

\* In a return or a fault every command is the point of its way home at some
\* moment since the way began.
OnWay ==
  state \in {"returning", "fault"} =>
    \A s \in Sides : \E e \in 0 .. returnElapsed :
      safe[s] = Interpolate(returnStart[s], Home[s], e)

LEMMA OnWayAnew ==
  ASSUME ExactArithmetic, TypeOK, LimitInv, returnStart' = safe, returnElapsed' = 0,
         UNCHANGED safe
  PROVE  OnWay'
<1> SUFFICES ASSUME NEW s \in Sides
             PROVE  \E e \in 0 .. returnElapsed' :
                      safe'[s] = Interpolate(returnStart'[s], Home[s], e)
  BY DEF OnWay
<1>1. safe[s] = Interpolate(safe[s], Home[s], 0)
  BY WayBegins DEF LimitInv
<1> WITNESS 0 \in 0 .. returnElapsed'
<1> QED  BY <1>1

LEMMA OnWayTick ==
  ASSUME ExactArithmetic, CommandInv, LimitInv, OnWay, Tick
  PROVE  OnWay'
<1>1. TypeOK  BY DEF CommandInv
<1>2. PICK phase \in Phases : phase = TickPhase /\ TickIn(phase)
  BY DEF Tick
<1> DEFINE start == IF phase # state THEN safe ELSE returnStart
           elapsed == IF phase # state THEN 0 ELSE returnElapsed
<1>3. elapsed \in Nat
  BY <1>1, ConfigAssumption DEF TypeOK
<1> SUFFICES ASSUME state' \in {"returning", "fault"}, NEW s \in Sides
             PROVE  \E e \in 0 .. returnElapsed' :
                      safe'[s] = Interpolate(returnStart'[s], Home[s], e)
  BY DEF OnWay
<1>4. phase = state' /\ ~ReturnCompletes(phase, atHome')
  BY <1>2 DEF TickIn
<1>5. returnStart' = start /\ returnElapsed' = elapsed
  BY <1>2, <1>4 DEF TickIn
<1>6. safe'[s] = Interpolate(start[s], Home[s], elapsed)
  BY <1>1, <1>2, <1>4, TickCommands
<1> HIDE DEF start, elapsed
<1>7. elapsed \in 0 .. returnElapsed'  BY <1>3, <1>5
<1> QED  BY <1>5, <1>6, <1>7

LEMMA OnWayStep ==
  ASSUME ExactArithmetic, CommandInv, LimitInv, OnWay, [Next]_vars
  PROVE  OnWay'
<1>1. TypeOK  BY DEF CommandInv
<1>2. CASE Accepted
  BY <1>2 DEF Accepted, OnWay, session
<1>3. CASE Faulted
  <2>1. CASE state = "fault"
    BY <1>3, <2>1 DEF Faulted, EnterFault, OnWay
  <2>2. CASE state # "fault"
    BY <1>1, <1>3, <2>2, OnWayAnew DEF Faulted, EnterFault
  <2> QED  BY <2>1, <2>2
<1>4. CASE Returned
  BY <1>1, <1>4, OnWayAnew DEF Returned, BeginReturn
<1>5. CASE Started
  BY <1>5 DEF Started, OnWay
<1>6. CASE Elapse
  <2>1. returnElapsed \in Nat /\ returnElapsed' \in Nat /\ returnElapsed' >= returnElapsed
    BY <1>1, <1>6, ConfigAssumption DEF Elapse, TypeOK
  <2>2. UNCHANGED <<state, returnStart, safe>>
    BY <1>6 DEF Elapse
  <2>3. \A e \in 0 .. returnElapsed : e \in 0 .. returnElapsed'
    BY <2>1
  <2> QED  BY <2>2, <2>3 DEF OnWay
<1>7. CASE Tick
  BY <1>7, OnWayTick
<1> QED  BY <1>1, <1>2, <1>3, <1>4, <1>5, <1>6, <1>7, StepKinds

\* Outside teleop a tick moves no command away from Home.
LEMMA TickNearer ==
  ASSUME ExactArithmetic, CommandInv, LimitInv, OnWay, NEW phase \in Phases,
         phase = TickPhase, TickIn(phase), phase # "teleop", NEW s \in Sides
  PROVE  Abs(safe'[s] - Home[s]) <= Abs(safe[s] - Home[s])
<1>1. TypeOK  BY DEF CommandInv
<1>2. safe[s] \in Int /\ Home[s] \in Int /\ safe[s] \in Lower[s] .. Upper[s]
      /\ returnStart[s] \in Lower[s] .. Upper[s]
  BY <1>1, SidesAssumption DEF TypeOK, LimitInv
<1>3. CASE phase = "idle"
  <2>1. safe'[s] = Home[s]  BY <1>1, <1>3, TickCommands
  <2> QED  BY <1>2, <2>1 DEF Abs
<1>4. CASE phase \in {"returning", "fault"} /\ phase # state
  <2>1. safe'[s] = Interpolate(safe[s], Home[s], 0)
    BY <1>1, <1>4, TickCommands
  <2>2. safe'[s] = safe[s]  BY <1>2, <2>1, WayBegins
  <2> QED  BY <1>2, <2>2 DEF Abs
<1>5. CASE phase \in {"returning", "fault"} /\ phase = state
  <2>1. safe'[s] = Interpolate(returnStart[s], Home[s], returnElapsed)
    BY <1>1, <1>5, TickCommands
  <2>2. PICK e \in 0 .. returnElapsed : safe[s] = Interpolate(returnStart[s], Home[s], e)
    BY <1>5 DEF OnWay
  <2>3. e \in Nat /\ returnElapsed \in Nat /\ e <= returnElapsed
    BY <1>1, ConfigAssumption DEF TypeOK
  <2> QED  BY <1>2, <2>1, <2>2, <2>3, WayNearer
<1> QED  BY <1>3, <1>4, <1>5

LEMMA TickAtHome ==
  ASSUME ExactArithmetic, CommandInv, LimitInv, OnWay, NEW phase \in Phases,
         phase = TickPhase, TickIn(phase), phase # "teleop", CommandsAtHome
  PROVE  CommandsAtHome'
<1> SUFFICES ASSUME NEW s \in Sides PROVE safe'[s] = Home[s]
  BY DEF CommandsAtHome
<1>1. TypeOK /\ TypeOK'  BY TypeStep DEF CommandInv, Next, Tick
<1>2. safe[s] = Home[s] /\ Home[s] \in Int /\ safe'[s] \in Int
  BY <1>1, SidesAssumption DEF CommandsAtHome, TypeOK
<1>3. Abs(safe'[s] - Home[s]) <= Abs(safe[s] - Home[s])  BY TickNearer
<1> QED  BY <1>2, <1>3 DEF Abs

\* What holds together of the commands in exact arithmetic.
LEMMA OnWayInvariant == ExactArithmetic => (Spec => [](CommandInv /\ LimitInv /\ OnWay))
<1> SUFFICES ASSUME ExactArithmetic PROVE Spec => [](CommandInv /\ LimitInv /\ OnWay)
  OBVIOUS
<1>1. CommandInv /\ LimitInv /\ [Next]_vars => LimitInv'
  BY LimitInvStep
<1>2. CommandInv /\ LimitInv /\ OnWay /\ [Next]_vars => OnWay'
  BY OnWayStep
<1>3. Init => OnWay
  BY DEF Init, OnWay
<1> QED  BY <1>1, <1>2, <1>3, LimitInvInit, CommandsInvariant, PTL DEF Spec

\* A return or a fault is never faster than the speed limit.
THEOREM ReturnsAreSlow == ExactArithmetic => (Spec => []ReturnSpeedBounded)
<1> SUFFICES ASSUME ExactArithmetic PROVE Spec => []ReturnSpeedBounded
  OBVIOUS
<1>1. CommandInv /\ LimitInv /\ OnWay => ReturnSpeedBounded
  <2> SUFFICES ASSUME CommandInv, LimitInv, OnWay, state \in {"returning", "fault"},
                      NEW s \in Sides
               PROVE  Abs(safe[s] - returnStart[s]) <= MaxSpeed * returnElapsed
    BY DEF ReturnSpeedBounded
  <2>1. PICK e \in 0 .. returnElapsed : safe[s] = Interpolate(returnStart[s], Home[s], e)
    BY DEF OnWay
  <2>2. /\ e \in Nat /\ returnElapsed \in Nat /\ MaxSpeed \in Nat
        /\ safe[s] \in Int /\ returnStart[s] \in Int
    BY ConfigAssumption DEF CommandInv, TypeOK
  <2>3. Abs(safe[s] - returnStart[s]) <= MaxSpeed * e
    BY <2>1, <2>2, WaySlow DEF LimitInv
  <2>4. MaxSpeed * e <= MaxSpeed * returnElapsed
    <3>1. returnElapsed - e \in Nat  BY <2>2
    <3>2. MaxSpeed * (returnElapsed - e) \in Nat  BY <2>2, <3>1
    <3>3. MaxSpeed * (returnElapsed - e) = MaxSpeed * returnElapsed - MaxSpeed * e  BY <2>2
    <3> QED  BY <2>2, <3>2, <3>3
  <2>5. /\ MaxSpeed * e \in Int /\ MaxSpeed * returnElapsed \in Int
        /\ Abs(safe[s] - returnStart[s]) \in Int
    BY <2>2 DEF Abs
  <2> QED  BY <2>3, <2>4, <2>5
<1> QED  BY <1>1, OnWayInvariant, PTL

\* Outside teleop no command moves away from Home.
THEOREM ReturnsGoHome == ExactArithmetic => (Spec => ReturnApproachesHome)
<1> SUFFICES ASSUME ExactArithmetic PROVE Spec => ReturnApproachesHome
  OBVIOUS
<1>1. CommandInv /\ LimitInv /\ OnWay /\ [Next]_vars =>
        [state' # "teleop" =>
           \A s \in Sides : Abs(safe'[s] - Home[s]) <= Abs(safe[s] - Home[s])]_vars
  <2> SUFFICES ASSUME CommandInv, LimitInv, OnWay, [Next]_vars, state' # "teleop", NEW s \in Sides
               PROVE  Abs(safe'[s] - Home[s]) <= Abs(safe[s] - Home[s])
    OBVIOUS
  <2>1. TypeOK /\ safe[s] \in Int /\ Home[s] \in Int
    BY SidesAssumption DEF CommandInv, TypeOK
  <2>2. CASE UNCHANGED safe
    BY <2>1, <2>2 DEF Abs
  <2>3. CASE Tick
    <3>1. PICK phase \in Phases : phase = TickPhase /\ TickIn(phase)
      BY <2>3 DEF Tick
    <3>2. phase # "teleop"
      BY <3>1 DEF TickIn, ReturnCompletes
    <3> QED  BY <3>1, <3>2, TickNearer
  <2>4. UNCHANGED safe \/ Tick
    BY <2>1, StepKinds DEF Accepted, Faulted, Returned, Started, Elapse
  <2> QED  BY <2>2, <2>3, <2>4
<1> QED  BY <1>1, OnWayInvariant, PTL DEF ReturnApproachesHome, Spec

-----------------------------------------------------------------------------
(* The session authority.                                                  *)

\* What a tick does to the session is an advance of the session authority.
LEMMA TickAdvances ==
  ASSUME ExactArithmetic, CommandInv, LimitInv, OnWay, Tick
  PROVE  Authority_!Advance
<1>1. TypeOK /\ TypeOK'  BY TypeStep DEF CommandInv, Next
<1>2. PICK phase \in Phases : phase = TickPhase /\ TickIn(phase)
  BY DEF Tick
<1> DEFINE complete == ReturnCompletes(phase, atHome')
<1>3. complete \in BOOLEAN
  BY DEF ReturnCompletes
<1>4. phase \in Authority_!Successors[state]
  <2>1. state \in {"idle", "teleop", "returning", "fault"}  BY <1>1 DEF TypeOK
  <2>2. CASE state = "teleop"
    BY <1>2, <2>2 DEF TickPhase, TeleopVerdict, Authority_!Successors
  <2>3. CASE state = "returning"
    BY <1>2, <2>3 DEF TickPhase, Authority_!Successors
  <2>4. CASE state \in {"idle", "fault"}
    BY <1>2, <2>4 DEF TickPhase, Authority_!Successors
  <2> QED  BY <2>1, <2>2, <2>3, <2>4
<1>5. CommandsAtHome' \/ phase = "teleop" \/ (phase # "idle" /\ ~CommandsAtHome)
  <2>1. CASE phase = "idle"
    BY <1>1, <1>2, <2>1, TickCommands DEF CommandsAtHome
  <2>2. CASE phase # "teleop" /\ CommandsAtHome
    BY <1>2, <2>2, TickAtHome
  <2> QED  BY <2>1, <2>2
<1>6. atHome' = CommandsAtHome'
  BY <1>2 DEF TickIn, CommandsAtHome
<1>7. complete => phase = "returning" /\ CommandsAtHome'
  BY <1>6 DEF ReturnCompletes
<1>8. state' = IF complete THEN "idle" ELSE phase
  BY <1>2 DEF TickIn
<1>9. returnComplete' = (complete \/ (returnComplete /\ phase = state))
  BY <1>2 DEF TickIn
<1> HIDE DEF complete
<1>10. atHome' = ~~CommandsAtHome'
  BY <1>1, <1>6 DEF TypeOK
<1>11. /\ (~CommandsAtHome') \in BOOLEAN
       /\ ~CommandsAtHome' => phase = "teleop" \/ (phase # "idle" /\ ~CommandsAtHome)
       /\ complete => phase = "returning" /\ ~~CommandsAtHome'
  BY <1>5, <1>7
<1> QED
  BY <1>3, <1>4, <1>8, <1>9, <1>10, <1>11, Zenon DEF Authority_!Advance

\* Every step of the coordinator is a step of the session authority or none.
LEMMA AuthorityStep ==
  ASSUME ExactArithmetic, CommandInv, LimitInv, OnWay, [Next]_vars
  PROVE  [Authority_!Next]_(Authority_!authority)
<1>1. TypeOK  BY DEF CommandInv
<1>2. CASE Accepted \/ Elapse
  <2>1. UNCHANGED <<state, atHome, returnComplete, safe>>
    BY <1>2 DEF Accepted, Elapse, session
  <2> QED  BY <2>1 DEF Authority_!authority, CommandsAtHome
<1>3. CASE Faulted
  <2>1. CommandsAtHome' = CommandsAtHome /\ atHome' = atHome
    BY <1>3 DEF Faulted, EnterFault, CommandsAtHome
  <2>2. CASE state = "fault"
    BY <1>3, <2>1, <2>2 DEF Faulted, EnterFault, Authority_!authority
  <2>3. CASE state # "fault"
    <3>1. state' = "fault" /\ returnComplete' = FALSE
      BY <1>3, <2>3 DEF Faulted, EnterFault
    <3> QED  BY <2>1, <2>3, <3>1 DEF Authority_!Next, Authority_!RaiseFault
  <2> QED  BY <2>2, <2>3
<1>4. CASE Returned /\ state # "fault"
  <2>1. CommandsAtHome' = CommandsAtHome /\ atHome' = atHome
    BY <1>4 DEF Returned, BeginReturn, CommandsAtHome
  <2>2. state' = "returning" /\ returnComplete' = FALSE
    BY <1>4 DEF Returned, BeginReturn
  <2> QED  BY <1>4, <2>1, <2>2 DEF Authority_!Next, Authority_!AcceptReturn
<1>5. CASE Started
  <2>1. CommandsAtHome' = CommandsAtHome /\ CommandsAtHome
    BY <1>5 DEF Started, CommandsAtHome, CommandInv, IdleAtHome
  <2>2. /\ state = "idle" /\ state' = "teleop"
        /\ atHome' = FALSE /\ returnComplete' = FALSE
    BY <1>5 DEF Started
  <2> QED  BY <2>1, <2>2 DEF Authority_!Next, Authority_!AcceptStart
<1>6. CASE Tick
  BY <1>6, TickAdvances DEF Authority_!Next
<1> QED  BY <1>1, <1>2, <1>3, <1>4, <1>5, <1>6, StepKinds

\* The coordinator implements the session authority, for every set of sides and
\* components and every sequence of messages, accepted or not.
THEOREM AuthorityImplemented == ExactArithmetic => (Spec => ImplementsAuthority)
<1> SUFFICES ASSUME ExactArithmetic PROVE Spec => ImplementsAuthority
  OBVIOUS
<1>1. CommandInv /\ LimitInv /\ OnWay /\ [Next]_vars =>
        [Authority_!Next]_(Authority_!authority)
  BY AuthorityStep
<1>2. Init => Authority_!Init
  BY DEF Init, Authority_!Init, CommandsAtHome
<1> QED
  BY <1>1, <1>2, OnWayInvariant, PTL DEF Spec, ImplementsAuthority, Authority_!Spec

-----------------------------------------------------------------------------
(* What the command invariant means for a session.                         *)

\* A proposal held in teleop has been received since teleop began, and a side without one is
\* still at Home, where it would be commanded to.
THEOREM SessionsStartAfresh == Spec => []TeleopStartsAfresh
  BY CommandsInvariant, PTL DEF CommandInv, TeleopStartsAfresh

-----------------------------------------------------------------------------
(* Moving on current information.                                          *)

\* A tick that stays in teleop has found every component in order.
LEMMA TeleopTick ==
  ASSUME TypeOK, Tick, state' = "teleop"
  PROVE  /\ TeleopVerdict = "teleop"
         /\ \A d \in Domains : DomainReady(d)
         /\ Fresh(armState)
         /\ HandEnabled /\ teleopAge > StateTimeout => HandTrackingFresh
<1>1. PICK phase \in Phases : phase = TickPhase /\ TickIn(phase)
  BY DEF Tick
<1>2. phase = "teleop"
  BY <1>1 DEF TickIn
<1>3. TeleopVerdict = "teleop"
  BY <1>1, <1>2, TickPhases
<1>4. ~SourceOrProducerLost /\ ~ExecutorLost /\ ~HandProducerLost /\ ~HandLost
  BY <1>3 DEF TeleopVerdict
<1>5. \A d \in Domains : DomainReady(d)
  BY <1>4 DEF SourceOrProducerLost, ExecutorLost, HandProducerLost, Domains
<1>6. HandEnabled /\ teleopAge > StateTimeout => HandTrackingFresh
  <2>1. teleopAge \in Int /\ StateTimeout \in Int
    BY ConfigAssumption DEF TypeOK
  <2> QED  BY <1>4, <2>1 DEF HandLost, Transitioning
<1> QED  BY <1>3, <1>4, <1>5, <1>6 DEF ExecutorLost

\* The arm moves in teleop only on current information: nothing but a tick moves a
\* command, and a side without a fresh proposal is at Home already (TeleopSides), so
\* that what a tick does for it is no motion (_validate_proposals,
\* _check_teleop_health, _command).
THEOREM TeleopMovesOnCurrentInputs == Spec => TeleopMovesOnFreshInputs
<1>1. ASSUME CommandInv, [Next]_vars, state' = "teleop", safe' # safe
      PROVE  /\ \A s \in Sides : safe'[s] # safe[s] =>
                  Fresh(proposals[s]) /\ proposals[s].pos \in Lower[s] .. Upper[s]
             /\ \A d \in Domains : DomainReady(d)
             /\ Fresh(armState)
             /\ HandEnabled /\ teleopAge > StateTimeout => HandTrackingFresh
  <2>1. TypeOK  BY <1>1 DEF CommandInv
  <2>2. Tick
    BY <1>1, <2>1, StepKinds DEF Accepted, Faulted, Returned, Started, Elapse
  <2>3. ASSUME NEW s \in Sides, safe'[s] # safe[s]
        PROVE  Fresh(proposals[s]) /\ proposals[s].pos \in Lower[s] .. Upper[s]
    BY <1>1, <2>2, <2>3, TeleopSides
  <2> QED  BY <1>1, <2>1, <2>2, <2>3, TeleopTick
<1> QED  BY <1>1, CommandsInvariant, PTL DEF Spec, TeleopMovesOnFreshInputs
=============================================================================
