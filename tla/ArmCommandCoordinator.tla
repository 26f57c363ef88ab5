------------------------ MODULE ArmCommandCoordinator ------------------------
(***************************************************************************)
(* The arm command coordinator (coordination/arm_command_coordinator.py):  *)
(* the one authority for the session phase and for the final command of    *)
(* both arms.  Every callback and every control tick runs under the same   *)
(* re-entrant lock, so each is one action here.                            *)
(*                                                                         *)
(* Time.  The code stamps what it receives with a monotonic clock and      *)
(* compares now - received_ns with a timeout.  The model keeps the         *)
(* difference: each stored message carries its age, and Elapse makes one   *)
(* unit of time pass for all of them.  Ages stop at StateTimeout + 1 and   *)
(* the age of a return at MaxElapsed, beyond which no comparison of the    *)
(* code changes its answer.                                                *)
(*                                                                         *)
(* Sequence numbers are only ever compared with the last one stored for    *)
(* the same publisher instance, so an incoming message says whether it is  *)
(* `newer' than that one and no number is kept.                            *)
(*                                                                         *)
(* A side has one joint.  The seven joints of an arm share the fraction of *)
(* the return and are limited and clipped one by one; one joint is the     *)
(* joint with the longest way home.                                        *)
(***************************************************************************)
EXTENDS Integers, FiniteSets

CONSTANTS
  Sides,           \* the arms a command is issued for on every tick
  ActiveSides,     \* profile["active_sides"]
  HandSides,       \* profile["hand_sides"]; {} when the hands are disabled
  Components,      \* keys (role, id) under which component statuses are kept
  Domain,          \* domain name -> the components that may play it
  HandDomains,     \* one domain per hand side for the hand producers
  Instances,       \* publisher instance ids
  Authority,       \* component -> instances the launcher authorised for it
  HandAuthority,   \* hand side -> authorised executor instances
  Home, Lower, Upper,      \* per side, in units of joint angle
  MaxStep,                 \* maximum_command_step_rad
  MinDuration, MaxSpeed,   \* home_minimum_duration_s, home_max_speed_rad_s
  StateTimeout,            \* state_timeout_s
  HandReturnTimeout,       \* hand_return_timeout_s
  MaxElapsed,              \* bound on the recorded age of a return
  Positions,       \* per side, the joint positions a proposal may carry
  Precision,       \* largest magnitude below which every integer is a command
  None             \* the absence of a message

Abs(n) == IF n < 0 THEN -n ELSE n

Domains == {"source", "producer_arm", "executor_arm"} \cup HandDomains

ASSUME SidesAssumption ==
  /\ ActiveSides \subseteq Sides
  /\ Home \in [Sides -> Int]
  /\ Lower \in [Sides -> Int]
  /\ Upper \in [Sides -> Int]
  /\ Positions \in [Sides -> SUBSET Int]
  /\ \A s \in Sides : Home[s] \in Lower[s] .. Upper[s]

\* The longest way home ends before MaxElapsed.
ASSUME BoundAssumption ==
  \A s \in Sides : \A p \in Lower[s] .. Upper[s] : Abs(p - Home[s]) <= MaxElapsed * MaxSpeed

ASSUME IdentityAssumption ==
  /\ Domain \in [Domains -> SUBSET Components]
  /\ Authority \in [Components -> SUBSET Instances]
  /\ HandAuthority \in [HandSides -> SUBSET Instances]
  /\ (HandSides = {}) <=> (HandDomains = {})

\* _coordinator_config accepts only finite, positive values.  A timeout of 0
\* units is one shorter than the unit the model lets pass at a time.
ASSUME ConfigAssumption ==
  /\ MaxStep \in Nat \ {0}
  /\ MinDuration \in Nat \ {0}
  /\ MaxSpeed \in Nat \ {0}
  /\ StateTimeout \in Nat
  /\ HandReturnTimeout \in Nat
  /\ MaxElapsed \in Nat
  /\ HandReturnTimeout < MaxElapsed
  /\ MinDuration <= MaxElapsed

\* Home angles are numbers of the command's format.
ASSUME PrecisionAssumption ==
  /\ Precision \in Nat
  /\ \A s \in Sides : Abs(Home[s]) <= Precision

VARIABLES
  state,           \* SessionState.state
  atHome,          \* value of the at_home latch
  returnComplete,  \* value of the return_complete latch
  teleopAge,       \* now - _teleop_started_ns, read only in teleop
  returnStart,     \* _return_start_command, read only in returning and fault
  returnElapsed,   \* now - _return_started_ns, read only there too
  safe,            \* _safe_command: the last command issued, per side
  statuses,        \* _statuses and _role_instances
  armState,        \* _arm_state and its baseline
  proposals,       \* _proposals
  handStatus,      \* _hand_status and its baseline
  handState        \* _hand_state and its baseline

session == <<state, atHome, returnComplete, teleopAge, returnStart, returnElapsed>>
inputs == <<statuses, armState, proposals, handStatus, handState>>
vars == <<session, safe, inputs>>

Ages == 0 .. StateTimeout + 1
Phases == {"idle", "teleop", "returning", "fault"}

\* A ComponentStatus: ok is ready, healthy and offering the capability.
StatusMsg == [inst : Instances, ok : BOOLEAN, age : Ages]
\* An ArmJointState: home is "every joint within home_tolerance_rad of Home".
ArmMsg == [inst : Instances, home : BOOLEAN, age : Ages]
ProposalMsg == [inst : Instances, pos : UNION {Positions[s] : s \in Sides}, age : Ages]
\* A HandExecutorStatus: ok is ready and healthy.
HandStatusMsg ==
  [inst : Instances, ok : BOOLEAN, zero : BOOLEAN, tracking : BOOLEAN, age : Ages]
\* A HandJointState: zero is "every joint within zero_tolerance_rad of 0".
HandStateMsg == [inst : Instances, zero : BOOLEAN, age : Ages]

ASSUME NoneAssumption == None \notin ProposalMsg

-----------------------------------------------------------------------------
(* Floating point.  Commands are binary floating-point numbers: with an    *)
(* angle counted in units of the last place of numbers below Precision,    *)
(* numbers up to twice that are multiples of 2 and beyond it of 4, and a   *)
(* result is rounded to the nearest one, ties to even.  A Precision above  *)
(* every angle in use makes the arithmetic exact.                          *)

Ulp(n) == IF Abs(n) <= Precision THEN 1 ELSE IF Abs(n) <= 2 * Precision THEN 2 ELSE 4

Fl == [n \in Int |->
  LET low == n \div Ulp(n)
      rest == 2 * (n - low * Ulp(n))
      up == rest > Ulp(n) \/ (rest = Ulp(n) /\ low % 2 = 1)
  IN (IF up THEN low + 1 ELSE low) * Ulp(n)]

-----------------------------------------------------------------------------
(* Readiness.                                                              *)

Fresh(m) == m # None /\ m.age <= StateTimeout

DomainReady(d) ==
  LET matches == {c \in Domain[d] : Fresh(statuses[c])}
  IN \E c \in matches : matches = {c} /\ statuses[c].ok

ArmAtHome == Fresh(armState) /\ armState.home

HandEnabled == HandSides # {}

HandFresh(h) == Fresh(handStatus[h]) /\ Fresh(handState[h])

HandAtZeroReady ==
  \A h \in HandSides :
    /\ HandFresh(h)
    /\ handStatus[h].ok /\ handStatus[h].zero /\ ~handStatus[h].tracking
    /\ handState[h].zero

HandTrackingFresh ==
  \A h \in HandSides :
    /\ HandFresh(h)
    /\ handStatus[h].inst = handState[h].inst
    /\ handStatus[h].ok
    /\ handStatus[h].tracking \/ (handStatus[h].zero /\ handState[h].zero)

ReturnReady == ArmAtHome /\ (HandEnabled => HandAtZeroReady)

CommandsAtHome == \A s \in Sides : safe[s] = Home[s]

StartReady ==
  /\ \A d \in Domains : DomainReady(d)
  /\ HandEnabled => HandAtZeroReady
  /\ ArmAtHome
  /\ CommandsAtHome

-----------------------------------------------------------------------------
(* Session transitions shared by the handlers.                             *)

\* A definition marked [mutant] is not part of the model: it is the next
\* definition with a plausible mistake in it, which the checked properties
\* are expected to notice.

\* [mutant] the latch of an earlier return survives the next one
BeginReturn_KeepsLatch ==
  /\ state' = "returning"
  /\ teleopAge' = 0
  /\ returnStart' = safe
  /\ returnElapsed' = 0
  /\ UNCHANGED <<atHome, returnComplete>>

\* [mutant] a repeated return restarts the clock but not from where the arm is
BeginReturn_KeepsStart ==
  /\ state' = "returning"
  /\ returnComplete' = FALSE
  /\ teleopAge' = 0
  /\ returnStart' = IF state = "returning" THEN returnStart ELSE safe
  /\ returnElapsed' = 0
  /\ UNCHANGED atHome

\* _enter_returning and the "return" and "shutdown" intents.
BeginReturn ==
  /\ state' = "returning"
  /\ returnComplete' = FALSE
  /\ teleopAge' = 0
  /\ returnStart' = safe
  /\ returnElapsed' = 0
  /\ UNCHANGED atHome

\* A fault is latched: entering it again only replaces its reason.
EnterFault ==
  /\ state' = "fault"
  /\ teleopAge' = 0
  /\ IF state = "fault"
     THEN UNCHANGED <<returnComplete, returnStart, returnElapsed>>
     ELSE returnComplete' = FALSE /\ returnStart' = safe /\ returnElapsed' = 0
  /\ UNCHANGED atHome

-----------------------------------------------------------------------------
(* Input callbacks.                                                        *)

\* A message of an authorised instance is accepted if it continues its own
\* stream; another instance may take the stream over outside teleop only.
Continues(previous, inst, newer) ==
  \/ previous = None
  \/ previous # None /\ previous.inst = inst /\ newer
  \/ previous # None /\ previous.inst # inst /\ state # "teleop"

UpdateComponent(c, i, ok, newer) ==
  IF i \in Authority[c] /\ Continues(statuses[c], i, newer)
  THEN /\ statuses' = [statuses EXCEPT ![c] = [inst |-> i, ok |-> ok, age |-> 0]]
       /\ UNCHANGED <<session, safe, armState, proposals, handStatus, handState>>
  ELSE EnterFault /\ UNCHANGED <<safe, inputs>>

UpdateArmState(i, home, newer) ==
  IF /\ \E c \in Domain["executor_arm"] : i \in Authority[c]
     /\ Continues(armState, i, newer)
  THEN /\ armState' = [inst |-> i, home |-> home, age |-> 0]
       /\ UNCHANGED <<session, safe, statuses, proposals, handStatus, handState>>
  ELSE EnterFault /\ UNCHANGED <<safe, inputs>>

UpdateHandExecutorStatus(h, i, ok, zero, tracking, newer) ==
  IF i \in HandAuthority[h] /\ Continues(handStatus[h], i, newer)
  THEN /\ handStatus' = [handStatus EXCEPT ![h] =
            [inst |-> i, ok |-> ok, zero |-> zero, tracking |-> tracking, age |-> 0]]
       /\ UNCHANGED <<session, safe, statuses, armState, proposals, handState>>
  ELSE EnterFault /\ UNCHANGED <<safe, inputs>>

\* Besides its own stream, a hand state must agree with the executor status.
UpdateHandState(h, i, zero, newer) ==
  IF /\ i \in HandAuthority[h]
     /\ handStatus[h] = None \/ handStatus[h].inst = i
     /\ Continues(handState[h], i, newer)
  THEN /\ handState' = [handState EXCEPT ![h] = [inst |-> i, zero |-> zero, age |-> 0]]
       /\ UNCHANGED <<session, safe, statuses, armState, proposals, handStatus>>
  ELSE EnterFault /\ UNCHANGED <<safe, inputs>>

\* A proposal needs a known status of its producer, of the same instance, and
\* a timestamp neither in the future nor older than state_timeout_s (timely).
\* It is stored in every session phase.
UpdateProposal(s, c, i, p, timely, newer) ==
  IF /\ statuses[c] # None /\ statuses[c].inst = i
     /\ timely
     /\ Continues(proposals[s], i, newer)
  THEN /\ proposals' = [proposals EXCEPT ![s] = [inst |-> i, pos |-> p, age |-> 0]]
       /\ UNCHANGED <<session, safe, statuses, armState, handStatus, handState>>
  ELSE EnterFault /\ UNCHANGED <<safe, inputs>>

\* A payload that does not decode, carries another router or is published for
\* a role the launcher did not authorise, on any subscribed topic.
RejectPayload == EnterFault /\ UNCHANGED <<safe, inputs>>

-----------------------------------------------------------------------------
(* Session intents.  A refusal republishes the phase it leaves unchanged,  *)
(* as does an intent of a source that is not the authorised one.           *)

\* [mutant] proposals of an earlier session are not cleared
StartIntent_KeepsProposals ==
  IF state = "idle" /\ StartReady
  THEN /\ state' = "teleop"
       /\ teleopAge' = 0
       /\ atHome' = FALSE
       /\ returnComplete' = FALSE
       /\ UNCHANGED <<returnStart, returnElapsed, safe, inputs>>
  ELSE UNCHANGED vars

StartIntent ==
  IF state = "idle" /\ StartReady
  THEN /\ state' = "teleop"
       /\ teleopAge' = 0
       /\ atHome' = FALSE
       /\ returnComplete' = FALSE
       /\ proposals' = [s \in Sides |-> None]
       /\ UNCHANGED <<returnStart, returnElapsed, safe, statuses, armState, handStatus, handState>>
  ELSE UNCHANGED vars

\* "return" or "shutdown".
ReturnIntent ==
  IF state # "fault"
  THEN BeginReturn /\ UNCHANGED <<safe, inputs>>
  ELSE UNCHANGED vars

-----------------------------------------------------------------------------
(* The control tick.                                                       *)

\* [mutant] the hard limits are not checked
ProposalRejected_StepOnly ==
  \E s \in ActiveSides :
    Fresh(proposals[s]) /\ Abs(proposals[s].pos - safe[s]) > 2 * MaxStep

\* _validate_proposals: a position outside the hard limits, or more than two
\* steps away from the last command.
ProposalRejected ==
  \E s \in ActiveSides :
    /\ Fresh(proposals[s])
    /\ \/ proposals[s].pos \notin Lower[s] .. Upper[s]
       \/ Abs(proposals[s].pos - safe[s]) > 2 * MaxStep

\* [mutant] the grace period of a start never ends
Transitioning_Always == TRUE

\* Within state_timeout_s of the start.
Transitioning == teleopAge <= StateTimeout

SourceOrProducerLost == ~DomainReady("source") \/ ~DomainReady("producer_arm")

\* [mutant] the arm's own state may be stale
ExecutorLost_StatusOnly == ~DomainReady("executor_arm")

ExecutorLost == ~DomainReady("executor_arm") \/ ~Fresh(armState)

HandProducerLost == \E d \in HandDomains : ~DomainReady(d)

HandLost == HandEnabled /\ ~HandTrackingFresh /\ ~Transitioning

ProposalLost ==
  ~Transitioning /\ \E s \in ActiveSides : proposals[s] # None /\ ~Fresh(proposals[s])

\* _validate_proposals, then _check_teleop_health in the order of its tests.
TeleopVerdict ==
  IF ProposalRejected THEN "fault"
  ELSE IF SourceOrProducerLost THEN "returning"
  ELSE IF ExecutorLost THEN "fault"
  ELSE IF HandProducerLost THEN "returning"
  ELSE IF HandLost THEN "fault"
  ELSE IF ProposalLost THEN "returning"
  ELSE "teleop"

\* [mutant] a hand that still tracks is taken for one that is returning
HandReturnOverdue_TrackingCounts ==
  HandEnabled /\ returnElapsed > HandReturnTimeout /\ ~HandTrackingFresh

HandReturnOverdue ==
  HandEnabled /\ returnElapsed > HandReturnTimeout /\ ~HandAtZeroReady

\* The phase the commands of this tick are computed in.
TickPhase ==
  IF state = "teleop" THEN TeleopVerdict
  ELSE IF state = "returning" /\ HandReturnOverdue THEN "fault"
  ELSE state

\* [mutant] the step is validated but not clipped
Clip_Not(n) == n

Clip(n) == IF n > MaxStep THEN MaxStep ELSE IF n < -MaxStep THEN -MaxStep ELSE n

\* [mutant] the speed limit does not lengthen the return
Interpolate_FixedDuration(x, y, elapsed) ==
  LET full == MinDuration * MaxSpeed
      done == elapsed * MaxSpeed
  IN IF done >= full THEN Fl[x + Fl[y - x]]
     ELSE Fl[x + Fl[((y - x) * done) \div full]]

\* x + fraction * (y - x) with fraction = min(1, elapsed / duration) and
\* duration = max(MinDuration, |x - y| / MaxSpeed).
Interpolate(x, y, elapsed) ==
  LET way == Abs(x - y)
      full == IF MinDuration * MaxSpeed > way THEN MinDuration * MaxSpeed ELSE way
      done == elapsed * MaxSpeed
  IN IF done >= full THEN Fl[x + Fl[y - x]]
     ELSE Fl[x + Fl[((y - x) * done) \div full]]

CommandFor(s, phase, start, elapsed) ==
  CASE phase = "teleop" /\ s \in ActiveSides /\ Fresh(proposals[s])
         -> Fl[safe[s] + Clip(proposals[s].pos - safe[s])]
    [] phase \in {"returning", "fault"} -> Interpolate(start[s], Home[s], elapsed)
    [] OTHER -> Home[s]

\* home: both commands of this tick are exactly at Home.
ReturnCompletes(phase, home) == phase = "returning" /\ ReturnReady /\ home

\* Both commands, the phase and the latches of one tick.  The two fields of a
\* finished return stay in the code; nothing reads them before the next return
\* overwrites them.
TickIn(phase) ==
  LET entered == phase # state
      start == IF entered THEN safe ELSE returnStart
      elapsed == IF entered THEN 0 ELSE returnElapsed
      complete == ReturnCompletes(phase, atHome')
  IN /\ safe' = [s \in Sides |-> CommandFor(s, phase, start, elapsed)]
     /\ atHome' = (\A s \in Sides : safe'[s] = Home[s])
     /\ state' = IF complete THEN "idle" ELSE phase
     /\ returnComplete' = (complete \/ (returnComplete /\ ~entered))
     /\ teleopAge' = IF entered THEN 0 ELSE teleopAge
     /\ returnStart' = IF complete THEN Home ELSE start
     /\ returnElapsed' = IF complete THEN 0 ELSE elapsed
     /\ UNCHANGED inputs

Tick == \E phase \in Phases : phase = TickPhase /\ TickIn(phase)

-----------------------------------------------------------------------------
(* The clock.                                                              *)

Older(m) == IF m = None THEN m ELSE [m EXCEPT !.age = IF @ > StateTimeout THEN @ ELSE @ + 1]

Elapse ==
  /\ teleopAge' = IF state # "teleop" \/ teleopAge > StateTimeout THEN teleopAge ELSE teleopAge + 1
  /\ returnElapsed' = IF state \notin {"returning", "fault"} \/ returnElapsed = MaxElapsed
                      THEN returnElapsed ELSE returnElapsed + 1
  /\ statuses' = [c \in Components |-> Older(statuses[c])]
  /\ armState' = Older(armState)
  /\ proposals' = [s \in Sides |-> Older(proposals[s])]
  /\ handStatus' = [h \in HandSides |-> Older(handStatus[h])]
  /\ handState' = [h \in HandSides |-> Older(handState[h])]
  /\ UNCHANGED <<state, atHome, returnComplete, returnStart, safe>>

-----------------------------------------------------------------------------
Init ==
  /\ state = "idle"
  /\ atHome = TRUE
  /\ returnComplete = FALSE
  /\ teleopAge = 0
  /\ returnStart = Home
  /\ returnElapsed = 0
  /\ safe = Home
  /\ statuses = [c \in Components |-> None]
  /\ armState = None
  /\ proposals = [s \in Sides |-> None]
  /\ handStatus = [h \in HandSides |-> None]
  /\ handState = [h \in HandSides |-> None]

Receive ==
  \/ \E c \in Components, i \in Instances, ok, newer \in BOOLEAN : UpdateComponent(c, i, ok, newer)
  \/ \E i \in Instances, home, newer \in BOOLEAN : UpdateArmState(i, home, newer)
  \/ \E h \in HandSides, i \in Instances, ok, zero, tracking, newer \in BOOLEAN :
       UpdateHandExecutorStatus(h, i, ok, zero, tracking, newer)
  \/ \E h \in HandSides, i \in Instances, zero, newer \in BOOLEAN : UpdateHandState(h, i, zero, newer)
  \/ \E s \in Sides : \E c \in Domain["producer_arm"], i \in Instances, p \in Positions[s],
        timely, newer \in BOOLEAN : UpdateProposal(s, c, i, p, timely, newer)
  \/ RejectPayload

Next ==
  \/ Receive
  \/ StartIntent
  \/ ReturnIntent
  \/ Tick
  \/ Elapse

Spec == Init /\ [][Next]_vars

\* start() ticks at rate_hz for as long as the process lives, and time passes.
FairSpec == Spec /\ WF_vars(Tick) /\ WF_vars(Elapse)
=============================================================================
