---------------------- MODULE ArmCoordinatorProperties ----------------------
(***************************************************************************)
(* What the arm command coordinator promises.                              *)
(***************************************************************************)
EXTENDS ArmCommandCoordinator

\* Type correctness: every variable of ArmCommandCoordinator has its type.
TypeOK ==
  /\ state \in Phases
  /\ atHome \in BOOLEAN
  /\ returnComplete \in BOOLEAN
  /\ teleopAge \in Ages
  /\ returnStart \in [Sides -> Int]
  /\ returnElapsed \in 0 .. MaxElapsed
  /\ safe \in [Sides -> Int]
  /\ statuses \in [Components -> StatusMsg \cup {None}]
  /\ armState \in ArmMsg \cup {None}
  /\ proposals \in [Sides -> ProposalMsg \cup {None}]
  /\ handStatus \in [HandSides -> HandStatusMsg \cup {None}]
  /\ handState \in [HandSides -> HandStateMsg \cup {None}]

-----------------------------------------------------------------------------
(* Where the final commands may be.                                        *)

\* A side the session does not use is commanded to Home in every phase, through
\* returns and faults too (_command, docs/ARCHITECTURE.md: inactive side at Home).
InactiveSideAtHome == \A s \in Sides \ ActiveSides : safe[s] = Home[s]

\* The final commands never leave the hard joint limits: not while clipping a
\* proposal towards its position, nor on the way home from any point of it
\* (_validate_proposals checks proposals, never the command itself).
SafeWithinLimits == \A s \in Sides : safe[s] \in Lower[s] .. Upper[s]

\* The session is idle only with both final commands exactly at Home, which is
\* what lets a start be accepted again (tick, _start_ready).
IdleAtHome == state = "idle" => CommandsAtHome

\* The latches never promise more than the commands show: at_home means the
\* commands are at Home, return_complete that the return is over and at rest.
LatchesTruthful ==
  /\ atHome => CommandsAtHome
  /\ returnComplete => state = "idle" /\ CommandsAtHome

\* In teleop the coordinator only holds proposals received after the start that
\* opened it: nothing an earlier session left behind can move the arm.
ProposalsSinceStart ==
  state = "teleop" =>
    \A s \in Sides : proposals[s] # None => proposals[s].age <= teleopAge

\* An active side that has no proposal yet is still at Home, so that the Home
\* command it falls back to (_command) is not a jump.
SilentSideAtHome ==
  state = "teleop" => \A s \in Sides : proposals[s] = None => safe[s] = Home[s]

\* So a session has nothing but its own proposals to move on: a side that has one
\* received it in this teleop, and a side that has none is where it falls back to.
TeleopStartsAfresh == ProposalsSinceStart /\ SilentSideAtHome

\* A return or a fault never moves faster than home_max_speed_rad_s, counted
\* from the command it started from, however often it is restarted.
ReturnSpeedBounded ==
  state \in {"returning", "fault"} =>
    \A s \in Sides : Abs(safe[s] - returnStart[s]) <= MaxSpeed * returnElapsed

\* A return starts from a command, hence at Home for an inactive side.
InactiveStartAtHome == \A s \in Sides \ ActiveSides : returnStart[s] = Home[s]

\* The inductive invariant: the invariants above whose truth does not depend on
\* the rounding of angles, which are inductive only together.
CommandInv ==
  /\ TypeOK
  /\ InactiveSideAtHome
  /\ InactiveStartAtHome
  /\ IdleAtHome
  /\ LatchesTruthful
  /\ ProposalsSinceStart
  /\ SilentSideAtHome

-----------------------------------------------------------------------------
(* What a step may never do.                                               *)

\* While the session stays in or enters teleop, the final command of a side
\* moves by at most maximum_command_step_rad, whatever proposals arrive, stop
\* arriving, or are replaced (_validate_proposals, _command).
TeleopStepBounded ==
  [][state' = "teleop" => \A s \in Sides : Abs(safe'[s] - safe[s]) <= MaxStep]_vars

\* Outside teleop the command only ever gets closer to Home, also across the
\* tick that leaves teleop, a fault, and a repeated return request.
ReturnApproachesHome ==
  [][state' # "teleop" =>
       \A s \in Sides : Abs(safe'[s] - Home[s]) <= Abs(safe[s] - Home[s])]_vars

\* A fault is final: no intent, message or tick leaves it (handle_intent, and
\* README.md: a fault cannot be cleared by a return).
FaultIsFinal == [][state = "fault" => state' = "fault"]_vars

\* The arm moves in teleop only on current information: a fresh proposal within
\* the hard limits for the side that moves, source, producer and executor fresh
\* and healthy, the arm's own state fresh, and, once the start's grace period is
\* over, every hand reporting (_validate_proposals, _check_teleop_health).
TeleopMovesOnFreshInputs ==
  [][state' = "teleop" /\ safe' # safe =>
       /\ \A s \in Sides : safe'[s] # safe[s] =>
            Fresh(proposals[s]) /\ proposals[s].pos \in Lower[s] .. Upper[s]
       /\ \A d \in Domains : DomainReady(d)
       /\ Fresh(armState)
       /\ HandEnabled /\ teleopAge > StateTimeout => HandTrackingFresh]_vars

-----------------------------------------------------------------------------
(* What must eventually happen.                                            *)

\* Teleop does not outlive the components it depends on: while some domain is
\* unready or the arm state stale, not necessarily the same one throughout, the
\* session does not stay in teleop.
TeleopEndsWithoutInputs ==
  []<>~(state = "teleop" /\ ((\E d \in Domains : ~DomainReady(d)) \/ ~Fresh(armState)))

\* A return ends: once its time is over and arm and hands keep reporting that
\* they are home, the coordinator does not stay in returning.  Where angles are
\* rounded it may: the last command need not be Home exactly.
ReturnTerminates == []<>~(state = "returning" /\ returnElapsed = MaxElapsed /\ ReturnReady)

\* A return whose hands never report zero does not stay in returning either: it
\* becomes a fault (hand_return_timeout_s).
HandReturnTerminates ==
  []<>~(state = "returning" /\ returnElapsed = MaxElapsed /\ HandEnabled /\ ~HandAtZeroReady)
-----------------------------------------------------------------------------
(* What the rest of the system relies on.                                  *)

\* The coordinator implements the session authority: whatever it receives, the
\* phase and the latches change only in the ways a source waits for, and a
\* session is idle or complete only with the commands at rest.
Authority_ == INSTANCE SessionAuthority WITH away <- ~CommandsAtHome
ImplementsAuthority == Authority_!Spec
=============================================================================
