---------------------------- MODULE ReplaySource ----------------------------
(***************************************************************************)
(* The H5 replay source (sources/mocap/h5_replay_node.py): a recorded right *)
(* wrist approaches its first frame and is then played while the operator  *)
(* holds Enter.  Keys, messages and the tick share the node's lock, so      *)
(* each is one action.                                                      *)
(*                                                                         *)
(* The recorded path is a line: Home is 0, the pose at recorded time e is   *)
(* FrameZero + e, and the conditioner moves the target one unit a mapped    *)
(* tick.  Of the session client there is what it knows of its last request. *)
(* What the coordinator really says, and when, is in SessionHandshake; here *)
(* a message may say anything at any time, which is more than it does, and  *)
(* nothing this source promises its operator depends on it.                 *)
(***************************************************************************)
EXTENDS Integers

CONSTANTS
  FrameZero,     \* distance from Home to the first frame
  Duration,      \* of the recording, in ticks
  StableTicks,   \* _required_stable_ticks
  NoPose         \* None

PathAssumption ==
  FrameZero \in Nat/\ Duration \in Nat /\ StableTicks \in Nat \ {0} /\ NoPose \notin Int

VARIABLES
  \* The operator and the surroundings.
  real,        \* _real_mode
  enter,       \* Enter is down
  broken,      \* the deadman cannot be read, or the real capability is lost
  \* The session client.
  atHome,      \* the latch known last
  request,     \* the pending action, "none" once dropped
  answer,      \* the state known last when it carries the number of the pending
               \* intent, "none" when it does not
  latched,     \* latches that are true and newer than the baseline of the request
  \* The node.
  phase, error,
  home,        \* _at_home
  exiting,     \* _exit_after_return
  clock,       \* _replay_clock: its elapsed_s and whether it runs
  mapped,      \* _last_mapped_elapsed_s
  target,      \* _cached_targets
  stable,      \* _approach_stable_ticks, in replaying _final_stable_ticks
  solved       \* _solved_pose, and whether it is fresh and for the last target

operator == <<real, enter, broken>>
path == <<clock, mapped, target, stable>>
sourceVars == <<operator, atHome, request, answer, latched,
                phase, error, home, exiting, path, solved>>

Stopped == [elapsed |-> 0, runs |-> FALSE]
Moving == {"approaching", "ready", "replaying"}

ReplayInit ==
  /\ real \in BOOLEAN
  /\ enter = FALSE
  /\ broken = FALSE
  /\ atHome \in BOOLEAN
  /\ request = "none" /\ answer = "none" /\ latched = {}
  /\ phase = "armed" /\ error = FALSE
  /\ home = FALSE /\ exiting = FALSE
  /\ clock = Stopped /\ mapped = -1 /\ target = NoPose /\ stable = 0
  /\ solved = [at |-> NoPose, answers |-> FALSE]

Pose(elapsed) == FrameZero + elapsed

\* _read_deadman: what cannot be read is not pressed.
Pressed == enter /\ ~broken

-----------------------------------------------------------------------------
(* The session client.                                                     *)

StartAuthorized == request = "start" /\ answer = "teleop"

ReturnAuthorized == request = "return" /\ answer \in {"returning", "idle"}

\* A latch counts when its sequence is above the one known at the request.
ReturnCompletionFresh == ReturnAuthorized /\ latched = {"at_home", "return_complete"}

Publish(action) == request' = action /\ answer' = "none" /\ latched' = {}

\* A request that was not answered in time is dropped.
PollDrops == request # "none" /\ ~StartAuthorized /\ ~ReturnAuthorized

Poll ==
  /\ \/ UNCHANGED <<request, answer>>
     \/ PollDrops /\ request' = "none" /\ answer' = "none"
  /\ UNCHANGED latched

Untouched == UNCHANGED <<operator, phase, error, home, exiting, path, solved>>

\* Another answer to a start than teleop, now or later, drops the start.
HearState(says, own) ==
  /\ request # "none"
  /\ IF own /\ request = "start" /\ says # "teleop"
     THEN request' = "none" /\ answer' = "none"
     ELSE answer' = (IF own THEN says ELSE "none") /\ UNCHANGED request
  /\ UNCHANGED <<atHome, latched>>
  /\ Untouched

HearLatch(key, value) ==
  /\ atHome' = IF key = "at_home" THEN value ELSE atHome
  /\ latched' = IF value /\ request # "none" THEN latched \cup {key} ELSE latched \ {key}
  /\ UNCHANGED <<request, answer>>
  /\ Untouched

Hear ==
  \/ \E says \in {"idle", "teleop", "returning", "fault"}, own \in BOOLEAN : HearState(says, own)
  \/ \E key \in {"at_home", "return_complete"}, value \in BOOLEAN : HearLatch(key, value)

-----------------------------------------------------------------------------
(* Keys.                                                                   *)

BeginReturn(exit) ==
  /\ Publish("return")
  /\ phase' = "returning"
  /\ exiting' = exit
  /\ clock' = Stopped

\* s in armed: refused away from Home, with Enter down or without a tracked
\* rigid body.  The references are taken before the client is asked whether it
\* may start at all.
StartApproach ==
  /\ phase = "armed"
  /\ home
  /\ ~Pressed
  /\ target' = NoPose /\ stable' = 0 /\ clock' = Stopped /\ mapped' = -1
  /\ exiting' = FALSE
  /\ error' = FALSE
  /\ \/ Publish("start") /\ phase' = "start_pending"
     \/ UNCHANGED <<request, answer, latched, phase>>
  /\ UNCHANGED <<operator, atHome, home, solved>>

\* s while a session is on.
CancelKey ==
  /\ phase \in Moving
  /\ BeginReturn(FALSE)
  /\ UNCHANGED <<operator, atHome, error, home, mapped, target, stable, solved>>

ReplayKey ==
  /\ phase = "ready"
  /\ ~Pressed
  /\ phase' = "replaying"
  /\ clock' = Stopped /\ mapped' = 0 /\ stable' = 0
  /\ UNCHANGED <<operator, atHome, request, answer, latched, error, home,
                 exiting, target, solved>>

\* q: at once when armed at Home, after the return in progress, or after one of
\* its own.
QuitKey ==
  /\ phase # "closed"
  /\ CASE phase = "armed" /\ home ->
            phase' = "closed" /\ UNCHANGED <<request, answer, latched, exiting, clock>>
       [] phase = "returning" ->
            exiting' = TRUE /\ UNCHANGED <<request, answer, latched, phase, clock>>
       [] OTHER -> BeginReturn(TRUE)
  /\ UNCHANGED <<operator, atHome, error, home, mapped, target, stable, solved>>

-----------------------------------------------------------------------------
(* Messages.                                                               *)

\* The producer's solution of the last target published, or something beside
\* it.
SolvedPose ==
  /\ target # NoPose
  /\ \E at \in {target, NoPose} : solved' = [at |-> at, answers |-> TRUE]
  /\ UNCHANGED <<operator, atHome, request, answer, latched, phase, error,
                 home, exiting, path>>

\* A Motive frame that does not parse.
BadFrame ==
  /\ phase # "closed"
  /\ error' = TRUE
  /\ UNCHANGED <<operator, atHome, request, answer, latched, phase, home,
                 exiting, path, solved>>

-----------------------------------------------------------------------------
(* The tick.                                                               *)

Toward(from, to) == IF to > from THEN from + 1 ELSE IF to < from THEN from - 1 ELSE from

\* _map_right_pose: the conditioner, at Home since the session began, goes on
\* towards a pose.
Mapped(pose) == Toward(IF target = NoPose THEN 0 ELSE target, pose)

\* [mutant] a solved pose counts whichever target it answers
Reached_AnyTarget(pose) == target = pose /\ solved.at = pose

\* _target_is_stable: nothing of the way to the pose remained, and the solution
\* of the target published last is there.
Reached(pose) == target = pose /\ solved.answers /\ solved.at = pose

\* _publish_cached_targets: a solution received before is not one of this
\* target any more.
PublishTargets == solved' = [solved EXCEPT !.answers = FALSE]

\* [mutant] the clock runs on when Enter is released
Update_RunsOn(c, pressed) ==
  [elapsed |-> c.elapsed + (IF c.runs THEN 1 ELSE 0), runs |-> c.runs \/ pressed]

\* HoldToRunClock.update: the interval that ends now counts when Enter was down
\* at its beginning, and for no more than a tick.
Update(c, pressed) == [elapsed |-> c.elapsed + (IF c.runs THEN 1 ELSE 0), runs |-> pressed]

ArmedTick ==
  /\ phase = "armed"
  /\ Poll
  /\ home' = atHome
  /\ UNCHANGED <<operator, atHome, phase, error, exiting, path, solved>>

CompleteReturn ==
  /\ home' = TRUE
  /\ target' = NoPose /\ stable' = 0 /\ clock' = Stopped /\ mapped' = -1
  /\ phase' = IF exiting THEN "closed" ELSE "armed"
  /\ UNCHANGED error

\* After five seconds the return has failed.
ReturnOverdue ==
  /\ phase' = "fault"
  /\ error' = TRUE
  /\ UNCHANGED <<home, path>>

ReturningTick ==
  /\ phase = "returning"
  /\ Poll
  /\ IF ReturnCompletionFresh
     THEN CompleteReturn
     ELSE \/ ReturnOverdue
          \/ UNCHANGED <<phase, error, home, path>>
  /\ UNCHANGED <<operator, atHome, exiting, solved>>

\* In real mode without its capability, or without a readable deadman.
RealLost ==
  /\ real /\ broken
  /\ phase \in Moving \cup {"start_pending"}
  /\ BeginReturn(FALSE)
  /\ error' = TRUE
  /\ UNCHANGED <<operator, atHome, home, mapped, target, stable, solved>>

StartPendingTick ==
  /\ phase = "start_pending" /\ ~(real /\ broken)
  /\ Poll
  /\ phase' = CASE StartAuthorized -> "approaching"
                [] ~StartAuthorized /\ request' = "none" -> "armed"
                [] OTHER -> phase
  /\ UNCHANGED <<operator, atHome, error, home, exiting, path, solved>>

ApproachTick ==
  /\ phase = "approaching" /\ ~(real /\ broken)
  /\ Poll
  /\ IF Pressed
     THEN /\ target' = Mapped(Pose(0))
          /\ stable' = IF Reached(Pose(0)) THEN stable + 1 ELSE 0
          /\ phase' = IF stable' >= StableTicks THEN "ready" ELSE phase
     ELSE UNCHANGED <<target, stable, phase>>
  /\ PublishTargets
  /\ UNCHANGED <<operator, atHome, error, home, exiting, clock, mapped>>

ReadyTick ==
  /\ phase = "ready" /\ ~(real /\ broken)
  /\ Poll
  /\ PublishTargets
  /\ UNCHANGED <<operator, atHome, phase, error, home, exiting, path>>

\* The recorded time of this tick, past the end that of the end.
SourceElapsed == LET e == Update(clock, Pressed).elapsed
                 IN IF e > Duration THEN Duration ELSE e

\* The end is reached and held: the session is over.
FinalReached ==
  /\ SourceElapsed = Duration
  /\ Pressed
  /\ Reached(Pose(Duration))
  /\ stable + 1 >= StableTicks

ReplayTick ==
  /\ phase = "replaying" /\ ~(real /\ broken)
  /\ IF Pressed \/ SourceElapsed > mapped
     THEN /\ target' = Mapped(Pose(SourceElapsed))
          /\ mapped' = SourceElapsed
          /\ stable' = IF SourceElapsed = Duration /\ Pressed /\ Reached(Pose(Duration))
                       THEN stable + 1 ELSE 0
     ELSE /\ UNCHANGED <<target, mapped>>
          /\ stable' = 0
  /\ IF FinalReached
     THEN BeginReturn(FALSE)
     ELSE /\ clock' = [Update(clock, Pressed) EXCEPT !.elapsed = SourceElapsed]
          /\ Poll
          /\ UNCHANGED <<phase, exiting>>
  /\ PublishTargets
  /\ UNCHANGED <<operator, atHome, error, home>>

FaultTick ==
  /\ phase = "fault"
  /\ Poll
  /\ UNCHANGED <<operator, atHome, phase, error, home, exiting, path, solved>>

NodeTick == ArmedTick \/ ReturningTick \/ RealLost \/ StartPendingTick \/ ApproachTick
              \/ ReadyTick \/ ReplayTick \/ FaultTick

Keyboard == StartApproach \/ CancelKey \/ ReplayKey \/ QuitKey

-----------------------------------------------------------------------------
(* The operator's hand and what may break.                                 *)

Hand ==
  /\ enter' = ~enter
  /\ UNCHANGED <<real, broken, atHome, request, answer, latched, phase,
                 error, home, exiting, path, solved>>

Break ==
  /\ ~broken
  /\ broken' = TRUE
  /\ UNCHANGED <<real, enter, atHome, request, answer, latched, phase,
                 error, home, exiting, path, solved>>

ReplayNext == Keyboard \/ SolvedPose \/ BadFrame \/ NodeTick \/ Hand \/ Break \/ Hear
=============================================================================
