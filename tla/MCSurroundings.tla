--------------------------- MODULE MCSurroundings ---------------------------
(***************************************************************************)
(* Small instances, for TLC, of what surrounds the coordinator and is      *)
(* checked for safety: the hardware safety controller, the MuJoCo          *)
(* executor, the replay source, the replay of recordings,   *)
(* the proxy of the inverse kinematics' worker, the guard of the launcher, *)
(* the validation harness and the recorder.  In a behaviour one of them is *)
(* at work, and the others stay as they begin.                             *)
(***************************************************************************)
EXTENDS HardwareSafetyProperties

CONSTANTS
  CommandTimeout,                                                                 \* MujocoExecutor
  FrameZero, Duration, StableTicks,                                               \* ReplaySource
  End, Gap, RecordingMail,                                                        \* RecordingReplay
  RestartAttempts, MaxQuestions,                                                  \* ArmIkWorker
  Sessions, Components,                                                           \* RunGuard
  Executors, Showing, MaxSent,                                                    \* RunCase
  Streams, Datasets, MaxRows                                                      \* SessionRecorder

VARIABLES
  part,   \* the one at work
  mujocoReady, healthy, mujocoLocked, mujocoPending, tick, applied, late,
  real, enter, broken, replayAtHome, replayRequest,
  replayAnswer, latched, replayPhase, error, home, exiting, replayClock, mapped, target,
  stable, solved, drift, solutions,
  recordingState, recordingAtHome, recordingReturnComplete, recordingAway, recordingRequest,
  recordingAnswered, recordingIntents, recordingPhase, recordingPending, waits, recordingAsked,
  paused, recorded, wall, cli, running,
  call, question, attempt, workerAsked, answer, requests, workerReplies, workerProcess,
  lock, dir, owner, children, living, guardAt, launched, todo, guardFailed, escaped,
  danger, stage, process, runReady, runLocked, motion, moved, sent, latest, before, window,
  runRows, acks,
  lateAcks, evidence, outcome, rc,
  recorderRows, recorderAt, subscribed, recorderFailed, closed, file, complete, main

mujoco == <<mujocoReady, healthy, mujocoLocked, mujocoPending, tick, applied, late>>
replay == <<real, enter, broken, replayAtHome, replayRequest,
            replayAnswer, latched, replayPhase, error, home, exiting, replayClock, mapped,
            target, stable, solved, drift, solutions>>
recording == <<recordingState, recordingAtHome, recordingReturnComplete, recordingAway,
               recordingRequest, recordingAnswered, recordingIntents, recordingPhase,
               recordingPending, waits, recordingAsked, paused, recorded, wall, cli, running>>
worker == <<call, question, attempt, workerAsked, answer, requests, workerReplies,
            workerProcess>>
guard == <<lock, dir, owner, children, living, guardAt, launched, todo, guardFailed, escaped>>
run == <<danger, stage, process, runReady, runLocked, motion, moved, sent, latest, before,
         window, runRows, acks, lateAcks, evidence, outcome, rc>>
recorder == <<recorderRows, recorderAt, subscribed, recorderFailed, closed, file, complete,
              main>>

Mujoco == INSTANCE MujocoExecutor WITH
  ready <- mujocoReady, locked <- mujocoLocked, pending <- mujocoPending

Replay == INSTANCE ReplaySourceProperties WITH
  NoPose <- None,
  atHome <- replayAtHome, request <- replayRequest, answer <- replayAnswer,
  phase <- replayPhase, clock <- replayClock

Recording == INSTANCE RecordingReplay WITH
  MaxMail <- RecordingMail, Unset <- None,
  state <- recordingState, atHome <- recordingAtHome, returnComplete <- recordingReturnComplete,
  away <- recordingAway, request <- recordingRequest, answered <- recordingAnswered,
  intents <- recordingIntents, phase <- recordingPhase, pending <- recordingPending,
  asked <- recordingAsked

Worker == INSTANCE ArmIkWorker WITH
  asked <- workerAsked, replies <- workerReplies, worker <- workerProcess

Guard == INSTANCE RunGuardProperties WITH
  NoOne <- None,
  at <- guardAt, failed <- guardFailed

Case == INSTANCE RunCase WITH
  Nothing <- None,
  ready <- runReady, locked <- runLocked, rows <- runRows

Recorder == INSTANCE SessionRecorder WITH
  rows <- recorderRows, at <- recorderAt, failed <- recorderFailed

ASSUME ComponentsAssumption ==
  /\ Mujoco!MujocoAssumption /\ Replay!PathAssumption
  /\ Recording!ReplayAssumption /\ Recording!UnsetAssumption
  /\ Worker!WorkerAssumption /\ Guard!RunGuardAssumption /\ Case!RunCaseAssumption
  /\ Recorder!RecorderAssumption

\* The left joint has the wider range; readings go beyond the padding of 1.
Low == [s \in Sides |-> 0]
High == [s \in Sides |-> IF s = "left" THEN 2 ELSE 1]
HomeAngle == [s \in Sides |-> IF s = "left" THEN 1 ELSE 0]
Around == [s \in Sides |-> IF s = "left" THEN -1 .. 4 ELSE 0 .. 1]

\* A longer way Home, from anywhere.
FarHigh == [s \in Sides |-> IF s = "left" THEN 16 ELSE 3]
FarAround == [s \in Sides |-> 0 .. FarHigh[s]]

FarAway == INSTANCE HardwareSafetyProperties WITH
  Upper <- FarHigh, Positions <- FarAround, Padding <- 0, MaxTracking <- 8,
  ReturnSpeed <- 4, StateTimeout <- 1, FeedbackTimeout <- 1, MaxAge <- 7

\* A way Home has begun while the coordinator is idle; from now on the arms follow
\* what they are told, and phase, frames and ticks come in time.
ReturningInit ==
  /\ \E joints \in FarAway!Readings :
       /\ lastOutput = joints /\ feedback = joints
       /\ trajectory = [start |-> joints, age |-> 0]
  /\ begun = TRUE /\ stopped = FALSE /\ checked = FALSE
  /\ frameAge = [s \in Sides |-> 0] /\ stateAge = 0
  /\ teleopState = "idle" /\ action = "return_home"

ReturningNext ==
  \/ FarAway!Read(lastOutput, [s \in Sides |-> TRUE], TRUE)
  \/ FarAway!Send(Home)
  \/ stateAge > 0 /\ FarAway!HearState("idle")
  \/ /\ ~checked /\ stateAge < 1 /\ \A s \in Sides : frameAge[s] < 1
     /\ FarAway!Elapse

-----------------------------------------------------------------------------
SurroundingsInit ==
  /\ part \in {"hardware", "returning", "mujoco", "replay", "recording", "worker", "guard",
              "run", "recorder"}
  /\ IF part = "returning" THEN ReturningInit ELSE Init
  /\ Mujoco!MujocoInit
  /\ Replay!Init /\ (part # "replay" => real)
  /\ Recording!Init
  /\ Worker!WorkerInit
  /\ Guard!Init
  /\ Case!RunCaseInit /\ (part # "run" => ~danger)
  /\ Recorder!RecorderInit

SurroundingsNext ==
  /\ part' = part
  /\ \/ part = "hardware" /\ Next
        /\ UNCHANGED <<mujoco, replay, recording, worker, guard, run, recorder>>
     \/ part = "returning" /\ ReturningNext
        /\ UNCHANGED <<mujoco, replay, recording, worker, guard, run, recorder>>
     \/ part = "mujoco" /\ Mujoco!MujocoNext
        /\ UNCHANGED <<vars, replay, recording, worker, guard, run, recorder>>
     \/ part = "replay" /\ Replay!Next
        /\ UNCHANGED <<vars, mujoco, recording, worker, guard, run, recorder>>
     \/ part = "recording" /\ Recording!Next
        /\ UNCHANGED <<vars, mujoco, replay, worker, guard, run, recorder>>
     \/ part = "worker" /\ Worker!WorkerNext
        /\ UNCHANGED <<vars, mujoco, replay, recording, guard, run, recorder>>
     \/ part = "guard" /\ Guard!Next
        /\ UNCHANGED <<vars, mujoco, replay, recording, worker, run, recorder>>
     \/ part = "run" /\ Case!RunCaseNext
        /\ UNCHANGED <<vars, mujoco, replay, recording, worker, guard, recorder>>
     \/ part = "recorder" /\ Recorder!RecorderNext
        /\ UNCHANGED <<vars, mujoco, replay, recording, worker, guard, run>>

SurroundingsSpec ==
  /\ SurroundingsInit
  /\ [][SurroundingsNext]_<<part, vars, mujoco, replay, recording, worker, guard, run, recorder>>

-----------------------------------------------------------------------------
\* On the long way Home no step is faster than the return speed allows
\* (HardwareSafetyProperties!ReturnSpeedBounded; HomeTrajectory).
FarReturnSpeedBounded == part = "returning" => FarAway!ReturnSpeedBounded

\* After a stop no tick but the one under way moves anything (on_safety_stop, tick of
\* mujoco/node.py).
MujocoStops == Mujoco!MujocoStops

\* With Enter released the target of the replay stays where it is
\* (HoldToRunClock.update, _read_deadman).
EnterHolds == Replay!EnterHolds

\* A replay is offered after solutions of its first frame only (_target_is_stable).
ReadyIsEarned == Replay!ReadyIsEarned

\* A pause takes no recorded time (pause, resume, tick of recording/replay.py).
PauseTakesNoTime == Recording!PauseTakesNoTime

\* A call of the worker is answered with its own solution (exchange).
AnswerIsOwn == Worker!AnswerIsOwn

\* A session shares the robot with no component of an earlier one
\* (_recover_or_reject_selected_guard).
OneFleet == Guard!OneFleet

\* Components are stopped in the reverse of their order
\* (cleanup_registered_process_groups).
StopsInReverse == Guard!StopsInReverse

\* A danger stop that is proven has stopped the executors, but for one batch
\* (_managed_stop).
EvidenceIsTrue == Case!EvidenceIsTrue

\* A recording that says complete is whole, but for a last row (receive, close).
CompleteIsWhole == Recorder!CompleteIsWhole
=============================================================================
