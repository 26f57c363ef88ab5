------------------------- MODULE Surroundings_proofs -------------------------
(***************************************************************************)
(* What TLAPS proves of what surrounds the coordinator, for every value of  *)
(* the constants.  The components are side by side in one behaviour, so an  *)
(* invariant of one is an invariant of all of them.                         *)
(***************************************************************************)
EXTENDS MCSurroundings, HardwareSafety_proofs, Sequences

all == <<part, vars, mujoco, replay, recording, worker, guard, run, recorder>>

-----------------------------------------------------------------------------
(* The proxy of the inverse kinematics' worker.                            *)

LEMMA WorkerMoves == [SurroundingsNext]_all => [Worker!WorkerNext]_worker
BY DEF SurroundingsNext, all

\* One request or its answer is under way while the proxy waits, and nothing before it
\* asks.
OneUnderWay ==
  <<requests, workerReplies>> \in
    IF call \in {"wait", "handshake"}
    THEN {<<<<workerAsked>>, <<>>>>, <<<<>>, <<workerAsked>>>>, <<<<>>, <<>>>>}
    ELSE {<<<<>>, <<>>>>}

WorkerInv ==
  /\ question \in Nat
  /\ question = 0 => answer = None /\ call \notin {"send", "wait"}
  /\ workerProcess = "solving" => requests # <<>>
  /\ OneUnderWay
  /\ call = "wait" => workerAsked = question
  /\ AnswerIsOwn

LEMMA SingleSequence ==
  ASSUME NEW x
  PROVE  /\ Append(<<>>, x) = <<x>> /\ Head(<<x>>) = x /\ Tail(<<x>>) = <<>>
         /\ <<x>> # <<>>
OBVIOUS

\* What was under way when the proxy gives up is gone with the worker.
LEMMA GivingUp ==
  ASSUME WorkerInv, Worker!TransportError
  PROVE  WorkerInv'
<1> USE DEF Worker!TransportError, Worker!StopAfterTimeout, Worker!StopWorker
<1>1. question' = question /\ requests' = <<>> /\ workerReplies' = <<>> /\ workerProcess' = "none"
  OBVIOUS
<1>2. \/ call' \in {"ended", "idle"} /\ answer' = None
      \/ call' = "start" /\ answer' = answer
  BY <1>1 DEF Worker!Raise
<1> QED
  BY <1>1, <1>2 DEF WorkerInv, OneUnderWay, AnswerIsOwn, Worker!AnswerIsOwn

LEMMA WorkerInvStep == WorkerInv /\ [Worker!WorkerNext]_worker => WorkerInv'
<1> SUFFICES ASSUME WorkerInv, [Worker!WorkerNext]_worker PROVE WorkerInv'
  OBVIOUS
<1> USE SingleSequence DEF WorkerInv, OneUnderWay, AnswerIsOwn, Worker!AnswerIsOwn, Worker!proxyVars
<1>1. CASE Worker!Ask
  BY <1>1 DEF Worker!Ask
<1>2. CASE Worker!Send
  BY <1>2 DEF Worker!Send
<1>3. CASE Worker!SendFails
  BY <1>3, GivingUp DEF Worker!SendFails
<1>4. CASE Worker!Receive
  <2>1. requests = <<>> /\ workerReplies = <<question>>
    BY <1>4 DEF Worker!Receive
  <2>2. /\ requests' = <<>> /\ workerReplies' = <<>> /\ question' = question
        /\ workerProcess' = workerProcess
    BY <1>4, <2>1 DEF Worker!Receive
  <2>3. \/ call' = "idle" /\ answer' = question
        \/ call' \in {"ended", "idle"} /\ answer' = None
    BY <1>4, <2>1 DEF Worker!Receive, Worker!Raise
  <2>4. question # 0
    BY <1>4 DEF Worker!Receive
  <2>5. OneUnderWay'
    BY <2>2, <2>3
  <2> QED
    BY <2>1, <2>2, <2>3, <2>4, <2>5
<1>5. CASE Worker!WaitFails
  BY <1>5, GivingUp DEF Worker!WaitFails
<1>6. CASE Worker!Start
  BY <1>6 DEF Worker!Start, Worker!Raise
<1>7. CASE Worker!Handshaken
  BY <1>7 DEF Worker!Handshaken
<1>8. CASE Worker!HandshakeFails
  BY <1>8 DEF Worker!HandshakeFails, Worker!StopWorker, Worker!Raise
<1>9. CASE Worker!HandshakeRefused
  BY <1>9 DEF Worker!HandshakeRefused, Worker!StopWorker, Worker!Raise
<1>10. CASE Worker!Load
  BY <1>10 DEF Worker!Load
<1>11. CASE Worker!Take
  BY <1>11 DEF Worker!Take
<1>12. CASE Worker!Reply
  BY <1>12 DEF Worker!Reply
<1>13. CASE Worker!Die
  BY <1>13 DEF Worker!Die
<1>14. CASE UNCHANGED worker
  BY <1>14 DEF worker
<1> QED
  BY <1>1, <1>2, <1>3, <1>4, <1>5, <1>6, <1>7, <1>8, <1>9, <1>10, <1>11, <1>12, <1>13, <1>14
  DEF Worker!WorkerNext, Worker!Proxy

\* A call of the worker is answered with its own solution, however often the worker was
\* given up on, and whatever it left in its socket (exchange).
THEOREM AnswersAreOwn == SurroundingsSpec => []AnswerIsOwn
<1>1. SurroundingsInit => WorkerInv
  BY DEF SurroundingsInit, WorkerInv, OneUnderWay, AnswerIsOwn, Worker!AnswerIsOwn, Worker!WorkerInit
<1>2. WorkerInv /\ [SurroundingsNext]_all => WorkerInv'
  BY WorkerMoves, WorkerInvStep
<1>3. WorkerInv => AnswerIsOwn
  BY DEF WorkerInv
<1> QED
  BY <1>1, <1>2, <1>3, PTL DEF SurroundingsSpec, all

-----------------------------------------------------------------------------
(* The recorder.                                                           *)

LEMMA RecorderMoves == [SurroundingsNext]_all => [Recorder!RecorderNext]_recorder
BY DEF SurroundingsNext, all

RecorderTypes ==
  /\ recorderRows \in [Streams -> [1 .. Datasets -> Nat]]
  /\ recorderAt \in [Streams -> 0 .. Datasets]
  /\ main \in {"loop", "closing"} => ~complete

\* The row under way, if there is one, has filled the datasets before the next.
InStep(s) ==
  \A d \in 1 .. Datasets :
    recorderRows[s][d] = recorderRows[s][Datasets] + (IF d < recorderAt[s] THEN 1 ELSE 0)

\* The last row of a stream was cut short.
CutShort(s) ==
  /\ recorderAt[s] = 0 /\ recorderFailed
  /\ recorderRows[s][1] <= recorderRows[s][Datasets] + 1

RowsInv ==
  /\ ~recorderFailed => \A s \in Streams : InStep(s)
  /\ complete => subscribed = {} /\ \A s \in Streams : InStep(s) \/ CutShort(s)

RecorderInv == RecorderTypes /\ RowsInv

LEMMA DatasetsExist == Datasets \in Nat /\ 1 \in 1 .. Datasets /\ Datasets \in 1 .. Datasets
BY ComponentsAssumption DEF Recorder!RecorderAssumption

\* An append goes on with the row, or ends it and with it the recording.
LEMMA AppendKeeps ==
  ASSUME RecorderInv, NEW s \in Streams, Recorder!Append(s)
  PROVE  RecorderInv'
<1> USE DatasetsExist DEF RecorderInv, RecorderTypes, Recorder!Append
<1> DEFINE k == recorderAt[s]
<1>1. k \in 1 .. Datasets
  OBVIOUS
<1>2. CASE /\ recorderRows' = [recorderRows EXCEPT ![s][k] = @ + 1]
           /\ recorderAt' = [recorderAt EXCEPT ![s] = IF @ = Datasets THEN 0 ELSE @ + 1]
           /\ UNCHANGED recorderFailed
  <2>1. RecorderTypes'
    BY <1>1, <1>2
  <2>2. ASSUME InStep(s) PROVE InStep(s)'
    BY <1>1, <1>2, <2>2 DEF InStep
  <2>3. ASSUME NEW t \in Streams, t # s PROVE InStep(t)' = InStep(t) /\ CutShort(t)' = CutShort(t)
    BY <1>2, <2>3 DEF InStep, CutShort
  <2>4. ~CutShort(s)
    BY <1>1 DEF CutShort
  <2> QED
    BY <1>2, <2>1, <2>2, <2>3, <2>4 DEF RowsInv
<1>3. CASE /\ recorderAt' = [recorderAt EXCEPT ![s] = 0]
           /\ recorderFailed' = TRUE
           /\ UNCHANGED recorderRows
  <2>1. RecorderTypes'
    BY <1>1, <1>3
  <2>2. ASSUME InStep(s) PROVE CutShort(s)'
    BY <1>1, <1>3, <2>2 DEF InStep, CutShort
  <2>3. ASSUME NEW t \in Streams, t # s, InStep(t) \/ CutShort(t) PROVE InStep(t)' \/ CutShort(t)'
    BY <1>3, <2>3 DEF InStep, CutShort
  <2>4. ~CutShort(s)
    BY <1>1 DEF CutShort
  <2> QED
    BY <1>3, <2>1, <2>2, <2>3, <2>4 DEF RowsInv
<1> QED
  BY <1>2, <1>3

LEMMA RecorderInvStep == RecorderInv /\ [Recorder!RecorderNext]_recorder => RecorderInv'
<1> SUFFICES ASSUME RecorderInv, [Recorder!RecorderNext]_recorder PROVE RecorderInv'
  OBVIOUS
<1> USE DEF RecorderInv, RecorderTypes, RowsInv, InStep, CutShort, Recorder!groupVars
<1>1. ASSUME NEW s \in Streams, Recorder!Receive(s) PROVE RecorderInv'
  <2>1. /\ recorderAt[s] = 0 /\ ~complete
        /\ UNCHANGED <<recorderRows, subscribed, complete, main>>
    BY <1>1 DEF Recorder!Receive
  <2>2. CASE recorderAt' = [recorderAt EXCEPT ![s] = 1] /\ UNCHANGED recorderFailed
    BY <2>1, <2>2, DatasetsExist
  <2>3. CASE recorderFailed' = TRUE /\ UNCHANGED recorderAt
    BY <2>1, <2>3
  <2>4. CASE UNCHANGED <<recorderAt, recorderFailed>>
    BY <2>1, <2>4
  <2> QED
    BY <1>1, <2>2, <2>3, <2>4 DEF Recorder!Receive
<1>2. ASSUME NEW s \in Streams, Recorder!Append(s) PROVE RecorderInv'
  BY <1>2, AppendKeeps
<1>3. ASSUME NEW s \in Streams, Recorder!Undeclare(s) PROVE RecorderInv'
  BY <1>3 DEF Recorder!Undeclare
<1>4. CASE Recorder!Stop
  BY <1>4 DEF Recorder!Stop
<1>5. CASE Recorder!Abort
  BY <1>5 DEF Recorder!Abort
<1>6. CASE Recorder!Decide
  BY <1>6 DEF Recorder!Decide
<1>7. CASE Recorder!CloseFile
  BY <1>7 DEF Recorder!CloseFile
<1>8. CASE Recorder!Close
  BY <1>8 DEF Recorder!Close
<1>9. CASE Recorder!Kill
  BY <1>9 DEF Recorder!Kill
<1>10. CASE UNCHANGED recorder
  BY <1>10 DEF recorder
<1> QED
  BY <1>1, <1>2, <1>3, <1>4, <1>5, <1>6, <1>7, <1>8, <1>9, <1>10 DEF Recorder!RecorderNext

\* A recording that says complete is whole, but for a last row which the closing of the
\* file cut short (receive, close).
THEOREM CompleteAreWhole == SurroundingsSpec => []CompleteIsWhole
<1>1. SurroundingsInit => RecorderInv
  BY DatasetsExist
  DEF SurroundingsInit, RecorderInv, RecorderTypes, RowsInv, InStep, Recorder!RecorderInit
<1>2. RecorderInv /\ [SurroundingsNext]_all => RecorderInv'
  BY RecorderMoves, RecorderInvStep
<1>3. RecorderInv => CompleteIsWhole
  BY DatasetsExist
  DEF RecorderInv, RecorderTypes, RowsInv, InStep, CutShort, CompleteIsWhole,
      Recorder!CompleteIsWhole, Recorder!Broken
<1> QED
  BY <1>1, <1>2, <1>3, PTL DEF SurroundingsSpec, all

-----------------------------------------------------------------------------
(* The validation harness.                                                 *)

LEMMA CaseMoves == [SurroundingsNext]_all => [Case!RunCaseNext]_run
BY DEF SurroundingsNext, all

StatusRows == [sent : Nat, healthy : BOOLEAN, locked : BOOLEAN]

CaseTypes ==
  /\ motion \in [Executors -> {"idle", "checked", "sent"}]
  /\ moved \in [Executors -> Nat]
  /\ sent \in [Executors -> Nat]
  /\ before \in [Executors -> Nat]
  /\ latest \in [Executors -> StatusRows \cup {None}]
  /\ runRows \in [Executors -> SUBSET StatusRows]

\* What went out is counted, but for a batch of the tick under way.
CountedInv == \A e \in Executors : moved[e] = sent[e] + (IF motion[e] = "sent" THEN 1 ELSE 0)

\* What will be counted of a locked executor: with its tick under way one more.
Final(e) == sent[e] + (IF motion[e] = "idle" THEN 0 ELSE 1)

\* A row is never ahead of the counter, and one that says locked is at most a batch
\* behind what will be.
RowsAreOld ==
  \A e \in Executors :
    /\ latest[e] # None => latest[e].sent <= sent[e]
    /\ \A r \in runRows[e] : r.locked => e \in runLocked /\ Final(e) <= r.sent + 1

\* The stop is judged by rows of its window.
WindowInv ==
  /\ stage \in {"starting", "readying", "stopping"} => evidence = None
  /\ stage \in {"starting", "readying"} => window = "closed"

\* What the evidence says once it is judged.
ProvenInv ==
  evidence # None /\ evidence.lockout /\ evidence.still =>
    \A e \in Executors : e \in runLocked /\ Final(e) <= before[e] + 1

CaseInv == CaseTypes /\ CountedInv /\ RowsAreOld /\ WindowInv /\ ProvenInv

LEMMA CaseInvStep == CaseInv /\ [Case!RunCaseNext]_run => CaseInv'
<1> SUFFICES ASSUME CaseInv, [Case!RunCaseNext]_run PROVE CaseInv'
  OBVIOUS
<1> USE DEF CaseInv, CaseTypes, CountedInv, Final, RowsAreOld, WindowInv, ProvenInv, StatusRows,
            Case!executorVars, Case!motionVars
<1> DEFINE casework == <<danger, stage, process, before, window, evidence, outcome, rc>>
<1>1. ASSUME NEW e \in Executors, Case!ExecutorUp(e), UNCHANGED casework PROVE CaseInv'
  BY <1>1 DEF Case!ExecutorUp
<1>2. ASSUME NEW e \in Executors, Case!LookAtLock(e), UNCHANGED casework PROVE CaseInv'
  BY <1>2 DEF Case!LookAtLock
<1>3. ASSUME NEW e \in Executors, Case!Command(e), UNCHANGED casework PROVE CaseInv'
  BY <1>3 DEF Case!Command
<1>4. ASSUME NEW e \in Executors, Case!Count(e), UNCHANGED casework PROVE CaseInv'
  BY <1>4 DEF Case!Count
<1>5. ASSUME NEW e \in Executors, NEW well \in BOOLEAN, Case!StatusRow(e, well), UNCHANGED casework
      PROVE  CaseInv'
  <2> DEFINE row == [sent |-> sent[e], healthy |-> well /\ e \notin runLocked,
                     locked |-> e \in runLocked \cap Showing]
  <2>1. /\ UNCHANGED <<runLocked, motion, moved, sent, stage, before, window, evidence>>
        /\ latest' = [latest EXCEPT ![e] = row]
        /\ \/ runRows' = [runRows EXCEPT ![e] = @ \cup {row}]
           \/ runRows' = runRows
    BY <1>5 DEF Case!StatusRow
  <2>2. row \in StatusRows /\ row.sent = sent[e] /\ (row.locked => e \in runLocked)
    <3>1. /\ sent[e] \in Nat /\ (well /\ e \notin runLocked) \in BOOLEAN
          /\ (e \in runLocked \cap Showing) \in BOOLEAN
      OBVIOUS
    <3>2. row \in StatusRows
      BY <3>1, Zenon
    <3> QED
      BY <3>2
  <2> HIDE DEF row
  <2>3. CaseTypes'
    BY <2>1, <2>2
  <2>4. RowsAreOld'
    BY <2>1, <2>2
  <2> QED
    BY <2>1, <2>3, <2>4
<1>6. ASSUME NEW e \in Executors, Case!TakeStop(e), UNCHANGED casework PROVE CaseInv'
  BY <1>6 DEF Case!TakeStop
<1>7. ASSUME NEW e \in Executors, Case!Acknowledge(e), UNCHANGED casework PROVE CaseInv'
  BY <1>7 DEF Case!Acknowledge
<1>8. CASE Case!SessionExits
  BY <1>8 DEF Case!SessionExits
<1>9. CASE Case!Started
  BY <1>9 DEF Case!Started
<1>10. CASE Case!IssueStop
  BY <1>10 DEF Case!IssueStop, Case!ReadyRow
<1>11. CASE Case!StopNotIssued
  BY <1>11 DEF Case!StopNotIssued
<1>12. CASE Case!WindowEnds
  BY <1>12 DEF Case!WindowEnds
<1>13. CASE Case!JudgeStop
  <2>1. ASSUME evidence'.lockout, evidence'.still, NEW e \in Executors
        PROVE  e \in runLocked /\ Final(e) <= before[e] + 1
    <3>1. PICK r \in runRows[e] : r.locked
      BY <1>13, <2>1 DEF Case!JudgeStop
    <3>2. r.sent <= before[e] /\ r.sent \in Nat
      BY <1>13, <2>1 DEF Case!JudgeStop, Case!NoMotion
    <3> QED
      BY <3>1, <3>2
  <2> QED
    BY <1>13, <2>1 DEF Case!JudgeStop
<1>14. CASE Case!Terminate
  BY <1>14 DEF Case!Terminate
<1>15. CASE Case!Finished
  BY <1>15 DEF Case!Finished
<1>16. CASE Case!RecordOutcome
  BY <1>16 DEF Case!RecordOutcome
<1>17. CASE UNCHANGED run
  BY <1>17 DEF run
<1> QED
  BY <1>1, <1>2, <1>3, <1>4, <1>5, <1>6, <1>7, <1>8, <1>9, <1>10, <1>11, <1>12, <1>13, <1>14,
     <1>15, <1>16, <1>17
  DEF Case!RunCaseNext

\* A danger stop that is proven has stopped the executors: each is locked, and at most the
\* batch of a tick past its look at the lock has gone out beside what was counted before
\* (_managed_stop).
THEOREM EvidenceHolds == SurroundingsSpec => []EvidenceIsTrue
<1>1. SurroundingsInit => CaseInv
  BY DEF SurroundingsInit, CaseInv, CaseTypes, CountedInv, Final, RowsAreOld, WindowInv, ProvenInv,
         StatusRows, Case!RunCaseInit
<1>2. CaseInv /\ [SurroundingsNext]_all => CaseInv'
  BY CaseMoves, CaseInvStep
<1>3. CaseInv => EvidenceIsTrue
  <2>1. ASSUME CaseInv, NEW e \in Executors, Final(e) <= before[e] + 1
        PROVE  moved[e] <= before[e] + 1
    BY <2>1 DEF CaseInv, CaseTypes, CountedInv, Final
  <2> QED
    BY <2>1 DEF CaseInv, ProvenInv, EvidenceIsTrue, Case!EvidenceIsTrue, Case!StopProven
<1> QED
  BY <1>1, <1>2, <1>3, PTL DEF SurroundingsSpec, all

-----------------------------------------------------------------------------
(* The MuJoCo executor.                                                    *)

LEMMA MujocoMoves == [SurroundingsNext]_all => [Mujoco!MujocoNext]_mujoco
BY DEF SurroundingsNext, all

\* The one tick that may end late is the one under way when the stop comes.
MujocoInv ==
  /\ late \in {0, 1}
  /\ late = 1 => mujocoLocked /\ tick = "idle"

LEMMA MujocoInvStep == MujocoInv /\ [Mujoco!MujocoNext]_mujoco => MujocoInv'
<1> SUFFICES ASSUME MujocoInv, [Mujoco!MujocoNext]_mujoco PROVE MujocoInv'
  OBVIOUS
<1> USE DEF MujocoInv, Mujoco!tickVars
<1>1. CASE Mujoco!MujocoMessage
  BY <1>1 DEF Mujoco!MujocoMessage, Mujoco!Snapshot, Mujoco!OnCommand, Mujoco!Refuse, Mujoco!OnSafetyStop
<1>2. CASE Mujoco!TickWaits \/ Mujoco!TickLocked
  BY <1>2 DEF Mujoco!TickWaits, Mujoco!TickLocked, Mujoco!mujocoVars
<1>3. CASE Mujoco!TickBegins
  BY <1>3 DEF Mujoco!TickBegins
<1>4. CASE Mujoco!TickApplies("arms", "hands") \/ Mujoco!TickApplies("hands", "counts")
  BY <1>4 DEF Mujoco!TickApplies
<1>5. CASE Mujoco!TickEnds
  BY <1>5 DEF Mujoco!TickEnds
<1>6. CASE Mujoco!MujocoClock
  BY <1>6 DEF Mujoco!MujocoClock
<1>7. CASE UNCHANGED mujoco
  BY <1>7 DEF mujoco
<1> QED
  BY <1>1, <1>2, <1>3, <1>4, <1>5, <1>6, <1>7 DEF Mujoco!MujocoNext, Mujoco!MujocoTick

\* After a stop no tick but the one under way moves arms or hands, however often the
\* snapshot is lost and complete again (on_safety_stop, tick).
THEOREM MujocoHasStopped == SurroundingsSpec => []MujocoStops
<1>1. SurroundingsInit => MujocoInv
  <2>1. SurroundingsInit => Mujoco!MujocoInit
    BY DEF SurroundingsInit
  <2>2. Mujoco!MujocoInit => MujocoInv
    BY DEF MujocoInv, Mujoco!MujocoInit
  <2> QED
    BY <2>1, <2>2
<1>2. MujocoInv /\ [SurroundingsNext]_all => MujocoInv'
  BY MujocoMoves, MujocoInvStep
<1>3. MujocoInv => MujocoStops
  BY DEF MujocoInv, MujocoStops, Mujoco!MujocoStops
<1> QED
  BY <1>1, <1>2, <1>3, PTL DEF SurroundingsSpec, all

-----------------------------------------------------------------------------
(* The replay of recordings.                                               *)

LEMMA RecordingMoves == [SurroundingsNext]_all => [Recording!Next]_recording
BY DEF SurroundingsNext, all

Nodes ==
  [phase : {"armed", "start_pending", "replaying", "returning", "fault"},
   pending : {"none", "start", "return"}, waits : BOOLEAN, asked : BOOLEAN, paused : BOOLEAN,
   recorded : 0 .. End, wall : Nat \cup {None}]

\* What was played, and would be played by a tick now, is covered by the time the replay
\* went on; a replay that only begins has played nothing.
Timely(n) ==
  n.phase = "replaying" =>
    /\ n.recorded <= running
    /\ ~n.paused /\ n.wall # None => n.recorded + n.wall <= running \/ running > End
    /\ recordingPhase # "replaying" => n.recorded = 0 /\ n.wall = None

RecordingInv == Recording!Node \in Nodes /\ running \in Nat /\ Timely(Recording!Node)

LEMMA RecordingConstants == End \in Nat /\ None \notin Nat /\ 0 \in 0 .. End
BY ComponentsAssumption DEF Recording!ReplayAssumption, Recording!UnsetAssumption

LEMMA DroppedTimely ==
  ASSUME NEW n \in Nodes, Timely(n)
  PROVE  Recording!Dropped(n) \in Nodes /\ Timely(Recording!Dropped(n))
BY DEF Nodes, Timely, Recording!Dropped

LEMMA FinishReturnTimely ==
  ASSUME NEW n \in Nodes, Timely(n)
  PROVE  Recording!FinishReturn(n) \in Nodes /\ Timely(Recording!FinishReturn(n))
<1> DEFINE done == [n EXCEPT !.phase = "armed", !.pending = "none", !.waits = FALSE,
                             !.paused = FALSE, !.asked = FALSE]
<1>1. done \in Nodes /\ done.phase = "armed"
  BY DEF Nodes
<1>2. Recording!FinishReturn(n) \in {n, done}
  BY DEF Recording!FinishReturn
<1> QED
  BY <1>1, <1>2 DEF Timely

\* _sync_authority: what it leaves replaying was replaying, or begins now.
LEMMA HearTimely ==
  ASSUME NEW n \in Nodes, Timely(n), running \in Nat
  PROVE  Recording!Hear(n) \in Nodes /\ Timely(Recording!Hear(n))
<1> DEFINE faulted == [n EXCEPT !.phase = "fault", !.paused = FALSE, !.pending = "none"]
           returning == [n EXCEPT !.phase = "returning", !.paused = FALSE]
           armed == [n EXCEPT !.phase = "armed", !.paused = FALSE]
           rearmed == [n EXCEPT !.phase = "armed", !.paused = FALSE, !.asked = FALSE]
           started == [n EXCEPT !.phase = "replaying", !.paused = FALSE, !.recorded = 0,
                                !.wall = None, !.pending = "none"]
           refused == [n EXCEPT !.phase = "armed", !.pending = "none", !.waits = FALSE]
<1>1. Recording!Hear(n) \in {faulted, returning, armed, rearmed, n, started, refused,
                              Recording!FinishReturn(n)}
  BY Zenon DEF Recording!Hear
<1>2. /\ faulted \in Nodes /\ faulted.phase # "replaying"
      /\ returning \in Nodes /\ returning.phase # "replaying"
      /\ armed \in Nodes /\ armed.phase # "replaying"
      /\ rearmed \in Nodes /\ rearmed.phase # "replaying"
      /\ refused \in Nodes /\ refused.phase # "replaying"
  BY DEF Nodes
<1>3. started \in Nodes /\ started.recorded = 0 /\ started.wall = None
  BY RecordingConstants DEF Nodes
<1>4. Timely(started)
  BY <1>3, RecordingConstants DEF Timely
<1> HIDE DEF faulted, returning, armed, rearmed, started, refused
<1> QED
  BY <1>1, <1>2, <1>3, <1>4, FinishReturnTimely DEF Timely

\* What a tick plays was covered.
LEMMA PlayedTimely ==
  ASSUME NEW n \in Nodes, Timely(n), n.phase = "replaying", running \in Nat
  PROVE  /\ Recording!Played(n) \in Nodes
         /\ Recording!Played(n).recorded <= running
         /\ ~Recording!Played(n).paused => Recording!Played(n).wall = 0
         /\ recordingPhase # "replaying" =>
              Recording!Played(n).recorded = 0 /\ Recording!Played(n).wall = 0
<1> USE RecordingConstants DEF Nodes, Timely
<1>1. CASE n.wall = None
  BY <1>1 DEF Recording!Played
<1>2. CASE n.wall # None /\ n.paused
  BY <1>2 DEF Recording!Played
<1>3. CASE n.wall # None /\ ~n.paused
  <2> DEFINE end == IF n.recorded + n.wall > End THEN End ELSE n.recorded + n.wall
  <2>1. Recording!Played(n) = [n EXCEPT !.recorded = end, !.wall = 0]
    BY <1>3 DEF Recording!Played
  <2>2. end \in 0 .. End /\ end <= running
    BY <1>3
  <2> HIDE DEF end
  <2>3. [n EXCEPT !.recorded = end, !.wall = 0] \in Nodes
    BY <2>2
  <2>4. Recording!Played(n).recorded = end /\ Recording!Played(n).wall = 0
    BY <2>1, <2>2
  <2> QED
    BY <1>3, <2>1, <2>2, <2>3, <2>4
<1> QED
  BY <1>1, <1>2, <1>3

\* What a tick leaves is covered again.
LEMMA BecomesTimely ==
  ASSUME RecordingInv, Recording!Observe, NEW n \in Nodes, Recording!Becomes(n),
         n.phase = "replaying" =>
           /\ n.recorded <= running
           /\ ~n.paused => n.wall = 0
           /\ recordingPhase # "replaying" => n.recorded = 0 /\ n.wall = 0
  PROVE  RecordingInv'
<1>1. running' \in Nat
  BY RecordingConstants DEF RecordingInv, Recording!Observe
<1>2. Recording!Node' \in Nodes
  BY DEF Nodes, Recording!Node, Recording!Becomes
<1>3. Timely(Recording!Node)'
  <2> SUFFICES ASSUME n.phase = "replaying" PROVE Timely(Recording!Node)'
    BY DEF Timely, Recording!Node, Recording!Becomes
  <2>1. running' = IF recordingPhase = "replaying" THEN running' ELSE 0
    BY DEF Recording!Observe
  <2>2. recordingPhase = "replaying" => running' >= running
    BY DEF Recording!Observe, Recording!Becomes, RecordingInv
  <2>3. /\ recordingPhase' = "replaying" /\ recorded' = n.recorded /\ paused' = n.paused
        /\ wall' = n.wall /\ recorded' \in Nat
    BY RecordingConstants DEF Recording!Becomes, Nodes
  <2> QED
    BY <1>1, <2>1, <2>2, <2>3 DEF Timely, Recording!Node, RecordingInv
<1> QED
  BY <1>1, <1>2, <1>3 DEF RecordingInv

LEMMA RecordingTick == ASSUME RecordingInv, Recording!Tick, Recording!Observe PROVE RecordingInv'
<1> DEFINE base(drops) ==
             IF waits /\ (drops \/ recordingRequest = "none")
             THEN Recording!Dropped(Recording!Node) ELSE Recording!Node
           synced(drops) == Recording!FinishReturn(Recording!Hear(base(drops)))
           played(drops) == IF synced(drops).phase = "replaying" THEN Recording!Played(synced(drops))
                            ELSE synced(drops)
           asks(drops) == [played(drops) EXCEPT !.pending = "return", !.waits = TRUE,
                                                !.asked = TRUE, !.phase = "returning"]
<1>1. PICK drops : Recording!Becomes(asks(drops)) \/ Recording!Becomes(played(drops))
  BY DEF Recording!Tick
<1>2. base(drops) \in Nodes /\ Timely(base(drops))
  BY DroppedTimely DEF RecordingInv
<1>3. synced(drops) \in Nodes /\ Timely(synced(drops))
  BY <1>2, HearTimely, FinishReturnTimely DEF RecordingInv
<1> HIDE DEF base
<1>4. CASE Recording!Becomes(played(drops))
  <2>1. CASE synced(drops).phase = "replaying"
    <3> DEFINE n == Recording!Played(synced(drops))
    <3>1. /\ n \in Nodes /\ n.recorded <= running
          /\ ~n.paused => n.wall = 0
          /\ recordingPhase # "replaying" => n.recorded = 0 /\ n.wall = 0
      BY <1>3, <2>1, PlayedTimely DEF RecordingInv
    <3>2. Recording!Becomes(n)
      BY <1>4, <2>1
    <3> HIDE DEF n, synced, played
    <3> QED
      BY <3>1, <3>2, BecomesTimely
  <2>2. CASE synced(drops).phase # "replaying"
    <3> DEFINE n == synced(drops)
    <3>1. n \in Nodes /\ n.phase # "replaying" /\ Recording!Becomes(n)
      BY <1>3, <1>4, <2>2
    <3> HIDE DEF n, synced, played
    <3> QED
      BY <3>1, BecomesTimely
  <2> QED
    BY <2>1, <2>2
<1>5. CASE Recording!Becomes(asks(drops))
  <2>1. played(drops) \in Nodes
    BY <1>3, PlayedTimely DEF RecordingInv
  <2> HIDE DEF played
  <2>2. asks(drops) \in Nodes /\ asks(drops).phase = "returning"
    BY <2>1 DEF Nodes
  <2> HIDE DEF asks
  <2> QED
    BY <1>5, <2>2, BecomesTimely
<1> QED
  BY <1>1, <1>4, <1>5

LEMMA RecordingInvStep == RecordingInv /\ [Recording!Next]_recording => RecordingInv'
<1> SUFFICES ASSUME RecordingInv, [Recording!Next]_recording PROVE RecordingInv'
  OBVIOUS
<1> USE RecordingConstants
    DEF RecordingInv, Nodes, Timely, Recording!Node, Recording!Observe, Recording!client
<1>1. ASSUME Recording!RequestStart, Recording!Observe PROVE RecordingInv'
  BY <1>1 DEF Recording!RequestStart, Recording!Publish
<1>2. ASSUME Recording!RequestReturn, Recording!Observe PROVE RecordingInv'
  BY <1>2 DEF Recording!RequestReturn, Recording!Publish
<1>3. ASSUME Recording!Pause, Recording!Observe PROVE RecordingInv'
  BY <1>3 DEF Recording!Pause
<1>4. ASSUME Recording!Resume, Recording!Observe PROVE RecordingInv'
  BY <1>4 DEF Recording!Resume
<1>5. ASSUME Recording!TimePasses, Recording!Observe PROVE RecordingInv'
  BY <1>5 DEF Recording!TimePasses
<1>6. ASSUME Recording!Tick, Recording!Observe PROVE RecordingInv'
  BY <1>6, RecordingTick
<1>7. ASSUME UNCHANGED Recording!nodeVars, Recording!Observe PROVE RecordingInv'
  BY <1>7 DEF Recording!nodeVars
<1>8. CASE UNCHANGED recording
  BY <1>8 DEF recording
<1> QED
  BY <1>1, <1>2, <1>3, <1>4, <1>5, <1>6, <1>7, <1>8
  DEF Recording!Next, Recording!HandleIntent, Recording!CoordinatorStep, Recording!nodeVars

\* A pause takes no recorded time: what is played is never ahead of the time the replay
\* went on (pause, resume, tick of recording/replay.py).
THEOREM PausesTakeNoTime == SurroundingsSpec => []PauseTakesNoTime
<1>1. SurroundingsInit => RecordingInv
  <2>1. SurroundingsInit => Recording!RecordingInit /\ running = 0
    BY DEF SurroundingsInit, Recording!Init
  <2>2. Recording!RecordingInit /\ running = 0 => RecordingInv
    <3> SUFFICES ASSUME Recording!RecordingInit, running = 0 PROVE RecordingInv
      OBVIOUS
    <3>1. Recording!Node = [phase |-> "armed", pending |-> "none", waits |-> FALSE, asked |-> FALSE,
                            paused |-> FALSE, recorded |-> 0, wall |-> None]
      BY DEF Recording!Node, Recording!RecordingInit
    <3>2. Recording!Node \in Nodes
      BY <3>1, RecordingConstants DEF Nodes
    <3> QED
      BY <3>1, <3>2 DEF RecordingInv, Timely
  <2> QED
    BY <2>1, <2>2
<1>2. RecordingInv /\ [SurroundingsNext]_all => RecordingInv'
  BY RecordingMoves, RecordingInvStep
<1>3. RecordingInv => PauseTakesNoTime
  BY DEF RecordingInv, Timely, Recording!Node, PauseTakesNoTime, Recording!PauseTakesNoTime
<1> QED
  BY <1>1, <1>2, <1>3, PTL DEF SurroundingsSpec, all

-----------------------------------------------------------------------------
(* The replay source.                                                      *)

LEMMA ReplayMoves == [SurroundingsNext]_all => [Replay!Next]_replay
BY DEF SurroundingsNext, all

First == Replay!Pose(0)

ReplayTypes ==
  /\ replayClock \in [elapsed : Int, runs : BOOLEAN]
  /\ mapped \in Int
  /\ target \in Int \cup {None}
  /\ stable \in Nat
  /\ solved \in [at : Int \cup {None}, answers : BOOLEAN]
  /\ drift \in Nat
  /\ solutions \in Nat

\* Of the time in which the target moves without Enter no more than the interval of its
\* release is left, and none once the target has moved.
HoldInv ==
  /\ drift <= 1
  /\ replayPhase = "replaying" =>
       replayClock.elapsed <= mapped /\ (drift = 1 => ~replayClock.runs)

\* A solution of the first frame that no tick has counted yet.
Uncounted == target = First /\ solved.answers /\ solved.at = First

\* The ticks counted and the one that may be counted next each have a solution.
EarnInv ==
  /\ replayPhase = "start_pending" => target = None /\ stable = 0
  /\ replayPhase = "approaching" =>
       stable + (IF Uncounted THEN 1 ELSE 0) <= solutions \/ StableTicks <= solutions
  /\ replayPhase = "ready" => StableTicks <= solutions /\ target = First

ReplayInv == ReplayTypes /\ HoldInv /\ EarnInv

LEMMA ReplayConstants ==
  /\ FrameZero \in Nat /\ Duration \in Nat /\ StableTicks \in Nat \ {0} /\ None \notin Int
  /\ First \in Int
BY ComponentsAssumption DEF Replay!PathAssumption, First, Replay!Pose

\* The observers, of a step that leaves the target where it is or gives it up.
LEMMA Unmoved ==
  ASSUME ReplayInv, Replay!Observe, target' \in {target, None}
  PROVE  /\ drift' \in {0, drift}
         /\ solutions' \in Nat
         /\ solved' = solved /\ replayPhase # "start_pending" => solutions' = solutions
<1>1. drift' \in {0, drift}
  BY DEF Replay!Observe
<1>2. solutions' \in Nat
  BY ReplayConstants DEF ReplayInv, ReplayTypes, Replay!Observe, Replay!Least
<1>3. solved' = solved /\ replayPhase # "start_pending" => solutions' = solutions
  BY DEF Replay!Observe
<1> QED
  BY <1>1, <1>2, <1>3

\* A target that is published has no answer yet.
LEMMA Unanswered ==
  ASSUME ReplayTypes, Replay!PublishTargets
  PROVE  solved' \in [at : Int \cup {None}, answers : BOOLEAN] /\ ~Uncounted'
<1>1. solved' = [solved EXCEPT !.answers = FALSE]
  BY DEF Replay!PublishTargets
<1>2. solved' \in [at : Int \cup {None}, answers : BOOLEAN] /\ ~solved'.answers
  BY <1>1 DEF ReplayTypes
<1> QED
  BY <1>2 DEF Uncounted

\* A step that changes nothing of the path but, maybe, to end the session.
LEMMA Elsewhere ==
  ASSUME ReplayInv, Replay!Observe,
         UNCHANGED <<target, stable, solved>>,
         \/ UNCHANGED <<replayPhase, replayClock, mapped>>
         \/ /\ replayPhase' \in {"returning", "closed", "armed", "fault"}
            /\ replayClock' \in {replayClock, Replay!Stopped} /\ mapped' = mapped
  PROVE  ReplayInv'
<1> USE ReplayConstants
<1>1. drift' \in {0, drift} /\ solutions' \in Nat
  BY Unmoved
<1>2. replayPhase # "start_pending" => solutions' = solutions
  BY Unmoved
<1>3. Replay!Stopped \in [elapsed : Int, runs : BOOLEAN]
  BY DEF Replay!Stopped
<1>4. ReplayTypes'
  BY <1>1, <1>3 DEF ReplayInv, ReplayTypes
<1>5. HoldInv'
  BY <1>1 DEF ReplayInv, ReplayTypes, HoldInv
<1>6. EarnInv'
  BY <1>2 DEF ReplayInv, EarnInv, Uncounted
<1> QED
  BY <1>4, <1>5, <1>6 DEF ReplayInv

LEMMA ApproachKeeps == ASSUME ReplayInv, Replay!Observe, Replay!ApproachTick PROVE ReplayInv'
<1> USE ReplayConstants DEF ReplayInv, ReplayTypes
<1>1. /\ replayPhase = "approaching"
      /\ UNCHANGED <<replayClock, mapped, enter>>
      /\ Replay!PublishTargets
  BY DEF Replay!ApproachTick, Replay!operator
<1>2. solutions' = solutions
  BY <1>1 DEF Replay!Observe, Replay!PublishTargets
<1>3. solved' \in [at : Int \cup {None}, answers : BOOLEAN] /\ ~Uncounted'
  BY <1>1, Unanswered
<1>4. CASE Replay!Pressed
  <2>1. /\ target' = Replay!Mapped(First)
        /\ stable' = IF Uncounted THEN stable + 1 ELSE 0
        /\ replayPhase' = IF stable' >= StableTicks THEN "ready" ELSE replayPhase
    BY <1>4 DEF Replay!ApproachTick, Replay!Reached, Uncounted, First
  <2>2. target' \in Int /\ (target = First => target' = First)
    BY <2>1 DEF Replay!Mapped, Replay!Toward
  <2>3. drift' = 0
    BY <1>4 DEF Replay!Pressed, Replay!Observe
  <2>4. ReplayTypes'
    BY <1>1, <1>2, <1>3, <2>1, <2>2, <2>3
  <2>5. HoldInv'
    BY <1>1, <2>1, <2>3 DEF HoldInv
  <2>6. EarnInv'
    BY <1>1, <1>2, <1>3, <2>1, <2>2 DEF EarnInv, Uncounted
  <2> QED
    BY <2>4, <2>5, <2>6
<1>5. CASE ~Replay!Pressed
  <2>1. UNCHANGED <<target, stable, replayPhase>>
    BY <1>5 DEF Replay!ApproachTick
  <2>2. drift' \in {0, drift}
    BY <2>1, Unmoved
  <2>3. ReplayTypes' /\ HoldInv'
    BY <1>1, <1>2, <1>3, <2>1, <2>2 DEF HoldInv
  <2>4. EarnInv'
    BY <1>1, <1>2, <1>3, <2>1 DEF EarnInv
  <2> QED
    BY <2>3, <2>4
<1> QED
  BY <1>4, <1>5

\* HoldToRunClock.update: without Enter the clock runs out its interval, and stops.
LEMMA ReplayKeeps == ASSUME ReplayInv, Replay!Observe, Replay!ReplayTick PROVE ReplayInv'
<1> USE ReplayConstants
<1> DEFINE e == Replay!SourceElapsed
<1>1. /\ replayPhase = "replaying" /\ UNCHANGED enter
      /\ Replay!PublishTargets
  BY DEF Replay!ReplayTick, Replay!operator
<1>2. solutions' = solutions
  BY <1>1 DEF Replay!Observe, Replay!PublishTargets, ReplayInv, ReplayTypes
<1>3. e \in Int /\ (replayClock.runs \/ e <= replayClock.elapsed)
  BY DEF Replay!SourceElapsed, Replay!Update, ReplayInv, ReplayTypes
<1>4. \/ target' = Replay!Mapped(Replay!Pose(e)) /\ mapped' = e /\ (Replay!Pressed \/ e > mapped)
      \/ UNCHANGED <<target, mapped>> /\ ~(Replay!Pressed \/ e > mapped)
  BY DEF Replay!ReplayTick
<1>5. stable' \in Nat
  BY DEF Replay!ReplayTick, ReplayInv, ReplayTypes
<1>6. \/ /\ replayPhase' = "replaying"
         /\ replayClock' = [elapsed |-> e, runs |-> Replay!Pressed]
      \/ replayPhase' = "returning" /\ replayClock' = Replay!Stopped
  BY DEF Replay!ReplayTick, Replay!BeginReturn, Replay!Update
<1> HIDE DEF e
<1>7. Replay!Pose(e) \in Int
  BY <1>3 DEF Replay!Pose
<1>8. target' \in Int \cup {None} /\ mapped' \in Int
  BY <1>3, <1>4, <1>7 DEF Replay!Mapped, Replay!Toward, ReplayInv, ReplayTypes
<1>9. \/ drift' = 0
      \/ drift' = drift /\ ~Replay!Pressed
      \/ drift' = 1 /\ drift = 0 /\ ~Replay!Pressed
  <2>1. CASE enter
    BY <2>1 DEF Replay!Observe
  <2>2. CASE ~enter /\ target' = target
    BY <2>2 DEF Replay!Observe, Replay!Pressed
  <2>3. CASE ~enter /\ target' # target
    <3>1. ~Replay!Pressed /\ e > mapped
      BY <1>4, <2>3 DEF Replay!Pressed
    <3>2. drift = 0
      BY <1>1, <1>3, <3>1 DEF ReplayInv, ReplayTypes, HoldInv
    <3> QED
      BY <2>3, <3>1, <3>2 DEF Replay!Observe, Replay!Least
  <2> QED
    BY <2>1, <2>2, <2>3
<1>10. /\ replayClock' \in [elapsed : Int, runs : BOOLEAN]
       /\ replayPhase' = "replaying" => replayClock'.elapsed = e /\ replayClock'.runs = Replay!Pressed
  <2>1. Replay!Pressed \in BOOLEAN
    BY DEF Replay!Pressed
  <2>2. CASE /\ replayPhase' = "replaying"
             /\ replayClock' = [elapsed |-> e, runs |-> Replay!Pressed]
    BY <1>3, <2>1, <2>2
  <2>3. CASE replayPhase' = "returning" /\ replayClock' = Replay!Stopped
    BY <2>3 DEF Replay!Stopped
  <2> QED
    BY <1>6, <2>2, <2>3
<1>11. ReplayTypes'
  BY <1>1, <1>2, <1>5, <1>8, <1>9, <1>10, Unanswered DEF ReplayInv, ReplayTypes
<1>12. HoldInv'
  BY <1>3, <1>4, <1>9, <1>10 DEF ReplayInv, ReplayTypes, HoldInv
<1> QED
  BY <1>6, <1>11, <1>12 DEF ReplayInv, EarnInv

LEMMA ReplayInvStep == ReplayInv /\ [Replay!Next]_replay => ReplayInv'
<1> SUFFICES ASSUME ReplayInv, Replay!ReplayNext, Replay!Observe PROVE ReplayInv'
  BY DEF Replay!Next, replay, ReplayInv, ReplayTypes, HoldInv, EarnInv, Uncounted
<1> USE DEF Replay!path
<1>1. CASE Replay!StartApproach
  <2>1. /\ target' = None /\ stable' = 0 /\ replayClock' = Replay!Stopped /\ mapped' = -1
        /\ solved' = solved /\ replayPhase = "armed" /\ replayPhase' \in {"start_pending", "armed"}
    BY <1>1 DEF Replay!StartApproach
  <2>2. drift' \in {0, drift} /\ solutions' \in Nat
    BY <2>1, Unmoved
  <2> QED
    BY <2>1, <2>2, ReplayConstants
    DEF ReplayInv, ReplayTypes, HoldInv, EarnInv, Replay!Stopped
<1>2. CASE Replay!CancelKey
  BY <1>2, Elsewhere DEF Replay!CancelKey, Replay!BeginReturn
<1>3. CASE Replay!ReplayKey
  <2>1. /\ UNCHANGED <<target, solved>> /\ stable' = 0 /\ mapped' = 0
        /\ replayClock' = Replay!Stopped /\ replayPhase' = "replaying"
    BY <1>3 DEF Replay!ReplayKey
  <2>2. drift' \in {0, drift} /\ solutions' \in Nat
    BY <2>1, Unmoved
  <2> QED
    BY <2>1, <2>2 DEF ReplayInv, ReplayTypes, HoldInv, EarnInv, Replay!Stopped
<1>4. CASE Replay!QuitKey
  BY <1>4, Elsewhere, Zenon DEF Replay!QuitKey, Replay!BeginReturn
<1>5. CASE Replay!SolvedPose
  <2>1. PICK at \in {target, None} : solved' = [at |-> at, answers |-> TRUE]
    BY <1>5 DEF Replay!SolvedPose
  <2>2. UNCHANGED <<replayPhase, replayClock, mapped, target, stable>> /\ target # None
    BY <1>5 DEF Replay!SolvedPose
  <2>3. drift' \in {0, drift} /\ solutions' \in Nat
    BY <2>2, Unmoved
  <2>4. solved' \in [at : Int \cup {None}, answers : BOOLEAN]
    BY <2>1 DEF ReplayInv, ReplayTypes
  <2>5. replayPhase # "start_pending" =>
          \/ solutions' >= solutions /\ (Uncounted' => Uncounted)
          \/ solutions' >= solutions + 1 \/ solutions' >= StableTicks
    BY <2>1, <2>2, ReplayConstants
    DEF ReplayInv, ReplayTypes, Replay!Observe, Replay!Least, Uncounted, First
  <2>6. EarnInv'
    BY <2>2, <2>3, <2>5, ReplayConstants DEF ReplayInv, ReplayTypes, EarnInv
  <2> QED
    BY <2>2, <2>3, <2>4, <2>6 DEF ReplayInv, ReplayTypes, HoldInv
<1>6. CASE Replay!BadFrame
  BY <1>6, Elsewhere DEF Replay!BadFrame
<1>7. CASE Replay!ArmedTick
  BY <1>7, Elsewhere DEF Replay!ArmedTick
<1>8. CASE Replay!ReturningTick
  <2>1. CASE Replay!CompleteReturn
    <3>1. /\ target' = None /\ stable' = 0 /\ replayClock' = Replay!Stopped /\ mapped' = -1
          /\ solved' = solved /\ replayPhase' \in {"closed", "armed"}
      BY <1>8, <2>1 DEF Replay!ReturningTick, Replay!CompleteReturn
    <3>2. drift' \in {0, drift} /\ solutions' \in Nat
      BY <3>1, Unmoved
    <3> QED
      BY <3>1, <3>2, ReplayConstants
      DEF ReplayInv, ReplayTypes, HoldInv, EarnInv, Replay!Stopped
  <2>2. CASE Replay!ReturnOverdue \/ UNCHANGED <<replayPhase, error, home, Replay!path>>
    BY <1>8, <2>2, Elsewhere DEF Replay!ReturningTick, Replay!ReturnOverdue
  <2> QED
    BY <1>8, <2>1, <2>2 DEF Replay!ReturningTick
<1>9. CASE Replay!RealLost
  BY <1>9, Elsewhere DEF Replay!RealLost, Replay!BeginReturn
<1>10. CASE Replay!StartPendingTick
  <2>1. /\ replayPhase = "start_pending"
        /\ UNCHANGED <<replayClock, mapped, target, stable, solved>>
    BY <1>10 DEF Replay!StartPendingTick
  <2>2. replayPhase' \in {"approaching", "armed", "start_pending"}
    BY <1>10, Zenon DEF Replay!StartPendingTick
  <2>3. drift' \in {0, drift} /\ solutions' \in Nat
    BY <2>1, Unmoved
  <2>4. target = None /\ stable = 0 /\ ~Uncounted'
    BY <2>1, ReplayConstants DEF ReplayInv, EarnInv, Uncounted
  <2> QED
    BY <2>1, <2>2, <2>3, <2>4 DEF ReplayInv, ReplayTypes, HoldInv, EarnInv
<1>11. CASE Replay!ApproachTick
  BY <1>11, ApproachKeeps
<1>12. CASE Replay!ReadyTick
  <2>1. /\ replayPhase = "ready" /\ Replay!PublishTargets
        /\ UNCHANGED <<replayPhase, replayClock, mapped, target, stable>>
    BY <1>12 DEF Replay!ReadyTick
  <2>2. drift' \in {0, drift} /\ solutions' = solutions
    BY <2>1, Unmoved DEF Replay!Observe, Replay!PublishTargets
  <2> QED
    BY <2>1, <2>2, Unanswered DEF ReplayInv, ReplayTypes, HoldInv, EarnInv
<1>13. CASE Replay!ReplayTick
  BY <1>13, ReplayKeeps
<1>14. CASE Replay!FaultTick
  BY <1>14, Elsewhere DEF Replay!FaultTick
<1>15. CASE Replay!Hand
  BY <1>15, Elsewhere DEF Replay!Hand
<1>16. CASE Replay!Break
  BY <1>16, Elsewhere DEF Replay!Break
<1>17. CASE Replay!Hear
  BY <1>17, Elsewhere DEF Replay!Hear, Replay!HearState, Replay!HearLatch, Replay!Untouched
<1> QED
  BY <1>1, <1>2, <1>3, <1>4, <1>5, <1>6, <1>7, <1>8, <1>9, <1>10, <1>11, <1>12, <1>13, <1>14,
     <1>15, <1>16, <1>17
  DEF Replay!ReplayNext, Replay!Keyboard, Replay!NodeTick

LEMMA ReplayInvariant == SurroundingsSpec => []ReplayInv
<1>1. SurroundingsInit => ReplayInv
  <2>1. SurroundingsInit => Replay!Init
    BY DEF SurroundingsInit
  <2>2. Replay!Init => ReplayInv
    BY ReplayConstants
    DEF Replay!Init, Replay!ReplayInit, Replay!Stopped,
        ReplayInv, ReplayTypes, HoldInv, EarnInv
  <2> QED
    BY <2>1, <2>2
<1>2. ReplayInv /\ [SurroundingsNext]_all => ReplayInv'
  BY ReplayMoves, ReplayInvStep
<1> QED
  BY <1>1, <1>2, PTL DEF SurroundingsSpec, all

\* With Enter released the target of the replay stays where it is, but for the interval
\* of the release (HoldToRunClock.update, _read_deadman).
THEOREM EnterIsHeld == SurroundingsSpec => []EnterHolds
<1>1. ReplayInv => EnterHolds
  BY DEF ReplayInv, HoldInv, EnterHolds, Replay!EnterHolds
<1> QED
  BY <1>1, ReplayInvariant, PTL

\* A replay is offered only after as many solutions of its first frame as there are
\* stable ticks, each of them counted once (_target_is_stable).
THEOREM ReadyWasEarned == SurroundingsSpec => []ReadyIsEarned
<1>1. ReplayInv => ReadyIsEarned
  BY ReplayConstants
  DEF ReplayInv, ReplayTypes, EarnInv, ReadyIsEarned, Replay!ReadyIsEarned, First
<1> QED
  BY <1>1, ReplayInvariant, PTL

-----------------------------------------------------------------------------
(* Records of process groups.                                              *)

Records == Sessions \X Nat

\* Whatever a has of a session was launched before what b has of it.
Below(a, b) == \A x \in a, y \in b : x[1] = y[1] => x[2] < y[2]

\* In the order of their launch, and in the reverse of it.
Rising(q) == \A i, j \in 1 .. Len(q) : i < j /\ q[i][1] = q[j][1] => q[i][2] < q[j][2]
Falling(q) == \A i, j \in 1 .. Len(q) : i < j /\ q[i][1] = q[j][1] => q[j][2] < q[i][2]

LEMMA EmptySequence == <<>> \in Seq(Records) /\ Guard!ToSet(<<>>) = {} /\ Rising(<<>>) /\ Falling(<<>>)
BY DEF Guard!ToSet, Rising, Falling

LEMMA Appended ==
  ASSUME NEW q \in Seq(Records), NEW x \in Records
  PROVE  /\ Append(q, x) \in Seq(Records)
         /\ Guard!ToSet(Append(q, x)) = Guard!ToSet(q) \cup {x}
         /\ Rising(q) /\ Below(Guard!ToSet(q), {x}) => Rising(Append(q, x))
         /\ Falling(q) /\ Below({x}, Guard!ToSet(q)) => Falling(Append(q, x))
<1> DEFINE p == Append(q, x)
<1>1. /\ p \in Seq(Records) /\ Len(p) = Len(q) + 1 /\ Len(q) \in Nat
      /\ \A i \in 1 .. Len(q) : p[i] = q[i]
      /\ p[Len(q) + 1] = x
      /\ DOMAIN p = 1 .. Len(q) + 1 /\ DOMAIN q = 1 .. Len(q)
  OBVIOUS
<1> HIDE DEF p
<1>2. Guard!ToSet(p) = Guard!ToSet(q) \cup {x}
  BY <1>1 DEF Guard!ToSet
<1>3. Rising(q) /\ Below(Guard!ToSet(q), {x}) => Rising(p)
  BY <1>1 DEF Guard!ToSet, Rising, Below
<1>4. Falling(q) /\ Below({x}, Guard!ToSet(q)) => Falling(p)
  <2> SUFFICES ASSUME Falling(q), Below({x}, Guard!ToSet(q)), NEW i \in 1 .. Len(p),
                      NEW j \in 1 .. Len(p), i < j, p[i][1] = p[j][1]
               PROVE  p[j][2] < p[i][2]
    BY DEF Falling
  <2>1. CASE j = Len(q) + 1
    BY <1>1, <2>1 DEF Guard!ToSet, Below
  <2>2. CASE j # Len(q) + 1
    BY <1>1, <2>2 DEF Falling
  <2> QED
    BY <2>1, <2>2
<1> QED
  BY <1>1, <1>2, <1>3, <1>4 DEF p

LEMMA LastTaken ==
  ASSUME NEW q \in Seq(Records), q # <<>>
  PROVE  /\ Guard!Last(q) \in Records /\ Guard!Front(q) \in Seq(Records)
         /\ Guard!ToSet(q) = Guard!ToSet(Guard!Front(q)) \cup {Guard!Last(q)}
         /\ Rising(q) => /\ Rising(Guard!Front(q))
                         /\ Below(Guard!ToSet(Guard!Front(q)), {Guard!Last(q)})
         /\ Falling(q) => /\ Falling(Guard!Front(q))
                          /\ Below({Guard!Last(q)}, Guard!ToSet(Guard!Front(q)))
<1> DEFINE p == Guard!Front(q)
           x == Guard!Last(q)
<1>1. /\ p \in Seq(Records) /\ Len(p) = Len(q) - 1 /\ Len(q) \in Nat \ {0}
      /\ \A i \in 1 .. Len(q) - 1 : p[i] = q[i]
      /\ q[Len(q)] = x /\ x \in Records
      /\ DOMAIN p = 1 .. Len(q) - 1 /\ DOMAIN q = 1 .. Len(q)
  <2>1. Len(q) \in Nat \ {0} /\ DOMAIN q = 1 .. Len(q) /\ x = q[Len(q)] /\ x \in Records
    BY DEF Guard!Last
  <2>2. p = [i \in 1 .. Len(q) - 1 |-> q[i]]
    BY <2>1 DEF Guard!Front
  <2>3. \A i \in 1 .. Len(q) - 1 : q[i] \in Records
    BY <2>1
  <2>4. p \in Seq(Records) /\ Len(p) = Len(q) - 1
    BY <2>1, <2>2, <2>3
  <2> QED
    BY <2>1, <2>2, <2>4
<1> HIDE DEF p, x
<1>2. Guard!ToSet(q) = Guard!ToSet(p) \cup {x}
  BY <1>1 DEF Guard!ToSet
<1>3. Rising(q) => Rising(p) /\ Below(Guard!ToSet(p), {x})
  BY <1>1 DEF Guard!ToSet, Rising, Below
<1>4. Falling(q) => Falling(p) /\ Below({x}, Guard!ToSet(p))
  BY <1>1 DEF Guard!ToSet, Falling, Below
<1> QED
  BY <1>1, <1>2, <1>3, <1>4 DEF p, x

-----------------------------------------------------------------------------
(* The guard of a profile.                                                 *)

LEMMA GuardMoves == [SurroundingsNext]_all => [Guard!Next]_guard
BY DEF SurroundingsNext, all

Lockers == {"locked", "reclaiming", "reclaimed", "creating", "removing"}
Owners == {"holding", "launching", "stopping", "stopped"}

GuardTypes ==
  /\ lock \in Sessions \cup {None}
  /\ owner \in Sessions \cup {None}
  /\ children \in Seq(Records)
  /\ living \subseteq Records
  /\ guardAt \in [Sessions -> Lockers \cup Owners \cup {"new", "gone"}]
  /\ launched \in [Sessions -> Nat]
  /\ todo \in [Sessions -> Seq(Records)]
  /\ guardFailed \in [Sessions -> Seq(Records)]

\* One session at a time works at the guard: by the lock, or as its owner.
TakenInv ==
  /\ \A s \in Sessions :
       /\ guardAt[s] \in Lockers <=> lock = s
       /\ guardAt[s] \in Owners => dir /\ owner = s
       /\ guardAt[s] \in {"creating", "removing"} => dir /\ owner = None /\ children = <<>>
       /\ guardAt[s] \in {"reclaiming", "reclaimed"} => dir /\ (owner # None => guardAt[owner] = "gone")
  /\ owner # None => guardAt[owner] \in Owners \cup {"gone"}
  /\ ~dir => owner = None /\ children = <<>>

\* A component that lives is on record, unless it escaped, or about to be.
OnRecord(c) ==
  \/ c \in Guard!ToSet(children)
  \/ \E s \in Sessions : guardAt[s] = "launching" /\ c = <<s, launched[s]>>
  \/ \E s \in Sessions : guardAt[s] \in {"reclaimed", "stopped"} /\ c \in Guard!ToSet(guardFailed[s])

Recorded == \A c \in living \ escaped : OnRecord(c)

\* A clean-up has what lives and is on record still to stop, or could not.
CleanUps ==
  \A s \in Sessions : Guard!Cleaning(s) =>
    living \cap Guard!ToSet(children) \subseteq Guard!ToSet(todo[s]) \cup Guard!ToSet(guardFailed[s])

\* A session that launches has only its own components on record.
Holdings ==
  \A s \in Sessions : guardAt[s] \in {"holding", "launching"} =>
    \A c \in Guard!ToSet(children) :
      /\ c[1] = s /\ c[2] <= launched[s]
      /\ guardAt[s] = "launching" => c[2] < launched[s]

RecordInv == Recorded /\ CleanUps /\ Holdings

\* Records are in the order of their launch, and what a clean-up could not stop is in
\* the reverse of it, before what it has still to stop.
OrderedInv ==
  /\ Rising(children)
  /\ \A s \in Sessions :
       /\ Guard!Cleaning(s) =>
            /\ Rising(todo[s]) /\ Falling(guardFailed[s])
            /\ Below(Guard!ToSet(todo[s]), Guard!ToSet(guardFailed[s]))
       /\ guardAt[s] \in {"reclaimed", "stopped"} =>
            /\ Falling(guardFailed[s])
            /\ Below(Guard!ToSet(children), Guard!ToSet(guardFailed[s]))

GuardInv == GuardTypes /\ TakenInv /\ RecordInv /\ OrderedInv

LEMMA GuardConstants == None \notin Sessions
BY ComponentsAssumption DEF Guard!RunGuardAssumption

LEMMA GuardTypesStep == ASSUME GuardTypes, Guard!RunGuardNext PROVE GuardTypes'
<1> USE DEF GuardTypes, Lockers, Owners
<1>1. ASSUME NEW s \in Sessions, Guard!Lock(s) PROVE GuardTypes'
  BY <1>1 DEF Guard!Lock, Guard!Goes
<1>2. ASSUME NEW s \in Sessions, Guard!Reject(s) PROVE GuardTypes'
  BY <1>2 DEF Guard!Reject, Guard!Goes
<1>3. ASSUME NEW s \in Sessions, Guard!Reclaim(s) PROVE GuardTypes'
  BY <1>3, EmptySequence DEF Guard!Reclaim, Guard!BeginCleanup, Guard!Goes
<1>4. ASSUME NEW s \in Sessions, Guard!StopLast(s) PROVE GuardTypes'
  <2> DEFINE record == Guard!Last(todo[s])
             rest == Guard!Front(todo[s])
  <2>1. todo[s] \in Seq(Records) /\ todo[s] # <<>> /\ guardFailed[s] \in Seq(Records)
    BY <1>4 DEF Guard!StopLast
  <2>2. record \in Records /\ rest \in Seq(Records)
    BY <2>1, LastTaken
  <2>3. Append(guardFailed[s], record) \in Seq(Records)
    BY <2>1, <2>2, Appended
  <2>4. /\ todo' = [todo EXCEPT ![s] = rest]
        /\ living' \subseteq living
        /\ \/ guardFailed' = guardFailed
           \/ guardFailed' = [guardFailed EXCEPT ![s] = Append(@, record)]
        /\ UNCHANGED <<lock, owner, children, guardAt, launched>>
    BY <1>4 DEF Guard!StopLast
  <2> HIDE DEF record, rest
  <2> QED
    BY <2>2, <2>3, <2>4
<1>5. ASSUME NEW s \in Sessions, Guard!EmptyRecords(s) PROVE GuardTypes'
  BY <1>5, EmptySequence DEF Guard!EmptyRecords, Guard!Cleaning, Guard!Goes
<1>6. ASSUME NEW s \in Sessions, Guard!KeepRecord(s) PROVE GuardTypes'
  BY <1>6, LastTaken, Appended DEF Guard!KeepRecord, Guard!Goes
<1>7. ASSUME NEW s \in Sessions, Guard!Reclaimed(s) PROVE GuardTypes'
  BY <1>7 DEF Guard!Reclaimed, Guard!Goes
<1>8. ASSUME NEW s \in Sessions, Guard!MakeDirectory(s) PROVE GuardTypes'
  BY <1>8 DEF Guard!MakeDirectory, Guard!Goes
<1>9. ASSUME NEW s \in Sessions, Guard!Own(s) PROVE GuardTypes'
  BY <1>9, EmptySequence DEF Guard!Own, Guard!Goes
<1>10. ASSUME NEW s \in Sessions, Guard!Launch(s) PROVE GuardTypes'
  <2> DEFINE c == <<s, launched[s] + 1>>
  <2>1. launched[s] \in Nat /\ launched[s] + 1 \in Nat
    OBVIOUS
  <2>2. c \in Records
    BY <2>1 DEF Records
  <2>3. living' = living \cup {c}
    BY <1>10 DEF Guard!Launch
  <2>4. living' \subseteq Records
    BY <2>2, <2>3
  <2>5. launched' \in [Sessions -> Nat]
    BY <1>10, <2>1 DEF Guard!Launch
  <2>6. guardAt' \in [Sessions -> Lockers \cup Owners \cup {"new", "gone"}]
    BY <1>10 DEF Guard!Launch, Guard!Goes, Lockers, Owners
  <2>7. UNCHANGED <<lock, owner, children, todo, guardFailed>>
    BY <1>10 DEF Guard!Launch
  <2> HIDE DEF c
  <2> QED
    BY <2>4, <2>5, <2>6, <2>7 DEF Lockers, Owners
<1>11. ASSUME NEW s \in Sessions, Guard!Register(s) PROVE GuardTypes'
  BY <1>11, Appended DEF Guard!Register, Guard!Goes
<1>12. ASSUME NEW s \in Sessions, Guard!Exit(s) PROVE GuardTypes'
  BY <1>12, EmptySequence DEF Guard!Exit, Guard!BeginCleanup, Guard!Goes
<1>13. ASSUME NEW s \in Sessions, Guard!GiveUp(s) PROVE GuardTypes'
  BY <1>13 DEF Guard!GiveUp, Guard!Goes
<1>14. ASSUME NEW s \in Sessions, Guard!Release(s) PROVE GuardTypes'
  BY <1>14 DEF Guard!Release, Guard!Goes
<1>15. ASSUME NEW s \in Sessions, Guard!RemoveDirectory(s) PROVE GuardTypes'
  BY <1>15 DEF Guard!RemoveDirectory, Guard!Goes
<1>16. ASSUME NEW s \in Sessions, Guard!Killed(s) PROVE GuardTypes'
  BY <1>16 DEF Guard!Killed, Guard!Goes
<1>17. ASSUME Guard!ComponentDies PROVE GuardTypes'
  BY <1>17 DEF Guard!ComponentDies
<1> QED
  BY <1>1, <1>2, <1>3, <1>4, <1>5, <1>6, <1>7, <1>8, <1>9, <1>10, <1>11, <1>12, <1>13,
     <1>14, <1>15, <1>16, <1>17 DEF Guard!RunGuardNext

LEMMA TakenStep == ASSUME GuardTypes, TakenInv, Guard!RunGuardNext PROVE TakenInv'
<1> USE DEF GuardTypes, TakenInv, Lockers, Owners, Guard!Running
<1>1. ASSUME NEW s \in Sessions, Guard!Lock(s) PROVE TakenInv'
  BY <1>1, GuardConstants DEF Guard!Lock, Guard!Goes
<1>2. ASSUME NEW s \in Sessions, Guard!Reject(s) PROVE TakenInv'
  BY <1>2, GuardConstants DEF Guard!Reject, Guard!Goes
<1>3. ASSUME NEW s \in Sessions, Guard!Reclaim(s) PROVE TakenInv'
  BY <1>3, GuardConstants DEF Guard!Reclaim, Guard!BeginCleanup, Guard!Goes
<1>4. ASSUME NEW s \in Sessions, Guard!StopLast(s) PROVE TakenInv'
  BY <1>4, GuardConstants DEF Guard!StopLast, Guard!Cleaning
<1>5. ASSUME NEW s \in Sessions, Guard!EmptyRecords(s) PROVE TakenInv'
  BY <1>5, GuardConstants DEF Guard!EmptyRecords, Guard!Cleaning, Guard!Goes
<1>6. ASSUME NEW s \in Sessions, Guard!KeepRecord(s) PROVE TakenInv'
  BY <1>6, GuardConstants DEF Guard!KeepRecord, Guard!Goes
<1>7. ASSUME NEW s \in Sessions, Guard!Reclaimed(s) PROVE TakenInv'
  BY <1>7, GuardConstants DEF Guard!Reclaimed, Guard!Goes
<1>8. ASSUME NEW s \in Sessions, Guard!MakeDirectory(s) PROVE TakenInv'
  BY <1>8, GuardConstants DEF Guard!MakeDirectory, Guard!Goes
<1>9. ASSUME NEW s \in Sessions, Guard!Own(s) PROVE TakenInv'
  BY <1>9, GuardConstants DEF Guard!Own, Guard!Goes
<1>10. ASSUME NEW s \in Sessions, Guard!Launch(s) PROVE TakenInv'
  BY <1>10, GuardConstants DEF Guard!Launch, Guard!Goes
<1>11. ASSUME NEW s \in Sessions, Guard!Register(s) PROVE TakenInv'
  BY <1>11, GuardConstants DEF Guard!Register, Guard!Goes
<1>12. ASSUME NEW s \in Sessions, Guard!Exit(s) PROVE TakenInv'
  BY <1>12, GuardConstants DEF Guard!Exit, Guard!BeginCleanup, Guard!Goes
<1>13. ASSUME NEW s \in Sessions, Guard!GiveUp(s) PROVE TakenInv'
  BY <1>13, GuardConstants DEF Guard!GiveUp, Guard!Goes
<1>14. ASSUME NEW s \in Sessions, Guard!Release(s) PROVE TakenInv'
  BY <1>14, GuardConstants DEF Guard!Release, Guard!Goes
<1>15. ASSUME NEW s \in Sessions, Guard!RemoveDirectory(s) PROVE TakenInv'
  BY <1>15, GuardConstants DEF Guard!RemoveDirectory, Guard!Goes
<1>16. ASSUME NEW s \in Sessions, Guard!Killed(s) PROVE TakenInv'
  BY <1>16, GuardConstants DEF Guard!Killed, Guard!Goes
<1>17. ASSUME Guard!ComponentDies PROVE TakenInv'
  BY <1>17 DEF Guard!ComponentDies
<1> QED
  BY <1>1, <1>2, <1>3, <1>4, <1>5, <1>6, <1>7, <1>8, <1>9, <1>10, <1>11, <1>12, <1>13,
     <1>14, <1>15, <1>16, <1>17 DEF Guard!RunGuardNext

\* Two sessions at work are one.
LEMMA Alone ==
  ASSUME GuardTypes, TakenInv, NEW s \in Sessions, NEW t \in Sessions,
         guardAt[s] \in (Lockers \cup Owners) \ {"locked"},
         guardAt[t] \in (Lockers \cup Owners) \ {"locked"}
  PROVE  s = t
BY GuardConstants DEF GuardTypes, TakenInv, Lockers, Owners

\* A record that a kill or a signal leaves behind escapes, and for good.
LEMMA EscapesGrow == ASSUME Guard!Escapes PROVE escaped \subseteq escaped'
BY DEF Guard!Escapes

LEMMA LeavingEscapes ==
  ASSUME Guard!Escapes, NEW s \in Sessions, guardAt'[s] # guardAt[s],
         Guard!Killed(s) \/ Guard!Exit(s)
  PROVE  Guard!Unrecorded(s) \subseteq escaped'
<1> DEFINE Leaving == {t \in Sessions : guardAt[t] # guardAt'[t] /\ (Guard!Killed(t) \/ Guard!Exit(t))}
<1>1. escaped' = escaped \cup UNION {Guard!Unrecorded(t) : t \in Leaving}
  BY DEF Guard!Escapes
<1>2. s \in Leaving
  OBVIOUS
<1> HIDE DEF Leaving
<1> QED
  BY <1>1, <1>2

LEMMA RecordedStep ==
  ASSUME GuardTypes, TakenInv, Recorded, CleanUps, Guard!Next
  PROVE  Recorded'
<1> USE DEF GuardTypes, TakenInv, Recorded
<1>1. ASSUME NEW s \in Sessions, Guard!Lock(s), Guard!Escapes PROVE Recorded'
  <2>1. living' \ escaped' \subseteq living \ escaped
    BY <1>1, EscapesGrow DEF Guard!Lock, Guard!Goes
  <2> SUFFICES ASSUME NEW c \in living \ escaped, OnRecord(c) PROVE OnRecord(c)'
    BY <2>1
  <2> QED
    BY <1>1, EmptySequence DEF Guard!Lock, Guard!Goes, OnRecord
<1>2. ASSUME NEW s \in Sessions, Guard!Reject(s), Guard!Escapes PROVE Recorded'
  <2>1. living' \ escaped' \subseteq living \ escaped
    BY <1>2, EscapesGrow DEF Guard!Reject, Guard!Goes
  <2> SUFFICES ASSUME NEW c \in living \ escaped, OnRecord(c) PROVE OnRecord(c)'
    BY <2>1
  <2> QED
    BY <1>2, EmptySequence DEF Guard!Reject, Guard!Goes, OnRecord
<1>3. ASSUME NEW s \in Sessions, Guard!Reclaim(s), Guard!Escapes PROVE Recorded'
  <2>1. living' \ escaped' \subseteq living \ escaped
    BY <1>3, EscapesGrow DEF Guard!Reclaim, Guard!BeginCleanup, Guard!Goes
  <2> SUFFICES ASSUME NEW c \in living \ escaped, OnRecord(c) PROVE OnRecord(c)'
    BY <2>1
  <2> QED
    BY <1>3, EmptySequence DEF Guard!Reclaim, Guard!BeginCleanup, Guard!Goes, OnRecord
<1>4. ASSUME NEW s \in Sessions, Guard!StopLast(s), Guard!Escapes PROVE Recorded'
  <2>1. living' \ escaped' \subseteq living \ escaped
    BY <1>4, EscapesGrow DEF Guard!StopLast, Guard!Cleaning
  <2>2. /\ \A t \in Sessions \ {s} : guardFailed'[t] = guardFailed[t]
        /\ guardAt[s] \in {"reclaiming", "stopping"}
        /\ UNCHANGED <<children, guardAt, launched>>
    BY <1>4 DEF Guard!StopLast, Guard!Cleaning
  <2> SUFFICES ASSUME NEW c \in living \ escaped, OnRecord(c) PROVE OnRecord(c)'
    BY <2>1
  <2> QED
    BY <2>2 DEF OnRecord
<1>5. ASSUME NEW s \in Sessions, Guard!EmptyRecords(s), Guard!Escapes PROVE Recorded'
  <2>1. living' \ escaped' \subseteq living \ escaped
    BY <1>5, EscapesGrow DEF Guard!EmptyRecords, Guard!Cleaning, Guard!Goes
  <2> SUFFICES ASSUME NEW c \in living \ escaped, OnRecord(c) PROVE OnRecord(c)'
    BY <2>1
  <2>2. CASE c \in Guard!ToSet(children)
    <3>1. c \in Guard!ToSet(guardFailed[s])
      BY <1>5, <2>2, EmptySequence DEF Guard!EmptyRecords, CleanUps
    <3>2. guardAt'[s] \in {"reclaimed", "stopped"} /\ guardFailed' = guardFailed
      BY <1>5 DEF Guard!EmptyRecords, Guard!Cleaning, Guard!Goes
    <3> QED
      BY <3>1, <3>2 DEF OnRecord
  <2>3. CASE c \notin Guard!ToSet(children)
    BY <1>5, <2>3 DEF Guard!EmptyRecords, Guard!Cleaning, Guard!Goes, OnRecord
  <2> QED
    BY <2>2, <2>3
<1>6. ASSUME NEW s \in Sessions, Guard!KeepRecord(s), Guard!Escapes PROVE Recorded'
  <2> DEFINE record == Guard!Last(guardFailed[s])
             rest == Guard!Front(guardFailed[s])
  <2>1. living' \ escaped' \subseteq living \ escaped
    BY <1>6, EscapesGrow DEF Guard!KeepRecord, Guard!Goes
  <2>2. guardFailed[s] \in Seq(Records) /\ guardFailed[s] # <<>>
    BY <1>6 DEF Guard!KeepRecord
  <2>3. record \in Records /\ Guard!ToSet(guardFailed[s]) = Guard!ToSet(rest) \cup {record}
    BY <2>2, LastTaken
  <2>4. Guard!ToSet(Append(children, record)) = Guard!ToSet(children) \cup {record}
    BY <2>3, Appended
  <2>5. /\ children' = Append(children, record)
        /\ guardFailed' = [guardFailed EXCEPT ![s] = rest]
        /\ UNCHANGED <<guardAt, launched>>
    BY <1>6 DEF Guard!KeepRecord
  <2> HIDE DEF record, rest
  <2> SUFFICES ASSUME NEW c \in living \ escaped, OnRecord(c) PROVE OnRecord(c)'
    BY <2>1
  <2> QED
    BY <2>3, <2>4, <2>5 DEF OnRecord
<1>7. ASSUME NEW s \in Sessions, Guard!Reclaimed(s), Guard!Escapes PROVE Recorded'
  <2>1. living' \ escaped' \subseteq living \ escaped
    BY <1>7, EscapesGrow DEF Guard!Reclaimed, Guard!Goes
  <2> SUFFICES ASSUME NEW c \in living \ escaped, OnRecord(c) PROVE OnRecord(c)'
    BY <2>1
  <2> QED
    BY <1>7, EmptySequence DEF Guard!Reclaimed, Guard!Goes, OnRecord
<1>8. ASSUME NEW s \in Sessions, Guard!MakeDirectory(s), Guard!Escapes PROVE Recorded'
  <2>1. living' \ escaped' \subseteq living \ escaped
    BY <1>8, EscapesGrow DEF Guard!MakeDirectory, Guard!Goes
  <2> SUFFICES ASSUME NEW c \in living \ escaped, OnRecord(c) PROVE OnRecord(c)'
    BY <2>1
  <2> QED
    BY <1>8, EmptySequence DEF Guard!MakeDirectory, Guard!Goes, OnRecord
<1>9. ASSUME NEW s \in Sessions, Guard!Own(s), Guard!Escapes PROVE Recorded'
  <2>1. living' \ escaped' \subseteq living \ escaped
    BY <1>9, EscapesGrow DEF Guard!Own, Guard!Goes
  <2> SUFFICES ASSUME NEW c \in living \ escaped, OnRecord(c) PROVE OnRecord(c)'
    BY <2>1
  <2> QED
    BY <1>9, EmptySequence DEF Guard!Own, Guard!Goes, OnRecord
<1>10. ASSUME NEW s \in Sessions, Guard!Launch(s), Guard!Escapes PROVE Recorded'
  <2> SUFFICES ASSUME NEW c \in living' \ escaped' PROVE OnRecord(c)'
    OBVIOUS
  <2>1. CASE c = <<s, launched[s] + 1>>
    BY <1>10, <2>1 DEF Guard!Launch, Guard!Goes, OnRecord
  <2>2. CASE c # <<s, launched[s] + 1>>
    <3>1. OnRecord(c)
      BY <1>10, <2>2, EscapesGrow DEF Guard!Launch
    <3>2. /\ \A t \in Sessions \ {s} : guardAt'[t] = guardAt[t] /\ launched'[t] = launched[t]
          /\ guardAt[s] = "holding"
          /\ UNCHANGED <<children, guardFailed>>
      BY <1>10 DEF Guard!Launch, Guard!Goes
    <3> QED
      BY <3>1, <3>2 DEF OnRecord
  <2> QED
    BY <2>1, <2>2
<1>11. ASSUME NEW s \in Sessions, Guard!Register(s), Guard!Escapes PROVE Recorded'
  <2> DEFINE record == <<s, launched[s]>>
  <2>1. living' \ escaped' \subseteq living \ escaped
    BY <1>11, EscapesGrow DEF Guard!Register, Guard!Goes
  <2>2. record \in Records
    BY DEF Records
  <2>3. Guard!ToSet(Append(children, record)) = Guard!ToSet(children) \cup {record}
    BY <2>2, Appended
  <2>4. /\ children' = Append(children, record)
        /\ guardAt[s] = "launching"
        /\ \A t \in Sessions \ {s} : guardAt'[t] = guardAt[t]
        /\ UNCHANGED <<guardFailed, launched>>
    BY <1>11 DEF Guard!Register, Guard!Goes
  <2> SUFFICES ASSUME NEW c \in living \ escaped, OnRecord(c) PROVE OnRecord(c)'
    BY <2>1
  <2>5. CASE c = record
    BY <2>3, <2>4, <2>5 DEF OnRecord
  <2>6. CASE c # record
    BY <2>3, <2>4, <2>6 DEF OnRecord
  <2> QED
    BY <2>5, <2>6
<1>12. ASSUME NEW s \in Sessions, Guard!Exit(s), Guard!Escapes PROVE Recorded'
  <2>1. living' \ escaped' \subseteq living \ escaped
    BY <1>12, EscapesGrow DEF Guard!Exit, Guard!BeginCleanup, Guard!Goes
  <2>2. /\ guardAt'[s] # guardAt[s]
        /\ \A t \in Sessions \ {s} : guardAt'[t] = guardAt[t] /\ guardFailed'[t] = guardFailed[t]
        /\ UNCHANGED <<children, launched>>
    BY <1>12 DEF Guard!Exit, Guard!BeginCleanup, Guard!Goes, Guard!Running
  <2>3. Guard!Unrecorded(s) \subseteq escaped'
    BY <1>12, <2>2, LeavingEscapes
  <2> SUFFICES ASSUME NEW c \in living \ escaped, OnRecord(c), c \notin escaped' PROVE OnRecord(c)'
    BY <2>1
  <2>4. ~ (guardAt[s] = "launching" /\ c = <<s, launched[s]>>)
    BY <2>3 DEF Guard!Unrecorded
  <2>5. ~ (guardAt[s] \in {"reclaimed", "stopped"} /\ c \in Guard!ToSet(guardFailed[s]))
    BY <2>3 DEF Guard!Unrecorded
  <2> QED
    BY <2>2, <2>4, <2>5 DEF OnRecord
<1>13. ASSUME NEW s \in Sessions, Guard!GiveUp(s), Guard!Escapes PROVE Recorded'
  <2>1. living' \ escaped' \subseteq living \ escaped
    BY <1>13, EscapesGrow DEF Guard!GiveUp, Guard!Goes
  <2> SUFFICES ASSUME NEW c \in living \ escaped, OnRecord(c) PROVE OnRecord(c)'
    BY <2>1
  <2> QED
    BY <1>13, EmptySequence DEF Guard!GiveUp, Guard!Goes, OnRecord
<1>14. ASSUME NEW s \in Sessions, Guard!Release(s), Guard!Escapes PROVE Recorded'
  <2>1. living' \ escaped' \subseteq living \ escaped
    BY <1>14, EscapesGrow DEF Guard!Release, Guard!Goes
  <2> SUFFICES ASSUME NEW c \in living \ escaped, OnRecord(c) PROVE OnRecord(c)'
    BY <2>1
  <2> QED
    BY <1>14, EmptySequence DEF Guard!Release, Guard!Goes, OnRecord
<1>15. ASSUME NEW s \in Sessions, Guard!RemoveDirectory(s), Guard!Escapes PROVE Recorded'
  <2>1. living' \ escaped' \subseteq living \ escaped
    BY <1>15, EscapesGrow DEF Guard!RemoveDirectory, Guard!Goes
  <2> SUFFICES ASSUME NEW c \in living \ escaped, OnRecord(c) PROVE OnRecord(c)'
    BY <2>1
  <2> QED
    BY <1>15, EmptySequence DEF Guard!RemoveDirectory, Guard!Goes, OnRecord
<1>16. ASSUME NEW s \in Sessions, Guard!Killed(s), Guard!Escapes PROVE Recorded'
  <2>1. living' \ escaped' \subseteq living \ escaped
    BY <1>16, EscapesGrow DEF Guard!Killed, Guard!Goes
  <2>2. /\ guardAt'[s] # guardAt[s]
        /\ \A t \in Sessions \ {s} : guardAt'[t] = guardAt[t] /\ guardFailed'[t] = guardFailed[t]
        /\ UNCHANGED <<children, launched>>
    BY <1>16 DEF Guard!Killed, Guard!Goes, Guard!Running
  <2>3. Guard!Unrecorded(s) \subseteq escaped'
    BY <1>16, <2>2, LeavingEscapes
  <2> SUFFICES ASSUME NEW c \in living \ escaped, OnRecord(c), c \notin escaped' PROVE OnRecord(c)'
    BY <2>1
  <2>4. ~ (guardAt[s] = "launching" /\ c = <<s, launched[s]>>)
    BY <2>3 DEF Guard!Unrecorded
  <2>5. ~ (guardAt[s] \in {"reclaimed", "stopped"} /\ c \in Guard!ToSet(guardFailed[s]))
    BY <2>3 DEF Guard!Unrecorded
  <2> QED
    BY <2>2, <2>4, <2>5 DEF OnRecord
<1>17. ASSUME Guard!ComponentDies, Guard!Escapes PROVE Recorded'
  <2>1. living' \ escaped' \subseteq living \ escaped
    BY <1>17, EscapesGrow DEF Guard!ComponentDies
  <2> SUFFICES ASSUME NEW c \in living \ escaped, OnRecord(c) PROVE OnRecord(c)'
    BY <2>1
  <2> QED
    BY <1>17, EmptySequence DEF Guard!ComponentDies, OnRecord
<1> QED
  BY <1>1, <1>2, <1>3, <1>4, <1>5, <1>6, <1>7, <1>8, <1>9, <1>10, <1>11, <1>12, <1>13,
     <1>14, <1>15, <1>16, <1>17 DEF Guard!Next, Guard!RunGuardNext

LEMMA CleanUpsStep ==
  ASSUME GuardTypes, TakenInv, CleanUps, Guard!RunGuardNext
  PROVE  CleanUps'
<1> USE DEF GuardTypes
<1>1. ASSUME NEW s \in Sessions, Guard!Lock(s) PROVE CleanUps'
  <2>1. /\ \A t \in Sessions : Guard!Cleaning(t)' => Guard!Cleaning(t)
        /\ living' \subseteq living
        /\ UNCHANGED <<children, todo, guardFailed>>
    BY <1>1 DEF Guard!Lock, Guard!Goes, Guard!Cleaning
  <2> QED
    BY <2>1 DEF CleanUps
<1>2. ASSUME NEW s \in Sessions, Guard!Reject(s) PROVE CleanUps'
  <2>1. /\ \A t \in Sessions : Guard!Cleaning(t)' => Guard!Cleaning(t)
        /\ living' \subseteq living
        /\ UNCHANGED <<children, todo, guardFailed>>
    BY <1>2 DEF Guard!Reject, Guard!Goes, Guard!Cleaning
  <2> QED
    BY <2>1 DEF CleanUps
<1>3. ASSUME NEW s \in Sessions, Guard!Reclaim(s) PROVE CleanUps'
  <2>1. /\ \A t \in Sessions \ {s} : Guard!Cleaning(t)' => Guard!Cleaning(t)
        /\ \A t \in Sessions \ {s} : todo'[t] = todo[t] /\ guardFailed'[t] = guardFailed[t]
        /\ todo'[s] = children
        /\ UNCHANGED <<children, living>>
    BY <1>3 DEF Guard!Reclaim, Guard!BeginCleanup, Guard!Goes, Guard!Cleaning
  <2> QED
    BY <2>1 DEF CleanUps
<1>4. ASSUME NEW s \in Sessions, Guard!StopLast(s) PROVE CleanUps'
  <2> DEFINE record == Guard!Last(todo[s])
             rest == Guard!Front(todo[s])
  <2>1. todo[s] \in Seq(Records) /\ todo[s] # <<>> /\ guardFailed[s] \in Seq(Records)
    BY <1>4 DEF Guard!StopLast
  <2>2. record \in Records /\ Guard!ToSet(todo[s]) = Guard!ToSet(rest) \cup {record}
    BY <2>1, LastTaken
  <2>3. Guard!ToSet(Append(guardFailed[s], record)) = Guard!ToSet(guardFailed[s]) \cup {record}
    BY <2>1, <2>2, Appended
  <2>4. /\ todo' = [todo EXCEPT ![s] = rest]
        /\ \/ living' = living \ {record} /\ guardFailed' = guardFailed
           \/ /\ living' = living
              /\ guardFailed' = [guardFailed EXCEPT ![s] = Append(guardFailed[s], record)]
        /\ UNCHANGED <<children, guardAt>>
    BY <1>4 DEF Guard!StopLast
  <2> HIDE DEF record, rest
  <2> SUFFICES ASSUME NEW t \in Sessions, Guard!Cleaning(t), NEW c \in living' \cap Guard!ToSet(children)
               PROVE  c \in Guard!ToSet(todo'[t]) \cup Guard!ToSet(guardFailed'[t])
    BY <2>4 DEF CleanUps, Guard!Cleaning
  <2>5. c \in Guard!ToSet(todo[t]) \cup Guard!ToSet(guardFailed[t])
    BY <2>4 DEF CleanUps
  <2>6. CASE t # s
    BY <2>4, <2>5, <2>6
  <2>7. CASE t = s
    BY <2>2, <2>3, <2>4, <2>5, <2>7
  <2> QED
    BY <2>6, <2>7
<1>5. ASSUME NEW s \in Sessions, Guard!EmptyRecords(s) PROVE CleanUps'
  <2>1. \A t \in Sessions : ~ Guard!Cleaning(t)'
    BY <1>5, Alone DEF Guard!EmptyRecords, Guard!Cleaning, Guard!Goes, Guard!Cleaning, Lockers, Owners
  <2> QED
    BY <2>1 DEF CleanUps
<1>6. ASSUME NEW s \in Sessions, Guard!KeepRecord(s) PROVE CleanUps'
  <2>1. \A t \in Sessions : ~ Guard!Cleaning(t)'
    BY <1>6, Alone DEF Guard!KeepRecord, Guard!Goes, Guard!Cleaning, Lockers, Owners
  <2> QED
    BY <2>1 DEF CleanUps
<1>7. ASSUME NEW s \in Sessions, Guard!Reclaimed(s) PROVE CleanUps'
  <2>1. /\ \A t \in Sessions : Guard!Cleaning(t)' => Guard!Cleaning(t)
        /\ living' \subseteq living
        /\ UNCHANGED <<children, todo, guardFailed>>
    BY <1>7 DEF Guard!Reclaimed, Guard!Goes, Guard!Cleaning
  <2> QED
    BY <2>1 DEF CleanUps
<1>8. ASSUME NEW s \in Sessions, Guard!MakeDirectory(s) PROVE CleanUps'
  <2>1. /\ \A t \in Sessions : Guard!Cleaning(t)' => Guard!Cleaning(t)
        /\ living' \subseteq living
        /\ UNCHANGED <<children, todo, guardFailed>>
    BY <1>8 DEF Guard!MakeDirectory, Guard!Goes, Guard!Cleaning
  <2> QED
    BY <2>1 DEF CleanUps
<1>9. ASSUME NEW s \in Sessions, Guard!Own(s) PROVE CleanUps'
  <2>1. \A t \in Sessions : ~ Guard!Cleaning(t)'
    BY <1>9, Alone DEF Guard!Own, Guard!Goes, Guard!Cleaning, Lockers, Owners
  <2> QED
    BY <2>1 DEF CleanUps
<1>10. ASSUME NEW s \in Sessions, Guard!Launch(s) PROVE CleanUps'
  <2>1. \A t \in Sessions : ~ Guard!Cleaning(t)'
    BY <1>10, Alone DEF Guard!Launch, Guard!Goes, Guard!Cleaning, Lockers, Owners
  <2> QED
    BY <2>1 DEF CleanUps
<1>11. ASSUME NEW s \in Sessions, Guard!Register(s) PROVE CleanUps'
  <2>1. \A t \in Sessions : ~ Guard!Cleaning(t)'
    BY <1>11, Alone DEF Guard!Register, Guard!Goes, Guard!Cleaning, Lockers, Owners
  <2> QED
    BY <2>1 DEF CleanUps
<1>12. ASSUME NEW s \in Sessions, Guard!Exit(s) PROVE CleanUps'
  <2>1. /\ \A t \in Sessions \ {s} : Guard!Cleaning(t)' => Guard!Cleaning(t)
        /\ \A t \in Sessions \ {s} : todo'[t] = todo[t] /\ guardFailed'[t] = guardFailed[t]
        /\ todo'[s] = children
        /\ UNCHANGED <<children, living>>
    BY <1>12 DEF Guard!Exit, Guard!BeginCleanup, Guard!Goes, Guard!Cleaning
  <2> QED
    BY <2>1 DEF CleanUps
<1>13. ASSUME NEW s \in Sessions, Guard!GiveUp(s) PROVE CleanUps'
  <2>1. /\ \A t \in Sessions : Guard!Cleaning(t)' => Guard!Cleaning(t)
        /\ living' \subseteq living
        /\ UNCHANGED <<children, todo, guardFailed>>
    BY <1>13 DEF Guard!GiveUp, Guard!Goes, Guard!Cleaning
  <2> QED
    BY <2>1 DEF CleanUps
<1>14. ASSUME NEW s \in Sessions, Guard!Release(s) PROVE CleanUps'
  <2>1. /\ \A t \in Sessions : Guard!Cleaning(t)' => Guard!Cleaning(t)
        /\ living' \subseteq living
        /\ UNCHANGED <<children, todo, guardFailed>>
    BY <1>14 DEF Guard!Release, Guard!Goes, Guard!Cleaning
  <2> QED
    BY <2>1 DEF CleanUps
<1>15. ASSUME NEW s \in Sessions, Guard!RemoveDirectory(s) PROVE CleanUps'
  <2>1. /\ \A t \in Sessions : Guard!Cleaning(t)' => Guard!Cleaning(t)
        /\ living' \subseteq living
        /\ UNCHANGED <<children, todo, guardFailed>>
    BY <1>15 DEF Guard!RemoveDirectory, Guard!Goes, Guard!Cleaning
  <2> QED
    BY <2>1 DEF CleanUps
<1>16. ASSUME NEW s \in Sessions, Guard!Killed(s) PROVE CleanUps'
  <2>1. /\ \A t \in Sessions : Guard!Cleaning(t)' => Guard!Cleaning(t)
        /\ living' \subseteq living
        /\ UNCHANGED <<children, todo, guardFailed>>
    BY <1>16 DEF Guard!Killed, Guard!Goes, Guard!Cleaning
  <2> QED
    BY <2>1 DEF CleanUps
<1>17. ASSUME Guard!ComponentDies PROVE CleanUps'
  <2>1. /\ \A t \in Sessions : Guard!Cleaning(t)' => Guard!Cleaning(t)
        /\ living' \subseteq living
        /\ UNCHANGED <<children, todo, guardFailed>>
    BY <1>17 DEF Guard!ComponentDies, Guard!Cleaning
  <2> QED
    BY <2>1 DEF CleanUps
<1> QED
  BY <1>1, <1>2, <1>3, <1>4, <1>5, <1>6, <1>7, <1>8, <1>9, <1>10, <1>11, <1>12, <1>13,
     <1>14, <1>15, <1>16, <1>17 DEF Guard!RunGuardNext

LEMMA HoldingsStep ==
  ASSUME GuardTypes, TakenInv, Holdings, Guard!RunGuardNext
  PROVE  Holdings'
<1> USE DEF GuardTypes
<1>1. ASSUME NEW s \in Sessions, Guard!Lock(s) PROVE Holdings'
  <2>1. /\ \A t \in Sessions : guardAt'[t] \in {"holding", "launching"} => guardAt'[t] = guardAt[t]
        /\ UNCHANGED <<children, launched>>
    BY <1>1 DEF Guard!Lock, Guard!Goes
  <2> QED
    BY <2>1 DEF Holdings
<1>2. ASSUME NEW s \in Sessions, Guard!Reject(s) PROVE Holdings'
  <2>1. /\ \A t \in Sessions : guardAt'[t] \in {"holding", "launching"} => guardAt'[t] = guardAt[t]
        /\ UNCHANGED <<children, launched>>
    BY <1>2 DEF Guard!Reject, Guard!Goes
  <2> QED
    BY <2>1 DEF Holdings
<1>3. ASSUME NEW s \in Sessions, Guard!Reclaim(s) PROVE Holdings'
  <2>1. /\ \A t \in Sessions : guardAt'[t] \in {"holding", "launching"} => guardAt'[t] = guardAt[t]
        /\ UNCHANGED <<children, launched>>
    BY <1>3 DEF Guard!Reclaim, Guard!BeginCleanup, Guard!Goes
  <2> QED
    BY <2>1 DEF Holdings
<1>4. ASSUME NEW s \in Sessions, Guard!StopLast(s) PROVE Holdings'
  <2>1. /\ \A t \in Sessions : guardAt'[t] \in {"holding", "launching"} => guardAt'[t] = guardAt[t]
        /\ UNCHANGED <<children, launched>>
    BY <1>4 DEF Guard!StopLast, Guard!Cleaning
  <2> QED
    BY <2>1 DEF Holdings
<1>5. ASSUME NEW s \in Sessions, Guard!EmptyRecords(s) PROVE Holdings'
  <2>1. \A t \in Sessions : guardAt'[t] \notin {"holding", "launching"}
    BY <1>5, Alone DEF Guard!EmptyRecords, Guard!Cleaning, Guard!Goes, Guard!Cleaning, Lockers, Owners
  <2> QED
    BY <2>1 DEF Holdings
<1>6. ASSUME NEW s \in Sessions, Guard!KeepRecord(s) PROVE Holdings'
  <2>1. \A t \in Sessions : guardAt'[t] \notin {"holding", "launching"}
    BY <1>6, Alone DEF Guard!KeepRecord, Guard!Goes, Guard!Cleaning, Lockers, Owners
  <2> QED
    BY <2>1 DEF Holdings
<1>7. ASSUME NEW s \in Sessions, Guard!Reclaimed(s) PROVE Holdings'
  <2>1. /\ \A t \in Sessions : guardAt'[t] \in {"holding", "launching"} => guardAt'[t] = guardAt[t]
        /\ UNCHANGED <<children, launched>>
    BY <1>7 DEF Guard!Reclaimed, Guard!Goes
  <2> QED
    BY <2>1 DEF Holdings
<1>8. ASSUME NEW s \in Sessions, Guard!MakeDirectory(s) PROVE Holdings'
  <2>1. /\ \A t \in Sessions : guardAt'[t] \in {"holding", "launching"} => guardAt'[t] = guardAt[t]
        /\ UNCHANGED <<children, launched>>
    BY <1>8 DEF Guard!MakeDirectory, Guard!Goes
  <2> QED
    BY <2>1 DEF Holdings
<1>9. ASSUME NEW s \in Sessions, Guard!Own(s) PROVE Holdings'
  <2>1. Guard!ToSet(children') = {}
    BY <1>9, EmptySequence DEF Guard!Own
  <2> QED
    BY <2>1 DEF Holdings
<1>10. ASSUME NEW s \in Sessions, Guard!Launch(s) PROVE Holdings'
  <2>1. /\ guardAt[s] = "holding" /\ launched'[s] = launched[s] + 1 /\ UNCHANGED children
        /\ \A t \in Sessions \ {s} : guardAt'[t] = guardAt[t]
        /\ \A t \in Sessions : launched[t] \in Nat
    BY <1>10 DEF Guard!Launch, Guard!Goes
  <2>2. \A t \in Sessions \ {s} : guardAt'[t] \notin {"holding", "launching"}
    BY <2>1, Alone DEF Lockers, Owners
  <2>3. \A c \in Guard!ToSet(children) : c \in Records
    BY DEF Guard!ToSet
  <2>4. \A c \in Guard!ToSet(children) : c[2] \in Nat
    BY <2>3 DEF Records
  <2> QED
    BY <2>1, <2>2, <2>4 DEF Holdings
<1>11. ASSUME NEW s \in Sessions, Guard!Register(s) PROVE Holdings'
  <2> DEFINE record == <<s, launched[s]>>
  <2>1. record \in Records /\ launched[s] \in Nat
    BY DEF Records
  <2>2. Guard!ToSet(Append(children, record)) = Guard!ToSet(children) \cup {record}
    BY <2>1, Appended
  <2>3. /\ guardAt[s] = "launching" /\ children' = Append(children, record)
        /\ guardAt'[s] = "holding" /\ UNCHANGED launched
        /\ \A t \in Sessions \ {s} : guardAt'[t] = guardAt[t]
    BY <1>11 DEF Guard!Register, Guard!Goes
  <2>4. \A t \in Sessions \ {s} : guardAt'[t] \notin {"holding", "launching"}
    BY <2>3, Alone DEF Lockers, Owners
  <2> QED
    BY <2>1, <2>2, <2>3, <2>4 DEF Holdings
<1>12. ASSUME NEW s \in Sessions, Guard!Exit(s) PROVE Holdings'
  <2>1. /\ \A t \in Sessions : guardAt'[t] \in {"holding", "launching"} => guardAt'[t] = guardAt[t]
        /\ UNCHANGED <<children, launched>>
    BY <1>12 DEF Guard!Exit, Guard!BeginCleanup, Guard!Goes
  <2> QED
    BY <2>1 DEF Holdings
<1>13. ASSUME NEW s \in Sessions, Guard!GiveUp(s) PROVE Holdings'
  <2>1. /\ \A t \in Sessions : guardAt'[t] \in {"holding", "launching"} => guardAt'[t] = guardAt[t]
        /\ UNCHANGED <<children, launched>>
    BY <1>13 DEF Guard!GiveUp, Guard!Goes
  <2> QED
    BY <2>1 DEF Holdings
<1>14. ASSUME NEW s \in Sessions, Guard!Release(s) PROVE Holdings'
  <2>1. /\ \A t \in Sessions : guardAt'[t] \in {"holding", "launching"} => guardAt'[t] = guardAt[t]
        /\ UNCHANGED <<children, launched>>
    BY <1>14 DEF Guard!Release, Guard!Goes
  <2> QED
    BY <2>1 DEF Holdings
<1>15. ASSUME NEW s \in Sessions, Guard!RemoveDirectory(s) PROVE Holdings'
  <2>1. /\ \A t \in Sessions : guardAt'[t] \in {"holding", "launching"} => guardAt'[t] = guardAt[t]
        /\ UNCHANGED <<children, launched>>
    BY <1>15 DEF Guard!RemoveDirectory, Guard!Goes
  <2> QED
    BY <2>1 DEF Holdings
<1>16. ASSUME NEW s \in Sessions, Guard!Killed(s) PROVE Holdings'
  <2>1. /\ \A t \in Sessions : guardAt'[t] \in {"holding", "launching"} => guardAt'[t] = guardAt[t]
        /\ UNCHANGED <<children, launched>>
    BY <1>16 DEF Guard!Killed, Guard!Goes
  <2> QED
    BY <2>1 DEF Holdings
<1>17. ASSUME Guard!ComponentDies PROVE Holdings'
  <2>1. /\ \A t \in Sessions : guardAt'[t] \in {"holding", "launching"} => guardAt'[t] = guardAt[t]
        /\ UNCHANGED <<children, launched>>
    BY <1>17 DEF Guard!ComponentDies
  <2> QED
    BY <2>1 DEF Holdings
<1> QED
  BY <1>1, <1>2, <1>3, <1>4, <1>5, <1>6, <1>7, <1>8, <1>9, <1>10, <1>11, <1>12, <1>13,
     <1>14, <1>15, <1>16, <1>17 DEF Guard!RunGuardNext

LEMMA OrderedStep ==
  ASSUME GuardTypes, TakenInv, Holdings, OrderedInv, Guard!RunGuardNext
  PROVE  OrderedInv'
<1> USE DEF GuardTypes, OrderedInv
<1>1. ASSUME NEW s \in Sessions, Guard!Lock(s) PROVE OrderedInv'
  <2>1. /\ \A t \in Sessions :
              guardAt'[t] \in {"reclaiming", "stopping", "reclaimed", "stopped"} => guardAt'[t] = guardAt[t]
        /\ UNCHANGED <<children, todo, guardFailed>>
    BY <1>1 DEF Guard!Lock, Guard!Goes
  <2> QED
    BY <2>1 DEF Guard!Cleaning
<1>2. ASSUME NEW s \in Sessions, Guard!Reject(s) PROVE OrderedInv'
  <2>1. /\ \A t \in Sessions :
              guardAt'[t] \in {"reclaiming", "stopping", "reclaimed", "stopped"} => guardAt'[t] = guardAt[t]
        /\ UNCHANGED <<children, todo, guardFailed>>
    BY <1>2 DEF Guard!Reject, Guard!Goes
  <2> QED
    BY <2>1 DEF Guard!Cleaning
<1>3. ASSUME NEW s \in Sessions, Guard!Reclaim(s) PROVE OrderedInv'
  <2>1. /\ \A t \in Sessions \ {s} : guardAt'[t] = guardAt[t] /\ todo'[t] = todo[t]
                                     /\ guardFailed'[t] = guardFailed[t]
        /\ guardAt'[s] \in {"reclaiming", "stopping"}
        /\ todo'[s] = children /\ guardFailed'[s] = <<>> /\ UNCHANGED children
    BY <1>3 DEF Guard!Reclaim, Guard!BeginCleanup, Guard!Goes
  <2>2. Below(Guard!ToSet(children), Guard!ToSet(<<>>))
    BY EmptySequence DEF Below
  <2> QED
    BY <2>1, <2>2, EmptySequence DEF Guard!Cleaning
<1>4. ASSUME NEW s \in Sessions, Guard!StopLast(s) PROVE OrderedInv'
  <2> DEFINE record == Guard!Last(todo[s])
             rest == Guard!Front(todo[s])
             kept == guardFailed[s]
  <2>1. todo[s] \in Seq(Records) /\ todo[s] # <<>> /\ kept \in Seq(Records)
    BY <1>4 DEF Guard!StopLast
  <2>2. Rising(todo[s]) /\ Falling(kept) /\ Below(Guard!ToSet(todo[s]), Guard!ToSet(kept))
    BY <1>4 DEF Guard!StopLast
  <2>3. /\ record \in Records /\ Guard!ToSet(todo[s]) = Guard!ToSet(rest) \cup {record}
        /\ Rising(rest) /\ Below(Guard!ToSet(rest), {record})
    BY <2>1, <2>2, LastTaken
  <2>4. Below({record}, Guard!ToSet(kept)) /\ Below(Guard!ToSet(rest), Guard!ToSet(kept))
    BY <2>2, <2>3 DEF Below
  <2>5. /\ Guard!ToSet(Append(kept, record)) = Guard!ToSet(kept) \cup {record}
        /\ Falling(Append(kept, record))
    BY <2>1, <2>2, <2>3, <2>4, Appended
  <2>6. Below(Guard!ToSet(rest), Guard!ToSet(Append(kept, record)))
    BY <2>3, <2>4, <2>5 DEF Below
  <2>7. /\ todo' = [todo EXCEPT ![s] = rest]
        /\ guardFailed' = guardFailed \/ guardFailed' = [guardFailed EXCEPT ![s] = Append(kept, record)]
        /\ UNCHANGED <<children, guardAt>>
    BY <1>4 DEF Guard!StopLast
  <2>8. guardAt[s] \in {"reclaiming", "stopping"}
    BY <1>4 DEF Guard!StopLast, Guard!Cleaning
  <2>9. Rising(todo'[s]) /\ Falling(guardFailed'[s]) /\ Below(Guard!ToSet(todo'[s]), Guard!ToSet(guardFailed'[s]))
    <3> HIDE DEF record, rest
    <3> QED
      BY <2>2, <2>3, <2>4, <2>5, <2>6, <2>7
  <2>10. \A t \in Sessions \ {s} : todo'[t] = todo[t] /\ guardFailed'[t] = guardFailed[t]
    BY <2>7
  <2> HIDE DEF record, rest, kept
  <2> QED
    BY <2>7, <2>8, <2>9, <2>10 DEF Guard!Cleaning
<1>5. ASSUME NEW s \in Sessions, Guard!EmptyRecords(s) PROVE OrderedInv'
  <2>1. /\ \A t \in Sessions \ {s} : guardAt'[t] = guardAt[t]
        /\ guardAt'[s] \in {"reclaimed", "stopped"} /\ Guard!Cleaning(s)
        /\ children' = <<>> /\ UNCHANGED <<todo, guardFailed>>
    BY <1>5 DEF Guard!EmptyRecords, Guard!Cleaning, Guard!Goes
  <2>2. \A t \in Sessions : Below(Guard!ToSet(<<>>), Guard!ToSet(guardFailed[t]))
    BY EmptySequence DEF Below
  <2> QED
    BY <2>1, <2>2, EmptySequence DEF Guard!Cleaning
<1>6. ASSUME NEW s \in Sessions, Guard!KeepRecord(s) PROVE OrderedInv'
  <2> DEFINE record == Guard!Last(guardFailed[s])
             rest == Guard!Front(guardFailed[s])
  <2>1. /\ guardFailed[s] \in Seq(Records) /\ guardFailed[s] # <<>>
        /\ Falling(guardFailed[s]) /\ Below(Guard!ToSet(children), Guard!ToSet(guardFailed[s]))
    BY <1>6 DEF Guard!KeepRecord
  <2>2. /\ record \in Records /\ Guard!ToSet(guardFailed[s]) = Guard!ToSet(rest) \cup {record}
        /\ Falling(rest) /\ Below({record}, Guard!ToSet(rest))
    BY <2>1, LastTaken
  <2>3. Below(Guard!ToSet(children), {record}) /\ Below(Guard!ToSet(children), Guard!ToSet(rest))
    BY <2>1, <2>2 DEF Below
  <2>4. /\ Guard!ToSet(Append(children, record)) = Guard!ToSet(children) \cup {record}
        /\ Rising(Append(children, record))
    BY <2>2, <2>3, Appended
  <2>5. Below(Guard!ToSet(Append(children, record)), Guard!ToSet(rest))
    BY <2>2, <2>3, <2>4 DEF Below
  <2>6. /\ children' = Append(children, record)
        /\ guardFailed' = [guardFailed EXCEPT ![s] = rest]
        /\ UNCHANGED <<guardAt, todo>>
        /\ guardAt[s] \in {"reclaimed", "stopped"}
    BY <1>6 DEF Guard!KeepRecord
  <2>7. \A t \in Sessions \ {s} : guardAt[t] \notin {"reclaiming", "stopping", "reclaimed", "stopped"}
    BY <2>6, Alone DEF Lockers, Owners
  <2> HIDE DEF record, rest
  <2> QED
    BY <2>2, <2>4, <2>5, <2>6, <2>7 DEF Guard!Cleaning
<1>7. ASSUME NEW s \in Sessions, Guard!Reclaimed(s) PROVE OrderedInv'
  <2>1. /\ \A t \in Sessions :
              guardAt'[t] \in {"reclaiming", "stopping", "reclaimed", "stopped"} => guardAt'[t] = guardAt[t]
        /\ UNCHANGED <<children, todo, guardFailed>>
    BY <1>7 DEF Guard!Reclaimed, Guard!Goes
  <2> QED
    BY <2>1 DEF Guard!Cleaning
<1>8. ASSUME NEW s \in Sessions, Guard!MakeDirectory(s) PROVE OrderedInv'
  <2>1. /\ \A t \in Sessions :
              guardAt'[t] \in {"reclaiming", "stopping", "reclaimed", "stopped"} => guardAt'[t] = guardAt[t]
        /\ UNCHANGED <<children, todo, guardFailed>>
    BY <1>8 DEF Guard!MakeDirectory, Guard!Goes
  <2> QED
    BY <2>1 DEF Guard!Cleaning
<1>9. ASSUME NEW s \in Sessions, Guard!Own(s) PROVE OrderedInv'
  <2>1. /\ \A t \in Sessions \ {s} : guardAt'[t] = guardAt[t]
        /\ guardAt'[s] = "holding"
        /\ children' = <<>> /\ UNCHANGED <<todo, guardFailed>>
    BY <1>9 DEF Guard!Own, Guard!Goes
  <2>2. \A t \in Sessions : Below(Guard!ToSet(<<>>), Guard!ToSet(guardFailed[t]))
    BY EmptySequence DEF Below
  <2> QED
    BY <2>1, <2>2, EmptySequence DEF Guard!Cleaning
<1>10. ASSUME NEW s \in Sessions, Guard!Launch(s) PROVE OrderedInv'
  <2>1. /\ \A t \in Sessions :
              guardAt'[t] \in {"reclaiming", "stopping", "reclaimed", "stopped"} => guardAt'[t] = guardAt[t]
        /\ UNCHANGED <<children, todo, guardFailed>>
    BY <1>10 DEF Guard!Launch, Guard!Goes
  <2> QED
    BY <2>1 DEF Guard!Cleaning
<1>11. ASSUME NEW s \in Sessions, Guard!Register(s) PROVE OrderedInv'
  <2> DEFINE record == <<s, launched[s]>>
  <2>1. record \in Records
    BY DEF Records
  <2>2. /\ guardAt[s] = "launching" /\ guardAt'[s] = "holding"
        /\ children' = Append(children, record)
        /\ \A t \in Sessions \ {s} : guardAt'[t] = guardAt[t]
        /\ UNCHANGED <<todo, guardFailed>>
    BY <1>11 DEF Guard!Register, Guard!Goes
  <2>3. Below(Guard!ToSet(children), {record})
    BY <2>2 DEF Holdings, Below
  <2>4. Rising(Append(children, record))
    BY <2>1, <2>3, Appended
  <2>5. \A t \in Sessions \ {s} : guardAt[t] \notin {"reclaiming", "stopping", "reclaimed", "stopped"}
    BY <2>2, Alone DEF Lockers, Owners
  <2> HIDE DEF record
  <2> QED
    BY <2>2, <2>4, <2>5 DEF Guard!Cleaning
<1>12. ASSUME NEW s \in Sessions, Guard!Exit(s) PROVE OrderedInv'
  <2>1. /\ \A t \in Sessions \ {s} : guardAt'[t] = guardAt[t] /\ todo'[t] = todo[t]
                                     /\ guardFailed'[t] = guardFailed[t]
        /\ guardAt'[s] \in {"reclaiming", "stopping"}
        /\ todo'[s] = children /\ guardFailed'[s] = <<>> /\ UNCHANGED children
    BY <1>12 DEF Guard!Exit, Guard!BeginCleanup, Guard!Goes
  <2>2. Below(Guard!ToSet(children), Guard!ToSet(<<>>))
    BY EmptySequence DEF Below
  <2> QED
    BY <2>1, <2>2, EmptySequence DEF Guard!Cleaning
<1>13. ASSUME NEW s \in Sessions, Guard!GiveUp(s) PROVE OrderedInv'
  <2>1. /\ \A t \in Sessions :
              guardAt'[t] \in {"reclaiming", "stopping", "reclaimed", "stopped"} => guardAt'[t] = guardAt[t]
        /\ UNCHANGED <<children, todo, guardFailed>>
    BY <1>13 DEF Guard!GiveUp, Guard!Goes
  <2> QED
    BY <2>1 DEF Guard!Cleaning
<1>14. ASSUME NEW s \in Sessions, Guard!Release(s) PROVE OrderedInv'
  <2>1. /\ \A t \in Sessions :
              guardAt'[t] \in {"reclaiming", "stopping", "reclaimed", "stopped"} => guardAt'[t] = guardAt[t]
        /\ UNCHANGED <<children, todo, guardFailed>>
    BY <1>14 DEF Guard!Release, Guard!Goes
  <2> QED
    BY <2>1 DEF Guard!Cleaning
<1>15. ASSUME NEW s \in Sessions, Guard!RemoveDirectory(s) PROVE OrderedInv'
  <2>1. /\ \A t \in Sessions :
              guardAt'[t] \in {"reclaiming", "stopping", "reclaimed", "stopped"} => guardAt'[t] = guardAt[t]
        /\ UNCHANGED <<children, todo, guardFailed>>
    BY <1>15 DEF Guard!RemoveDirectory, Guard!Goes
  <2> QED
    BY <2>1 DEF Guard!Cleaning
<1>16. ASSUME NEW s \in Sessions, Guard!Killed(s) PROVE OrderedInv'
  <2>1. /\ \A t \in Sessions :
              guardAt'[t] \in {"reclaiming", "stopping", "reclaimed", "stopped"} => guardAt'[t] = guardAt[t]
        /\ UNCHANGED <<children, todo, guardFailed>>
    BY <1>16 DEF Guard!Killed, Guard!Goes
  <2> QED
    BY <2>1 DEF Guard!Cleaning
<1>17. ASSUME Guard!ComponentDies PROVE OrderedInv'
  <2>1. /\ \A t \in Sessions :
              guardAt'[t] \in {"reclaiming", "stopping", "reclaimed", "stopped"} => guardAt'[t] = guardAt[t]
        /\ UNCHANGED <<children, todo, guardFailed>>
    BY <1>17 DEF Guard!ComponentDies
  <2> QED
    BY <2>1 DEF Guard!Cleaning
<1> QED
  BY <1>1, <1>2, <1>3, <1>4, <1>5, <1>6, <1>7, <1>8, <1>9, <1>10, <1>11, <1>12, <1>13,
     <1>14, <1>15, <1>16, <1>17 DEF Guard!RunGuardNext

LEMMA GuardInvariant == SurroundingsSpec => []GuardInv
<1>1. Guard!Init => GuardInv
  BY EmptySequence, GuardConstants DEF Guard!Init, Guard!RunGuardInit, GuardInv, GuardTypes, TakenInv, RecordInv,
       Recorded, CleanUps, Holdings, OrderedInv, Guard!Cleaning, Lockers, Owners
<1>2. GuardInv /\ [SurroundingsNext]_all => GuardInv'
  <2> SUFFICES ASSUME GuardInv, [Guard!Next]_guard PROVE GuardInv'
    BY GuardMoves
  <2>1. CASE Guard!Next
    <3>1. Guard!RunGuardNext
      BY <2>1 DEF Guard!Next
    <3> QED
      BY <2>1, <3>1, GuardTypesStep, TakenStep, RecordedStep, CleanUpsStep, HoldingsStep, OrderedStep
         DEF GuardInv, RecordInv
  <2>2. CASE UNCHANGED guard
    BY <2>2 DEF guard, GuardInv, GuardTypes, TakenInv, RecordInv, Recorded, OnRecord, CleanUps, Holdings,
         OrderedInv, Guard!Cleaning
  <2> QED
    BY <2>1, <2>2
<1>3. SurroundingsInit => Guard!Init
  BY DEF SurroundingsInit
<1> QED
  BY <1>1, <1>2, <1>3, PTL DEF SurroundingsSpec, all

\* A session that launches shares the robot with no component of another, for every number
\* of sessions and of components, and wherever earlier sessions were killed (the guard of
\* common.sh).
THEOREM FleetsAreOne == SurroundingsSpec => []OneFleet
<1>1. GuardInv => OneFleet
  <2> SUFFICES ASSUME GuardInv, NEW s \in Sessions, guardAt[s] \in {"holding", "launching"},
                      NEW c \in living \ escaped
               PROVE  c[1] = s
    BY DEF OneFleet, Guard!OneFleet
  <2> USE DEF GuardInv, RecordInv
  <2>1. OnRecord(c)
    BY DEF Recorded
  <2>2. \A t \in Sessions : guardAt[t] \in {"launching", "reclaimed", "stopped"} => t = s
    BY Alone DEF Lockers, Owners
  <2> QED
    BY <2>1, <2>2 DEF OnRecord, Holdings
<1> QED
  BY <1>1, GuardInvariant, PTL

\* A clean-up stops a component only when all that was launched after it has gone or would
\* not go, also when it continues what an earlier one had to keep
\* (cleanup_registered_process_groups).
THEOREM StopsAreInReverse == SurroundingsSpec => StopsInReverse
<1> DEFINE Reverse ==
      \A s \in Sessions : todo'[s] # todo[s] /\ Guard!Cleaning(s) =>
        \A c \in living' \ escaped :
          c[1] = Guard!Last(todo[s])[1] /\ c[2] > Guard!Last(todo[s])[2] => c \in Guard!ToSet(guardFailed[s])
<1>1. GuardInv /\ [SurroundingsNext]_all => [Reverse]_guard
  <2> SUFFICES ASSUME GuardInv, Guard!RunGuardNext, NEW s \in Sessions,
                      todo'[s] # todo[s], Guard!Cleaning(s), NEW c \in living' \ escaped,
                      c[1] = Guard!Last(todo[s])[1], c[2] > Guard!Last(todo[s])[2]
               PROVE  c \in Guard!ToSet(guardFailed[s])
    BY GuardMoves DEF Guard!Next
  <2> USE DEF GuardInv, GuardTypes
  <2>1. Guard!StopLast(s)
    <3>1. ASSUME NEW t \in Sessions, Guard!Lock(t) PROVE FALSE
      BY <3>1 DEF Guard!Lock, Guard!Cleaning
    <3>2. ASSUME NEW t \in Sessions, Guard!Reject(t) PROVE FALSE
      BY <3>2 DEF Guard!Reject, Guard!Cleaning
    <3>3. ASSUME NEW t \in Sessions, Guard!Reclaim(t) PROVE FALSE
      BY <3>3 DEF Guard!Reclaim, Guard!BeginCleanup, Guard!Cleaning
    <3>4. ASSUME NEW t \in Sessions, Guard!StopLast(t) PROVE t = s
      BY <3>4 DEF Guard!StopLast, Guard!Cleaning
    <3>5. ASSUME NEW t \in Sessions, Guard!EmptyRecords(t) PROVE FALSE
      BY <3>5 DEF Guard!EmptyRecords, Guard!Cleaning
    <3>6. ASSUME NEW t \in Sessions, Guard!KeepRecord(t) PROVE FALSE
      BY <3>6 DEF Guard!KeepRecord, Guard!Cleaning
    <3>7. ASSUME NEW t \in Sessions, Guard!Reclaimed(t) PROVE FALSE
      BY <3>7 DEF Guard!Reclaimed, Guard!Cleaning
    <3>8. ASSUME NEW t \in Sessions, Guard!MakeDirectory(t) PROVE FALSE
      BY <3>8 DEF Guard!MakeDirectory, Guard!Cleaning
    <3>9. ASSUME NEW t \in Sessions, Guard!Own(t) PROVE FALSE
      BY <3>9 DEF Guard!Own, Guard!Cleaning
    <3>10. ASSUME NEW t \in Sessions, Guard!Launch(t) PROVE FALSE
      BY <3>10 DEF Guard!Launch, Guard!Cleaning
    <3>11. ASSUME NEW t \in Sessions, Guard!Register(t) PROVE FALSE
      BY <3>11 DEF Guard!Register, Guard!Cleaning
    <3>12. ASSUME NEW t \in Sessions, Guard!Exit(t) PROVE FALSE
      BY <3>12 DEF Guard!Exit, Guard!BeginCleanup, Guard!Cleaning
    <3>13. ASSUME NEW t \in Sessions, Guard!GiveUp(t) PROVE FALSE
      BY <3>13 DEF Guard!GiveUp, Guard!Cleaning
    <3>14. ASSUME NEW t \in Sessions, Guard!Release(t) PROVE FALSE
      BY <3>14 DEF Guard!Release, Guard!Cleaning
    <3>15. ASSUME NEW t \in Sessions, Guard!RemoveDirectory(t) PROVE FALSE
      BY <3>15 DEF Guard!RemoveDirectory, Guard!Cleaning
    <3>16. ASSUME NEW t \in Sessions, Guard!Killed(t) PROVE FALSE
      BY <3>16 DEF Guard!Killed, Guard!Cleaning
    <3>17. ASSUME Guard!ComponentDies PROVE FALSE
      BY <3>17 DEF Guard!ComponentDies
    <3> QED
      BY <3>1, <3>2, <3>3, <3>4, <3>5, <3>6, <3>7, <3>8, <3>9, <3>10, <3>11, <3>12, <3>13, <3>14, <3>15, <3>16, <3>17
         DEF Guard!RunGuardNext
  <2> DEFINE record == Guard!Last(todo[s])
             rest == Guard!Front(todo[s])
  <2>2. todo[s] \in Seq(Records) /\ todo[s] # <<>> /\ Rising(todo[s]) /\ c \in living
    BY <2>1 DEF Guard!StopLast, OrderedInv
  <2>3. /\ record \in Records /\ Guard!ToSet(todo[s]) = Guard!ToSet(rest) \cup {record}
        /\ Below(Guard!ToSet(rest), {record})
    BY <2>2, LastTaken
  <2>4. \A t \in Sessions : guardAt[t] \notin {"launching", "reclaimed", "stopped"}
    BY Alone DEF Lockers, Owners, Guard!Cleaning
  <2>5. c \in Guard!ToSet(children)
    BY <2>2, <2>4 DEF RecordInv, Recorded, OnRecord
  <2>6. c \in Guard!ToSet(todo[s]) \cup Guard!ToSet(guardFailed[s])
    BY <2>2, <2>5 DEF RecordInv, CleanUps
  <2>7. c[2] \in Nat /\ record[2] \in Nat
    BY <2>2, <2>3 DEF Records
  <2>8. c \notin Guard!ToSet(rest) /\ c # record
    BY <2>3, <2>7 DEF Below
  <2> QED
    BY <2>3, <2>6, <2>8
<1>2. StopsInReverse <=> [][Reverse]_guard
  BY DEF StopsInReverse, Guard!StopsInReverse, Guard!guardedVars, Guard!guardVars, guard
<1> QED
  BY <1>1, <1>2, GuardInvariant, PTL DEF SurroundingsSpec, all

-----------------------------------------------------------------------------
(* A long way Home.                                                        *)

LEMMA ReturningMoves ==
  [SurroundingsNext]_all => part' = part /\ (part = "returning" => ReturningNext \/ UNCHANGED vars)
BY DEF SurroundingsNext, all

LEMMA FarSampleIsWay ==
  ASSUME NEW t \in Trajectory
  PROVE  FarAway!Sample(t) = Way(t.start, Home, 4, MinDuration, t.age)
BY DEF FarAway!Sample, FarAway!Done, FarAway!Whole, FarAway!Sides, FarAway!Distance, FarAway!Most,
       FarAway!Least, FarAway!Abs, FarAway!Toward, Way, Sides, Distance, Most, Least, Abs, Toward

LEMMA FarSampleStep ==
  ASSUME NEW t \in Trajectory
  PROVE  /\ FarAway!Sample(t) \in Joints
         /\ FarAway!Near(FarAway!Sample([t EXCEPT !.age = @ + 1]), FarAway!Sample(t), 4)
<1> DEFINE u == [t EXCEPT !.age = @ + 1]
<1>1. t.start \in Joints /\ t.age \in Nat /\ u.start = t.start /\ u.age = t.age + 1
      /\ u \in Trajectory
  BY DEF Trajectory
<1> HIDE DEF u
<1>2. Home \in Joints /\ MinDuration \in Nat \ {0} /\ 4 \in Nat \ {0}
  BY HomeInside, SettingsAssumption
<1>3. /\ Way(t.start, Home, 4, MinDuration, t.age) \in Joints
      /\ Near(Way(t.start, Home, 4, MinDuration, t.age + 1),
              Way(t.start, Home, 4, MinDuration, t.age), 4)
  BY <1>1, <1>2, WayIsSlow
<1>4. /\ FarAway!Sample(t) = Way(t.start, Home, 4, MinDuration, t.age)
      /\ FarAway!Sample(u) = Way(t.start, Home, 4, MinDuration, t.age + 1)
  BY <1>1, FarSampleIsWay
<1> QED
  BY <1>3, <1>4 DEF u, FarAway!Near, FarAway!Sides, FarAway!Abs, Near, Sides, Abs

\* What the arms are told, where they are and where a way Home begins have their types.
FarInv ==
  part = "returning" =>
    lastOutput \in Joints /\ feedback \in Joints /\ trajectory \in Trajectory \cup {None}

LEMMA FarFollow ==
  ASSUME lastOutput \in Joints, feedback \in Joints, FarAway!Follow(Home)
  PROVE  lastOutput' \in Joints /\ trajectory' = trajectory
<1> DEFINE aim == [s \in Sides |-> FarAway!Clip(Home[s], Lower[s], FarHigh[s])]
           step == FarAway!Limited(aim)
<1>1. Home \in Joints /\ Lower \in Joints /\ FarHigh \in Joints
  BY LimitsAssumption DEF Joints, FarHigh
<1>2. aim \in Joints
  BY <1>1 DEF Joints, FarAway!Clip, FarAway!Most, FarAway!Least
<1> HIDE DEF aim
<1>3. step \in Joints
  <2> DEFINE delta == FarAway!Distance(aim, lastOutput)
  <2>1. delta \in Nat
    BY <1>2 DEF FarAway!Distance, FarAway!Most, FarAway!Abs, Joints, Sides
  <2> HIDE DEF delta
  <2>2. CASE delta <= MaxStep
    BY <1>2, <2>2 DEF FarAway!Limited, delta
  <2>3. CASE ~(delta <= MaxStep)
    <3>1. step = [s \in Sides |-> FarAway!Toward(lastOutput[s], aim[s], MaxStep, delta)]
      BY <2>3 DEF FarAway!Limited, FarAway!Sides, Sides, delta
    <3>2. \A s \in Sides : FarAway!Toward(lastOutput[s], aim[s], MaxStep, delta) \in Int
      <4> SUFFICES ASSUME NEW s \in Sides
                   PROVE  FarAway!Toward(lastOutput[s], aim[s], MaxStep, delta) \in Int
        OBVIOUS
      <4> DEFINE x == lastOutput[s]
                 y == aim[s]
      <4>1. x \in Int /\ y \in Int /\ MaxStep \in Nat /\ delta > 0
        BY <1>2, <2>1, <2>3, SettingsAssumption DEF Joints
      <4> HIDE DEF x, y
      <4>2. ((y - x) * MaxStep) \div delta \in Int /\ ((x - y) * MaxStep) \div delta \in Int
        BY <2>1, <4>1
      <4>3. FarAway!Toward(x, y, MaxStep, delta) \in Int
        BY <4>1, <4>2 DEF FarAway!Toward
      <4> QED
        BY <4>3 DEF x, y
    <3> QED
      BY <3>1, <3>2 DEF Joints
  <2> QED
    BY <2>2, <2>3
<1>4. lastOutput' = [s \in Sides |-> FarAway!Clip(step[s], feedback[s] - (8 - MaxStep), feedback[s] + (8 - MaxStep))]
      /\ trajectory' = trajectory
  BY DEF FarAway!Follow, FarAway!Led, FarAway!Lead, FarAway!Sides, Sides, aim
<1> HIDE DEF step
<1> QED
  BY <1>3, <1>4, SettingsAssumption DEF Joints, FarAway!Clip, FarAway!Most, FarAway!Least

LEMMA FarReturnHome ==
  ASSUME feedback \in Joints, trajectory \in Trajectory \cup {None}, FarAway!ReturnHome
  PROVE  lastOutput' \in Joints /\ trajectory' \in Trajectory
<1>1. trajectory' = IF trajectory = None THEN [start |-> feedback, age |-> 0] ELSE trajectory
  BY DEF FarAway!ReturnHome
<1>2. trajectory' \in Trajectory
  BY <1>1 DEF Trajectory
<1>3. lastOutput' = FarAway!Sample(trajectory')
  BY DEF FarAway!ReturnHome
<1> QED
  BY <1>2, <1>3, FarSampleStep

LEMMA FarInvStep == FarInv /\ [SurroundingsNext]_all => FarInv'
<1> SUFFICES ASSUME FarInv, part = "returning", ReturningNext PROVE FarInv'
  BY ReturningMoves DEF FarInv, vars
<1>0. lastOutput \in Joints /\ feedback \in Joints /\ trajectory \in Trajectory \cup {None}
  BY DEF FarInv
<1>1. ASSUME FarAway!Read(lastOutput, [s \in Sides |-> TRUE], TRUE) PROVE FarInv'
  BY <1>0, <1>1 DEF FarInv, FarAway!Read
<1>2. ASSUME FarAway!Send(Home) PROVE FarInv'
  <2>1. feedback' = feedback
    BY <1>2 DEF FarAway!Send
  <2>2. \/ FarAway!SoftStop \/ FarAway!ReturnHome \/ FarAway!Follow(Home) \/ FarAway!RearmAtHome
    BY <1>2 DEF FarAway!Send, FarAway!Decide
  <2>3. lastOutput' \in Joints /\ trajectory' \in Trajectory \cup {None}
    <3>1. CASE FarAway!SoftStop
      BY <1>0, <3>1 DEF FarAway!SoftStop
    <3>2. CASE FarAway!ReturnHome
      BY <1>0, <3>2, FarReturnHome
    <3>3. CASE FarAway!Follow(Home)
      BY <1>0, <3>3, FarFollow
    <3>4. CASE FarAway!RearmAtHome
      BY <3>4, HomeInside DEF FarAway!RearmAtHome
    <3> QED
      BY <2>2, <3>1, <3>2, <3>3, <3>4
  <2> QED
    BY <1>0, <2>1, <2>3 DEF FarInv
<1>3. ASSUME FarAway!HearState("idle") PROVE FarInv'
  BY <1>0, <1>3 DEF FarInv, FarAway!HearState
<1>4. ASSUME FarAway!Elapse PROVE FarInv'
  <2>1. UNCHANGED <<lastOutput, feedback>>
    BY <1>4 DEF FarAway!Elapse
  <2>2. trajectory' \in Trajectory \cup {None}
    <3>1. CASE trajectory = None
      BY <1>4, <3>1 DEF FarAway!Elapse
    <3>2. CASE trajectory # None
      <4>1. trajectory \in Trajectory /\ trajectory.age \in Nat
        BY <1>0, <3>2 DEF Trajectory
      <4>2. FarAway!Least(trajectory.age + 1, 7) \in Nat
        BY <4>1 DEF FarAway!Least
      <4>3. trajectory' = [trajectory EXCEPT !.age = FarAway!Least(trajectory.age + 1, 7)]
        BY <1>4, <3>2 DEF FarAway!Elapse
      <4> QED
        BY <4>1, <4>2, <4>3 DEF Trajectory
    <3> QED
      BY <3>1, <3>2
  <2> QED
    BY <1>0, <2>1, <2>2 DEF FarInv
<1> QED
  BY <1>1, <1>2, <1>3, <1>4 DEF ReturningNext

\* On the long way Home no step is faster than the return speed allows, for every limit,
\* safe position, step and shortest duration (HomeTrajectory).
THEOREM FarReturnsAreSlow == SurroundingsSpec => []FarReturnSpeedBounded
<1>1. SurroundingsInit => FarInv
  <2> SUFFICES ASSUME ReturningInit
               PROVE  lastOutput \in Joints /\ feedback \in Joints /\ trajectory \in Trajectory
    BY DEF SurroundingsInit, FarInv
  <2> PICK joints \in FarAway!Readings :
             lastOutput = joints /\ feedback = joints /\ trajectory = [start |-> joints, age |-> 0]
    BY DEF ReturningInit
  <2>1. joints \in Joints
    BY DEF FarAway!Readings, FarAway!Sides, Joints, Sides, FarAround, FarHigh
  <2> QED
    BY <2>1 DEF Trajectory
<1>2. FarInv => FarReturnSpeedBounded
  BY FarSampleStep DEF FarInv, FarReturnSpeedBounded, FarAway!ReturnSpeedBounded
<1> QED
  BY <1>1, <1>2, FarInvStep, PTL DEF SurroundingsSpec, all
=============================================================================
