--------------------------- MODULE MarvinExecutor ---------------------------
(***************************************************************************)
(* The Marvin executor (executors/marvin/bridge.py): the main thread, which *)
(* connects and then runs one tick after the other, and the callbacks of   *)
(* the transport, which come at any moment and share its attributes without *)
(* a lock.                                                                  *)
(*                                                                         *)
(* The coordinator publishes its phase and, on keys of their own, the two   *)
(* commands of that phase; published lists the phases it has gone through.  *)
(* What the hardware safety controller decides is open here.                *)
(***************************************************************************)
EXTENDS MarvinSession, Sequences

CONSTANTS
  MaxPublications,  \* bound on the phases the coordinator goes through
  MaxLag            \* phase changes the coordinator never makes in one command_timeout_s

ASSUME ExecutorAssumption == MaxPublications \in Nat /\ MaxLag \in Nat

Sides == {"left", "right"}
Phases == {"idle", "teleop", "returning", "fault"}

VARIABLES
  published,    \* the phases of the coordinator
  stateSeen,    \* sequence of _session_state, 0 before any
  stateOld,     \* _session_state was received longer ago than state_timeout_s
  commandSeen,  \* per side, sequence of _commands
  fresh,        \* per side, the command is not older than command_timeout_s
  phase,        \* _phase
  locked,       \* _safety_locked
  hardware,     \* _hardware is not None
  localReturn,  \* the safety controller's _return_trajectory is not None
  pc,           \* what the main thread does next
  plan,         \* what it has decided to do
  carry,        \* the mode of the commands it is about to send
  stop,         \* what became of a valid safety stop request
  late          \* batches sent after the robot, or the executor, was stopped, up to 2

coordinator == <<published>>
inputs == <<stateSeen, stateOld, commandSeen, fresh>>
thread == <<pc, plan, carry>>
vars == <<session, coordinator, inputs, phase, locked, hardware, localReturn, thread, stop, late>>

SessionState == IF stateSeen = 0 THEN "none" ELSE published[stateSeen]

\* The mode of the commands of a phase.
Mode(p) == IF p = "fault" THEN "returning" ELSE p

CommandMode(s) == IF commandSeen[s] = 0 THEN "none" ELSE Mode(published[commandSeen[s]])

\* A message of the n-th phase may still be on its way, or fresh.
OnTime(n) == n + MaxLag > Len(published)

\* _command_pair_fresh.
PairFresh == \A s \in Sides : fresh[s] /\ OnTime(commandSeen[s])
PairReturning == PairFresh /\ \A s \in Sides : CommandMode(s) = "returning"

-----------------------------------------------------------------------------
(* The coordinator and the callbacks of its messages.                      *)

Follows ==
  [p \in Phases |-> CASE p = "fault" -> {}
                      [] p = "returning" -> {"idle", "fault"}
                      [] OTHER -> Phases \ {p}]

Publish ==
  /\ Len(published) < MaxPublications
  /\ \E p \in Follows[published[Len(published)]] : published' = Append(published, p)
  /\ UNCHANGED <<session, inputs, phase, locked, hardware, localReturn, thread, stop, late>>

\* The phase of the executor on a phase of the coordinator.
PhaseAfter(p) ==
  CASE p = "fault" -> "fault_return"
    [] p # "fault" /\ phase = "fault_return" -> phase
    [] p = "returning" /\ phase # "fault_return" -> "returning"
    [] p = "idle" /\ phase \notin {"soft_stopped", "fault_return"} -> "armed_idle"
    [] p = "teleop" /\ phase = "armed_idle" -> "teleop"
    [] OTHER -> phase

\* A phase is published again and again, and so are its commands, each time with a
\* sequence of its own.
OnSessionState(n) ==
  /\ n >= stateSeen
  /\ OnTime(n)
  /\ stateSeen' = n
  /\ stateOld' = FALSE
  /\ phase' = PhaseAfter(published[n])
  /\ UNCHANGED <<session, coordinator, commandSeen, fresh, locked, hardware, localReturn,
                 thread, stop, late>>

OnArmCommand(s, n) ==
  /\ n >= commandSeen[s]
  /\ OnTime(n)
  /\ commandSeen' = [commandSeen EXCEPT ![s] = n]
  /\ fresh' = [fresh EXCEPT ![s] = TRUE]
  /\ UNCHANGED <<session, coordinator, stateSeen, stateOld, phase, locked, hardware,
                 localReturn, thread, stop, late>>

\* Time passes without a message of a key.  state_timeout_s is many ticks; that
\* it is over is looked at once in each, so it may as well be over before it.
Silence ==
  /\ \/ \E s \in Sides : fresh[s] /\ fresh' = [fresh EXCEPT ![s] = FALSE] /\ UNCHANGED stateOld
     \/ /\ pc \in {"connect", "admission", "tick"}
        /\ stateSeen # 0 /\ ~stateOld
        /\ stateOld' = TRUE /\ UNCHANGED fresh
  /\ UNCHANGED <<session, coordinator, stateSeen, commandSeen, phase, locked, hardware,
                 localReturn, thread, stop, late>>

-----------------------------------------------------------------------------
(* on_safety_stop, with a request the supervisor is authorised to make: the *)
(* lock, the robot, the acknowledgement.                                    *)

\* [mutant] the lock is only taken once the robot is stopped
StopRequest_LockLater ==
  /\ stop = "none"
  /\ IF locked
     THEN stop' = "dropped" /\ UNCHANGED <<locked, phase>>
     ELSE stop' = "locked" /\ phase' = "soft_stopped" /\ UNCHANGED locked
  /\ UNCHANGED <<session, coordinator, inputs, hardware, localReturn, thread, late>>

\* A request is dropped when the executor has locked itself before.
StopRequest ==
  /\ stop = "none"
  /\ IF locked
     THEN stop' = "dropped" /\ UNCHANGED <<locked, phase>>
     ELSE stop' = "locked" /\ locked' = TRUE /\ phase' = "soft_stopped"
  /\ UNCHANGED <<session, coordinator, inputs, hardware, localReturn, thread, late>>

StopRobot ==
  /\ stop = "locked"
  /\ stop' = "stopped"
  /\ IF hardware
     THEN \E ok \in BOOLEAN : SoftStopOnce(ok)
     ELSE UNCHANGED session
  /\ UNCHANGED <<coordinator, inputs, phase, locked, hardware, localReturn, thread, late>>

StopAck ==
  /\ stop = "stopped"
  /\ stop' = "acked"
  /\ UNCHANGED <<session, coordinator, inputs, phase, locked, hardware, localReturn, thread, late>>

-----------------------------------------------------------------------------
(* The main thread.  Goto says what it does next; what was decided is kept   *)
(* until the next tick.                                                     *)

Goto(next) ==
  /\ pc' = next
  /\ IF next = "tick"
     THEN plan' = "none" /\ carry' = "none"
     ELSE UNCHANGED <<plan, carry>>
Outside == <<coordinator, inputs, stop>>

\* _trip_soft_stop.
Trip ==
  /\ phase' = "soft_stopped"
  /\ locked' = TRUE
  /\ \E ok \in BOOLEAN : SoftStopOnce(ok)
  /\ Goto("tick")

\* fault_return_ready: a fresh phase that goes Home and fresh commands that do.
FaultReturnReady ==
  /\ ~stateOld
  /\ SessionState \in {"fault", "returning"}
  /\ PairReturning

\* connection_ready; source, producer and capability are as they should be, and
\* so are the positions of the idle commands.
ConnectionReady ==
  /\ ~stateOld
  /\ SessionState = "idle"
  /\ PairFresh /\ \A s \in Sides : CommandMode(s) = "idle"

\* connect, from its beginning.  plan is "fault" when the connection is made in
\* a fault, so that nothing is moved Home.
Begin ==
  /\ pc = "connect"
  /\ IF locked
     THEN /\ pc' = "exit" /\ phase' = "soft_stopped" /\ UNCHANGED plan
     ELSE /\ plan' = IF SessionState = "fault" THEN "fault" ELSE "home"
          /\ pc' = IF FaultReturnReady THEN "create" ELSE "admission"
          /\ UNCHANGED phase
  /\ UNCHANGED <<session, locked, hardware, localReturn, carry, late, Outside>>

Admission ==
  /\ pc = "admission"
  /\ \/ /\ SessionState = "fault" /\ FaultReturnReady
        /\ pc' = "create" /\ plan' = "fault"
        /\ UNCHANGED phase
     \/ /\ ConnectionReady
        /\ Goto("create")
        /\ UNCHANGED phase
     \/ /\ ~(SessionState = "fault" /\ FaultReturnReady)
        /\ phase' = "waiting_for_connection"
        /\ Goto("exit")
  /\ UNCHANGED <<session, locked, hardware, localReturn, carry, late, Outside>>

Create ==
  /\ pc = "create"
  /\ hardware' = TRUE
  /\ phase' = "connecting"
  /\ Goto("open")
  /\ UNCHANGED <<session, locked, localReturn, late, Outside>>

\* One step of connect_and_prepare; when it raises, what has to be undone depends
\* on whether the robot was reached.
Step(from, effect, to, undo) ==
  /\ pc = from
  /\ \/ effect /\ Goto(to)
     \/ UNCHANGED session /\ Goto(undo)
  /\ UNCHANGED <<phase, locked, hardware, localReturn, late, Outside>>

Open == Step("open", Connect, "opened", "fail")

Opened ==
  /\ pc = "opened"
  /\ Rearm
  /\ Goto("prepare")
  /\ UNCHANGED <<phase, locked, hardware, localReturn, late, Outside>>

Prepare == Step("prepare", Clear, "enable", "release")
EnterPosition == Step("enable", Enable, "await", "release")
AwaitState == Step("await", UNCHANGED session, "prepared", "release")

Release ==
  /\ pc = "release"
  /\ \E stopOk, offOk \in BOOLEAN : LetGo(TRUE, stopOk, offOk)
  /\ Goto("fail")
  /\ UNCHANGED <<phase, locked, hardware, localReturn, late, Outside>>

\* The last look at the coordinator before the arms are moved Home.
Prepared ==
  /\ pc = "prepared"
  /\ IF plan = "fault" \/ SessionState \in {"fault", "returning"}
     THEN Goto("settle")
     ELSE plan' = "home" /\ pc' = "gate" /\ UNCHANGED carry
  /\ UNCHANGED <<session, phase, locked, hardware, localReturn, late, Outside>>

\* move_to_home, after a batch: again, done, or an error, of which two kinds stop
\* the robot first.
HomeFeedback ==
  /\ pc = "homeFeedback"
  /\ \/ UNCHANGED session /\ \E next \in {"gate", "settle", "fail"} : Goto(next)
     \/ (\E ok \in BOOLEAN : SoftStopOnce(ok)) /\ Goto("fail")
  /\ UNCHANGED <<phase, locked, hardware, localReturn, late, Outside>>

\* The phase to start with is read, and written.
Settle ==
  /\ pc = "settle"
  /\ pc' = "settled"
  /\ plan' = CASE SessionState = "fault" -> "fault_return"
               [] SessionState = "returning" -> "returning"
               [] OTHER -> "armed_idle"
  /\ UNCHANGED <<session, phase, locked, hardware, localReturn, carry, late, Outside>>

Settled ==
  /\ pc = "settled"
  /\ phase' = plan
  /\ Goto("tick")
  /\ UNCHANGED <<session, locked, hardware, localReturn, late, Outside>>

Fail ==
  /\ pc = "fail"
  /\ phase' = "failed"
  /\ hardware' = FALSE
  /\ \E stopOk, offOk \in BOOLEAN : LetGo(TRUE, stopOk, offOk)
  /\ Goto("exit")
  /\ UNCHANGED <<locked, localReturn, late, Outside>>

-----------------------------------------------------------------------------
(* A tick.                                                                 *)

\* Locked, a tick only reports.
Read ==
  /\ pc = "tick"
  /\ ~locked
  /\ UNCHANGED <<hardware, localReturn, late, Outside>>
  /\ \/ Goto("branch") /\ UNCHANGED <<session, phase, locked>>
     \/ Trip

\* What is to be done is read, ...
Branch ==
  /\ pc = "branch"
  /\ plan' = CASE phase = "fault_return" -> "bounded"
               [] phase # "fault_return" /\ SessionState = "returning" -> "returning"
               [] phase # "fault_return" /\ SessionState \in {"none", "idle", "fault"} -> "return"
               [] phase # "fault_return" /\ SessionState = "teleop" ->
                    IF PairFresh THEN "teleop" ELSE "stale"
  /\ pc' = "write"
  /\ UNCHANGED <<session, phase, locked, hardware, localReturn, carry, late, Outside>>

\* ... and the phase is written.
Write ==
  /\ pc = "write"
  /\ phase' = CASE plan \in {"returning", "stale"} -> "returning"
                [] plan = "teleop" -> "teleop"
                [] OTHER -> phase
  /\ Goto(IF plan = "teleop" THEN "fetch" ELSE "choose")
  /\ UNCHANGED <<session, locked, hardware, localReturn, late, Outside>>

\* [mutant] in a fault any fresh pair is good enough
Choose_AnyPair ==
  /\ pc = "choose"
  /\ \/ /\ PairFresh
        /\ Goto("fetch")
     \/ /\ ~PairFresh
        /\ plan = "bounded" \/ SessionState = "fault" \/ locked
        /\ Goto("tick")
     \/ /\ ~PairFresh
        /\ plan # "bounded" /\ SessionState # "fault" /\ ~locked
        /\ carry' = "local" /\ pc' = "check" /\ UNCHANGED plan
  /\ UNCHANGED <<session, phase, locked, hardware, localReturn, late, Outside>>

\* _bounded_fault_return and _controlled_return: the coordinator's commands that
\* return; otherwise a step towards Home of the executor's own, but not in a
\* fault.
Choose ==
  /\ pc = "choose"
  /\ \/ /\ PairReturning
        /\ Goto("fetch")
     \/ /\ ~PairReturning
        /\ plan = "bounded" \/ SessionState = "fault" \/ locked
        /\ Goto("tick")
     \/ /\ ~PairReturning
        /\ plan # "bounded" /\ SessionState # "fault" /\ ~locked
        /\ carry' = "local" /\ pc' = "check" /\ UNCHANGED plan
  /\ UNCHANGED <<session, phase, locked, hardware, localReturn, late, Outside>>

\* The commands themselves are looked up once more.
Fetch ==
  /\ pc = "fetch"
  /\ carry' = IF \A s \in Sides : CommandMode(s) = "returning" THEN "returning"
              ELSE IF \E s \in Sides : CommandMode(s) = "teleop" THEN "teleop"
              ELSE "idle"
  /\ pc' = "check"
  /\ UNCHANGED <<session, phase, locked, hardware, localReturn, plan, late, Outside>>

\* The decision of the hardware safety controller: its own way Home when the
\* phase is too old, when an idle command is not at Home or when it is on that
\* way already, until it is at Home in idle; what was asked for otherwise.
Decide ==
  \/ /\ stateOld \/ localReturn \/ SessionState = "idle"
     /\ localReturn' = TRUE /\ carry' = "local"
  \/ /\ ~stateOld /\ localReturn /\ SessionState = "idle"
     /\ localReturn' = FALSE /\ carry' = "local"
  \/ /\ ~stateOld /\ ~localReturn
     /\ UNCHANGED <<localReturn, carry>>

\* _send_commands up to the call of the session.
Check ==
  /\ pc = "check"
  /\ UNCHANGED <<hardware, late, Outside>>
  /\ \/ /\ locked
        /\ Goto("tick") /\ UNCHANGED <<session, phase, locked, localReturn>>
     \/ /\ ~locked
        /\ Trip /\ UNCHANGED localReturn
     \/ /\ ~locked
        /\ Decide
        /\ pc' = "gate"
        /\ UNCHANGED <<session, phase, locked, plan>>

\* What an error in send_joint_targets leads to.
Raise ==
  IF plan = "home"
  THEN Goto("fail") /\ UNCHANGED <<session, phase, locked>>
  ELSE Trip

\* send_joint_targets: a stopped session refuses, ...
Gate ==
  /\ pc = "gate"
  /\ IF Refused
     THEN Raise
     ELSE Goto("batch") /\ UNCHANGED <<session, phase, locked>>
  /\ UNCHANGED <<hardware, localReturn, late, Outside>>

\* [history] the batch comes after a stop of the session, or of the ticks.
Halted ==
  \/ softStopped
  \/ plan # "home" /\ (locked \/ stop \in {"locked", "stopped", "acked"})

\* ... and the batch is written and sent.
Batch ==
  /\ pc = "batch"
  /\ \/ /\ Goto(IF plan = "home" THEN "homeFeedback" ELSE "sent")
        /\ late' = IF Halted /\ late < 2 THEN late + 1 ELSE late
        /\ UNCHANGED <<session, phase, locked>>
     \/ Raise /\ UNCHANGED late
  /\ UNCHANGED <<hardware, localReturn, Outside>>

Sent ==
  /\ pc = "sent"
  /\ Goto("tick")
  /\ UNCHANGED <<session, phase, locked, hardware, localReturn, late, Outside>>

\* The process is interrupted, and closes.
Interrupt ==
  /\ pc = "tick"
  /\ hardware' = FALSE
  /\ \E offOk \in BOOLEAN : LetGo(FALSE, TRUE, offOk)
  /\ Goto("closed")
  /\ UNCHANGED <<phase, locked, localReturn, late, Outside>>

-----------------------------------------------------------------------------
Init ==
  /\ SessionInit
  /\ published \in {<<p>> : p \in Phases}
  /\ stateSeen = 0
  /\ stateOld = FALSE
  /\ commandSeen = [s \in Sides |-> 0]
  /\ fresh = [s \in Sides |-> FALSE]
  /\ phase = "waiting_for_connection"
  /\ locked = FALSE
  /\ hardware = FALSE
  /\ localReturn = FALSE
  /\ pc = "connect"
  /\ plan = "home"
  /\ carry = "none"
  /\ stop = "none"
  /\ late = 0

MainThread ==
  \/ Begin \/ Admission \/ Create \/ Open \/ Opened \/ Prepare \/ EnterPosition \/ AwaitState
  \/ Release \/ Prepared \/ HomeFeedback \/ Settle \/ Settled \/ Fail
  \/ Read \/ Branch \/ Write \/ Choose \/ Fetch \/ Check \/ Gate \/ Batch \/ Sent \/ Interrupt

Callbacks ==
  \/ \E n \in 1 .. Len(published) : OnSessionState(n)
  \/ \E s \in Sides, n \in 1 .. Len(published) : OnArmCommand(s, n)
  \/ StopRequest \/ StopRobot \/ StopAck

Next == MainThread \/ Callbacks \/ Publish \/ Silence

Spec == Init /\ [][Next]_vars
=============================================================================
