--------------------------- MODULE MujocoExecutor ---------------------------
(***************************************************************************)
(* The MuJoCo executor (executors/mujoco/node.py): the commands it applies  *)
(* and the stop.  Answers, messages, commands and the stop come on threads  *)
(* of the transport, one for each callback; the tick runs on the main       *)
(* thread.  There is no lock, so a step here is at most what one thread     *)
(* does between two reads of what another writes.                           *)
(*                                                                         *)
(* Before it moves anything the executor asks the coordinator for three     *)
(* values.  The handlers of the answers and the query look at               *)
(* _snapshot_seen, _snapshot_failed and the attempt and change them in      *)
(* unlocked steps, by which _snapshot_ready comes to be set and cleared in  *)
(* orders nobody intended: of them all there is ready, which may change at  *)
(* any time.                                                                *)
(***************************************************************************)
EXTENDS Integers

CONSTANTS
  CommandTimeout,   \* command_timeout_ns
  None

MujocoAssumption == CommandTimeout \in Nat /\ None \notin Nat

VARIABLES
  ready,      \* _snapshot_ready
  healthy,    \* _healthy
  locked,     \* _safety_locked
  pending,    \* age of the last command for arms and hands, None without one
  tick,       \* "idle", past its checks ("arms"), done with the arms ("hands") or with both
              \* ("counts")
  applied,    \* what it applied (applied of tick)
  late        \* ticks that applied something and ended after the stop, up to two

tickVars == <<tick, applied>>
mujocoVars == <<ready, healthy, locked, pending, tickVars, late>>

Groups == {"arms", "hands"}

\* _initialize_home, the subscriptions, the query.
MujocoInit ==
  /\ ready = FALSE /\ healthy = TRUE /\ locked = FALSE
  /\ pending = [g \in Groups |-> None]
  /\ tick = "idle" /\ applied = {}
  /\ late = 0

-----------------------------------------------------------------------------
(* Threads of the transport.                                               *)

\* _on_snapshot_reply, and _query_coordinator_snapshot on the main thread.
Snapshot(complete) ==
  /\ ready' = complete
  /\ UNCHANGED <<healthy, locked, pending, tickVars, late>>

\* on_arm_command, on_hand_command.
OnCommand(group) ==
  /\ pending' = [pending EXCEPT ![group] = 0]
  /\ UNCHANGED <<ready, healthy, locked, tickVars, late>>

\* A command outside the limits, of another coordinator or older than the last, or a
\* message of the session that is refused (on_session_state, on_at_home,
\* on_return_complete): unhealthy for good, and moving on.
Refuse ==
  /\ healthy' = FALSE
  /\ UNCHANGED <<ready, locked, pending, tickVars, late>>

\* on_safety_stop: the status and the acknowledgement go out at once.  (A second
\* request with a higher sequence does the same again.)
OnSafetyStop ==
  /\ locked' = TRUE /\ healthy' = FALSE
  /\ UNCHANGED <<ready, pending, tickVars, late>>

-----------------------------------------------------------------------------
(* The tick.                                                               *)

\* Without the snapshot it asks again (Snapshot), or waits.
TickWaits ==
  /\ tick = "idle" /\ ~ready
  /\ UNCHANGED mujocoVars

TickLocked ==
  /\ tick = "idle" /\ ready /\ locked
  /\ UNCHANGED mujocoVars

\* [mutant] A tick does not look at the lock.
TickBegins_AnyLock ==
  /\ tick = "idle" /\ ready
  /\ tick' = "arms" /\ applied' = {}
  /\ UNCHANGED <<ready, healthy, locked, pending, late>>

TickBegins ==
  /\ tick = "idle" /\ ready /\ ~locked
  /\ tick' = "arms" /\ applied' = {}
  /\ UNCHANGED <<ready, healthy, locked, pending, late>>

Fresh(age) == age # None /\ age <= CommandTimeout

\* The last commands are applied again and again until they are stale: those of the
\* arms, then those of the hands.
TickApplies(group, next) ==
  /\ tick = group
  /\ tick' = next
  /\ applied' = IF Fresh(pending[group]) THEN applied \cup {group} ELSE applied
  /\ UNCHANGED <<ready, healthy, locked, pending, late>>

\* The commands are counted; what is published now shows the new positions.
TickEnds ==
  /\ tick = "counts"
  /\ tick' = "idle" /\ applied' = {}
  /\ late' = IF locked /\ applied # {} /\ late < 2 THEN late + 1 ELSE late
  /\ UNCHANGED <<ready, healthy, locked, pending>>

MujocoClock ==
  /\ pending' = [g \in Groups |-> IF Fresh(pending[g]) THEN pending[g] + 1 ELSE pending[g]]
  /\ UNCHANGED <<ready, healthy, locked, tickVars, late>>

MujocoMessage ==
  \/ \E complete \in BOOLEAN : Snapshot(complete)
  \/ \E group \in Groups : OnCommand(group)
  \/ Refuse \/ OnSafetyStop

MujocoTick ==
  \/ TickWaits \/ TickLocked \/ TickBegins
  \/ TickApplies("arms", "hands") \/ TickApplies("hands", "counts")
  \/ TickEnds

MujocoNext == MujocoMessage \/ MujocoTick \/ MujocoClock

\* From the stop on no more than one tick, the one under way, ends having moved arms or
\* hands, however often the snapshot is lost and complete again and whatever commands
\* still arrive (on_safety_stop, tick).
MujocoStops == late <= 1
=============================================================================
