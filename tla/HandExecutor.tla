---------------------------- MODULE HandExecutor ----------------------------
(***************************************************************************)
(* The Python executor of one Wuji hand (executors/wuji_hand2/node.py), its  *)
(* dry run, and what it hears: the phase of the session from the coordinator *)
(* and the inputs of one producer.  Each callback has a thread of the        *)
(* transport, the tick the main thread; there is no lock.                    *)
(***************************************************************************)
EXTENDS Integers, Sequences

CONSTANTS
  Far,            \* joint positions are -Far .. Far around zero
  Tolerance,      \* zero_tolerance_rad; a step to zero is a fifth of it, here 1
  Timeout,        \* command_timeout_ns
  MaxMail,        \* bound: states of the session on their way
  None

HandAssumption ==
  /\ Far \in Nat \ {0} /\ Tolerance \in Nat /\ Timeout \in Nat /\ MaxMail \in Nat \ {0}
  /\ None \notin Int

VARIABLES
  mode,       \* "direct" takes joint commands, "retarget" keypoints
  session,    \* phase the coordinator is in
  mail,       \* states it has published that have not arrived
  state,      \* _state
  stateAge,   \* since _session_received_ns, None before
  input,      \* _latest_target or _latest_command, as joint positions
  inputAge,   \* since _input_received_ns, None without
  accepting,  \* an input that has passed the check of the phase (_require_fresh_teleop)
  healthy,    \* _healthy
  locked,     \* _safety_locked
  acked,      \* a stop has been acknowledged
  position,   \* _qpos
  pc          \* the tick: "begin", "track", "read", "rest", "dead"

inputVars == <<input, inputAge, accepting>>
executorVars == <<state, stateAge, inputVars, healthy, locked, acked, position>>
handVars == <<mode, session, mail, executorVars, pc>>

Positions == -Far .. Far

HandInit ==
  /\ mode \in {"direct", "retarget"}
  /\ session = "idle" /\ mail = <<>>
  /\ state = "idle" /\ stateAge = None
  /\ input = None /\ inputAge = None /\ accepting = None
  /\ healthy = TRUE /\ locked = FALSE /\ acked = FALSE
  /\ position = 0
  /\ pc = "begin"

-----------------------------------------------------------------------------
(* The coordinator: its phase, published every tick.                        *)

After == [idle |-> {"teleop"}, teleop |-> {"returning"}, returning |-> {"idle", "fault"},
          fault |-> {}]

ChangeSession ==
  /\ session' \in After[session]
  /\ UNCHANGED <<mode, mail, executorVars, pc>>

PublishSession ==
  /\ Len(mail) < MaxMail
  /\ mail' = Append(mail, session)
  /\ UNCHANGED <<mode, session, executorVars, pc>>

-----------------------------------------------------------------------------
(* Callbacks.                                                              *)

\* _mark_unhealthy: the age of the input stays.
MarkUnhealthy ==
  /\ healthy' = FALSE /\ state' = "fault" /\ input' = None
  /\ UNCHANGED inputAge

\* on_session_state: a state that is stale when it arrives (or foreign, or out of
\* order) makes the executor unhealthy for good.
OnSessionState(stale) ==
  /\ mail # <<>>
  /\ mail' = Tail(mail)
  /\ IF stale
     THEN MarkUnhealthy /\ UNCHANGED stateAge
     ELSE /\ state' = Head(mail) /\ stateAge' = 0
          /\ IF state' \in {"returning", "fault"}
             THEN input' = None /\ inputAge' = None
             ELSE UNCHANGED <<input, inputAge>>
          /\ UNCHANGED healthy
  /\ UNCHANGED <<mode, session, accepting, locked, acked, position, pc>>

StateFresh == state = "teleop" /\ stateAge # None /\ stateAge <= Timeout

\* [mutant] What is too old is only noted.
Expire_Notes == UNCHANGED <<state, healthy, input, inputAge>>

\* _expire_to_return.
Expire ==
  /\ state' = IF state = "teleop" THEN "returning" ELSE state
  /\ healthy' = FALSE /\ input' = None /\ inputAge' = None

\* What becomes of an input that is refused: a keypoint target ends the tracking until
\* the next state of the session, a joint command makes the executor unhealthy.
Refuse ==
  IF mode = "retarget"
  THEN /\ state' = "returning" /\ input' = None /\ inputAge' = None
       /\ healthy' = (healthy /\ ~(state = "teleop" /\ ~StateFresh))
  ELSE /\ state' = "fault" /\ healthy' = FALSE /\ input' = None
       /\ inputAge' = IF state = "teleop" /\ ~StateFresh THEN None ELSE inputAge

\* on_hand_target, on_hand_command: the checks.
OnInput(asked, authorized) ==
  /\ accepting = None /\ ~locked
  /\ IF StateFresh /\ authorized
     THEN accepting' = asked /\ UNCHANGED <<state, healthy, input, inputAge>>
     ELSE Refuse /\ UNCHANGED accepting
  /\ UNCHANGED <<mode, session, mail, stateAge, locked, acked, position, pc>>

\* The rest of them: nothing is looked at again.
AcceptInput ==
  /\ accepting # None
  /\ input' = accepting /\ inputAge' = 0 /\ accepting' = None
  /\ UNCHANGED <<mode, session, mail, state, stateAge, healthy, locked, acked, position, pc>>

\* on_safety_stop: after the latch, ProtocolEnvelope is a name the module does not
\* import, so the callback ends there, without status or acknowledgement.
OnSafetyStop ==
  /\ ~locked
  /\ locked' = TRUE /\ healthy' = FALSE /\ state' = "fault" /\ input' = None
  /\ UNCHANGED <<mode, session, mail, stateAge, inputAge, accepting, acked, position, pc>>

-----------------------------------------------------------------------------
(* The tick.                                                               *)

TickLocked ==
  /\ pc = "begin" /\ locked
  /\ UNCHANGED handVars

InputExpired == state = "teleop" /\ inputAge # None /\ inputAge > Timeout

Tracking == ~locked' /\ healthy' /\ state' = "teleop" /\ inputAge' # None

\* What is too old ends the tracking; _tracking_allowed.
TickBegins ==
  /\ pc = "begin" /\ ~locked
  /\ IF (state = "teleop" /\ ~StateFresh) \/ InputExpired
     THEN Expire
     ELSE UNCHANGED <<state, healthy, input, inputAge>>
  /\ UNCHANGED <<mode, session, mail, stateAge, accepting, locked, acked, position>>
  /\ pc' = IF Tracking THEN "track" ELSE "rest"

\* Is there an input ...
TickLooks ==
  /\ pc = "track"
  /\ pc' = IF input # None THEN "read" ELSE "begin"
  /\ UNCHANGED <<mode, session, mail, executorVars>>

\* ... and, read again, what is it?  One that a callback has taken away meanwhile is an
\* AttributeError, which ends the process.
TickFollows ==
  /\ pc = "read"
  /\ IF input = None
     THEN pc' = "dead" /\ UNCHANGED position
     ELSE pc' = "begin" /\ position' = input
  /\ UNCHANGED <<mode, session, mail, state, stateAge, inputVars, healthy, locked, acked>>

Toward(p) == IF p > 0 THEN p - 1 ELSE IF p < 0 THEN p + 1 ELSE p

TickRests ==
  /\ pc = "rest"
  /\ pc' = "begin" /\ position' = Toward(position)
  /\ UNCHANGED <<mode, session, mail, state, stateAge, inputVars, healthy, locked, acked>>

HandTick == TickLocked \/ TickBegins \/ TickLooks \/ TickFollows \/ TickRests

Older(age) == IF age = None \/ age > Timeout THEN age ELSE age + 1

HandClock ==
  /\ stateAge' = Older(stateAge) /\ inputAge' = Older(inputAge)
  /\ UNCHANGED <<mode, session, mail, state, input, accepting, healthy, locked, acked, position, pc>>

Callback ==
  \/ \E stale \in BOOLEAN : OnSessionState(stale)
  \/ \E asked \in Positions, authorized \in BOOLEAN : OnInput(asked, authorized)
  \/ AcceptInput \/ OnSafetyStop

HandNext == ChangeSession \/ PublishSession \/ Callback \/ HandTick \/ HandClock

HandSpec == HandInit /\ [][HandNext]_handVars

-----------------------------------------------------------------------------
\* When no state of the session says teleop any more - the coordinator has gone, or has
\* left teleop - the hand comes to rest at zero, whatever its producer goes on asking
\* for and whichever thread was first, unless it was stopped or its process has ended
\* (_expire_to_return, tick).
ComesToZero ==
  <>[][~(\E stale \in BOOLEAN : OnSessionState(stale) /\ state' = "teleop")]_handVars
    => <>[](position = 0 \/ locked \/ pc = "dead")
=============================================================================
