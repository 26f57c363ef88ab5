-------------------------- MODULE MocapCalibration --------------------------
(***************************************************************************)
(* The calibration node (diagnostics/mocap_calibration_node.py) with its   *)
(* session client.  The operator moves a virtual target away from a        *)
(* reference that s freezes: in steps with the axis keys, or along a rise  *)
(* and a circle that advance only while Enter is held (mocap_motion.py).   *)
(* Keys and the tick are two threads that share the node's lock.           *)
(*                                                                         *)
(* The target's offset is measured along the axis the circle rises on, in  *)
(* units that one tick of the circle does not exceed.  The other two axes  *)
(* have keys of their own that work alike.                                 *)
(***************************************************************************)
EXTENDS SessionClient, Sequences

CONSTANTS
  Top,        \* the diameter of the circle, and its highest offset
  KeyStep,    \* step_mm
  Reach,      \* bound on the offset the keys bring about
  MaxIntents  \* bound on the node's requests

\* What an instance must assume.
CalibrationAssumption ==
  /\ Top \in Nat \ {0}
  /\ KeyStep \in Nat \ {0}
  /\ Reach \in Nat
  /\ MaxIntents \in Nat

VARIABLES
  phase,    \* _phase; "closed" once the main loop is left
  leaving,  \* _exit_after_return
  offset,   \* _accumulators, 0 while there are none
  circle,   \* _circle_clock: how far along its path the circle is, or None
  held,     \* its running: Enter was held at the last tick
  intents   \* intents published and not yet received

node == <<phase, leaving, offset, circle, held>>

Size(i) == IF i < 0 THEN -i ELSE i

\* Up to the top, round through the reference, and up to the top again.
Path(way) == IF way <= Top THEN way ELSE Size(2 * Top - way)
Whole == 3 * Top

\* [mutant] the clock of the circle also counts the time Enter was not held
TickSteps_NotHeld == 0 .. 1

\* How far the circle gets in a tick: the time since the last one counts when Enter
\* was held then, and at most a tick of it.
TickSteps == IF held THEN 0 .. 1 ELSE {0}

\* The keys of the axis.
AxisSteps == {-KeyStep, KeyStep}

Ask(action) ==
  /\ lastIntent < MaxIntents
  /\ Request(action)
  /\ intents' = Append(intents, [action |-> action, intent |-> lastIntent + 1])

CalibrationInit ==
  /\ phase = "armed"
  /\ leaving = FALSE
  /\ offset = 0
  /\ circle = None
  /\ held = FALSE

-----------------------------------------------------------------------------
(* The operator.                                                           *)

\* s with a fresh frame of the selected bodies: the reference is frozen before
\* the node knows whether it may ask for a start.
StartKey ==
  /\ phase = "armed"
  /\ offset' = 0 /\ circle' = None /\ held' = FALSE
  /\ leaving' = FALSE
  /\ IF StartupReady
     THEN Ask("start") /\ phase' = "start_pending"
     ELSE Poll /\ UNCHANGED <<phase, intents>>

BeginReturn(exit) ==
  /\ Ask("return")
  /\ phase' = "returning"
  /\ leaving' = exit
  /\ circle' = None /\ held' = FALSE
  /\ UNCHANGED offset

\* s while stepping, unless it comes too soon after the start (_S_DEBOUNCE_S).
ReturnKey ==
  /\ phase = "stepping"
  /\ BeginReturn(FALSE)

\* q returns first while stepping, waits for a return that is under way, and
\* leaves at once elsewhere.
QuitKey ==
  \/ phase = "stepping" /\ BeginReturn(TRUE)
  \/ /\ phase = "returning"
     /\ leaving' = TRUE
     /\ UNCHANGED <<phase, offset, circle, held, client, intents>>
  \/ /\ phase \in {"armed", "start_pending"}
     /\ phase' = "closed"
     /\ UNCHANGED <<leaving, offset, circle, held, client, intents>>

\* c, with the right arm alone and a keyboard that tells a key held from one
\* pressed: only from the reference.
CircleKey ==
  /\ phase = "stepping"
  /\ circle = None
  /\ offset = 0
  /\ circle' = 0 /\ held' = FALSE
  /\ offset' = Path(0)
  /\ UNCHANGED <<phase, leaving, client, intents>>

\* An axis key, unless the circle has the target.
AxisKey ==
  /\ phase = "stepping"
  /\ circle = None
  /\ \E step \in AxisSteps :
       Size(offset + step) <= Reach /\ offset' = offset + step
  /\ UNCHANGED <<phase, leaving, circle, held, client, intents>>

-----------------------------------------------------------------------------
(* The tick, which polls the client first.                                 *)

Started ==
  /\ phase = "start_pending"
  /\ StartAuthorized
  /\ phase' = "stepping"
  /\ Poll
  /\ UNCHANGED <<leaving, offset, circle, held, intents>>

StartRefused ==
  /\ phase = "start_pending"
  /\ ~StartAuthorized /\ NothingPending
  /\ phase' = "armed"
  /\ Poll
  /\ UNCHANGED <<leaving, offset, circle, held, intents>>

ReturnDone ==
  /\ phase = "returning"
  /\ ReturnCompletionFresh
  /\ IF leaving
     THEN phase' = "closed" /\ UNCHANGED <<offset, circle, held>>
     ELSE phase' = "armed" /\ offset' = 0 /\ circle' = None /\ held' = FALSE
  /\ Poll
  /\ UNCHANGED <<leaving, intents>>

\* The target follows the circle, which lets go of it at its end.
AdvanceCircle ==
  /\ phase = "stepping"
  /\ circle # None
  /\ \E step \in TickSteps :
       /\ offset' = Path(circle + step)
       /\ IF circle + step = Whole
          THEN circle' = None /\ held' = FALSE
          ELSE circle' = circle + step /\ held' \in BOOLEAN
  /\ Poll
  /\ UNCHANGED <<phase, leaving, intents>>

\* Nothing has come of a request yet, or the keys alone move the target.
Waiting ==
  /\ \/ phase = "armed"
     \/ phase = "start_pending" /\ ~StartAuthorized /\ ~NothingPending
     \/ phase = "returning" /\ ~ReturnCompletionFresh
     \/ phase = "stepping" /\ circle = None
  /\ Poll
  /\ UNCHANGED <<node, intents>>

Clock == ClientClock /\ UNCHANGED <<node, intents>>

CalibrationStep ==
  \/ StartKey \/ ReturnKey \/ QuitKey \/ CircleKey \/ AxisKey
  \/ Started \/ StartRefused \/ ReturnDone \/ AdvanceCircle \/ Waiting
  \/ Clock
=============================================================================
