----------------------------- MODULE LiveSource -----------------------------
(***************************************************************************)
(* The live motion capture source (sources/mocap/live_node.py) with its    *)
(* session client.  The operator's keys, the frames and the tick are three *)
(* threads that share the node's lock; a key is looked at before the lock  *)
(* is taken, every other step is atomic.                                   *)
(*                                                                         *)
(* A tick is given whether its inputs are good: a frame not older than     *)
(* stale_timeout, valid for every active side and mapped without error,    *)
(* and in real mode the admitted capability.                               *)
(***************************************************************************)
EXTENDS SessionClient, Sequences

CONSTANT ReturnTimeout   \* the source's own deadline of a return

ASSUME SourceAssumption == ReturnTimeout \in Nat

VARIABLES
  phase,       \* _phase; "closed" once _closed is set
  returnLeft,  \* time left until _return_deadline
  keyReturn,   \* a return key was recognised and waits for the lock
  intents      \* intents published and not yet received

node == <<phase, returnLeft, keyReturn>>
source == <<client, node, intents>>

SourceInit ==
  /\ ClientInit
  /\ phase = "armed"
  /\ returnLeft = 0
  /\ keyReturn = FALSE
  /\ intents = <<>>

Active == phase \in {"start_pending", "teleop"}

Publish(action) ==
  /\ Request(action)
  /\ intents' = Append(intents, [action |-> action, intent |-> lastIntent + 1])

\* _request_return_locked, from whatever phase the node is in by then.
RequestReturn ==
  /\ Publish("return")
  /\ returnLeft' = ReturnTimeout
  /\ phase' = IF Active THEN "returning" ELSE phase

-----------------------------------------------------------------------------
(* The operator.                                                           *)

\* s in armed, with a valid frame and the admitted capability.
RequestStart ==
  /\ phase = "armed"
  /\ StartupReady
  /\ Publish("start")
  /\ phase' = "start_pending"
  /\ UNCHANGED <<returnLeft, keyReturn>>

\* s in an active phase is recognised ...
ReturnKey ==
  /\ Active
  /\ keyReturn' = TRUE
  /\ UNCHANGED <<phase, returnLeft, client, intents>>

\* ... and obeyed once the lock is free, or q, which is checked under the lock.
ObeyReturnKey ==
  /\ phase # "closed"
  /\ keyReturn \/ Active
  /\ RequestReturn
  /\ keyReturn' = FALSE

\* q while returning gives the return more time, elsewhere ends the source.
QuitKey ==
  /\ phase \in {"armed", "returning", "fault"}
  /\ IF phase = "returning"
     THEN returnLeft' = ReturnTimeout /\ UNCHANGED phase
     ELSE phase' = "closed" /\ UNCHANGED returnLeft
  /\ UNCHANGED <<keyReturn, client, intents>>

-----------------------------------------------------------------------------
(* Frames.                                                                 *)

\* A frame of another router asks for a return in every phase; a new stream
\* only in an active one.
FrameTrouble ==
  /\ phase # "closed"
  /\ RequestReturn
  /\ UNCHANGED keyReturn

-----------------------------------------------------------------------------
(* The tick.                                                               *)

\* Poll the client and go from one phase to another without asking anything.
Move(from, to, condition) ==
  /\ phase = from
  /\ condition
  /\ Poll
  /\ phase' = to
  /\ returnLeft' = IF from = "returning" /\ to = "armed" THEN 0 ELSE returnLeft
  /\ UNCHANGED <<keyReturn, intents>>

InputsLost ==
  /\ Active
  /\ RequestReturn
  /\ UNCHANGED keyReturn

Started == Move("start_pending", "teleop", StartAuthorized)

StartRefused == Move("start_pending", "armed", ~StartAuthorized /\ NothingPending)

ReturnDone == Move("returning", "armed", ReturnCompletionFresh)

ReturnOverdue == Move("returning", "fault", ~ReturnCompletionFresh /\ returnLeft = 0)

Waiting ==
  /\ phase # "closed"
  /\ ~(phase = "start_pending" /\ (StartAuthorized \/ NothingPending))
  /\ ~(phase = "returning" /\ (ReturnCompletionFresh \/ returnLeft = 0))
  /\ Move(phase, phase, TRUE)

\* With good inputs a node in teleop publishes the targets of every active
\* side; without them it asks for a return.
NodeTick == InputsLost \/ Started \/ StartRefused \/ ReturnDone \/ ReturnOverdue \/ Waiting

NodeClock ==
  /\ ClientClock
  /\ returnLeft' = Sooner(returnLeft)
  /\ UNCHANGED <<phase, keyReturn, intents>>
=============================================================================
