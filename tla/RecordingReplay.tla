---------------------------- MODULE RecordingReplay ----------------------------
(***************************************************************************)
(* The replay of a recorded session (recording/replay.py, replay_cli.py):   *)
(* one node that asks for a start, plays the recorded rows by its own clock *)
(* and asks for a return at the end, over a coordinator of which it needs   *)
(* no more than SessionAuthority.  A message of the coordinator is looked   *)
(* at by the next tick.                                                     *)
(***************************************************************************)
EXTENDS Naturals, Sequences

CONSTANTS
  End,        \* recorded time of the last row
  Gap,        \* bound on the time between two ticks
  MaxMail     \* bound on the intents on their way

ReplayAssumption == End \in Nat /\ Gap \in Nat /\ MaxMail \in Nat

VARIABLES
  \* The coordinator.
  state, atHome, returnComplete, away,
  \* The session client: the intent it waits for, whether the state carries its
  \* number, and intents on their way.
  request, answered, intents,
  \* The node.
  phase,      \* _phase
  pending,    \* _pending_action
  waits,      \* _pending_intent_sequence is set
  asked,      \* _return_requested
  paused, recorded,
  wall,       \* time since _wall_time_ns, or Unset
  cli         \* replay_cli.py: "new", "running", "returned" after its own return, "ended"

CONSTANT Unset

UnsetAssumption == Unset \notin Nat

Authority == INSTANCE SessionAuthority

authority == <<state, atHome, returnComplete, away>>
client == <<request, answered, intents>>
nodeVars == <<phase, pending, waits, asked, paused, recorded, wall>>
replayVars == <<authority, client, nodeVars, cli>>

RecordingInit ==
  /\ Authority!Init
  /\ request = "none" /\ answered = FALSE /\ intents = <<>>
  /\ phase = "armed" /\ pending = "none" /\ waits = FALSE
  /\ asked = FALSE /\ paused = FALSE /\ recorded = 0 /\ wall = Unset
  /\ cli = "new"

Publish(action) ==
  /\ request' = action /\ answered' = FALSE
  /\ intents' = Append(intents, action)

\* request_start; of the command line, once.
RequestStart ==
  /\ cli = "new" /\ phase = "armed"
  /\ Publish("start")
  /\ cli' = "running"
  /\ pending' = "start" /\ waits' = TRUE /\ phase' = "start_pending"
  /\ UNCHANGED <<authority, asked, paused, recorded, wall>>

\* request_return, here of --return-after.
RequestReturn ==
  /\ cli = "running" /\ Len(intents) < MaxMail
  /\ Publish("return")
  /\ pending' = "return" /\ waits' = TRUE /\ asked' = TRUE
  /\ phase' = IF phase = "fault" THEN "fault" ELSE "returning"
  /\ cli' = "returned"
  /\ UNCHANGED <<authority, paused, recorded, wall>>

Pause ==
  /\ phase = "replaying"
  /\ paused' = TRUE
  /\ UNCHANGED <<authority, client, phase, pending, waits, asked, recorded, wall, cli>>

\* [mutant] The clock is not started anew.
Resume_Counts ==
  /\ phase = "replaying"
  /\ paused' = FALSE
  /\ UNCHANGED <<authority, client, phase, pending, waits, asked, recorded, wall, cli>>

Resume ==
  /\ phase = "replaying"
  /\ paused' = FALSE /\ wall' = Unset
  /\ UNCHANGED <<authority, client, phase, pending, waits, asked, recorded, cli>>

TimePasses ==
  /\ wall # Unset /\ wall < Gap
  /\ wall' = wall + 1
  /\ UNCHANGED <<authority, client, phase, pending, waits, asked, paused, recorded, cli>>

-----------------------------------------------------------------------------
(* _sync_authority, of which each part starts from what the one before left. *)

Node == [phase |-> phase, pending |-> pending, waits |-> waits, asked |-> asked, paused |-> paused,
         recorded |-> recorded, wall |-> wall]

\* The client has dropped the intent the node still has on record.
Dropped(n) ==
  [n EXCEPT !.pending = "none", !.waits = FALSE,
            !.phase = IF @ \in {"start_pending", "returning"} THEN "armed" ELSE @,
            !.asked = IF n.phase \in {"start_pending", "returning"} THEN FALSE ELSE @]

StartAuthorized == request = "start" /\ answered /\ state = "teleop"

ReturnCompletionFresh ==
  /\ request = "return" /\ answered /\ state \in {"returning", "idle"}
  /\ atHome /\ returnComplete

FinishReturn(n) ==
  IF n.phase # "fault" /\ n.pending = "return" /\ ReturnCompletionFresh /\ state = "idle"
  THEN [n EXCEPT !.phase = "armed", !.pending = "none", !.waits = FALSE, !.paused = FALSE, !.asked = FALSE]
  ELSE n

\* on_session_state.
Hear(n) ==
  CASE state = "fault" -> [n EXCEPT !.phase = "fault", !.paused = FALSE, !.pending = "none"]
    [] state = "returning" /\ n.phase = "replaying" ->
         [n EXCEPT !.phase = "returning", !.paused = FALSE]
    [] state = "idle" /\ n.phase = "replaying" -> [n EXCEPT !.phase = "armed", !.paused = FALSE]
    [] state = "idle" /\ n.phase = "returning" /\ n.pending = "none" ->
         [n EXCEPT !.phase = "armed", !.paused = FALSE, !.asked = FALSE]
    [] ~n.waits \/ ~answered -> n
    [] n.pending = "start" /\ StartAuthorized ->
         [n EXCEPT !.phase = "replaying", !.paused = FALSE, !.recorded = 0,
                   !.wall = Unset, !.pending = "none"]
    [] n.pending = "start" /\ state = "idle" ->
         [n EXCEPT !.phase = "armed", !.pending = "none", !.waits = FALSE]
    [] OTHER -> FinishReturn(n)

\* The rows of the recorded time are published at every tick, paused or not;
\* the end of the recording asks for a return.
Played(n) ==
  IF n.wall = Unset THEN [n EXCEPT !.wall = 0]
  ELSE IF n.paused THEN n
  ELSE [n EXCEPT !.recorded = IF @ + n.wall > End THEN End ELSE @ + n.wall, !.wall = 0]

Becomes(n) ==
  /\ phase' = n.phase /\ pending' = n.pending /\ waits' = n.waits /\ asked' = n.asked
  /\ paused' = n.paused /\ recorded' = n.recorded
  /\ wall' = IF n.phase = "replaying" THEN n.wall ELSE Unset

\* The client's poll drops a request whose time is over without an answer; the
\* answer to a start that is no longer teleop drops it too.
PollDrops == request # "none" /\ ~(StartAuthorized \/ (request = "return" /\ answered /\ state \in {"returning", "idle"}))

Tick ==
  /\ cli \notin {"new", "ended"} /\ Len(intents) < MaxMail
  /\ \E drops \in {FALSE, PollDrops} :
       LET synced == FinishReturn(Hear(IF waits /\ (drops \/ request = "none") THEN Dropped(Node) ELSE Node))
           played == IF synced.phase = "replaying" THEN Played(synced) ELSE synced
           over == played.phase = "replaying" /\ ~played.paused /\ played.recorded >= End /\ ~played.asked
       IN /\ IF over
             THEN /\ Publish("return")
                  /\ Becomes([played EXCEPT !.pending = "return", !.waits = TRUE, !.asked = TRUE, !.phase = "returning"])
             ELSE /\ request' = IF drops THEN "none" ELSE request
                  /\ UNCHANGED <<answered, intents>>
                  /\ Becomes(played)
          \* replay_cli.py: main leaves its loop.
          /\ cli' = IF phase' \in {"armed", "fault"} /\ (cli = "returned" \/ asked') THEN "ended" ELSE cli
  /\ UNCHANGED authority

-----------------------------------------------------------------------------
Answer(isPending) ==
  /\ answered' = isPending
  /\ request' = IF isPending /\ request = "start" /\ state' # "teleop" THEN "none" ELSE request

HandleIntent ==
  /\ intents # <<>>
  /\ \/ Head(intents) = "start" /\ (Authority!AcceptStart \/ UNCHANGED authority)
     \/ Head(intents) = "return" /\ Authority!AcceptReturn
     \/ Head(intents) = "return" /\ state = "fault" /\ UNCHANGED authority
  /\ intents' = Tail(intents)
  /\ Answer(Len(intents) = 1 /\ request # "none")
  /\ UNCHANGED <<nodeVars, cli>>

CoordinatorStep ==
  /\ Authority!Advance \/ Authority!RaiseFault
  /\ Answer(answered)
  /\ UNCHANGED <<intents, nodeVars, cli>>

-----------------------------------------------------------------------------
VARIABLE running   \* units of time in which a replay that is not paused went on

observed == <<replayVars, running>>

Observe ==
  running' = IF phase' # "replaying" \/ phase # "replaying" THEN 0
             ELSE IF wall' # Unset /\ wall # Unset /\ wall' = wall + 1 /\ ~paused
                  THEN IF running > End THEN running ELSE running + 1
                  ELSE running

Init == RecordingInit /\ running = 0

Next ==
  /\ \/ RequestStart \/ RequestReturn \/ Pause \/ Resume \/ TimePasses
     \/ Tick \/ HandleIntent \/ CoordinatorStep
  /\ Observe

Spec == Init /\ [][Next]_observed
\* A pause takes no recorded time, however long it is and however often it is
\* taken: what is played is never ahead of the time the replay went on, so the
\* row published over a pause is the one it began with (pause, resume, tick).
PauseTakesNoTime == phase = "replaying" => recorded <= running
=============================================================================
