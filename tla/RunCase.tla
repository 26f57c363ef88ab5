------------------------------- MODULE RunCase --------------------------------
(***************************************************************************)
(* One validation case over a managed session: run_case.py launches        *)
(* run_session.sh, issues the safety stop the operator asked for, collects  *)
(* what the executors put on the wire about it, ends the session and        *)
(* records an outcome; analyze_runs.py decides whether a pass stands.       *)
(***************************************************************************)
EXTENDS Naturals, FiniteSets

CONSTANTS
  Executors,   \* arm and hand executors of the authority contract
  Showing,     \* those whose status rows carry safety_locked, the arm's
  MaxSent,     \* bound on the batches of commands an executor sends
  Nothing      \* no row, no evidence

RunCaseAssumption == MaxSent \in Nat /\ IsFiniteSet(Executors) /\ Showing \subseteq Executors

VARIABLES
  danger,    \* the operator asked for a danger stop
  stage,     \* "starting", "readying", "stopping", "closing", "ended" or "recorded"
  process,   \* run_session.sh: "alive", or how it ended
  ready,     \* executors that are up
  locked,    \* executors that took the stop
  motion,    \* the tick of each: "idle", past the look at its lock ("checked"), or with a
             \* batch of commands gone out that is not counted yet ("sent")
  moved,     \* batches that went out of each
  sent,      \* commands_sent, those that are counted
  latest,    \* last status row of each: its counter, whether it is healthy, and
             \* whether it says locked
  before,    \* counters of the rows the stop was issued on
  window,    \* 1.5 control ticks from the request: "closed", "open" or "over"
  rows,      \* status rows stamped inside it
  acks,      \* executors whose acknowledgement is stamped inside it
  lateAcks,  \* those whose is not
  evidence,  \* the safety_stop row
  outcome,   \* the outcome recorded, with the one the operator gave and whether
             \* with an event
  rc

motionVars == <<motion, moved, sent>>
executorVars == <<ready, locked, motionVars, latest, rows, acks, lateAcks>>
caseVars == <<danger, stage, process, executorVars, before, window, evidence, outcome, rc>>

RunCaseInit ==
  /\ danger \in BOOLEAN
  /\ stage = "starting" /\ process = "alive"
  /\ ready = {} /\ locked = {}
  /\ motion = [e \in Executors |-> "idle"]
  /\ moved = [e \in Executors |-> 0]
  /\ sent = [e \in Executors |-> 0]
  /\ latest = [e \in Executors |-> Nothing]
  /\ before = [e \in Executors |-> 0]
  /\ window = "closed"
  /\ rows = [e \in Executors |-> {}]
  /\ acks = {} /\ lateAcks = {}
  /\ evidence = Nothing /\ outcome = Nothing /\ rc = 0

-----------------------------------------------------------------------------
(* The executors, of which the case sees rows and acknowledgements only.  The
   tick and the stop are on threads of their own.  A row may be lost, and may be
   captured between any two steps of either. *)

Lives == process = "alive"

ExecutorUp(e) ==
  /\ Lives /\ e \notin ready
  /\ ready' = ready \cup {e}
  /\ UNCHANGED <<locked, motionVars, latest, rows, acks, lateAcks>>

\* A tick looks at the lock, sends, and counts what it sent.
LookAtLock(e) ==
  /\ Lives /\ e \in ready \ locked /\ motion[e] = "idle" /\ moved[e] < MaxSent
  /\ motion' = [motion EXCEPT ![e] = "checked"]
  /\ UNCHANGED <<ready, locked, moved, sent, latest, rows, acks, lateAcks>>

Command(e) ==
  /\ Lives /\ motion[e] = "checked"
  /\ motion' = [motion EXCEPT ![e] = "sent"]
  /\ moved' = [moved EXCEPT ![e] = @ + 1]
  /\ UNCHANGED <<ready, locked, sent, latest, rows, acks, lateAcks>>

Count(e) ==
  /\ Lives /\ motion[e] = "sent"
  /\ motion' = [motion EXCEPT ![e] = "idle"]
  /\ sent' = [sent EXCEPT ![e] = @ + 1]
  /\ UNCHANGED <<ready, locked, moved, latest, rows, acks, lateAcks>>

\* An executor is unhealthy for other reasons too, and goes on moving.
StatusRow(e, well) ==
  /\ Lives /\ e \in ready
  /\ LET row == [sent |-> sent[e], healthy |-> well /\ e \notin locked,
                 locked |-> e \in locked \cap Showing] IN
       /\ latest' = [latest EXCEPT ![e] = row]
       /\ rows' = IF window = "open" THEN [rows EXCEPT ![e] = @ \cup {row}] ELSE rows
  /\ UNCHANGED <<ready, locked, motionVars, acks, lateAcks>>

\* The stop reaches an executor, in its window or later, or never.
TakeStop(e) ==
  /\ Lives /\ window # "closed" /\ e \in ready \ locked
  /\ locked' = locked \cup {e}
  /\ UNCHANGED <<ready, motionVars, latest, rows, acks, lateAcks>>

\* Its status is out (StatusRow), or lost; the acknowledgement is stamped in the window
\* or after it.
Acknowledge(e) ==
  /\ Lives /\ e \in locked \ (acks \cup lateAcks)
  /\ acks' = IF window = "open" THEN acks \cup {e} ELSE acks
  /\ lateAcks' = IF window = "open" THEN lateAcks ELSE lateAcks \cup {e}
  /\ UNCHANGED <<ready, locked, motionVars, latest, rows>>

\* The session ends by itself: a component's status, 0 when it was a quit.
SessionExits ==
  /\ Lives
  /\ process' \in {"finished", "failed"}
  /\ UNCHANGED <<danger, stage, executorVars, before, window, evidence, outcome, rc>>

-----------------------------------------------------------------------------
(* run_case.py *)

\* The marker of the launcher, or none: the process ended or the time is up.
Started ==
  /\ stage = "starting"
  /\ stage' = IF danger THEN "readying" ELSE "closing"
  /\ UNCHANGED <<danger, process, executorVars, before, window, evidence, outcome, rc>>

ReadyRow(e) == latest[e] # Nothing /\ latest[e].healthy

IssueStop ==
  /\ stage = "readying" /\ \A e \in Executors : ReadyRow(e)
  /\ before' = [e \in Executors |-> latest[e].sent]
  /\ window' = "open"
  /\ stage' = "stopping"
  /\ UNCHANGED <<danger, process, executorVars, evidence, outcome, rc>>

\* One executor never was ready: the stop is not published at all.
StopNotIssued ==
  /\ stage = "readying"
  /\ evidence' = [ack |-> FALSE, complete |-> FALSE, lockout |-> FALSE, unhealthy |-> FALSE, still |-> FALSE]
  /\ stage' = "closing"
  /\ UNCHANGED <<danger, process, executorVars, before, window, outcome, rc>>

WindowEnds ==
  /\ window = "open"
  /\ window' = "over"
  /\ UNCHANGED <<danger, stage, process, executorVars, before, evidence, outcome, rc>>

\* [mutant] The rows of the window are compared with one another.
NoMotion_InWindow ==
  \A e \in Executors : rows[e] # {} /\ \A r, q \in rows[e] : r.sent = q.sent

\* The highest counter of the window is the one the stop was issued on.
NoMotion ==
  \A e \in Executors : /\ \E r \in rows[e] : r.sent = before[e]
                       /\ \A r \in rows[e] : r.sent <= before[e]

\* Judged when every executor acknowledged or the time for that is up.
JudgeStop ==
  /\ stage = "stopping" /\ window = "over"
  /\ evidence' = [ack |-> acks \cup lateAcks = Executors /\ lateAcks = {},
                  complete |-> acks \cup lateAcks = Executors,
                  lockout |-> \A e \in Executors : \E r \in rows[e] : r.locked,
                  unhealthy |-> \A e \in Executors : \E r \in rows[e] : ~r.healthy,
                  still |-> NoMotion]
  /\ stage' = "closing"
  /\ UNCHANGED <<danger, process, executorVars, before, window, outcome, rc>>

\* The launcher traps TERM, cleans up and exits 130; when that takes more than
\* the 5 s it is given it is killed, as Killed of RunGuard.
Terminate ==
  /\ stage = "closing" /\ Lives
  /\ process' \in {"trapped", "killed"}
  /\ UNCHANGED <<danger, stage, executorVars, before, window, evidence, outcome, rc>>

Status(end) == CASE end = "finished" -> 0 [] end = "failed" -> 1
                 [] end = "trapped" -> 130 [] end = "killed" -> 9

Finished ==
  /\ stage = "closing" /\ ~Lives
  /\ rc' = IF evidence # Nothing /\ ~evidence.complete THEN 1 ELSE Status(process)
  /\ stage' = "ended"
  /\ UNCHANGED <<danger, process, executorVars, before, window, evidence, outcome>>

\* A pass is refused after a danger stop and after a run that did not end with
\* status 0; and a pass or a fail needs an event of the operator.
Finalized(wish, noted) ==
  IF wish = "pass" /\ (rc # 0 \/ danger) THEN "fail"
  ELSE IF wish \in {"pass", "fail"} /\ ~noted THEN "fail"
  ELSE wish

RecordOutcome ==
  /\ stage = "ended"
  /\ \E wish \in {"pass", "fail", "aborted"}, noted \in BOOLEAN :
       /\ outcome' = [is |-> Finalized(wish, noted), wish |-> wish, noted |-> noted]
       /\ rc' = IF outcome'.is # wish /\ rc < 1 THEN 1 ELSE rc
  /\ stage' = "recorded"
  /\ UNCHANGED <<danger, process, executorVars, before, window, evidence>>

RunCaseNext ==
  \/ /\ \E e \in Executors :
          \/ ExecutorUp(e) \/ LookAtLock(e) \/ Command(e) \/ Count(e)
          \/ TakeStop(e) \/ Acknowledge(e)
          \/ \E well \in BOOLEAN : StatusRow(e, well)
     /\ UNCHANGED <<danger, stage, process, before, window, evidence, outcome, rc>>
  \/ SessionExits \/ Started \/ IssueStop \/ StopNotIssued \/ WindowEnds
  \/ JudgeStop \/ Terminate \/ Finished \/ RecordOutcome

-----------------------------------------------------------------------------
(* analyze_runs.py: what a fault recovery case needs for its pass to stand. *)
StopProven ==
  /\ evidence # Nothing
  /\ evidence.complete /\ evidence.lockout
  /\ evidence.ack /\ evidence.unhealthy /\ evidence.still

\* A stop that is proven was one: each executor is locked, and no more than one batch of
\* commands has gone out, or ever will, beside those that were counted when the stop was
\* issued.  (The one is of a tick that was past its look at the lock when the stop came:
\* it goes out after the row and the acknowledgement that prove the stop.)
EvidenceIsTrue ==
  StopProven => \A e \in Executors : e \in locked /\ moved[e] <= before[e] + 1
=============================================================================
