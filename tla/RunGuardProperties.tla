-------------------------- MODULE RunGuardProperties --------------------------
(***************************************************************************)
(* What the guard of a profile promises, and to whom.                      *)
(***************************************************************************)
EXTENDS RunGuard

VARIABLE escaped   \* process groups that are on no record and in no clean-up

guardedVars == <<guardVars, escaped>>

\* Two windows: between setsid and the registration, and between emptying the
\* file and appending what was kept.
Unrecorded(s) ==
  IF at[s] = "launching" THEN {<<s, launched[s]>>}
  ELSE IF at[s] \in {"reclaimed", "stopped"} THEN ToSet(failed[s]) ELSE {}

Escapes ==
  escaped' = escaped \cup UNION {Unrecorded(s) :
                                  s \in {t \in Sessions : at[t] # at'[t] /\ (Killed(t) \/ Exit(t))}}

Init == RunGuardInit /\ escaped = {}
Next == RunGuardNext /\ Escapes
Spec == Init /\ [][Next]_guardedVars

\* Whatever sessions were killed before, and wherever, a session that launches
\* shares the robot with no component of another: only with what a kill or a
\* signal let out of the records (_recover_or_reject_selected_guard).
OneFleet ==
  \A s \in Sessions : at[s] \in {"holding", "launching"} =>
    \A c \in living \ escaped : c[1] = s

\* A clean-up, also one that continues what an earlier one had to keep, stops a
\* component only when all that was launched after it has gone or would not go
\* (cleanup_registered_process_groups).
StopsInReverse ==
  [][\A s \in Sessions : todo'[s] # todo[s] /\ Cleaning(s) =>
       \A c \in living' \ escaped :
         c[1] = Last(todo[s])[1] /\ c[2] > Last(todo[s])[2] => c \in ToSet(failed[s])]_guardedVars
=============================================================================
