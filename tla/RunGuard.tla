------------------------------- MODULE RunGuard -------------------------------
(***************************************************************************)
(* The guard of one profile, a directory with an owner and a file of       *)
(* process groups, and the sessions that take it, launch their components  *)
(* in order, and stop them in reverse (common.sh, run_session.sh).  A      *)
(* session may be killed or interrupted between any two commands; what it  *)
(* launched lives on, each component in a process group of its own.        *)
(***************************************************************************)
EXTENDS Naturals, SequencesExt

CONSTANTS
  Sessions,     \* runs of run_session.sh
  Components,   \* components each of them launches: 1 .. Components, in order
  NoOne

RunGuardAssumption == NoOne \notin Sessions /\ Components \in Nat \ {0}

VARIABLES
  lock,       \* holder of takeover.lock
  dir,        \* the guard's directory exists
  owner,      \* its owner file, NoOne when there is none to read
  children,   \* its children file: a sequence of <<session, component>>
  living,     \* process groups alive
  at,         \* what each session is about to do
  launched,   \* components it launched
  todo,       \* records its clean-up has still to go through, from the last
  failed      \* records it could not stop, the last one first

guardVars == <<lock, dir, owner, children, living, at, launched, todo, failed>>

Running(s) == at[s] \notin {"new", "gone"}
Cleaning(s) == at[s] \in {"reclaiming", "stopping"}
Goes(s, place) == at' = [at EXCEPT ![s] = place]

RunGuardInit ==
  /\ lock = NoOne /\ dir = FALSE /\ owner = NoOne
  /\ children = <<>> /\ living = {}
  /\ at = [s \in Sessions |-> "new"]
  /\ launched = [s \in Sessions |-> 0]
  /\ todo = [s \in Sessions |-> <<>>]
  /\ failed = [s \in Sessions |-> <<>>]

Lock(s) ==
  /\ at[s] = "new" /\ lock = NoOne
  /\ lock' = s
  /\ Goes(s, "locked")
  /\ UNCHANGED <<dir, owner, children, living, launched, todo, failed>>

\* The owner's pid and start time name a process that still runs.
Reject(s) ==
  /\ at[s] = "locked" /\ dir
  /\ owner # NoOne /\ Running(owner)
  /\ lock' = NoOne
  /\ Goes(s, "gone")
  /\ UNCHANGED <<dir, owner, children, living, launched, todo, failed>>

BeginCleanup(s, place) ==
  /\ todo' = [todo EXCEPT ![s] = children]
  /\ failed' = [failed EXCEPT ![s] = <<>>]
  /\ Goes(s, place)
  /\ UNCHANGED <<lock, dir, owner, children, living, launched>>

\* What a dead owner left behind is stopped first.
Reclaim(s) ==
  /\ at[s] = "locked" /\ dir
  /\ ~(owner # NoOne /\ Running(owner))
  /\ BeginCleanup(s, "reclaiming")

\* The last record first: TERM, then KILL, and what survives both is kept.
StopLast(s) ==
  /\ Cleaning(s) /\ todo[s] # <<>>
  /\ LET record == Last(todo[s]) IN
       \/ /\ living' = living \ {record}
          /\ UNCHANGED failed
       \/ /\ record \in living
          /\ failed' = [failed EXCEPT ![s] = Append(@, record)]
          /\ UNCHANGED living
  /\ todo' = [todo EXCEPT ![s] = Front(@)]
  /\ UNCHANGED <<lock, dir, owner, children, at, launched>>

\* The file is emptied and what was kept is appended, in its first order.
EmptyRecords(s) ==
  /\ Cleaning(s) /\ todo[s] = <<>>
  /\ children' = <<>>
  /\ Goes(s, IF at[s] = "reclaiming" THEN "reclaimed" ELSE "stopped")
  /\ UNCHANGED <<lock, dir, owner, living, launched, todo, failed>>

\* [mutant] What was kept is appended in the order of the clean-up.
KeepRecord_InOrder(s) ==
  /\ at[s] \in {"reclaimed", "stopped"} /\ failed[s] # <<>>
  /\ children' = Append(children, Head(failed[s]))
  /\ failed' = [failed EXCEPT ![s] = Tail(@)]
  /\ UNCHANGED <<lock, dir, owner, living, at, launched, todo>>

KeepRecord(s) ==
  /\ at[s] \in {"reclaimed", "stopped"} /\ failed[s] # <<>>
  /\ children' = Append(children, Last(failed[s]))
  /\ failed' = [failed EXCEPT ![s] = Front(@)]
  /\ UNCHANGED <<lock, dir, owner, living, at, launched, todo>>

\* [mutant] The directory is removed whatever could not be stopped.
Reclaimed_Anyway(s) ==
  /\ at[s] = "reclaimed" /\ failed[s] = <<>>
  /\ dir' = FALSE /\ owner' = NoOne /\ children' = <<>>
  /\ Goes(s, "locked")
  /\ UNCHANGED <<lock, living, launched, todo, failed>>

\* The guard is free again, or the start is refused and the records stay.
Reclaimed(s) ==
  /\ at[s] = "reclaimed" /\ failed[s] = <<>>
  /\ IF children = <<>>
     THEN /\ dir' = FALSE /\ owner' = NoOne
          /\ Goes(s, "locked")
          /\ UNCHANGED lock
     ELSE /\ lock' = NoOne
          /\ Goes(s, "gone")
          /\ UNCHANGED <<dir, owner>>
  /\ UNCHANGED <<children, living, launched, todo, failed>>

MakeDirectory(s) ==
  /\ at[s] = "locked" /\ ~dir
  /\ dir' = TRUE
  /\ Goes(s, "creating")
  /\ UNCHANGED <<lock, owner, children, living, launched, todo, failed>>

Own(s) ==
  /\ at[s] = "creating"
  /\ owner' = s /\ children' = <<>> /\ lock' = NoOne
  /\ Goes(s, "holding")
  /\ UNCHANGED <<dir, living, launched, todo, failed>>

\* setsid: the component is alive before it is on record.
Launch(s) ==
  /\ at[s] = "holding" /\ launched[s] < Components
  /\ launched' = [launched EXCEPT ![s] = @ + 1]
  /\ living' = living \cup {<<s, launched[s] + 1>>}
  /\ Goes(s, "launching")
  /\ UNCHANGED <<lock, dir, owner, children, todo, failed>>

Register(s) ==
  /\ at[s] = "launching"
  /\ <<s, launched[s]>> \in living
  /\ children' = Append(children, <<s, launched[s]>>)
  /\ Goes(s, "holding")
  /\ UNCHANGED <<lock, dir, owner, living, launched, todo, failed>>

\* A component found dead, at its launch or by the watch loop, a signal or a
\* failure: the EXIT trap, which is taken off as it begins.
Exit(s) ==
  /\ at[s] \in {"holding", "launching"}
  /\ BeginCleanup(s, "stopping")

\* A directory whose records could not all be stopped is kept.
GiveUp(s) ==
  /\ at[s] = "stopped" /\ failed[s] = <<>> /\ children # <<>>
  /\ Goes(s, "gone")
  /\ UNCHANGED <<lock, dir, owner, children, living, launched, todo, failed>>

Release(s) ==
  /\ at[s] = "stopped" /\ failed[s] = <<>> /\ children = <<>>
  /\ lock = NoOne
  /\ lock' = s /\ owner' = NoOne
  /\ Goes(s, "removing")
  /\ UNCHANGED <<dir, children, living, launched, todo, failed>>

RemoveDirectory(s) ==
  /\ at[s] = "removing"
  /\ dir' = FALSE /\ lock' = NoOne
  /\ Goes(s, "gone")
  /\ UNCHANGED <<owner, children, living, launched, todo, failed>>

\* kill -9, or a second signal while the traps are off; the kernel lets go of
\* the lock.
Killed(s) ==
  /\ Running(s)
  /\ lock' = IF lock = s THEN NoOne ELSE lock
  /\ Goes(s, "gone")
  /\ UNCHANGED <<dir, owner, children, living, launched, todo, failed>>

ComponentDies ==
  /\ \E c \in living : living' = living \ {c}
  /\ UNCHANGED <<lock, dir, owner, children, at, launched, todo, failed>>

RunGuardNext ==
  \/ \E s \in Sessions :
       \/ Lock(s) \/ Reject(s) \/ Reclaim(s) \/ StopLast(s) \/ EmptyRecords(s)
       \/ KeepRecord(s) \/ Reclaimed(s) \/ MakeDirectory(s) \/ Own(s)
       \/ Launch(s) \/ Register(s) \/ Exit(s) \/ GiveUp(s) \/ Release(s)
       \/ RemoveDirectory(s) \/ Killed(s)
  \/ ComponentDies
=============================================================================
