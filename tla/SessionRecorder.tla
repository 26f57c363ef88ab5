--------------------------- MODULE SessionRecorder ---------------------------
(***************************************************************************)
(* The recorder (recording/recorder.py, session_h5.py, session_recorder.py). *)
(* Each subscription has a thread of the transport, which appends a sample   *)
(* to several datasets of its group, one after the other; the main thread    *)
(* flushes and, on a signal, closes the file.  They share no lock.           *)
(***************************************************************************)
EXTENDS Naturals

CONSTANTS
  Streams,   \* subscriptions, each with a group of its own
  Datasets,  \* datasets of a group, in the order a row fills them
  MaxRows    \* bound: rows of a group

RecorderAssumption == Datasets \in Nat \ {0} /\ MaxRows \in Nat

VARIABLES
  rows,        \* rows of each dataset of each group
  at,          \* callback of each subscription: the dataset it appends to next, 0 when idle
  subscribed,  \* those not undeclared yet
  failed,      \* _failed
  closed,      \* _closed of the recorder
  file,        \* "open" or "closed"; "lost" when the process was killed
  complete,    \* the attribute of that name
  main         \* "loop", "closing", "decided", "committed", "done"

groupVars == <<rows, at>>
recorderVars == <<groupVars, subscribed, failed, closed, file, complete, main>>

RecorderInit ==
  /\ rows = [s \in Streams |-> [d \in 1 .. Datasets |-> 0]]
  /\ at = [s \in Streams |-> 0]
  /\ subscribed = Streams
  /\ failed = FALSE /\ closed = FALSE
  /\ file = "open" /\ complete = FALSE
  /\ main = "loop"

-----------------------------------------------------------------------------
(* receive, on the thread of a subscription.                               *)

\* A sample is taken, or is refused (its type, router, side or source) and that is
\* the end of the recording.
Receive(s) ==
  /\ s \in subscribed /\ at[s] = 0 /\ file # "lost"
  /\ rows[s][1] < MaxRows
  /\ IF closed
     THEN UNCHANGED <<at, failed>>
     ELSE \/ at' = [at EXCEPT ![s] = 1] /\ UNCHANGED failed
          \/ failed' = TRUE /\ UNCHANGED at
  /\ UNCHANGED <<rows, subscribed, closed, file, complete, main>>

\* _append, once: in the middle of a row a value that is not finite raises, and so does
\* every append to a closed file.  What the row has filled stays.
Append(s) ==
  /\ at[s] > 0 /\ file # "lost"
  /\ \/ /\ file = "open"
        /\ rows' = [rows EXCEPT ![s][at[s]] = @ + 1]
        /\ at' = [at EXCEPT ![s] = IF @ = Datasets THEN 0 ELSE @ + 1]
        /\ UNCHANGED failed
     \/ /\ file = "closed" \/ at[s] > 1
        /\ at' = [at EXCEPT ![s] = 0]
        /\ failed' = TRUE
        /\ UNCHANGED rows
  /\ UNCHANGED <<subscribed, closed, file, complete, main>>

-----------------------------------------------------------------------------
(* The main thread.  (flush changes nothing but what a reader of the open file sees.) *)

Stop ==
  /\ main = "loop"
  /\ main' = "closing"
  /\ UNCHANGED <<groupVars, subscribed, failed, closed, file, complete>>

\* A flush that fails (the disk is full) ends the recording as a failed one.
Abort ==
  /\ main = "loop"
  /\ failed' = TRUE /\ main' = "closing"
  /\ UNCHANGED <<groupVars, subscribed, closed, file, complete>>

\* A callback that is running goes on.
Undeclare(s) ==
  /\ main = "closing" /\ s \in subscribed
  /\ subscribed' = subscribed \ {s}
  /\ UNCHANGED <<groupVars, failed, closed, file, complete, main>>

\* [mutant] The last status says that it failed, the file is committed all the same.
Decide_Commits ==
  /\ main = "closing" /\ subscribed = {}
  /\ complete' = TRUE
  /\ main' = "decided"
  /\ UNCHANGED <<groupVars, subscribed, failed, closed, file>>

\* writer.close or writer.abort.
Decide ==
  /\ main = "closing" /\ subscribed = {}
  /\ complete' = ~failed
  /\ main' = "decided"
  /\ UNCHANGED <<groupVars, subscribed, failed, closed, file>>

CloseFile ==
  /\ main = "decided"
  /\ file' = "closed" /\ main' = "committed"
  /\ UNCHANGED <<groupVars, subscribed, failed, closed, complete>>

Close ==
  /\ main = "committed"
  /\ closed' = TRUE /\ main' = "done"
  /\ UNCHANGED <<groupVars, subscribed, failed, file, complete>>

\* The launcher's KILL.
Kill ==
  /\ main # "done" /\ file = "open"
  /\ file' = "lost"
  /\ main' = "done"
  /\ UNCHANGED <<groupVars, subscribed, failed, closed, complete>>

RecorderNext ==
  \/ \E s \in Streams : Receive(s) \/ Append(s) \/ Undeclare(s)
  \/ Stop \/ Abort \/ Decide \/ CloseFile \/ Close \/ Kill

RecorderSpec == RecorderInit /\ [][RecorderNext]_recorderVars

-----------------------------------------------------------------------------
Broken(s) == rows[s][Datasets] < rows[s][1]

\* A file that says complete has at most one broken row in a group, the last, which the
\* closing of the file cut short; and the recorder knows of it when its callbacks have
\* ended.  Whatever was refused or broken before keeps the file from saying complete
\* (receive, close); a reader refuses a file with a broken row.
CompleteIsWhole ==
  complete => \A s \in Streams :
                /\ rows[s][1] <= rows[s][Datasets] + 1
                /\ Broken(s) /\ at[s] = 0 => failed
=============================================================================
