------------------------- MODULE HandBridgeProperties -------------------------
(***************************************************************************)
(* What the Wuji hand executor promises.                                   *)
(***************************************************************************)
EXTENDS HandBridge

Ages(timeout) == 0 .. Old(timeout)

\* Type correctness: every variable of HandBridge has its type.
TypeOK ==
  /\ mode \in {"retarget", "direct"} /\ dry \in BOOLEAN
  /\ session \in Phases /\ sessionAge \in Ages(Freshness)
  /\ lastSession \in Sequences \cup {0}
  /\ held \in BOOLEAN /\ direct \in Lower .. Upper /\ inputAge \in Ages(InputTimeout)
  /\ locked \in BOOLEAN /\ allowed \in BOOLEAN /\ stop \in {"none", "latched", "acked"}
  /\ open \in BOOLEAN /\ frame \in Ages(Freshness) \cup {None}
  /\ newFrame \in BOOLEAN /\ commands \in {0, 1}
  /\ pc \in {"begin", "snapshot", "retarget", "shape", "send", "call", "measure", "publish", "done"}
  /\ fresh \in [session : BOOLEAN, input : BOOLEAN]
  /\ tracking \in BOOLEAN /\ desired \in Int /\ output \in Int /\ failed \in BOOLEAN
  /\ measuredAge \in Ages(Freshness) /\ running \in Ages(EnableTimeout)

\* Every command the hand is given is inside the limits, whatever the retargeter
\* answers and wherever the slew rate has brought the output (run, 605-625).
CommandsInside == pc \in {"send", "call"} => Inside(output)

\* The coordinator starts and ends a session on the status of the hand: it reports
\* tracking only while an input is held, though callbacks withdraw the input
\* between the snapshot of the loop and the end of its tick (publish_status).
StatusIsHeld == StatusTracking => held

\* No command reaches the hand once the safety stop is acknowledged, not even that
\* of a loop that tested the command channel before the stop closed it
\* (on_safety_stop, send).
AckMeansSilence == [][stop = "acked" => commands' = commands]_vars

\* An input is discarded as expired only if it is, or the teleop it was for is
\* (run, "coordinator teleop state expired", "hand input expired").
ExpiredIsOld ==
  [][pc = "snapshot" /\ pc' # "snapshot" /\ held /\ ~held' =>
       sessionAge > Freshness \/ inputAge > InputTimeout]_vars

\* When the coordinator has nothing new to say the hand opens, whatever inputs and
\* repeated states still arrive, unless it is locked or its executor ends (run).
Opens == <>[](output = 0 \/ locked \/ pc = "done")
=============================================================================
