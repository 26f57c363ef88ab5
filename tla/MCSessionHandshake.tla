------------------------- MODULE MCSessionHandshake -------------------------
(***************************************************************************)
(* Small instances of the session handshake for TLC.                       *)
(***************************************************************************)
EXTENDS SessionHandshakeProperties

\* For the runs that are not about the startup: the client has its snapshot,
\* three replies of the coordinator's first sequence number, as Next can bring
\* about from Init in three steps.
ConnectedInit ==
  /\ history = <<[state |-> "idle", intent |-> 0, own |-> TRUE, home |-> TRUE,
                  complete |-> FALSE, published |-> FALSE]>>
  /\ delivered = [k \in Keys |-> 1]
  /\ Authority!Init
  /\ cache = [k \in Keys |-> Message(k, 1)]
  /\ sampleSeq = [k \in Keys |-> -1]
  /\ replies = [k \in Keys |-> 1]
  /\ snapshot = TRUE
  /\ snapshotLeft = 0
  /\ timedOut = FALSE
  /\ invalid = FALSE
  /\ pending = NoRequest
  /\ pendingLeft = 0
  /\ baseline = [k \in Keys |-> -1]
  /\ lastIntent = 0
  /\ phase = "armed"
  /\ returnLeft = 0
  /\ keyReturn = FALSE
  /\ intents = <<>>

\* One coordinator, whose queries are answered already, two requests, and other sources
\* that ask it for starts; nothing is lost or overtakes anything.  The source is the live
\* one, or the calibration node.
CONSTANTS
  OrderlyForeign,              \* ForeignSeqs; the source's own requests are 1, 2, ...
  OrderlySeq, OrderlyIntents,  \* bounds on the coordinator's sequence and the requests
  CalibrationSeq,              \* the former, for the calibration node
  Top, KeyStep, Reach

ASSUME ForeignAssumption == OrderlyForeign \subseteq Nat

Orderly == INSTANCE SessionHandshakeProperties
             WITH Ordered <- TRUE, ForeignSeqs <- OrderlyForeign,
                  MaxSeq <- OrderlySeq, MaxIntents <- OrderlyIntents

VARIABLES scenario, leaving, offset, circle, held

target == <<leaving, offset, circle, held>>
every == <<vars, target, scenario>>

Calibration == INSTANCE MocapCalibration WITH MaxIntents <- OrderlyIntents

ASSUME CalibrationAssumption == Calibration!CalibrationAssumption

CoordinatorNext ==
  \/ Orderly!CoordinatorTick
  \/ Orderly!CoordinatorFault
  \/ Orderly!HandleIntent
  \/ Orderly!HandleForeignIntent
  \/ \E k \in Keys : \E n \in delivered[k] + 1 .. Len(history) : Orderly!Deliver(k, n)

OrderlyNext == Orderly!SourceStep \/ CoordinatorNext

CalibrationNext ==
  /\ Calibration!CalibrationStep
  /\ UNCHANGED <<authority, history, delivered, returnLeft, keyReturn>>

ScenariosInit ==
  /\ \/ scenario = "startup" /\ Init
     \/ scenario \in {"orderly", "calibration"} /\ ConnectedInit
  /\ Calibration!CalibrationInit

\* A client that has heard of another coordinator asks for no start: what it may hear
\* after that is left to the proofs.
StartupNext ==
  /\ Next
  /\ invalid => SourceStep

ScenariosNext ==
  /\ \/ scenario = "startup" /\ StartupNext /\ UNCHANGED target
     \/ scenario = "orderly" /\ OrderlyNext /\ UNCHANGED target
     \/ /\ scenario = "calibration" /\ CoordinatorNext /\ UNCHANGED target
        /\ Len(history') <= CalibrationSeq
     \/ scenario = "calibration" /\ CalibrationNext
  /\ UNCHANGED scenario

OrderlySpec ==
  scenario = "orderly" /\ ConnectedInit /\ Calibration!CalibrationInit /\ [][ScenariosNext]_every

ScenariosSpec == ScenariosInit /\ [][ScenariosNext]_every

\* When nothing is lost and samples come in the order of publication, a source that takes
\* its return for complete finds the arms at rest, neither still moving nor moving again
\* (return_completion_fresh), and so does the calibration node, which may leave then.  The
\* state it goes by must be an answer to one of its requests: the refusal of another
\* source's intent of the same number (arm_command_coordinator.py 626-632) is exempted, as
\* it may be published before the return is handled.
OrderlyArmedAtRest ==
  [][scenario # "startup" /\ phase = "returning" /\ phase' \in {"armed", "closed"} =>
       (GoesByOwn => ~away)]_every

\* The calibration node begins at the reference, and moves its target only when the
\* operator does: by a step of a key while no circle is loaded, or by no more than a tick
\* of the circle for which Enter was held; loading, pausing and ending the circle move
\* nothing (_on_key, _advance_circle, HoldToRunClock).
OperatorMovesTarget ==
  [][/\ phase # "stepping" /\ phase' = "stepping" => offset' = 0 /\ circle' = None
     /\ phase = "stepping" /\ phase' = "stepping" /\ offset' # offset =>
          IF circle = None
          THEN circle' = None /\ Calibration!Size(offset' - offset) = KeyStep
          ELSE held /\ Calibration!Size(offset' - offset) <= 1]_every
=============================================================================
