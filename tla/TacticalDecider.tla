--------------------------- MODULE TacticalDecider ---------------------------
(***************************************************************************)
(* What the tactical brain makes of a model answer (decider.py): an answer *)
(* whose status, reason and side do not form one decision, and an entry    *)
(* with too little confidence, become the one safe command.                *)
(*                                                                         *)
(* Confidences are percentages.  Leverage, rationale and the contents of a *)
(* grid adjustment take no part in the checks and are left out.            *)
(***************************************************************************)
EXTENDS Integers

CONSTANT MinEntryConfidence  \* settings.min_entry_confidence

ASSUME EntryConfidenceAssumption == MinEntryConfidence \in 0 .. 100

Sides == {"LONG", "SHORT", "FLAT"}

AllowedReasons ==
    [STABLE_TREND_ENTRY |-> {"ENTER_LONG_TREND", "ENTER_SHORT_TREND"},
     HOLD_GRID          |-> {"HOLD"},
     SHIFT_GRID         |-> {"REBALANCE"},
     WAIT_CONFIRMATION  |-> {"NO_TRADE"},
     REDUCE_LEVERAGE    |-> {"REDUCE_LEVERAGE"},
     EXIT               |-> {"CLOSE_POSITION"}]

Statuses    == DOMAIN AllowedReasons
ReasonCodes == UNION {AllowedReasons[s] : s \in Statuses}

(* The reasons that open or turn a position.                               *)
Directional == {"ENTER_LONG_TREND", "ENTER_SHORT_TREND", "REBALANCE"}

SidesOf(reason) ==
    CASE reason = "ENTER_LONG_TREND"  -> {"LONG"}
      [] reason = "ENTER_SHORT_TREND" -> {"SHORT"}
      [] reason = "REBALANCE"         -> {"LONG", "SHORT"}
      [] OTHER                        -> {"FLAT"}

(* TacticalModelOutput before its validator.                               *)
Outputs ==
    [status : Statuses, reason : ReasonCodes, side : Sides, grid : BOOLEAN,
     confidence : 0 .. 100]

ValidOutput(o) ==
    /\ o.reason \in AllowedReasons[o.status]
    /\ o.side \in SidesOf(o.reason)
    /\ o.status = "SHIFT_GRID" => o.grid

WeakEntry(o) == o.reason \in Directional /\ o.confidence < MinEntryConfidence

SafeOutput ==
    [status |-> "WAIT_CONFIRMATION", reason |-> "NO_TRADE", side |-> "FLAT",
     grid |-> FALSE, confidence |-> 0]

(* Fault: the threshold is applied to entries and not to rebalances.       *)
DecideRebalanceUnchecked(o) ==
    IF ValidOutput(o) /\ (WeakEntry(o) => o.reason = "REBALANCE") THEN o ELSE SafeOutput

Decide(o) == IF ValidOutput(o) /\ ~WeakEntry(o) THEN o ELSE SafeOutput
=============================================================================
