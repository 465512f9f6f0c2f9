------------------------------ MODULE MCService ------------------------------
(* Messages and settings for the runs of the legacy aggregator.  Fields    *)
(* are in the order TLC keeps them, that of their first occurrence: records*)
(* its workers share need no sorting.                                      *)
EXTENDS AggregatorService, TLC

Output(status, reason, side, grid, confidence) ==
    [status |-> status, reason |-> reason, side |-> side, grid |-> grid,
     confidence |-> confidence]

Snap(id, at, price) ==
    [id |-> id, at |-> at, price |-> price, symbol |-> "BTC", bias |-> "LONG"]

Signal(id, at, sentiment) ==
    [confidence |-> 80, id |-> id, at |-> at, sentiment |-> sentiment,
     impact |-> IF sentiment > 0 THEN "BULLISH" ELSE "BEARISH"]

Decision(id, at, snap, sents) ==
    [id |-> id, at |-> at, symbol |-> "BTC", snapshot |-> {snap}, sentiments |-> sents,
     quant |-> "LONG", text |-> IF sents = {} THEN "FLAT" ELSE "LONG",
     conflict |-> FALSE]

SymbolSet  == {"BTC", "ETH"}
TradingSet == {"BTC"}

(* A gateway that only ever fails: every command is the safe one.          *)
NoAnswers == {}

(* An entry at the threshold; an entry with the wrong side, rebalances     *)
(* without a grid, below the threshold and as an exit.                     *)
SomeAnswers ==
    {Output("STABLE_TREND_ENTRY", "ENTER_SHORT_TREND", side, FALSE, 60) : side \in Sides}
    \cup {Output("SHIFT_GRID", "REBALANCE", "LONG", grid, 59) : grid \in BOOLEAN}
    \cup {Output("SHIFT_GRID", "REBALANCE", "LONG", FALSE, 80),
          Output("EXIT", "REBALANCE", "FLAT", FALSE, 80)}

AllModes  == {"NORMAL", "TEXT_LOCAL_FILTER", "CONFLICT_SAFE", "LOCAL_QUANT_MODE"}
Normal    == {"NORMAL"}

OneSnap   == {Snap(1, 0, 5)}
ReusedSnaps == {Snap(1, 0, 5), Snap(1, 1, 6)}
OneSignal   == {Signal(1, 0, 60)}
(* Signal 1 may turn out to be younger than the snapshot.                  *)
SignalsAround == {Signal(1, 0, 60), Signal(1, 1, 60)}
TwoSignals    == {Signal(1, 0, 60), Signal(2, 0, 60)}

Plain        == {Decision(1, 0, 1, {})}
Cites        == {Decision(1, 0, 1, {1})}
Conflicting  == {[Decision(1, 0, 1, {1}) EXCEPT !.conflict = TRUE]}
=============================================================================
