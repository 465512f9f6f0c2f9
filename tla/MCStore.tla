------------------------------ MODULE MCStore ------------------------------
(* Deliveries and one candidate route for the context-store runs.          *)
EXTENDS CandidateContextStore, TLC

Msg(kind, id, event, produced, slot, bar, body) ==
    [kind |-> kind, id |-> id, event |-> event, produced |-> produced, slot |-> slot,
     bar |-> bar, body |-> body,
     symbol |-> IF kind \in {"text", "macro"} THEN "-" ELSE "BTC",
     score |-> 0, defect |-> "none"]

Snap(id, event, body)          == Msg("market", id, event, event, 0, 0, body)
Bar(id, slot, bar)             == Msg("closed_bars", id, slot, slot, slot, bar, 0)
Text(id, event)                == Msg("text", id, event, event, 0, 0, 0)
Macro(id, event)               == Msg("macro", id, event, event, 0, 0, 0)

SymbolSet  == {"BTC", "ETH", "-"}
TradingSet == {"BTC"}
TtlByKind  == [k \in Kinds |-> IF k = "closed_bars" THEN 2 ELSE 1]

OneRoute   == {"a"}
OneIntent  == "a" :> [symbol |-> "BTC", conflict |-> FALSE, side |-> 1, routed |-> 1,
                      deadline |-> 2, decided |-> 1, evidence |-> {1}, bars |-> <<9, 1, 2>>]

(* Two snapshots and a conflict, bars of two open times with a second      *)
(* delivery of one and a conflict of the other, the cited text, a macro    *)
(* message, and deliveries the store must refuse.                          *)
Deliveries ==
    {Snap(1, 0, 0), Snap(2, 1, 0), Snap(2, 1, 1), [Snap(3, 0, 0) EXCEPT !.symbol = "ETH"],
     [Snap(4, 0, 0) EXCEPT !.defect = "scope"],
     [Snap(1, 0, 1) EXCEPT !.defect = "malformed"],
     [Snap(5, 1, 0) EXCEPT !.produced = 0],
     Bar(1, 0, 1), Bar(2, 0, 1), Bar(3, 1, 2), Bar(4, 1, 3),
     [Bar(5, 1, 2) EXCEPT !.defect = "receipt"],
     Text(1, 0), [Text(2, 0) EXCEPT !.symbol = "ETH"], Macro(1, 0)}

(* Bars of four open times, two deliveries of the first and a conflict.    *)
BarDeliveries ==
    {Bar(1, 0, 1), Bar(2, 1, 2), Bar(3, 2, 3), Bar(4, 0, 1), Bar(5, 3, 4),
     Bar(6, 0, 5)}
=============================================================================
