------------------------------ MODULE MCReview ------------------------------
(* Deliveries, routes and settings for the candidate-review runs.          *)
EXTENDS ReviewRefinement, TLC

Msg(kind, id, event, slot, bar, score, body) ==
    [kind |-> kind, id |-> id, event |-> event, slot |-> slot, bar |-> bar,
     score |-> score, body |-> body, symbol |-> IF kind = "text" THEN "-" ELSE "BTC",
     produced |-> event, defect |-> "none"]

Snap(id, event, body) == Msg("market", id, event, 0, 0, 0, body)
Bar(id, slot, bar)    == Msg("closed_bars", id, slot, slot, bar, 0, 0)
Text(id, score)       == Msg("text", id, 0, 0, 0, score, 0)

SymbolSet  == {"BTC", "ETH", "-"}
TradingSet == {"BTC"}
TtlByKind  == [k \in Kinds |-> IF k = "market" THEN 1 ELSE 3]

(* The sign all the texts agree on.                                        *)
ScoreByText ==
    [T \in SUBSET Messages |->
        IF \E s \in {-1, 1} : T # {} /\ \A m \in T : m.score = s
        THEN CHOOSE s \in {-1, 1} : \A m \in T : m.score = s
        ELSE 0]

Route(routed, deadline) ==
    [symbol |-> "BTC", conflict |-> FALSE, side |-> 1, routed |-> routed,
     deadline |-> deadline, decided |-> routed, evidence |-> {}, bars |-> <<1>>]

RouteMsg(rid, mid, body) == [body |-> body, rid |-> rid, mid |-> mid]

SnapAndBar         == {Snap(1, 0, 0), Bar(1, 0, 1)}
ConflictingSnap    == {Snap(1, 0, 0), Snap(1, 0, 1), Bar(1, 0, 1)}
ConflictMessages   == ConflictingSnap \cup {Text(1, -1)}
OpposedMessages    == SnapAndBar \cup {Text(1, -1)}
NoMessages         == {}

OneRid    == {"a"}
ThreeRids == {"a", "b", "c"}
OneIntent == "a" :> Route(0, 2)
LateIntent == "a" :> [Route(1, 2) EXCEPT !.conflict = TRUE]
ThreeIntents == [rid \in ThreeRids |-> Route(0, 2)]
(* A conflict route that cites a text.                                     *)
ConflictIntent == "a" :> [Route(0, 1) EXCEPT !.conflict = TRUE, !.evidence = {1}]

OneMsg    == {RouteMsg("a", 1, 0)}
ThreeMsgs == OneMsg \cup {RouteMsg("b", 2, 0), RouteMsg("c", 3, 0)}
(* One route under two message ids.                                        *)
ReusedOne == {RouteMsg("a", 1, 0), RouteMsg("a", 3, 0)}

HandlerSymmetry == Permutations(Handlers)

ConflictModes == {"NORMAL", "CONFLICT_SAFE"}
NormalOnly    == {"NORMAL"}
=============================================================================
