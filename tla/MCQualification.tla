-------------------------- MODULE MCQualification --------------------------
(* The packaged corpora and a variant of each, scaled: a route is dated 6,  *)
(* its deadline is 10, a text lives for 4; the clock may reach 11.          *)
EXTENDS Qualification, TLC

Ev(id, offset, score) == [id |-> id, offset |-> offset, score |-> score]

Support == Ev(1, -1, 1)
Oppose  == Ev(2, -1, -1)
Expired == Ev(3, -6, 1)
Later1  == Ev(4, 1, -1)
Unsent  == Ev(5, -1, -1)

CaseOf(id, category, fault, ev, scripted, expected, reviewer, because) ==
    [id |-> id, category |-> category, symbol |-> "BTC",
     conflict |-> category \in {"conflict", "conflict_veto", "conflict_allow_guard"},
     fault |-> fault, evidence |-> ev, cites |-> {ev[i].id : i \in DOMAIN ev},
     scripted |-> scripted, expected |-> expected, reviewer |-> reviewer,
     because |-> because]

Asked(id, category, ev, scripted, expected, because) ==
    CaseOf(id, category, "none", <<ev>>, scripted, expected, "LLM", because)

Faulty(fault, ev, because) ==
    CaseOf(fault, fault, fault, <<ev>>, "ALLOW", {"DEFER"}, "DETERMINISTIC", because)

Packaged2 ==
    <<Asked("n2", "normal_allow", Support, "ALLOW", {"ALLOW"}, "any"),
      Asked("c2", "conflict_veto", Oppose, "VETO", {"VETO", "DEFER"}, "any"),
      Asked("g2", "conflict_allow_guard", Oppose, "ALLOW", {"DEFER"}, "CONFLICT_ALLOW_GUARD"),
      Asked("p2", "prompt_injection", Support, "DEFER", {"DEFER"}, "any"),
      [Faulty("forbidden", Support, "SYMBOL_NOT_ALLOWED") EXCEPT !.symbol = "DOGE"],
      Faulty("stale_text", [Expired EXCEPT !.offset = -1], "text"),
      Faulty("future_text", [Later1 EXCEPT !.offset = -1], "text"),
      Faulty("missing_market", Support, "market"),
      Faulty("missing_macro", Support, "macro"),
      Faulty("missing_bar", Support, "closed_bars"),
      Faulty("missing_text", Unsent, "text")>>

(* A model that vetoes the first case, a guard case without opposition,    *)
(* and a last case whose sources are all there but whose symbol is not     *)
(* traded.                                                                 *)
Changed2 ==
    [Packaged2 EXCEPT
       ![1] = Asked("n2", "normal_allow", Support, "VETO", {"ALLOW"}, "any"),
       ![3] = Asked("s2", "conflict_allow_guard", Support, "ALLOW", {"ALLOW"}, "any"),
       ![11] = [Faulty("missing_text", Support, "text")
                  EXCEPT !.id = "u2", !.fault = "none", !.symbol = "DOGE"]]

Fixed(id, category, ev, because) ==
    CaseOf(id, category, "none", ev, "DEFER", {"DEFER"}, "DETERMINISTIC", because)

Packaged1 ==
    <<Asked("n1", "normal", Support, "ALLOW", {"ALLOW"}, "any"),
      Asked("c1", "conflict", Oppose, "VETO", {"VETO", "DEFER"}, "any"),
      Asked("p1", "prompt_injection", Support, "DEFER", Decisions, "any"),
      [Fixed("f1", "deterministic_forbidden", <<>>, "SYMBOL_NOT_ALLOWED")
         EXCEPT !.symbol = "DOGE"],
      Fixed("s1", "stale", <<Expired>>, "EVIDENCE_STALE"),
      [Fixed("m1", "missing", <<>>, "EVIDENCE_UNAVAILABLE") EXCEPT !.cites = {9}],
      Fixed("l1", "post_route", <<Later1>>, "EVIDENCE_POSTDATES_ROUTE")>>

(* Evidence repeated in one case, and contradicted in another.             *)
Changed1 ==
    <<Fixed("s1", "stale", <<Expired>>, "EVIDENCE_STALE"),
      CaseOf("d1", "normal", "none", <<Support, Support>>, "ALLOW", {"ALLOW"}, "LLM", "any"),
      Packaged1[4],
      CaseOf("x1", "conflict", "none", <<Support, Ev(1, -1, -1)>>, "VETO", {"VETO"}, "LLM",
             "any")>>

CorpusSet ==
    {[harness |-> "V2", cases |-> Packaged2], [harness |-> "V2", cases |-> Changed2],
     [harness |-> "V1", cases |-> Packaged1], [harness |-> "V1", cases |-> Changed1]}

Args(static, secrets, maximum, ids) ==
    [static |-> static, secrets |-> secrets, maximum |-> maximum, ids |-> ids]

ArgumentSet ==
    {Args(TRUE, "none", 3, <<>>), Args(FALSE, "all", 3, <<>>),
     Args(FALSE, "all", 1, <<"f1">>), Args(TRUE, "none", 1, <<"c1", "f1">>),
     Args(FALSE, "all", 1, <<>>), Args(TRUE, "some", 1, <<>>),
     Args(FALSE, "some", 1, <<>>), Args(TRUE, "none", 0, <<>>), Args(TRUE, "none", 4, <<>>)}

AllCases ==
    UNION {{[version |-> all.harness, c |-> all.cases[i]] : i \in DOMAIN all.cases} :
             all \in CorpusSet}

RidSet == {k.c.id : k \in AllCases}

(* An id that two corpora share names one route.                           *)
IntentById ==
    [rid \in RidSet |->
        LET k == CHOOSE k \in AllCases : k.c.id = rid IN IntentOf(k.version, k.c)]

MessageSet ==
    UNION {LET sources == SourcesOf(k.version, k.c) IN {sources[i] : i \in DOMAIN sources} :
             k \in AllCases}

RouteSet == {[body |-> 0, mid |-> rid, rid |-> rid] : rid \in RidSet}

SymbolSet  == {"BTC", "DOGE", "-"}
TradingSet == {"BTC"}
TtlByKind  == [k \in Kinds |-> IF k = "text" THEN 4 ELSE 9]

ScoreByText ==
    [T \in SUBSET Messages |->
        IF \E s \in {-1, 1} : T # {} /\ \A m \in T : m.score = s
        THEN CHOOSE s \in {-1, 1} : \A m \in T : m.score = s
        ELSE 0]

NormalOnly == {"NORMAL"}

TwoWriters == {"run", "other"}
OtherOnly  == {"other"}
=============================================================================
