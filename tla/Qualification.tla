--------------------------- MODULE Qualification ---------------------------
(***************************************************************************)
(* The two qualification harnesses (shadow_qualification.py, V1, and       *)
(* context_qualification.py, V2).  Both run every case of a corpus through *)
(* a new candidate-review service: its sources are fed to the handlers,    *)
(* its route is reviewed, what the service published is judged, and one    *)
(* report is written.  The service and its store are those of              *)
(* CandidateReview, the report those of ReportFile; another process may    *)
(* write to the same path.                                                 *)
(*                                                                         *)
(* Nothing else runs beside the harness, its capture bus never fails, and  *)
(* only the clock of V1 is the real one.  A case is told from the next by  *)
(* its position in time only, so the cases are laid over one another: all  *)
(* routes have one routed_at, and cases with equal sources share messages. *)
(* V1 does not require text or macro context; as it never has a market     *)
(* snapshot or a bar, the flags of V2 serve for both.                      *)
(***************************************************************************)
EXTENDS CandidateReview, ReportFile

CONSTANTS
    Corpora,     \* [harness, cases]: the corpora a run may be given
    Arguments,   \* [static, secrets, maximum, ids]: command lines of V1
    HardMaximum, \* HARD_MAXIMUM_PLANNED_COST_USD, in reservations
    Routed,      \* routed_at of every case
    Window,      \* CASE_DEADLINE_MS
    StaleBy,     \* how far stale_text moves a text back
    Harness      \* the one call of _handle_route, a member of Handlers

Faults == {"none", "forbidden", "stale_text", "future_text", "missing_market",
           "missing_macro", "missing_bar", "missing_text"}

VARIABLES
    corpus,    \* the corpus of the run
    args,      \* its command line
    stage,     \* what the harness is doing
    index,     \* cases begun
    fed,       \* sources of the current case given to the service
    observed,  \* observations, one for each case judged
    exit       \* the exit code: a set of at most one

runVars     == <<corpus, args>>
harnessVars == <<runVars, stage, index, fed, observed, exit>>
allVars     == <<vars, fileVars, harnessVars>>

Stages == {"arguments", "case", "feeding", "serving", "writing", "ended"}

(* V2 takes no selection and no gateway: its run is static.                *)
ContextRun == [static |-> TRUE, secrets |-> "none", maximum |-> 1, ids |-> <<>>]

harness == corpus.harness

-----------------------------------------------------------------------------
(* Corpora                                                                 *)

(* ContextCase.validate_case and CandidateCorpusCase.consistent_expectations*)
ValidCase(version, c) ==
    IF version = "V2"
    THEN /\ c.conflict => c.category \in {"conflict_veto", "conflict_allow_guard"}
         /\ c.reviewer = "LLM" => c.fault = "none"
         /\ c.reviewer = "DETERMINISTIC" => c.because # "any"
    ELSE c.reviewer = "DETERMINISTIC" => "ALLOW" \notin c.expected /\ c.because # "any"

RequiredCategories(version) ==
    IF version = "V2"
    THEN {"normal_allow", "conflict_veto", "conflict_allow_guard", "prompt_injection"}
         \cup (Faults \ {"none"})
    ELSE {"normal", "conflict", "deterministic_forbidden", "stale"}

CaseType ==
    [id : Rids, category : STRING, symbol : Symbols, conflict : BOOLEAN, fault : Faults,
     evidence : Seq([id : Nat, offset : Int, score : -1 .. 1]), cites : SUBSET Nat,
     scripted : Decisions, expected : SUBSET Decisions,
     reviewer : {"LLM", "DETERMINISTIC"}, because : STRING]

ValidCorpus(c) ==
    LET cs == c.cases
    IN  /\ \A i, j \in DOMAIN cs : cs[i].id = cs[j].id => i = j
        /\ \A i \in DOMAIN cs : ValidCase(c.harness, cs[i])
        /\ RequiredCategories(c.harness) \subseteq {cs[i].category : i \in DOMAIN cs}

UnknownIds == {args.ids[i] : i \in DOMAIN args.ids}
              \ {corpus.cases[i].id : i \in DOMAIN corpus.cases}

(* _select_cases, of known ids that are not repeated.                      *)
Cases ==
    IF args.ids = <<>> THEN corpus.cases
    ELSE [i \in DOMAIN args.ids |->
             CHOOSE c \in {corpus.cases[j] : j \in DOMAIN corpus.cases} : c.id = args.ids[i]]

Case == Cases[index]

(* The model cases of the run, each at the price of one reservation.       *)
PlannedCost == Cardinality({i \in DOMAIN Cases : Cases[i].reviewer = "LLM"})

-----------------------------------------------------------------------------
(* _materialize                                                            *)

Source(kind, id, event, slot, bar, score, symbol) ==
    [kind |-> kind, id |-> id, event |-> event, slot |-> slot, bar |-> bar,
     score |-> score, body |-> 0, symbol |-> symbol, produced |-> event,
     defect |-> "none"]

(* Another symbol, another bar digest.                                     *)
BarOf(c) == IF c.symbol \in TradingSymbols THEN 1 ELSE 2

TextAt(c, e) ==
    IF c.fault = "future_text" THEN Routed + 1
    ELSE IF c.fault = "stale_text" THEN Routed + e.offset - StaleBy
    ELSE Routed + e.offset

Texts(c) ==
    [i \in DOMAIN c.evidence |->
        Source("text", c.evidence[i].id, TextAt(c, c.evidence[i]), 0, 0,
               c.evidence[i].score, c.symbol)]

Omitted(c) ==
    CASE c.fault = "forbidden"      -> Kinds
      [] c.fault = "missing_market" -> {"market"}
      [] c.fault = "missing_bar"    -> {"closed_bars"}
      [] c.fault = "missing_text"   -> {"text"}
      [] c.fault = "missing_macro"  -> {"macro"}
      [] OTHER                      -> {}

(* The sources of a case in the order in which they are fed.               *)
SourcesOf(version, c) ==
    LET given(kind, sources) == IF kind \in Omitted(c) THEN <<>> ELSE sources
    IN  IF version = "V1" THEN Texts(c)
        ELSE given("market", <<Source("market", BarOf(c), Routed - 2, 0, 0, 0, c.symbol)>>)
             \o given("closed_bars",
                      <<Source("closed_bars", BarOf(c), Routed, 0, BarOf(c), 0, c.symbol)>>)
             \o given("text", Texts(c))
             \o given("macro", <<Source("macro", 1, Routed - 3, 0, 0, 0, "-")>>)

(* The bar a V1 intent declares is one that nobody ever delivers.          *)
IntentOf(version, c) ==
    [symbol |-> c.symbol, conflict |-> c.conflict, side |-> 1, routed |-> Routed,
     deadline |-> Routed + Window, decided |-> Routed, evidence |-> c.cites,
     bars |-> IF version = "V2" THEN <<BarOf(c)>> ELSE <<0>>]

RouteOf(c) == CHOOSE r \in RouteMsgs : r.rid = c.id

ASSUME QualificationAssumption ==
    /\ Harness \in Handlers
    /\ "run" \in Writers
    /\ Routed \in Nat /\ Routed + 3 <= MaxTime
    /\ Window \in Nat /\ StaleBy \in Nat
    /\ \A all \in Corpora :
         /\ all.harness \in {"V1", "V2"}
         /\ all.cases \in Seq(CaseType)
         /\ ValidCorpus(all)
         /\ \A i \in DOMAIN all.cases :
              LET c == all.cases[i]
              IN  /\ Intent[c.id] = IntentOf(all.harness, c)
                  /\ \E r \in RouteMsgs : r.rid = c.id
                  /\ SourcesOf(all.harness, c) \in Seq(Messages)
    /\ \A a \in Arguments : a.ids \in Seq(STRING)

-----------------------------------------------------------------------------
(* The command line                                                        *)

Alive == step["run"] # "killed"

Exit(code) == stage' = "ended" /\ exit' = {code}

(* The gates of _run.                                                      *)
Permitted ==
    /\ UnknownIds = {}
    /\ args.maximum \in 1 .. HardMaximum
    /\ args.secrets = IF args.static THEN "none" ELSE "all"
    /\ args.static \/ PlannedCost <= args.maximum

(* main: an error ends the run without a report.                           *)
RefuseRun ==
    /\ Alive /\ stage = "arguments"
    /\ ~Permitted
    /\ Exit(2)
    /\ UNCHANGED <<runVars, index, fed, observed, vars, fileVars>>

(* The first look at the clock dates the routes: V1 dates them BASE_AGE_MS *)
(* back, V2 sets its clock a second past them.                             *)
StartRun ==
    /\ Alive /\ stage = "arguments"
    /\ Permitted
    /\ now' = IF harness = "V1" THEN Routed + 3 ELSE Routed + 1
    /\ stage' = "case"
    /\ UNCHANGED <<runVars, index, fed, observed, exit, fileVars,
                   evidence, mode, identities, caches, tasks, outside>>

-----------------------------------------------------------------------------
(* One case                                                                *)

(* Fault: the service is made once, before the first case.                 *)
KeepService ==
    /\ holder' = {} /\ pc' = [h \in Handlers |-> "idle"] /\ UNCHANGED job
    /\ UNCHANGED <<evidence, mode, identities, caches>>

(* A new service for each case.                                            *)
CaseService == NewService

(* The capture bus is new as well; the gateway keeps its count of calls.   *)
BeginCase ==
    /\ Alive /\ stage = "case" /\ index < Len(Cases)
    /\ CaseService
    /\ contextsOut' = {} /\ reviewsOut' = {}
    /\ stage' = "feeding" /\ index' = index + 1 /\ fed' = 0
    /\ UNCHANGED <<now, acked, calls, restarts, runVars, observed, exit, fileVars>>

NextSource == SourcesOf(harness, Case)[fed + 1]

Feeding ==
    /\ Alive /\ stage = "feeding" /\ fed < Len(SourcesOf(harness, Case))
    /\ UNCHANGED <<runVars, index, observed, fileVars, mode, identities, caches,
                   tasks, outside>>

(* The handler returns: the source is stored, or known already.            *)
FeedTaken ==
    /\ Feeding
    /\ \/ Accept(NextSource)
       \/ /\ Held(digests, Key(NextSource)) /\ ValueOf(digests, Key(NextSource)) = NextSource
          /\ UNCHANGED storeVars
    /\ fed' = fed + 1
    /\ UNCHANGED <<stage, exit>>

(* Fault: every refusal is tolerated.                                      *)
AnyRefusal(m) == TRUE

(* V2 alone goes on after a refusal, that of the text of a future_text case*)
Tolerated(m) == harness = "V2" /\ Case.fault = "future_text" /\ m.kind = "text"

(* The handler raises.                                                     *)
FeedRefused ==
    /\ Feeding
    /\ \/ IdentityConflict(NextSource)
       \/ /\ FirstDelivery(NextSource)
          /\ InFuture(NextSource) \/ ~InScope(NextSource)
          /\ UNCHANGED storeVars
    /\ IF Tolerated(NextSource)
       THEN fed' = fed + 1 /\ UNCHANGED <<stage, exit>>
       ELSE Exit(2) /\ UNCHANGED fed

(* Fault: a case without sources is waited for.                            *)
GiveRouteAfterSource ==
    /\ Alive /\ stage = "feeding" /\ fed = Len(SourcesOf(harness, Case)) /\ fed > 0
    /\ Receive(Harness, RouteOf(Case))
    /\ stage' = "serving"
    /\ UNCHANGED <<runVars, index, fed, observed, exit, fileVars>>

(* _handle_route is called ...                                             *)
GiveRoute ==
    /\ Alive /\ stage = "feeding" /\ fed = Len(SourcesOf(harness, Case))
    /\ Receive(Harness, RouteOf(Case))
    /\ stage' = "serving"
    /\ UNCHANGED <<runVars, index, fed, observed, exit, fileVars>>

(* The scripted gateways answer as the case says, a real one anyhow.       *)
(* No answer is lost in the guard: the scripted ones give one reason code, *)
(* and the real one is V1's, which never asks for want of a market source. *)
GatewayAnswers ==
    \E outcome \in IF args.static THEN {Case.scripted} ELSE Outcomes :
      ModelReturns(Harness, outcome)

(* ... and runs to its end, on a bus that never fails.                     *)
Serve ==
    /\ Alive /\ stage = "serving"
    /\ \/ Proceed(Harness) \/ DeferAfterContext(Harness) \/ Dispatch(Harness)
       \/ GatewayAnswers \/ ReviewSent(Harness)
    /\ UNCHANGED <<harnessVars, fileVars>>

(* time.time moves while V1 runs; the clock of V2 stands still.            *)
TimePasses ==
    /\ Alive /\ harness = "V1" /\ stage \in {"case", "feeding", "serving"}
    /\ LoopFree
    /\ now < MaxTime /\ now' = now + 1
    /\ UNCHANGED <<evidence, mode, identities, caches, tasks, outside,
                   harnessVars, fileVars>>

-----------------------------------------------------------------------------
(* Judging what the service published                                      *)

(* The reason code names the first missing source.                         *)
FirstMissing(ctx) ==
    LET missing == {k \in RequiredKinds(ctx.rid) : ctx.sources[k] = {}}
    IN  IF "closed_bars" \in missing THEN "closed_bars"
        ELSE IF "macro" \in missing THEN "macro"
        ELSE IF "market" \in missing THEN "market" ELSE "text"

Codes(x) ==
    IF x.reason = "CONTEXT_REQUIRED_UNAVAILABLE" THEN {FirstMissing(c) : c \in x.context}
    ELSE {x.reason}

Called(c) == calls[c.id] > 0

Complete == \E ctx \in contextsOut : ~MissingRequired(ctx)

Expected(c, x) ==
    /\ x.decision \in c.expected
    /\ x.reviewer = c.reviewer
    /\ c.because = "any" \/ c.because \in Codes(x)
    /\ Called(c) = (c.reviewer = "LLM")
    /\ harness = "V2" => (c.reviewer = "LLM" => Complete)
    /\ Called(c) => x.reviewer = "LLM"
    /\ calls[c.id] <= 1
    /\ x.route = RouteOf(c)
    /\ x.at <= Intent[c.id].deadline

Observation(c, x) ==
    [case |-> c, passed |-> Expected(c, x), decision |-> x.decision,
     reviewer |-> x.reviewer, calls |-> calls[c.id], complete |-> Complete]

(* Fault: only what passes is reported.                                    *)
JudgePassing ==
    /\ Alive /\ stage = "serving" /\ pc[Harness] = "acking"
    /\ \E x \in reviewsOut :
         observed' = IF Expected(Case, x) THEN Append(observed, Observation(Case, x))
                     ELSE observed
    /\ stage' = "case"
    /\ UNCHANGED <<runVars, index, fed, exit, vars, fileVars>>

(* The handler has returned: its one review is judged.                     *)
Judge ==
    /\ Alive /\ stage = "serving" /\ pc[Harness] = "acking"
    /\ \E x \in reviewsOut : observed' = Append(observed, Observation(Case, x))
    /\ stage' = "case"
    /\ UNCHANGED <<runVars, index, fed, exit, vars, fileVars>>

Conclude ==
    /\ Alive /\ stage = "case" /\ index = Len(Cases)
    /\ stage' = "writing"
    /\ UNCHANGED <<runVars, index, fed, observed, exit, vars, fileVars>>

(* Every verdict of a model costs what was reserved for it.                *)
ActualCost == Cardinality({i \in DOMAIN observed : observed[i].reviewer = "LLM"})

Status ==
    IF /\ \A i \in DOMAIN observed : observed[i].passed
       /\ ~args.static => ActualCost <= PlannedCost
    THEN "PASS" ELSE "FAIL"

PublishReport ==
    /\ stage = "writing"
    /\ WriteReport("run")
    /\ UNCHANGED <<vars, harnessVars>>

(* main: the exit code.                                                    *)
Finished ==
    /\ stage = "writing" /\ step["run"] \in Ended \ {"killed"}
    /\ Exit(IF step["run"] = "done" /\ Status = "PASS" THEN 0 ELSE 2)
    /\ UNCHANGED <<runVars, index, fed, observed, vars, fileVars>>

-----------------------------------------------------------------------------
(* Other processes and the operating system                                *)

Elsewhere ==
    /\ \/ \E w \in Writers \ {"run"} : WriteReport(w)
       \/ \E w \in Writers : Kill(w)
       \/ DirectoryFlushed \/ PowerLoss
    /\ UNCHANGED <<vars, harnessVars>>

QualificationInit ==
    /\ Init
    /\ FileInit
    /\ corpus \in Corpora
    /\ args \in IF harness = "V1" THEN Arguments ELSE {ContextRun}
    /\ stage = "arguments" /\ index = 0 /\ fed = 0 /\ observed = <<>> /\ exit = {}

HarnessStep ==
    \/ RefuseRun \/ StartRun \/ BeginCase \/ FeedTaken \/ FeedRefused
    \/ GiveRoute \/ Serve \/ Judge \/ Conclude \/ PublishReport \/ Finished

QualificationNext == HarnessStep \/ TimePasses \/ Elsewhere

QualificationSpec == QualificationInit /\ [][QualificationNext]_allVars

-----------------------------------------------------------------------------
(* Properties                                                              *)

Judged == {observed[i] : i \in DOMAIN observed}

Verdicts ==
    [case : CaseType, passed : BOOLEAN, decision : Decisions,
     reviewer : {"LLM", "DETERMINISTIC"}, calls : 0 .. MaxCalls, complete : BOOLEAN]

(* The state has its type; every case begun is judged, or being served, in *)
(* the order of the run, so that no verdict is lost before the report.     *)
QualificationTypeOK ==
    /\ TypeOK /\ FileTypeOK
    /\ corpus \in Corpora /\ args \in Arguments \cup {ContextRun}
    /\ stage \in Stages
    /\ exit \subseteq {0, 2} /\ (exit # {} <=> stage = "ended")
    /\ index \in Nat /\ fed \in Nat
    /\ index = 0 \/ (Permitted /\ index <= Len(Cases))
    /\ observed \in Seq(Verdicts) /\ Len(observed) <= index
    /\ stage \in {"case", "writing"} => Len(observed) = index
    /\ \A i \in DOMAIN observed : observed[i].case = Cases[i]

(* The corpora's deterministic cases: where a source is withheld, stale or *)
(* later than its route, or the symbol is not traded, the model is not     *)
(* asked and the review is a deterministic DEFER, whatever the cases       *)
(* before it left behind.                                                  *)
FaultFailsClosed ==
    \A o \in Judged :
      o.case.fault # "none" \/ o.case.symbol \notin TradingSymbols =>
        /\ o.calls = 0
        /\ o.reviewer = "DETERMINISTIC" /\ o.decision = "DEFER"

GuardedAgainst(c) == c.conflict /\ \A i \in DOMAIN c.evidence : c.evidence[i].score = -1

(* "only complete, fresh causal cases may call the model": and each of     *)
(* them that V2 reports did, once, on a complete context, and the review   *)
(* is the scripted decision unless the conflict guard turned it into DEFER.*)
CompleteCasesAskOnce ==
    \A o \in Judged :
      harness = "V2" /\ o.case.fault = "none" =>
        /\ o.calls = 1 /\ o.complete
        /\ o.reviewer = "LLM"
        /\ o.decision = IF o.case.scripted = "ALLOW" /\ GuardedAgainst(o.case)
                               THEN "DEFER" ELSE o.case.scripted

(* src/README.md: the V1 corpus "has no real market/bar context, so the    *)
(* unchanged runner returns FAIL (exit 2) without model dispatch", for any *)
(* selection with a model case, in any time, with any gateway.             *)
LegacyNeverDispatches ==
    harness = "V1" =>
      /\ \A c \in Rids : calls[c] = 0
      /\ exit = {0} => \A i \in DOMAIN Cases : Cases[i].reviewer # "LLM"

(* A handler call ends, a gateway call times out, a system call returns.   *)
FairQualification == QualificationSpec /\ WF_allVars(HarnessStep)

(* A run ends with an exit code, or is killed: no case waits for sources,  *)
(* for the route lock or for a review that does not come.                  *)
QualificationEnds == <>(stage = "ended" \/ ~Alive)
=============================================================================
