------------------------ MODULE QualificationProofs ------------------------
(***************************************************************************)
(* The qualification harnesses for every corpus, command line, gateway and *)
(* clock: V1 never asks a model, a faulty case of either fails closed, and *)
(* a complete case of V2 asks once and is answered as it is scripted.      *)
(*                                                                         *)
(* Between the handlers it awaits, the harness keeps the candidate service *)
(* in states of its own type invariant, so that the lemmas about the       *)
(* service's steps are used as they are.  What a V1 run adds is that the   *)
(* store never has anything but texts (LegacyInv), from which every        *)
(* context it cuts misses its market snapshot.  In V2 the store never has  *)
(* anything but what the current case was fed (FaultInv), and what a fault *)
(* leaves of a case's sources is never a context with all that is required;*)
(* a case without a fault has all four of its sources there, and what its  *)
(* handler has come to by each await is fixed (CompleteInv).               *)
(***************************************************************************)
EXTENDS Qualification, CandidateReviewProofs, ReportFileProofs, SequenceTheorems

RunTyped == corpus \in Corpora /\ args \in Arguments \cup {ContextRun}

-----------------------------------------------------------------------------
(* Corpora and selections                                                  *)

(* Every selected case is one of the corpus.                               *)
LEMMA CasesType ==
    ASSUME RunTyped, UnknownIds = {}
    PROVE  /\ Cases \in Seq(CaseType)
           /\ \A i \in 1 .. Len(Cases) :
                \E j \in DOMAIN corpus.cases : Cases[i] = corpus.cases[j]
<1>1. /\ corpus.cases \in Seq(CaseType)
      /\ DOMAIN corpus.cases = 1 .. Len(corpus.cases)
      /\ \A j \in DOMAIN corpus.cases : corpus.cases[j] \in CaseType
  <2>1. corpus.cases \in Seq(CaseType)
    BY QualificationAssumption DEF RunTyped
  <2> QED BY <2>1, LenProperties, ElementOfSeq
<1>2. CASE args.ids = <<>>
  BY <1>1, <1>2 DEF Cases
<1>3. CASE args.ids # <<>>
  <2>1. args.ids \in Seq(STRING)
    BY <1>3, QualificationAssumption DEF RunTyped, ContextRun
  <2>2. Len(args.ids) \in Nat /\ DOMAIN args.ids = 1 .. Len(args.ids)
    BY <2>1, LenProperties
  <2> DEFINE pick(i) == CHOOSE c \in {corpus.cases[j] : j \in DOMAIN corpus.cases} :
                          c.id = args.ids[i]
  <2>3. \A i \in 1 .. Len(args.ids) : \E j \in DOMAIN corpus.cases : pick(i) = corpus.cases[j]
    <3> SUFFICES ASSUME NEW i \in 1 .. Len(args.ids)
                 PROVE  \E j \in DOMAIN corpus.cases : pick(i) = corpus.cases[j]
      OBVIOUS
    <3>1. args.ids[i] \in {corpus.cases[j].id : j \in DOMAIN corpus.cases}
      BY <2>2 DEF UnknownIds
    <3>2. \E c \in {corpus.cases[j] : j \in DOMAIN corpus.cases} : c.id = args.ids[i]
      BY <3>1
    <3>3. pick(i) \in {corpus.cases[j] : j \in DOMAIN corpus.cases}
      BY <3>2
    <3> QED BY <3>3
  <2>4. Cases = [i \in 1 .. Len(args.ids) |-> pick(i)]
    BY <1>3, <2>2 DEF Cases
  <2> HIDE DEF pick
  <2>5. Cases \in [1 .. Len(args.ids) -> CaseType]
    BY <1>1, <2>3, <2>4
  <2>6. Cases \in Seq(CaseType)
    BY <2>2, <2>5, SeqDef
  <2>7. DOMAIN Cases = 1 .. Len(Cases) /\ DOMAIN Cases = 1 .. Len(args.ids)
    BY <2>5, <2>6, LenProperties
  <2>8. \A i \in 1 .. Len(Cases) : i \in 1 .. Len(args.ids) /\ Cases[i] = pick(i)
    BY <2>4, <2>7
  <2> QED BY <2>3, <2>6, <2>8
<1> QED BY <1>2, <1>3

LEMMA CaseIsTyped ==
    ASSUME RunTyped, Permitted, index \in 1 .. Len(Cases)
    PROVE  /\ Case \in CaseType
           /\ RouteOf(Case) \in RouteMsgs /\ RouteOf(Case).rid = Case.id
           /\ SourcesOf(harness, Case) \in Seq(Messages)
<1>1. Cases \in Seq(CaseType)
  BY CasesType DEF Permitted
<1>2. Case \in CaseType
  BY <1>1, ElementOfSeq DEF Case
<1>3. PICK j \in DOMAIN corpus.cases : Case = corpus.cases[j]
  BY CasesType DEF Permitted, Case
<1>4. /\ \E r \in RouteMsgs : r.rid = Case.id
      /\ SourcesOf(harness, Case) \in Seq(Messages)
  BY <1>3, QualificationAssumption DEF RunTyped, harness
<1> QED BY <1>2, <1>4 DEF RouteOf

(* A source that is fed is a delivery, and in V1 a text.                   *)
LEMMA NextSourceType ==
    ASSUME RunTyped, Permitted, index \in 1 .. Len(Cases), fed \in Nat,
           fed < Len(SourcesOf(harness, Case))
    PROVE  /\ NextSource \in Messages
           /\ harness = "V1" => NextSource.kind = "text"
<1> DEFINE sources == SourcesOf(harness, Case)
<1>1. sources \in Seq(Messages)
  BY CaseIsTyped
<1>2. Len(sources) \in Nat /\ DOMAIN sources = 1 .. Len(sources)
  BY <1>1, LenProperties
<1>3. fed + 1 \in 1 .. Len(sources)
  BY <1>2
<1>4. NextSource \in Messages
  BY <1>1, <1>3, ElementOfSeq DEF NextSource
<1>5. ASSUME harness = "V1" PROVE NextSource.kind = "text"
  <2>1. sources = Texts(Case)
    BY <1>5 DEF SourcesOf
  <2>2. fed + 1 \in DOMAIN Texts(Case)
    BY <1>2, <1>3, <2>1
  <2>3. Texts(Case)[fed + 1].kind = "text"
    BY <2>2 DEF Texts, Source
  <2> QED BY <2>1, <2>3 DEF NextSource
<1> QED BY <1>4, <1>5

-----------------------------------------------------------------------------
(* The books of the harness: how many cases are begun, fed and judged      *)

Books ==
    /\ RunTyped
    /\ stage \in Stages
    /\ exit \subseteq {0, 2} /\ (exit # {} <=> stage = "ended")
    /\ index \in Nat /\ fed \in Nat
    /\ index = 0 \/ (Permitted /\ index <= Len(Cases))
    /\ observed \in Seq(Verdicts) /\ Len(observed) <= index
    /\ stage \in {"case", "writing"} => Len(observed) = index
    /\ \A i \in DOMAIN observed : observed[i].case = Cases[i]
    /\ stage = "arguments" => index = 0
    /\ stage \in {"case", "feeding", "serving", "writing"} => Permitted
    /\ stage \in {"feeding", "serving"} => Len(observed) + 1 = index
    /\ stage = "writing" => index = Len(Cases)

(* While a case is fed or served, it is a case of the run.                 *)
LEMMA CaseInHand ==
    ASSUME Books, stage \in {"feeding", "serving"}
    PROVE  /\ Permitted /\ index \in 1 .. Len(Cases)
           /\ Case \in CaseType
           /\ RouteOf(Case) \in RouteMsgs /\ RouteOf(Case).rid = Case.id
<1>1. Permitted /\ index = Len(observed) + 1 /\ Len(observed) \in Nat /\ RunTyped
  BY LenProperties DEF Books
<1>2. Len(Cases) \in Nat
  BY <1>1, CasesType, LenProperties DEF Permitted
<1>3. index \in 1 .. Len(Cases)
  BY <1>1, <1>2 DEF Books
<1> QED BY <1>1, <1>3, CaseIsTyped

-----------------------------------------------------------------------------
(* The candidate service inside the harness                                *)

LEMMA RunFixed ==
    ASSUME UNCHANGED runVars
    PROVE  /\ Cases' = Cases /\ (Permitted <=> Permitted') /\ harness' = harness
           /\ (RunTyped <=> RunTyped')
BY DEF runVars, Cases, Permitted, UnknownIds, PlannedCost, harness, RunTyped

LEMMA StutterTypeOK == ASSUME TypeOK, UNCHANGED vars PROVE TypeOK'
BY UnchangedTypes, TypePartsPrime DEF vars, caches

LEMMA StoreStepTypeOK ==
    ASSUME TypeOK, StoreTypeOK', UNCHANGED <<mode, identities, caches, tasks, outside>>
    PROVE  TypeOK'
BY UnchangedTypes, TypePartsPrime DEF caches, tasks

LEMMA ClockTypeOK ==
    ASSUME TypeOK, now' \in Times,
           UNCHANGED <<evidence, mode, identities, caches, tasks, outside>>
    PROVE  TypeOK'
<1>1. StoreTypeOK'
  BY DEF TypeOK, StoreTypeOK, evidence
<1> QED BY <1>1, StoreStepTypeOK

LEMMA BeginCaseTypeOK == ASSUME TypeOK, BeginCase PROVE TypeOK'
<1> USE DEF BeginCase, CaseService, NewService
<1>1. StoreTypeOK'
  BY EmptyIsCache DEF TypeOK, StoreTypeOK
<1>2. IdentityTypes' /\ CutTypes'
  BY EmptyIsCache DEF IdentityTypes, CutTypes
<1>3. TaskTypes'
  BY EmptyIsCache, IdleJobType DEF TaskTypes, Phases
<1>4. OutsideTypes'
  BY DEF TypeOK, OutsideTypes
<1> QED BY <1>1, <1>2, <1>3, <1>4, ReviewAssumption, TypePartsPrime

LEMMA FeedTypeOK == ASSUME TypeOK, Books, FeedTaken \/ FeedRefused PROVE TypeOK'
<1>1. NextSource \in Messages
  BY CaseInHand, NextSourceType DEF FeedTaken, FeedRefused, Feeding, Books
<1>2. StoreTypeOK'
  <2>1. CASE UNCHANGED storeVars
    BY <2>1, UnchangedTypes
  <2>2. CASE Ingest(NextSource)
    BY <1>1, <2>2, IngestTypeOK DEF TypeOK
  <2> QED BY <2>1, <2>2 DEF FeedTaken, FeedRefused, Ingest
<1> QED BY <1>2, StoreStepTypeOK DEF FeedTaken, FeedRefused, Feeding

LEMMA ServeTypeOK == ASSUME TypeOK, Books, Serve PROVE TypeOK'
<1>1. Harness \in Handlers
  BY QualificationAssumption
<1>2. CASE Proceed(Harness)
  BY <1>1, <1>2, WakeTypeOK, RefusalTypeOK, ResendCachedTypeOK, DeferUnseenTypeOK,
     CaptureTypeOK, RecaptureTypeOK DEF Proceed
<1>3. CASE DeferAfterContext(Harness) \/ Dispatch(Harness) \/ ReviewSent(Harness)
  BY <1>1, <1>3, DeferAfterContextTypeOK, DispatchTypeOK, ReviewSentTypeOK
<1>4. CASE GatewayAnswers
  <2>1. PICK outcome \in (IF args.static THEN {Case.scripted} ELSE Outcomes) :
          ModelReturns(Harness, outcome)
    BY <1>4 DEF GatewayAnswers
  <2>2. Case.scripted \in Decisions
    BY CaseInHand DEF Serve, CaseType
  <2>3. outcome \in Outcomes
    BY <2>1, <2>2 DEF Outcomes
  <2> QED BY <1>1, <2>1, <2>3, ModelReturnsTypeOK
<1> QED BY <1>2, <1>3, <1>4 DEF Serve

LEMMA ServiceStepTypeOK ==
    ASSUME TypeOK, Books, [QualificationNext]_allVars
    PROVE  TypeOK'
<1>1. CASE UNCHANGED vars
  BY <1>1, StutterTypeOK
<1>2. CASE StartRun
  <2>1. now' \in Times
    BY <1>2, QualificationAssumption, SettingsAssumption DEF StartRun, Times
  <2> QED BY <1>2, <2>1, ClockTypeOK DEF StartRun
<1>3. CASE BeginCase
  BY <1>3, BeginCaseTypeOK
<1>4. CASE FeedTaken \/ FeedRefused
  BY <1>4, FeedTypeOK
<1>5. CASE GiveRoute
  BY <1>5, CaseInHand, ReceiveTypeOK, QualificationAssumption DEF GiveRoute
<1>6. CASE Serve
  BY <1>6, ServeTypeOK
<1>7. CASE TimePasses
  <2>1. now' \in Times
    BY <1>7, SettingsAssumption DEF TimePasses, TypeOK, StoreTypeOK, Times
  <2> QED BY <1>7, <2>1, ClockTypeOK DEF TimePasses
<1>8. RefuseRun \/ Judge \/ Conclude \/ PublishReport \/ Finished \/ Elsewhere => UNCHANGED vars
  BY DEF RefuseRun, Judge, Conclude, PublishReport, Finished, Elsewhere
<1> QED BY <1>1, <1>2, <1>3, <1>4, <1>5, <1>6, <1>7, <1>8
        DEF QualificationNext, HarnessStep, allVars

(* The harness and everything else write files as ReportFile says.         *)
LEMMA FileStep == [QualificationNext]_allVars => [FileNext]_fileVars
<1> SUFFICES ASSUME [QualificationNext]_allVars PROVE [FileNext]_fileVars
  OBVIOUS
<1>1. CASE PublishReport
  BY <1>1, QualificationAssumption DEF PublishReport, FileNext
<1>2. CASE Elsewhere
  BY <1>2 DEF Elsewhere, FileNext
<1>3. \/ RefuseRun \/ StartRun \/ BeginCase \/ FeedTaken \/ FeedRefused
      \/ GiveRoute \/ Serve \/ Judge \/ Conclude \/ Finished \/ TimePasses
      \/ UNCHANGED allVars
      => UNCHANGED fileVars
  BY DEF RefuseRun, StartRun, BeginCase, FeedTaken, FeedRefused, Feeding, GiveRoute, Serve,
         Judge, Conclude, Finished, TimePasses, allVars
<1> QED BY <1>1, <1>2, <1>3 DEF QualificationNext, HarnessStep

(* Every step leaves the corpus and the command line alone.                *)
LEMMA RunStep == [QualificationNext]_allVars => UNCHANGED runVars
<1>1. HarnessStep => UNCHANGED runVars
  BY DEF HarnessStep, RefuseRun, StartRun, BeginCase, FeedTaken, FeedRefused, Feeding,
         GiveRoute, Serve, Judge, Conclude, PublishReport, Finished, harnessVars
<1>2. TimePasses \/ Elsewhere \/ UNCHANGED allVars => UNCHANGED runVars
  BY DEF TimePasses, Elsewhere, allVars, harnessVars
<1> QED BY <1>1, <1>2 DEF QualificationNext

LEMMA ObservationType ==
    ASSUME TypeOK, NEW c \in CaseType, NEW x \in reviewsOut
    PROVE  /\ Observation(c, x) \in Verdicts
           /\ Observation(c, x).case = c
           /\ Observation(c, x).passed = Expected(c, x)
<1>1. x \in Reviews /\ c.id \in Rids
  BY DEF TypeOK, CaseType
<1>2. Expected(c, x) \in BOOLEAN /\ Complete \in BOOLEAN
  BY DEF Expected, Complete
<1>3. calls[c.id] \in 0 .. MaxCalls
  BY <1>1 DEF TypeOK
<1> QED BY <1>1, <1>2, <1>3 DEF Observation, Verdicts, Reviews

LEMMA Appending ==
    ASSUME NEW S, NEW s \in Seq(S), NEW e \in S
    PROVE  LET t == Append(s, e)
           IN  /\ t \in Seq(S) /\ Len(t) = Len(s) + 1 /\ DOMAIN t = 1 .. Len(s) + 1
               /\ \A i \in 1 .. Len(s) : t[i] = s[i]
               /\ t[Len(s) + 1] = e
BY AppendProperties, LenProperties

LEMMA BooksStep ==
    ASSUME TypeOK, Books, [QualificationNext]_allVars
    PROVE  Books'
<1>0. /\ Cases' = Cases /\ (Permitted <=> Permitted') /\ (RunTyped <=> RunTyped')
      /\ Len(observed) \in Nat /\ DOMAIN observed = 1 .. Len(observed)
  BY RunStep, RunFixed, LenProperties DEF Books
<1> USE <1>0
<1>1. CASE UNCHANGED <<stage, index, fed, observed, exit>>
  BY <1>1 DEF Books
<1>2. CASE RefuseRun \/ Finished
  BY <1>2 DEF Books, RefuseRun, Finished, Exit, Stages
<1>3. CASE StartRun
  BY <1>3 DEF Books, StartRun, Stages
<1>4. CASE BeginCase
  <2>1. Len(Cases) \in Nat
    BY <1>4, CasesType, LenProperties DEF BeginCase, Books, Permitted
  <2> QED BY <1>4, <2>1 DEF Books, BeginCase, Stages
<1>5. CASE FeedTaken \/ FeedRefused
  <2>1. /\ stage = "feeding" /\ UNCHANGED <<index, observed>>
        /\ fed' \in {fed, fed + 1}
    BY <1>5 DEF FeedTaken, FeedRefused, Feeding
  <2>2. UNCHANGED <<stage, exit>> \/ (stage' = "ended" /\ exit' = {2})
    BY <1>5 DEF FeedTaken, FeedRefused, Exit
  <2>3. CASE UNCHANGED <<stage, exit>>
    BY <2>1, <2>3 DEF Books
  <2>4. CASE stage' = "ended" /\ exit' = {2}
    BY <2>1, <2>4 DEF Books, Stages
  <2> QED BY <2>2, <2>3, <2>4
<1>6. CASE GiveRoute
  BY <1>6 DEF Books, GiveRoute, Stages
<1>7. CASE Judge
  <2>1. PICK x \in reviewsOut : observed' = Append(observed, Observation(Case, x))
    BY <1>7 DEF Judge
  <2>2. Case \in CaseType /\ index = Len(observed) + 1 /\ Permitted
    BY <1>7, CaseInHand DEF Judge, Books
  <2>3. Observation(Case, x) \in Verdicts /\ Observation(Case, x).case = Case
    BY <2>2, ObservationType
  <2>4. /\ observed' \in Seq(Verdicts) /\ Len(observed') = index
        /\ \A i \in 1 .. Len(observed) : observed'[i] = observed[i]
        /\ observed'[index] = Observation(Case, x)
        /\ DOMAIN observed' = 1 .. index
    <3> DEFINE o == Observation(Case, x)
    <3>1. o \in Verdicts /\ observed \in Seq(Verdicts) /\ Len(observed) \in Nat
      BY <2>3 DEF Books
    <3> HIDE DEF o
    <3>2. LET t == Append(observed, o)
          IN  /\ t \in Seq(Verdicts) /\ Len(t) = Len(observed) + 1
              /\ DOMAIN t = 1 .. Len(observed) + 1
              /\ \A i \in 1 .. Len(observed) : t[i] = observed[i]
              /\ t[Len(observed) + 1] = o
      BY <3>1, Appending
    <3>3. observed' = Append(observed, o)
      BY <2>1 DEF o
    <3>4. /\ observed' \in Seq(Verdicts) /\ Len(observed') = index
          /\ \A i \in 1 .. Len(observed) : observed'[i] = observed[i]
          /\ observed'[index] = o
          /\ DOMAIN observed' = 1 .. index
      BY <2>2, <3>2, <3>3
    <3> QED BY <3>4 DEF o
  <2>5. \A i \in DOMAIN observed' : observed'[i].case = Cases[i]
    <3> SUFFICES ASSUME NEW i \in 1 .. index PROVE observed'[i].case = Cases[i]
      BY <2>4
    <3>1. CASE i = index
      BY <2>3, <2>4, <3>1 DEF Case
    <3>2. CASE i # index
      <4>1. i \in 1 .. Len(observed)
        BY <2>2, <3>2
      <4> QED BY <2>4, <4>1 DEF Books
    <3> QED BY <3>1, <3>2
  <2>6. stage = "serving" /\ stage' = "case" /\ UNCHANGED <<index, fed, exit>>
    BY <1>7 DEF Judge
  <2> QED BY <2>2, <2>4, <2>5, <2>6 DEF Books, Stages
<1>8. CASE Conclude
  BY <1>8 DEF Books, Conclude, Stages
<1>9. Serve \/ TimePasses \/ PublishReport \/ Elsewhere \/ UNCHANGED allVars
      => UNCHANGED <<stage, index, fed, observed, exit>>
  BY DEF Serve, TimePasses, PublishReport, Elsewhere, harnessVars, allVars
<1> QED BY <1>1, <1>2, <1>3, <1>4, <1>5, <1>6, <1>7, <1>8, <1>9
        DEF QualificationNext, HarnessStep

LEMMA QualificationInvariant ==
    QualificationSpec => [](TypeOK /\ Books) /\ FileSpec
<1>1. QualificationInit => TypeOK /\ Books /\ FileInit
  <2> SUFFICES ASSUME QualificationInit PROVE TypeOK /\ Books
    BY DEF QualificationInit
  <2>1. TypeOK
    BY InitTypeOK DEF QualificationInit
  <2>2. RunTyped
    BY DEF QualificationInit, RunTyped
  <2>3. <<>> \in Seq(Verdicts) /\ Len(<<>>) = 0 /\ DOMAIN <<>> = {}
    BY EmptySeq
  <2> QED BY <2>1, <2>2, <2>3 DEF QualificationInit, Books, Stages
<1>2. TypeOK /\ Books /\ [QualificationNext]_allVars => (TypeOK /\ Books)'
  BY ServiceStepTypeOK, BooksStep
<1> QED BY <1>1, <1>2, FileStep, PTL DEF QualificationSpec, FileSpec

(* Every state of a run is well typed, and the harness accounts for every  *)
(* case: what it has begun it judges, in the order of the run.             *)
THEOREM QualificationTyped == QualificationSpec => []QualificationTypeOK
<1>1. TypeOK /\ Books /\ FileTypeOK => QualificationTypeOK
  BY DEF QualificationTypeOK, Books, RunTyped
<1> QED BY <1>1, QualificationInvariant, FilesTyped, PTL

(* The harness and its neighbours write to the path as ReportFile says: no *)
(* run that ends by itself leaves a temporary file ...                     *)
THEOREM QualificationLeavesNothing == QualificationSpec => []NoTemporaryLeft
BY QualificationInvariant, NothingLeftBehind, PTL

(* ... and whoever reads the path finds no report or a whole one.          *)
THEOREM QualificationReportsAtomic == QualificationSpec => ReportsRemainAtomic
BY QualificationInvariant, ReportsAtomic, PTL

-----------------------------------------------------------------------------
(* V1 never asks: the inductive invariant                                  *)

NoMarket(context) == context.sources.market = {}

(* The store has texts, so no context that is cached or in the handler's   *)
(* hands shows a market snapshot.                                          *)
TextsOnly == \A k \in DOMAIN entries : k[1] = "text"

MarketMissing ==
    /\ \A rid \in DOMAIN contextCache : NoMarket(ValueOf(contextCache, rid))
    /\ \A context \in job[Harness].context : NoMarket(context)

NeverAsked == \A rid \in Rids : calls[rid] = 0

PassedUnasked ==
    \A i \in DOMAIN observed : observed[i].passed => observed[i].case.reviewer # "LLM"

NothingToAsk == exit = {0} => \A i \in DOMAIN Cases : Cases[i].reviewer # "LLM"

LegacyInv ==
    harness = "V1" =>
      TextsOnly /\ MarketMissing /\ NeverAsked /\ PassedUnasked /\ NothingToAsk

LEMMA AcceptTexts ==
    ASSUME TextsOnly, NEW m, m.kind = "text", Accept(m)
    PROVE  TextsOnly'
<1> DEFINE o == [message |-> m, received |-> now]
<1>1. entries' = Insert(entries, Key(m), o, CacheSize)
  BY DEF Accept
<1>2. \A k \in DOMAIN entries' \ {Key(m)} : k \in DOMAIN entries
  BY <1>1, CacheSizeType, InsertReads DEF Held
<1>3. Key(m)[1] = "text"
  BY DEF Key
<1> QED BY <1>2, <1>3 DEF TextsOnly

LEMMA CutWithoutMarket ==
    ASSUME TextsOnly, NEW rid, NEW cutoff, NEW captured
    PROVE  NoMarket(Build(rid, cutoff, captured))
<1>1. KeysOf("market") = {}
  BY DEF TextsOnly, KeysOf
<1>2. {ValueOf(entries, k) : k \in KeysOf("market")} = {}
  BY <1>1
<1>3. Snapshot("market", rid, cutoff, captured) = {}
  BY <1>2 DEF Snapshot
<1> QED BY <1>3 DEF NoMarket, Build

LEMMA NoMarketNoCall ==
    ASSUME NEW context, NoMarket(context), NEW t
    PROVE  StartReason(context, t) # "none"
<1>1. MissingRequired(context)
  BY DEF NoMarket, MissingRequired, RequiredKinds
<1> QED BY <1>1 DEF StartReason

(* Remembering a review leaves the contexts as they are.                   *)
LEMMA FinishKeepsContext ==
    ASSUME TypeOK, NEW review, Finish(Harness, review)
    PROVE  job'[Harness].context = job[Harness].context
BY QualificationAssumption DEF TypeOK, Jobs, Finish

LEMMA ServeMarketMissing ==
    ASSUME TypeOK, TextsOnly, MarketMissing, NeverAsked, Serve
    PROVE  TextsOnly' /\ MarketMissing' /\ NeverAsked'
<1>0. Harness \in Handlers /\ job \in [Handlers -> Jobs] /\ IdleJob.context = {}
  BY QualificationAssumption DEF TypeOK, IdleJob
<1>1. ASSUME UNCHANGED <<storeVars, contextCache, calls>>,
             \A context \in job'[Harness].context : NoMarket(context)
      PROVE  TextsOnly' /\ MarketMissing' /\ NeverAsked'
  BY <1>1 DEF storeVars, TextsOnly, MarketMissing, NeverAsked, NoMarket
<1>2. CASE Wake(Harness) \/ SkipProcessed(Harness) \/ ReviewSent(Harness)
  <2>1. UNCHANGED <<storeVars, contextCache, calls, job>>
    BY <1>2 DEF Wake, SkipProcessed, ReviewSent, Return, caches, outside
  <2> QED BY <1>1, <2>1 DEF MarketMissing
<1>3. CASE RejectReused(Harness) \/ RefuseCached(Harness)
  <2>1. UNCHANGED <<storeVars, contextCache, calls>> /\ job'[Harness] = IdleJob
    BY <1>0, <1>3 DEF RejectReused, RefuseCached, Raise, caches, outside
  <2> QED BY <1>0, <1>1, <2>1
<1>4. CASE ResendCached(Harness) \/ Recapture(Harness)
  <2> DEFINE rid == job[Harness].route.rid
  <2>1. UNCHANGED <<storeVars, contextCache, calls>>
    BY <1>4 DEF ResendCached, Recapture, caches, outside
  <2>2. job'[Harness].context \subseteq {ValueOf(contextCache, r) : r \in DOMAIN contextCache}
    <3>1. CASE ResendCached(Harness)
      <4>1. job'[Harness].context = Cached(contextCache, rid)
        BY <1>0, <3>1 DEF ResendCached, Jobs
      <4> QED BY <4>1 DEF Cached, Held
    <3>2. CASE Recapture(Harness)
      <4>1. job'[Harness].context = {ValueOf(contextCache, rid)}
        BY <1>0, <3>2 DEF Recapture, Jobs
      <4> QED BY <3>2, <4>1 DEF Recapture, Held
    <3> QED BY <1>4, <3>1, <3>2
  <2> QED BY <1>1, <2>1, <2>2 DEF MarketMissing
<1>5. CASE DeferUnseen(Harness) \/ DeferAfterContext(Harness) \/ GatewayAnswers
  <2>1. UNCHANGED <<storeVars, contextCache, calls>> /\ \E review : Finish(Harness, review)
    BY <1>5 DEF DeferUnseen, DeferAfterContext, ContextSent, GatewayAnswers, ModelReturns,
                outside
  <2> QED BY <1>1, <2>1, FinishKeepsContext DEF MarketMissing
<1>6. CASE Capture(Harness)
  <2> DEFINE rid == job[Harness].route.rid
             context == Build(rid, job[Harness].received, now)
  <2>1. UNCHANGED <<storeVars, calls>>
    BY <1>6 DEF Capture, outside
  <2>2. NoMarket(context)
    BY CutWithoutMarket
  <2>3. \/ /\ contextCache' = Remember(contextCache, rid, context, CacheSize)
           /\ job' = [job EXCEPT ![Harness].context = {context}]
        \/ UNCHANGED contextCache /\ \E review : Finish(Harness, review)
    BY <1>6 DEF Capture
  <2>4. \A c \in job'[Harness].context : NoMarket(c)
    <3>1. ASSUME job' = [job EXCEPT ![Harness].context = {context}]
          PROVE  job'[Harness].context = {context}
      BY <1>0, <3>1 DEF Jobs
    <3> QED BY <2>2, <2>3, <3>1, FinishKeepsContext DEF MarketMissing
  <2>5. \A r \in DOMAIN contextCache' : NoMarket(ValueOf(contextCache', r))
    <3> HIDE DEF context
    <3>1. CASE contextCache' = Remember(contextCache, rid, context, CacheSize)
      BY <2>2, <3>1, CacheSizeType, RememberReads DEF MarketMissing, Held
    <3>2. CASE UNCHANGED contextCache
      BY <3>2 DEF MarketMissing
    <3> QED BY <2>3, <3>1, <3>2
  <2> QED BY <2>1, <2>4, <2>5 DEF storeVars, TextsOnly, MarketMissing, NeverAsked, NoMarket
<1>7. CASE Dispatch(Harness)
  BY <1>7, NoMarketNoCall DEF Dispatch, MarketMissing
<1> QED BY <1>2, <1>3, <1>4, <1>5, <1>6, <1>7 DEF Serve, Proceed

(* What is not asked passes only if it is not for the model.               *)
LEMMA JudgePassesUnasked ==
    ASSUME TypeOK, Books, NeverAsked, PassedUnasked, Judge
    PROVE  PassedUnasked'
<1>1. PICK x \in reviewsOut : observed' = Append(observed, Observation(Case, x))
  BY DEF Judge
<1>2. Case \in CaseType
  BY CaseInHand DEF Judge
<1>3. Expected(Case, x) => Case.reviewer # "LLM"
  <2>1. ~Called(Case)
    BY <1>2 DEF CaseType, NeverAsked, Called
  <2> QED BY <2>1 DEF Expected
<1>4. Observation(Case, x).passed => Observation(Case, x).case.reviewer # "LLM"
  BY <1>3 DEF Observation
<1>5. \A i \in DOMAIN observed' :
        IF i \in DOMAIN observed THEN observed'[i] = observed[i]
        ELSE observed'[i] = Observation(Case, x)
  <2>1. observed \in Seq(Verdicts) /\ Observation(Case, x) \in Verdicts
    BY <1>2, ObservationType DEF Books
  <2> QED BY <1>1, <2>1, AppendProperties, LenProperties
<1> QED BY <1>4, <1>5 DEF PassedUnasked

LEMMA LegacyStep ==
    ASSUME TypeOK, Books, LegacyInv, [QualificationNext]_allVars
    PROVE  LegacyInv'
<1>0. Cases' = Cases /\ harness' = harness
  BY RunStep, RunFixed
<1> SUFFICES ASSUME harness = "V1"
             PROVE  (TextsOnly /\ MarketMissing /\ NeverAsked /\ PassedUnasked /\ NothingToAsk)'
  BY <1>0 DEF LegacyInv
<1>1. TextsOnly /\ MarketMissing /\ NeverAsked /\ PassedUnasked /\ NothingToAsk
  BY DEF LegacyInv
<1>2. UNCHANGED <<entries, contextCache, job, calls>> =>
        TextsOnly' /\ MarketMissing' /\ NeverAsked'
  BY <1>1 DEF TextsOnly, MarketMissing, NeverAsked, NoMarket
<1>3. UNCHANGED observed => PassedUnasked'
  BY <1>1 DEF PassedUnasked
<1>4. exit' \in {exit, {2}} => NothingToAsk'
  BY <1>0, <1>1 DEF NothingToAsk
<1>5. CASE UNCHANGED allVars
  BY <1>2, <1>3, <1>4, <1>5
     DEF allVars, vars, harnessVars, storeVars, caches, tasks, outside
<1>6. CASE RefuseRun \/ StartRun \/ Conclude \/ PublishReport \/ TimePasses \/ Elsewhere
  BY <1>2, <1>3, <1>4, <1>6
     DEF RefuseRun, StartRun, Conclude, PublishReport, TimePasses, Elsewhere, Exit,
         vars, harnessVars, storeVars, evidence, caches, tasks, outside
<1>7. CASE BeginCase
  <2>1. /\ entries' = EmptyCache /\ contextCache' = EmptyCache
        /\ job'[Harness].context = {} /\ UNCHANGED <<calls, observed, exit>>
    BY <1>7, QualificationAssumption DEF BeginCase, CaseService, NewService, IdleJob
  <2> QED BY <2>1, <1>1, <1>3, <1>4 DEF TextsOnly, MarketMissing, NeverAsked, EmptyCache
<1>8. CASE FeedTaken \/ FeedRefused
  <2>1. /\ UNCHANGED <<contextCache, job, calls, observed>> /\ exit' \in {exit, {2}}
    BY <1>8 DEF FeedTaken, FeedRefused, Feeding, Exit, caches, tasks, outside
  <2>2. NextSource.kind = "text"
    BY <1>8, CaseInHand, NextSourceType DEF FeedTaken, FeedRefused, Feeding, Books
  <2>3. UNCHANGED entries \/ Accept(NextSource)
    BY <1>8 DEF FeedTaken, FeedRefused, IdentityConflict, storeVars
  <2>4. TextsOnly'
    BY <2>2, <2>3, <1>1, AcceptTexts DEF TextsOnly
  <2>5. MarketMissing' /\ NeverAsked'
    BY <2>1, <1>1 DEF MarketMissing, NeverAsked, NoMarket
  <2> QED BY <2>1, <2>4, <2>5, <1>3, <1>4
<1>9. CASE GiveRoute
  <2>1. /\ UNCHANGED <<entries, contextCache, calls, observed, exit>>
        /\ job'[Harness].context = {}
    BY <1>9, QualificationAssumption
       DEF GiveRoute, Receive, IdleJob, TypeOK, storeVars, caches, outside
  <2> QED BY <2>1, <1>1, <1>3, <1>4 DEF TextsOnly, MarketMissing, NeverAsked, NoMarket
<1>10. CASE Serve
  <2>1. UNCHANGED <<observed, exit>>
    BY <1>10 DEF Serve, harnessVars
  <2> QED BY <2>1, <1>1, <1>3, <1>4, <1>10, ServeMarketMissing
<1>11. CASE Judge
  <2>1. UNCHANGED <<entries, contextCache, job, calls, exit>>
    BY <1>11 DEF Judge, vars, storeVars, caches, tasks, outside
  <2> QED BY <2>1, <1>1, <1>2, <1>4, <1>11, JudgePassesUnasked
<1>12. CASE Finished
  <2>1. UNCHANGED <<entries, contextCache, job, calls, observed>>
    BY <1>12 DEF Finished, vars, storeVars, caches, tasks, outside
  <2>2. exit' = {0} => \A i \in DOMAIN observed : observed[i].passed
    BY <1>12 DEF Finished, Exit, Status
  <2>3. DOMAIN observed = DOMAIN Cases
    <3>1. Cases \in Seq(CaseType) /\ Len(observed) = Len(Cases)
      BY <1>12, CasesType DEF Finished, Books, Permitted
    <3> QED BY <3>1, LenProperties DEF Books
  <2>4. \A i \in DOMAIN observed : observed[i].case = Cases[i]
    BY DEF Books
  <2>5. NothingToAsk'
    BY <1>0, <1>1, <2>2, <2>3, <2>4 DEF NothingToAsk, PassedUnasked
  <2> QED BY <2>1, <2>5, <1>2, <1>3
<1> QED BY <1>5, <1>6, <1>7, <1>8, <1>9, <1>10, <1>11, <1>12
        DEF QualificationNext, HarnessStep

LEMMA LegacyInvariant == QualificationSpec => []LegacyInv
<1>1. QualificationInit => LegacyInv
  <2> SUFFICES ASSUME QualificationInit
               PROVE  TextsOnly /\ MarketMissing /\ NeverAsked /\ PassedUnasked /\ NothingToAsk
    BY DEF LegacyInv
  <2>1. Harness \in Handlers
    BY QualificationAssumption
  <2> QED BY <2>1 DEF QualificationInit, Init, StoreInit, EmptyCache, IdleJob, TextsOnly,
                      MarketMissing, NeverAsked, PassedUnasked, NothingToAsk
<1>2. TypeOK /\ Books /\ LegacyInv /\ [QualificationNext]_allVars => LegacyInv'
  BY LegacyStep
<1> QED BY <1>1, <1>2, QualificationInvariant, PTL DEF QualificationSpec

(* V1 "returns FAIL (exit 2) without model dispatch": for every corpus     *)
(* with a model case, command line, gateway and clock.                     *)
THEOREM LegacyWithoutDispatch == QualificationSpec => []LegacyNeverDispatches
<1>1. LegacyInv => LegacyNeverDispatches
  BY DEF LegacyInv, NeverAsked, NothingToAsk, LegacyNeverDispatches
<1> QED BY <1>1, LegacyInvariant, PTL
-----------------------------------------------------------------------------
(* Where a run stands: the route in hand, and in V2 the clock              *)

(* The handler works on the route of the current case, if on any.          *)
OwnRoute ==
    pc[Harness] # "idle" => stage = "serving" /\ job[Harness].route = RouteOf(Case)

InCase == stage \in {"feeding", "serving"}

(* V2 stands still a second past the routes.                               *)
ClockOfRun ==
    harness = "V2" /\ stage \in {"case", "feeding", "serving"} => now = Routed + 1

RunInv ==
    /\ harness = "V2" => args = ContextRun
    /\ ClockOfRun
    /\ InCase => OwnRoute

LEMMA CaseIntent ==
    ASSUME Books, InCase
    PROVE  /\ Case \in CaseType /\ Case.id \in Rids /\ harness \in {"V1", "V2"}
           /\ Intent[Case.id] = IntentOf(harness, Case)
           /\ SourcesOf(harness, Case) \in Seq(Messages)
           /\ RouteOf(Case).rid = Case.id
           /\ \E j \in DOMAIN corpus.cases : Case = corpus.cases[j]
<1>1. /\ Permitted /\ index \in 1 .. Len(Cases) /\ Case \in CaseType /\ RunTyped
      /\ RouteOf(Case).rid = Case.id
  BY CaseInHand DEF InCase, Books
<1>2. PICK j \in DOMAIN corpus.cases : Case = corpus.cases[j]
  BY <1>1, CasesType DEF Permitted, Case
<1>3. /\ harness \in {"V1", "V2"} /\ Intent[Case.id] = IntentOf(harness, Case)
      /\ SourcesOf(harness, Case) \in Seq(Messages)
  BY <1>1, <1>2, QualificationAssumption DEF RunTyped, harness
<1> QED BY <1>1, <1>2, <1>3 DEF CaseType

LEMMA CaseFixed ==
    ASSUME UNCHANGED <<runVars, index>>
    PROVE  /\ Case' = Case /\ harness' = harness
           /\ SourcesOf(harness, Case)' = SourcesOf(harness, Case)
           /\ RouteOf(Case)' = RouteOf(Case)
<1>1. Case' = Case /\ harness' = harness
  BY RunFixed DEF Case
<1>2. Texts(Case)' = Texts(Case) /\ Omitted(Case)' = Omitted(Case)
  BY <1>1 DEF Texts, TextAt, Source, Omitted
<1>3. SourcesOf(harness, Case)' = SourcesOf(harness, Case)
  BY <1>1, <1>2 DEF SourcesOf, Source, BarOf
<1> QED BY <1>1, <1>3 DEF RouteOf

(* V2 runs its whole corpus, in which no case occurs twice.                *)
LEMMA ContextCasesDiffer ==
    ASSUME RunTyped, args = ContextRun, NEW i \in DOMAIN Cases, NEW j \in DOMAIN Cases,
           Cases[i].id = Cases[j].id
    PROVE  i = j
<1>1. Cases = corpus.cases
  BY DEF Cases, ContextRun
<1>2. ValidCorpus(corpus)
  BY QualificationAssumption DEF RunTyped
<1> QED BY <1>1, <1>2 DEF ValidCorpus

(* Until it is idle again the handler has the route of the case.           *)
LEMMA ServeOwnRoute ==
    ASSUME TypeOK, OwnRoute, Serve, Case' = Case, stage' = stage
    PROVE  OwnRoute'
<1>0. /\ Harness \in Handlers /\ job \in [Handlers -> Jobs] /\ pc \in [Handlers -> Phases]
      /\ stage = "serving"
  BY QualificationAssumption DEF TypeOK, Serve
<1>1. \/ pc'[Harness] = "idle"
      \/ pc[Harness] # "idle" /\ job'[Harness].route = job[Harness].route
  <2>1. CASE RejectReused(Harness) \/ RefuseCached(Harness)
    BY <1>0, <2>1 DEF RejectReused, RefuseCached, Raise, GoTo
  <2>2. CASE Wake(Harness) \/ SkipProcessed(Harness) \/ ReviewSent(Harness)
    BY <2>2 DEF Wake, SkipProcessed, RememberIdentity, ReviewSent, Return
  <2>3. CASE ResendCached(Harness) \/ Recapture(Harness) \/ Dispatch(Harness)
    BY <1>0, <2>3 DEF ResendCached, HasCachedReview, Recapture, Begins, RememberIdentity,
                      Dispatch, ContextSent, Jobs
  <2>4. ASSUME NEW x, Finish(Harness, x) PROVE job'[Harness].route = job[Harness].route
    BY <1>0, <2>4 DEF Finish, Jobs
  <2>5. CASE DeferUnseen(Harness) \/ DeferAfterContext(Harness) \/ GatewayAnswers
    <3>1. pc[Harness] # "idle" /\ \E x : Finish(Harness, x)
      BY <2>5 DEF DeferUnseen, Begins, RememberIdentity, DeferAfterContext, ContextSent,
                  GatewayAnswers, ModelReturns
    <3> QED BY <2>4, <3>1
  <2>6. CASE Capture(Harness)
    <3>1. pc[Harness] # "idle"
      BY <2>6 DEF Capture, Begins, RememberIdentity
    <3>2. \/ \E c : job' = [job EXCEPT ![Harness].context = c]
          \/ \E x : Finish(Harness, x)
      BY <2>6 DEF Capture
    <3>3. ASSUME NEW c, job' = [job EXCEPT ![Harness].context = c]
          PROVE  job'[Harness].route = job[Harness].route
      BY <1>0, <3>3 DEF Jobs
    <3> QED BY <2>4, <3>1, <3>2, <3>3
  <2> QED BY <2>1, <2>2, <2>3, <2>5, <2>6 DEF Serve, Proceed
<1>2. RouteOf(Case)' = RouteOf(Case)
  BY DEF RouteOf
<1> QED BY <1>0, <1>1, <1>2 DEF OwnRoute

(* The calls of a case are made while it is served.                        *)
LEMMA ServeCalls ==
    ASSUME TypeOK, Books, OwnRoute, Serve
    PROVE  \A rid \in Rids : rid # Case.id => calls'[rid] = calls[rid]
<1>1. CASE Dispatch(Harness)
  <2>1. job[Harness].route.rid = Case.id
    BY <1>1, CaseInHand DEF OwnRoute, Dispatch, ContextSent, Serve
  <2> QED BY <1>1, <2>1 DEF Dispatch, TypeOK
<1>2. ~Dispatch(Harness) => calls' = calls
  BY DEF Serve, Proceed, Wake, RejectReused, SkipProcessed, RefuseCached, ResendCached,
         DeferUnseen, Capture, Recapture, DeferAfterContext, GatewayAnswers, ModelReturns,
         ReviewSent, outside
<1> QED BY <1>1, <1>2

(* A step that serves leaves the store alone.                              *)
LEMMA ServeStore == ASSUME Serve PROVE UNCHANGED storeVars
BY DEF Serve, Proceed, Wake, RejectReused, SkipProcessed, RefuseCached, ResendCached,
       DeferUnseen, Capture, Recapture, DeferAfterContext, ContextSent, Dispatch,
       GatewayAnswers, ModelReturns, ReviewSent

LEMMA RunInvStep ==
    ASSUME TypeOK, Books, RunInv, [QualificationNext]_allVars
    PROVE  RunInv'
<1>0. /\ UNCHANGED runVars /\ harness' = harness /\ (harness = "V2" => args' = ContextRun)
  <2>1. UNCHANGED runVars
    BY RunStep
  <2> QED BY <2>1, RunFixed DEF runVars, RunInv
<1>1. UNCHANGED now /\ (stage' \in {"case", "feeding", "serving"}
                          => stage \in {"case", "feeding", "serving"})
        => ClockOfRun'
  BY <1>0 DEF RunInv, ClockOfRun
<1>2. ASSUME UNCHANGED <<index, pc, job>>, InCase' => UNCHANGED stage
      PROVE  InCase' => OwnRoute'
  <2> SUFFICES ASSUME InCase' PROVE OwnRoute'
    OBVIOUS
  <2>1. RouteOf(Case)' = RouteOf(Case) /\ InCase /\ stage' = stage
    BY <1>0, <1>2, CaseFixed DEF InCase
  <2> QED BY <1>2, <2>1 DEF RunInv, OwnRoute
<1>3. CASE UNCHANGED allVars \/ PublishReport \/ Elsewhere
  <2>1. UNCHANGED <<vars, harnessVars>>
    BY <1>3 DEF allVars, PublishReport, Elsewhere
  <2>2. UNCHANGED <<now, stage, index, pc, job>>
    BY <2>1 DEF vars, harnessVars, storeVars, tasks
  <2> QED BY <1>0, <1>1, <1>2, <2>2 DEF RunInv
<1>4. CASE RefuseRun \/ Conclude \/ Finished \/ Judge
  <2>1. UNCHANGED <<now, index, pc, job>> /\ stage' \in {"ended", "writing", "case"}
        /\ (stage' = "case" => stage = "serving")
    BY <1>4 DEF RefuseRun, Conclude, Finished, Judge, Exit, vars, storeVars, tasks
  <2>2. ~InCase'
    BY <2>1 DEF InCase
  <2> QED BY <1>0, <1>1, <2>1, <2>2 DEF RunInv
<1>5. CASE StartRun
  <2>1. stage' = "case" /\ (harness # "V1" => now' = Routed + 1)
    BY <1>5 DEF StartRun
  <2> QED BY <1>0, <2>1 DEF RunInv, InCase, ClockOfRun
<1>6. CASE BeginCase
  <2>1. UNCHANGED now /\ stage = "case" /\ pc'[Harness] = "idle"
    BY <1>6, QualificationAssumption DEF BeginCase, CaseService, NewService
  <2> QED BY <1>0, <1>1, <2>1 DEF RunInv, OwnRoute
<1>7. CASE FeedTaken \/ FeedRefused
  <2>1. UNCHANGED <<now, index, pc, job>> /\ stage = "feeding"
        /\ stage' \in {"feeding", "ended"}
    BY <1>7 DEF FeedTaken, FeedRefused, Feeding, Accept, IdentityConflict, storeVars, tasks,
                Exit
  <2> QED BY <1>0, <1>1, <1>2, <2>1 DEF RunInv, InCase
<1>8. CASE GiveRoute
  <2>1. /\ UNCHANGED <<now, index>> /\ stage = "feeding" /\ stage' = "serving"
        /\ job'[Harness].route = RouteOf(Case)
    BY <1>8, QualificationAssumption DEF GiveRoute, Receive, IdleJob, TypeOK, storeVars
  <2>2. RouteOf(Case)' = RouteOf(Case)
    BY <1>0, <2>1, CaseFixed
  <2> QED BY <1>0, <1>1, <2>1, <2>2 DEF RunInv, OwnRoute
<1>9. CASE Serve
  <2>1. UNCHANGED <<now, index, stage>> /\ InCase
    BY <1>9, ServeStore DEF Serve, harnessVars, storeVars, InCase
  <2>2. Case' = Case
    BY <1>0, <2>1, CaseFixed
  <2>3. OwnRoute'
    BY <1>9, <2>1, <2>2, ServeOwnRoute DEF RunInv
  <2> QED BY <1>0, <1>1, <2>1, <2>3 DEF RunInv
<1>10. CASE TimePasses
  <2>1. harness = "V1" /\ UNCHANGED <<index, stage, pc, job>>
    BY <1>10 DEF TimePasses, harnessVars, tasks
  <2> QED BY <1>0, <1>2, <2>1 DEF RunInv, ClockOfRun
<1> QED BY <1>3, <1>4, <1>5, <1>6, <1>7, <1>8, <1>9, <1>10
        DEF QualificationNext, HarnessStep

LEMMA RunInvariant == QualificationSpec => []RunInv
<1>1. QualificationInit => RunInv
  <2>1. ASSUME QualificationInit PROVE harness \in {"V1", "V2"}
    BY <2>1, QualificationAssumption DEF QualificationInit, harness
  <2> QED BY <2>1 DEF QualificationInit, RunInv, ClockOfRun, InCase
<1>2. TypeOK /\ Books /\ RunInv /\ [QualificationNext]_allVars => RunInv'
  BY RunInvStep
<1> QED BY <1>1, <1>2, QualificationInvariant, PTL DEF QualificationSpec

-----------------------------------------------------------------------------
(* A faulty case fails closed: the inductive invariant                     *)

(* What the V2 harness is written for: text and macro context are          *)
(* required, a text precedes its route, and a stale one has expired.       *)
FaultsTell ==
    /\ RequireText /\ RequireMacro
    /\ Ttl["text"] <= StaleBy
    /\ \A all \in Corpora : all.harness = "V2" =>
         \A i \in DOMAIN all.cases : \A j \in DOMAIN all.cases[i].evidence :
           all.cases[i].evidence[j].offset <= 0

Doomed(c) == harness = "V1" \/ c.fault # "none" \/ c.symbol \notin TradingSymbols

Closed(x) == x.reviewer = "DETERMINISTIC" /\ x.decision = "DEFER"

(* The store has only what the current case has been fed.                  *)
OnlyFed ==
    \A k \in DOMAIN entries : \E j \in 1 .. Len(SourcesOf(harness, Case)) :
      LET m == SourcesOf(harness, Case)[j]
      IN  ValueOf(entries, k).message = m /\ k = Key(m)

NoHope ==
    /\ \A rid \in DOMAIN contextCache : MissingRequired(ValueOf(contextCache, rid))
    /\ \A context \in job[Harness].context : MissingRequired(context)

OnlyClosed ==
    /\ \A x \in job[Harness].review \cup reviewsOut : Closed(x)
    /\ \A rid \in DOMAIN reviewCache : Closed(ValueOf(reviewCache, rid))

CaseInv ==
    InCase =>
      /\ OnlyFed
      /\ Doomed(Case) => pc[Harness] # "model" /\ NoHope /\ OnlyClosed

DoomedUncalled ==
    Permitted =>
      \A i \in DOMAIN Cases : i > Len(observed) /\ Doomed(Cases[i]) => calls[Cases[i].id] = 0

DoomedClosed ==
    \A i \in DOMAIN observed :
      Doomed(observed[i].case) => observed[i].calls = 0 /\ Closed(observed[i])

FaultInv == CaseInv /\ DoomedUncalled /\ DoomedClosed

LEMMA JoinedFour ==
    ASSUME NEW S, NEW s \in Seq(S), NEW t \in Seq(S), NEW u \in Seq(S), NEW v \in Seq(S)
    PROVE  s \o t \o u \o v \in Seq(S)
<1>1. s \o t \in Seq(S)
  BY ConcatProperties
<1>2. (s \o t) \o u \in Seq(S)
  BY <1>1, ConcatProperties
<1> QED BY <1>2, ConcatProperties

(* V2 feeds the sources that its case does not omit; its texts are those   *)
(* of the evidence.                                                        *)
LEMMA SourcesGiven ==
    ASSUME NEW c \in CaseType, NEW j \in 1 .. Len(SourcesOf("V2", c))
    PROVE  LET m == SourcesOf("V2", c)[j]
           IN  /\ m.kind \notin Omitted(c)
               /\ m.kind = "text" => \E i \in DOMAIN c.evidence : m = Texts(c)[i]
<1> DEFINE market == Source("market", BarOf(c), Routed - 2, 0, 0, 0, c.symbol)
           bar == Source("closed_bars", BarOf(c), Routed, 0, BarOf(c), 0, c.symbol)
           macro == Source("macro", 1, Routed - 3, 0, 0, 0, "-")
           texts == {Texts(c)[i] : i \in DOMAIN c.evidence}
           Given == {m \in {market, bar, macro} \cup texts : m.kind \notin Omitted(c)}
           given(kind, s) == IF kind \in Omitted(c) THEN <<>> ELSE s
<1>1. /\ market.kind = "market" /\ bar.kind = "closed_bars" /\ macro.kind = "macro"
      /\ \A m \in texts : m.kind = "text"
  <2>1. \A i \in DOMAIN c.evidence : Texts(c)[i].kind = "text"
    BY DEF Source, Texts
  <2>2. market.kind = "market" /\ bar.kind = "closed_bars" /\ macro.kind = "macro"
    BY DEF Source
  <2> QED BY <2>1, <2>2
<1>2. DOMAIN c.evidence = 1 .. Len(c.evidence) /\ Len(c.evidence) \in Nat
  BY LenProperties DEF CaseType
<1>3. Texts(c) \in [1 .. Len(c.evidence) -> texts]
  BY <1>2 DEF Texts
<1>4. SourcesOf("V2", c) = given("market", <<market>>) \o given("closed_bars", <<bar>>)
                           \o given("text", Texts(c)) \o given("macro", <<macro>>)
  BY DEF SourcesOf
<1> HIDE DEF market, bar, macro, texts
<1>5. /\ given("market", <<market>>) \in Seq(Given)
      /\ given("closed_bars", <<bar>>) \in Seq(Given)
      /\ given("macro", <<macro>>) \in Seq(Given)
  <2>1. ASSUME NEW m \in {market, bar, macro}, NEW kind, m.kind = kind
        PROVE  given(kind, <<m>>) \in Seq(Given)
    <3>1. kind \notin Omitted(c) => m \in Given
      BY <2>1
    <3> HIDE DEF Given
    <3> QED BY <3>1, EmptySeq
  <2> QED BY <1>1, <2>1
<1>6. given("text", Texts(c)) \in Seq(Given)
  <2>1. CASE "text" \in Omitted(c)
    BY <2>1, EmptySeq
  <2>2. CASE "text" \notin Omitted(c)
    <3>1. texts \subseteq Given
      BY <1>1, <2>2
    <3> HIDE DEF Given
    <3>2. Texts(c) \in Seq(Given)
      BY <1>2, <1>3, <3>1, SeqDef
    <3> QED BY <2>2, <3>2
  <2> QED BY <2>1, <2>2
<1> HIDE DEF Given, given
<1>7. SourcesOf("V2", c) \in Seq(Given)
  <2>1. PICK s \in Seq(Given), t \in Seq(Given), u \in Seq(Given), v \in Seq(Given) :
          SourcesOf("V2", c) = s \o t \o u \o v
    BY <1>4, <1>5, <1>6
  <2>2. s \o t \o u \o v \in Seq(Given)
    BY JoinedFour, Zenon
  <2> QED BY <2>1, <2>2
<1>8. SourcesOf("V2", c)[j] \in Given
  BY <1>7, ElementOfSeq
<1> QED BY <1>1, <1>8 DEF Given, texts

-----------------------------------------------------------------------------
(* What a cut does not have                                                *)

LEMMA NoKeysNoSource ==
    ASSUME NEW rid, NEW cutoff, NEW captured
    PROVE  /\ \A kind : KeysOf(kind) = {} => Snapshot(kind, rid, cutoff, captured) = {}
           /\ KeysOf("closed_bars") = {} => ClosedBars(rid, cutoff, captured) = {}
<1>1. ASSUME NEW kind, KeysOf(kind) = {} PROVE Snapshot(kind, rid, cutoff, captured) = {}
  <2>1. {ValueOf(entries, k) : k \in KeysOf(kind)} = {}
    BY <1>1
  <2> QED BY <2>1 DEF Snapshot
<1>2. ASSUME KeysOf("closed_bars") = {} PROVE ClosedBars(rid, cutoff, captured) = {}
  <2> DEFINE usable == {k \in KeysOf("closed_bars") :
                 Eligible(ValueOf(entries, k), Intent[rid].decided, cutoff, captured)}
             bar(k) == ValueOf(entries, k).message.bar
             chosen == {k \in usable :
                          /\ bar(k) \in DeclaredTail(rid)
                          /\ \A j \in usable :
                               bar(j) = bar(k) => entries[k].age <= entries[j].age}
  <2>1. ClosedBars(rid, cutoff, captured) \subseteq {ValueOf(entries, k) : k \in chosen}
    BY DEF ClosedBars
  <2>2. usable = {} /\ chosen = {}
    BY <1>2
  <2> HIDE DEF chosen
  <2> QED BY <2>1, <2>2
<1> QED BY <1>1, <1>2

LEMMA NoEligibleText ==
    ASSUME NEW rid, NEW cutoff, NEW captured,
           \A k \in KeysOf("text") :
             ~Eligible(ValueOf(entries, k), Intent[rid].routed, cutoff, captured)
    PROVE  CitedText(rid, cutoff, captured) = {}
<1> DEFINE cited == {<<"text", id>> : id \in Intent[rid].evidence}
<1>1. \A k \in cited : k[1] = "text"
  OBVIOUS
<1>2. CitedText(rid, cutoff, captured) # {} =>
        /\ cited # {} /\ cited \subseteq DOMAIN entries
        /\ \A k \in cited :
             Eligible(ValueOf(entries, k), Intent[rid].routed, cutoff, captured)
  BY DEF CitedText
<1> HIDE DEF cited
<1>3. \A k \in cited : k \in DOMAIN entries => k \in KeysOf("text")
  BY <1>1 DEF KeysOf
<1> QED BY <1>2, <1>3

(* A text of a faulty case that has one is stale or later than its route.  *)
LEMMA FaultyText ==
    ASSUME FaultsTell, Books, InCase, ClockOfRun, harness = "V2",
           Case.fault \in {"stale_text", "future_text"},
           NEW o, NEW i \in DOMAIN Case.evidence, o.message = Texts(Case)[i], NEW cutoff
    PROVE  ~Eligible(o, Intent[Case.id].routed, cutoff, now)
<1>1. /\ now = Routed + 1 /\ Routed \in Nat
      /\ Intent[Case.id].routed = Routed
  BY CaseIntent, QualificationAssumption DEF ClockOfRun, InCase, IntentOf
<1>2. /\ o.message.event = TextAt(Case, Case.evidence[i]) /\ o.message.kind = "text"
  BY DEF Texts, Source
<1>3. CASE Case.fault = "future_text"
  BY <1>1, <1>2, <1>3 DEF TextAt, Eligible
<1>4. CASE Case.fault = "stale_text"
  <2>1. Case.evidence[i].offset <= 0 /\ Case.evidence[i].offset \in Int
    <3>1. PICK j \in DOMAIN corpus.cases : Case = corpus.cases[j]
      BY CaseIntent
    <3>2. corpus \in Corpora /\ corpus.harness = "V2"
      BY DEF Books, RunTyped, harness
    <3>3. Case.evidence[i].offset <= 0
      BY <3>1, <3>2 DEF FaultsTell
    <3>4. Case.evidence \in Seq([id : Nat, offset : Int, score : -1 .. 1])
      BY CaseIntent DEF CaseType
    <3>5. Case.evidence[i] \in [id : Nat, offset : Int, score : -1 .. 1]
      BY <3>4, ElementOfSeq, LenProperties
    <3> QED BY <3>3, <3>5
  <2>2. o.message.event = Routed + Case.evidence[i].offset - StaleBy
    BY <1>2, <1>4 DEF TextAt
  <2>3. Ttl["text"] \in Nat /\ Ttl["text"] <= StaleBy
    BY SettingsAssumption DEF FaultsTell, Kinds
  <2>4. ~Fresh(o, now)
    BY <1>1, <1>2, <2>1, <2>2, <2>3, QualificationAssumption DEF Fresh
  <2> QED BY <2>4 DEF Eligible
<1> QED BY <1>3, <1>4

(* Whatever a doomed case was fed, its cut misses a required source.       *)
LEMMA DoomedCut ==
    ASSUME FaultsTell, Books, InCase, LegacyInv, OnlyFed, ClockOfRun,
           Doomed(Case), Case.symbol \in TradingSymbols, NEW cutoff
    PROVE  MissingRequired(Build(Case.id, cutoff, now))
<1> DEFINE context == Build(Case.id, cutoff, now)
<1>1. CASE harness = "V1"
  <2>1. NoMarket(context)
    BY <1>1, CutWithoutMarket DEF LegacyInv
  <2> QED BY <2>1 DEF NoMarket, MissingRequired, RequiredKinds
<1>2. CASE harness = "V2"
  <2>1. \A k \in DOMAIN entries :
          \E m : /\ ValueOf(entries, k).message = m /\ k[1] = m.kind
                 /\ m.kind \notin Omitted(Case)
                 /\ m.kind = "text" => \E i \in DOMAIN Case.evidence : m = Texts(Case)[i]
    BY <1>2, CaseIntent, SourcesGiven DEF OnlyFed, Key
  <2>2. \A kind \in Omitted(Case) : KeysOf(kind) = {}
    BY <2>1 DEF KeysOf
  <2>3. /\ context.rid = Case.id
        /\ context.sources.market = Snapshot("market", Case.id, cutoff, now)
        /\ context.sources.closed_bars = ClosedBars(Case.id, cutoff, now)
        /\ context.sources.text = CitedText(Case.id, cutoff, now)
        /\ context.sources.macro = Snapshot("macro", Case.id, cutoff, now)
    BY DEF Build
  <2> HIDE DEF context
  <2>4. {"market", "closed_bars", "text", "macro"} \subseteq RequiredKinds(context.rid)
    BY DEF RequiredKinds, FaultsTell
  <2>5. ASSUME \E kind \in {"market", "closed_bars", "macro"} : kind \in Omitted(Case)
        PROVE  MissingRequired(context)
    <3>1. \E kind \in {"market", "closed_bars", "macro"} : context.sources[kind] = {}
      BY <2>2, <2>3, <2>5, NoKeysNoSource
    <3> QED BY <2>4, <3>1 DEF MissingRequired
  <2>6. ASSUME Case.fault \in {"missing_text", "stale_text", "future_text"}
        PROVE  MissingRequired(context)
    <3>1. \A k \in KeysOf("text") :
            ~Eligible(ValueOf(entries, k), Intent[Case.id].routed, cutoff, now)
      <4>1. CASE Case.fault = "missing_text"
        BY <2>2, <4>1 DEF Omitted
      <4>2. CASE Case.fault \in {"stale_text", "future_text"}
        BY <1>2, <2>1, <4>2, FaultyText DEF KeysOf
      <4> QED BY <2>6, <4>1, <4>2
    <3>2. context.sources.text = {}
      BY <2>3, <3>1, NoEligibleText
    <3> QED BY <2>4, <3>2 DEF MissingRequired
  <2>7. Case.fault \in Faults \ {"none"}
    BY <1>2, CaseIntent DEF Doomed, CaseType
  <2> QED BY <2>5, <2>6, <2>7 DEF Faults, Omitted, Kinds, context
<1> QED BY <1>1, <1>2, CaseIntent

-----------------------------------------------------------------------------
(* A faulty case fails closed: the steps                                   *)

LEMMA DeferClosed ==
    ASSUME NEW r, NEW t, NEW reason, NEW context
    PROVE  Closed(Defer(r, t, reason, context))
BY DEF Closed, Defer

LEMMA SealedClosed == ASSUME NEW x, Closed(x) PROVE Closed(Sealed(x))
BY DeferClosed DEF Sealed

LEMMA FinishCloses ==
    ASSUME TypeOK, OnlyClosed, NEW x, Closed(x), Finish(Harness, x),
           reviewsOut' = reviewsOut
    PROVE  /\ OnlyClosed' /\ pc'[Harness] = "sendReview"
           /\ job'[Harness].context = job[Harness].context
           /\ job'[Harness].route = job[Harness].route
<1>0. Harness \in Handlers /\ job \in [Handlers -> Jobs] /\ pc \in [Handlers -> Phases]
  BY QualificationAssumption DEF TypeOK
<1>1. /\ job'[Harness].review = {x} /\ pc'[Harness] = "sendReview"
      /\ job'[Harness].context = job[Harness].context
      /\ job'[Harness].route = job[Harness].route
  BY <1>0 DEF Finish, GoTo, Jobs
<1>2. \A rid \in DOMAIN reviewCache' : Closed(ValueOf(reviewCache', rid))
  BY CacheSizeType, RememberReads DEF Finish, OnlyClosed, Held
<1>3. \A y \in job'[Harness].review \cup reviewsOut' : Closed(y)
  BY <1>1 DEF OnlyClosed
<1>4. OnlyClosed'
  BY <1>2, <1>3 DEF OnlyClosed, Closed, ValueOf
<1> QED BY <1>1, <1>4

(* A step of the handler that finishes nothing.                            *)
LEMMA QuietServe ==
    ASSUME NoHope, OnlyClosed, UNCHANGED <<contextCache, reviewCache, reviewsOut>>,
           \A context \in job'[Harness].context : MissingRequired(context),
           \A x \in job'[Harness].review : Closed(x)
    PROVE  NoHope' /\ OnlyClosed'
BY DEF NoHope, OnlyClosed, MissingRequired, RequiredKinds, Closed, ValueOf

(* The handler of a doomed case comes to no call and no verdict.           *)
LEMMA DoomedServe ==
    ASSUME FaultsTell, TypeOK, Books, RunInv, LegacyInv, CaseInv, Serve, Doomed(Case)
    PROVE  /\ pc'[Harness] # "model" /\ NoHope' /\ OnlyClosed' /\ calls' = calls
<1>0. /\ Harness \in Handlers /\ job \in [Handlers -> Jobs] /\ pc \in [Handlers -> Phases]
      /\ InCase /\ IdleJob.context = {} /\ IdleJob.review = {}
      /\ pc[Harness] # "model" /\ NoHope /\ OnlyClosed /\ OnlyFed /\ OwnRoute /\ ClockOfRun
  BY QualificationAssumption DEF TypeOK, InCase, Serve, CaseInv, RunInv, IdleJob
<1>1. CASE Wake(Harness) \/ SkipProcessed(Harness)
  <2>1. /\ UNCHANGED <<contextCache, reviewCache, reviewsOut, job, calls>>
        /\ pc'[Harness] # "model"
    BY <1>0, <1>1 DEF Wake, SkipProcessed, Return, GoTo, caches, outside
  <2> QED BY <1>0, <2>1, QuietServe DEF NoHope, OnlyClosed
<1>2. CASE RejectReused(Harness) \/ RefuseCached(Harness)
  <2>1. /\ UNCHANGED <<contextCache, reviewCache, reviewsOut, calls>>
        /\ job'[Harness] = IdleJob /\ pc'[Harness] # "model"
    BY <1>0, <1>2 DEF RejectReused, RefuseCached, Raise, GoTo, caches, outside
  <2> QED BY <1>0, <2>1, QuietServe
<1>3. CASE ResendCached(Harness)
  <2> DEFINE rid == job[Harness].route.rid
  <2>1. /\ UNCHANGED <<contextCache, reviewCache, reviewsOut, calls>>
        /\ pc'[Harness] # "model"
        /\ job'[Harness].review = {ValueOf(reviewCache, rid)} /\ Held(reviewCache, rid)
        /\ job'[Harness].context = Cached(contextCache, rid)
    BY <1>0, <1>3 DEF ResendCached, HasCachedReview, GoTo, caches, outside, Jobs
  <2>2. \A context \in job'[Harness].context : MissingRequired(context)
    BY <1>0, <2>1 DEF Cached, Held, NoHope
  <2>3. \A x \in job'[Harness].review : Closed(x)
    BY <1>0, <2>1 DEF OnlyClosed, Held
  <2> QED BY <1>0, <2>1, <2>2, <2>3, QuietServe
<1>4. CASE Recapture(Harness)
  <2> DEFINE rid == job[Harness].route.rid
  <2>1. /\ UNCHANGED <<contextCache, reviewCache, reviewsOut, calls>>
        /\ pc'[Harness] # "model" /\ Held(contextCache, rid)
        /\ job'[Harness].review = job[Harness].review
        /\ job'[Harness].context = {ValueOf(contextCache, rid)}
    BY <1>0, <1>4 DEF Recapture, GoTo, caches, outside, Jobs
  <2>2. \A context \in job'[Harness].context : MissingRequired(context)
    BY <1>0, <2>1 DEF Held, NoHope
  <2> QED BY <1>0, <2>1, <2>2, QuietServe DEF OnlyClosed
<1>5. CASE \E x : Finish(Harness, x) /\ Closed(x)
             /\ UNCHANGED <<contextCache, reviewsOut, calls>>
  <2>1. PICK x : Finish(Harness, x) /\ Closed(x)
    BY <1>5
  <2>2. /\ OnlyClosed' /\ pc'[Harness] = "sendReview"
        /\ job'[Harness].context = job[Harness].context
    BY <1>0, <1>5, <2>1, FinishCloses
  <2>3. contextCache' = contextCache /\ calls' = calls
    BY <1>5
  <2>4. NoHope'
    BY <1>0, <2>2, <2>3 DEF NoHope, MissingRequired, RequiredKinds, ValueOf
  <2> QED BY <2>2, <2>3, <2>4
<1>6. CASE DeferUnseen(Harness)
  BY <1>5, <1>6, DeferClosed DEF DeferUnseen, outside
<1>7. CASE Capture(Harness)
  <2> DEFINE rid == job[Harness].route.rid
             context == Build(rid, job[Harness].received, now)
  <2>1. rid = Case.id /\ Case.symbol \in TradingSymbols
    <3>1. rid = Case.id /\ Intent[Case.id].symbol = Case.symbol
      BY <1>0, <1>7, CaseIntent
         DEF OwnRoute, Capture, Begins, RememberIdentity, IntentOf
    <3>2. BeginReason(Harness) = "none"
      BY <1>7 DEF Capture
    <3> QED BY <3>1, <3>2 DEF BeginReason, AdmissionReason
  <2>2. MissingRequired(context)
    BY <1>0, <2>1, DoomedCut
  <2>3. CASE /\ contextCache' = Remember(contextCache, rid, context, CacheSize)
             /\ job' = [job EXCEPT ![Harness].context = {context}]
             /\ pc' = [pc EXCEPT ![Harness] = "sendContext"]
             /\ UNCHANGED <<reviewCache, reviewsOut, calls>>
    <3>1. /\ job'[Harness].context = {context} /\ pc'[Harness] = "sendContext"
          /\ job'[Harness].review = job[Harness].review
      BY <1>0, <2>3 DEF Jobs
    <3> HIDE DEF context
    <3>2. \A r \in DOMAIN contextCache' : MissingRequired(ValueOf(contextCache', r))
      BY <1>0, <2>2, <2>3, CacheSizeType, RememberReads DEF NoHope, Held
    <3>3. NoHope'
      BY <2>2, <3>1, <3>2 DEF NoHope, MissingRequired, RequiredKinds, ValueOf
    <3>4. OnlyClosed'
      BY <1>0, <2>3, <3>1 DEF OnlyClosed, Closed, ValueOf
    <3> QED BY <2>3, <3>1, <3>3, <3>4
  <2> HIDE DEF context
  <2>4. \/ /\ contextCache' = Remember(contextCache, rid, context, CacheSize)
           /\ job' = [job EXCEPT ![Harness].context = {context}]
           /\ pc' = [pc EXCEPT ![Harness] = "sendContext"]
           /\ UNCHANGED <<reviewCache, reviewsOut, calls>>
        \/ \E x : Finish(Harness, x) /\ Closed(x)
             /\ UNCHANGED <<contextCache, reviewsOut, calls>>
    BY <1>7, DeferClosed DEF Capture, GoTo, outside, context
  <2> QED BY <1>5, <2>3, <2>4
<1>8. CASE DeferAfterContext(Harness)
  BY <1>5, <1>8, DeferClosed, SealedClosed DEF DeferAfterContext, ContextSent
<1>9. ~Dispatch(Harness)
  <2>1. \A context \in job[Harness].context : StartReason(context, now) # "none"
    BY <1>0 DEF NoHope, StartReason
  <2> QED BY <2>1 DEF Dispatch
<1>10. ~GatewayAnswers
  BY <1>0 DEF GatewayAnswers, ModelReturns
<1>11. CASE ReviewSent(Harness)
  <2>1. /\ UNCHANGED <<contextCache, job, calls>> /\ pc'[Harness] # "model"
        /\ reviewsOut' = reviewsOut \cup job[Harness].review
        /\ reviewCache' = Discard(reviewCache, job[Harness].route.rid)
    BY <1>0, <1>11 DEF ReviewSent, Return, GoTo
  <2>2. \A rid \in DOMAIN reviewCache' : Closed(ValueOf(reviewCache', rid))
    <3>1. \A rid \in DOMAIN reviewCache' :
            rid \in DOMAIN reviewCache /\ ValueOf(reviewCache', rid) = ValueOf(reviewCache, rid)
      BY <2>1, DiscardReads DEF Held
    <3> QED BY <1>0, <3>1 DEF OnlyClosed
  <2>3. OnlyClosed'
    BY <1>0, <2>1, <2>2 DEF OnlyClosed, Closed, ValueOf
  <2>4. NoHope'
    BY <1>0, <2>1 DEF NoHope, MissingRequired, RequiredKinds, ValueOf
  <2> QED BY <2>1, <2>3, <2>4
<1> QED BY <1>1, <1>2, <1>3, <1>4, <1>6, <1>7, <1>8, <1>9, <1>10, <1>11 DEF Serve, Proceed

(* A step that is not of the service leaves the case as it is.             *)
LEMMA QuietCase ==
    ASSUME CaseInv, UNCHANGED <<runVars, index, entries, pc, job, contextCache, reviewCache,
                                reviewsOut>>,
           InCase' => UNCHANGED stage
    PROVE  CaseInv'
<1> SUFFICES ASSUME InCase' PROVE CaseInv'
  BY DEF CaseInv
<1>1. /\ Case' = Case /\ SourcesOf(harness, Case)' = SourcesOf(harness, Case)
      /\ Doomed(Case)' <=> Doomed(Case)
  BY CaseFixed DEF Doomed
<1>2. InCase /\ stage' = stage
  BY DEF InCase
<1>3. OnlyFed'
  BY <1>1, <1>2 DEF CaseInv, OnlyFed, ValueOf, Key
<1>4. Doomed(Case)' => (pc[Harness] # "model")' /\ NoHope' /\ OnlyClosed'
  BY <1>1, <1>2
     DEF CaseInv, NoHope, OnlyClosed, MissingRequired, RequiredKinds, Closed, ValueOf
<1> QED BY <1>3, <1>4 DEF CaseInv

(* A new service has nothing to remember the case before by.               *)
LEMMA BeginCaseInv == ASSUME BeginCase PROVE CaseInv'
<1>1. /\ entries' = EmptyCache /\ contextCache' = EmptyCache /\ reviewCache' = EmptyCache
      /\ pc'[Harness] = "idle" /\ job'[Harness].context = {} /\ job'[Harness].review = {}
      /\ reviewsOut' = {}
  BY QualificationAssumption DEF BeginCase, CaseService, NewService, IdleJob
<1>2. OnlyFed'
  BY <1>1 DEF OnlyFed, EmptyCache
<1>3. NoHope' /\ OnlyClosed'
  BY <1>1 DEF NoHope, OnlyClosed, EmptyCache
<1> QED BY <1>1, <1>2, <1>3 DEF CaseInv

LEMMA FeedCaseInv ==
    ASSUME Books, CaseInv, FeedTaken \/ FeedRefused
    PROVE  CaseInv'
<1>0. /\ InCase /\ fed + 1 \in 1 .. Len(SourcesOf(harness, Case))
      /\ UNCHANGED <<runVars, index, pc, job, contextCache, reviewCache, reviewsOut>>
  <2>1. /\ stage = "feeding" /\ fed < Len(SourcesOf(harness, Case)) /\ fed \in Nat
        /\ UNCHANGED <<runVars, index, pc, job, contextCache, reviewCache, reviewsOut>>
    BY DEF FeedTaken, FeedRefused, Feeding, caches, tasks, outside, Books
  <2>2. Len(SourcesOf(harness, Case)) \in Nat
    BY <2>1, CaseIntent, LenProperties DEF InCase
  <2> QED BY <2>1, <2>2 DEF InCase
<1>1. /\ Case' = Case /\ SourcesOf(harness, Case)' = SourcesOf(harness, Case)
      /\ Doomed(Case)' <=> Doomed(Case)
  BY <1>0, CaseFixed DEF Doomed
<1>2. UNCHANGED entries \/ Accept(NextSource)
  BY DEF FeedTaken, FeedRefused, IdentityConflict, storeVars
<1>3. OnlyFed'
  <2>1. CASE UNCHANGED entries
    BY <1>0, <1>1, <2>1 DEF CaseInv, OnlyFed, ValueOf, Key
  <2>2. CASE Accept(NextSource)
    <3> DEFINE m == NextSource
               o == [message |-> m, received |-> now]
    <3>1. entries' = Insert(entries, Key(m), o, CacheSize)
      BY <2>2 DEF Accept
    <3>2. /\ ValueOf(entries', Key(m)).message = m
          /\ \A k \in DOMAIN entries' \ {Key(m)} :
               k \in DOMAIN entries /\ ValueOf(entries', k) = ValueOf(entries, k)
      BY <3>1, CacheSizeType, InsertReads DEF Held
    <3>3. m = SourcesOf(harness, Case)[fed + 1]
      BY DEF NextSource
    <3> HIDE DEF m, o
    <3>4. ASSUME NEW k \in DOMAIN entries'
          PROVE  \E j \in 1 .. Len(SourcesOf(harness, Case)) :
                   /\ ValueOf(entries', k).message = SourcesOf(harness, Case)[j]
                   /\ k = Key(SourcesOf(harness, Case)[j])
      <4>1. CASE k = Key(m)
        BY <1>0, <3>2, <3>3, <4>1
      <4>2. CASE k # Key(m)
        BY <1>0, <3>2, <4>2 DEF CaseInv, OnlyFed
      <4> QED BY <4>1, <4>2
    <3>5. /\ Len(SourcesOf(harness, Case))' = Len(SourcesOf(harness, Case))
          /\ \A j : SourcesOf(harness, Case)'[j] = SourcesOf(harness, Case)[j]
      BY <1>1
    <3> QED BY <3>4, <3>5 DEF OnlyFed, Key, ValueOf
  <2> QED BY <1>2, <2>1, <2>2
<1>4. Doomed(Case)' => (pc[Harness] # "model")' /\ NoHope' /\ OnlyClosed'
  BY <1>0, <1>1
     DEF CaseInv, NoHope, OnlyClosed, MissingRequired, RequiredKinds, Closed, ValueOf
<1> QED BY <1>3, <1>4 DEF CaseInv

LEMMA GiveRouteCaseInv ==
    ASSUME TypeOK, CaseInv, GiveRoute
    PROVE  CaseInv'
<1>0. /\ InCase /\ UNCHANGED <<runVars, index, entries, contextCache, reviewCache, reviewsOut>>
      /\ pc'[Harness] \in {"admitted", "waiting"} /\ stage' = "serving"
      /\ job'[Harness].route = RouteOf(Case)
      /\ job'[Harness].context = {} /\ job'[Harness].review = {}
  BY QualificationAssumption
     DEF GiveRoute, Receive, IdleJob, GoTo, TypeOK, storeVars, caches, outside, InCase
<1>1. /\ Case' = Case /\ SourcesOf(harness, Case)' = SourcesOf(harness, Case)
      /\ Doomed(Case)' <=> Doomed(Case)
  BY <1>0, CaseFixed DEF Doomed
<1>3. OnlyFed'
  BY <1>0, <1>1 DEF CaseInv, OnlyFed, ValueOf, Key
<1>4. Doomed(Case)' => (pc[Harness] # "model")' /\ NoHope' /\ OnlyClosed'
  BY <1>0, <1>1
     DEF CaseInv, NoHope, OnlyClosed, MissingRequired, RequiredKinds, Closed, ValueOf
<1> QED BY <1>3, <1>4 DEF CaseInv

LEMMA ServeCaseInv ==
    ASSUME FaultsTell, TypeOK, Books, RunInv, LegacyInv, CaseInv, Serve
    PROVE  CaseInv'
<1>0. InCase /\ UNCHANGED <<runVars, index, stage>> /\ UNCHANGED entries
  BY ServeStore DEF Serve, harnessVars, InCase, storeVars
<1>1. /\ Case' = Case /\ SourcesOf(harness, Case)' = SourcesOf(harness, Case)
      /\ Doomed(Case)' <=> Doomed(Case)
  BY <1>0, CaseFixed DEF Doomed
<1>2. OnlyFed'
  BY <1>0, <1>1 DEF CaseInv, OnlyFed, ValueOf, Key
<1>3. Doomed(Case)' => (pc[Harness] # "model")' /\ NoHope' /\ OnlyClosed'
  BY <1>1, DoomedServe
<1> QED BY <1>2, <1>3 DEF CaseInv

-----------------------------------------------------------------------------
(* A faulty case fails closed: calls and observations                      *)

LEMMA ServeUncalled ==
    ASSUME FaultsTell, TypeOK, Books, RunInv, LegacyInv, FaultInv, Serve
    PROVE  \A i \in DOMAIN Cases :
             i > Len(observed) /\ Doomed(Cases[i]) /\ harness = "V2"
             => calls'[Cases[i].id] = calls[Cases[i].id]
<1>0. /\ InCase /\ Permitted /\ index \in 1 .. Len(Cases) /\ RunTyped
      /\ args = ContextRun \/ harness # "V2"
  BY CaseInHand DEF Serve, InCase, Books, RunInv
<1>1. Cases \in Seq(CaseType) /\ DOMAIN Cases = 1 .. Len(Cases)
  BY <1>0, CasesType, LenProperties DEF Permitted
<1> SUFFICES ASSUME NEW i \in DOMAIN Cases, Doomed(Cases[i]), harness = "V2"
             PROVE  calls'[Cases[i].id] = calls[Cases[i].id]
  OBVIOUS
<1>2. CASE i = index
  <2>1. Doomed(Case)
    BY <1>2 DEF Case
  <2> QED BY <2>1, DoomedServe DEF FaultInv
<1>3. CASE i # index
  <2>1. Cases[i].id # Case.id
    BY <1>0, <1>1, <1>3, ContextCasesDiffer DEF Case
  <2>2. Cases[i].id \in Rids
    <3>1. Cases[i] \in CaseType
      BY <1>1, ElementOfSeq
    <3> QED BY <3>1 DEF CaseType
  <2>3. OwnRoute
    BY <1>0 DEF RunInv
  <2>4. \A rid \in Rids : rid # Case.id => calls'[rid] = calls[rid]
    BY <2>3, ServeCalls
  <2> QED BY <2>1, <2>2, <2>4
<1> QED BY <1>2, <1>3

LEMMA UncalledStep ==
    ASSUME FaultsTell, TypeOK, Books, Books', RunInv, LegacyInv, LegacyInv', FaultInv,
           [QualificationNext]_allVars
    PROVE  DoomedUncalled'
<1>0. /\ Cases' = Cases /\ (Permitted <=> Permitted') /\ harness' = harness
      /\ \A c : Doomed(c)' <=> Doomed(c)
  BY RunStep, RunFixed DEF Doomed
<1> SUFFICES ASSUME Permitted, NEW i \in DOMAIN Cases, i > Len(observed'), Doomed(Cases[i])
             PROVE  calls'[Cases[i].id] = 0
  BY <1>0 DEF DoomedUncalled
<1>1. /\ Cases \in Seq(CaseType) /\ DOMAIN Cases = 1 .. Len(Cases)
      /\ Cases[i].id \in Rids /\ harness \in {"V1", "V2"}
  <2>1. Cases \in Seq(CaseType) /\ RunTyped
    BY CasesType DEF Permitted, Books
  <2>2. DOMAIN Cases = 1 .. Len(Cases)
    BY <2>1, LenProperties
  <2>3. harness \in {"V1", "V2"}
    BY <2>1, QualificationAssumption DEF RunTyped, harness
  <2>4. Cases[i] \in CaseType
    BY <2>1, <2>2, ElementOfSeq
  <2> QED BY <2>1, <2>2, <2>3, <2>4 DEF CaseType
<1>2. Len(observed) \in Nat /\ Len(observed') \in Nat
  BY LenProperties DEF Books
<1>3. i > Len(observed)
  <2>1. CASE UNCHANGED observed
    BY <2>1
  <2>2. CASE Judge
    <3>1. PICK x \in reviewsOut : observed' = Append(observed, Observation(Case, x))
      BY <2>2 DEF Judge
    <3>2. Case \in CaseType
      BY <2>2, CaseInHand DEF Judge
    <3>3. Observation(Case, x) \in Verdicts /\ observed \in Seq(Verdicts)
      BY <3>2, ObservationType DEF Books
    <3>4. Len(observed') = Len(observed) + 1
      BY <3>1, <3>3, AppendProperties
    <3> QED BY <1>1, <1>2, <3>4
  <2>3. QualificationNext => UNCHANGED observed \/ Judge
    BY DEF QualificationNext, HarnessStep, RefuseRun, StartRun, BeginCase, FeedTaken,
           FeedRefused, Feeding, GiveRoute, Serve, Conclude, PublishReport, Finished,
           TimePasses, Elsewhere, harnessVars
  <2>4. UNCHANGED allVars => UNCHANGED observed
    BY DEF allVars, harnessVars
  <2> QED BY <2>1, <2>2, <2>3, <2>4
<1>4. calls[Cases[i].id] = 0
  BY <1>3 DEF FaultInv, DoomedUncalled
<1>5. CASE harness = "V1"
  BY <1>0, <1>1, <1>5 DEF LegacyInv, NeverAsked
<1>6. CASE harness = "V2"
  <2>1. CASE UNCHANGED calls
    BY <1>4, <2>1
  <2>2. CASE Serve
    BY <1>3, <1>4, <1>6, <2>2, ServeUncalled
  <2>3. QualificationNext => UNCHANGED calls \/ Serve
    BY DEF QualificationNext, HarnessStep, RefuseRun, StartRun, BeginCase, FeedTaken,
           FeedRefused, Feeding, GiveRoute, Receive, Judge, Conclude, PublishReport, Finished,
           TimePasses, Elsewhere, vars, outside
  <2>4. UNCHANGED allVars => UNCHANGED calls
    BY DEF allVars, vars, outside
  <2> QED BY <2>1, <2>2, <2>3, <2>4
<1> QED BY <1>1, <1>5, <1>6

(* The review of a doomed case is judged before its next case is begun.    *)
LEMMA JudgeDoomed ==
    ASSUME TypeOK, Books, FaultInv, Judge
    PROVE  DoomedClosed'
<1>1. PICK x \in reviewsOut : observed' = Append(observed, Observation(Case, x))
  BY DEF Judge
<1>2. /\ Case \in CaseType /\ Permitted /\ index \in 1 .. Len(Cases) /\ InCase
      /\ index = Len(observed) + 1 /\ Len(observed) \in Nat
      /\ \A c : Doomed(c)' <=> Doomed(c)
  BY CaseInHand, RunFixed, LenProperties DEF Judge, Books, InCase, Doomed
<1>3. index \in DOMAIN Cases
  <2>1. Cases \in Seq(CaseType)
    BY <1>2, CasesType DEF Permitted, Books
  <2> QED BY <1>2, <2>1, LenProperties
<1>4. ASSUME Doomed(Case)
      PROVE  Observation(Case, x).calls = 0 /\ Closed(Observation(Case, x))
  <2>1. calls[Case.id] = 0
    BY <1>2, <1>3, <1>4 DEF FaultInv, DoomedUncalled, Case
  <2>2. Closed(x)
    BY <1>2, <1>4 DEF FaultInv, CaseInv, OnlyClosed
  <2> QED BY <2>1, <2>2 DEF Observation, Closed
<1>5. Observation(Case, x).case = Case
  BY DEF Observation
<1>6. \A i \in DOMAIN observed' :
        IF i \in DOMAIN observed THEN observed'[i] = observed[i]
        ELSE observed'[i] = Observation(Case, x)
  <2>1. observed \in Seq(Verdicts) /\ Observation(Case, x) \in Verdicts
    BY <1>2, ObservationType DEF Books
  <2> QED BY <1>1, <2>1, AppendProperties, LenProperties
<1> SUFFICES ASSUME NEW i \in DOMAIN observed', Doomed(observed'[i].case)
             PROVE  observed'[i].calls = 0 /\ Closed(observed'[i])
  BY <1>2 DEF DoomedClosed, Closed
<1>7. CASE i \in DOMAIN observed
  BY <1>6, <1>7 DEF FaultInv, DoomedClosed
<1>8. CASE i \notin DOMAIN observed
  <2>1. observed'[i] = Observation(Case, x)
    BY <1>6, <1>8
  <2> QED BY <1>4, <1>5, <2>1
<1> QED BY <1>7, <1>8

LEMMA FaultStep ==
    ASSUME FaultsTell, TypeOK, Books, Books', RunInv, LegacyInv, LegacyInv', FaultInv,
           [QualificationNext]_allVars
    PROVE  FaultInv'
<1>0. UNCHANGED runVars /\ \A c : Doomed(c)' <=> Doomed(c)
  BY RunStep, RunFixed DEF Doomed
<1>1. DoomedUncalled'
  BY UncalledStep
<1>2. UNCHANGED observed => DoomedClosed'
  BY <1>0 DEF FaultInv, DoomedClosed, Closed
<1>3. ASSUME CaseInv', UNCHANGED observed PROVE FaultInv'
  BY <1>1, <1>2, <1>3 DEF FaultInv
<1>4. CASE UNCHANGED allVars \/ PublishReport \/ Elsewhere \/ TimePasses
  <2>1. UNCHANGED <<stage, index, observed, entries, pc, job, contextCache, reviewCache,
                    reviewsOut>>
    BY <1>4 DEF allVars, PublishReport, Elsewhere, TimePasses, vars, harnessVars, storeVars,
                evidence, caches, tasks, outside
  <2>2. CaseInv'
    BY <1>0, <2>1, QuietCase DEF FaultInv
  <2> QED BY <1>3, <2>1, <2>2
<1>5. CASE RefuseRun \/ Conclude \/ Finished \/ StartRun
  <2>1. UNCHANGED observed /\ stage' \in {"ended", "writing", "case"}
    BY <1>5 DEF RefuseRun, Conclude, Finished, StartRun, Exit
  <2>2. CaseInv'
    BY <2>1 DEF CaseInv, InCase
  <2> QED BY <1>3, <2>1, <2>2
<1>6. CASE BeginCase
  BY <1>3, <1>6, BeginCaseInv DEF BeginCase
<1>7. CASE FeedTaken \/ FeedRefused
  <2>1. UNCHANGED observed
    BY <1>7 DEF FeedTaken, FeedRefused, Feeding
  <2> QED BY <1>3, <1>7, <2>1, FeedCaseInv DEF FaultInv
<1>8. CASE GiveRoute
  <2>1. UNCHANGED observed
    BY <1>8 DEF GiveRoute
  <2> QED BY <1>3, <1>8, <2>1, GiveRouteCaseInv DEF FaultInv
<1>9. CASE Serve
  <2>1. UNCHANGED observed
    BY <1>9 DEF Serve, harnessVars
  <2> QED BY <1>3, <1>9, <2>1, ServeCaseInv DEF FaultInv
<1>10. CASE Judge
  <2>1. CaseInv'
    BY <1>10 DEF Judge, CaseInv, InCase
  <2> QED BY <1>1, <1>10, <2>1, JudgeDoomed DEF FaultInv
<1> QED BY <1>4, <1>5, <1>6, <1>7, <1>8, <1>9, <1>10 DEF QualificationNext, HarnessStep

(* "Deterministic faults fail closed": where V2 withholds, ages or         *)
(* postdates a source, or the symbol of a case is not traded, no call is   *)
(* made for it and its review is a deterministic DEFER, in every corpus    *)
(* the validators accept, in any place of the corpus.                      *)
THEOREM FaultsFailClosed ==
    ASSUME FaultsTell
    PROVE  QualificationSpec => []FaultFailsClosed
<1>1. QualificationInit => FaultInv
  <2> SUFFICES ASSUME QualificationInit PROVE FaultInv
    OBVIOUS
  <2>1. CaseInv
    BY DEF QualificationInit, CaseInv, InCase
  <2>2. DoomedClosed
    BY DEF QualificationInit, DoomedClosed
  <2>3. DoomedUncalled
    <3> SUFFICES ASSUME Permitted, NEW i \in DOMAIN Cases PROVE calls[Cases[i].id] = 0
      BY DEF DoomedUncalled
    <3>1. Cases \in Seq(CaseType)
      BY CasesType DEF Permitted, QualificationInit, RunTyped
    <3>2. Cases[i] \in CaseType
      BY <3>1, LenProperties, ElementOfSeq
    <3>3. calls = [rid \in Rids |-> 0]
      BY DEF QualificationInit, Init
    <3> QED BY <3>2, <3>3 DEF CaseType
  <2> QED BY <2>1, <2>2, <2>3 DEF FaultInv
<1>2. /\ TypeOK /\ Books /\ Books' /\ RunInv /\ LegacyInv /\ LegacyInv' /\ FaultInv
      /\ [QualificationNext]_allVars
      => FaultInv'
  BY FaultStep
<1>3. FaultInv => FaultFailsClosed
  <2> SUFFICES ASSUME FaultInv, NEW i \in DOMAIN observed,
                      \/ observed[i].case.fault # "none"
                      \/ observed[i].case.symbol \notin TradingSymbols
               PROVE  observed[i].calls = 0 /\ Closed(observed[i])
    BY DEF FaultFailsClosed, Judged, Closed
  <2> QED BY DEF FaultInv, DoomedClosed, Doomed
<1> QED BY <1>1, <1>2, <1>3, QualificationInvariant, RunInvariant, LegacyInvariant,
       PTL
        DEF QualificationSpec
-----------------------------------------------------------------------------
(* A complete case asks once: the inductive invariant                      *)

(* What the V2 harness is written for: the caches have room for the four   *)
(* sources of a case, none of which expires in the second until it is      *)
(* reviewed; its contexts keep their contract; a complete case has one     *)
(* text, from before its route and cited by it; and one text scores what   *)
(* it says.                                                                *)
CompleteCasesTell ==
    /\ CacheSize >= 4 /\ ~BuildMayFail /\ Window >= 1
    /\ Ttl["market"] >= 3 /\ Ttl["closed_bars"] >= 1 /\ Ttl["macro"] >= 4
    /\ \A m \in Messages : m.kind = "text" => TextScore[{m}] = m.score
    /\ \A all \in Corpora : all.harness = "V2" =>
         \A i \in DOMAIN all.cases :
           LET c == all.cases[i]
               e == c.evidence[1]
           IN  c.fault = "none" =>
                 /\ Len(c.evidence) = 1 /\ c.cites = {e.id}
                 /\ e.offset <= 0 /\ 1 - e.offset <= Ttl["text"]

Given(j) == SourcesOf(harness, Case)[j]

(* The store has what the case was fed, each source received at its clock. *)
FedHeld ==
    /\ fed <= 4 /\ quarantined = {} /\ mode = "NORMAL"
    /\ \A k \in DOMAIN entries \cup DOMAIN digests : \E j \in 1 .. fed : k = Key(Given(j))
    /\ \A j \in 1 .. fed : /\ Held(entries, Key(Given(j)))
                           /\ ValueOf(entries, Key(Given(j))) = [message |-> Given(j), received |-> now]
    /\ fed > 0 => Case.symbol \in TradingSymbols

Untouched ==
    /\ contextsOut = {} /\ reviewsOut = {} /\ calls[Case.id] = 0
    /\ <<identities, caches>> = <<<<EmptyCache, EmptyCache>>,
                                  <<EmptyCache, EmptyCache, EmptyCache, EmptyCache>>>>

(* A context that passes every check before the call, with the text.       *)
FullCut(context) ==
    /\ context.rid = Case.id /\ StartReason(context, now) = "none"
    /\ {o.message : o \in context.sources.text} = {Given(3)}

HasFullCut == job[Harness].context # {} /\ \A c \in job[Harness].context : FullCut(c)

ScriptedVerdict(c, x) ==
    /\ x.reviewer = "LLM"
    /\ x.decision = IF c.scripted = "ALLOW" /\ GuardedAgainst(c) THEN "DEFER" ELSE c.scripted

AskedOnce == calls[Case.id] = 1 /\ Complete

ServedSoFar ==
    LET phase == pc[Harness]
    IN  \/ phase \in {"waiting", "admitted"} /\ Untouched
           /\ job[Harness].received = now /\ job[Harness].reason = "none"
        \/ phase = "sendContext" /\ calls[Case.id] = 0 /\ reviewsOut = {}
           /\ job[Harness].reason = "none" /\ HasFullCut
        \/ phase = "model" /\ AskedOnce /\ reviewsOut = {}
           /\ job[Harness].started = now /\ HasFullCut
        \/ phase = "sendReview" /\ AskedOnce /\ reviewsOut = {}
           /\ \A x \in job[Harness].review : ScriptedVerdict(Case, x)
        \/ phase = "acking" /\ AskedOnce /\ \A x \in reviewsOut : ScriptedVerdict(Case, x)

CleanCase ==
    /\ FedHeld
    /\ stage = "feeding" => Untouched
    /\ stage = "serving" => fed = 4 /\ ServedSoFar

Unbegun ==
    Permitted => \A i \in DOMAIN Cases : i > index => calls[Cases[i].id] = 0

CleanObserved ==
    \A i \in DOMAIN observed :
      observed[i].case.fault = "none" =>
        /\ observed[i].calls = 1 /\ observed[i].complete
        /\ ScriptedVerdict(observed[i].case, observed[i])

CompleteInv ==
    harness = "V2" =>
      /\ InCase /\ Case.fault = "none" => CleanCase
      /\ Unbegun /\ CleanObserved

(* The sources of a complete case, in the order they are fed.              *)
FedKinds == <<"market", "closed_bars", "text", "macro">>

(* A source that V2 dates so that it is stored, and counts, at its clock.  *)
CleanSource(m, kind) ==
    /\ m \in Messages /\ m.kind = kind /\ m.defect = "none"
    /\ m.event <= Routed /\ m.produced = m.event
    /\ Routed + 1 - m.event <= Ttl[kind]
    /\ kind = "macro" \/ m.symbol = Case.symbol

CleanFeed ==
    /\ Len(SourcesOf(harness, Case)) = 4
    /\ \A j \in 1 .. 4 : CleanSource(Given(j), FedKinds[j])
    /\ Given(2).bar = BarOf(Case)
    /\ Case.cites = {Given(3).id}
    /\ DOMAIN Case.evidence = {1} /\ Given(3).score = Case.evidence[1].score

LEMMA FourSingles ==
    ASSUME NEW S, NEW s \in Seq(S), NEW t \in Seq(S), NEW u \in Seq(S), NEW v \in Seq(S),
           Len(s) = 1, Len(t) = 1, Len(u) = 1, Len(v) = 1
    PROVE  LET w == s \o t \o u \o v
           IN  Len(w) = 4 /\ w[1] = s[1] /\ w[2] = t[1] /\ w[3] = u[1] /\ w[4] = v[1]
<1>1. /\ s \o t \in Seq(S) /\ Len(s \o t) = 2
      /\ (s \o t)[1] = s[1] /\ (s \o t)[2] = t[1]
  BY ConcatProperties
<1> DEFINE p == s \o t
<1> HIDE DEF p
<1>2. /\ p \o u \in Seq(S) /\ Len(p \o u) = 3
      /\ (p \o u)[1] = p[1] /\ (p \o u)[2] = p[2] /\ (p \o u)[3] = u[1]
  BY <1>1, ConcatProperties DEF p
<1> DEFINE q == p \o u
<1> HIDE DEF q
<1>3. /\ Len(q \o v) = 4 /\ (q \o v)[1] = q[1] /\ (q \o v)[2] = q[2]
      /\ (q \o v)[3] = q[3] /\ (q \o v)[4] = v[1]
  BY <1>2, ConcatProperties DEF q
<1> QED BY <1>1, <1>2, <1>3 DEF p, q

LEMMA CompleteCase ==
    ASSUME CompleteCasesTell, Books, InCase, harness = "V2", Case.fault = "none"
    PROVE  /\ Len(Case.evidence) = 1 /\ DOMAIN Case.evidence = {1}
           /\ Case.cites = {Case.evidence[1].id}
           /\ Case.evidence[1].offset \in Int
           /\ Case.evidence[1].offset <= 0
           /\ 1 - Case.evidence[1].offset <= Ttl["text"]
<1>1. Case \in CaseType /\ \E j \in DOMAIN corpus.cases : Case = corpus.cases[j]
  BY CaseIntent
<1>2. corpus \in Corpora /\ corpus.harness = "V2"
  BY DEF Books, RunTyped, harness
<1>3. /\ Len(Case.evidence) = 1
      /\ Case.cites = {Case.evidence[1].id}
      /\ Case.evidence[1].offset <= 0
      /\ 1 - Case.evidence[1].offset <= Ttl["text"]
  BY <1>1, <1>2 DEF CompleteCasesTell
<1>4. DOMAIN Case.evidence = {1}
  BY <1>1, <1>3, LenProperties DEF CaseType
<1>5. Case.evidence[1] \in [id : Nat, offset : Int, score : -1 .. 1]
  <2>1. Case.evidence \in Seq([id : Nat, offset : Int, score : -1 .. 1])
    BY <1>1 DEF CaseType
  <2>2. 1 \in 1 .. Len(Case.evidence)
    BY <1>3
  <2> QED BY <2>1, <2>2, ElementOfSeq
<1> QED BY <1>3, <1>4, <1>5

(* Nothing is withheld from a complete case.                               *)
LEMMA CompleteSources ==
    ASSUME CompleteCasesTell, Books, InCase, harness = "V2", Case.fault = "none"
    PROVE  /\ Len(SourcesOf(harness, Case)) = 4
           /\ Given(1) = Source("market", BarOf(Case), Routed - 2, 0, 0, 0, Case.symbol)
           /\ Given(2) = Source("closed_bars", BarOf(Case), Routed, 0, BarOf(Case), 0,
                                Case.symbol)
           /\ Given(3) = Texts(Case)[1]
           /\ Given(4) = Source("macro", 1, Routed - 3, 0, 0, 0, "-")
<1> DEFINE market == Source("market", BarOf(Case), Routed - 2, 0, 0, 0, Case.symbol)
           bar == Source("closed_bars", BarOf(Case), Routed, 0, BarOf(Case), 0, Case.symbol)
           macro == Source("macro", 1, Routed - 3, 0, 0, 0, "-")
           S == {market, bar, Texts(Case)[1], macro}
<1>1. Omitted(Case) = {}
  BY DEF Omitted
<1>2. SourcesOf(harness, Case) = <<market>> \o <<bar>> \o Texts(Case) \o <<macro>>
  BY <1>1 DEF SourcesOf
<1>3. Texts(Case) \in Seq(S) /\ Len(Texts(Case)) = 1
  <2>1. Texts(Case) = [i \in 1 .. 1 |-> Texts(Case)[i]] /\ DOMAIN Texts(Case) = 1 .. 1
    BY CompleteCase DEF Texts
  <2> HIDE DEF market, bar, macro
  <2>2. Texts(Case) \in [1 .. 1 -> S]
    BY <2>1
  <2> QED BY <2>1, <2>2, SeqDef, LenProperties
<1>4. \A m \in {market, bar, macro} : <<m>> \in Seq(S) /\ Len(<<m>>) = 1 /\ <<m>>[1] = m
  <2> HIDE DEF market, bar, macro
  <2> QED OBVIOUS
<1> HIDE DEF S, market, bar, macro
<1>5. /\ Len(SourcesOf(harness, Case)) = 4
      /\ SourcesOf(harness, Case)[1] = market /\ SourcesOf(harness, Case)[2] = bar
      /\ SourcesOf(harness, Case)[3] = Texts(Case)[1] /\ SourcesOf(harness, Case)[4] = macro
  <2> DEFINE w == <<market>> \o <<bar>> \o Texts(Case) \o <<macro>>
  <2>1. /\ <<market>> \in Seq(S) /\ Len(<<market>>) = 1 /\ <<market>>[1] = market
        /\ <<bar>> \in Seq(S) /\ Len(<<bar>>) = 1 /\ <<bar>>[1] = bar
        /\ <<macro>> \in Seq(S) /\ Len(<<macro>>) = 1 /\ <<macro>>[1] = macro
    BY <1>4
  <2>2. /\ Len(w) = 4 /\ w[1] = <<market>>[1] /\ w[2] = <<bar>>[1]
        /\ w[3] = Texts(Case)[1] /\ w[4] = <<macro>>[1]
    BY <1>3, <2>1, FourSingles
  <2> QED BY <1>2, <2>1, <2>2
<1> QED BY <1>5 DEF Given, market, bar, macro

LEMMA CompleteCaseFeed ==
    ASSUME CompleteCasesTell, Books, InCase, harness = "V2", Case.fault = "none"
    PROVE  CleanFeed
<1>1. /\ Len(SourcesOf(harness, Case)) = 4 /\ SourcesOf(harness, Case) \in Seq(Messages)
      /\ Given(1) = Source("market", BarOf(Case), Routed - 2, 0, 0, 0, Case.symbol)
      /\ Given(2) = Source("closed_bars", BarOf(Case), Routed, 0, BarOf(Case), 0, Case.symbol)
      /\ Given(3) = Texts(Case)[1]
      /\ Given(4) = Source("macro", 1, Routed - 3, 0, 0, 0, "-")
  BY CaseIntent, CompleteSources
<1>2. \A j \in 1 .. 4 : Given(j) \in Messages
  BY <1>1, ElementOfSeq DEF Given
<1> DEFINE e == Case.evidence[1]
<1>3. /\ Texts(Case)[1] = Source("text", e.id, Routed + e.offset, 0, 0, e.score, Case.symbol)
      /\ DOMAIN Case.evidence = {1} /\ Case.cites = {e.id} /\ e.offset \in Int
      /\ e.offset <= 0 /\ 1 - e.offset <= Ttl["text"]
  BY CompleteCase DEF Texts, TextAt
<1>4. /\ Ttl["market"] >= 3 /\ Ttl["closed_bars"] >= 1 /\ Ttl["macro"] >= 4
      /\ Ttl \in [Kinds -> Nat]
  BY SettingsAssumption DEF CompleteCasesTell
<1>5. Routed \in Nat
  BY QualificationAssumption
<1> HIDE DEF e
<1>6. CleanSource(Given(1), "market")
  BY <1>1, <1>2, <1>4, <1>5 DEF CleanSource, Source
<1>7. CleanSource(Given(2), "closed_bars")
  BY <1>1, <1>2, <1>4, <1>5 DEF CleanSource, Source
<1>8. CleanSource(Given(3), "text")
  BY <1>1, <1>2, <1>3, <1>5 DEF CleanSource, Source
<1>9. CleanSource(Given(4), "macro")
  BY <1>1, <1>2, <1>4, <1>5 DEF CleanSource, Source
<1>10. \A j \in 1 .. 4 : CleanSource(Given(j), FedKinds[j])
  BY <1>6, <1>7, <1>8, <1>9 DEF FedKinds
<1>11. /\ Given(2).bar = BarOf(Case) /\ Given(3).id = e.id /\ Given(3).score = e.score
  BY <1>1, <1>3 DEF Source
<1> QED BY <1>1, <1>3, <1>10, <1>11 DEF CleanFeed, e

-----------------------------------------------------------------------------
(* A complete case is fed, cut and asked about                             *)

LEMMA CleanKeys ==
    ASSUME CleanFeed
    PROVE  /\ \A i, j \in 1 .. 4 : Key(Given(i)) = Key(Given(j)) => i = j
           /\ IsFiniteSet({Key(Given(j)) : j \in 1 .. 4})
           /\ Cardinality({Key(Given(j)) : j \in 1 .. 4}) <= 4
<1>1. \A j \in 1 .. 4 : Given(j).kind = FedKinds[j]
  BY DEF CleanFeed, CleanSource
<1>2. \A i, j \in 1 .. 4 : FedKinds[i] = FedKinds[j] => i = j
  BY DEF FedKinds
<1>3. \A i, j \in 1 .. 4 : Key(Given(i)) = Key(Given(j)) => i = j
  BY <1>1, <1>2 DEF Key
<1> DEFINE K == {Key(Given(j)) : j \in 1 .. 4}
           f == [j \in 1 .. 4 |-> Key(Given(j))]
<1>4. f \in Surjection(1 .. 4, K)
  BY DEF Surjection
<1>5. IsFiniteSet(1 .. 4) /\ Cardinality(1 .. 4) = 4
  <2>1. \A n \in Nat : IsFiniteSet(1 .. n) /\ Cardinality(1 .. n) = n
    BY FS_Interval
  <2> QED BY <2>1
<1> HIDE DEF K, f
<1>6. IsFiniteSet(K) /\ Cardinality(K) <= 4
  BY <1>4, <1>5, FS_Surjection
<1> QED BY <1>3, <1>6 DEF K

(* The next source is new to the store and is taken.                       *)
LEMMA FeedHeld ==
    ASSUME CompleteCasesTell, TypeOK, CleanFeed, FedHeld, FeedTaken, fed \in Nat,
           UNCHANGED <<runVars, index>>
    PROVE  FedHeld'
<1> DEFINE m == NextSource
           o == [message |-> m, received |-> now]
           K == {Key(Given(j)) : j \in 1 .. 4}
<1>1. /\ fed \in 0 .. 3 /\ fed + 1 \in 1 .. 4 /\ m = Given(fed + 1)
      /\ mode' = mode /\ fed' = fed + 1
  BY DEF CleanFeed, FeedTaken, Feeding, NextSource, Given
<1>2. Case' = Case /\ \A j : Given(j)' = Given(j)
  BY CaseFixed DEF Given
<1>3. ~Held(digests, Key(m))
  BY <1>1, CleanKeys DEF FedHeld, Held
<1>4. Accept(m)
  BY <1>3 DEF FeedTaken
<1>5. /\ now' = now /\ quarantined' = quarantined /\ InScope(m)
      /\ entries' = Insert(entries, Key(m), o, CacheSize)
      /\ digests' = Insert(digests, Key(m), m, CacheSize)
  BY <1>4 DEF Accept
<1>6. CacheSize \in Nat \ {0} /\ CacheSize >= 4 /\ IsFiniteSet(K) /\ Cardinality(K) <= CacheSize
  <2>1. IsFiniteSet(K) /\ Cardinality(K) <= 4 /\ Cardinality(K) \in Nat
    BY CleanKeys, FS_CardinalityType
  <2> QED BY <2>1, CacheSizeType DEF CompleteCasesTell
<1>7. Key(m) \in K
  BY <1>1
<1>8. IsCache(entries, K, Observations, CacheSize) /\ m \in Messages /\ o \in Observations
  <2>1. IsCache(entries, Keys, Observations, CacheSize) /\ now \in Times
    BY DEF TypeOK, StoreTypeOK
  <2>2. DOMAIN entries \subseteq K
    BY <1>1 DEF FedHeld
  <2>3. m \in Messages
    BY <1>1 DEF CleanFeed, CleanSource
  <2> HIDE DEF m, K
  <2> QED BY <2>1, <2>2, <2>3 DEF IsCache, Observations
<1> HIDE DEF m, o, K
<1>9. \A k \in DOMAIN entries : Held(entries', k)
  BY <1>5, <1>6, <1>7, <1>8, InsertNeverEvicts
<1>10. /\ Held(entries', Key(m)) /\ ValueOf(entries', Key(m)) = o
       /\ \A k \in DOMAIN entries' \ {Key(m)} :
            Held(entries, k) /\ ValueOf(entries', k) = ValueOf(entries, k)
  BY <1>5, <1>6, InsertReads
<1>11. \A k \in DOMAIN digests' \ {Key(m)} : Held(digests, k)
  BY <1>5, <1>6, InsertReads
<1>12. \A k \in DOMAIN entries' \cup DOMAIN digests' : \E j \in 1 .. fed + 1 : k = Key(Given(j))
  <2> SUFFICES ASSUME NEW k \in DOMAIN entries' \cup DOMAIN digests'
               PROVE  \E j \in 1 .. fed + 1 : k = Key(Given(j))
    OBVIOUS
  <2>1. CASE k = Key(m)
    BY <1>1, <2>1
  <2>2. CASE k # Key(m)
    <3>1. k \in DOMAIN entries \cup DOMAIN digests
      BY <1>10, <1>11, <2>2 DEF Held
    <3>2. \E j \in 1 .. fed : k = Key(Given(j))
      BY <3>1 DEF FedHeld
    <3> QED BY <1>1, <3>2
  <2> QED BY <2>1, <2>2
<1>13. \A j \in 1 .. fed + 1 :
         Held(entries', Key(Given(j)))
         /\ ValueOf(entries', Key(Given(j))) = [message |-> Given(j), received |-> now]
  <2> SUFFICES ASSUME NEW j \in 1 .. fed + 1
               PROVE  Held(entries', Key(Given(j)))
                      /\ ValueOf(entries', Key(Given(j)))
                           = [message |-> Given(j), received |-> now]
    OBVIOUS
  <2>1. CASE j = fed + 1
    BY <1>1, <1>10, <2>1 DEF o
  <2>2. CASE j # fed + 1
    <3>1. j \in 1 .. fed /\ j \in 1 .. 4
      BY <1>1, <2>2
    <3>2. Key(Given(j)) # Key(m)
      BY <1>1, <2>2, <3>1, CleanKeys
    <3>3. /\ Held(entries, Key(Given(j)))
          /\ ValueOf(entries, Key(Given(j))) = [message |-> Given(j), received |-> now]
      BY <3>1 DEF FedHeld
    <3> QED BY <1>9, <1>10, <3>2, <3>3 DEF Held
  <2> QED BY <2>1, <2>2
<1>14. Case.symbol \in TradingSymbols
  <2>1. CASE fed = 0
    <3>1. m.kind = "market" /\ m.symbol = Case.symbol
      BY <1>1, <2>1 DEF CleanFeed, CleanSource, FedKinds
    <3> QED BY <1>5, <3>1 DEF InScope
  <2>2. CASE fed # 0
    BY <1>1, <2>2 DEF FedHeld
  <2> QED BY <2>1, <2>2
<1>15. fed' <= 4 /\ quarantined' = {} /\ mode' = "NORMAL"
  BY <1>1, <1>5 DEF FedHeld
<1>16. \A j : Key(Given(j))' = Key(Given(j))
  BY <1>2 DEF Key
<1> QED BY <1>1, <1>2, <1>5, <1>12, <1>13, <1>14, <1>15, <1>16 DEF FedHeld, Held, ValueOf

LEMMA QuietHeld ==
    ASSUME FedHeld,
           UNCHANGED <<runVars, index, fed, now, entries, digests, quarantined, mode>>
    PROVE  FedHeld'
<1>1. Case' = Case /\ \A j : Given(j)' = Given(j)
  BY CaseFixed DEF Given
<1>2. \A j : Key(Given(j))' = Key(Given(j))
  BY <1>1 DEF Key
<1> QED BY <1>1, <1>2 DEF FedHeld, Held, ValueOf

(* What a complete case's cut shows is what it was fed.                    *)
LEMMA CleanIntent ==
    ASSUME Books, InCase, RunInv, harness = "V2", CleanFeed
    PROVE  LET i == Intent[Case.id]
           IN  /\ now = Routed + 1 /\ Routed \in Nat /\ Case.id \in Rids
               /\ i.symbol = Case.symbol /\ i.conflict = Case.conflict /\ i.side = 1
               /\ i.routed = Routed /\ i.deadline = Routed + Window /\ i.decided = Routed
               /\ i.evidence = {Given(3).id} /\ i.bars = <<BarOf(Case)>>
BY CaseIntent, QualificationAssumption DEF RunInv, ClockOfRun, InCase, IntentOf, CleanFeed

LEMMA CleanObservations ==
    ASSUME TypeOK, Books, InCase, RunInv, harness = "V2", CleanFeed, FedHeld, fed = 4,
           NEW j \in 1 .. 4
    PROVE  LET o == [message |-> Given(j), received |-> now]
           IN  /\ KeysOf(FedKinds[j]) = {Key(Given(j))}
               /\ Key(Given(j)) \in DOMAIN entries
               /\ ValueOf(entries, Key(Given(j))) = o
               /\ Eligible(o, Routed, now, now) /\ Fresh(o, now) /\ Later(o, o)
               /\ entries[Key(Given(j))].age \in Nat
<1> DEFINE m == Given(j)
           o == [message |-> Given(j), received |-> now]
<1>1. /\ CleanSource(m, FedKinds[j]) /\ o.message = m /\ o.received = now
      /\ now = Routed + 1 /\ Routed \in Nat
  BY CleanIntent DEF CleanFeed
<1>2. Key(m) \in DOMAIN entries /\ ValueOf(entries, Key(m)) = o
  BY DEF FedHeld, Held
<1>3. KeysOf(FedKinds[j]) = {Key(m)}
  <2>1. \A i \in 1 .. 4 : Given(i).kind = FedKinds[i]
    BY DEF CleanFeed, CleanSource
  <2>2. \A i \in 1 .. 4 : FedKinds[i] = FedKinds[j] => i = j
    BY DEF FedKinds
  <2>3. \A k \in DOMAIN entries : \E i \in 1 .. 4 : k = Key(Given(i))
    BY DEF FedHeld
  <2>4. \A i \in 1 .. 4 : Key(Given(i))[1] = Given(i).kind
    BY DEF Key
  <2>5. \A k \in DOMAIN entries : k[1] = FedKinds[j] => k = Key(m)
    BY <2>1, <2>2, <2>3, <2>4
  <2>6. Key(m)[1] = FedKinds[j]
    BY <2>1, <2>4
  <2> HIDE DEF m
  <2> QED BY <1>2, <2>5, <2>6 DEF KeysOf
<1>4. m.event \in Nat /\ m.id \in Nat /\ Ttl[m.kind] \in Nat
  <2>1. m \in MessageType
    BY <1>1, MessagesAssumption DEF CleanSource
  <2> QED BY <2>1, SettingsAssumption DEF MessageType
<1>5. entries[Key(m)].age \in Nat
  BY <1>2 DEF TypeOK, StoreTypeOK, IsCache
<1> HIDE DEF m, o
<1>6. Fresh(o, now) /\ Later(o, o)
  BY <1>1, <1>4 DEF Fresh, Later, CleanSource
<1>7. Eligible(o, Routed, now, now)
  BY <1>1, <1>4, <1>6 DEF Eligible, CleanSource
<1> QED BY <1>2, <1>3, <1>5, <1>6, <1>7 DEF m, o

LEMMA SnapshotOfOne ==
    ASSUME NEW kind, NEW k, NEW o, NEW rid, NEW cutoff, NEW captured,
           KeysOf(kind) = {k}, ValueOf(entries, k) = o, ~Quarantined(kind),
           kind = "macro" \/ o.message.symbol = Intent[rid].symbol,
           Eligible(o, Intent[rid].routed, cutoff, captured), Later(o, o)
    PROVE  Snapshot(kind, rid, cutoff, captured) = {o}
<1> DEFINE usable == {p \in {ValueOf(entries, j) : j \in KeysOf(kind)} :
                        /\ kind = "macro" \/ p.message.symbol = Intent[rid].symbol
                        /\ Eligible(p, Intent[rid].routed, cutoff, captured)}
<1>1. {ValueOf(entries, j) : j \in KeysOf(kind)} = {o}
  OBVIOUS
<1>2. usable = {o}
  BY <1>1
<1>3. Snapshot(kind, rid, cutoff, captured) = {p \in usable : \A q \in usable : Later(p, q)}
  BY DEF Snapshot
<1> HIDE DEF usable
<1> QED BY <1>2, <1>3

LEMMA BarsOfOne ==
    ASSUME NEW k, NEW o, NEW rid, NEW cutoff, NEW captured,
           KeysOf("closed_bars") = {k}, ValueOf(entries, k) = o, ~Quarantined("closed_bars"),
           Eligible(o, Intent[rid].decided, cutoff, captured),
           DeclaredTail(rid) = {o.message.bar}, entries[k].age \in Nat
    PROVE  ClosedBars(rid, cutoff, captured) = {o}
<1> DEFINE usable == {j \in KeysOf("closed_bars") :
                 Eligible(ValueOf(entries, j), Intent[rid].decided, cutoff, captured)}
           bar(j) == ValueOf(entries, j).message.bar
           chosen == {j \in usable :
                        /\ bar(j) \in DeclaredTail(rid)
                        /\ \A i \in usable :
                             bar(i) = bar(j) => entries[j].age <= entries[i].age}
<1>1. usable = {k}
  OBVIOUS
<1>2. chosen = {k}
  <2>1. bar(k) \in DeclaredTail(rid) /\ entries[k].age <= entries[k].age
    OBVIOUS
  <2> HIDE DEF usable, bar
  <2> QED BY <1>1, <2>1
<1>3. DeclaredTail(rid) \subseteq {bar(j) : j \in usable}
  <2>1. bar(k) = o.message.bar
    OBVIOUS
  <2> HIDE DEF usable, bar
  <2> QED BY <1>1, <2>1
<1>4. ClosedBars(rid, cutoff, captured)
        = IF ~Quarantined("closed_bars") /\ AllDeclaredHeld(rid, {bar(j) : j \in usable})
          THEN {ValueOf(entries, j) : j \in chosen} ELSE {}
  BY DEF ClosedBars
<1> HIDE DEF usable, bar, chosen
<1>5. ClosedBars(rid, cutoff, captured) = {ValueOf(entries, j) : j \in chosen}
  BY <1>3, <1>4 DEF AllDeclaredHeld
<1> QED BY <1>2, <1>5

LEMMA TextOfOne ==
    ASSUME NEW id, NEW o, NEW rid, NEW cutoff, NEW captured,
           Intent[rid].evidence = {id}, <<"text", id>> \in DOMAIN entries,
           ValueOf(entries, <<"text", id>>) = o, ~Quarantined("text"),
           o.message.symbol = Intent[rid].symbol,
           Eligible(o, Intent[rid].routed, cutoff, captured)
    PROVE  CitedText(rid, cutoff, captured) = {o}
<1> DEFINE cited == {<<"text", i>> : i \in Intent[rid].evidence}
<1>1. cited = {<<"text", id>>}
  OBVIOUS
<1>2. CitedText(rid, cutoff, captured)
        = IF /\ ~Quarantined("text")
             /\ cited \subseteq DOMAIN entries
             /\ \A k \in cited :
                  /\ Eligible(ValueOf(entries, k), Intent[rid].routed, cutoff, captured)
                  /\ ValueOf(entries, k).message.symbol \in {"-", Intent[rid].symbol}
          THEN {ValueOf(entries, k) : k \in cited} ELSE {}
  BY DEF CitedText
<1> HIDE DEF cited
<1>3. CitedText(rid, cutoff, captured) = {ValueOf(entries, k) : k \in cited}
  BY <1>1, <1>2
<1> QED BY <1>1, <1>3

(* The cut of a complete case passes every check before the call.          *)
LEMMA CutIsFull ==
    ASSUME CompleteCasesTell, TypeOK, Books, InCase, RunInv, harness = "V2",
           CleanFeed, FedHeld, fed = 4
    PROVE  FullCut(Build(Case.id, now, now))
<1> DEFINE O(j) == [message |-> Given(j), received |-> now]
           c == Build(Case.id, now, now)
           i == Intent[Case.id]
<1>1. /\ now = Routed + 1 /\ Routed \in Nat
      /\ i.symbol = Case.symbol /\ i.routed = Routed /\ i.deadline = Routed + Window
      /\ i.decided = Routed /\ i.evidence = {Given(3).id} /\ i.bars = <<BarOf(Case)>>
  BY CleanIntent
<1>2. \A j \in 1 .. 4 :
        /\ KeysOf(FedKinds[j]) = {Key(Given(j))} /\ Key(Given(j)) \in DOMAIN entries
        /\ ValueOf(entries, Key(Given(j))) = O(j)
        /\ Eligible(O(j), Routed, now, now) /\ Fresh(O(j), now) /\ Later(O(j), O(j))
        /\ entries[Key(Given(j))].age \in Nat
  BY CleanObservations
<1>3. \A j \in 1 .. 4 : O(j).message = Given(j) /\ Given(j).kind = FedKinds[j]
                        /\ (FedKinds[j] = "macro" \/ Given(j).symbol = Case.symbol)
  BY DEF CleanFeed, CleanSource
<1>4. \A kind : ~Quarantined(kind)
  BY DEF FedHeld, Quarantined
<1>5. /\ FedKinds[1] = "market" /\ FedKinds[2] = "closed_bars"
      /\ FedKinds[3] = "text" /\ FedKinds[4] = "macro"
  BY DEF FedKinds
<1> HIDE DEF O, i
<1>6. Snapshot("market", Case.id, now, now) = {O(1)}
  BY <1>1, <1>2, <1>3, <1>4, <1>5, SnapshotOfOne DEF i
<1>7. Snapshot("macro", Case.id, now, now) = {O(4)}
  BY <1>1, <1>2, <1>3, <1>4, <1>5, SnapshotOfOne DEF i
<1>8. ClosedBars(Case.id, now, now) = {O(2)}
  <2>1. DeclaredTail(Case.id) = {BarOf(Case)}
    <3>1. /\ Len(<<BarOf(Case)>>) = 1 /\ <<BarOf(Case)>>[1] = BarOf(Case)
          /\ MaxBars \in Nat \ {0}
      BY SettingsAssumption
    <3>2. {j \in 1 .. 1 : j > 1 - MaxBars} = {1}
      BY <3>1
    <3> QED BY <1>1, <3>1, <3>2 DEF DeclaredTail, i
  <2>2. DeclaredTail(Case.id) = {O(2).message.bar}
    BY <1>3, <2>1 DEF CleanFeed
  <2> QED BY <1>1, <1>2, <1>4, <1>5, <2>2, BarsOfOne DEF i
<1>9. CitedText(Case.id, now, now) = {O(3)}
  <2>1. Key(Given(3)) = <<"text", Given(3).id>>
    BY <1>3, <1>5 DEF Key
  <2> QED BY <1>1, <1>2, <1>3, <1>4, <1>5, <2>1, TextOfOne DEF i
<1>10. /\ c.rid = Case.id /\ c.captured = now
       /\ c.sources.market = {O(1)} /\ c.sources.closed_bars = {O(2)}
       /\ c.sources.text = {O(3)} /\ c.sources.macro = {O(4)}
  BY <1>6, <1>7, <1>8, <1>9 DEF Build
<1> HIDE DEF c
<1>11. ~MissingRequired(c)
  BY <1>10 DEF MissingRequired, RequiredKinds
<1>12. ~StaleAt(c, now)
  BY <1>2, <1>10 DEF StaleAt, Kinds
<1>13. ~(now < i.routed) /\ ~(now > i.deadline)
  BY <1>1, QualificationAssumption DEF CompleteCasesTell
<1>14. StartReason(c, now) = "none"
  <2>1. ~(c.captured > now)
    BY <1>1, <1>10
  <2> QED BY <1>10, <1>11, <1>12, <1>13, <2>1 DEF StartReason, i
<1>15. {o.message : o \in c.sources.text} = {Given(3)}
  BY <1>3, <1>10
<1> QED BY <1>10, <1>14, <1>15 DEF FullCut, c

-----------------------------------------------------------------------------
(* A complete case is asked about once: the steps of the handler           *)

(* What the clean case knows while it is served.                           *)
CleanServing ==
    /\ CompleteCasesTell /\ TypeOK /\ Books /\ RunInv /\ InCase /\ harness = "V2"
    /\ Case.fault = "none" /\ CleanFeed /\ FedHeld /\ fed = 4 /\ Serve

LEMMA ServingFacts ==
    ASSUME CleanServing
    PROVE  /\ Harness \in Handlers /\ job \in [Handlers -> Jobs] /\ pc \in [Handlers -> Phases]
           /\ now \in Nat /\ Case.id \in Rids /\ calls \in [Rids -> 0 .. MaxCalls]
           /\ pc[Harness] # "idle" => job[Harness].route.rid = Case.id
           /\ quarantined = {} /\ mode = "NORMAL" /\ ~BuildMayFail
           /\ \A c : ~IntegrityError(c)
           /\ UNCHANGED <<runVars, index, fed, stage, storeVars, mode>>
<1>1. UNCHANGED <<runVars, index, fed, stage>> /\ stage = "serving"
  BY DEF CleanServing, Serve, harnessVars
<1>2. UNCHANGED storeVars
  BY ServeStore DEF CleanServing
<1>3. UNCHANGED mode
  BY DEF CleanServing, Serve, Proceed, Wake, RejectReused, SkipProcessed, RefuseCached,
         ResendCached, DeferUnseen, Capture, Recapture, DeferAfterContext, ContextSent,
         Dispatch, GatewayAnswers, ModelReturns, ReviewSent
<1>4. /\ Harness \in Handlers /\ job \in [Handlers -> Jobs] /\ pc \in [Handlers -> Phases]
      /\ calls \in [Rids -> 0 .. MaxCalls]
  BY QualificationAssumption DEF CleanServing, TypeOK
<1>5. now \in Nat
  BY SettingsAssumption DEF CleanServing, TypeOK, StoreTypeOK, Times
<1>6. Case.id \in Rids /\ RouteOf(Case).rid = Case.id
  BY CaseIntent DEF CleanServing
<1>7. pc[Harness] # "idle" => job[Harness].route.rid = Case.id
  BY <1>6 DEF CleanServing, RunInv, OwnRoute
<1>8. quarantined = {} /\ mode = "NORMAL" /\ ~BuildMayFail
  BY DEF CleanServing, FedHeld, CompleteCasesTell
<1>9. \A c : ~IntegrityError(c)
  BY <1>8 DEF IntegrityError
<1> QED BY <1>1, <1>2, <1>3, <1>4, <1>5, <1>6, <1>7, <1>8, <1>9

LEMMA FullCutKept ==
    ASSUME NEW c, FullCut(c), UNCHANGED <<runVars, index, now>>
    PROVE  FullCut(c)'
<1>1. Case' = Case /\ Given(3)' = Given(3)
  BY CaseFixed DEF Given
<1>2. StartReason(c, now)' = StartReason(c, now)
  BY DEF StartReason, MissingRequired, RequiredKinds, StaleAt, Fresh
<1> QED BY <1>1, <1>2 DEF FullCut

LEMMA FullCutAsks ==
    ASSUME NEW c, FullCut(c)
    PROVE  /\ ~MissingRequired(c) /\ ~StaleAt(c, now)
           /\ ~(now > Intent[c.rid].deadline) /\ c.rid = Case.id
BY DEF FullCut, StartReason

(* Nothing is left of the case before: the service cuts and goes on.       *)
LEMMA AdmittedServes ==
    ASSUME CleanServing, Untouched, pc[Harness] \in {"waiting", "admitted"},
           job[Harness].received = now, job[Harness].reason = "none"
    PROVE  Wake(Harness) \/ Capture(Harness)
<1> USE ServingFacts
<1>1. /\ \A k : ~Held(routeDigests, k) /\ ~Held(routeMessages, k) /\ ~Held(routeCutoffs, k)
      /\ \A k : ~Held(contextCache, k) /\ ~Held(processed, k) /\ ~Held(reviewCache, k)
  BY DEF Untouched, identities, caches, Held, EmptyCache
<1>2. job[Harness].route.rid = Case.id
  OBVIOUS
<1>3. BeginReason(Harness) = "none"
  <2>1. /\ now = Routed + 1 /\ Routed \in Nat
        /\ Intent[Case.id].symbol = Case.symbol /\ Intent[Case.id].routed = Routed
        /\ Intent[Case.id].deadline = Routed + Window
    BY CleanIntent DEF CleanServing
  <2>2. Case.symbol \in TradingSymbols
    BY DEF CleanServing, FedHeld
  <2>3. ~(now < Routed) /\ ~(now > Routed + Window)
    BY <2>1, QualificationAssumption DEF CleanServing, CompleteCasesTell
  <2> QED BY <1>2, <2>1, <2>2, <2>3 DEF BeginReason, AdmissionReason
<1>4. ~RejectReused(Harness)
  BY <1>1 DEF RejectReused, Reused
<1>5. ~SkipProcessed(Harness) /\ ~RefuseCached(Harness) /\ ~ResendCached(Harness)
  BY <1>1 DEF SkipProcessed, RefuseCached, ResendCached, HasCachedReview
<1>6. ~DeferUnseen(Harness) /\ ~Recapture(Harness)
  BY <1>1, <1>3 DEF DeferUnseen, Recapture
<1>7. ~DeferAfterContext(Harness) /\ ~Dispatch(Harness) /\ ~GatewayAnswers
      /\ ~ReviewSent(Harness)
  BY DEF DeferAfterContext, Dispatch, ContextSent, GatewayAnswers, ModelReturns, ReviewSent
<1> QED BY <1>4, <1>5, <1>6, <1>7 DEF CleanServing, Serve, Proceed

LEMMA AdmittedStep ==
    ASSUME CleanServing, Untouched, pc[Harness] \in {"waiting", "admitted"},
           job[Harness].received = now, job[Harness].reason = "none"
    PROVE  ServedSoFar'
<1> USE ServingFacts
<1>0. Case' = Case /\ now' = now
  BY CaseFixed DEF storeVars
<1>1. CASE Wake(Harness)
  <2>1. /\ pc'[Harness] = "admitted"
        /\ UNCHANGED <<identities, caches, job, contextsOut, reviewsOut, calls>>
    BY <1>1 DEF Wake, GoTo, outside
  <2>2. Untouched'
    BY <1>0, <2>1 DEF Untouched
  <2> QED BY <1>0, <2>1, <2>2 DEF ServedSoFar
<1>2. CASE Capture(Harness)
  <2>1. PICK context : /\ context = Build(job[Harness].route.rid, job[Harness].received, now)
                       /\ job' = [job EXCEPT ![Harness].context = {context}]
                       /\ pc'[Harness] = "sendContext"
                       /\ UNCHANGED <<reviewsOut, calls>>
    BY <1>2 DEF Capture, GoTo, outside
  <2>2. context = Build(Case.id, now, now)
    BY <2>1
  <2>3. FullCut(context)
    BY <2>2, CutIsFull DEF CleanServing
  <2>4. job'[Harness].context = {context} /\ job'[Harness].reason = "none"
    BY <2>1 DEF Jobs
  <2>5. FullCut(context)'
    BY <1>0, <2>3, FullCutKept
  <2>6. HasFullCut'
    BY <2>4, <2>5 DEF HasFullCut
  <2>7. calls'[Case'.id] = 0 /\ reviewsOut' = {}
    BY <1>0, <2>1 DEF Untouched
  <2> QED BY <2>1, <2>4, <2>6, <2>7 DEF ServedSoFar
<1> QED BY <1>1, <1>2, AdmittedServes

(* The context is published and the model is called, for the first time.   *)
LEMMA SendContextStep ==
    ASSUME CleanServing, pc[Harness] = "sendContext", calls[Case.id] = 0, reviewsOut = {},
           job[Harness].reason = "none", HasFullCut
    PROVE  ServedSoFar'
<1> USE ServingFacts
<1>0. Case' = Case /\ now' = now
  BY CaseFixed DEF storeVars
<1>1. \A c \in job[Harness].context :
        ReasonAfterContext(Harness, c) = "none" /\ StartReason(c, now) = "none"
  BY DEF ReasonAfterContext, HasFullCut, FullCut
<1>2. ~DeferAfterContext(Harness)
  BY <1>1 DEF DeferAfterContext
<1>3. ~Proceed(Harness) /\ ~GatewayAnswers /\ ~ReviewSent(Harness)
  BY DEF Proceed, Wake, RejectReused, SkipProcessed, RefuseCached, ResendCached,
         HasCachedReview, DeferUnseen, Capture, Recapture, Begins, RememberIdentity,
         GatewayAnswers, ModelReturns, ReviewSent
<1>4. Dispatch(Harness)
  BY <1>2, <1>3 DEF CleanServing, Serve
<1>5. /\ pc'[Harness] = "model" /\ job' = [job EXCEPT ![Harness].started = now]
      /\ contextsOut' = contextsOut \cup job[Harness].context
      /\ calls' = [calls EXCEPT ![Case.id] = IF @ < MaxCalls THEN @ + 1 ELSE @]
      /\ reviewsOut' = reviewsOut
  BY <1>4 DEF Dispatch, ContextSent, GoTo
<1>6. job'[Harness].context = job[Harness].context /\ job'[Harness].started = now
  BY <1>5 DEF Jobs
<1>7. HasFullCut'
  BY <1>0, <1>6, FullCutKept DEF HasFullCut
<1>8. calls'[Case.id] = 1
  BY <1>5, ReviewAssumption DEF MaxCalls
<1>9. Complete'
  <2>1. PICK c \in job[Harness].context : FullCut(c)
    BY DEF HasFullCut
  <2>2. c \in contextsOut' /\ ~MissingRequired(c)
    BY <1>5, <2>1, FullCutAsks
  <2> QED BY <2>2 DEF Complete, MissingRequired, RequiredKinds
<1> QED BY <1>0, <1>5, <1>6, <1>7, <1>8, <1>9 DEF ServedSoFar, AskedOnce

(* The scripted answer is used, unless the guard turns it.                 *)
LEMMA ScriptedReview ==
    ASSUME CleanServing, NEW c \in job[Harness].context, FullCut(c),
           pc[Harness] = "model"
    PROVE  LET x == Sealed(ModelReview(job[Harness].route, c, now, now, Case.scripted))
           IN  ScriptedVerdict(Case, x)
<1> USE ServingFacts
<1> DEFINE r == job[Harness].route
           x == ModelReview(r, c, now, now, Case.scripted)
<1>1. /\ r.rid = Case.id /\ c.rid = Case.id /\ ~StaleAt(c, now)
      /\ ~(now > Intent[c.rid].deadline)
  BY FullCutAsks
<1>2. Case.scripted \in Decisions /\ Case.conflict \in BOOLEAN
  BY CaseIntent DEF CleanServing, CaseType
<1>3. FinishReason(c, now, now, Case.scripted) = "none"
  BY <1>1, <1>2 DEF FinishReason, Decisions
<1>4. Opposes(r.rid, c) <=> GuardedAgainst(Case)
  <2>1. /\ Intent[Case.id].conflict = Case.conflict /\ Intent[Case.id].side = 1
    BY CleanIntent DEF CleanServing
  <2>2. /\ Given(3) \in Messages /\ Given(3).kind = "text"
        /\ Given(3).score = Case.evidence[1].score /\ DOMAIN Case.evidence = {1}
    BY DEF CleanServing, CleanFeed, CleanSource, FedKinds
  <2>3. TextScore[{Given(3)}] = Given(3).score
    BY <2>2 DEF CleanServing, CompleteCasesTell
  <2>4. {o.message : o \in c.sources.text} = {Given(3)}
    BY DEF FullCut
  <2>5. Opposes(r.rid, c) <=> Case.conflict /\ Given(3).score = -1
    BY <1>1, <2>1, <2>3, <2>4 DEF Opposes
  <2> QED BY <2>2, <2>5 DEF GuardedAgainst
<1>5. /\ x.reviewer = "LLM"
      /\ x.decision = IF Case.scripted = "ALLOW" /\ GuardedAgainst(Case) THEN "DEFER"
                      ELSE Case.scripted
  <2>1. Verdict(Case.scripted) = Case.scripted
    BY <1>2 DEF Verdict, Decisions
  <2> HIDE DEF r
  <2> QED BY <1>3, <1>4, <2>1 DEF ModelReview
<1> HIDE DEF x
<1>6. Sealed(x) = x
  BY DEF Sealed
<1> QED BY <1>5, <1>6 DEF ScriptedVerdict, x

LEMMA ModelStep ==
    ASSUME CleanServing, pc[Harness] = "model", AskedOnce, reviewsOut = {},
           job[Harness].started = now, HasFullCut
    PROVE  ServedSoFar'
<1> USE ServingFacts
<1>0. Case' = Case /\ now' = now
  BY CaseFixed DEF storeVars
<1>1. ~Proceed(Harness) /\ ~DeferAfterContext(Harness) /\ ~Dispatch(Harness)
      /\ ~ReviewSent(Harness)
  BY DEF Proceed, Wake, RejectReused, SkipProcessed, RefuseCached, ResendCached,
         HasCachedReview, DeferUnseen, Capture, Recapture, Begins, RememberIdentity,
         DeferAfterContext, Dispatch, ContextSent, ReviewSent
<1>2. ModelReturns(Harness, Case.scripted)
  <2>1. args.static
    BY DEF CleanServing, RunInv, ContextRun
  <2> QED BY <1>1, <2>1 DEF CleanServing, Serve, GatewayAnswers
<1>3. PICK c \in job[Harness].context :
        Finish(Harness, Sealed(ModelReview(job[Harness].route, c, job[Harness].started, now,
                                           Case.scripted)))
        /\ UNCHANGED outside
  BY <1>2 DEF ModelReturns
<1> DEFINE x == Sealed(ModelReview(job[Harness].route, c, now, now, Case.scripted))
<1>4. ScriptedVerdict(Case, x)
  BY ScriptedReview DEF HasFullCut
<1>5. Finish(Harness, x) /\ UNCHANGED <<contextsOut, reviewsOut, calls>>
  BY <1>3 DEF outside
<1> HIDE DEF x
<1>6. job'[Harness].review = {x} /\ pc'[Harness] = "sendReview"
  BY <1>5 DEF Finish, GoTo, Jobs
<1>7. \A y \in job'[Harness].review : ScriptedVerdict(Case, y)'
  BY <1>0, <1>4, <1>6 DEF ScriptedVerdict, GuardedAgainst
<1>8. AskedOnce'
  BY <1>0, <1>5 DEF AskedOnce, Complete, MissingRequired, RequiredKinds
<1> QED BY <1>5, <1>6, <1>7, <1>8 DEF ServedSoFar

LEMMA SendReviewStep ==
    ASSUME CleanServing, pc[Harness] = "sendReview", AskedOnce, reviewsOut = {},
           \A x \in job[Harness].review : ScriptedVerdict(Case, x)
    PROVE  ServedSoFar'
<1> USE ServingFacts
<1>0. Case' = Case
  BY CaseFixed
<1>1. ~Proceed(Harness) /\ ~DeferAfterContext(Harness) /\ ~Dispatch(Harness)
      /\ ~GatewayAnswers
  BY DEF Proceed, Wake, RejectReused, SkipProcessed, RefuseCached, ResendCached,
         HasCachedReview, DeferUnseen, Capture, Recapture, Begins, RememberIdentity,
         DeferAfterContext, Dispatch, ContextSent, GatewayAnswers, ModelReturns
<1>2. ReviewSent(Harness)
  BY <1>1 DEF CleanServing, Serve
<1>3. /\ pc'[Harness] = "acking" /\ reviewsOut' = job[Harness].review
      /\ UNCHANGED <<contextsOut, calls>>
  BY <1>2 DEF ReviewSent, Return, GoTo
<1>4. \A x \in reviewsOut' : ScriptedVerdict(Case, x)'
  BY <1>0, <1>3 DEF ScriptedVerdict, GuardedAgainst
<1>5. AskedOnce'
  BY <1>0, <1>3 DEF AskedOnce, Complete, MissingRequired, RequiredKinds
<1> QED BY <1>3, <1>4, <1>5 DEF ServedSoFar

(* The handler of a complete case goes from phase to phase as it should.   *)
LEMMA ServeClean ==
    ASSUME CompleteCasesTell, TypeOK, Books, RunInv, harness = "V2", Case.fault = "none",
           CleanCase, Serve
    PROVE  CleanCase'
<1>1. InCase /\ stage = "serving"
  BY DEF Serve, InCase
<1>2. CleanFeed
  BY <1>1, CompleteCaseFeed
<1>3. CleanServing /\ ServedSoFar
  BY <1>1, <1>2 DEF CleanServing, CleanCase
<1>4. ServedSoFar'
  <2>1. pc[Harness] # "acking"
    BY DEF Serve, Proceed, Wake, RejectReused, SkipProcessed, RefuseCached, ResendCached,
           HasCachedReview, DeferUnseen, Capture, Recapture, Begins, RememberIdentity,
           DeferAfterContext, Dispatch, ContextSent, GatewayAnswers, ModelReturns, ReviewSent
  <2> QED BY <1>3, <2>1, AdmittedStep, SendContextStep, ModelStep, SendReviewStep
          DEF ServedSoFar
<1>5. FedHeld'
  <2>1. UNCHANGED <<runVars, index, fed, now, entries, digests, quarantined, mode>>
    BY <1>3, ServingFacts DEF storeVars
  <2> QED BY <2>1, QuietHeld DEF CleanCase
<1>6. stage' = "serving" /\ fed' = 4
  BY <1>1, <1>3, ServingFacts DEF CleanServing
<1> QED BY <1>4, <1>5, <1>6 DEF CleanCase

-----------------------------------------------------------------------------
(* A complete case is asked about once: the steps of the harness           *)

LEMMA BeginClean ==
    ASSUME Books, RunTyped, Unbegun, BeginCase, UNCHANGED runVars
    PROVE  CleanCase'
<1>1. /\ entries' = EmptyCache /\ digests' = EmptyCache /\ quarantined' = {}
      /\ mode' = "NORMAL" /\ contextsOut' = {} /\ reviewsOut' = {}
      /\ identities' = <<EmptyCache, EmptyCache>>
      /\ caches' = <<EmptyCache, EmptyCache, EmptyCache, EmptyCache>>
      /\ stage = "case" /\ stage' = "feeding" /\ fed' = 0 /\ index' = index + 1
      /\ index < Len(Cases) /\ calls' = calls
  BY DEF BeginCase, CaseService, NewService, identities, caches
<1>2. FedHeld'
  BY <1>1 DEF FedHeld, EmptyCache
<1>3. calls[Case'.id] = 0
  <2>1. Permitted /\ index \in Nat /\ Cases' = Cases
    BY <1>1, RunFixed DEF Books
  <2>2. Cases \in Seq(CaseType)
    BY <2>1, CasesType DEF Permitted
  <2>3. index + 1 \in DOMAIN Cases
    BY <1>1, <2>1, <2>2, LenProperties
  <2>4. Case' = Cases[index + 1]
    BY <1>1, <2>1 DEF Case
  <2> QED BY <2>1, <2>3, <2>4 DEF Unbegun
<1>4. Untouched'
  BY <1>1, <1>3 DEF Untouched
<1> QED BY <1>1, <1>2, <1>4 DEF CleanCase

LEMMA FeedClean ==
    ASSUME CompleteCasesTell, TypeOK, Books, harness = "V2", Case.fault = "none",
           CleanCase, FeedTaken
    PROVE  CleanCase'
<1>1. /\ InCase /\ stage = "feeding" /\ stage' = "feeding" /\ fed \in Nat
      /\ UNCHANGED <<runVars, index, contextsOut, reviewsOut, calls, identities, caches>>
  BY DEF FeedTaken, Feeding, InCase, Books, outside
<1>2. CleanFeed
  BY <1>1, CompleteCaseFeed
<1>3. FedHeld'
  BY <1>1, <1>2, FeedHeld DEF CleanCase
<1>4. Untouched'
  BY <1>1, CaseFixed DEF CleanCase, Untouched
<1> QED BY <1>1, <1>3, <1>4 DEF CleanCase

LEMMA GiveRouteClean ==
    ASSUME CompleteCasesTell, TypeOK, Books, harness = "V2", Case.fault = "none",
           CleanCase, GiveRoute
    PROVE  CleanCase'
<1>1. /\ InCase /\ stage = "feeding" /\ stage' = "serving"
      /\ fed = Len(SourcesOf(harness, Case))
      /\ UNCHANGED <<runVars, index, fed, storeVars, mode, identities, caches,
                     contextsOut, reviewsOut, calls>>
  BY DEF GiveRoute, Receive, InCase, outside
<1>2. fed = 4
  BY <1>1, CompleteCaseFeed DEF CleanFeed
<1>3. FedHeld'
  BY <1>1, QuietHeld DEF CleanCase, storeVars
<1>4. Untouched'
  BY <1>1, CaseFixed DEF CleanCase, Untouched
<1>5. /\ pc'[Harness] \in {"waiting", "admitted"}
      /\ job'[Harness].received = now' /\ job'[Harness].reason = "none"
  BY <1>1, QualificationAssumption DEF GiveRoute, Receive, IdleJob, GoTo, TypeOK, storeVars
<1> QED BY <1>1, <1>2, <1>3, <1>4, <1>5 DEF CleanCase, ServedSoFar

(* A step that is not of the service leaves the case as it is.             *)
LEMMA QuietClean ==
    ASSUME CleanCase, UNCHANGED <<vars, runVars, index, fed, stage>>
    PROVE  CleanCase'
<1>1. /\ Case' = Case
      /\ UNCHANGED <<now, entries, digests, quarantined, mode, identities, caches, pc, job,
                     contextsOut, reviewsOut, calls>>
  BY CaseFixed DEF vars, storeVars, tasks, outside
<1>2. FedHeld'
  BY <1>1, QuietHeld DEF CleanCase
<1>3. Untouched => Untouched'
  BY <1>1 DEF Untouched
<1>4. HasFullCut => HasFullCut'
  BY <1>1, FullCutKept DEF HasFullCut
<1>5. AskedOnce => AskedOnce'
  BY <1>1 DEF AskedOnce, Complete, MissingRequired, RequiredKinds
<1>6. \A x : ScriptedVerdict(Case, x) => ScriptedVerdict(Case, x)'
  BY <1>1 DEF ScriptedVerdict, GuardedAgainst
<1>7. ServedSoFar => ServedSoFar'
  BY <1>1, <1>3, <1>4, <1>5, <1>6 DEF ServedSoFar
<1> QED BY <1>2, <1>3, <1>7 DEF CleanCase

LEMMA UnbegunStep ==
    ASSUME TypeOK, Books, RunInv, harness = "V2", Unbegun, [QualificationNext]_allVars
    PROVE  Unbegun'
<1>0. Cases' = Cases /\ (Permitted <=> Permitted')
  BY RunStep, RunFixed
<1> SUFFICES ASSUME Permitted, NEW i \in DOMAIN Cases, i > index'
             PROVE  calls'[Cases[i].id] = 0
  BY <1>0 DEF Unbegun
<1>1. Cases \in Seq(CaseType) /\ DOMAIN Cases = 1 .. Len(Cases) /\ RunTyped
  <2>1. Cases \in Seq(CaseType) /\ RunTyped
    BY CasesType DEF Permitted, Books
  <2> QED BY <2>1, LenProperties
<1>2. index' \in {index, index + 1} /\ index \in Nat
  BY DEF QualificationNext, HarnessStep, RefuseRun, StartRun, BeginCase, FeedTaken,
         FeedRefused, Feeding, GiveRoute, Serve, Judge, Conclude, PublishReport, Finished,
         TimePasses, Elsewhere, harnessVars, allVars, Books
<1>3. i > index
  BY <1>1, <1>2
<1>4. calls[Cases[i].id] = 0
  BY <1>3 DEF Unbegun
<1>5. CASE UNCHANGED calls
  BY <1>4, <1>5
<1>6. CASE Serve
  <2>1. InCase /\ index \in 1 .. Len(Cases)
    BY <1>6, CaseInHand DEF Serve, InCase
  <2>2. Cases[i].id # Case.id
    BY <1>1, <1>3, <2>1, ContextCasesDiffer DEF Case, RunInv
  <2>3. Cases[i].id \in Rids
    <3>1. Cases[i] \in CaseType
      BY <1>1, ElementOfSeq
    <3> QED BY <3>1 DEF CaseType
  <2> QED BY <1>4, <1>6, <2>1, <2>2, <2>3, ServeCalls DEF RunInv
<1>7. QualificationNext => UNCHANGED calls \/ Serve
  BY DEF QualificationNext, HarnessStep, RefuseRun, StartRun, BeginCase, FeedTaken,
         FeedRefused, Feeding, GiveRoute, Receive, Judge, Conclude, PublishReport, Finished,
         TimePasses, Elsewhere, vars, outside
<1>8. UNCHANGED allVars => UNCHANGED calls
  BY DEF allVars, vars, outside
<1> QED BY <1>5, <1>6, <1>7, <1>8

LEMMA JudgeClean ==
    ASSUME TypeOK, Books, harness = "V2", InCase /\ Case.fault = "none" => CleanCase,
           CleanObserved, Judge
    PROVE  CleanObserved'
<1>1. PICK x \in reviewsOut : observed' = Append(observed, Observation(Case, x))
  BY DEF Judge
<1> DEFINE o == Observation(Case, x)
<1>2. /\ Case \in CaseType /\ InCase /\ stage = "serving" /\ pc[Harness] = "acking"
  BY CaseInHand DEF Judge, InCase
<1>3. ASSUME Case.fault = "none"
      PROVE  o.calls = 1 /\ o.complete /\ ScriptedVerdict(Case, o)
  <2>1. AskedOnce /\ ScriptedVerdict(Case, x)
    BY <1>2, <1>3 DEF CleanCase, ServedSoFar
  <2> QED BY <2>1 DEF AskedOnce, Observation, ScriptedVerdict
<1>4. o.case = Case
  BY DEF Observation
<1>5. \A i \in DOMAIN observed' :
        IF i \in DOMAIN observed THEN observed'[i] = observed[i] ELSE observed'[i] = o
  <2>1. observed \in Seq(Verdicts) /\ Observation(Case, x) \in Verdicts
    BY <1>2, ObservationType DEF Books
  <2> QED BY <1>1, <2>1, AppendProperties, LenProperties
<1> HIDE DEF o
<1>6. ASSUME NEW i \in DOMAIN observed', observed'[i].case.fault = "none"
      PROVE  /\ observed'[i].calls = 1 /\ observed'[i].complete
             /\ ScriptedVerdict(observed'[i].case, observed'[i])
  <2>1. CASE i \in DOMAIN observed
    BY <1>5, <1>6, <2>1 DEF CleanObserved
  <2>2. CASE i \notin DOMAIN observed
    <3>1. observed'[i] = o
      BY <1>5, <2>2
    <3> QED BY <1>3, <1>4, <1>6, <3>1
  <2> QED BY <2>1, <2>2
<1> QED BY <1>6 DEF CleanObserved, ScriptedVerdict, GuardedAgainst

LEMMA CompleteStep ==
    ASSUME CompleteCasesTell, TypeOK, Books, RunInv, CompleteInv,
           [QualificationNext]_allVars
    PROVE  CompleteInv'
<1>0. UNCHANGED runVars /\ harness' = harness
  BY RunStep, RunFixed
<1> SUFFICES ASSUME harness = "V2"
             PROVE  /\ InCase' /\ Case'.fault = "none" => CleanCase'
                    /\ Unbegun' /\ CleanObserved'
  BY <1>0 DEF CompleteInv
<1>1. Unbegun'
  BY UnbegunStep DEF CompleteInv
<1>2. UNCHANGED observed => CleanObserved'
  BY DEF CompleteInv, CleanObserved, ScriptedVerdict, GuardedAgainst
<1>3. UNCHANGED index => Case' = Case
  BY <1>0, CaseFixed
<1>4. CASE UNCHANGED allVars \/ PublishReport \/ Elsewhere
  <2>1. UNCHANGED <<vars, runVars, index, fed, stage, observed>>
    BY <1>4 DEF allVars, harnessVars, PublishReport, Elsewhere
  <2>2. InCase' => InCase
    BY <2>1 DEF InCase
  <2> QED BY <1>1, <1>2, <1>3, <2>1, <2>2, QuietClean DEF CompleteInv
<1>5. CASE RefuseRun \/ StartRun \/ Conclude \/ Finished \/ FeedRefused
  <2>1. /\ UNCHANGED <<index, observed>> /\ Case' = Case
    BY <1>3, <1>5 DEF RefuseRun, StartRun, Conclude, Finished, FeedRefused, Feeding
  <2>2. ~(InCase' /\ Case.fault = "none")
    BY <1>5 DEF RefuseRun, StartRun, Conclude, Finished, FeedRefused, Tolerated, Exit, InCase
  <2> QED BY <1>1, <1>2, <2>1, <2>2
<1>6. CASE BeginCase
  <2>1. CleanCase' /\ UNCHANGED observed
    BY <1>0, <1>6, BeginClean DEF BeginCase, Books, CompleteInv
  <2> QED BY <1>1, <1>2, <2>1
<1>7. CASE FeedTaken \/ GiveRoute \/ Serve
  <2>1. UNCHANGED <<index, observed>> /\ InCase /\ Case' = Case
    BY <1>3, <1>7 DEF FeedTaken, Feeding, GiveRoute, Serve, harnessVars, InCase
  <2>2. Case.fault = "none" => CleanCase'
    BY <1>7, <2>1, FeedClean, GiveRouteClean, ServeClean DEF CompleteInv
  <2> QED BY <1>1, <1>2, <2>1, <2>2
<1>8. CASE Judge
  <2>1. ~InCase'
    BY <1>8 DEF Judge, InCase
  <2> QED BY <1>1, <1>8, <2>1, JudgeClean DEF CompleteInv
<1>9. ~TimePasses
  BY DEF TimePasses
<1> QED BY <1>4, <1>5, <1>6, <1>7, <1>8, <1>9 DEF QualificationNext, HarnessStep

(* "Only complete, fresh causal cases may call the model": in V2 each of   *)
(* them that is reported did, once, on a complete context, and its review  *)
(* is what the case scripts, or DEFER where an ALLOW is opposed, in every  *)
(* corpus the validators accept, in any place of the corpus.               *)
THEOREM CompleteCasesAsk ==
    ASSUME CompleteCasesTell
    PROVE  QualificationSpec => []CompleteCasesAskOnce
<1>1. QualificationInit => CompleteInv
  <2> SUFFICES ASSUME QualificationInit PROVE ~InCase /\ Unbegun /\ CleanObserved
    BY DEF CompleteInv
  <2>1. ~InCase /\ CleanObserved
    BY DEF QualificationInit, InCase, CleanObserved
  <2>2. Unbegun
    <3> SUFFICES ASSUME Permitted, NEW i \in DOMAIN Cases PROVE calls[Cases[i].id] = 0
      BY DEF Unbegun
    <3>1. Cases \in Seq(CaseType)
      BY CasesType DEF Permitted, QualificationInit, RunTyped
    <3>2. Cases[i] \in CaseType
      BY <3>1, LenProperties, ElementOfSeq
    <3>3. calls = [rid \in Rids |-> 0]
      BY DEF QualificationInit, Init
    <3> QED BY <3>2, <3>3 DEF CaseType
  <2> QED BY <2>1, <2>2
<1>2. TypeOK /\ Books /\ RunInv /\ CompleteInv /\ [QualificationNext]_allVars => CompleteInv'
  BY CompleteStep
<1>3. CompleteInv => CompleteCasesAskOnce
  <2> SUFFICES ASSUME CompleteInv, NEW i \in DOMAIN observed,
                      harness = "V2", observed[i].case.fault = "none"
               PROVE  /\ observed[i].calls = 1 /\ observed[i].complete
                      /\ ScriptedVerdict(observed[i].case, observed[i])
    BY DEF CompleteCasesAskOnce, Judged, ScriptedVerdict
  <2> QED BY DEF CompleteInv, CleanObserved
<1> QED BY <1>1, <1>2, <1>3, QualificationInvariant, RunInvariant, PTL
        DEF QualificationSpec
=============================================================================
