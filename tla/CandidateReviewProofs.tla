------------------------- MODULE CandidateReviewProofs -------------------------
(***************************************************************************)
(* The candidate-review runtime for every set of deliveries, routes,       *)
(* handlers and settings, every cache size and any number of restarts:     *)
(* type correctness and the safety of its reviews.                         *)
(***************************************************************************)
EXTENDS CandidateReview, CandidateContextStoreProofs

-----------------------------------------------------------------------------
(* Types of the operators                                                  *)

LEMMA TimesType == Times \subseteq Nat /\ 0 \in Times
BY SettingsAssumption DEF Times

LEMMA RouteType ==
    ASSUME NEW rid \in Rids
    PROVE  /\ Intent[rid].routed \in Nat /\ Intent[rid].deadline \in Nat
           /\ Intent[rid].routed <= Intent[rid].deadline
BY RoutesAssumption DEF IntentType

LEMMA RouteMsgType == ASSUME NEW r \in RouteMsgs PROVE r.rid \in Rids /\ r.mid \in Mids
BY ReviewAssumption DEF Mids

LEMMA IdleJobType == IdleJob \in Jobs
<1>1. (CHOOSE r \in RouteMsgs : TRUE) \in RouteMsgs
  BY ReviewAssumption
<1> QED BY <1>1, TimesType DEF IdleJob, Jobs, Reasons

LEMMA BuildType ==
    ASSUME StoreTypeOK, NEW rid \in Rids, NEW cutoff \in Times, NEW captured \in Times
    PROVE  Build(rid, cutoff, captured) \in Contexts
<1>1. \A k \in DOMAIN entries : ValueOf(entries, k) \in Observations
  BY DEF StoreTypeOK, IsCache, ValueOf
<1>2. \A kind : Snapshot(kind, rid, cutoff, captured) \subseteq Observations
  BY <1>1 DEF Snapshot, KeysOf
<1>3. ClosedBars(rid, cutoff, captured) \subseteq Observations
  BY <1>1 DEF ClosedBars, KeysOf
<1>4. CitedText(rid, cutoff, captured) \subseteq Observations
  BY <1>1 DEF CitedText
<1>5. Build(rid, cutoff, captured).sources \in [Kinds -> SUBSET Observations]
  <2> DEFINE s == Build(rid, cutoff, captured).sources
  <2>1. s = [market      |-> Snapshot("market", rid, cutoff, captured),
             closed_bars |-> ClosedBars(rid, cutoff, captured),
             text        |-> CitedText(rid, cutoff, captured),
             macro       |-> Snapshot("macro", rid, cutoff, captured)]
    BY DEF Build
  <2> QED BY <2>1, <1>2, <1>3, <1>4 DEF Kinds
<1> QED BY <1>5 DEF Build, Contexts

LEMMA ClampedType ==
    ASSUME NEW t \in Nat, NEW rid \in Rids
    PROVE  Clamped(t, rid) \in Intent[rid].routed .. Intent[rid].deadline
BY RouteType DEF Clamped

LEMMA DeferType ==
    ASSUME NEW r \in RouteMsgs, NEW t \in Times, NEW reason \in Reasons,
           NEW context \in SUBSET Contexts
    PROVE  Defer(r, t, reason, context) \in Reviews
<1>1. Clamped(t, r.rid) \in Nat
  BY ClampedType, RouteMsgType, RouteType, TimesType
<1> QED BY <1>1 DEF Defer, Reviews, Decisions

LEMMA ReasonTypes ==
    /\ \A rid, received, captured : AdmissionReason(rid, received, captured) \in Reasons
    /\ \A context, started : StartReason(context, started) \in Reasons
    /\ \A context, started, finished, outcome :
         FinishReason(context, started, finished, outcome) \in Reasons
BY DEF AdmissionReason, StartReason, FinishReason, Reasons

LEMMA ModelReviewType ==
    ASSUME NEW r \in RouteMsgs, NEW context \in Contexts, NEW started \in Times,
           NEW finished \in Times, NEW outcome \in Outcomes
    PROVE  ModelReview(r, context, started, finished, outcome) \in Reviews
<1> DEFINE reason == FinishReason(context, started, finished, outcome)
<1>1. CASE reason # "none"
  BY <1>1, DeferType, ReasonTypes DEF ModelReview
<1>2. CASE reason = "none"
  <2>1. Verdict(outcome) \in Decisions
    BY <1>2 DEF FinishReason, Outcomes, Verdict, Decisions
  <2> QED BY <1>2, <2>1, TimesType DEF ModelReview, Reviews, Decisions, Reasons
<1> QED BY <1>1, <1>2

LEMMA SealedType ==
    ASSUME NEW review \in Reviews, now \in Times
    PROVE  Sealed(review) \in Reviews /\ Sealed(review).route = review.route
<1>1. review.route \in RouteMsgs /\ review.context \in SUBSET Contexts
  BY DEF Reviews
<1>2. "DECISION_CONTEXT_IDENTITY_CONFLICT" \in Reasons
  BY DEF Reasons
<1> QED BY <1>1, <1>2, DeferType DEF Sealed, Defer

-----------------------------------------------------------------------------
(* Type correctness                                                        *)

(* The variables grouped as the actions change them.                       *)
TaskTypes ==
    /\ IsCache(processed, Rids, {TRUE}, CacheSize)
    /\ IsCache(reviewCache, Rids, Reviews, CacheSize)
    /\ holder \subseteq Handlers
    /\ pc \in [Handlers -> Phases]
    /\ job \in [Handlers -> Jobs]

IdentityTypes ==
    /\ IsCache(routeDigests, Rids, RouteMsgs, CacheSize)
    /\ IsCache(routeMessages, Mids, RouteMsgs, CacheSize)

CutTypes ==
    /\ IsCache(routeCutoffs, Rids, Times, CacheSize)
    /\ IsCache(contextCache, Rids, Contexts, CacheSize)

OutsideTypes ==
    /\ contextsOut \subseteq Contexts
    /\ reviewsOut \subseteq Reviews
    /\ acked \subseteq RouteMsgs
    /\ calls \in [Rids -> 0 .. MaxCalls]
    /\ restarts \in 0 .. MaxRestarts

LEMMA TypeParts ==
    TypeOK <=> /\ StoreTypeOK /\ mode \in Modes /\ IdentityTypes /\ CutTypes
               /\ TaskTypes /\ OutsideTypes
BY DEF TypeOK, IdentityTypes, CutTypes, TaskTypes, OutsideTypes

LEMMA TypePartsPrime ==
    TypeOK' <=> /\ StoreTypeOK' /\ mode' \in Modes /\ IdentityTypes' /\ CutTypes'
                /\ TaskTypes' /\ OutsideTypes'
BY DEF TypeOK, IdentityTypes, CutTypes, TaskTypes, OutsideTypes

LEMMA UnchangedTypes ==
    ASSUME TypeOK
    PROVE  /\ UNCHANGED storeVars => StoreTypeOK'
           /\ UNCHANGED mode => mode' \in Modes
           /\ UNCHANGED identities => IdentityTypes'
           /\ UNCHANGED <<routeCutoffs, contextCache>> => CutTypes'
           /\ UNCHANGED <<processed, reviewCache, tasks>> => TaskTypes'
           /\ UNCHANGED outside => OutsideTypes'
BY DEF TypeOK, StoreTypeOK, IdentityTypes, CutTypes, TaskTypes, OutsideTypes,
       storeVars, identities, tasks, outside

LEMMA JobType ==
    ASSUME TypeOK, NEW h \in Handlers
    PROVE  /\ job[h].route \in RouteMsgs /\ job[h].route.rid \in Rids
           /\ job[h].route.mid \in Mids
           /\ job[h].received \in Times /\ job[h].started \in Times
           /\ job[h].reason \in Reasons
           /\ job[h].context \in SUBSET Contexts
           /\ job[h].review \in SUBSET Reviews
BY RouteMsgType DEF TypeOK, Jobs

LEMMA RememberIdentityType ==
    ASSUME TypeOK, NEW h \in Handlers, RememberIdentity(h)
    PROVE  IdentityTypes'
<1>1. /\ IsCache(routeDigests, Rids, RouteMsgs, CacheSize)
      /\ IsCache(routeMessages, Mids, RouteMsgs, CacheSize)
  BY DEF TypeOK
<1>2. IsCache(routeDigests', Rids, RouteMsgs, CacheSize)
  BY <1>1, JobType, CacheSizeType, RememberIsCache DEF RememberIdentity
<1>3. IsCache(routeMessages', Mids, RouteMsgs, CacheSize)
  BY <1>1, JobType, CacheSizeType, RememberIsCache DEF RememberIdentity
<1> QED BY <1>2, <1>3 DEF IdentityTypes

LEMMA ReturnType ==
    ASSUME TypeOK, NEW h \in Handlers, Return(h), UNCHANGED <<processed, reviewCache>>
    PROVE  TaskTypes'
BY DEF TypeOK, TaskTypes, Return, GoTo, Phases

LEMMA RaiseType ==
    ASSUME TypeOK, NEW h \in Handlers, Raise(h), UNCHANGED <<processed, reviewCache>>
    PROVE  TaskTypes'
BY IdleJobType DEF TypeOK, TaskTypes, Raise, GoTo, Phases

LEMMA FinishType ==
    ASSUME TypeOK, NEW h \in Handlers, NEW review \in Reviews, Finish(h, review)
    PROVE  TaskTypes'
<1>1. review.route.rid \in Rids
  BY RouteMsgType DEF Reviews
<1>2. IsCache(reviewCache, Rids, Reviews, CacheSize)
  BY DEF TypeOK
<1>3. IsCache(reviewCache', Rids, Reviews, CacheSize)
  BY <1>1, <1>2, CacheSizeType, RememberIsCache DEF Finish
<1>4. job' \in [Handlers -> Jobs]
  BY DEF TypeOK, Jobs, Finish
<1> QED BY <1>3, <1>4 DEF TypeOK, TaskTypes, Finish, GoTo, Phases

-----------------------------------------------------------------------------
(* One lemma per action, or per group of actions that change the same      *)

LEMMA ReceiveTypeOK ==
    ASSUME TypeOK, NEW h \in Handlers, NEW r \in RouteMsgs, Receive(h, r)
    PROVE  TypeOK'
<1>1. job' \in [Handlers -> Jobs]
  BY IdleJobType DEF TypeOK, StoreTypeOK, Jobs, Receive
<1>2. pc' \in [Handlers -> Phases] /\ holder' \subseteq Handlers
  BY DEF TypeOK, Receive, GoTo, Phases
<1>3. TaskTypes'
  BY <1>1, <1>2 DEF TypeOK, TaskTypes, Receive, caches
<1> QED BY <1>3, UnchangedTypes, TypePartsPrime DEF Receive, caches

LEMMA WakeTypeOK == ASSUME TypeOK, NEW h \in Handlers, Wake(h) PROVE TypeOK'
<1>1. TaskTypes'
  BY DEF TypeOK, TaskTypes, Wake, GoTo, Phases, caches
<1> QED BY <1>1, UnchangedTypes, TypePartsPrime DEF Wake, caches

LEMMA RefusalTypeOK ==
    ASSUME TypeOK, NEW h \in Handlers,
           RejectReused(h) \/ SkipProcessed(h) \/ RefuseCached(h)
    PROVE  TypeOK'
<1>1. CASE RejectReused(h)
  BY <1>1, RaiseType, UnchangedTypes, TypePartsPrime DEF RejectReused, caches
<1>2. CASE SkipProcessed(h)
  BY <1>2, ReturnType, RememberIdentityType, UnchangedTypes, TypePartsPrime
     DEF SkipProcessed, caches
<1>3. CASE RefuseCached(h)
  BY <1>3, RaiseType, RememberIdentityType, UnchangedTypes, TypePartsPrime
     DEF RefuseCached, HasCachedReview, caches
<1> QED BY <1>1, <1>2, <1>3

LEMMA CachedContextType ==
    ASSUME TypeOK, NEW rid, Held(contextCache, rid)
    PROVE  ValueOf(contextCache, rid) \in Contexts
BY DEF TypeOK, IsCache, Held, ValueOf

LEMMA ResendCachedTypeOK ==
    ASSUME TypeOK, NEW h \in Handlers, ResendCached(h) PROVE TypeOK'
<1> DEFINE rid == job[h].route.rid
<1>1. ValueOf(reviewCache, rid) \in Reviews
  BY DEF ResendCached, HasCachedReview, TypeOK, IsCache, Held, ValueOf
<1>2. Cached(contextCache, rid) \subseteq Contexts
  BY CachedContextType DEF Cached
<1>3. job' \in [Handlers -> Jobs]
  BY <1>1, <1>2 DEF TypeOK, Jobs, ResendCached
<1>4. TaskTypes'
  BY <1>3 DEF TypeOK, TaskTypes, ResendCached, GoTo, Phases, caches
<1> QED BY <1>4, RememberIdentityType, UnchangedTypes, TypePartsPrime
        DEF ResendCached, HasCachedReview, caches

LEMMA DeferUnseenTypeOK ==
    ASSUME TypeOK, NEW h \in Handlers, DeferUnseen(h) PROVE TypeOK'
<1> DEFINE reason == IF BeginReason(h) # "none" THEN BeginReason(h)
                     ELSE "DECISION_CONTEXT_EVICTED"
<1>1. reason \in Reasons
  BY ReasonTypes DEF BeginReason, Reasons
<1>2. Defer(job[h].route, job[h].received, reason, {}) \in Reviews
  BY <1>1, JobType, DeferType
<1>3. TaskTypes'
  BY <1>2, FinishType DEF DeferUnseen
<1> QED BY <1>3, RememberIdentityType, UnchangedTypes, TypePartsPrime
        DEF DeferUnseen, Begins

LEMMA CaptureTypeOK ==
    ASSUME TypeOK, NEW h \in Handlers, Capture(h) PROVE TypeOK'
<1> DEFINE rid == job[h].route.rid
<1>1. PICK context \in Contexts : context = Build(rid, job[h].received, now)
  BY JobType, BuildType DEF TypeOK, StoreTypeOK
<1>2. IsCache(routeCutoffs', Rids, Times, CacheSize)
  <2>1. IsCache(routeCutoffs, Rids, Times, CacheSize)
    BY DEF TypeOK
  <2> QED BY <2>1, JobType, CacheSizeType, RememberIsCache DEF Capture
<1>3. CASE /\ contextCache' = Remember(contextCache, rid, context, CacheSize)
           /\ job' = [job EXCEPT ![h].context = {context}]
           /\ GoTo(h, "sendContext")
           /\ UNCHANGED <<holder, processed, reviewCache>>
  <2>1. IsCache(contextCache', Rids, Contexts, CacheSize)
    <3>1. IsCache(contextCache, Rids, Contexts, CacheSize)
      BY DEF TypeOK
    <3> QED BY <3>1, <1>3, JobType, CacheSizeType, RememberIsCache
  <2>2. job' \in [Handlers -> Jobs]
    BY <1>3 DEF TypeOK, Jobs
  <2>3. TaskTypes'
    BY <1>3, <2>2 DEF TypeOK, TaskTypes, GoTo, Phases
  <2>4. CutTypes'
    BY <1>2, <2>1 DEF CutTypes
  <2> QED BY <2>3, <2>4, RememberIdentityType, UnchangedTypes, TypePartsPrime
          DEF Capture, Begins
<1>4. CASE /\ Finish(h, Defer(job[h].route, job[h].received, "DECISION_CONTEXT_INVALID", {}))
           /\ UNCHANGED contextCache
  <2>1. Defer(job[h].route, job[h].received, "DECISION_CONTEXT_INVALID", {}) \in Reviews
    BY JobType, DeferType DEF Reasons
  <2>2. TaskTypes'
    BY <1>4, <2>1, FinishType
  <2>3. CutTypes'
    BY <1>2, <1>4 DEF TypeOK, CutTypes
  <2> QED BY <2>2, <2>3, RememberIdentityType, UnchangedTypes, TypePartsPrime
          DEF Capture, Begins
<1> QED BY <1>1, <1>3, <1>4 DEF Capture

LEMMA RecaptureTypeOK ==
    ASSUME TypeOK, NEW h \in Handlers, Recapture(h) PROVE TypeOK'
<1>1. ValueOf(contextCache, job[h].route.rid) \in Contexts
  BY CachedContextType DEF Recapture
<1>2. BeginReason(h) \in Reasons
  BY ReasonTypes DEF BeginReason
<1>3. job' \in [Handlers -> Jobs]
  BY <1>1, <1>2 DEF TypeOK, Jobs, Recapture
<1>4. TaskTypes'
  BY <1>3 DEF TypeOK, TaskTypes, Recapture, GoTo, Phases, caches
<1> QED BY <1>4, RememberIdentityType, UnchangedTypes, TypePartsPrime
        DEF Recapture, Begins, caches

LEMMA ContextsOutType ==
    ASSUME TypeOK, NEW h \in Handlers PROVE contextsOut \cup job[h].context \subseteq Contexts
BY JobType DEF TypeOK

LEMMA DeferAfterContextTypeOK ==
    ASSUME TypeOK, NEW h \in Handlers, DeferAfterContext(h) PROVE TypeOK'
<1>1. PICK context \in job[h].context :
        \/ Finish(h, Sealed(Defer(job[h].route, job[h].received,
                                  ReasonAfterContext(h, context), {context})))
        \/ Finish(h, Sealed(Defer(job[h].route, now, StartReason(context, now), {context})))
  BY DEF DeferAfterContext
<1>2. context \in Contexts /\ now \in Times
  BY <1>1, JobType DEF TypeOK, StoreTypeOK
<1>3. ReasonAfterContext(h, context) \in Reasons /\ StartReason(context, now) \in Reasons
  BY JobType, ReasonTypes DEF ReasonAfterContext, Reasons
<1>4. /\ Sealed(Defer(job[h].route, job[h].received,
                      ReasonAfterContext(h, context), {context})) \in Reviews
      /\ Sealed(Defer(job[h].route, now, StartReason(context, now), {context})) \in Reviews
  <2>1. /\ Defer(job[h].route, job[h].received,
                 ReasonAfterContext(h, context), {context}) \in Reviews
        /\ Defer(job[h].route, now, StartReason(context, now), {context}) \in Reviews
    BY <1>2, <1>3, JobType, DeferType
  <2> QED BY <2>1, <1>2, SealedType
<1>5. TaskTypes'
  BY <1>1, <1>4, FinishType
<1>6. OutsideTypes'
  BY ContextsOutType DEF DeferAfterContext, ContextSent, TypeOK, OutsideTypes
<1> QED BY <1>5, <1>6, UnchangedTypes, TypePartsPrime DEF DeferAfterContext, ContextSent

LEMMA DispatchTypeOK ==
    ASSUME TypeOK, NEW h \in Handlers, Dispatch(h) PROVE TypeOK'
<1>1. job' \in [Handlers -> Jobs]
  BY DEF TypeOK, StoreTypeOK, Jobs, Dispatch
<1>2. TaskTypes'
  BY <1>1 DEF TypeOK, TaskTypes, Dispatch, GoTo, Phases
<1>3. calls' \in [Rids -> 0 .. MaxCalls]
  BY JobType, ReviewAssumption DEF TypeOK, Dispatch, MaxCalls
<1>4. OutsideTypes'
  BY <1>3, ContextsOutType DEF Dispatch, ContextSent, TypeOK, OutsideTypes
<1> QED BY <1>2, <1>4, UnchangedTypes, TypePartsPrime DEF Dispatch, ContextSent

LEMMA ModelReturnsTypeOK ==
    ASSUME TypeOK, NEW h \in Handlers, NEW outcome \in Outcomes, ModelReturns(h, outcome)
    PROVE  TypeOK'
<1>1. PICK context \in job[h].context :
        Finish(h, Sealed(ModelReview(job[h].route, context, job[h].started, now, outcome)))
  BY DEF ModelReturns
<1>2. context \in Contexts /\ now \in Times
  BY <1>1, JobType DEF TypeOK, StoreTypeOK
<1>3. Sealed(ModelReview(job[h].route, context, job[h].started, now, outcome)) \in Reviews
  BY <1>2, JobType, ModelReviewType, SealedType
<1>4. TaskTypes'
  BY <1>1, <1>3, FinishType
<1> QED BY <1>4, UnchangedTypes, TypePartsPrime DEF ModelReturns

LEMMA ReviewSentTypeOK ==
    ASSUME TypeOK, NEW h \in Handlers, ReviewSent(h) PROVE TypeOK'
<1>1. IsCache(processed', Rids, {TRUE}, CacheSize)
  <2>1. IsCache(processed, Rids, {TRUE}, CacheSize)
    BY DEF TypeOK
  <2> QED BY <2>1, JobType, CacheSizeType, RememberIsCache DEF ReviewSent
<1>2. IsCache(reviewCache', Rids, Reviews, CacheSize)
  <2>1. IsCache(reviewCache, Rids, Reviews, CacheSize)
    BY DEF TypeOK
  <2> QED BY <2>1, CacheSizeType, DiscardIsCache DEF ReviewSent
<1>3. TaskTypes'
  BY <1>1, <1>2 DEF TypeOK, TaskTypes, ReviewSent, Return, GoTo, Phases
<1>4. OutsideTypes'
  BY JobType DEF TypeOK, OutsideTypes, ReviewSent
<1> QED BY <1>3, <1>4, UnchangedTypes, TypePartsPrime DEF ReviewSent

LEMMA ContextResentTypeOK ==
    ASSUME TypeOK, NEW h \in Handlers, ContextResent(h) PROVE TypeOK'
<1>1. TaskTypes'
  BY DEF TypeOK, TaskTypes, ContextResent, GoTo, Phases, caches
<1>2. OutsideTypes'
  BY ContextsOutType DEF TypeOK, OutsideTypes, ContextResent
<1> QED BY <1>1, <1>2, UnchangedTypes, TypePartsPrime DEF ContextResent, caches

LEMMA FailTypeOK == ASSUME TypeOK, NEW h \in Handlers, Fail(h) PROVE TypeOK'
<1>1. CASE ContextFails(h)
  <2>1. OutsideTypes'
    BY <1>1, ContextsOutType DEF TypeOK, OutsideTypes, ContextFails
  <2> QED BY <1>1, <2>1, RaiseType, UnchangedTypes, TypePartsPrime DEF ContextFails, caches
<1>2. CASE ReviewFails(h)
  <2>1. OutsideTypes'
    BY <1>2, JobType DEF TypeOK, OutsideTypes, ReviewFails
  <2> QED BY <1>2, <2>1, RaiseType, UnchangedTypes, TypePartsPrime DEF ReviewFails, caches
<1>3. CASE AckFails(h)
  <2>1. TaskTypes'
    BY <1>3, IdleJobType DEF TypeOK, TaskTypes, AckFails, GoTo, Phases, caches
  <2> QED BY <1>3, <2>1, UnchangedTypes, TypePartsPrime DEF AckFails, caches
<1>4. CASE AnswerLost(h)
  BY <1>4, RaiseType, UnchangedTypes, TypePartsPrime DEF AnswerLost, caches
<1> QED BY <1>1, <1>2, <1>3, <1>4 DEF Fail

LEMMA AckTypeOK == ASSUME TypeOK, NEW h \in Handlers, Ack(h) PROVE TypeOK'
<1>1. TaskTypes'
  BY IdleJobType DEF TypeOK, TaskTypes, Ack, GoTo, Phases, caches
<1>2. OutsideTypes'
  BY JobType DEF TypeOK, OutsideTypes, Ack
<1> QED BY <1>1, <1>2, UnchangedTypes, TypePartsPrime DEF Ack, caches

LEMMA EnvironmentTypeOK ==
    ASSUME TypeOK, SourceTask \/ ControlTask \/ Clock PROVE TypeOK'
<1>1. CASE SourceTask
  <2>1. StoreTypeOK'
    BY <1>1, IngestTypeOK DEF TypeOK, SourceTask
  <2> QED BY <1>1, <2>1, UnchangedTypes, TypePartsPrime DEF SourceTask, caches, tasks
<1>2. CASE ControlTask
  BY <1>2, UnchangedTypes, TypePartsPrime DEF ControlTask, caches, tasks
<1>3. CASE Clock
  <2>1. StoreTypeOK'
    BY <1>3, TickTypeOK DEF TypeOK, Clock
  <2> QED BY <1>3, <2>1, UnchangedTypes, TypePartsPrime DEF Clock, caches, tasks
<1> QED BY <1>1, <1>2, <1>3

LEMMA RestartTypeOK == ASSUME TypeOK, Restart PROVE TypeOK'
<1>1. StoreTypeOK'
  BY EmptyIsCache DEF TypeOK, StoreTypeOK, Restart, NewService
<1>2. IdentityTypes' /\ CutTypes'
  BY EmptyIsCache DEF IdentityTypes, CutTypes, Restart, NewService
<1>3. TaskTypes'
  BY EmptyIsCache, IdleJobType DEF TaskTypes, Restart, NewService, Phases
<1>4. OutsideTypes'
  BY ReviewAssumption DEF TypeOK, OutsideTypes, Restart, NewService
<1> QED BY <1>1, <1>2, <1>3, <1>4, ReviewAssumption, TypePartsPrime DEF Restart, NewService

LEMMA InitTypeOK == Init => TypeOK
<1> SUFFICES ASSUME Init PROVE TypeOK
  OBVIOUS
<1>1. StoreTypeOK
  BY StoreInitTypeOK DEF Init
<1>2. IdentityTypes /\ CutTypes
  BY EmptyIsCache DEF IdentityTypes, CutTypes, Init
<1>3. TaskTypes
  BY EmptyIsCache, IdleJobType DEF TaskTypes, Init, Phases
<1>4. OutsideTypes
  BY ReviewAssumption DEF MaxCalls, OutsideTypes, Init
<1> QED BY <1>1, <1>2, <1>3, <1>4, ReviewAssumption, TypeParts DEF Init

(* Every reachable state of the runtime is well typed, for every cache     *)
(* size: no eviction leaves a cache with more keys than it may hold.       *)
THEOREM TypeCorrect == Spec => []TypeOK
<1>1. Init => TypeOK
  BY InitTypeOK
<1>2. TypeOK /\ [Next]_vars => TypeOK'
  <2> SUFFICES ASSUME TypeOK, [Next]_vars PROVE TypeOK'
    OBVIOUS
  <2>1. CASE \E h \in Handlers, r \in RouteMsgs : Receive(h, r)
    BY <2>1, ReceiveTypeOK
  <2>2. ASSUME NEW h \in Handlers, Proceed(h) PROVE TypeOK'
    BY <2>2, WakeTypeOK, RefusalTypeOK, ResendCachedTypeOK, DeferUnseenTypeOK,
       CaptureTypeOK, RecaptureTypeOK DEF Proceed
  <2>3. ASSUME NEW h \in Handlers, Succeed(h) PROVE TypeOK'
    BY <2>3, DeferAfterContextTypeOK, DispatchTypeOK, ModelReturnsTypeOK,
       ContextResentTypeOK, ReviewSentTypeOK, AckTypeOK DEF Succeed
  <2>4. ASSUME NEW h \in Handlers, Fail(h) PROVE TypeOK'
    BY <2>4, FailTypeOK
  <2>5. CASE SourceTask \/ ControlTask \/ Clock
    BY <2>5, EnvironmentTypeOK
  <2>6. CASE Restart
    BY <2>6, RestartTypeOK
  <2>7. CASE UNCHANGED vars
    BY <2>7, UnchangedTypes, TypePartsPrime DEF vars, caches
  <2> QED BY <2>1, <2>2, <2>3, <2>4, <2>5, <2>6, <2>7 DEF Next
<1> QED BY <1>1, <1>2, PTL DEF Spec

-----------------------------------------------------------------------------
(* Acknowledged only after a review: the inductive invariant.  A route is  *)
(* remembered as processed, or its handler acknowledges, only when one of  *)
(* its reviews is out; a cached review is its key's, and the review in a   *)
(* handler's hands is its route's.                                         *)

ReviewOut(rid) == \E x \in reviewsOut : x.route.rid = rid

Sends(h) == pc[h] \in {"resendContext", "sendReview"}

HoldsOwnReview(h) == \E x \in job[h].review : x.route.rid = job[h].route.rid

CacheKeyed == \A rid \in DOMAIN reviewCache : ValueOf(reviewCache, rid).route.rid = rid

AckInv ==
    /\ \A rid \in DOMAIN processed : ReviewOut(rid)
    /\ CacheKeyed
    /\ \A h \in Handlers : pc[h] = "acking" => ReviewOut(job[h].route.rid)
    /\ \A h \in Handlers : Sends(h) => HoldsOwnReview(h)
    /\ AckedOnlyAfterReview

(* What a step of one handler has to keep for the invariant to survive.    *)
LEMMA AckInvStep ==
    ASSUME AckInv, NEW h \in Handlers,
           reviewsOut \subseteq reviewsOut',
           \A rid \in DOMAIN processed' : rid \in DOMAIN processed \/ ReviewOut(rid)',
           CacheKeyed',
           \A g \in Handlers \ {h} : pc'[g] = pc[g] /\ job'[g] = job[g],
           (pc[h] = "acking")' => ReviewOut(job[h].route.rid)',
           Sends(h)' => HoldsOwnReview(h)',
           \A r \in acked' : r \in acked \/ ReviewOut(r.rid)'
    PROVE  AckInv'
<1>1. \A rid : ReviewOut(rid) => ReviewOut(rid)'
  BY DEF ReviewOut
<1>2. \A g \in Handlers : (pc[g] = "acking")' => ReviewOut(job[g].route.rid)'
  BY <1>1 DEF AckInv
<1>3. \A g \in Handlers : Sends(g)' => HoldsOwnReview(g)'
  BY DEF AckInv, Sends, HoldsOwnReview
<1>4. AckedOnlyAfterReview'
  BY <1>1 DEF AckInv, AckedOnlyAfterReview, ReviewOut
<1> QED BY <1>1, <1>2, <1>3, <1>4 DEF AckInv

(* A step of one handler touches no other handler.                         *)
OthersUntouched(h) == \A g \in Handlers \ {h} : pc'[g] = pc[g] /\ job'[g] = job[g]

LEMMA FinishAckInv ==
    ASSUME TypeOK, AckInv, NEW h \in Handlers, NEW review, Finish(h, review),
           review.route = job[h].route, reviewsOut' = reviewsOut, acked' = acked
    PROVE  AckInv'
<1>1. /\ pc' = [pc EXCEPT ![h] = "sendReview"]
      /\ job' = [job EXCEPT ![h].review = {review}]
      /\ reviewCache' = Remember(reviewCache, review.route.rid, review, CacheSize)
      /\ processed' = processed
  BY DEF Finish, GoTo
<1>2. /\ pc'[h] = "sendReview"
      /\ job'[h].review = {review} /\ job'[h].route = job[h].route
      /\ OthersUntouched(h)
  BY <1>1 DEF TypeOK, Jobs, OthersUntouched
<1>3. CacheKeyed'
  BY <1>1, CacheSizeType, RememberReads DEF AckInv, CacheKeyed, Held
<1>4. HoldsOwnReview(h)'
  BY <1>2 DEF HoldsOwnReview
<1> QED BY <1>1, <1>2, <1>3, <1>4, AckInvStep DEF OthersUntouched

LEMMA RaiseAckInv ==
    ASSUME TypeOK, AckInv, NEW h \in Handlers, Raise(h), reviewsOut \subseteq reviewsOut',
           UNCHANGED <<processed, reviewCache, acked>>
    PROVE  AckInv'
<1>1. pc' = [pc EXCEPT ![h] = "idle"] /\ job' = [job EXCEPT ![h] = IdleJob]
  BY DEF Raise, GoTo
<1>2. pc'[h] = "idle" /\ OthersUntouched(h)
  BY <1>1 DEF TypeOK, OthersUntouched
<1>3. CacheKeyed' /\ ~Sends(h)'
  BY <1>2 DEF AckInv, CacheKeyed, Sends
<1> QED BY <1>2, <1>3, AckInvStep DEF OthersUntouched

(* Every way of making a review keeps the route it was made for.           *)
LEMMA ReviewRoutes ==
    /\ \A r, t, reason, context : Defer(r, t, reason, context).route = r
    /\ \A r, context, started, finished, outcome :
         ModelReview(r, context, started, finished, outcome).route = r
    /\ \A review : Sealed(review).route = review.route
<1>1. \A r, t, reason, context : Defer(r, t, reason, context).route = r
  BY DEF Defer
<1>2. \A review : Sealed(review).route = review.route
  BY <1>1 DEF Sealed
<1>3. \A r, context, started, finished, outcome :
        ModelReview(r, context, started, finished, outcome).route = r
  BY <1>1 DEF ModelReview
<1> QED BY <1>1, <1>2, <1>3

LEMMA ProceedAckInv ==
    ASSUME TypeOK, AckInv, NEW h \in Handlers, Proceed(h)
    PROVE  AckInv'
<1> DEFINE rid == job[h].route.rid
<1>1. CASE Wake(h)
  <2>1. pc'[h] = "admitted" /\ OthersUntouched(h)
    BY <1>1 DEF Wake, GoTo, TypeOK, OthersUntouched
  <2>2. CacheKeyed' /\ ~Sends(h)'
    BY <1>1, <2>1 DEF Wake, caches, AckInv, CacheKeyed, Sends
  <2> QED BY <1>1, <2>1, <2>2, AckInvStep DEF Wake, caches, outside, OthersUntouched
<1>2. CASE RejectReused(h)
  BY <1>2, RaiseAckInv DEF RejectReused, caches, outside
<1>3. CASE RefuseCached(h)
  BY <1>3, RaiseAckInv DEF RefuseCached, caches, outside
<1>4. CASE SkipProcessed(h)
  <2>1. pc'[h] = "acking" /\ job' = job /\ OthersUntouched(h)
    BY <1>4 DEF SkipProcessed, Return, GoTo, TypeOK, OthersUntouched
  <2>2. ReviewOut(rid)
    BY <1>4 DEF SkipProcessed, Held, AckInv
  <2>3. ReviewOut(job[h].route.rid)'
    BY <1>4, <2>1, <2>2 DEF SkipProcessed, outside, ReviewOut
  <2>4. CacheKeyed' /\ ~Sends(h)'
    BY <1>4, <2>1 DEF SkipProcessed, caches, AckInv, CacheKeyed, Sends
  <2> QED BY <1>4, <2>1, <2>3, <2>4, AckInvStep
          DEF SkipProcessed, caches, outside, OthersUntouched
<1>5. CASE ResendCached(h)
  <2>1. PICK x : x = ValueOf(reviewCache, rid)
    OBVIOUS
  <2>2. x.route.rid = rid
    BY <1>5, <2>1 DEF ResendCached, HasCachedReview, Held, AckInv, CacheKeyed
  <2>3. /\ pc'[h] # "acking" /\ x \in job'[h].review /\ job'[h].route = job[h].route
        /\ OthersUntouched(h)
    BY <1>5, <2>1 DEF ResendCached, GoTo, TypeOK, Jobs, OthersUntouched
  <2>4. CacheKeyed' /\ HoldsOwnReview(h)'
    BY <1>5, <2>2, <2>3 DEF ResendCached, caches, AckInv, CacheKeyed, HoldsOwnReview
  <2> QED BY <1>5, <2>3, <2>4, AckInvStep DEF ResendCached, caches, outside, OthersUntouched
<1>6. CASE DeferUnseen(h)
  BY <1>6, ReviewRoutes, FinishAckInv DEF DeferUnseen, outside
<1>7. CASE Capture(h)
  <2>1. CASE Finish(h, Defer(job[h].route, job[h].received, "DECISION_CONTEXT_INVALID", {}))
    BY <1>7, <2>1, ReviewRoutes, FinishAckInv DEF Capture, outside
  <2>2. CASE GoTo(h, "sendContext") /\ UNCHANGED <<processed, reviewCache>>
             /\ \E context : job' = [job EXCEPT ![h].context = {context}]
    <3>1. pc'[h] = "sendContext" /\ OthersUntouched(h)
      BY <2>2 DEF GoTo, TypeOK, OthersUntouched
    <3>2. CacheKeyed' /\ ~Sends(h)'
      BY <2>2, <3>1 DEF AckInv, CacheKeyed, Sends
    <3> QED BY <1>7, <2>2, <3>1, <3>2, AckInvStep DEF Capture, outside, OthersUntouched
  <2> QED BY <1>7, <2>1, <2>2 DEF Capture
<1>8. CASE Recapture(h)
  <2>1. pc'[h] = "sendContext" /\ OthersUntouched(h)
    BY <1>8 DEF Recapture, GoTo, TypeOK, OthersUntouched
  <2>2. CacheKeyed' /\ ~Sends(h)'
    BY <1>8, <2>1 DEF Recapture, caches, AckInv, CacheKeyed, Sends
  <2> QED BY <1>8, <2>1, <2>2, AckInvStep DEF Recapture, caches, outside, OthersUntouched
<1> QED BY <1>1, <1>2, <1>3, <1>4, <1>5, <1>6, <1>7, <1>8 DEF Proceed

LEMMA SucceedAckInv ==
    ASSUME TypeOK, AckInv, NEW h \in Handlers, Succeed(h)
    PROVE  AckInv'
<1>1. CASE DeferAfterContext(h)
  <2>1. PICK review : review.route = job[h].route /\ Finish(h, review)
    BY <1>1, ReviewRoutes DEF DeferAfterContext
  <2> QED BY <1>1, <2>1, FinishAckInv DEF DeferAfterContext, ContextSent
<1>2. CASE Dispatch(h)
  <2>1. pc'[h] = "model" /\ OthersUntouched(h)
    BY <1>2 DEF Dispatch, GoTo, TypeOK, OthersUntouched
  <2>2. CacheKeyed' /\ ~Sends(h)'
    BY <1>2, <2>1 DEF Dispatch, AckInv, CacheKeyed, Sends
  <2> QED BY <1>2, <2>1, <2>2, AckInvStep DEF Dispatch, ContextSent, OthersUntouched
<1>3. CASE \E outcome \in Outcomes : ModelReturns(h, outcome)
  <2>1. PICK review : review.route = job[h].route /\ Finish(h, review)
    BY <1>3, ReviewRoutes DEF ModelReturns
  <2> QED BY <1>3, <2>1, FinishAckInv DEF ModelReturns, outside
<1>4. CASE ContextResent(h)
  <2>1. pc'[h] = "sendReview" /\ job' = job /\ OthersUntouched(h)
    BY <1>4 DEF ContextResent, GoTo, TypeOK, OthersUntouched
  <2>2. HoldsOwnReview(h)
    BY <1>4 DEF ContextResent, AckInv, Sends
  <2>3. CacheKeyed' /\ HoldsOwnReview(h)'
    BY <1>4, <2>1, <2>2 DEF ContextResent, caches, AckInv, CacheKeyed, HoldsOwnReview
  <2> QED BY <1>4, <2>1, <2>3, AckInvStep DEF ContextResent, caches, OthersUntouched
<1>5. CASE ReviewSent(h)
  <2>1. pc'[h] = "acking" /\ job' = job /\ OthersUntouched(h)
    BY <1>5 DEF ReviewSent, Return, GoTo, TypeOK, OthersUntouched
  <2>2. HoldsOwnReview(h)
    BY <1>5 DEF ReviewSent, AckInv, Sends
  <2>3. ReviewOut(job[h].route.rid)'
    BY <1>5, <2>1, <2>2 DEF ReviewSent, HoldsOwnReview, ReviewOut
  <2>4. \A rid \in DOMAIN processed' : rid \in DOMAIN processed \/ ReviewOut(rid)'
    <3>1. processed' = Remember(processed, job[h].route.rid, TRUE, CacheSize)
      BY <1>5 DEF ReviewSent
    <3>2. \A rid \in DOMAIN processed' :
            rid \in DOMAIN processed \/ rid = job[h].route.rid
      BY <3>1, CacheSizeType, RememberReads DEF Held
    <3> QED BY <3>2, <2>1, <2>3
  <2>5. CacheKeyed'
    <3>1. reviewCache' = Discard(reviewCache, job[h].route.rid)
      BY <1>5 DEF ReviewSent
    <3>2. \A rid \in DOMAIN reviewCache' :
            rid \in DOMAIN reviewCache /\ ValueOf(reviewCache', rid) = ValueOf(reviewCache, rid)
      BY <3>1, DiscardReads
    <3> QED BY <3>2 DEF AckInv, CacheKeyed
  <2>6. ~Sends(h)'
    BY <2>1 DEF Sends
  <2> QED BY <1>5, <2>1, <2>3, <2>4, <2>5, <2>6, AckInvStep DEF ReviewSent, OthersUntouched
<1>6. CASE Ack(h)
  <2>1. pc'[h] = "idle" /\ OthersUntouched(h)
    BY <1>6 DEF Ack, GoTo, TypeOK, OthersUntouched
  <2>2. ReviewOut(job[h].route.rid)
    BY <1>6 DEF Ack, AckInv
  <2>3. \A r \in acked' : r \in acked \/ ReviewOut(r.rid)'
    BY <1>6, <2>2 DEF Ack, ReviewOut
  <2>4. CacheKeyed' /\ ~Sends(h)'
    BY <1>6, <2>1 DEF Ack, caches, AckInv, CacheKeyed, Sends
  <2> QED BY <1>6, <2>1, <2>3, <2>4, AckInvStep DEF Ack, caches, OthersUntouched
<1> QED BY <1>1, <1>2, <1>3, <1>4, <1>5, <1>6 DEF Succeed

LEMMA FailAckInv ==
    ASSUME TypeOK, AckInv, NEW h \in Handlers, Fail(h) PROVE AckInv'
<1>1. CASE ContextFails(h)
  BY <1>1, RaiseAckInv DEF ContextFails, caches
<1>2. CASE ReviewFails(h)
  BY <1>2, RaiseAckInv DEF ReviewFails, caches
<1>3. CASE AckFails(h)
  <2>1. pc'[h] = "idle" /\ OthersUntouched(h)
    BY <1>3 DEF AckFails, GoTo, TypeOK, OthersUntouched
  <2>2. CacheKeyed' /\ ~Sends(h)'
    BY <1>3, <2>1 DEF AckFails, caches, AckInv, CacheKeyed, Sends
  <2> QED BY <1>3, <2>1, <2>2, AckInvStep DEF AckFails, caches, outside, OthersUntouched
<1>4. CASE AnswerLost(h)
  BY <1>4, RaiseAckInv DEF AnswerLost, caches, outside
<1> QED BY <1>1, <1>2, <1>3, <1>4 DEF Fail

LEMMA ReceiveAckInv ==
    ASSUME TypeOK, AckInv, NEW h \in Handlers, NEW r \in RouteMsgs, Receive(h, r)
    PROVE  AckInv'
<1>1. pc'[h] \in {"admitted", "waiting"} /\ OthersUntouched(h)
  BY DEF Receive, GoTo, TypeOK, OthersUntouched
<1>2. CacheKeyed' /\ ~Sends(h)'
  BY <1>1 DEF Receive, caches, AckInv, CacheKeyed, Sends
<1> QED BY <1>1, <1>2, AckInvStep DEF Receive, caches, outside, OthersUntouched

LEMMA IdleAckInv ==
    ASSUME AckInv, UNCHANGED <<caches, tasks, outside>>
    PROVE  AckInv'
BY DEF AckInv, caches, tasks, outside, ReviewOut, CacheKeyed, Sends, HoldsOwnReview,
       AckedOnlyAfterReview

LEMMA RestartAckInv == ASSUME AckInv, Restart PROVE AckInv'
<1>1. DOMAIN processed' = {} /\ DOMAIN reviewCache' = {}
  BY DEF Restart, NewService, EmptyCache
<1>2. \A h \in Handlers : pc'[h] = "idle"
  BY DEF Restart, NewService
<1>3. AckedOnlyAfterReview'
  BY DEF Restart, NewService, AckInv, AckedOnlyAfterReview
<1> QED BY <1>1, <1>2, <1>3 DEF AckInv, CacheKeyed, Sends

(* Whatever fails, restarts or is evicted, and with any number of handlers *)
(* and any cache size, a route message leaves the stream only after a      *)
(* review of its route has been delivered.                                 *)
THEOREM AcknowledgedAfterReview == Spec => []AckedOnlyAfterReview
<1>1. Init => AckInv
  BY DEF Init, AckInv, AckedOnlyAfterReview, EmptyCache, CacheKeyed, Sends
<1>2. TypeOK /\ AckInv /\ [Next]_vars => AckInv'
  <2> SUFFICES ASSUME TypeOK, AckInv, [Next]_vars PROVE AckInv'
    OBVIOUS
  <2>1. CASE \E h \in Handlers, r \in RouteMsgs : Receive(h, r)
    BY <2>1, ReceiveAckInv
  <2>2. ASSUME NEW h \in Handlers, Proceed(h) \/ Succeed(h) \/ Fail(h) PROVE AckInv'
    BY <2>2, ProceedAckInv, SucceedAckInv, FailAckInv
  <2>3. CASE SourceTask \/ ControlTask \/ Clock
    BY <2>3, IdleAckInv DEF SourceTask, ControlTask, Clock
  <2>4. CASE Restart
    BY <2>4, RestartAckInv
  <2>5. CASE UNCHANGED vars
    BY <2>5, IdleAckInv DEF vars
  <2> QED BY <2>1, <2>2, <2>3, <2>4, <2>5 DEF Next
<1>3. AckInv => AckedOnlyAfterReview
  BY DEF AckInv
<1> QED BY <1>1, <1>2, <1>3, TypeCorrect, PTL DEF Spec
=============================================================================
