-------------------------- MODULE CandidateReview --------------------------
(***************************************************************************)
(* The candidate-review runtime (candidate_service.py, candidate_review.py)*)
(* on top of its evidence store: routes are delivered at least once, one   *)
(* handler at a time holds the route lock, and between two awaits a        *)
(* handler runs alone on the event loop.                                   *)
(*                                                                         *)
(* An optional value is a set of at most one element.  The buses, the      *)
(* model gateway and the clock are the environment: publications, calls    *)
(* and acknowledgements may fail, and a publication that fails may have    *)
(* been delivered.                                                         *)
(***************************************************************************)
EXTENDS CandidateContextStore

CONSTANTS
    RouteMsgs,     \* deliverable route messages: [rid, mid, body]
    Handlers,      \* concurrent calls of _handle_route
    Modes,         \* the SystemMode values control messages carry
    TextScore,     \* sign of calibrated_text_score where material, else 0
    BuildMayFail,  \* whether the context contract may refuse a built context
    MaxRestarts    \* bound on process restarts

Phases == {"idle", "waiting", "admitted", "sendContext", "model",
           "resendContext", "sendReview", "acking"}

Decisions == {"ALLOW", "VETO", "DEFER"}

(* complete() raises, returns an unusable result, or returns a decision;   *)
(* fullAllow is an ALLOW with eight reason codes, as many as the schema    *)
(* admits, none of them the guard's.                                       *)
Outcomes == Decisions \cup {"raised", "invalid", "fullAllow"}

Verdict(outcome) == IF outcome = "fullAllow" THEN "ALLOW" ELSE outcome

Reasons ==
    {"none", "MODEL", "CONFLICT_ALLOW_GUARD", "LLM_FAILURE",
     "SYMBOL_NOT_ALLOWED", "LLM_ROUTE_DISABLED", "CONFLICT_REVIEW_DISABLED",
     "ROUTE_FROM_FUTURE", "REVIEW_DEADLINE_EXCEEDED",
     "DECISION_CONTEXT_EVICTED", "DECISION_CONTEXT_INVALID",
     "DECISION_CONTEXT_IDENTITY_CONFLICT", "DECISION_CONTEXT_FROM_FUTURE",
     "DECISION_CONTEXT_STALE", "CONTEXT_REQUIRED_UNAVAILABLE"}

Mids == {r.mid : r \in RouteMsgs}

Reviews ==
    [route : RouteMsgs, decision : Decisions, reviewer : {"LLM", "DETERMINISTIC"},
     at : Nat, reason : Reasons, context : SUBSET Contexts]

Jobs ==
    [route : RouteMsgs, received : Times, context : SUBSET Contexts,
     reason : Reasons, started : Times, review : SUBSET Reviews]

ASSUME ReviewAssumption ==
    /\ RouteMsgs # {}
    /\ \A r \in RouteMsgs : r.rid \in Rids
    /\ Modes \subseteq STRING
    /\ "NORMAL" \in Modes
    /\ TextScore \in [SUBSET Messages -> -1 .. 1]
    /\ BuildMayFail \in BOOLEAN
    /\ MaxRestarts \in Nat

VARIABLES
    mode,           \* system_mode
    routeDigests,   \* _route_digests: route id -> canonical route
    routeMessages,  \* _route_messages: message id -> canonical route
    routeCutoffs,   \* _route_cutoffs: route id -> first receipt
    contextCache,   \* _context_cache: route id -> frozen context
    processed,      \* _processed_routes
    reviewCache,    \* _review_cache: route id -> review not known to be published
    holder,         \* _route_lock: the handler that holds it, if any
    pc,             \* where each handler is suspended
    job,            \* each handler's local variables
    contextsOut,    \* contexts delivered to DECISION_CONTEXT
    reviewsOut,     \* reviews delivered to CANDIDATE_REVIEW
    acked,          \* route messages the stream will not deliver again
    calls,          \* model calls per route, counted up to MaxCalls
    restarts

identities == <<routeDigests, routeMessages>>
caches     == <<routeCutoffs, contextCache, processed, reviewCache>>
tasks      == <<holder, pc, job>>
outside    == <<contextsOut, reviewsOut, acked, calls, restarts>>
vars       == <<storeVars, mode, identities, caches, tasks, outside>>

IdleJob ==
    [route |-> CHOOSE r \in RouteMsgs : TRUE, received |-> 0, context |-> {},
     reason |-> "none", started |-> 0, review |-> {}]

(* One more than any property allows.                                      *)
MaxCalls == MaxRestarts + 2

(* No handler is between two awaits, so another callback may run.          *)
LoopFree == \A h \in Handlers : pc[h] # "admitted"

Cached(cache, k) == IF Held(cache, k) THEN {ValueOf(cache, k)} ELSE {}

-----------------------------------------------------------------------------
(* Reviews                                                                 *)

(* Fault: the time of a deterministic review is not clamped.               *)
Unclamped(t, rid) == t

Clamped(t, rid) ==
    LET i == Intent[rid]
    IN  IF t < i.routed THEN i.routed ELSE IF t > i.deadline THEN i.deadline ELSE t

Defer(r, t, reason, context) ==
    [route |-> r, decision |-> "DEFER", reviewer |-> "DETERMINISTIC",
     at |-> Clamped(t, r.rid), reason |-> reason, context |-> context]

Opposes(rid, context) ==
    LET text == {o.message : o \in context.sources.text}
    IN  Intent[rid].conflict /\ text # {} /\ TextScore[text] = -Intent[rid].side

(* Fault: a route received before it was routed is admitted.               *)
AdmissionReasonAnyReceipt(rid, received, captured) ==
    IF Intent[rid].symbol \notin TradingSymbols THEN "SYMBOL_NOT_ALLOWED"
    ELSE IF mode = "LOCAL_QUANT_MODE" THEN "LLM_ROUTE_DISABLED"
    ELSE IF captured > Intent[rid].deadline THEN "REVIEW_DEADLINE_EXCEEDED"
    ELSE "none"

(* _review_route, lines 187-200.                                           *)
AdmissionReason(rid, received, captured) ==
    IF Intent[rid].symbol \notin TradingSymbols THEN "SYMBOL_NOT_ALLOWED"
    ELSE IF mode = "LOCAL_QUANT_MODE" THEN "LLM_ROUTE_DISABLED"
    ELSE IF mode = "CONFLICT_SAFE" /\ Intent[rid].conflict THEN "CONFLICT_REVIEW_DISABLED"
    ELSE IF received < Intent[rid].routed THEN "ROUTE_FROM_FUTURE"
    ELSE IF captured > Intent[rid].deadline THEN "REVIEW_DEADLINE_EXCEEDED"
    ELSE "none"

(* _review_prepared before the call.                                       *)
StartReason(context, started) ==
    IF started < Intent[context.rid].routed THEN "ROUTE_FROM_FUTURE"
    ELSE IF started > Intent[context.rid].deadline THEN "REVIEW_DEADLINE_EXCEEDED"
    ELSE IF MissingRequired(context) THEN "CONTEXT_REQUIRED_UNAVAILABLE"
    ELSE IF context.captured > started THEN "DECISION_CONTEXT_FROM_FUTURE"
    ELSE IF StaleAt(context, started) THEN "DECISION_CONTEXT_STALE"
    ELSE "none"

(* Fault: an unusable result is taken for a verdict.                       *)
FinishReasonUnparsed(context, started, finished, outcome) ==
    IF outcome = "raised" THEN "LLM_FAILURE"
    ELSE IF finished > Intent[context.rid].deadline THEN "REVIEW_DEADLINE_EXCEEDED"
    ELSE "none"

(* _review_prepared after the call: why the result is not used.            *)
FinishReason(context, started, finished, outcome) ==
    IF outcome = "raised" THEN "LLM_FAILURE"
    ELSE IF finished > Intent[context.rid].deadline THEN "REVIEW_DEADLINE_EXCEEDED"
    ELSE IF finished < started \/ StaleAt(context, finished) THEN "DECISION_CONTEXT_STALE"
    ELSE IF outcome = "invalid" THEN "LLM_FAILURE"
    ELSE "none"

(* Fault: an opposed ALLOW passes.                                         *)
ModelReviewUnguarded(r, context, started, finished, outcome) ==
    LET reason == FinishReason(context, started, finished, outcome)
    IN  IF reason # "none" THEN Defer(r, finished, reason, {context})
        ELSE [route |-> r, decision |-> Verdict(outcome), reviewer |-> "LLM",
              at |-> finished, reason |-> "MODEL", context |-> {context}]

(* The guard adds its code to those of an ALLOW and builds the output      *)
(* again, outside the try: a ninth code is a ValidationError.              *)
GuardRaises(context, started, finished, outcome) ==
    /\ FinishReason(context, started, finished, outcome) = "none"
    /\ outcome = "fullAllow" /\ Opposes(context.rid, context)

ModelReview(r, context, started, finished, outcome) ==
    LET reason  == FinishReason(context, started, finished, outcome)
        guarded == Verdict(outcome) = "ALLOW" /\ Opposes(r.rid, context)
    IN  IF reason # "none" THEN Defer(r, finished, reason, {context})
        ELSE [route |-> r, decision |-> IF guarded THEN "DEFER" ELSE Verdict(outcome),
              reviewer |-> "LLM", at |-> finished,
              reason |-> IF guarded THEN "CONFLICT_ALLOW_GUARD" ELSE "MODEL",
              context |-> {context}]

(* Fault: no integrity check after the model's answer.                     *)
Unsealed(review) == review

(* The integrity check after the review is made, lines 236-243.            *)
Sealed(review) ==
    IF \E c \in review.context : IntegrityError(c)
    THEN Defer(review.route, now, "DECISION_CONTEXT_IDENTITY_CONFLICT", review.context)
    ELSE review

-----------------------------------------------------------------------------
(* Handler steps                                                           *)

GoTo(h, phase) == pc' = [pc EXCEPT ![h] = phase]

(* Fault: the lock outlives the handler.                                   *)
ReturnLocked(h) == GoTo(h, "acking") /\ UNCHANGED <<holder, job>>

(* The handler returns or raises: the lock is released.                    *)
Return(h) ==
    /\ holder' = {} /\ GoTo(h, "acking") /\ UNCHANGED job

(* Fault: the envelope is acknowledged although its handler raised.        *)
RaiseIntoAck(h) ==
    /\ holder' = {} /\ GoTo(h, "acking") /\ UNCHANGED job

Raise(h) ==
    /\ holder' = {} /\ GoTo(h, "idle") /\ job' = [job EXCEPT ![h] = IdleJob]

(* An envelope arrives; its receipt is clocked before the lock.            *)
Receive(h, r) ==
    /\ LoopFree
    /\ pc[h] = "idle"
    /\ r \notin acked
    /\ job' = [job EXCEPT ![h] = [IdleJob EXCEPT !.route = r, !.received = now]]
    /\ IF holder = {} /\ \A g \in Handlers : pc[g] # "waiting"
       THEN holder' = {h} /\ GoTo(h, "admitted")
       ELSE GoTo(h, "waiting") /\ UNCHANGED holder
    /\ UNCHANGED <<storeVars, mode, identities, caches, outside>>

Wake(h) ==
    /\ LoopFree
    /\ pc[h] = "waiting"
    /\ holder = {}
    /\ holder' = {h} /\ GoTo(h, "admitted")
    /\ UNCHANGED <<storeVars, mode, identities, caches, job, outside>>

Reused(r) ==
    \/ Held(routeDigests, r.rid) /\ ValueOf(routeDigests, r.rid) # r
    \/ Held(routeMessages, r.mid) /\ ValueOf(routeMessages, r.mid) # r

RejectReused(h) ==
    /\ pc[h] = "admitted"
    /\ Reused(job[h].route)
    /\ Raise(h)
    /\ UNCHANGED <<storeVars, mode, identities, caches, outside>>

(* The route is the holder's, its identity is remembered, and it is not    *)
(* known to be processed: the rest of _review_route.                       *)
RememberIdentity(h) ==
    /\ pc[h] = "admitted"
    /\ ~Reused(job[h].route)
    /\ routeDigests' = Remember(routeDigests, job[h].route.rid, job[h].route, CacheSize)
    /\ routeMessages' = Remember(routeMessages, job[h].route.mid, job[h].route, CacheSize)

SkipProcessed(h) ==
    /\ RememberIdentity(h)
    /\ Held(processed, job[h].route.rid)
    /\ Return(h)
    /\ UNCHANGED <<storeVars, mode, caches, outside>>

LostContext(rid) ==
    /\ ~Held(contextCache, rid)
    /\ ValueOf(reviewCache, rid).context # {}

ContextConflict(rid) ==
    Held(contextCache, rid) /\ IntegrityError(ValueOf(contextCache, rid))

HasCachedReview(h) ==
    /\ RememberIdentity(h)
    /\ ~Held(processed, job[h].route.rid)
    /\ Held(reviewCache, job[h].route.rid)

RefuseCached(h) ==
    /\ HasCachedReview(h)
    /\ LostContext(job[h].route.rid) \/ ContextConflict(job[h].route.rid)
    /\ Raise(h)
    /\ UNCHANGED <<storeVars, mode, caches, outside>>

ResendCached(h) ==
    LET rid == job[h].route.rid
        context == Cached(contextCache, rid)
    IN  /\ HasCachedReview(h)
        /\ ~LostContext(rid) /\ ~ContextConflict(rid)
        /\ job' = [job EXCEPT ![h].review = {ValueOf(reviewCache, rid)},
                              ![h].context = context]
        /\ GoTo(h, IF context = {} THEN "sendReview" ELSE "resendContext")
        /\ UNCHANGED <<storeVars, mode, caches, holder, outside>>

(* Fault: the review is remembered only once it is published.              *)
FinishUncached(h, review) ==
    /\ job' = [job EXCEPT ![h].review = {review}]
    /\ GoTo(h, "sendReview")
    /\ UNCHANGED <<holder, processed, reviewCache>>

(* The review is remembered, then its publication starts.                  *)
Finish(h, review) ==
    /\ reviewCache' = Remember(reviewCache, review.route.rid, review, CacheSize)
    /\ job' = [job EXCEPT ![h].review = {review}]
    /\ GoTo(h, "sendReview")
    /\ UNCHANGED <<holder, processed>>

(* Fault: a cached review does not stop a retry from reviewing again.      *)
BeginsAnew(h) ==
    /\ RememberIdentity(h)
    /\ ~Held(processed, job[h].route.rid)

(* A route without a cached review, at line 187.                           *)
Begins(h) ==
    /\ RememberIdentity(h)
    /\ ~Held(processed, job[h].route.rid)
    /\ ~Held(reviewCache, job[h].route.rid)

BeginReason(h) == AdmissionReason(job[h].route.rid, job[h].received, now)

DeferUnseen(h) ==
    LET r == job[h].route
        reason == IF BeginReason(h) # "none" THEN BeginReason(h)
                  ELSE "DECISION_CONTEXT_EVICTED"
    IN  /\ Begins(h)
        /\ ~Held(contextCache, r.rid)
        /\ BeginReason(h) # "none" \/ Held(routeCutoffs, r.rid)
        /\ Finish(h, Defer(r, job[h].received, reason, {}))
        /\ UNCHANGED <<storeVars, mode, routeCutoffs, contextCache, outside>>

(* Fault: a retry captures as if it were the first attempt.                *)
AlwaysUnseen(rid) == TRUE

Unseen(rid) == ~Held(contextCache, rid) /\ ~Held(routeCutoffs, rid)

(* The evidence cut is frozen, or the contract refuses it.                 *)
Capture(h) ==
    LET r == job[h].route
        context == Build(r.rid, job[h].received, now)
    IN  /\ Begins(h)
        /\ BeginReason(h) = "none"
        /\ Unseen(r.rid)
        /\ routeCutoffs' = Remember(routeCutoffs, r.rid, job[h].received, CacheSize)
        /\ \/ /\ contextCache' = Remember(contextCache, r.rid, context, CacheSize)
              /\ job' = [job EXCEPT ![h].context = {context}]
              /\ GoTo(h, "sendContext")
              /\ UNCHANGED <<holder, processed, reviewCache>>
           \/ /\ BuildMayFail
              /\ Finish(h, Defer(r, job[h].received, "DECISION_CONTEXT_INVALID", {}))
              /\ UNCHANGED contextCache
        /\ UNCHANGED <<storeVars, mode, outside>>

(* A retry with its frozen context.                                        *)
Recapture(h) ==
    LET rid == job[h].route.rid
    IN  /\ Begins(h)
        /\ Held(contextCache, rid)
        /\ job' = [job EXCEPT ![h].context = {ValueOf(contextCache, rid)},
                              ![h].reason = BeginReason(h)]
        /\ GoTo(h, "sendContext")
        /\ UNCHANGED <<storeVars, mode, caches, holder, outside>>

-----------------------------------------------------------------------------
(* The context is published: defer, or call the model                      *)

ReasonAfterContext(h, context) ==
    IF IntegrityError(context) THEN "DECISION_CONTEXT_IDENTITY_CONFLICT"
    ELSE job[h].reason

ContextSent(h) ==
    /\ LoopFree
    /\ pc[h] = "sendContext"
    /\ contextsOut' = contextsOut \cup job[h].context
    /\ UNCHANGED <<storeVars, mode, identities, routeCutoffs, contextCache,
                   reviewsOut, acked, restarts>>

DeferAfterContext(h) ==
    \E context \in job[h].context :
      LET given == ReasonAfterContext(h, context)
          start == StartReason(context, now)
      IN  /\ ContextSent(h)
          /\ \/ given # "none"
                /\ Finish(h, Sealed(Defer(job[h].route, job[h].received, given, {context})))
             \/ given = "none" /\ start # "none"
                /\ Finish(h, Sealed(Defer(job[h].route, now, start, {context})))
          /\ UNCHANGED calls

Dispatch(h) ==
    \E context \in job[h].context :
      /\ ContextSent(h)
      /\ ReasonAfterContext(h, context) = "none"
      /\ StartReason(context, now) = "none"
      /\ job' = [job EXCEPT ![h].started = now]
      /\ GoTo(h, "model")
      /\ calls' = [calls EXCEPT ![job[h].route.rid] = IF @ < MaxCalls THEN @ + 1 ELSE @]
      /\ UNCHANGED <<holder, processed, reviewCache>>

ModelReturns(h, outcome) ==
    \E context \in job[h].context :
      /\ LoopFree
      /\ pc[h] = "model"
      /\ ~GuardRaises(context, job[h].started, now, outcome)
      /\ Finish(h, Sealed(ModelReview(job[h].route, context, job[h].started, now, outcome)))
      /\ UNCHANGED <<storeVars, mode, identities, routeCutoffs, contextCache, outside>>

(* The answer is lost after it was paid for: no review is remembered, and  *)
(* the next delivery of the route finds its frozen context and asks again. *)
AnswerLost(h) ==
    \E context \in job[h].context, outcome \in Outcomes :
      /\ LoopFree
      /\ pc[h] = "model"
      /\ GuardRaises(context, job[h].started, now, outcome)
      /\ Raise(h)
      /\ UNCHANGED <<storeVars, mode, identities, caches, outside>>

-----------------------------------------------------------------------------
(* Publication and acknowledgement                                         *)

ContextResent(h) ==
    /\ LoopFree
    /\ pc[h] = "resendContext"
    /\ contextsOut' = contextsOut \cup job[h].context
    /\ GoTo(h, "sendReview")
    /\ UNCHANGED <<storeVars, mode, identities, caches, holder, job,
                   reviewsOut, acked, calls, restarts>>

ReviewSent(h) ==
    /\ LoopFree
    /\ pc[h] = "sendReview"
    /\ reviewsOut' = reviewsOut \cup job[h].review
    /\ processed' = Remember(processed, job[h].route.rid, TRUE, CacheSize)
    /\ reviewCache' = Discard(reviewCache, job[h].route.rid)
    /\ Return(h)
    /\ UNCHANGED <<storeVars, mode, identities, routeCutoffs, contextCache,
                   contextsOut, acked, calls, restarts>>

(* A publication raises; the broker may have the message all the same.     *)
ContextFails(h) ==
    /\ LoopFree
    /\ pc[h] \in {"sendContext", "resendContext"}
    /\ contextsOut' \in {contextsOut, contextsOut \cup job[h].context}
    /\ Raise(h)
    /\ UNCHANGED <<storeVars, mode, identities, caches, reviewsOut, acked, calls, restarts>>

ReviewFails(h) ==
    /\ LoopFree
    /\ pc[h] = "sendReview"
    /\ reviewsOut' \in {reviewsOut, reviewsOut \cup job[h].review}
    /\ Raise(h)
    /\ UNCHANGED <<storeVars, mode, identities, caches, contextsOut, acked, calls, restarts>>

Ack(h) ==
    /\ LoopFree
    /\ pc[h] = "acking"
    /\ acked' = acked \cup {job[h].route}
    /\ GoTo(h, "idle") /\ job' = [job EXCEPT ![h] = IdleJob]
    /\ UNCHANGED <<storeVars, mode, identities, caches, holder,
                   contextsOut, reviewsOut, calls, restarts>>

AckFails(h) ==
    /\ LoopFree
    /\ pc[h] = "acking"
    /\ GoTo(h, "idle") /\ job' = [job EXCEPT ![h] = IdleJob]
    /\ UNCHANGED <<storeVars, mode, identities, caches, holder, outside>>

-----------------------------------------------------------------------------
(* The other tasks, the clock and restarts                                 *)

SourceTask ==
    /\ LoopFree
    /\ \E m \in Messages : Ingest(m)
    /\ UNCHANGED <<mode, identities, caches, tasks, outside>>

ControlTask ==
    /\ LoopFree
    /\ mode' \in Modes
    /\ UNCHANGED <<storeVars, identities, caches, tasks, outside>>

Clock == Tick /\ UNCHANGED <<mode, identities, caches, tasks, outside>>

(* A service object is made: what the old one held in memory is gone.      *)
NewService ==
    /\ mode' = "NORMAL"
    /\ entries' = EmptyCache /\ digests' = EmptyCache /\ barSlots' = EmptyCache
    /\ quarantined' = {}
    /\ routeDigests' = EmptyCache /\ routeMessages' = EmptyCache
    /\ routeCutoffs' = EmptyCache /\ contextCache' = EmptyCache
    /\ processed' = EmptyCache /\ reviewCache' = EmptyCache
    /\ holder' = {}
    /\ pc' = [h \in Handlers |-> "idle"]
    /\ job' = [h \in Handlers |-> IdleJob]

(* The process dies between two awaits and is started again.               *)
Restart ==
    /\ restarts < MaxRestarts
    /\ restarts' = restarts + 1
    /\ NewService
    /\ UNCHANGED <<now, contextsOut, reviewsOut, acked, calls>>

Init ==
    /\ StoreInit
    /\ mode = "NORMAL"
    /\ routeDigests = EmptyCache /\ routeMessages = EmptyCache
    /\ routeCutoffs = EmptyCache /\ contextCache = EmptyCache
    /\ processed = EmptyCache /\ reviewCache = EmptyCache
    /\ holder = {}
    /\ pc = [h \in Handlers |-> "idle"]
    /\ job = [h \in Handlers |-> IdleJob]
    /\ contextsOut = {} /\ reviewsOut = {} /\ acked = {}
    /\ calls = [rid \in Rids |-> 0]
    /\ restarts = 0

(* What a handler does by itself once an envelope is in its hands.         *)
Proceed(h) ==
    \/ Wake(h) \/ RejectReused(h) \/ SkipProcessed(h)
    \/ RefuseCached(h) \/ ResendCached(h)
    \/ DeferUnseen(h) \/ Capture(h) \/ Recapture(h)

Succeed(h) ==
    \/ DeferAfterContext(h) \/ Dispatch(h)
    \/ \E outcome \in Outcomes : ModelReturns(h, outcome)
    \/ ContextResent(h) \/ ReviewSent(h) \/ Ack(h)

Fail(h) == AnswerLost(h) \/ ContextFails(h) \/ ReviewFails(h) \/ AckFails(h)

Next ==
    \/ \E h \in Handlers, r \in RouteMsgs : Receive(h, r)
    \/ \E h \in Handlers : Proceed(h) \/ Succeed(h) \/ Fail(h)
    \/ SourceTask \/ ControlTask \/ Clock \/ Restart

Spec == Init /\ [][Next]_vars

-----------------------------------------------------------------------------
(* Properties                                                              *)

TypeOK ==
    /\ StoreTypeOK
    /\ mode \in Modes
    /\ IsCache(routeDigests, Rids, RouteMsgs, CacheSize)
    /\ IsCache(routeMessages, Mids, RouteMsgs, CacheSize)
    /\ IsCache(routeCutoffs, Rids, Times, CacheSize)
    /\ IsCache(contextCache, Rids, Contexts, CacheSize)
    /\ IsCache(processed, Rids, {TRUE}, CacheSize)
    /\ IsCache(reviewCache, Rids, Reviews, CacheSize)
    /\ holder \subseteq Handlers
    /\ pc \in [Handlers -> Phases]
    /\ job \in [Handlers -> Jobs]
    /\ contextsOut \subseteq Contexts
    /\ reviewsOut \subseteq Reviews
    /\ acked \subseteq RouteMsgs
    /\ calls \in [Rids -> 0 .. MaxCalls]
    /\ restarts \in 0 .. MaxRestarts

(* A route message leaves the stream only when a review of its route has   *)
(* been delivered, whatever fails, restarts or is evicted in between.      *)
AckedOnlyAfterReview ==
    \A r \in acked : \E x \in reviewsOut : x.route.rid = r.rid

(* Nothing received, produced or observed after the cut.                   *)
Causal(c) ==
    /\ Intent[c.rid].routed <= c.cutoff
    /\ \A k \in Kinds : \A o \in c.sources[k] :
         /\ o.received <= c.cutoff /\ o.message.produced <= c.cutoff
         /\ o.message.event <= IF k = "closed_bars" THEN Intent[c.rid].decided
                               ELSE Intent[c.rid].routed

Grounded(x) ==
    x.reviewer = "LLM" =>
      \E c \in x.context \cap contextsOut :
        /\ c.rid = x.route.rid
        /\ Causal(c) /\ ~MissingRequired(c)
        /\ c.captured <= x.at /\ ~StaleAt(c, x.at)
        /\ x.decision = "ALLOW" => ~Opposes(c.rid, c)

InWindow(x) == x.at \in Intent[x.route.rid].routed .. Intent[x.route.rid].deadline

(* A model verdict that reaches the bus stands on a context that was       *)
(* delivered before it: the route's own, with every required source, with  *)
(* nothing received, produced or observed after the cut, nothing that had  *)
(* expired when the review was made; and an ALLOW is not opposed by it.    *)
ReviewsGrounded == \A x \in reviewsOut : Grounded(x)

(* Every review delivered is dated inside its route's window, even when    *)
(* the clock is set back while a handler waits.                            *)
ReviewInWindow == \A x \in reviewsOut : InWindow(x)

(* What a process cuts, pays for and publishes of one route it keeps in    *)
(* memory only, so each life of the process has one of each, and no more:  *)
(* no interleaving of redeliveries, failures and restarts adds another.    *)
OnePerLife(things) == Cardinality(things) <= restarts + 1

(* At most one evidence cut of a route is published in a life: no retry    *)
(* builds another one, whatever arrived in between.                        *)
EvidenceCutFrozen ==
    \A rid \in Rids : OnePerLife({c \in contextsOut : c.rid = rid})

(* A published cut opposes the route: an ALLOW of it meets the guard.      *)
Opposed(rid) == \E c \in contextsOut : c.rid = rid /\ Opposes(rid, c)

(* No retry and no concurrent delivery pays for a second call in a life,   *)
(* whatever the model answers and whatever fails, except for a route whose *)
(* published evidence opposes it, where the guard may lose the answer.     *)
SecondCallOnlyIfOpposed ==
    \A rid \in Rids : calls[rid] <= restarts + 1 \/ Opposed(rid)

(* src/README.md: malformed output, provider errors and the like           *)
(* "terminate the current intent as deterministic DEFER without an         *)
(* automatic second call".  An opposed ALLOW with eight reason codes       *)
(* raises in the guard, and the redelivered route is paid for again.       *)
NoSecondCall == \A rid \in Rids : calls[rid] <= restarts + 1

(* All deliveries of a route's review in a life are one review, also when  *)
(* another message uses the identity of the route.                         *)
OneReviewPerRoute ==
    \A rid \in Rids : OnePerLife({x \in reviewsOut : x.route.rid = rid})

StartsSending(h) == pc[h] # "sendReview" /\ pc'[h] = "sendReview"

SendsOverConflict(h) ==
    \E x \in job'[h].review : x.reviewer = "LLM" /\ \E c \in x.context : IntegrityError(c)

(* A model verdict whose context has a conflicting source by the time the  *)
(* model answers is not sent.                                              *)
NewReviewNotOverConflict ==
    [][\A h \in Handlers :
         StartsSending(h) /\ pc[h] = "model" => ~SendsOverConflict(h)]_vars

(* docs/DECISION-CONTEXT-v1.md: "A newly known source identity conflict    *)
(* prevents cached review republication".  The check comes before the      *)
(* context is published again, the review goes out after it.               *)
CachedReviewNotOverConflict ==
    [][\A h \in Handlers :
         StartsSending(h) /\ pc[h] = "resendContext" => ~SendsOverConflict(h)]_vars

-----------------------------------------------------------------------------
(* Liveness                                                                *)

(* asyncio runs every ready callback; a gateway call ends, somehow; time   *)
(* passes; a publication or an acknowledgement that is tried again and     *)
(* again succeeds once; an envelope that is not acknowledged is delivered  *)
(* again.                                                                  *)
Fairness ==
    /\ \A h \in Handlers :
         /\ WF_vars(Proceed(h))
         /\ WF_vars(AnswerLost(h) \/ \E outcome \in Outcomes : ModelReturns(h, outcome))
         /\ SF_vars(DeferAfterContext(h) \/ Dispatch(h))
         /\ SF_vars(ContextResent(h))
         /\ SF_vars(ReviewSent(h))
         /\ SF_vars(Ack(h))
    /\ \A r \in RouteMsgs : SF_vars(\E h \in Handlers : Receive(h, r))
    /\ WF_vars(Clock)

FairSpec == Spec /\ Fairness

(* The cached review of a route may not be sent: its context conflicts     *)
(* with a source known since.                                              *)
Blocked(rid) == Held(reviewCache, rid) /\ ContextConflict(rid)

(* "Terminate the current intent": every route message is acknowledged in  *)
(* the end, or its review is withheld because its context has a            *)
(* conflicting source.  Answers that the guard loses put it off until the  *)
(* deadline at most.  For routes whose identities are not reused.          *)
EveryRouteSettles ==
    \A r \in RouteMsgs : <>(r \in acked \/ Blocked(r.rid))
=============================================================================
