------------------------ MODULE CandidateEvidenceProofs ------------------------
(***************************************************************************)
(* Every model verdict stands on a delivered, causal, complete and fresh   *)
(* evidence cut, and every review is dated inside its route's window: for  *)
(* every cache size, any number of handlers and restarts, and a clock that *)
(* may be set back.                                                        *)
(***************************************************************************)
EXTENDS CandidateReviewProofs

Sound(x) == Grounded(x) /\ InWindow(x)

(* The one context in a handler's hands belongs to its route and is        *)
(* causal; while the model is asked it has been delivered, and it was      *)
(* complete and fresh when the call started.                               *)
HoldsCausal(h) ==
    pc[h] \in {"sendContext", "model"} =>
      \A c \in job[h].context :
        job[h].context = {c} /\ c.rid = job[h].route.rid /\ Causal(c)

AskedSoundly(h) ==
    pc[h] = "model" =>
      \A c \in job[h].context :
        c \in contextsOut /\ StartReason(c, job[h].started) = "none"

SendsSound(h) == Sends(h) => \A x \in job[h].review : Sound(x)

CutsCausal ==
    \A rid \in DOMAIN contextCache :
      ValueOf(contextCache, rid).rid = rid /\ Causal(ValueOf(contextCache, rid))

CacheSound == \A rid \in DOMAIN reviewCache : Sound(ValueOf(reviewCache, rid))

EvidenceInv ==
    /\ CutsCausal
    /\ CacheSound
    /\ \A h \in Handlers : HoldsCausal(h) /\ AskedSoundly(h) /\ SendsSound(h)
    /\ \A x \in reviewsOut : Sound(x)

-----------------------------------------------------------------------------
(* What each way of making a review gives                                  *)

LEMMA SoundStays ==
    ASSUME contextsOut \subseteq contextsOut' PROVE \A x : Sound(x) => Sound(x)'
BY DEF Sound, Grounded, InWindow

LEMMA BuildCausal ==
    ASSUME NEW rid \in Rids, NEW cutoff, NEW captured, Intent[rid].routed <= cutoff
    PROVE  /\ Build(rid, cutoff, captured).rid = rid
           /\ Causal(Build(rid, cutoff, captured))
<1> DEFINE c == Build(rid, cutoff, captured)
<1>1. c.rid = rid /\ c.cutoff = cutoff
  BY DEF Build
<1>2. \A kind : \A o \in Snapshot(kind, rid, cutoff, captured) :
        Eligible(o, Intent[rid].routed, cutoff, captured)
  BY DEF Snapshot
<1>3. \A o \in ClosedBars(rid, cutoff, captured) :
        Eligible(o, Intent[rid].decided, cutoff, captured)
  BY DEF ClosedBars
<1>4. \A o \in CitedText(rid, cutoff, captured) :
        Eligible(o, Intent[rid].routed, cutoff, captured)
  BY DEF CitedText
<1>5. \A k \in Kinds : \A o \in c.sources[k] :
        Eligible(o, IF k = "closed_bars" THEN Intent[rid].decided ELSE Intent[rid].routed,
                 cutoff, captured)
  BY <1>2, <1>3, <1>4 DEF Build, Kinds
<1> QED BY <1>1, <1>5 DEF Causal, Eligible

LEMMA DeferSound ==
    ASSUME NEW r \in RouteMsgs, NEW t \in Times, NEW reason, NEW context
    PROVE  Sound(Defer(r, t, reason, context))
<1>1. Clamped(t, r.rid) \in Intent[r.rid].routed .. Intent[r.rid].deadline
  BY RouteMsgType, TimesType, ClampedType
<1> QED BY <1>1 DEF Defer, Sound, Grounded, InWindow

LEMMA ModelReviewSound ==
    ASSUME NEW r \in RouteMsgs, NEW c \in contextsOut, NEW started \in Times,
           NEW finished \in Times, NEW outcome \in Outcomes, contextsOut \subseteq Contexts,
           c.rid = r.rid, Causal(c), StartReason(c, started) = "none"
    PROVE  Sound(ModelReview(r, c, started, finished, outcome))
<1> DEFINE reason == FinishReason(c, started, finished, outcome)
           x == ModelReview(r, c, started, finished, outcome)
<1>1. CASE reason # "none"
  BY <1>1, DeferSound DEF ModelReview
<1>2. CASE reason = "none"
  <2>1. /\ x.route = r /\ x.at = finished /\ x.context = {c}
        /\ x.decision = "ALLOW" => ~Opposes(r.rid, c)
    BY <1>2 DEF ModelReview, Verdict
  <2>2. /\ finished \in Nat /\ started \in Nat /\ c.captured \in Nat
        /\ Intent[r.rid].routed \in Nat /\ Intent[r.rid].deadline \in Nat
    BY TimesType, RouteType, RouteMsgType DEF Contexts
  <2>3. /\ Intent[r.rid].routed <= started /\ c.captured <= started
        /\ ~MissingRequired(c)
    BY <2>2 DEF StartReason
  <2>4. started <= finished /\ finished <= Intent[r.rid].deadline /\ ~StaleAt(c, finished)
    BY <1>2, <2>2 DEF FinishReason
  <2>5. Intent[r.rid].routed <= finished /\ c.captured <= finished
    BY <2>2, <2>3, <2>4
  <2>6. InWindow(x)
    BY <2>1, <2>2, <2>4, <2>5 DEF InWindow
  <2>7. Grounded(x)
    BY <2>1, <2>3, <2>4, <2>5 DEF Grounded
  <2> QED BY <2>6, <2>7 DEF Sound
<1> QED BY <1>1, <1>2

LEMMA SealedSound ==
    ASSUME NEW review, review.route \in RouteMsgs, now \in Times, Sound(review)
    PROVE  Sound(Sealed(review))
BY DeferSound DEF Sealed

-----------------------------------------------------------------------------
(* The invariant is inductive                                              *)

LEMMA EvidenceStep ==
    ASSUME EvidenceInv, NEW h \in Handlers,
           contextsOut \subseteq contextsOut',
           CutsCausal', CacheSound',
           OthersUntouched(h),
           HoldsCausal(h)', AskedSoundly(h)', SendsSound(h)',
           \A x \in reviewsOut' : x \in reviewsOut \/ Sound(x)'
    PROVE  EvidenceInv'
<1>1. \A x : Sound(x) => Sound(x)'
  BY SoundStays
<1>2. ASSUME NEW g \in Handlers PROVE HoldsCausal(g)' /\ AskedSoundly(g)' /\ SendsSound(g)'
  <2>1. CASE g = h
    BY <2>1
  <2>2. CASE g # h
    <3>1. pc'[g] = pc[g] /\ job'[g] = job[g]
      BY <2>2 DEF OthersUntouched
    <3>2. HoldsCausal(g)'
      BY <3>1 DEF EvidenceInv, HoldsCausal, Causal
    <3>3. AskedSoundly(g)'
      BY <3>1 DEF EvidenceInv, AskedSoundly
    <3>4. SendsSound(g)'
      BY <3>1, <1>1 DEF EvidenceInv, SendsSound, Sends
    <3> QED BY <3>2, <3>3, <3>4
  <2> QED BY <2>1, <2>2
<1>3. \A x \in reviewsOut' : Sound(x)'
  BY <1>1 DEF EvidenceInv
<1> QED BY <1>2, <1>3 DEF EvidenceInv

LEMMA KeptSound ==
    ASSUME EvidenceInv, contextsOut \subseteq contextsOut'
    PROVE  /\ contextCache' = contextCache => CutsCausal'
           /\ reviewCache' = reviewCache => CacheSound'
BY SoundStays DEF EvidenceInv, CutsCausal, CacheSound, Causal

LEMMA FinishEvidence ==
    ASSUME TypeOK, EvidenceInv, NEW h \in Handlers, NEW review, Finish(h, review),
           Sound(review)', contextsOut \subseteq contextsOut', CutsCausal',
           reviewsOut' = reviewsOut
    PROVE  EvidenceInv'
<1>1. /\ pc' = [pc EXCEPT ![h] = "sendReview"]
      /\ job' = [job EXCEPT ![h].review = {review}]
      /\ reviewCache' = Remember(reviewCache, review.route.rid, review, CacheSize)
  BY DEF Finish, GoTo
<1>2. /\ pc'[h] = "sendReview" /\ job'[h].review = {review}
      /\ OthersUntouched(h)
  BY <1>1 DEF TypeOK, Jobs, OthersUntouched
<1>3. CacheSound'
  <2>1. \A rid \in DOMAIN reviewCache' :
          \/ ValueOf(reviewCache', rid) = review
          \/ rid \in DOMAIN reviewCache /\ ValueOf(reviewCache', rid) = ValueOf(reviewCache, rid)
    BY <1>1, CacheSizeType, RememberReads DEF Held
  <2> QED BY <2>1, SoundStays DEF EvidenceInv, CacheSound
<1>4. HoldsCausal(h)' /\ AskedSoundly(h)'
  BY <1>2 DEF HoldsCausal, AskedSoundly
<1>5. SendsSound(h)'
  BY <1>2 DEF SendsSound
<1> QED BY <1>2, <1>3, <1>4, <1>5, EvidenceStep

(* A step after which the handler holds nothing the invariant is about.    *)
LEMMA QuietEvidence ==
    ASSUME TypeOK, EvidenceInv, NEW h \in Handlers, OthersUntouched(h),
           pc'[h] \in {"idle", "waiting", "admitted", "acking"},
           contextsOut \subseteq contextsOut',
           contextCache' = contextCache, CacheSound',
           \A x \in reviewsOut' : x \in reviewsOut \/ Sound(x)'
    PROVE  EvidenceInv'
<1>1. HoldsCausal(h)' /\ AskedSoundly(h)' /\ SendsSound(h)'
  BY DEF HoldsCausal, AskedSoundly, SendsSound, Sends
<1> QED BY <1>1, KeptSound, EvidenceStep

LEMMA RefusalEvidence ==
    ASSUME TypeOK, EvidenceInv, NEW h \in Handlers,
           Wake(h) \/ RejectReused(h) \/ SkipProcessed(h) \/ RefuseCached(h)
    PROVE  EvidenceInv'
<1>1. pc'[h] \in {"idle", "admitted", "acking"} /\ OthersUntouched(h)
  BY DEF Wake, RejectReused, SkipProcessed, RefuseCached, Return, Raise, GoTo,
         TypeOK, OthersUntouched
<1>2. UNCHANGED <<caches, outside>>
  BY DEF Wake, RejectReused, SkipProcessed, RefuseCached
<1>3. /\ contextsOut' = contextsOut /\ reviewsOut' = reviewsOut
      /\ contextCache' = contextCache /\ reviewCache' = reviewCache
  BY <1>2 DEF caches, outside
<1>4. CacheSound'
  BY <1>3, KeptSound
<1> QED BY <1>1, <1>3, <1>4, QuietEvidence

LEMMA ResendEvidence ==
    ASSUME TypeOK, EvidenceInv, NEW h \in Handlers, ResendCached(h) PROVE EvidenceInv'
<1> DEFINE rid == job[h].route.rid
<1>1. PICK x : x = ValueOf(reviewCache, rid)
  OBVIOUS
<1>2. Sound(x)
  BY <1>1 DEF ResendCached, HasCachedReview, Held, EvidenceInv, CacheSound
<1>3. /\ pc'[h] \in {"resendContext", "sendReview"} /\ job'[h].review = {x}
      /\ OthersUntouched(h)
  BY <1>1 DEF ResendCached, GoTo, TypeOK, Jobs, OthersUntouched
<1>4. UNCHANGED <<contextCache, reviewCache, contextsOut, reviewsOut>>
  BY DEF ResendCached, caches, outside
<1>5. CutsCausal' /\ CacheSound'
  BY <1>4, KeptSound
<1>6. SendsSound(h)'
  BY <1>2, <1>3, <1>4, SoundStays DEF SendsSound
<1>7. HoldsCausal(h)' /\ AskedSoundly(h)'
  BY <1>3 DEF HoldsCausal, AskedSoundly
<1> QED BY <1>3, <1>4, <1>5, <1>6, <1>7, EvidenceStep

LEMMA DeferUnseenEvidence ==
    ASSUME TypeOK, EvidenceInv, NEW h \in Handlers, DeferUnseen(h) PROVE EvidenceInv'
<1>1. PICK reason : Finish(h, Defer(job[h].route, job[h].received, reason, {}))
  BY DEF DeferUnseen
<1>2. UNCHANGED <<contextCache, contextsOut, reviewsOut>>
  BY DEF DeferUnseen, outside
<1>3. Sound(Defer(job[h].route, job[h].received, reason, {}))
  BY JobType, DeferSound
<1>4. PICK review : /\ review = Defer(job[h].route, job[h].received, reason, {})
                    /\ Finish(h, review) /\ Sound(review)
  BY <1>1, <1>3
<1>5. Sound(review)' /\ CutsCausal'
  BY <1>2, <1>4, SoundStays, KeptSound
<1> QED BY <1>2, <1>4, <1>5, FinishEvidence

(* A route is admitted only if it was received after it was routed.        *)
LEMMA AdmittedInTime ==
    ASSUME TypeOK, NEW h \in Handlers, BeginReason(h) = "none"
    PROVE  Intent[job[h].route.rid].routed <= job[h].received
<1>1. /\ Intent[job[h].route.rid].routed \in Nat /\ job[h].received \in Nat
  BY JobType, RouteType, TimesType
<1> QED BY <1>1 DEF BeginReason, AdmissionReason

LEMMA CaptureEvidence ==
    ASSUME TypeOK, EvidenceInv, NEW h \in Handlers, Capture(h) PROVE EvidenceInv'
<1> DEFINE rid == job[h].route.rid
<1>1. UNCHANGED <<contextsOut, reviewsOut>>
  BY DEF Capture, outside
<1>2. PICK c : c = Build(rid, job[h].received, now)
  OBVIOUS
<1>3. c.rid = rid /\ Causal(c)
  <2>1. Intent[rid].routed <= job[h].received
    BY AdmittedInTime DEF Capture
  <2> QED BY <1>2, <2>1, JobType, BuildCausal
<1>4. CASE /\ contextCache' = Remember(contextCache, rid, c, CacheSize)
           /\ job' = [job EXCEPT ![h].context = {c}]
           /\ GoTo(h, "sendContext")
           /\ UNCHANGED <<holder, processed, reviewCache>>
  <2>1. /\ pc'[h] = "sendContext" /\ job'[h].context = {c}
        /\ job'[h].route = job[h].route /\ OthersUntouched(h)
    BY <1>4 DEF GoTo, TypeOK, Jobs, OthersUntouched
  <2>2. CutsCausal'
    <3>1. \A r \in DOMAIN contextCache' :
            \/ r = rid /\ ValueOf(contextCache', r) = c
            \/ r \in DOMAIN contextCache /\ ValueOf(contextCache', r) = ValueOf(contextCache, r)
      BY <1>4, CacheSizeType, RememberReads DEF Held
    <3> QED BY <3>1, <1>3 DEF EvidenceInv, CutsCausal, Causal
  <2>3. CacheSound'
    BY <1>1, <1>4, KeptSound
  <2>4. HoldsCausal(h)'
    BY <2>1, <1>3 DEF HoldsCausal, Causal
  <2>5. AskedSoundly(h)' /\ SendsSound(h)'
    BY <2>1 DEF AskedSoundly, SendsSound, Sends
  <2> QED BY <1>1, <2>1, <2>2, <2>3, <2>4, <2>5, EvidenceStep
<1>5. CASE /\ Finish(h, Defer(job[h].route, job[h].received, "DECISION_CONTEXT_INVALID", {}))
           /\ UNCHANGED contextCache
  <2>1. PICK review :
          /\ review = Defer(job[h].route, job[h].received, "DECISION_CONTEXT_INVALID", {})
          /\ Finish(h, review) /\ Sound(review)
    BY <1>5, JobType, DeferSound
  <2>2. Sound(review)' /\ CutsCausal'
    BY <1>1, <1>5, <2>1, SoundStays, KeptSound
  <2> QED BY <1>1, <2>1, <2>2, FinishEvidence
<1> QED BY <1>2, <1>4, <1>5 DEF Capture

LEMMA RecaptureEvidence ==
    ASSUME TypeOK, EvidenceInv, NEW h \in Handlers, Recapture(h) PROVE EvidenceInv'
<1>1. PICK c : c = ValueOf(contextCache, job[h].route.rid)
  OBVIOUS
<1>2. c.rid = job[h].route.rid /\ Causal(c)
  BY <1>1 DEF Recapture, Held, EvidenceInv, CutsCausal
<1>3. /\ pc'[h] = "sendContext" /\ job'[h].context = {c}
      /\ job'[h].route = job[h].route /\ OthersUntouched(h)
  BY <1>1 DEF Recapture, GoTo, TypeOK, Jobs, OthersUntouched
<1>4. UNCHANGED <<contextCache, reviewCache, contextsOut, reviewsOut>>
  BY DEF Recapture, caches, outside
<1>5. CutsCausal' /\ CacheSound'
  BY <1>4, KeptSound
<1>6. HoldsCausal(h)'
  BY <1>2, <1>3 DEF HoldsCausal, Causal
<1>7. AskedSoundly(h)' /\ SendsSound(h)'
  BY <1>3 DEF AskedSoundly, SendsSound, Sends
<1> QED BY <1>3, <1>4, <1>5, <1>6, <1>7, EvidenceStep

LEMMA DeferAfterContextEvidence ==
    ASSUME TypeOK, EvidenceInv, NEW h \in Handlers, DeferAfterContext(h) PROVE EvidenceInv'
<1>1. PICK t, reason, context :
        t \in Times /\ Finish(h, Sealed(Defer(job[h].route, t, reason, context)))
  BY JobType DEF DeferAfterContext, TypeOK, StoreTypeOK
<1>2. Sound(Sealed(Defer(job[h].route, t, reason, context)))
  <2>1. Sound(Defer(job[h].route, t, reason, context))
    BY <1>1, JobType, DeferSound
  <2>2. Defer(job[h].route, t, reason, context).route \in RouteMsgs
    BY <1>1, JobType, ReviewRoutes
  <2> QED BY <2>1, <2>2, SealedSound DEF TypeOK, StoreTypeOK
<1>3. PICK review : Finish(h, review) /\ Sound(review)
  BY <1>1, <1>2
<1>4. /\ contextsOut \subseteq contextsOut'
      /\ UNCHANGED <<contextCache, reviewsOut>>
  BY DEF DeferAfterContext, ContextSent
<1>5. Sound(review)' /\ CutsCausal'
  BY <1>3, <1>4, SoundStays, KeptSound
<1> QED BY <1>3, <1>4, <1>5, FinishEvidence

LEMMA DispatchEvidence ==
    ASSUME TypeOK, EvidenceInv, NEW h \in Handlers, Dispatch(h) PROVE EvidenceInv'
<1>1. PICK c \in job[h].context : StartReason(c, now) = "none"
  BY DEF Dispatch
<1>2. /\ pc[h] = "sendContext"
      /\ contextsOut' = contextsOut \cup job[h].context
      /\ UNCHANGED <<contextCache, reviewCache, reviewsOut>>
  BY DEF Dispatch, ContextSent
<1>3. /\ pc'[h] = "model" /\ job'[h].context = job[h].context
      /\ job'[h].route = job[h].route /\ job'[h].started = now /\ OthersUntouched(h)
  BY DEF Dispatch, GoTo, TypeOK, Jobs, OthersUntouched
<1>4. CutsCausal' /\ CacheSound'
  BY <1>2, KeptSound
<1>5. HoldsCausal(h)'
  BY <1>2, <1>3 DEF EvidenceInv, HoldsCausal, Causal
<1>6. AskedSoundly(h)'
  <2>1. job[h].context = {c}
    BY <1>1, <1>2 DEF EvidenceInv, HoldsCausal
  <2> QED BY <2>1, <1>1, <1>2, <1>3 DEF AskedSoundly
<1>7. SendsSound(h)'
  BY <1>3 DEF SendsSound, Sends
<1> QED BY <1>2, <1>3, <1>4, <1>5, <1>6, <1>7, EvidenceStep

LEMMA ModelReturnsEvidence ==
    ASSUME TypeOK, EvidenceInv, NEW h \in Handlers, NEW outcome \in Outcomes,
           ModelReturns(h, outcome)
    PROVE  EvidenceInv'
<1> DEFINE r == job[h].route
<1>1. PICK c \in job[h].context :
        Finish(h, Sealed(ModelReview(r, c, job[h].started, now, outcome)))
  BY DEF ModelReturns
<1>2. pc[h] = "model" /\ UNCHANGED <<contextCache, contextsOut, reviewsOut>>
  BY DEF ModelReturns, outside
<1>3. /\ c \in contextsOut /\ c.rid = r.rid /\ Causal(c)
      /\ StartReason(c, job[h].started) = "none"
  BY <1>1, <1>2 DEF EvidenceInv, HoldsCausal, AskedSoundly
<1>4. now \in Times /\ contextsOut \subseteq Contexts
  BY DEF TypeOK, StoreTypeOK
<1>5. Sound(ModelReview(r, c, job[h].started, now, outcome))
  BY <1>3, <1>4, JobType, ModelReviewSound
<1>6. ModelReview(r, c, job[h].started, now, outcome).route \in RouteMsgs
  BY JobType, ReviewRoutes
<1>7. Sound(Sealed(ModelReview(r, c, job[h].started, now, outcome)))
  BY <1>4, <1>5, <1>6, SealedSound
<1>8. PICK review : Finish(h, review) /\ Sound(review)
  BY <1>1, <1>7
<1>9. Sound(review)' /\ CutsCausal'
  BY <1>2, <1>8, SoundStays, KeptSound
<1> QED BY <1>2, <1>8, <1>9, FinishEvidence

LEMMA ContextResentEvidence ==
    ASSUME TypeOK, EvidenceInv, NEW h \in Handlers, ContextResent(h) PROVE EvidenceInv'
<1>1. /\ pc[h] = "resendContext" /\ contextsOut \subseteq contextsOut'
      /\ UNCHANGED <<contextCache, reviewCache, reviewsOut>>
  BY DEF ContextResent, caches
<1>2. pc'[h] = "sendReview" /\ job' = job /\ OthersUntouched(h)
  BY DEF ContextResent, GoTo, TypeOK, OthersUntouched
<1>3. CutsCausal' /\ CacheSound'
  BY <1>1, KeptSound
<1>4. SendsSound(h)'
  BY <1>1, <1>2, SoundStays DEF EvidenceInv, SendsSound, Sends
<1>5. HoldsCausal(h)' /\ AskedSoundly(h)'
  BY <1>2 DEF HoldsCausal, AskedSoundly
<1> QED BY <1>1, <1>2, <1>3, <1>4, <1>5, EvidenceStep

LEMMA ReviewSentEvidence ==
    ASSUME TypeOK, EvidenceInv, NEW h \in Handlers, ReviewSent(h) PROVE EvidenceInv'
<1>1. /\ pc[h] = "sendReview" /\ reviewsOut' = reviewsOut \cup job[h].review
      /\ reviewCache' = Discard(reviewCache, job[h].route.rid)
      /\ UNCHANGED <<contextCache, contextsOut>>
  BY DEF ReviewSent
<1>2. pc'[h] = "acking" /\ OthersUntouched(h)
  BY DEF ReviewSent, Return, GoTo, TypeOK, OthersUntouched
<1>3. CacheSound'
  <2>1. \A rid \in DOMAIN reviewCache' :
          rid \in DOMAIN reviewCache /\ ValueOf(reviewCache', rid) = ValueOf(reviewCache, rid)
    BY <1>1, DiscardReads
  <2> QED BY <2>1, <1>1, SoundStays DEF EvidenceInv, CacheSound
<1>4. \A x \in reviewsOut' : x \in reviewsOut \/ Sound(x)'
  BY <1>1, SoundStays DEF EvidenceInv, SendsSound, Sends
<1> QED BY <1>1, <1>2, <1>3, <1>4, QuietEvidence

LEMMA AckFailEvidence ==
    ASSUME TypeOK, EvidenceInv, NEW h \in Handlers, Ack(h) \/ Fail(h) PROVE EvidenceInv'
<1>1. /\ pc'[h] = "idle" /\ OthersUntouched(h)
      /\ contextsOut \subseteq contextsOut'
      /\ UNCHANGED <<contextCache, reviewCache>>
  <2>1. GoTo(h, "idle") /\ job' = [job EXCEPT ![h] = IdleJob]
    BY DEF Ack, Fail, AnswerLost, ContextFails, ReviewFails, AckFails, Raise
  <2>2. pc'[h] = "idle" /\ OthersUntouched(h)
    BY <2>1 DEF GoTo, TypeOK, OthersUntouched
  <2>3. contextsOut \subseteq contextsOut' /\ UNCHANGED caches
    BY DEF Ack, Fail, AnswerLost, ContextFails, ReviewFails, AckFails, outside, caches
  <2> QED BY <2>2, <2>3 DEF caches
<1>2. \A x \in reviewsOut' : x \in reviewsOut \/ (x \in job[h].review /\ pc[h] = "sendReview")
  <2>1. CASE ReviewFails(h)
    BY <2>1 DEF ReviewFails
  <2>2. CASE Ack(h) \/ AnswerLost(h) \/ ContextFails(h) \/ AckFails(h)
    BY <2>2 DEF Ack, AnswerLost, ContextFails, AckFails, outside
  <2> QED BY <2>1, <2>2 DEF Fail
<1>3. \A x \in reviewsOut' : x \in reviewsOut \/ Sound(x)'
  BY <1>1, <1>2, SoundStays DEF EvidenceInv, SendsSound, Sends
<1>4. CacheSound'
  BY <1>1, KeptSound
<1> QED BY <1>1, <1>3, <1>4, QuietEvidence

LEMMA ReceiveEvidence ==
    ASSUME TypeOK, EvidenceInv, NEW h \in Handlers, NEW r \in RouteMsgs, Receive(h, r)
    PROVE  EvidenceInv'
<1>1. pc'[h] \in {"admitted", "waiting"} /\ OthersUntouched(h)
  BY DEF Receive, GoTo, TypeOK, OthersUntouched
<1>2. UNCHANGED <<contextCache, reviewCache, contextsOut, reviewsOut>>
  BY DEF Receive, caches, outside
<1>3. CacheSound'
  BY <1>2, KeptSound
<1> QED BY <1>1, <1>2, <1>3, QuietEvidence

LEMMA IdleEvidence ==
    ASSUME EvidenceInv, UNCHANGED <<caches, tasks, outside>>
    PROVE  EvidenceInv'
<1>1. UNCHANGED <<contextCache, reviewCache, contextsOut, reviewsOut, pc, job>>
  BY DEF caches, tasks, outside
<1>2. CutsCausal' /\ CacheSound' /\ \A x : Sound(x) => Sound(x)'
  BY <1>1, KeptSound, SoundStays
<1>3. ASSUME NEW h \in Handlers PROVE HoldsCausal(h)' /\ AskedSoundly(h)' /\ SendsSound(h)'
  BY <1>1, <1>2 DEF EvidenceInv, HoldsCausal, AskedSoundly, SendsSound, Sends, Causal
<1> QED BY <1>1, <1>2, <1>3 DEF EvidenceInv

LEMMA RestartEvidence == ASSUME EvidenceInv, Restart PROVE EvidenceInv'
<1>1. CutsCausal' /\ CacheSound'
  BY DEF Restart, NewService, EmptyCache, CutsCausal, CacheSound
<1>2. \A h \in Handlers : HoldsCausal(h)' /\ AskedSoundly(h)' /\ SendsSound(h)'
  BY DEF Restart, NewService, HoldsCausal, AskedSoundly, SendsSound, Sends
<1>3. reviewsOut' = reviewsOut /\ contextsOut' = contextsOut
  BY DEF Restart, NewService
<1> QED BY <1>1, <1>2, <1>3, SoundStays DEF EvidenceInv

LEMMA EvidenceInductive == TypeOK /\ EvidenceInv /\ [Next]_vars => EvidenceInv'
<1> SUFFICES ASSUME TypeOK, EvidenceInv, [Next]_vars PROVE EvidenceInv'
  OBVIOUS
<1>1. CASE \E h \in Handlers, r \in RouteMsgs : Receive(h, r)
  BY <1>1, ReceiveEvidence
<1>2. ASSUME NEW h \in Handlers, Proceed(h) PROVE EvidenceInv'
  BY <1>2, RefusalEvidence, ResendEvidence, DeferUnseenEvidence, CaptureEvidence,
     RecaptureEvidence DEF Proceed
<1>3. ASSUME NEW h \in Handlers, Succeed(h) \/ Fail(h) PROVE EvidenceInv'
  BY <1>3, DeferAfterContextEvidence, DispatchEvidence, ModelReturnsEvidence,
     ContextResentEvidence, ReviewSentEvidence, AckFailEvidence DEF Succeed
<1>4. CASE SourceTask \/ ControlTask \/ Clock \/ UNCHANGED vars
  BY <1>4, IdleEvidence DEF SourceTask, ControlTask, Clock, vars
<1>5. CASE Restart
  BY <1>5, RestartEvidence
<1> QED BY <1>1, <1>2, <1>3, <1>4, <1>5 DEF Next

LEMMA EvidenceInvariant == Spec => []EvidenceInv
<1>1. Init => EvidenceInv
  BY DEF Init, EvidenceInv, EmptyCache, CutsCausal, CacheSound, HoldsCausal, AskedSoundly,
         SendsSound, Sends
<1> QED BY <1>1, EvidenceInductive, TypeCorrect, PTL DEF Spec

(* For every cache size, any number of handlers and restarts, and a clock  *)
(* that may be set back: a model verdict on the bus stands on a delivered  *)
(* context of its route that is causal, complete and was fresh when the    *)
(* review was made, and an ALLOW is not opposed by it.                     *)
THEOREM GroundedReviews == Spec => []ReviewsGrounded
<1>1. EvidenceInv => ReviewsGrounded
  BY DEF EvidenceInv, ReviewsGrounded, Sound
<1> QED BY <1>1, EvidenceInvariant, PTL

(* Under the same conditions every review is dated in its route's window.  *)
THEOREM DatedReviews == Spec => []ReviewInWindow
<1>1. EvidenceInv => ReviewInWindow
  BY DEF EvidenceInv, ReviewInWindow, Sound
<1> QED BY <1>1, EvidenceInvariant, PTL
-----------------------------------------------------------------------------
(* No new verdict over a conflict                                          *)

(* Only the return of its call takes a handler from the model to sending.  *)
LEMMA OnlyModelReturns ==
    ASSUME TypeOK, Next, NEW h \in Handlers, pc[h] = "model", pc'[h] = "sendReview"
    PROVE  \E outcome \in Outcomes : ModelReturns(h, outcome)
<1>1. ASSUME NEW g \in Handlers, NEW phase, GoTo(g, phase), pc[g] # "model" PROVE FALSE
  BY <1>1 DEF GoTo, TypeOK
<1>2. ASSUME NEW g \in Handlers, NEW r \in RouteMsgs, Receive(g, r) PROVE FALSE
  BY <1>1, <1>2 DEF Receive
<1>3. ASSUME NEW g \in Handlers, Proceed(g) PROVE FALSE
  <2>1. CASE pc[g] = "waiting" /\ GoTo(g, "admitted")
    BY <1>1, <2>1
  <2>2. CASE Wake(g)
    BY <2>1, <2>2 DEF Wake
  <2>3. CASE pc[g] = "admitted" /\ \E phase : GoTo(g, phase)
    BY <1>1, <2>3
  <2>4. CASE RejectReused(g) \/ SkipProcessed(g) \/ RefuseCached(g) \/ ResendCached(g)
    BY <2>3, <2>4 DEF RejectReused, SkipProcessed, RefuseCached, ResendCached, HasCachedReview,
                      RememberIdentity, Raise, Return
  <2>5. CASE DeferUnseen(g)
    BY <2>3, <2>5 DEF DeferUnseen, Begins, RememberIdentity, Finish
  <2>6. CASE Capture(g)
    BY <2>3, <2>6 DEF Capture, Begins, RememberIdentity, Finish
  <2>7. CASE Recapture(g)
    BY <2>3, <2>7 DEF Recapture, Begins, RememberIdentity
  <2> QED BY <1>3, <2>2, <2>4, <2>5, <2>6, <2>7 DEF Proceed
<1>4. ASSUME NEW g \in Handlers, DeferAfterContext(g) \/ Dispatch(g) PROVE FALSE
  BY <1>1, <1>4 DEF DeferAfterContext, Dispatch, ContextSent, Finish
<1>5. ASSUME NEW g \in Handlers, ContextResent(g) \/ ReviewSent(g) \/ Ack(g) \/ Fail(g)
      PROVE  FALSE
  <2>1. CASE AnswerLost(g)
    BY <2>1 DEF AnswerLost, Raise, GoTo, TypeOK
  <2> QED BY <1>1, <1>5, <2>1 DEF ContextResent, ReviewSent, Ack, Fail, ContextFails,
                                  ReviewFails, AckFails, Raise, Return
<1>6. ASSUME NEW g \in Handlers, NEW outcome \in Outcomes, ModelReturns(g, outcome)
      PROVE  g = h
  BY <1>6 DEF ModelReturns, Finish, GoTo, TypeOK
<1>7. CASE SourceTask \/ ControlTask \/ Clock
  BY <1>7 DEF SourceTask, ControlTask, Clock, tasks
<1>8. CASE Restart
  BY <1>8 DEF Restart, NewService
<1> QED BY <1>2, <1>3, <1>4, <1>5, <1>6, <1>7, <1>8 DEF Next, Succeed

(* The review that leaves the model's return is a verdict only if no       *)
(* source of its context is known to conflict.                             *)
LEMMA SealedOverNoConflict ==
    ASSUME NEW review, Sealed(review).reviewer = "LLM"
    PROVE  \A c \in Sealed(review).context : ~IntegrityError(c)
BY DEF Sealed, Defer

(* For every cache size, number of handlers and interleaving of sources: a *)
(* model verdict whose context has a conflicting source by the time the    *)
(* model answers is not sent, however late the conflict came.              *)
THEOREM NoVerdictOverConflict == Spec => NewReviewNotOverConflict
<1> DEFINE Safe == \A h \in Handlers :
                     StartsSending(h) /\ pc[h] = "model" => ~SendsOverConflict(h)
<1>1. TypeOK /\ [Next]_vars => [Safe]_vars
  <2> SUFFICES ASSUME TypeOK, Next, NEW h \in Handlers, StartsSending(h), pc[h] = "model"
               PROVE  ~SendsOverConflict(h)
    OBVIOUS
  <2>1. PICK outcome \in Outcomes : ModelReturns(h, outcome)
    BY OnlyModelReturns DEF StartsSending
  <2>2. PICK review : Finish(h, Sealed(review))
    BY <2>1 DEF ModelReturns
  <2>3. job'[h].review = {Sealed(review)}
    BY <2>2 DEF Finish, TypeOK, Jobs
  <2> QED BY <2>3, SealedOverNoConflict DEF SendsOverConflict
<1>2. Spec => [][Next]_vars
  BY DEF Spec
<1> HIDE DEF Safe
<1>3. Spec => [][Safe]_vars
  BY <1>1, <1>2, TypeCorrect, PTL
<1> QED BY <1>3 DEF NewReviewNotOverConflict, Safe
=============================================================================
