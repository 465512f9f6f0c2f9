---------------------- MODULE ReviewRefinementProofs ----------------------
(***************************************************************************)
(* The candidate-review runtime keeps the contract of a route, for any     *)
(* routes, deliveries, handlers, settings and restarts, as long as no      *)
(* cache is full; and therefore cuts and reviews a route once in a life of *)
(* the process, and asks once about a route that its evidence does not     *)
(* oppose.                                                                 *)
(*                                                                         *)
(* RouteInv ties a handler between two awaits to the lock and to what the  *)
(* caches hold of its route; with it every step is a step of the contract  *)
(* on the handler's route.  CountInv counts what a life leaves behind, and *)
(* is kept by the contract's steps.                                        *)
(***************************************************************************)
EXTENDS ReviewRefinement, CandidateEvidenceProofs

(* No cache of routes evicts: it has room for every route.                 *)
RoomForAll == IsFiniteSet(Rids) /\ Cardinality(Rids) <= CacheSize

(* Between these awaits a handler holds the route lock.                    *)
InFlight == {"sendContext", "model", "resendContext", "sendReview"}
Critical == {"admitted"} \cup InFlight

RidOf(h) == job[h].route.rid

(* What a handler has in its hands is what the caches hold of its route.   *)
LockHeld(h) == pc[h] \in Critical => holder = {h}

OwnsRoute(h) ==
    pc[h] \in InFlight \cup {"acking"} => Cached(routeDigests, RidOf(h)) = {job[h].route}

HandsContext(h) ==
    pc[h] \in {"sendContext", "model", "resendContext"}
    => job[h].context = Cached(contextCache, RidOf(h)) /\ Held(contextCache, RidOf(h))

AsksOverShown(h) == pc[h] = "model" => job[h].context \subseteq contextsOut

HandsReview(h) ==
    Sends(h) => job[h].review = Cached(reviewCache, RidOf(h)) /\ Held(reviewCache, RidOf(h))

NotYetReviewed(h) == pc[h] \in {"sendContext", "model"} => ~Held(reviewCache, RidOf(h))

NotYetProcessed(h) == pc[h] \in InFlight => ~Held(processed, RidOf(h))

AcksProcessed(h) == pc[h] = "acking" => Held(processed, RidOf(h))

HandlerInv(h) ==
    /\ LockHeld(h) /\ OwnsRoute(h)
    /\ HandsContext(h) /\ AsksOverShown(h)
    /\ HandsReview(h) /\ NotYetReviewed(h)
    /\ NotYetProcessed(h) /\ AcksProcessed(h)

(* What the caches hold of a route agrees, and belongs to its owner.       *)
AgreeAt(rid) ==
    /\ \A r \in Cached(routeDigests, rid) : r.rid = rid
    /\ \A c \in Cached(contextCache, rid) : c.rid = rid
    /\ \A x \in Cached(reviewCache, rid) : {x.route} = Cached(routeDigests, rid)
    /\ Held(contextCache, rid) \/ Held(processed, rid) => Cached(routeDigests, rid) # {}
    /\ ~(Held(reviewCache, rid) /\ Held(processed, rid))

CachesAgree == \A rid \in Rids : AgreeAt(rid)

RouteInv == CachesAgree /\ \A h \in Handlers : HandlerInv(h)

(* What a life leaves behind.                                              *)
CutsOf(rid)    == {c \in contextsOut : c.rid = rid}
ReviewsOf(rid) == {x \in reviewsOut : x.route.rid = rid}

CallsCounted(rid) ==
    \/ Opposed(rid)
    \/ calls[rid] <= restarts + (IF Stage(rid) \in {"open", "cut"} THEN 0 ELSE 1)

(* What is out, but for the one that is still held, is counted.            *)
Left(out, held, n) == IsFiniteSet(out) /\ Cardinality(out \ held) <= n

CutsCounted(rid) == Left(CutsOf(rid), Cached(contextCache, rid), restarts)

ReviewsCounted(rid) ==
    Left(ReviewsOf(rid), Cached(reviewCache, rid),
         restarts + (IF Stage(rid) = "done" THEN 1 ELSE 0))

CountInv == \A rid \in Rids : CallsCounted(rid) /\ CutsCounted(rid) /\ ReviewsCounted(rid)

-----------------------------------------------------------------------------
(* Caches that do not evict, read as optional values                       *)

LEMMA CachedReads ==
    \A c, k : /\ Held(c, k) => Cached(c, k) = {ValueOf(c, k)}
              /\ ~Held(c, k) => Cached(c, k) = {}
BY DEF Cached

LEMMA RememberAt ==
    ASSUME RoomForAll, NEW V, NEW c, IsCache(c, Rids, V, CacheSize),
           NEW k \in Rids, NEW v \in V
    PROVE  LET d == Remember(c, k, v, CacheSize)
           IN  /\ \A j : Held(d, j) <=> j = k \/ Held(c, j)
               /\ \A j : Cached(d, j) = IF j = k THEN {v} ELSE Cached(c, j)
<1> DEFINE d == Remember(c, k, v, CacheSize)
<1>1. \A j : Held(c, j) => Held(d, j)
  BY CacheSizeType, RememberNeverEvicts DEF RoomForAll, Held
<1>2. /\ Held(d, k) /\ ValueOf(d, k) = v
      /\ \A j \in DOMAIN d \ {k} : Held(c, j) /\ ValueOf(d, j) = ValueOf(c, j)
  BY CacheSizeType, RememberReads
<1> HIDE DEF d
<1>3. \A j : Held(d, j) <=> j = k \/ Held(c, j)
  BY <1>1, <1>2 DEF Held
<1>4. \A j : Cached(d, j) = IF j = k THEN {v} ELSE Cached(c, j)
  <2> SUFFICES ASSUME NEW j PROVE Cached(d, j) = IF j = k THEN {v} ELSE Cached(c, j)
    OBVIOUS
  <2>1. CASE j = k
    BY <2>1, <1>2, CachedReads
  <2>2. CASE j # k /\ Held(c, j)
    BY <2>2, <1>2, <1>3, CachedReads DEF Held
  <2>3. CASE j # k /\ ~Held(c, j)
    BY <2>3, <1>3, CachedReads
  <2> QED BY <2>1, <2>2, <2>3
<1> QED BY <1>3, <1>4 DEF d

LEMMA DiscardAt ==
    ASSUME NEW c, NEW k
    PROVE  LET d == Discard(c, k)
           IN  /\ \A j : Held(d, j) <=> j # k /\ Held(c, j)
               /\ \A j : Cached(d, j) = IF j = k THEN {} ELSE Cached(c, j)
<1> DEFINE d == Discard(c, k)
<1>1. DOMAIN d = DOMAIN c \ {k} /\ \A j \in DOMAIN d : ValueOf(d, j) = ValueOf(c, j)
  BY DiscardReads
<1> HIDE DEF d
<1> QED BY <1>1 DEF Held, Cached, d

-----------------------------------------------------------------------------
(* What the steps of a handler do to its route                             *)

LEMMA IdentityEffect ==
    ASSUME RoomForAll, TypeOK, NEW h \in Handlers, RememberIdentity(h)
    PROVE  /\ pc[h] = "admitted"
           /\ Cached(routeDigests, RidOf(h)) \subseteq {job[h].route}
           /\ \A j : Held(routeDigests', j) <=> j = RidOf(h) \/ Held(routeDigests, j)
           /\ \A j : Cached(routeDigests', j) =
                       IF j = RidOf(h) THEN {job[h].route} ELSE Cached(routeDigests, j)
<1>1. IsCache(routeDigests, Rids, RouteMsgs, CacheSize)
  BY DEF TypeOK
<1>2. routeDigests' = Remember(routeDigests, RidOf(h), job[h].route, CacheSize)
  BY DEF RememberIdentity, RidOf
<1>3. RidOf(h) \in Rids /\ job[h].route \in RouteMsgs
  BY JobType DEF RidOf
<1>4. Cached(routeDigests, RidOf(h)) \subseteq {job[h].route}
  BY DEF RememberIdentity, Reused, RidOf, Cached
<1> QED BY <1>1, <1>2, <1>3, <1>4, RememberAt DEF RememberIdentity

LEMMA FinishEffect ==
    ASSUME RoomForAll, TypeOK, NEW h \in Handlers, NEW review \in Reviews,
           review.route = job[h].route, Finish(h, review)
    PROVE  /\ pc'[h] = "sendReview" /\ OthersUntouched(h) /\ holder' = holder
           /\ job'[h].route = job[h].route /\ job'[h].review = {review}
           /\ processed' = processed
           /\ \A j : Held(reviewCache', j) <=> j = RidOf(h) \/ Held(reviewCache, j)
           /\ \A j : Cached(reviewCache', j) =
                       IF j = RidOf(h) THEN {review} ELSE Cached(reviewCache, j)
<1>1. IsCache(reviewCache, Rids, Reviews, CacheSize)
  BY DEF TypeOK
<1>2. /\ pc' = [pc EXCEPT ![h] = "sendReview"]
      /\ job' = [job EXCEPT ![h].review = {review}]
      /\ reviewCache' = Remember(reviewCache, RidOf(h), review, CacheSize)
      /\ holder' = holder /\ processed' = processed
  BY DEF Finish, GoTo, RidOf
<1>3. RidOf(h) \in Rids
  BY JobType DEF RidOf
<1>4. /\ pc'[h] = "sendReview" /\ OthersUntouched(h)
      /\ job'[h].route = job[h].route /\ job'[h].review = {review}
  BY <1>2 DEF TypeOK, Jobs, OthersUntouched
<1> QED BY <1>1, <1>2, <1>3, <1>4, RememberAt

LEMMA RaiseEffect ==
    ASSUME TypeOK, NEW h \in Handlers, Raise(h)
    PROVE  pc'[h] = "idle" /\ OthersUntouched(h)
BY DEF Raise, GoTo, TypeOK, OthersUntouched

LEMMA ReturnEffect ==
    ASSUME TypeOK, NEW h \in Handlers, Return(h)
    PROVE  pc'[h] = "acking" /\ job' = job /\ OthersUntouched(h)
BY DEF Return, GoTo, TypeOK, OthersUntouched

-----------------------------------------------------------------------------
(* How RouteInv is kept                                                    *)

(* A step of the handler that holds the lock, on its own route.            *)
LEMMA HolderStep ==
    ASSUME RouteInv, NEW h \in Handlers, pc[h] \in Critical, OthersUntouched(h),
           CachesAgree', HandlerInv(h)',
           \A j : Cached(routeDigests, j) # {} => Cached(routeDigests', j) = Cached(routeDigests, j),
           \A j : Held(processed, j) => Held(processed', j)
    PROVE  RouteInv'
<1> SUFFICES ASSUME NEW g \in Handlers, g # h PROVE HandlerInv(g)'
  BY DEF RouteInv
<1>1. pc'[g] = pc[g] /\ job'[g] = job[g]
  BY DEF OthersUntouched
<1>2. HandlerInv(g) /\ HandlerInv(h)
  BY DEF RouteInv
<1>3. pc[g] \notin Critical
  BY <1>2 DEF HandlerInv, LockHeld
<1>4. OwnsRoute(g)' /\ AcksProcessed(g)'
  <2>1. CASE pc[g] # "acking"
    BY <2>1, <1>1, <1>3 DEF OwnsRoute, AcksProcessed, Critical
  <2>2. CASE pc[g] = "acking"
    <3>1. Cached(routeDigests, RidOf(g)) = {job[g].route} /\ Held(processed, RidOf(g))
      BY <2>2, <1>2 DEF HandlerInv, OwnsRoute, AcksProcessed
    <3>2. Held(routeDigests, RidOf(g))
      BY <3>1, CachedReads
    <3> QED BY <3>1, <3>2, <1>1 DEF OwnsRoute, AcksProcessed, RidOf
  <2> QED BY <2>1, <2>2
<1> QED BY <1>1, <1>3, <1>4
        DEF HandlerInv, LockHeld, HandsContext, AsksOverShown, HandsReview, Sends,
            NotYetReviewed, NotYetProcessed, Critical, InFlight

(* A handler that is not between two awaits of its route.                  *)
LEMMA Resting ==
    ASSUME NEW h \in Handlers, pc'[h] \in {"idle", "waiting"}
    PROVE  HandlerInv(h)'
BY DEF HandlerInv, LockHeld, OwnsRoute, HandsContext, AsksOverShown, HandsReview, Sends,
       NotYetReviewed, NotYetProcessed, AcksProcessed, Critical, InFlight

LEMMA Acking ==
    ASSUME NEW h \in Handlers, pc'[h] = "acking", job' = job,
           Cached(routeDigests', RidOf(h)) = {job[h].route}, Held(processed', RidOf(h))
    PROVE  HandlerInv(h)'
BY DEF HandlerInv, LockHeld, OwnsRoute, HandsContext, AsksOverShown, HandsReview, Sends,
       NotYetReviewed, NotYetProcessed, AcksProcessed, Critical, InFlight, RidOf

(* A step that leaves the caches alone, of a handler that does not hold    *)
(* the lock before it.                                                     *)
LEMMA EntryStep ==
    ASSUME RouteInv, NEW h \in Handlers, OthersUntouched(h),
           UNCHANGED <<identities, caches, contextsOut>>,
           holder' = holder \/ (holder = {} /\ holder' = {h}),
           pc'[h] \in {"idle", "waiting", "admitted"},
           pc'[h] = "admitted" => holder' = {h}
    PROVE  RouteInv'
<1>1. CachesAgree'
  BY DEF RouteInv, CachesAgree, AgreeAt, identities, caches
<1>2. HandlerInv(h)'
  BY DEF HandlerInv, LockHeld, OwnsRoute, HandsContext, AsksOverShown, HandsReview, Sends,
         NotYetReviewed, NotYetProcessed, AcksProcessed, Critical, InFlight
<1>3. ASSUME NEW g \in Handlers, g # h PROVE HandlerInv(g)'
  <2>1. pc'[g] = pc[g] /\ job'[g] = job[g] /\ HandlerInv(g)
    BY <1>3 DEF OthersUntouched, RouteInv
  <2>2. LockHeld(g)'
    BY <2>1 DEF HandlerInv, LockHeld
  <2>3. UNCHANGED <<routeDigests, contextCache, reviewCache, processed, contextsOut>>
    BY DEF identities, caches
  <2> QED BY <2>1, <2>2, <2>3
          DEF HandlerInv, OwnsRoute, HandsContext, AsksOverShown, HandsReview, Sends,
              NotYetReviewed, NotYetProcessed, AcksProcessed, RidOf
<1> QED BY <1>1, <1>2, <1>3 DEF RouteInv
LEMMA IdentityAgrees ==
    ASSUME RoomForAll, TypeOK, CachesAgree, NEW h \in Handlers, RememberIdentity(h),
           UNCHANGED caches
    PROVE  CachesAgree'
<1> SUFFICES ASSUME NEW rid \in Rids PROVE AgreeAt(rid)'
  BY DEF CachesAgree
<1>1. UNCHANGED <<contextCache, reviewCache, processed>>
  BY DEF caches
<1>2. AgreeAt(rid)
  BY DEF CachesAgree
<1>3. CASE rid # RidOf(h)
  BY <1>1, <1>2, <1>3, IdentityEffect DEF AgreeAt
<1>4. CASE rid = RidOf(h)
  <2>1. Cached(routeDigests', rid) = {job[h].route} /\ job[h].route.rid = rid
    BY <1>4, IdentityEffect DEF RidOf
  <2>2. Cached(routeDigests, rid) \subseteq {job[h].route}
    BY <1>4, IdentityEffect
  <2> QED BY <1>1, <1>2, <2>1, <2>2 DEF AgreeAt
<1> QED BY <1>3, <1>4

LEMMA KeptAgrees ==
    ASSUME CachesAgree, UNCHANGED <<identities, caches>> PROVE CachesAgree'
BY DEF CachesAgree, AgreeAt, identities, caches

(* The owner of a route does not change when it is remembered again.       *)
LEMMA IdentityKeeps ==
    ASSUME RoomForAll, TypeOK, NEW h \in Handlers, RememberIdentity(h)
    PROVE  \A j : Cached(routeDigests, j) # {} =>
                    Cached(routeDigests', j) = Cached(routeDigests, j)
BY IdentityEffect

(* A review of a route that has none is remembered.                        *)
LEMMA FinishRoute ==
    ASSUME RoomForAll, TypeOK, RouteInv, NEW h \in Handlers, pc[h] \in Critical,
           NEW review \in Reviews, review.route = job[h].route, Finish(h, review),
           ~Held(processed, RidOf(h)), contextCache' = contextCache,
           Cached(routeDigests, RidOf(h)) \subseteq {job[h].route},
           \A j : Cached(routeDigests', j) =
                    IF j = RidOf(h) THEN {job[h].route} ELSE Cached(routeDigests, j)
    PROVE  RouteInv'
<1>1. /\ pc'[h] = "sendReview" /\ OthersUntouched(h) /\ holder' = holder
      /\ job'[h].route = job[h].route /\ job'[h].review = {review}
      /\ processed' = processed
      /\ \A j : Held(reviewCache', j) <=> j = RidOf(h) \/ Held(reviewCache, j)
      /\ \A j : Cached(reviewCache', j) =
                  IF j = RidOf(h) THEN {review} ELSE Cached(reviewCache, j)
  BY FinishEffect
<1>2. CachesAgree'
  <2> SUFFICES ASSUME NEW rid \in Rids PROVE AgreeAt(rid)'
    BY DEF CachesAgree
  <2>1. AgreeAt(rid)
    BY DEF RouteInv, CachesAgree
  <2>2. CASE rid # RidOf(h)
    BY <1>1, <2>1, <2>2 DEF AgreeAt
  <2>3. CASE rid = RidOf(h)
    BY <1>1, <2>1, <2>3 DEF AgreeAt, RidOf
  <2> QED BY <2>2, <2>3
<1>3. HandlerInv(h)'
  <2>1. holder = {h}
    BY DEF RouteInv, HandlerInv, LockHeld
  <2>2. RidOf(h)' = RidOf(h)
    BY <1>1 DEF RidOf
  <2> QED BY <1>1, <2>1, <2>2
          DEF HandlerInv, LockHeld, OwnsRoute, HandsContext, AsksOverShown, HandsReview,
              Sends, NotYetReviewed, NotYetProcessed, AcksProcessed, Critical, InFlight
<1> QED BY <1>1, <1>2, <1>3, HolderStep

LEMMA RefusalRoute ==
    ASSUME RoomForAll, TypeOK, RouteInv, NEW h \in Handlers,
           RejectReused(h) \/ RefuseCached(h) \/ SkipProcessed(h)
    PROVE  RouteInv'
<1>1. pc[h] \in Critical /\ UNCHANGED caches
  BY DEF RejectReused, RefuseCached, SkipProcessed, HasCachedReview, RememberIdentity, Critical
<1>2. CASE RejectReused(h)
  <2>1. pc'[h] = "idle" /\ OthersUntouched(h)
    BY <1>2, RaiseEffect DEF RejectReused
  <2>2. UNCHANGED <<identities, caches>>
    BY <1>2 DEF RejectReused
  <2>3. CachesAgree'
    BY <2>2, KeptAgrees DEF RouteInv
  <2> QED BY <1>1, <2>1, <2>2, <2>3, Resting, HolderStep DEF identities, caches
<1>3. CASE RefuseCached(h)
  <2>1. pc'[h] = "idle" /\ OthersUntouched(h) /\ RememberIdentity(h)
    BY <1>3, RaiseEffect DEF RefuseCached, HasCachedReview
  <2>2. CachesAgree'
    BY <1>1, <2>1, IdentityAgrees DEF RouteInv
  <2> QED BY <1>1, <2>1, <2>2, IdentityKeeps, Resting, HolderStep DEF caches
<1>4. CASE SkipProcessed(h)
  <2>1. /\ pc'[h] = "acking" /\ job' = job /\ OthersUntouched(h)
        /\ RememberIdentity(h) /\ Held(processed, RidOf(h))
    BY <1>4, ReturnEffect DEF SkipProcessed, RidOf
  <2>2. CachesAgree'
    BY <1>1, <2>1, IdentityAgrees DEF RouteInv
  <2>3. Cached(routeDigests', RidOf(h)) = {job[h].route}
    BY <2>1, IdentityEffect
  <2>4. HandlerInv(h)'
    BY <1>1, <2>1, <2>3, Acking DEF caches
  <2> QED BY <1>1, <2>1, <2>2, <2>4, IdentityKeeps, HolderStep DEF caches
<1> QED BY <1>2, <1>3, <1>4

LEMMA ResendRoute ==
    ASSUME RoomForAll, TypeOK, RouteInv, NEW h \in Handlers, ResendCached(h)
    PROVE  RouteInv'
<1> DEFINE rid == RidOf(h)
<1>1. /\ RememberIdentity(h) /\ pc[h] = "admitted"
      /\ Held(reviewCache, rid) /\ ~Held(processed, rid)
      /\ UNCHANGED <<caches, holder>>
  BY DEF ResendCached, HasCachedReview, RememberIdentity, RidOf
<1>2. /\ pc'[h] = IF Cached(contextCache, rid) = {} THEN "sendReview" ELSE "resendContext"
      /\ OthersUntouched(h)
      /\ job'[h].route = job[h].route
      /\ job'[h].review = {ValueOf(reviewCache, rid)}
      /\ job'[h].context = Cached(contextCache, rid)
  BY DEF ResendCached, GoTo, TypeOK, Jobs, OthersUntouched, RidOf
<1>3. CachesAgree'
  BY <1>1, IdentityAgrees DEF RouteInv
<1>4. HandlerInv(h)'
  <2>1. holder = {h} /\ Cached(routeDigests', rid) = {job[h].route}
    BY <1>1, IdentityEffect DEF RouteInv, HandlerInv, LockHeld, Critical
  <2>2. job'[h].review = Cached(reviewCache, rid)
    BY <1>1, <1>2, CachedReads
  <2>3. pc'[h] = "resendContext" => Held(contextCache, rid)
    BY <1>2, CachedReads
  <2>4. RidOf(h)' = rid
    BY <1>2 DEF RidOf
  <2> HIDE DEF rid
  <2> QED BY <1>1, <1>2, <2>1, <2>2, <2>3, <2>4
          DEF HandlerInv, LockHeld, OwnsRoute, HandsContext, AsksOverShown, HandsReview,
              Sends, NotYetReviewed, NotYetProcessed, AcksProcessed, Critical, InFlight, caches
<1> QED BY <1>1, <1>2, <1>3, <1>4, IdentityKeeps, HolderStep DEF caches, Critical

LEMMA DeferUnseenRoute ==
    ASSUME RoomForAll, TypeOK, RouteInv, NEW h \in Handlers, DeferUnseen(h)
    PROVE  RouteInv'
<1> DEFINE reason == IF BeginReason(h) # "none" THEN BeginReason(h)
                     ELSE "DECISION_CONTEXT_EVICTED"
<1>1. reason \in Reasons
  BY ReasonTypes DEF BeginReason, Reasons
<1>2. PICK review \in Reviews :
        review = Defer(job[h].route, job[h].received, reason, {}) /\ Finish(h, review)
  BY <1>1, JobType, DeferType DEF DeferUnseen
<1>3. review.route = job[h].route
  BY <1>2, ReviewRoutes
<1>4. RememberIdentity(h) /\ ~Held(processed, RidOf(h)) /\ contextCache' = contextCache
  BY DEF DeferUnseen, Begins, RidOf
<1> QED BY <1>2, <1>3, <1>4, IdentityEffect, FinishRoute DEF Critical

LEMMA CaptureRoute ==
    ASSUME RoomForAll, TypeOK, RouteInv, NEW h \in Handlers, Capture(h)
    PROVE  RouteInv'
<1> DEFINE rid == RidOf(h)
<1>1. /\ RememberIdentity(h) /\ pc[h] = "admitted"
      /\ ~Held(processed, rid) /\ ~Held(reviewCache, rid)
  BY DEF Capture, Begins, RememberIdentity, RidOf
<1>2. rid \in Rids
  BY JobType DEF RidOf
<1>3. PICK c \in Contexts : c = Build(rid, job[h].received, now)
  BY JobType, BuildType DEF TypeOK, StoreTypeOK, RidOf
<1>4. CASE /\ Finish(h, Defer(job[h].route, job[h].received, "DECISION_CONTEXT_INVALID", {}))
           /\ UNCHANGED contextCache
  <2>1. PICK review \in Reviews :
          /\ review = Defer(job[h].route, job[h].received, "DECISION_CONTEXT_INVALID", {})
          /\ Finish(h, review)
    BY <1>4, JobType, DeferType DEF Reasons
  <2>2. review.route = job[h].route
    BY <2>1, ReviewRoutes
  <2> QED BY <1>1, <1>4, <2>1, <2>2, IdentityEffect, FinishRoute DEF Critical
<1>5. CASE /\ contextCache' = Remember(contextCache, rid, c, CacheSize)
           /\ job' = [job EXCEPT ![h].context = {c}]
           /\ GoTo(h, "sendContext")
           /\ UNCHANGED <<holder, processed, reviewCache>>
  <2>1. /\ pc'[h] = "sendContext" /\ OthersUntouched(h)
        /\ job'[h].context = {c} /\ job'[h].route = job[h].route
    BY <1>5 DEF GoTo, TypeOK, Jobs, OthersUntouched
  <2>2. /\ \A j : Held(contextCache', j) <=> j = rid \/ Held(contextCache, j)
        /\ \A j : Cached(contextCache', j) = IF j = rid THEN {c} ELSE Cached(contextCache, j)
    <3>1. IsCache(contextCache, Rids, Contexts, CacheSize)
      BY DEF TypeOK
    <3> QED BY <3>1, <1>2, <1>5, RememberAt
  <2>3. /\ \A j : Cached(routeDigests', j) =
                    IF j = rid THEN {job[h].route} ELSE Cached(routeDigests, j)
        /\ Cached(routeDigests, rid) \subseteq {job[h].route}
    BY <1>1, IdentityEffect
  <2>4. CachesAgree'
    <3> SUFFICES ASSUME NEW k \in Rids PROVE AgreeAt(k)'
      BY DEF CachesAgree
    <3>1. AgreeAt(k)
      BY DEF RouteInv, CachesAgree
    <3>2. UNCHANGED <<reviewCache, processed>>
      BY <1>5
    <3>3. CASE k # rid
      BY <2>2, <2>3, <3>1, <3>2, <3>3 DEF AgreeAt
    <3>4. CASE k = rid
      <4>1. c.rid = rid
        BY <1>3 DEF Build
      <4>2. job[h].route.rid = rid
        BY DEF RidOf
      <4>3. Cached(reviewCache, rid) = {}
        BY <1>1, CachedReads
      <4> QED BY <1>1, <2>2, <2>3, <3>2, <3>4, <4>1, <4>2, <4>3 DEF AgreeAt
    <3> QED BY <3>3, <3>4
  <2>5. HandlerInv(h)'
    <3>1. holder = {h}
      BY <1>1 DEF RouteInv, HandlerInv, LockHeld, Critical
    <3>2. RidOf(h)' = rid
      BY <2>1 DEF RidOf
    <3> HIDE DEF rid
    <3> QED BY <1>1, <1>5, <2>1, <2>2, <2>3, <3>1, <3>2
            DEF HandlerInv, LockHeld, OwnsRoute, HandsContext, AsksOverShown, HandsReview,
                Sends, NotYetReviewed, NotYetProcessed, AcksProcessed, Critical, InFlight
  <2> QED BY <1>1, <1>5, <2>1, <2>4, <2>5, IdentityKeeps, HolderStep DEF Critical
<1> QED BY <1>3, <1>4, <1>5 DEF Capture, RidOf

LEMMA RecaptureRoute ==
    ASSUME RoomForAll, TypeOK, RouteInv, NEW h \in Handlers, Recapture(h)
    PROVE  RouteInv'
<1> DEFINE rid == RidOf(h)
<1>1. /\ RememberIdentity(h) /\ pc[h] = "admitted" /\ Held(contextCache, rid)
      /\ ~Held(processed, rid) /\ ~Held(reviewCache, rid)
      /\ UNCHANGED <<caches, holder>>
  BY DEF Recapture, Begins, RememberIdentity, RidOf
<1>2. /\ pc'[h] = "sendContext" /\ OthersUntouched(h)
      /\ job'[h].context = {ValueOf(contextCache, rid)}
      /\ job'[h].route = job[h].route
  BY DEF Recapture, GoTo, TypeOK, Jobs, OthersUntouched, RidOf
<1>3. CachesAgree'
  BY <1>1, IdentityAgrees DEF RouteInv
<1>4. HandlerInv(h)'
  <2>1. holder = {h} /\ Cached(routeDigests', rid) = {job[h].route}
    BY <1>1, IdentityEffect DEF RouteInv, HandlerInv, LockHeld, Critical
  <2>2. job'[h].context = Cached(contextCache, rid)
    BY <1>1, <1>2, CachedReads
  <2>3. RidOf(h)' = rid
    BY <1>2 DEF RidOf
  <2> HIDE DEF rid
  <2> QED BY <1>1, <1>2, <2>1, <2>2, <2>3
          DEF HandlerInv, LockHeld, OwnsRoute, HandsContext, AsksOverShown, HandsReview,
              Sends, NotYetReviewed, NotYetProcessed, AcksProcessed, Critical, InFlight, caches
<1> QED BY <1>1, <1>2, <1>3, <1>4, IdentityKeeps, HolderStep DEF caches, Critical
(* The owner of a route whose handler is past its admission is its own.    *)
LEMMA OwnerStays ==
    ASSUME RouteInv, NEW h \in Handlers, pc[h] \in InFlight, routeDigests' = routeDigests
    PROVE  /\ pc[h] \in Critical /\ holder = {h}
           /\ Cached(routeDigests, RidOf(h)) = {job[h].route}
           /\ ~Held(processed, RidOf(h))
           /\ \A j : Cached(routeDigests', j) =
                       IF j = RidOf(h) THEN {job[h].route} ELSE Cached(routeDigests, j)
BY DEF RouteInv, HandlerInv, LockHeld, OwnsRoute, NotYetProcessed, Critical

LEMMA DeferAfterContextRoute ==
    ASSUME RoomForAll, TypeOK, RouteInv, NEW h \in Handlers, DeferAfterContext(h)
    PROVE  RouteInv'
<1>1. PICK context \in job[h].context, t \in Times, reason \in Reasons :
        Finish(h, Sealed(Defer(job[h].route, t, reason, {context})))
  <2>1. PICK context \in job[h].context :
          \/ Finish(h, Sealed(Defer(job[h].route, job[h].received,
                                    ReasonAfterContext(h, context), {context})))
          \/ Finish(h, Sealed(Defer(job[h].route, now, StartReason(context, now), {context})))
    BY DEF DeferAfterContext
  <2>2. ReasonAfterContext(h, context) \in Reasons /\ StartReason(context, now) \in Reasons
    BY JobType, ReasonTypes DEF ReasonAfterContext, Reasons
  <2> QED BY <2>1, <2>2, JobType DEF TypeOK, StoreTypeOK
<1>2. PICK review \in Reviews : review.route = job[h].route /\ Finish(h, review)
  <2>1. Defer(job[h].route, t, reason, {context}) \in Reviews
    BY <1>1, JobType, DeferType
  <2>2. Sealed(Defer(job[h].route, t, reason, {context})) \in Reviews
    BY <2>1, SealedType DEF TypeOK, StoreTypeOK
  <2> QED BY <1>1, <2>2, ReviewRoutes
<1>3. pc[h] \in InFlight /\ UNCHANGED <<routeDigests, contextCache>>
  BY DEF DeferAfterContext, ContextSent, InFlight, identities
<1> QED BY <1>2, <1>3, OwnerStays, FinishRoute

LEMMA ModelReturnsRoute ==
    ASSUME RoomForAll, TypeOK, RouteInv, NEW h \in Handlers, NEW outcome \in Outcomes,
           ModelReturns(h, outcome)
    PROVE  RouteInv'
<1>1. PICK context \in job[h].context :
        Finish(h, Sealed(ModelReview(job[h].route, context, job[h].started, now, outcome)))
  BY DEF ModelReturns
<1>2. PICK review \in Reviews : review.route = job[h].route /\ Finish(h, review)
  <2>1. ModelReview(job[h].route, context, job[h].started, now, outcome) \in Reviews
    BY <1>1, JobType, ModelReviewType DEF TypeOK, StoreTypeOK
  <2>2. Sealed(ModelReview(job[h].route, context, job[h].started, now, outcome)) \in Reviews
    BY <2>1, SealedType DEF TypeOK, StoreTypeOK
  <2> QED BY <1>1, <2>2, ReviewRoutes
<1>3. pc[h] \in InFlight /\ UNCHANGED <<routeDigests, contextCache>>
  BY DEF ModelReturns, InFlight, identities
<1> QED BY <1>2, <1>3, OwnerStays, FinishRoute

LEMMA DispatchRoute ==
    ASSUME RoomForAll, TypeOK, RouteInv, NEW h \in Handlers, Dispatch(h)
    PROVE  RouteInv'
<1>1. /\ pc[h] = "sendContext" /\ pc'[h] = "model" /\ OthersUntouched(h)
      /\ job'[h].route = job[h].route /\ job'[h].context = job[h].context
      /\ contextsOut' = contextsOut \cup job[h].context
      /\ UNCHANGED <<identities, caches, holder>>
  BY DEF Dispatch, ContextSent, GoTo, TypeOK, Jobs, OthersUntouched, caches
<1>2. CachesAgree'
  BY <1>1, KeptAgrees DEF RouteInv
<1>3. HandlerInv(h)'
  <2>1. HandlerInv(h)
    BY DEF RouteInv
  <2>2. RidOf(h)' = RidOf(h)
    BY <1>1 DEF RidOf
  <2> QED BY <1>1, <2>1, <2>2
          DEF HandlerInv, LockHeld, OwnsRoute, HandsContext, AsksOverShown, HandsReview, Sends,
              NotYetReviewed, NotYetProcessed, AcksProcessed, Critical, InFlight,
              identities, caches
<1> QED BY <1>1, <1>2, <1>3, HolderStep DEF identities, caches, Critical, InFlight

LEMMA ContextResentRoute ==
    ASSUME RoomForAll, TypeOK, RouteInv, NEW h \in Handlers, ContextResent(h)
    PROVE  RouteInv'
<1>1. /\ pc[h] = "resendContext" /\ pc'[h] = "sendReview" /\ OthersUntouched(h)
      /\ job' = job
      /\ UNCHANGED <<identities, caches, holder>>
  BY DEF ContextResent, GoTo, TypeOK, OthersUntouched
<1>2. CachesAgree'
  BY <1>1, KeptAgrees DEF RouteInv
<1>3. HandlerInv(h)'
  <2>1. HandlerInv(h)
    BY DEF RouteInv
  <2> QED BY <1>1, <2>1
          DEF HandlerInv, LockHeld, OwnsRoute, HandsContext, AsksOverShown, HandsReview, Sends,
              NotYetReviewed, NotYetProcessed, AcksProcessed, Critical, InFlight, RidOf,
              identities, caches
<1> QED BY <1>1, <1>2, <1>3, HolderStep DEF identities, caches, Critical, InFlight

(* What a delivered review leaves in the caches.                           *)
LEMMA ReviewSentEffect ==
    ASSUME RoomForAll, TypeOK, NEW h \in Handlers, ReviewSent(h)
    PROVE  /\ \A j : Held(processed', j) <=> j = RidOf(h) \/ Held(processed, j)
           /\ \A j : Held(reviewCache', j) <=> j # RidOf(h) /\ Held(reviewCache, j)
           /\ \A j : Cached(reviewCache', j) =
                       IF j = RidOf(h) THEN {} ELSE Cached(reviewCache, j)
<1>1. IsCache(processed, Rids, {TRUE}, CacheSize) /\ RidOf(h) \in Rids
  BY JobType DEF TypeOK, RidOf
<1>2. /\ processed' = Remember(processed, RidOf(h), TRUE, CacheSize)
      /\ reviewCache' = Discard(reviewCache, RidOf(h))
  BY DEF ReviewSent, RidOf
<1>3. \A j : Held(processed', j) <=> j = RidOf(h) \/ Held(processed, j)
  BY <1>1, <1>2, RememberAt
<1> QED BY <1>2, <1>3, DiscardAt

LEMMA ReviewSentRoute ==
    ASSUME RoomForAll, TypeOK, RouteInv, NEW h \in Handlers, ReviewSent(h)
    PROVE  RouteInv'
<1>1. /\ pc[h] = "sendReview" /\ pc'[h] = "acking" /\ OthersUntouched(h) /\ job' = job
      /\ UNCHANGED <<routeDigests, contextCache>>
  BY ReturnEffect DEF ReviewSent, identities
<1>2. Cached(routeDigests, RidOf(h)) = {job[h].route}
  BY <1>1 DEF RouteInv, HandlerInv, OwnsRoute, InFlight
<1>3. CachesAgree'
  <2> SUFFICES ASSUME NEW k \in Rids PROVE AgreeAt(k)'
    BY DEF CachesAgree
  <2>1. AgreeAt(k)
    BY DEF RouteInv, CachesAgree
  <2>2. CASE k # RidOf(h)
    BY <1>1, <2>1, <2>2, ReviewSentEffect DEF AgreeAt
  <2>3. CASE k = RidOf(h)
    BY <1>1, <1>2, <2>1, <2>3, ReviewSentEffect DEF AgreeAt
  <2> QED BY <2>2, <2>3
<1>4. HandlerInv(h)'
  BY <1>1, <1>2, ReviewSentEffect, Acking
<1> QED BY <1>1, <1>3, <1>4, ReviewSentEffect, HolderStep DEF Critical, InFlight

LEMMA RaiseRoute ==
    ASSUME RoomForAll, TypeOK, RouteInv, NEW h \in Handlers,
           ContextFails(h) \/ ReviewFails(h) \/ AnswerLost(h)
    PROVE  RouteInv'
<1>1. /\ pc[h] \in Critical /\ pc'[h] = "idle" /\ OthersUntouched(h)
      /\ UNCHANGED <<identities, caches>>
  BY RaiseEffect DEF ContextFails, ReviewFails, AnswerLost, Critical, InFlight
<1>2. CachesAgree'
  BY <1>1, KeptAgrees DEF RouteInv
<1> QED BY <1>1, <1>2, Resting, HolderStep DEF identities, caches

LEMMA EntryRoute ==
    ASSUME TypeOK, RouteInv, NEW h \in Handlers,
           (\E r \in RouteMsgs : Receive(h, r)) \/ Wake(h) \/ Ack(h) \/ AckFails(h)
    PROVE  RouteInv'
<1>1. OthersUntouched(h) /\ UNCHANGED <<identities, caches, contextsOut>>
  BY DEF Receive, Wake, Ack, AckFails, GoTo, TypeOK, OthersUntouched, outside
<1>2. /\ holder' = holder \/ (holder = {} /\ holder' = {h})
      /\ pc'[h] \in {"idle", "waiting", "admitted"}
      /\ pc'[h] = "admitted" => holder' = {h}
  BY DEF Receive, Wake, Ack, AckFails, GoTo, TypeOK
<1> QED BY <1>1, <1>2, EntryStep

LEMMA OutsideRoute ==
    ASSUME RouteInv, UNCHANGED <<identities, caches, tasks, outside>>
    PROVE  RouteInv'
<1>1. CachesAgree'
  BY KeptAgrees DEF RouteInv
<1> QED BY <1>1
        DEF RouteInv, HandlerInv, LockHeld, OwnsRoute, HandsContext, AsksOverShown,
            HandsReview, Sends, NotYetReviewed, NotYetProcessed, AcksProcessed, RidOf,
            identities, caches, tasks, outside

LEMMA NoneCached == \A k : Cached(EmptyCache, k) = {} /\ ~Held(EmptyCache, k)
BY DEF Cached, Held, EmptyCache

LEMMA RestartRoute == ASSUME Restart PROVE RouteInv'
<1>1. /\ \A h \in Handlers : pc'[h] = "idle"
      /\ routeDigests' = EmptyCache /\ contextCache' = EmptyCache
      /\ processed' = EmptyCache /\ reviewCache' = EmptyCache
  BY DEF Restart, NewService
<1>2. CachesAgree'
  BY <1>1, NoneCached DEF CachesAgree, AgreeAt
<1> QED BY <1>1, <1>2, Resting DEF RouteInv

LEMMA InitRoute == Init => RouteInv
BY NoneCached
   DEF Init, RouteInv, CachesAgree, AgreeAt, HandlerInv, LockHeld, OwnsRoute, HandsContext,
       AsksOverShown, HandsReview, Sends, NotYetReviewed, NotYetProcessed, AcksProcessed,
       Critical, InFlight

LEMMA RouteInvStep ==
    ASSUME RoomForAll, TypeOK, RouteInv, [Next]_vars PROVE RouteInv'
<1>1. CASE \E h \in Handlers, r \in RouteMsgs : Receive(h, r)
  BY <1>1, EntryRoute
<1>2. ASSUME NEW h \in Handlers, Proceed(h) PROVE RouteInv'
  BY <1>2, EntryRoute, RefusalRoute, ResendRoute, DeferUnseenRoute, CaptureRoute,
     RecaptureRoute DEF Proceed
<1>3. ASSUME NEW h \in Handlers, Succeed(h) PROVE RouteInv'
  BY <1>3, EntryRoute, DeferAfterContextRoute, DispatchRoute, ModelReturnsRoute,
     ContextResentRoute, ReviewSentRoute DEF Succeed
<1>4. ASSUME NEW h \in Handlers, Fail(h) PROVE RouteInv'
  BY <1>4, EntryRoute, RaiseRoute DEF Fail
<1>5. CASE SourceTask \/ ControlTask \/ Clock
  BY <1>5, OutsideRoute DEF SourceTask, ControlTask, Clock
<1>6. CASE Restart
  BY <1>6, RestartRoute
<1>7. CASE UNCHANGED vars
  BY <1>7, OutsideRoute DEF vars
<1> QED BY <1>1, <1>2, <1>3, <1>4, <1>5, <1>6, <1>7 DEF Next

LEMMA RouteInvariant == ASSUME RoomForAll PROVE Spec => [](TypeOK /\ RouteInv)
<1>1. Init => RouteInv
  BY InitRoute
<1>2. TypeOK /\ RouteInv /\ [Next]_vars => RouteInv'
  BY RouteInvStep
<1> QED BY <1>1, <1>2, TypeCorrect, PTL DEF Spec
-----------------------------------------------------------------------------
(* The contract's variables under a step on one route                      *)

SameAt(k) ==
    /\ Cached(routeDigests', k) = Cached(routeDigests, k)
    /\ Cached(contextCache', k) = Cached(contextCache, k)
    /\ Cached(reviewCache', k) = Cached(reviewCache, k)
    /\ Held(processed', k) <=> Held(processed, k)
    /\ AtTheModel(k)' <=> AtTheModel(k)

SameElsewhere(rid) == \A k \in Rids \ {rid} : SameAt(k)

LEMMA SameStage == ASSUME NEW k, SameAt(k) PROVE Stage(k)' = Stage(k)
<1>1. /\ Held(contextCache', k) <=> Held(contextCache, k)
      /\ Held(reviewCache', k) <=> Held(reviewCache, k)
  BY CachedReads DEF SameAt
<1> QED BY <1>1 DEF SameAt, Stage

LEMMA Localized ==
    ASSUME NEW rid \in Rids, SameElsewhere(rid)
    PROVE  /\ [k \in Rids |-> Stage(k)]' = [[k \in Rids |-> Stage(k)] EXCEPT ![rid] = Stage(rid)']
           /\ Each(routeDigests') = [Each(routeDigests) EXCEPT ![rid] = Cached(routeDigests', rid)]
           /\ Each(contextCache') = [Each(contextCache) EXCEPT ![rid] = Cached(contextCache', rid)]
           /\ Each(reviewCache') = [Each(reviewCache) EXCEPT ![rid] = Cached(reviewCache', rid)]
<1>1. \A k \in Rids \ {rid} : Stage(k)' = Stage(k)
  BY SameStage DEF SameElsewhere
<1>2. [k \in Rids |-> Stage(k)]' = [[k \in Rids |-> Stage(k)] EXCEPT ![rid] = Stage(rid)']
  BY <1>1
<1>3. /\ Each(routeDigests') = [Each(routeDigests) EXCEPT ![rid] = Cached(routeDigests', rid)]
      /\ Each(contextCache') = [Each(contextCache) EXCEPT ![rid] = Cached(contextCache', rid)]
      /\ Each(reviewCache') = [Each(reviewCache) EXCEPT ![rid] = Cached(reviewCache', rid)]
  BY DEF SameElsewhere, SameAt, Each
<1> QED BY <1>2, <1>3

(* A step that the contract does not see.                                  *)
LEMMA Silent ==
    ASSUME \A k \in Rids : SameAt(k),
           UNCHANGED <<contextsOut, reviewsOut, acked, calls, restarts>>
    PROVE  UNCHANGED Contract!contractVars
<1>1. \A k \in Rids : Stage(k)' = Stage(k)
  BY SameStage
<1>2. /\ Each(routeDigests') = Each(routeDigests)
      /\ Each(contextCache') = Each(contextCache)
      /\ Each(reviewCache') = Each(reviewCache)
  BY DEF SameAt, Each
<1>3. [k \in Rids |-> Stage(k)]' = [k \in Rids |-> Stage(k)]
  BY <1>1
<1> QED BY <1>2, <1>3 DEF Contract!contractVars, Each

(* Only the holder of the lock is at the model.                            *)
LEMMA AtModelOf ==
    ASSUME RouteInv, NEW h \in Handlers, pc[h] \in Critical, OthersUntouched(h),
           pc'[h] = "model" => job'[h].route = job[h].route
    PROVE  \A k : /\ AtTheModel(k) <=> pc[h] = "model" /\ RidOf(h) = k
                  /\ AtTheModel(k)' <=> pc'[h] = "model" /\ RidOf(h) = k
<1>1. \A g \in Handlers \ {h} : pc[g] # "model"
  BY DEF RouteInv, HandlerInv, LockHeld, Critical, InFlight
<1>2. \A g \in Handlers \ {h} : pc'[g] # "model"
  BY <1>1 DEF OthersUntouched
<1> QED BY <1>1, <1>2 DEF AtTheModel, RidOf

-----------------------------------------------------------------------------
(* Every step is a step of the contract                                    *)

(* Remembering the owner of a route that has one changes nothing.          *)
LEMMA OwnerKnown ==
    ASSUME RoomForAll, TypeOK, CachesAgree, NEW h \in Handlers, RememberIdentity(h),
           \/ Held(contextCache, RidOf(h)) \/ Held(processed, RidOf(h))
           \/ Held(reviewCache, RidOf(h))
    PROVE  \A k \in Rids : Cached(routeDigests', k) = Cached(routeDigests, k)
<1>1. RidOf(h) \in Rids
  BY JobType DEF RidOf
<1>2. Cached(routeDigests, RidOf(h)) # {}
  BY <1>1, CachedReads DEF CachesAgree, AgreeAt
<1> QED BY <1>2, IdentityEffect

(* The refusals, a resend's and a retry's beginning.                       *)
LEMMA RefusalMaps ==
    ASSUME RoomForAll, TypeOK, RouteInv, NEW h \in Handlers,
           \/ RejectReused(h) \/ SkipProcessed(h) \/ RefuseCached(h)
           \/ ResendCached(h) \/ Recapture(h)
    PROVE  UNCHANGED Contract!contractVars
<1>1. /\ pc[h] = "admitted" /\ OthersUntouched(h) /\ pc'[h] # "model"
      /\ UNCHANGED <<caches, outside>>
  BY DEF RejectReused, SkipProcessed, RefuseCached, ResendCached, Recapture,
         HasCachedReview, Begins, RememberIdentity, Raise, Return, GoTo, TypeOK, OthersUntouched
<1>2. \A k \in Rids : Cached(routeDigests', k) = Cached(routeDigests, k)
  <2>1. CASE RejectReused(h)
    BY <2>1 DEF RejectReused, identities
  <2>2. CASE SkipProcessed(h) \/ RefuseCached(h) \/ ResendCached(h) \/ Recapture(h)
    BY <2>2, OwnerKnown
       DEF SkipProcessed, RefuseCached, ResendCached, Recapture, HasCachedReview, Begins,
           RidOf, RouteInv
  <2> QED BY <2>1, <2>2
<1>3. \A k : AtTheModel(k)' <=> AtTheModel(k)
  BY <1>1, AtModelOf DEF Critical
<1> QED BY <1>1, <1>2, <1>3, Silent DEF SameAt, caches, outside

LEMMA FinishDecides ==
    ASSUME RoomForAll, TypeOK, RouteInv, NEW h \in Handlers, pc[h] \in Critical,
           NEW review \in Reviews, review.route = job[h].route, Finish(h, review),
           ~Held(processed, RidOf(h)), ~Held(reviewCache, RidOf(h)),
           contextCache' = contextCache,
           Cached(routeDigests, RidOf(h)) \subseteq {job[h].route},
           \A j : Cached(routeDigests', j) =
                    IF j = RidOf(h) THEN {job[h].route} ELSE Cached(routeDigests, j),
           review.context = Cached(contextCache, RidOf(h)),
           review.reviewer = "LLM" => pc[h] = "model",
           contextsOut' = contextsOut \cup Cached(contextCache, RidOf(h)),
           UNCHANGED <<reviewsOut, acked, calls, restarts>>
    PROVE  \E rid \in Rids : Contract!Decide(rid)
<1>0. PICK rid \in Rids : rid = RidOf(h)
  BY JobType DEF RidOf
<1>1. job[h].route \in RouteMsgs /\ job[h].route.rid = rid
  BY <1>0, JobType DEF RidOf
<1>2. /\ pc'[h] = "sendReview" /\ OthersUntouched(h) /\ processed' = processed
      /\ \A j : Held(reviewCache', j) <=> j = rid \/ Held(reviewCache, j)
      /\ \A j : Cached(reviewCache', j) = IF j = rid THEN {review} ELSE Cached(reviewCache, j)
  BY <1>0, FinishEffect
<1>3. \A k : /\ AtTheModel(k) <=> pc[h] = "model" /\ rid = k
             /\ ~AtTheModel(k)'
  BY <1>0, <1>2, AtModelOf
<1>4. SameElsewhere(rid)
  BY <1>0, <1>2, <1>3 DEF SameElsewhere, SameAt
<1>5. /\ Stage(rid) \in {"open", "cut", "asked"} /\ Stage(rid)' = "decided"
      /\ review.reviewer = "LLM" => Stage(rid) = "asked"
  BY <1>0, <1>2, <1>3 DEF Stage
<1>6. /\ Each(routeDigests)[rid] \subseteq {job[h].route}
      /\ Each(routeDigests') = [Each(routeDigests) EXCEPT ![rid] = {job[h].route}]
      /\ Each(routeDigests')[rid] = {job[h].route}
      /\ Each(contextCache') = Each(contextCache)
      /\ Each(contextCache)[rid] = Cached(contextCache, rid)
      /\ Each(reviewCache') = [Each(reviewCache) EXCEPT ![rid] = {review}]
      /\ Each(reviewCache')[rid] = {review}
  <2>1. /\ Each(routeDigests') = [Each(routeDigests) EXCEPT ![rid] = {job[h].route}]
        /\ Each(reviewCache') = [Each(reviewCache) EXCEPT ![rid] = {review}]
    BY <1>0, <1>2, <1>4, Localized
  <2> QED BY <1>0, <2>1 DEF Each
<1>7. [k \in Rids |-> Stage(k)]' = [[k \in Rids |-> Stage(k)] EXCEPT ![rid] = "decided"]
  BY <1>4, <1>5, Localized
<1>8. Contract!Moves(rid, {"open", "cut", "asked"}, "decided")
  BY <1>1, <1>5, <1>7 DEF Contract!Moves
<1>9. Contract!Owned(rid)
  BY <1>1, <1>6 DEF Contract!Owned
<1>10. Contract!Shows(rid)
  BY <1>0, <1>6 DEF Contract!Shows
<1> QED BY <1>0, <1>1, <1>5, <1>6, <1>8, <1>9, <1>10 DEF Contract!Decide
(* What a review stands on.                                                *)
LEMMA ReviewStands ==
    /\ \A r, t, reason, context :
         /\ Defer(r, t, reason, context).context = context
         /\ Defer(r, t, reason, context).reviewer = "DETERMINISTIC"
    /\ \A r, context, started, finished, outcome :
         ModelReview(r, context, started, finished, outcome).context = {context}
    /\ \A review :
         /\ Sealed(review).context = review.context
         /\ Sealed(review).reviewer \in {"DETERMINISTIC", review.reviewer}
<1>1. \A r, t, reason, context :
        /\ Defer(r, t, reason, context).context = context
        /\ Defer(r, t, reason, context).reviewer = "DETERMINISTIC"
  BY DEF Defer
<1>2. \A r, context, started, finished, outcome :
        ModelReview(r, context, started, finished, outcome).context = {context}
  BY <1>1 DEF ModelReview
<1>3. \A review :
        /\ Sealed(review).context = review.context
        /\ Sealed(review).reviewer \in {"DETERMINISTIC", review.reviewer}
  BY <1>1 DEF Sealed
<1> QED BY <1>1, <1>2, <1>3

LEMMA DeferUnseenMaps ==
    ASSUME RoomForAll, TypeOK, RouteInv, NEW h \in Handlers, DeferUnseen(h)
    PROVE  \E rid \in Rids : Contract!Decide(rid)
<1>1. PICK reason \in Reasons :
        Finish(h, Defer(job[h].route, job[h].received, reason, {}))
  <2>1. BeginReason(h) \in Reasons /\ "DECISION_CONTEXT_EVICTED" \in Reasons
    BY ReasonTypes DEF BeginReason, Reasons
  <2> QED BY <2>1 DEF DeferUnseen
<1>2. PICK review \in Reviews :
        review = Defer(job[h].route, job[h].received, reason, {}) /\ Finish(h, review)
  BY <1>1, JobType, DeferType
<1>3. /\ review.route = job[h].route /\ review.context = {}
      /\ review.reviewer = "DETERMINISTIC"
  BY <1>2, ReviewRoutes, ReviewStands
<1>4. /\ RememberIdentity(h) /\ ~Held(processed, RidOf(h)) /\ ~Held(reviewCache, RidOf(h))
      /\ Cached(contextCache, RidOf(h)) = {}
      /\ contextCache' = contextCache
      /\ UNCHANGED <<contextsOut, reviewsOut, acked, calls, restarts>>
  BY CachedReads DEF DeferUnseen, Begins, RidOf, outside
<1> QED BY <1>2, <1>3, <1>4, IdentityEffect, FinishDecides DEF Critical

LEMMA CaptureMaps ==
    ASSUME RoomForAll, TypeOK, RouteInv, NEW h \in Handlers, Capture(h)
    PROVE  \E rid \in Rids : Contract!Freeze(rid) \/ Contract!Decide(rid)
<1>1. PICK rid \in Rids : rid = RidOf(h)
  BY JobType DEF RidOf
<1>2. /\ RememberIdentity(h) /\ pc[h] \in Critical /\ pc[h] # "model"
      /\ ~Held(processed, rid) /\ ~Held(reviewCache, rid) /\ ~Held(contextCache, rid)
      /\ UNCHANGED <<contextsOut, reviewsOut, acked, calls, restarts>>
  BY <1>1 DEF Capture, Begins, RememberIdentity, Unseen, Critical, RidOf, outside
<1>3. PICK c \in Contexts : c = Build(rid, job[h].received, now)
  BY <1>1, JobType, BuildType DEF TypeOK, StoreTypeOK
<1>4. CASE /\ Finish(h, Defer(job[h].route, job[h].received, "DECISION_CONTEXT_INVALID", {}))
           /\ UNCHANGED contextCache
  <2>1. PICK review \in Reviews :
          /\ review = Defer(job[h].route, job[h].received, "DECISION_CONTEXT_INVALID", {})
          /\ Finish(h, review)
    BY <1>4, JobType, DeferType DEF Reasons
  <2>2. /\ review.route = job[h].route /\ review.context = {}
        /\ review.reviewer = "DETERMINISTIC"
    BY <2>1, ReviewRoutes, ReviewStands
  <2>3. Cached(contextCache, rid) = {}
    BY <1>2, CachedReads
  <2> QED BY <1>1, <1>2, <1>4, <2>1, <2>2, <2>3, IdentityEffect, FinishDecides
<1>5. CASE /\ contextCache' = Remember(contextCache, rid, c, CacheSize)
           /\ job' = [job EXCEPT ![h].context = {c}]
           /\ GoTo(h, "sendContext")
           /\ UNCHANGED <<holder, processed, reviewCache>>
  <2>1. pc'[h] = "sendContext" /\ OthersUntouched(h)
    BY <1>5 DEF GoTo, TypeOK, OthersUntouched
  <2>2. \A k : ~(AtTheModel(k)) /\ ~AtTheModel(k)'
    BY <1>2, <2>1, AtModelOf
  <2>3. /\ \A j : Held(contextCache', j) <=> j = rid \/ Held(contextCache, j)
        /\ \A j : Cached(contextCache', j) = IF j = rid THEN {c} ELSE Cached(contextCache, j)
    <3>1. IsCache(contextCache, Rids, Contexts, CacheSize)
      BY DEF TypeOK
    <3> QED BY <3>1, <1>5, RememberAt
  <2>4. /\ \A j : Cached(routeDigests', j) =
                    IF j = rid THEN {job[h].route} ELSE Cached(routeDigests, j)
        /\ Cached(routeDigests, rid) \subseteq {job[h].route}
    BY <1>1, <1>2, IdentityEffect
  <2>5. SameElsewhere(rid)
    BY <1>5, <2>2, <2>3, <2>4 DEF SameElsewhere, SameAt
  <2>6. Stage(rid) = "open" /\ Stage(rid)' = "cut"
    BY <1>2, <1>5, <2>2, <2>3 DEF Stage
  <2>7. [k \in Rids |-> Stage(k)]' = [[k \in Rids |-> Stage(k)] EXCEPT ![rid] = "cut"]
    BY <2>5, <2>6, Localized
  <2>8. /\ Each(routeDigests') = [Each(routeDigests) EXCEPT ![rid] = {job[h].route}]
        /\ Each(contextCache') = [Each(contextCache) EXCEPT ![rid] = {c}]
    BY <2>3, <2>4, <2>5, Localized
  <2>9. /\ Each(routeDigests)[rid] \subseteq {job[h].route}
        /\ Each(contextCache')[rid] = {c}
        /\ Each(reviewCache') = Each(reviewCache)
    BY <1>5, <2>3, <2>4 DEF Each
  <2>10. Contract!Moves(rid, {"open"}, "cut")
    BY <2>6, <2>7 DEF Contract!Moves
  <2>11. Contract!Owned(rid)
    <3>1. job[h].route \in RouteMsgs /\ job[h].route.rid = rid
      BY <1>1, JobType DEF RidOf
    <3> QED BY <2>8, <2>9, <3>1 DEF Contract!Owned
  <2>12. c.rid = rid
    BY <1>3 DEF Build
  <2> QED BY <1>2, <2>8, <2>9, <2>10, <2>11, <2>12 DEF Contract!Freeze
<1> QED BY <1>1, <1>3, <1>4, <1>5 DEF Capture, RidOf

LEMMA DeferAfterContextMaps ==
    ASSUME RoomForAll, TypeOK, RouteInv, NEW h \in Handlers, DeferAfterContext(h)
    PROVE  \E rid \in Rids : Contract!Decide(rid)
<1>1. PICK context \in job[h].context, t \in Times, reason \in Reasons :
        Finish(h, Sealed(Defer(job[h].route, t, reason, {context})))
  <2>1. PICK context \in job[h].context :
          \/ Finish(h, Sealed(Defer(job[h].route, job[h].received,
                                    ReasonAfterContext(h, context), {context})))
          \/ Finish(h, Sealed(Defer(job[h].route, now, StartReason(context, now), {context})))
    BY DEF DeferAfterContext
  <2>2. ReasonAfterContext(h, context) \in Reasons /\ StartReason(context, now) \in Reasons
    BY JobType, ReasonTypes DEF ReasonAfterContext, Reasons
  <2> QED BY <2>1, <2>2, JobType DEF TypeOK, StoreTypeOK
<1>2. PICK review \in Reviews :
        /\ review = Sealed(Defer(job[h].route, t, reason, {context}))
        /\ Finish(h, review)
  <2>1. Defer(job[h].route, t, reason, {context}) \in Reviews
    BY <1>1, JobType, DeferType
  <2> QED BY <1>1, <2>1, SealedType DEF TypeOK, StoreTypeOK
<1>3. /\ review.route = job[h].route /\ review.context = {context}
      /\ review.reviewer = "DETERMINISTIC"
  BY <1>2, ReviewRoutes, ReviewStands
<1>4. /\ pc[h] = "sendContext" /\ contextsOut' = contextsOut \cup job[h].context
      /\ UNCHANGED <<routeDigests, contextCache, reviewsOut, acked, calls, restarts>>
  BY DEF DeferAfterContext, ContextSent, identities
<1>5. /\ job[h].context = Cached(contextCache, RidOf(h))
      /\ ~Held(reviewCache, RidOf(h))
  BY <1>4 DEF RouteInv, HandlerInv, HandsContext, NotYetReviewed
<1>6. {context} = Cached(contextCache, RidOf(h))
  BY <1>1, <1>5, CachedReads
<1> QED BY <1>2, <1>3, <1>4, <1>5, <1>6, OwnerStays, FinishDecides DEF InFlight

LEMMA ModelReturnsMaps ==
    ASSUME RoomForAll, TypeOK, RouteInv, NEW h \in Handlers, NEW outcome \in Outcomes,
           ModelReturns(h, outcome)
    PROVE  \E rid \in Rids : Contract!Decide(rid)
<1>1. PICK context \in job[h].context :
        Finish(h, Sealed(ModelReview(job[h].route, context, job[h].started, now, outcome)))
  BY DEF ModelReturns
<1>2. PICK review \in Reviews :
        /\ review = Sealed(ModelReview(job[h].route, context, job[h].started, now, outcome))
        /\ Finish(h, review)
  <2>1. ModelReview(job[h].route, context, job[h].started, now, outcome) \in Reviews
    BY <1>1, JobType, ModelReviewType DEF TypeOK, StoreTypeOK
  <2> QED BY <1>1, <2>1, SealedType DEF TypeOK, StoreTypeOK
<1>3. review.route = job[h].route /\ review.context = {context}
  BY <1>2, ReviewRoutes, ReviewStands
<1>4. /\ pc[h] = "model"
      /\ UNCHANGED <<routeDigests, contextCache, contextsOut, reviewsOut, acked, calls, restarts>>
  BY DEF ModelReturns, identities, outside
<1>5. /\ job[h].context = Cached(contextCache, RidOf(h))
      /\ job[h].context \subseteq contextsOut
      /\ ~Held(reviewCache, RidOf(h))
  BY <1>4 DEF RouteInv, HandlerInv, HandsContext, AsksOverShown, NotYetReviewed
<1>6. {context} = Cached(contextCache, RidOf(h))
  BY <1>1, <1>5, CachedReads
<1>7. contextsOut' = contextsOut \cup Cached(contextCache, RidOf(h))
  BY <1>4, <1>5
<1> QED BY <1>2, <1>3, <1>4, <1>5, <1>6, <1>7, OwnerStays, FinishDecides DEF InFlight
(* An answer the guard loses leaves the route with its cut, as before the  *)
(* question.                                                               *)
LEMMA AnswerLostMaps ==
    ASSUME RoomForAll, TypeOK, RouteInv, NEW h \in Handlers, AnswerLost(h)
    PROVE  \E rid \in Rids : Contract!Lose(rid)
<1>1. PICK rid \in Rids : rid = RidOf(h)
  BY JobType DEF RidOf
<1>2. /\ pc[h] = "model" /\ pc'[h] = "idle" /\ OthersUntouched(h)
      /\ UNCHANGED <<identities, caches, contextsOut, reviewsOut, acked, calls, restarts>>
  BY RaiseEffect DEF AnswerLost, outside
<1>3. /\ job[h].context = Cached(contextCache, rid) /\ Held(contextCache, rid)
      /\ job[h].context \subseteq contextsOut
      /\ ~Held(reviewCache, rid) /\ ~Held(processed, rid)
  BY <1>1, <1>2
     DEF RouteInv, HandlerInv, HandsContext, AsksOverShown, NotYetReviewed, NotYetProcessed,
         InFlight
<1>4. \A k : (AtTheModel(k) <=> rid = k) /\ ~AtTheModel(k)'
  BY <1>1, <1>2, AtModelOf DEF Critical, InFlight
<1>5. SameElsewhere(rid)
  BY <1>2, <1>4 DEF SameElsewhere, SameAt, identities, caches
<1>6. Stage(rid) = "asked" /\ Stage(rid)' = "cut"
  BY <1>2, <1>3, <1>4 DEF Stage, caches
<1>7. [k \in Rids |-> Stage(k)]' = [[k \in Rids |-> Stage(k)] EXCEPT ![rid] = "cut"]
  BY <1>5, <1>6, Localized
<1>8. Contract!Moves(rid, {"asked"}, "cut")
  BY <1>6, <1>7 DEF Contract!Moves
<1>9. \E c \in Cached(contextCache, rid) \cap contextsOut :
        c \in Contexts /\ Opposes(c.rid, c)
  <2>1. PICK context \in job[h].context : Opposes(context.rid, context)
    BY DEF AnswerLost, GuardRaises
  <2>2. context \in Contexts
    BY <2>1, JobType
  <2> QED BY <1>3, <2>1, <2>2
<1>10. Each(contextCache)[rid] \cap contextsOut \cap {c \in Contexts : Opposes(c.rid, c)} # {}
  BY <1>9 DEF Each
<1> QED BY <1>2, <1>8, <1>10 DEF Contract!Lose, Each, identities, caches

(* A call is counted: the bound on the counter is reached only where the   *)
(* evidence opposes the route.                                             *)
LEMMA DispatchMaps ==
    ASSUME RoomForAll, TypeOK, RouteInv, CountInv, NEW h \in Handlers, Dispatch(h)
    PROVE  \E rid \in Rids : Contract!Ask(rid)
<1>1. PICK rid \in Rids : rid = RidOf(h)
  BY JobType DEF RidOf
<1>2. /\ pc[h] = "sendContext" /\ pc'[h] = "model" /\ OthersUntouched(h)
      /\ job'[h].route = job[h].route
      /\ contextsOut' = contextsOut \cup job[h].context
      /\ calls' = [calls EXCEPT ![rid] = IF @ < MaxCalls THEN @ + 1 ELSE @]
      /\ UNCHANGED <<identities, caches, reviewsOut, acked, restarts>>
  BY <1>1 DEF Dispatch, ContextSent, GoTo, TypeOK, Jobs, OthersUntouched, caches, RidOf
<1>3. /\ job[h].context = Cached(contextCache, rid) /\ Held(contextCache, rid)
      /\ ~Held(reviewCache, rid) /\ ~Held(processed, rid)
  BY <1>1, <1>2 DEF RouteInv, HandlerInv, HandsContext, NotYetReviewed, NotYetProcessed, InFlight
<1>4. \A k : ~AtTheModel(k) /\ (AtTheModel(k)' <=> rid = k)
  BY <1>1, <1>2, AtModelOf DEF Critical, InFlight
<1>5. SameElsewhere(rid)
  BY <1>2, <1>4 DEF SameElsewhere, SameAt, identities, caches
<1>6. Stage(rid) = "cut" /\ Stage(rid)' = "asked"
  BY <1>2, <1>3, <1>4 DEF Stage, caches
<1>7. [k \in Rids |-> Stage(k)]' = [[k \in Rids |-> Stage(k)] EXCEPT ![rid] = "asked"]
  BY <1>5, <1>6, Localized
<1>8. Contract!Moves(rid, {"cut"}, "asked")
  BY <1>6, <1>7 DEF Contract!Moves
<1>9. Contract!Shows(rid)
  BY <1>2, <1>3 DEF Contract!Shows, Each
<1>10. calls' = [calls EXCEPT ![rid] = @ + 1] \/ (Contract!Opposed(rid)' /\ calls' = calls)
  <2>1. CASE calls[rid] < MaxCalls
    BY <1>2, <2>1
  <2>2. CASE ~(calls[rid] < MaxCalls)
    <3>1. calls' = calls
      BY <1>2, <2>2 DEF TypeOK
    <3>2. ~(calls[rid] <= restarts)
      BY <2>2, ReviewAssumption DEF TypeOK, MaxCalls
    <3>3. Opposed(rid)
      BY <1>6, <3>2 DEF CountInv, CallsCounted, TypeOK
    <3>4. PICK c \in contextsOut : c.rid = rid /\ Opposes(rid, c)
      BY <3>3 DEF Opposed
    <3>5. c \in contextsOut' /\ c \in {d \in Contexts : Opposes(d.rid, d)}
      BY <1>2, <3>4 DEF TypeOK
    <3> QED BY <3>1, <3>4, <3>5 DEF Contract!Opposed
  <2> QED BY <2>1, <2>2
<1> QED BY <1>2, <1>8, <1>9, <1>10 DEF Contract!Ask, Each, identities, caches

LEMMA ContextResentMaps ==
    ASSUME RoomForAll, TypeOK, RouteInv, NEW h \in Handlers, ContextResent(h) \/ ContextFails(h)
    PROVE  (\E rid \in Rids : Contract!Show(rid)) \/ UNCHANGED Contract!contractVars
<1>1. PICK rid \in Rids : rid = RidOf(h)
  BY JobType DEF RidOf
<1>2. /\ pc[h] \in {"sendContext", "resendContext"} /\ pc'[h] # "model" /\ OthersUntouched(h)
      /\ UNCHANGED <<identities, caches, reviewsOut, acked, calls, restarts>>
      /\ contextsOut' \in {contextsOut, contextsOut \cup job[h].context}
  BY DEF ContextResent, ContextFails, Raise, GoTo, TypeOK, OthersUntouched
<1>3. \A k : ~AtTheModel(k) /\ ~AtTheModel(k)'
  BY <1>2, AtModelOf DEF Critical, InFlight
<1>4. \A k \in Rids : SameAt(k)
  BY <1>2, <1>3 DEF SameAt, identities, caches
<1>5. CASE contextsOut' = contextsOut
  BY <1>2, <1>4, <1>5, Silent
<1>6. CASE contextsOut' = contextsOut \cup job[h].context
  <2>1. /\ job[h].context = Cached(contextCache, rid) /\ Held(contextCache, rid)
        /\ ~Held(processed, rid)
    BY <1>1, <1>2 DEF RouteInv, HandlerInv, HandsContext, NotYetProcessed, InFlight
  <2>2. Stage(rid) \in {"cut", "decided"}
    BY <1>3, <2>1 DEF Stage
  <2>3. Contract!Shows(rid)
    BY <1>6, <2>1 DEF Contract!Shows, Each
  <2>4. [k \in Rids |-> Stage(k)]' = [k \in Rids |-> Stage(k)]
    BY <1>4, SameStage
  <2> QED BY <1>2, <2>2, <2>3, <2>4 DEF Contract!Show, Each, identities, caches
<1> QED BY <1>2, <1>5, <1>6

(* A review that is being published is the cached one.                     *)
LEMMA HandsCached ==
    ASSUME TypeOK, RouteInv, NEW h \in Handlers, pc[h] = "sendReview"
    PROVE  /\ job[h].review = Cached(reviewCache, RidOf(h))
           /\ Stage(RidOf(h)) = "decided"
BY DEF RouteInv, HandlerInv, HandsReview, Sends, NotYetProcessed, InFlight, Stage

LEMMA ReviewSentMaps ==
    ASSUME RoomForAll, TypeOK, RouteInv, NEW h \in Handlers, ReviewSent(h)
    PROVE  \E rid \in Rids : Contract!Settle(rid)
<1>1. PICK rid \in Rids : rid = RidOf(h)
  BY JobType DEF RidOf
<1>2. /\ pc[h] = "sendReview" /\ pc'[h] = "acking" /\ OthersUntouched(h)
      /\ reviewsOut' = reviewsOut \cup job[h].review
      /\ UNCHANGED <<identities, contextCache, contextsOut, acked, calls, restarts>>
  BY ReturnEffect DEF ReviewSent
<1>3. \A k : ~AtTheModel(k) /\ ~AtTheModel(k)'
  BY <1>2, AtModelOf DEF Critical, InFlight
<1>4. /\ \A j : Held(processed', j) <=> j = rid \/ Held(processed, j)
      /\ \A j : Cached(reviewCache', j) = IF j = rid THEN {} ELSE Cached(reviewCache, j)
  BY <1>1, ReviewSentEffect
<1>5. SameElsewhere(rid)
  BY <1>2, <1>3, <1>4 DEF SameElsewhere, SameAt, identities
<1>6. Stage(rid) = "decided" /\ Stage(rid)' = "done"
  BY <1>1, <1>2, <1>4, HandsCached DEF Stage
<1>7. [k \in Rids |-> Stage(k)]' = [[k \in Rids |-> Stage(k)] EXCEPT ![rid] = "done"]
  BY <1>5, <1>6, Localized
<1>8. Each(reviewCache') = [Each(reviewCache) EXCEPT ![rid] = {}]
  BY <1>4, <1>5, Localized
<1>9. Contract!Moves(rid, {"decided"}, "done")
  BY <1>6, <1>7 DEF Contract!Moves
<1>10. reviewsOut' = reviewsOut \cup Each(reviewCache)[rid]
  BY <1>1, <1>2, HandsCached DEF Each
<1> QED BY <1>2, <1>8, <1>9, <1>10 DEF Contract!Settle, Each, identities

LEMMA ReviewFailsMaps ==
    ASSUME RoomForAll, TypeOK, RouteInv, NEW h \in Handlers, ReviewFails(h)
    PROVE  (\E rid \in Rids : Contract!Deliver(rid)) \/ UNCHANGED Contract!contractVars
<1>1. PICK rid \in Rids : rid = RidOf(h)
  BY JobType DEF RidOf
<1>2. /\ pc[h] = "sendReview" /\ pc'[h] = "idle" /\ OthersUntouched(h)
      /\ UNCHANGED <<identities, caches, contextsOut, acked, calls, restarts>>
      /\ reviewsOut' \in {reviewsOut, reviewsOut \cup job[h].review}
  BY RaiseEffect DEF ReviewFails
<1>3. \A k : ~AtTheModel(k) /\ ~AtTheModel(k)'
  BY <1>2, AtModelOf DEF Critical, InFlight
<1>4. \A k \in Rids : SameAt(k)
  BY <1>2, <1>3 DEF SameAt, identities, caches
<1>5. CASE reviewsOut' = reviewsOut
  BY <1>2, <1>4, <1>5, Silent
<1>6. CASE reviewsOut' = reviewsOut \cup job[h].review
  <2>1. Stage(rid) = "decided" /\ reviewsOut' = reviewsOut \cup Each(reviewCache)[rid]
    BY <1>1, <1>2, <1>6, HandsCached DEF Each
  <2>2. [k \in Rids |-> Stage(k)]' = [k \in Rids |-> Stage(k)]
    BY <1>4, SameStage
  <2> QED BY <1>2, <2>1, <2>2 DEF Contract!Deliver, Each, identities, caches
<1> QED BY <1>2, <1>5, <1>6

(* A handler that is not at the model stays away from it.                  *)
LEMMA AwayFromModel ==
    ASSUME NEW h \in Handlers, OthersUntouched(h), pc[h] # "model", pc'[h] # "model"
    PROVE  \A k : AtTheModel(k)' <=> AtTheModel(k)
BY DEF AtTheModel, OthersUntouched

LEMMA AckMaps ==
    ASSUME TypeOK, RouteInv, NEW h \in Handlers, Ack(h)
    PROVE  \E rid \in Rids : Contract!Acknowledge(rid)
<1>1. PICK rid \in Rids : rid = RidOf(h)
  BY JobType DEF RidOf
<1>2. /\ pc[h] = "acking" /\ pc'[h] = "idle" /\ OthersUntouched(h)
      /\ acked' = acked \cup {job[h].route}
      /\ UNCHANGED <<identities, caches, contextsOut, reviewsOut, calls, restarts>>
  BY DEF Ack, GoTo, TypeOK, OthersUntouched
<1>3. Held(processed, rid) /\ Cached(routeDigests, rid) = {job[h].route}
  BY <1>1, <1>2 DEF RouteInv, HandlerInv, OwnsRoute, AcksProcessed
<1>4. \A k \in Rids : SameAt(k)
  BY <1>2, AwayFromModel DEF SameAt, identities, caches
<1>5. [k \in Rids |-> Stage(k)]' = [k \in Rids |-> Stage(k)]
  BY <1>4, SameStage
<1>6. Stage(rid) = "done" /\ acked' = acked \cup Each(routeDigests)[rid]
  BY <1>2, <1>3 DEF Stage, Each
<1> QED BY <1>2, <1>5, <1>6 DEF Contract!Acknowledge, Each, identities, caches

LEMMA EntryMaps ==
    ASSUME TypeOK, RouteInv, NEW h \in Handlers,
           (\E r \in RouteMsgs : Receive(h, r)) \/ Wake(h) \/ AckFails(h)
    PROVE  UNCHANGED Contract!contractVars
<1>1. /\ pc[h] # "model" /\ pc'[h] # "model" /\ OthersUntouched(h)
      /\ UNCHANGED <<identities, caches, outside>>
  BY DEF Receive, Wake, AckFails, GoTo, TypeOK, OthersUntouched
<1>2. \A k \in Rids : SameAt(k)
  BY <1>1, AwayFromModel DEF SameAt, identities, caches
<1> QED BY <1>1, <1>2, Silent DEF outside

LEMMA OutsideMaps ==
    ASSUME UNCHANGED <<identities, caches, tasks, outside>>
    PROVE  UNCHANGED Contract!contractVars
<1>1. \A k \in Rids : SameAt(k)
  BY DEF SameAt, AtTheModel, identities, caches, tasks
<1> QED BY <1>1, Silent DEF outside

LEMMA RestartMaps == ASSUME Restart PROVE Contract!Die
<1>1. /\ \A h \in Handlers : pc'[h] = "idle"
      /\ routeDigests' = EmptyCache /\ contextCache' = EmptyCache
      /\ processed' = EmptyCache /\ reviewCache' = EmptyCache
      /\ restarts' = restarts + 1
      /\ UNCHANGED <<contextsOut, reviewsOut, acked, calls>>
  BY DEF Restart, NewService
<1>2. \A k \in Rids : Stage(k)' = "open"
  BY <1>1, NoneCached DEF Stage, AtTheModel
<1>3. [k \in Rids |-> Stage(k)]' = [k \in Rids |-> "open"]
  BY <1>2
<1>4. /\ Each(routeDigests') = [k \in Rids |-> {}]
      /\ Each(contextCache') = [k \in Rids |-> {}]
      /\ Each(reviewCache') = [k \in Rids |-> {}]
  BY <1>1, NoneCached DEF Each
<1> QED BY <1>1, <1>3, <1>4 DEF Contract!Die

LEMMA StepMaps ==
    ASSUME RoomForAll, TypeOK, RouteInv, CountInv, [Next]_vars
    PROVE  [Contract!ContractNext]_(Contract!contractVars)
<1>1. CASE \E h \in Handlers, r \in RouteMsgs : Receive(h, r)
  BY <1>1, EntryMaps
<1>2. ASSUME NEW h \in Handlers, Proceed(h)
      PROVE  [Contract!ContractNext]_(Contract!contractVars)
  BY <1>2, EntryMaps, RefusalMaps, DeferUnseenMaps, CaptureMaps
     DEF Proceed, Contract!ContractNext
<1>3. ASSUME NEW h \in Handlers, Succeed(h)
      PROVE  [Contract!ContractNext]_(Contract!contractVars)
  BY <1>3, DeferAfterContextMaps, DispatchMaps, ModelReturnsMaps, ContextResentMaps,
     ReviewSentMaps, AckMaps DEF Succeed, Contract!ContractNext
<1>4. ASSUME NEW h \in Handlers, Fail(h)
      PROVE  [Contract!ContractNext]_(Contract!contractVars)
  BY <1>4, EntryMaps, ContextResentMaps, ReviewFailsMaps, AnswerLostMaps
     DEF Fail, Contract!ContractNext
<1>5. CASE SourceTask \/ ControlTask \/ Clock
  BY <1>5, OutsideMaps DEF SourceTask, ControlTask, Clock
<1>6. CASE Restart
  BY <1>6, RestartMaps DEF Contract!ContractNext
<1>7. CASE UNCHANGED vars
  BY <1>7, OutsideMaps DEF vars
<1> QED BY <1>1, <1>2, <1>3, <1>4, <1>5, <1>6, <1>7 DEF Next
-----------------------------------------------------------------------------
(* What a life leaves behind is counted by the contract's steps            *)

LEMMA CachedFinite == \A c, k : IsFiniteSet(Cached(c, k)) /\ Cardinality(Cached(c, k)) <= 1
<1> SUFFICES ASSUME NEW c, NEW k
             PROVE  IsFiniteSet(Cached(c, k)) /\ Cardinality(Cached(c, k)) <= 1
  OBVIOUS
<1>1. CASE Held(c, k)
  <2>1. PICK v : Cached(c, k) = {v}
    BY <1>1, CachedReads
  <2>2. IsFiniteSet({v}) /\ Cardinality({v}) = 1
    BY FS_Singleton
  <2> QED BY <2>1, <2>2
<1>2. CASE ~Held(c, k)
  BY <1>2, CachedReads, FS_EmptySet
<1> QED BY <1>1, <1>2

LEMMA LeftKept ==
    ASSUME NEW S, NEW C, NEW n, Left(S, C, n), IsFiniteSet(C)
    PROVE  Left(S \cup C, C, n)
<1>1. IsFiniteSet(S \cup C)
  BY FS_Union DEF Left
<1>2. (S \cup C) \ C = S \ C
  OBVIOUS
<1> QED BY <1>1, <1>2 DEF Left

LEMMA LeftMore ==
    ASSUME NEW S, NEW C, NEW n \in Int, Left(S, {}, n)
    PROVE  Left(S, C, n)
<1>1. IsFiniteSet(S) /\ S \ {} = S /\ Cardinality(S) <= n
  <2>1. S \ {} = S
    OBVIOUS
  <2> QED BY <2>1 DEF Left
<1>2. S \ C \in SUBSET S
  OBVIOUS
<1>3. Cardinality(S \ C) <= Cardinality(S)
  BY <1>1, <1>2, FS_Subset
<1>4. Cardinality(S \ C) \in Nat /\ Cardinality(S) \in Nat
  BY <1>1, <1>2, FS_Subset, FS_CardinalityType
<1> QED BY <1>1, <1>3, <1>4 DEF Left

LEMMA LeftOne ==
    ASSUME NEW S, NEW c, NEW k, NEW n \in Int, Left(S, Cached(c, k), n)
    PROVE  Left(S, {}, n + 1)
<1> DEFINE C == Cached(c, k)
<1>1. IsFiniteSet(S) /\ IsFiniteSet(S \ C) /\ IsFiniteSet(C)
  BY CachedFinite, FS_Difference DEF Left
<1>2. /\ Cardinality(S \ C) \in Nat /\ Cardinality(C) \in Nat
      /\ Cardinality(S \ C) <= n /\ Cardinality(C) <= 1
  BY <1>1, CachedFinite, FS_CardinalityType DEF Left
<1>3. Cardinality((S \ C) \cup C) <= n + 1
  <2>1. /\ Cardinality((S \ C) \cup C) =
             Cardinality(S \ C) + Cardinality(C) - Cardinality((S \ C) \cap C)
        /\ IsFiniteSet((S \ C) \cap C)
    BY <1>1, FS_Union, FS_Intersection
  <2>2. Cardinality((S \ C) \cap C) \in Nat
    BY <2>1, FS_CardinalityType
  <2> QED BY <1>2, <2>1, <2>2
<1>4. S \in SUBSET ((S \ C) \cup C) /\ IsFiniteSet((S \ C) \cup C)
  BY <1>1, FS_Union
<1>5. Cardinality(S) <= Cardinality((S \ C) \cup C)
  BY <1>4, FS_Subset
<1>6. Cardinality(S) \in Nat /\ Cardinality((S \ C) \cup C) \in Nat
  BY <1>1, <1>4, FS_CardinalityType
<1>7. S \ {} = S
  OBVIOUS
<1> QED BY <1>1, <1>3, <1>5, <1>6, <1>7 DEF Left

(* The contract's variables, route by route.                               *)
LEMMA Views ==
    \A k \in Rids :
      /\ Each(contextCache)[k] = Cached(contextCache, k)
      /\ Each(contextCache')[k] = Cached(contextCache', k)
      /\ Each(reviewCache)[k] = Cached(reviewCache, k)
      /\ Each(reviewCache')[k] = Cached(reviewCache', k)
      /\ [j \in Rids |-> Stage(j)][k] = Stage(k)
      /\ [j \in Rids |-> Stage(j)]'[k] = Stage(k)'
BY DEF Each

LEMMA ShownCuts ==
    ASSUME CachesAgree, NEW rid \in Rids,
           contextsOut' = contextsOut \cup Cached(contextCache, rid)
    PROVE  \A k \in Rids : CutsOf(k)' = IF k = rid THEN CutsOf(k) \cup Cached(contextCache, k)
                                        ELSE CutsOf(k)
BY DEF CachesAgree, AgreeAt, CutsOf

LEMMA GivenReviews ==
    ASSUME CachesAgree, NEW rid \in Rids,
           reviewsOut' = reviewsOut \cup Cached(reviewCache, rid)
    PROVE  \A k \in Rids : ReviewsOf(k)' = IF k = rid THEN ReviewsOf(k) \cup Cached(reviewCache, k)
                                           ELSE ReviewsOf(k)
<1>1. \A x \in Cached(reviewCache, rid) : x.route.rid = rid
  BY DEF CachesAgree, AgreeAt
<1> QED BY <1>1 DEF ReviewsOf

(* What a stage says of the caches.                                        *)
LEMMA StageReads ==
    \A k : /\ Stage(k) = "open" => Cached(contextCache, k) = {}
           /\ Stage(k) \in {"open", "cut", "asked"} => Cached(reviewCache, k) = {}
BY CachedReads DEF Stage

(* A route whose evidence was opposed once stays so.                       *)
LEMMA OpposingCut ==
    ASSUME NEW k, Opposed(k), CutsOf(k) \subseteq CutsOf(k)' PROVE Opposed(k)'
<1>1. PICK c \in CutsOf(k) : c.rid = k /\ Opposes(k, c)
  BY DEF Opposed, CutsOf
<1>2. c \in contextsOut'
  BY <1>1 DEF CutsOf
<1> QED BY <1>1, <1>2 DEF Opposed

(* How a step looks to a route: what it shows, gives and pays.             *)
LEMMA CountsAt ==
    ASSUME TypeOK, TypeOK', CachesAgree, CountInv, NEW k \in Rids, restarts' = restarts,
           \/ CutsOf(k)' = CutsOf(k)
           \/ CutsOf(k)' = CutsOf(k) \cup Cached(contextCache, k),
           \/ Cached(contextCache', k) = Cached(contextCache, k)
           \/ Stage(k) = "open" /\ CutsOf(k)' = CutsOf(k),
           \/ ReviewsOf(k)' = ReviewsOf(k)
           \/ ReviewsOf(k)' = ReviewsOf(k) \cup Cached(reviewCache, k),
           \/ Cached(reviewCache', k) = Cached(reviewCache, k) /\ Stage(k)' # "done"
              /\ Stage(k) # "done"
           \/ Cached(reviewCache', k) = Cached(reviewCache, k) /\ Stage(k)' = Stage(k)
           \/ Stage(k) \in {"open", "cut", "asked"} /\ ReviewsOf(k)' = ReviewsOf(k)
              /\ Stage(k)' = "decided"
           \/ Stage(k) = "decided" /\ Stage(k)' = "done" /\ Cached(reviewCache', k) = {},
           \/ calls'[k] = calls[k] /\ Stage(k)' = Stage(k)
           \/ calls'[k] = calls[k] /\ Stage(k) = "open" /\ Stage(k)' = "cut"
           \/ calls'[k] = calls[k] /\ Stage(k)' \in {"decided", "done"}
           \/ calls'[k] = calls[k] + 1 /\ Stage(k) = "cut" /\ Stage(k)' = "asked"
           \/ Opposed(k)'
    PROVE  CallsCounted(k)' /\ CutsCounted(k)' /\ ReviewsCounted(k)'
<1>1. /\ CallsCounted(k) /\ CutsCounted(k) /\ ReviewsCounted(k)
      /\ restarts \in Int /\ calls[k] \in Int /\ calls'[k] \in Int
  BY DEF CountInv, TypeOK
<1>2. CallsCounted(k)'
  <2>1. CASE Opposed(k)
    BY <2>1, OpposingCut DEF CallsCounted
  <2>2. CASE ~Opposed(k)
    BY <1>1, <2>2 DEF CallsCounted
  <2> QED BY <2>1, <2>2
<1>3. CutsCounted(k)'
  <2>1. CASE Cached(contextCache', k) = Cached(contextCache, k)
    BY <1>1, <2>1, CachedFinite, LeftKept DEF CutsCounted
  <2>2. CASE Stage(k) = "open" /\ CutsOf(k)' = CutsOf(k)
    BY <1>1, <2>2, StageReads, LeftMore DEF CutsCounted
  <2> QED BY <2>1, <2>2
<1>4. ReviewsCounted(k)'
  <2> DEFINE n == restarts + (IF Stage(k) = "done" THEN 1 ELSE 0)
  <2>1. /\ Left(ReviewsOf(k), Cached(reviewCache, k), n) /\ n \in Int
        /\ Left(ReviewsOf(k)', Cached(reviewCache, k), n)
    BY <1>1, CachedFinite, LeftKept DEF ReviewsCounted
  <2>2. CASE /\ Cached(reviewCache', k) = Cached(reviewCache, k)
             /\ Stage(k)' = Stage(k) \/ (Stage(k)' # "done" /\ Stage(k) # "done")
    BY <2>1, <2>2 DEF ReviewsCounted
  <2>3. CASE /\ Stage(k) \in {"open", "cut", "asked"} /\ ReviewsOf(k)' = ReviewsOf(k)
             /\ Stage(k)' = "decided"
    BY <2>1, <2>3, StageReads, LeftMore DEF ReviewsCounted
  <2>4. CASE Stage(k) = "decided" /\ Stage(k)' = "done" /\ Cached(reviewCache', k) = {}
    <3>1. Left(ReviewsOf(k)', {}, n + 1)
      BY <2>1, LeftOne
    <3>2. n + 1 = restarts' + 1
      BY <1>1, <2>4
    <3>3. (restarts + (IF Stage(k) = "done" THEN 1 ELSE 0))' = n + 1
      BY <2>4, <3>2
    <3> HIDE DEF n
    <3> QED BY <2>4, <3>1, <3>3 DEF ReviewsCounted
  <2> QED BY <2>2, <2>3, <2>4
<1> QED BY <1>2, <1>3, <1>4
(* A move of one route, and a value put in the place of one route.         *)
LEMMA MovesOne ==
    ASSUME NEW rid \in Rids, NEW from, NEW to, Contract!Moves(rid, from, to)
    PROVE  /\ Stage(rid) \in from
           /\ \A k \in Rids : Stage(k)' = IF k = rid THEN to ELSE Stage(k)
<1> DEFINE S == [k \in Rids |-> Stage(k)]
<1>1. S[rid] \in from /\ S' = [S EXCEPT ![rid] = to]
  BY DEF Contract!Moves
<1>2. ASSUME NEW k \in Rids PROVE S[k] = Stage(k) /\ S'[k] = Stage(k)'
  OBVIOUS
<1>3. ASSUME NEW k \in Rids PROVE S'[k] = IF k = rid THEN to ELSE S[k]
  BY <1>1
<1> QED BY <1>1, <1>2, <1>3

LEMMA PutOne ==
    ASSUME NEW c, NEW d, NEW rid \in Rids, NEW w,
           Each(d) = [Each(c) EXCEPT ![rid] = w]
    PROVE  \A k \in Rids : Cached(d, k) = IF k = rid THEN w ELSE Cached(c, k)
<1>1. ASSUME NEW k \in Rids
      PROVE  /\ Each(d)[k] = Cached(d, k) /\ Each(c)[k] = Cached(c, k)
             /\ [Each(c) EXCEPT ![rid] = w][k] = IF k = rid THEN w ELSE Each(c)[k]
  BY DEF Each
<1> QED BY <1>1

LEMMA RouteStepCounts ==
    ASSUME TypeOK, TypeOK', CachesAgree, CountInv, NEW rid \in Rids,
           \/ Contract!Freeze(rid) \/ Contract!Show(rid) \/ Contract!Ask(rid)
           \/ Contract!Lose(rid) \/ Contract!Decide(rid) \/ Contract!Deliver(rid) \/ Contract!Settle(rid)
           \/ Contract!Acknowledge(rid)
    PROVE  CountInv'
<1> SUFFICES ASSUME NEW k \in Rids
             PROVE  CallsCounted(k)' /\ CutsCounted(k)' /\ ReviewsCounted(k)'
  BY DEF CountInv
<1> USE Views
<1>0. /\ contextsOut' = contextsOut => CutsOf(k)' = CutsOf(k)
      /\ reviewsOut' = reviewsOut => ReviewsOf(k)' = ReviewsOf(k)
  BY DEF CutsOf, ReviewsOf
<1>1. CASE Contract!Freeze(rid)
  <2>1. /\ restarts' = restarts /\ contextsOut' = contextsOut /\ reviewsOut' = reviewsOut
        /\ calls' = calls
        /\ Cached(reviewCache', k) = Cached(reviewCache, k)
        /\ k # rid => Stage(k)' = Stage(k) /\ Cached(contextCache', k) = Cached(contextCache, k)
        /\ k = rid => Stage(k) = "open" /\ Stage(k)' = "cut"
    <3>1. PICK c : Each(contextCache)' = [Each(contextCache) EXCEPT ![rid] = {c}]
      BY <1>1 DEF Contract!Freeze
    <3>2. \A j \in Rids : Cached(contextCache', j) = IF j = rid THEN {c}
                                                      ELSE Cached(contextCache, j)
      BY <3>1, PutOne
    <3>3. /\ Stage(rid) \in {"open"}
          /\ \A j \in Rids : Stage(j)' = IF j = rid THEN "cut" ELSE Stage(j)
      BY <1>1, MovesOne DEF Contract!Freeze
    <3>4. /\ restarts' = restarts /\ contextsOut' = contextsOut /\ reviewsOut' = reviewsOut
          /\ calls' = calls /\ Each(reviewCache)' = Each(reviewCache)
      BY <1>1 DEF Contract!Freeze
    <3>5. Cached(reviewCache', k) = Cached(reviewCache, k)
      BY <3>4
    <3> QED BY <3>2, <3>3, <3>4, <3>5
  <2> QED BY <1>0, <2>1, CountsAt
<1>2. CASE Contract!Show(rid)
  <2>1. /\ restarts' = restarts /\ reviewsOut' = reviewsOut /\ calls' = calls
        /\ contextsOut' = contextsOut \cup Cached(contextCache, rid)
        /\ Cached(reviewCache', k) = Cached(reviewCache, k)
        /\ Cached(contextCache', k) = Cached(contextCache, k)
        /\ Stage(k)' = Stage(k)
    BY <1>2 DEF Contract!Show, Contract!Shows
  <2> QED BY <1>0, <2>1, ShownCuts, CountsAt
<1>3. CASE Contract!Ask(rid)
  <2>1. /\ restarts' = restarts /\ reviewsOut' = reviewsOut
        /\ calls' = [calls EXCEPT ![rid] = @ + 1] \/ (Opposed(rid)' /\ calls' = calls)
        /\ contextsOut' = contextsOut \cup Cached(contextCache, rid)
        /\ Cached(reviewCache', k) = Cached(reviewCache, k)
        /\ Cached(contextCache', k) = Cached(contextCache, k)
        /\ k # rid => Stage(k)' = Stage(k)
        /\ k = rid => Stage(k) = "cut" /\ Stage(k)' = "asked"
    <3>1. Contract!Opposed(rid)' => Opposed(rid)'
      BY DEF Contract!Opposed, Opposed
    <3> QED BY <1>3, <3>1 DEF Contract!Ask, Contract!Shows, Contract!Moves
  <2>2. \/ calls'[k] = IF k = rid THEN calls[k] + 1 ELSE calls[k]
        \/ k = rid /\ Opposed(k)'
        \/ k # rid /\ calls'[k] = calls[k]
    BY <2>1 DEF TypeOK
  <2> QED BY <1>0, <2>1, <2>2, ShownCuts, CountsAt
<1>4. CASE Contract!Decide(rid)
  <2>1. /\ restarts' = restarts /\ reviewsOut' = reviewsOut /\ calls' = calls
        /\ contextsOut' = contextsOut \cup Cached(contextCache, rid)
        /\ Cached(contextCache', k) = Cached(contextCache, k)
        /\ k # rid => Stage(k)' = Stage(k) /\ Cached(reviewCache', k) = Cached(reviewCache, k)
        /\ k = rid => Stage(k) \in {"open", "cut", "asked"} /\ Stage(k)' = "decided"
    <3>1. PICK v : Each(reviewCache)' = [Each(reviewCache) EXCEPT ![rid] = {v}]
      BY <1>4 DEF Contract!Decide
    <3>2. \A j \in Rids : Cached(reviewCache', j) = IF j = rid THEN {v}
                                                     ELSE Cached(reviewCache, j)
      BY <3>1, PutOne
    <3>3. /\ Stage(rid) \in {"open", "cut", "asked"}
          /\ \A j \in Rids : Stage(j)' = IF j = rid THEN "decided" ELSE Stage(j)
      BY <1>4, MovesOne DEF Contract!Decide
    <3>4. /\ restarts' = restarts /\ reviewsOut' = reviewsOut /\ calls' = calls
          /\ contextsOut' = contextsOut \cup Each(contextCache)[rid]
          /\ Each(contextCache)' = Each(contextCache)
      BY <1>4 DEF Contract!Decide, Contract!Shows
    <3>5. /\ Cached(contextCache', k) = Cached(contextCache, k)
          /\ contextsOut' = contextsOut \cup Cached(contextCache, rid)
      BY <3>4
    <3> QED BY <3>2, <3>3, <3>4, <3>5
  <2> QED BY <1>0, <2>1, ShownCuts, CountsAt
<1>5. CASE Contract!Deliver(rid)
  <2>1. /\ restarts' = restarts /\ contextsOut' = contextsOut /\ calls' = calls
        /\ reviewsOut' = reviewsOut \cup Cached(reviewCache, rid)
        /\ Cached(reviewCache', k) = Cached(reviewCache, k)
        /\ Cached(contextCache', k) = Cached(contextCache, k)
        /\ Stage(k)' = Stage(k)
    BY <1>5 DEF Contract!Deliver
  <2> QED BY <1>0, <2>1, GivenReviews, CountsAt
<1>6. CASE Contract!Settle(rid)
  <2>1. /\ restarts' = restarts /\ contextsOut' = contextsOut /\ calls' = calls
        /\ reviewsOut' = reviewsOut \cup Cached(reviewCache, rid)
        /\ Cached(contextCache', k) = Cached(contextCache, k)
        /\ k # rid => Stage(k)' = Stage(k) /\ Cached(reviewCache', k) = Cached(reviewCache, k)
        /\ k = rid => /\ Stage(k) = "decided" /\ Stage(k)' = "done"
                      /\ Cached(reviewCache', k) = {}
    <3>1. PICK w : w = {} /\ Each(reviewCache)' = [Each(reviewCache) EXCEPT ![rid] = w]
      BY <1>6 DEF Contract!Settle
    <3>2. \A j \in Rids : Cached(reviewCache', j) = IF j = rid THEN w
                                                     ELSE Cached(reviewCache, j)
      <4>1. Each(reviewCache') = [Each(reviewCache) EXCEPT ![rid] = w]
        BY <3>1
      <4> QED BY <4>1, PutOne
    <3>3. /\ Stage(rid) \in {"decided"}
          /\ \A j \in Rids : Stage(j)' = IF j = rid THEN "done" ELSE Stage(j)
      BY <1>6, MovesOne DEF Contract!Settle
    <3>4. /\ restarts' = restarts /\ contextsOut' = contextsOut /\ calls' = calls
          /\ reviewsOut' = reviewsOut \cup Each(reviewCache)[rid]
          /\ Each(contextCache)' = Each(contextCache)
      BY <1>6 DEF Contract!Settle
    <3>5. /\ Cached(contextCache', k) = Cached(contextCache, k)
          /\ reviewsOut' = reviewsOut \cup Cached(reviewCache, rid)
      BY <3>4
    <3> QED BY <3>1, <3>2, <3>3, <3>4, <3>5
  <2> QED BY <1>0, <2>1, GivenReviews, CountsAt
<1>7. CASE Contract!Acknowledge(rid)
  <2>1. /\ restarts' = restarts /\ contextsOut' = contextsOut /\ reviewsOut' = reviewsOut
        /\ calls' = calls
        /\ Cached(reviewCache', k) = Cached(reviewCache, k)
        /\ Cached(contextCache', k) = Cached(contextCache, k)
        /\ Stage(k)' = Stage(k)
    BY <1>7 DEF Contract!Acknowledge
  <2> QED BY <1>0, <2>1, CountsAt
<1>8. CASE Contract!Lose(rid)
  <2>1. /\ restarts' = restarts /\ contextsOut' = contextsOut /\ reviewsOut' = reviewsOut
        /\ calls' = calls
        /\ Cached(reviewCache', k) = Cached(reviewCache, k)
        /\ Cached(contextCache', k) = Cached(contextCache, k)
        /\ k # rid => Stage(k)' = Stage(k)
        /\ k = rid => Stage(k) = "asked" /\ Stage(k)' = "cut"
    BY <1>8 DEF Contract!Lose, Contract!Moves
  <2>2. Opposed(rid)'
    <3>1. PICK c \in Cached(contextCache, rid) \cap contextsOut : Opposes(c.rid, c)
      BY <1>8 DEF Contract!Lose
    <3>2. c.rid = rid
      BY <3>1 DEF CachesAgree, AgreeAt
    <3> QED BY <2>1, <3>1, <3>2 DEF Opposed
  <2> QED BY <1>0, <2>1, <2>2, CountsAt
<1> QED BY <1>1, <1>2, <1>3, <1>4, <1>5, <1>6, <1>7, <1>8

LEMMA DieCounts == ASSUME TypeOK, CachesAgree, CountInv, Contract!Die PROVE CountInv'
<1> SUFFICES ASSUME NEW k \in Rids
             PROVE  CallsCounted(k)' /\ CutsCounted(k)' /\ ReviewsCounted(k)'
  BY DEF CountInv
<1>1. /\ restarts' = restarts + 1 /\ calls' = calls
      /\ CutsOf(k)' = CutsOf(k) /\ ReviewsOf(k)' = ReviewsOf(k)
      /\ Stage(k)' = "open"
      /\ Cached(contextCache', k) = {} /\ Cached(reviewCache', k) = {}
  BY Views DEF Contract!Die, CutsOf, ReviewsOf
<1>2. /\ CallsCounted(k) /\ CutsCounted(k) /\ ReviewsCounted(k)
      /\ restarts \in Int /\ calls[k] \in Int
  BY DEF CountInv, TypeOK
<1>3. CallsCounted(k)'
  <2>1. Opposed(k) => Opposed(k)'
    BY <1>1, OpposingCut
  <2> QED BY <1>1, <1>2, <2>1 DEF CallsCounted
<1>4. CutsCounted(k)'
  BY <1>1, <1>2, LeftOne DEF CutsCounted
<1>5. ReviewsCounted(k)'
  <2>1. Left(ReviewsOf(k), {}, restarts + 1)
    <3>1. CASE Stage(k) = "done"
      <4>1. Cached(reviewCache, k) = {}
        BY <3>1, CachedReads DEF CachesAgree, AgreeAt, Stage
      <4> QED BY <1>2, <3>1, <4>1 DEF ReviewsCounted
    <3>2. CASE Stage(k) # "done"
      <4>1. Left(ReviewsOf(k), Cached(reviewCache, k), restarts)
        BY <1>2, <3>2 DEF ReviewsCounted
      <4> QED BY <1>2, <4>1, LeftOne
    <3> QED BY <3>1, <3>2
  <2>2. (restarts + (IF Stage(k) = "done" THEN 1 ELSE 0))' = restarts + 1
    BY <1>1, <1>2
  <2> QED BY <1>1, <2>1, <2>2 DEF ReviewsCounted
<1> QED BY <1>3, <1>4, <1>5

LEMMA CountStep ==
    ASSUME TypeOK, TypeOK', CachesAgree, CountInv,
           [Contract!ContractNext]_(Contract!contractVars)
    PROVE  CountInv'
<1>1. CASE Contract!ContractNext
  BY <1>1, RouteStepCounts, DieCounts DEF Contract!ContractNext
<1>2. CASE UNCHANGED Contract!contractVars
  <2> SUFFICES ASSUME NEW k \in Rids
               PROVE  CallsCounted(k)' /\ CutsCounted(k)' /\ ReviewsCounted(k)'
    BY DEF CountInv
  <2>1. /\ restarts' = restarts /\ calls' = calls
        /\ CutsOf(k)' = CutsOf(k) /\ ReviewsOf(k)' = ReviewsOf(k)
        /\ Stage(k)' = Stage(k)
        /\ Cached(contextCache', k) = Cached(contextCache, k)
        /\ Cached(reviewCache', k) = Cached(reviewCache, k)
    BY <1>2, Views DEF Contract!contractVars, CutsOf, ReviewsOf
  <2> QED BY <2>1, CountsAt
<1> QED BY <1>1, <1>2

LEMMA InitCount == Init => CountInv
<1> SUFFICES ASSUME Init, NEW k \in Rids
             PROVE  CallsCounted(k) /\ CutsCounted(k) /\ ReviewsCounted(k)
  BY DEF CountInv
<1>1. CutsOf(k) = {} /\ ReviewsOf(k) = {} /\ calls[k] = 0 /\ restarts = 0
  BY DEF Init, CutsOf, ReviewsOf
<1>2. Stage(k) = "open"
  BY NoneCached DEF Init, Stage, AtTheModel
<1>3. \A C : Left({}, C, 0)
  <2>1. \A C : {} \ C = {}
    OBVIOUS
  <2> QED BY <2>1, FS_EmptySet DEF Left
<1> QED BY <1>1, <1>2, <1>3 DEF CallsCounted, CutsCounted, ReviewsCounted

LEMMA CountInvariant == ASSUME RoomForAll PROVE Spec => [](TypeOK /\ RouteInv /\ CountInv)
<1>1. Init => CountInv
  BY InitCount
<1>2. TypeOK /\ TypeOK' /\ RouteInv /\ CountInv /\ [Next]_vars => CountInv'
  BY StepMaps, CountStep DEF RouteInv
<1> QED BY <1>1, <1>2, RouteInvariant, PTL DEF Spec

-----------------------------------------------------------------------------
(* The theorems                                                            *)

LEMMA ContractStarts == Init => Contract!ContractInit
<1> SUFFICES ASSUME Init PROVE Contract!ContractInit
  OBVIOUS
<1>1. [k \in Rids |-> Stage(k)] = [k \in Rids |-> "open"]
  BY NoneCached DEF Init, Stage, AtTheModel
<1>2. /\ Each(routeDigests) = [k \in Rids |-> {}]
      /\ Each(contextCache) = [k \in Rids |-> {}]
      /\ Each(reviewCache) = [k \in Rids |-> {}]
  BY NoneCached DEF Init, Each
<1> QED BY <1>1, <1>2 DEF Init, Contract!ContractInit

(* The runtime implements the contract of a route: through every           *)
(* interleaving of deliveries, every failure and every restart, a route    *)
(* has in a life one owner, one cut, one question and one verdict, in this *)
(* order, and is acknowledged after it; only the answer to a question      *)
(* about evidence that opposes the route may be lost and asked for again.  *)
(* As long as no cache is full.                                            *)
THEOREM RuntimeMeetsContract == ASSUME RoomForAll PROVE Spec => MeetsContract
<1>1. TypeOK /\ RouteInv /\ CountInv /\ [Next]_vars
      => [Contract!ContractNext]_(Contract!contractVars)
  BY StepMaps
<1> QED BY <1>1, ContractStarts, CountInvariant, PTL DEF Spec, MeetsContract, Contract!Spec

LEMMA OnePerLifeLeft ==
    ASSUME NEW S, NEW c, NEW k, TypeOK, Left(S, Cached(c, k), restarts) PROVE OnePerLife(S)
<1>1. Left(S, {}, restarts + 1)
  BY LeftOne DEF TypeOK
<1>2. S \ {} = S
  OBVIOUS
<1> QED BY <1>1, <1>2 DEF Left, OnePerLife

(* No retry and no concurrent delivery pays for a second model call of a   *)
(* route in a life of the process, unless published evidence opposes the   *)
(* route: answers lost by the guard against an opposed ALLOW are the only  *)
(* reason to ask again.                                                    *)
THEOREM OneCallUnlessOpposed == ASSUME RoomForAll PROVE Spec => []SecondCallOnlyIfOpposed
<1>1. TypeOK /\ CountInv => SecondCallOnlyIfOpposed
  BY DEF TypeOK, CountInv, CallsCounted, SecondCallOnlyIfOpposed
<1> QED BY <1>1, CountInvariant, PTL

(* No retry builds a second evidence cut of a route in a life, whatever    *)
(* evidence arrived in between.                                            *)
THEOREM OneCutPerLife == ASSUME RoomForAll PROVE Spec => []EvidenceCutFrozen
<1>1. TypeOK /\ CountInv => EvidenceCutFrozen
  <2> SUFFICES ASSUME TypeOK, CountInv, NEW rid \in Rids PROVE OnePerLife(CutsOf(rid))
    BY DEF EvidenceCutFrozen, CutsOf
  <2> QED BY OnePerLifeLeft DEF CountInv, CutsCounted
<1> QED BY <1>1, CountInvariant, PTL

(* All deliveries of a route's review in a life are one review, also when  *)
(* another message uses the identity of the route, and when a delivery is  *)
(* believed to have failed.                                                *)
THEOREM OneReviewPerLife == ASSUME RoomForAll PROVE Spec => []OneReviewPerRoute
<1>1. TypeOK /\ RouteInv /\ CountInv => OneReviewPerRoute
  <2> SUFFICES ASSUME TypeOK, RouteInv, CountInv, NEW rid \in Rids
               PROVE  OnePerLife(ReviewsOf(rid))
    BY DEF OneReviewPerRoute, ReviewsOf
  <2>1. ReviewsCounted(rid) /\ restarts \in Int
    BY DEF CountInv, TypeOK
  <2>2. CASE Stage(rid) = "done"
    <3>1. Cached(reviewCache, rid) = {}
      BY <2>2, CachedReads DEF RouteInv, CachesAgree, AgreeAt, Stage
    <3>2. ReviewsOf(rid) \ {} = ReviewsOf(rid)
      OBVIOUS
    <3> QED BY <2>1, <2>2, <3>1, <3>2 DEF ReviewsCounted, Left, OnePerLife
  <2>3. CASE Stage(rid) # "done"
    BY <2>1, <2>3, OnePerLifeLeft DEF ReviewsCounted
  <2> QED BY <2>2, <2>3
<1> QED BY <1>1, CountInvariant, PTL
=============================================================================
