-------------------------- MODULE ReviewRefinement --------------------------
(***************************************************************************)
(* The runtime with its lock, caches, handlers and awaits keeps the        *)
(* contract of a route, as long as no cache is full.                       *)
(***************************************************************************)
EXTENDS CandidateReview

AtTheModel(rid) == \E h \in Handlers : pc[h] = "model" /\ job[h].route.rid = rid

(* How far a route is, read from the caches the code decides by.           *)
Stage(rid) ==
    IF Held(processed, rid) THEN "done"
    ELSE IF Held(reviewCache, rid) THEN "decided"
    ELSE IF AtTheModel(rid) THEN "asked"
    ELSE IF Held(contextCache, rid) THEN "cut"
    ELSE "open"

Each(cache) == [rid \in Rids |-> Cached(cache, rid)]

Contract == INSTANCE ReviewContract WITH
    Route    <- RouteMsgs,
    Opposing <- {c \in Contexts : Opposes(c.rid, c)},
    stage    <- [rid \in Rids |-> Stage(rid)],
    owner    <- Each(routeDigests),
    cut      <- Each(contextCache),
    verdict  <- Each(reviewCache),
    shown    <- contextsOut,
    given    <- reviewsOut,
    paid     <- calls,
    lives    <- restarts

(* Every step of the runtime is a step of the route contract or changes    *)
(* nothing it speaks of: in a life a route has one owner, one cut, one     *)
(* verdict, and one question unless the guard against an opposed ALLOW     *)
(* loses the answer; the verdict stands on exactly that cut, what is       *)
(* delivered late or twice is that verdict, and an acknowledgement follows *)
(* its publication - through every interleaving of two deliveries, every   *)
(* failure and every restart.                                              *)
MeetsContract == Contract!Spec
=============================================================================
