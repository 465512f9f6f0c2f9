---------------------------- MODULE BoundedCache ----------------------------
(***************************************************************************)
(* The bounded OrderedDict caches of the aggregator as pure operators.     *)
(*                                                                         *)
(* A cache is a function from the keys it holds to records                 *)
(* [age, value].  The ages of a cache of n keys are exactly 1 .. n: the    *)
(* youngest key (the end of the OrderedDict) has age 1 and the key that    *)
(* popitem(last=False) would remove has age n.                             *)
(***************************************************************************)
EXTENDS Integers, FiniteSets

EmptyCache == [k \in {} |-> k]

Held(c, k) == k \in DOMAIN c

ValueOf(c, k) == c[k].value

(* The age of j once k has been moved to the young end: a key older than a *)
(* held k keeps its place, every other key is pushed back by one.          *)
AgeAfterMove(c, k, j) ==
    IF j = k THEN 1
    ELSE IF Held(c, k) /\ c[j].age > c[k].age THEN c[j].age
    ELSE c[j].age + 1

(* Fault: nothing is evicted.                                              *)
AllSurvive(c, k, limit) == DOMAIN c \cup {k}

(* What is left of the keys when the oldest beyond the limit are removed.  *)
Survivors(c, k, limit) ==
    {j \in DOMAIN c \cup {k} : AgeAfterMove(c, k, j) <= limit}

(* cache[k] = v; cache.move_to_end(k); evict from the old end.             *)
Remember(c, k, v, limit) ==
    [j \in Survivors(c, k, limit) |->
        [age   |-> AgeAfterMove(c, k, j),
         value |-> IF j = k THEN v ELSE c[j].value]]

(* cache[k] = v without move_to_end: a held key keeps its place in the     *)
(* eviction order, a new key goes to the young end.                        *)
Insert(c, k, v, limit) ==
    IF Held(c, k) THEN [c EXCEPT ![k] = [age |-> @.age, value |-> v]]
    ELSE Remember(c, k, v, limit)

(* cache.pop(k, None).                                                     *)
Discard(c, k) ==
    [j \in DOMAIN c \ {k} |->
        IF Held(c, k) /\ c[j].age > c[k].age
        THEN [age |-> c[j].age - 1, value |-> c[j].value]
        ELSE c[j]]

(* c is a cache of at most limit of the keys K, with values in V: distinct *)
(* ages, with no gap below any of them.                                    *)
IsCache(c, K, V, limit) ==
    /\ DOMAIN c \subseteq K
    /\ c = [j \in DOMAIN c |-> c[j]]
    /\ \A j \in DOMAIN c : c[j] \in [age : 1 .. limit, value : V]
    /\ \A i, j \in DOMAIN c : c[i].age = c[j].age => i = j
    /\ \A j \in DOMAIN c : \A a \in 1 .. c[j].age :
          \E i \in DOMAIN c : c[i].age = a

=============================================================================
