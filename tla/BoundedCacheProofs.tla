------------------------- MODULE BoundedCacheProofs -------------------------
(***************************************************************************)
(* What the cache operators preserve and return, for every cache, key and  *)
(* limit.                                                                  *)
(***************************************************************************)
EXTENDS BoundedCache, FiniteSetTheorems, TLAPS

(* The cache every process starts with is well formed.                     *)
LEMMA EmptyIsCache ==
    ASSUME NEW K, NEW V, NEW limit
    PROVE  IsCache(EmptyCache, K, V, limit)
BY DEF IsCache, EmptyCache

(* Remembering a key of K with a value of V keeps a cache well formed.     *)
LEMMA RememberIsCache ==
    ASSUME NEW K, NEW V, NEW limit \in Nat \ {0}, NEW c, NEW k \in K, NEW v \in V,
           IsCache(c, K, V, limit)
    PROVE  IsCache(Remember(c, k, v, limit), K, V, limit)
<1> DEFINE d == Remember(c, k, v, limit)
           age(j) == AgeAfterMove(c, k, j)
<1>1. \A j \in DOMAIN c \cup {k} : age(j) \in Nat \ {0}
  BY DEF IsCache, AgeAfterMove, Held
<1>2. \A i, j \in DOMAIN c \cup {k} : age(i) = age(j) => i = j
  BY DEF IsCache, AgeAfterMove, Held
<1>3. /\ DOMAIN d = Survivors(c, k, limit)
      /\ \A j \in DOMAIN d : d[j].age = age(j)
      /\ \A j \in DOMAIN d : d[j].value = IF j = k THEN v ELSE c[j].value
  BY DEF Remember
<1>4. DOMAIN d = {j \in DOMAIN c \cup {k} : age(j) <= limit}
  BY <1>3 DEF Survivors
<1>5. \A j \in DOMAIN d : d[j] \in [age : 1 .. limit, value : V]
  <2> SUFFICES ASSUME NEW j \in DOMAIN d PROVE d[j] \in [age : 1 .. limit, value : V]
    OBVIOUS
  <2>1. d[j] = [age |-> age(j), value |-> IF j = k THEN v ELSE c[j].value]
    BY DEF Remember
  <2>2. age(j) \in 1 .. limit
    BY <1>1, <1>4
  <2>3. (IF j = k THEN v ELSE c[j].value) \in V
    BY <1>4 DEF IsCache
  <2> QED BY <2>1, <2>2, <2>3
<1>6. \A j \in DOMAIN d : \A a \in 1 .. d[j].age : \E i \in DOMAIN d : d[i].age = a
  <2> SUFFICES ASSUME NEW j \in DOMAIN d, NEW a \in 1 .. age(j)
               PROVE  \E i \in DOMAIN d : age(i) = a
    BY <1>3
  <2>1. a <= limit
    BY <1>1, <1>4
  <2>2. SUFFICES \E i \in DOMAIN c \cup {k} : age(i) = a
    BY <2>1, <1>4
  <2>3. CASE a = 1
    BY <2>3 DEF AgeAfterMove
  <2>4. CASE a # 1 /\ Held(c, k) /\ a > c[k].age
    <3>1. j # k /\ j \in DOMAIN c
      BY <2>4, <1>4 DEF AgeAfterMove
    <3>2. a \in 1 .. c[j].age
      BY <2>4, <3>1 DEF AgeAfterMove, IsCache, Held
    <3>3. PICK i \in DOMAIN c : c[i].age = a
      BY <3>1, <3>2 DEF IsCache
    <3>4. age(i) = a
      BY <3>3, <2>4 DEF AgeAfterMove, IsCache, Held
    <3> QED BY <3>3, <3>4
  <2>5. CASE a # 1 /\ ~(Held(c, k) /\ a > c[k].age)
    <3>1. j # k /\ j \in DOMAIN c
      BY <2>5, <1>4 DEF AgeAfterMove
    <3>2. a - 1 \in 1 .. c[j].age
      BY <2>5, <3>1 DEF AgeAfterMove, IsCache, Held
    <3>3. PICK i \in DOMAIN c : c[i].age = a - 1
      BY <3>1, <3>2 DEF IsCache
    <3>4. i # k
      BY <3>3, <2>5 DEF IsCache, Held
    <3>5. age(i) = a
      BY <3>3, <3>4, <2>5 DEF AgeAfterMove, IsCache, Held
    <3> QED BY <3>3, <3>5
  <2> QED BY <2>3, <2>4, <2>5
<1>7. \A i, j \in DOMAIN d : d[i].age = d[j].age => i = j
  BY <1>2, <1>3, <1>4
<1>8. d = [j \in DOMAIN d |-> d[j]]
  BY DEF Remember
<1>9. DOMAIN d \subseteq K
  BY <1>4 DEF IsCache
<1> QED BY <1>5, <1>6, <1>7, <1>8, <1>9 DEF IsCache

(* A remembered key is held with the value it was given; whatever else is  *)
(* held was held before, with the same value.                              *)
LEMMA RememberReads ==
    ASSUME NEW c, NEW k, NEW v, NEW limit \in Nat \ {0}
    PROVE  LET d == Remember(c, k, v, limit)
           IN  /\ Held(d, k) /\ ValueOf(d, k) = v
               /\ \A j \in DOMAIN d \ {k} : Held(c, j) /\ ValueOf(d, j) = ValueOf(c, j)
<1> DEFINE d == Remember(c, k, v, limit)
<1>1. DOMAIN d = Survivors(c, k, limit)
  BY DEF Remember
<1>2. \A j \in DOMAIN d : d[j].value = IF j = k THEN v ELSE c[j].value
  BY DEF Remember
<1>3. k \in DOMAIN d
  BY <1>1 DEF Survivors, AgeAfterMove
<1>4. \A j \in DOMAIN d \ {k} : j \in DOMAIN c
  BY <1>1 DEF Survivors
<1> QED BY <1>2, <1>3, <1>4 DEF Held, ValueOf

(* The ages of a cache of keys of K do not exceed the number of keys.      *)
LEMMA AgesBounded ==
    ASSUME NEW K, NEW V, NEW limit \in Nat \ {0}, NEW c,
           IsCache(c, K, V, limit), IsFiniteSet(K)
    PROVE  \A j \in DOMAIN c : c[j].age <= Cardinality(DOMAIN c)
<1> SUFFICES ASSUME NEW j \in DOMAIN c PROVE c[j].age <= Cardinality(DOMAIN c)
  OBVIOUS
<1> DEFINE n == c[j].age
           f == [a \in 1 .. n |-> CHOOSE i \in DOMAIN c : c[i].age = a]
<1>1. n \in Nat
  BY DEF IsCache
<1>2. IsFiniteSet(DOMAIN c)
  BY FS_Subset DEF IsCache
<1>3. \A a \in 1 .. n : f[a] \in DOMAIN c /\ c[f[a]].age = a
  BY DEF IsCache
<1>4. f \in Injection(1 .. n, DOMAIN c)
  BY <1>3 DEF Injection, IsInjective
<1>5. Cardinality(1 .. n) <= Cardinality(DOMAIN c)
  BY <1>2, <1>4, FS_Injection
<1>6. Cardinality(1 .. n) = n
  BY <1>1, FS_Interval
<1> QED BY <1>5, <1>6

(* A cache with room for every key never evicts: remembering a key drops   *)
(* none.                                                                   *)
LEMMA RememberNeverEvicts ==
    ASSUME NEW K, NEW V, NEW limit \in Nat \ {0}, NEW c, NEW k \in K, NEW v \in V,
           IsCache(c, K, V, limit), IsFiniteSet(K), Cardinality(K) <= limit
    PROVE  \A j \in DOMAIN c : Held(Remember(c, k, v, limit), j)
<1>1. \A j \in DOMAIN c : c[j].age <= Cardinality(DOMAIN c)
  BY AgesBounded
<1>2. IsFiniteSet(DOMAIN c) /\ Cardinality(DOMAIN c) \in Nat /\ Cardinality(K) \in Nat
  BY FS_Subset, FS_CardinalityType DEF IsCache
<1>3. \A j \in DOMAIN c : AgeAfterMove(c, k, j) <= limit
  <2> SUFFICES ASSUME NEW j \in DOMAIN c PROVE AgeAfterMove(c, k, j) <= limit
    OBVIOUS
  <2>1. c[j].age \in Nat
    BY DEF IsCache
  <2>2. CASE Held(c, k)
    BY <2>2, <2>1, <1>1, <1>2 DEF AgeAfterMove, Held, IsCache
  <2>3. CASE ~Held(c, k)
    <3>1. Cardinality(DOMAIN c \cup {k}) = Cardinality(DOMAIN c) + 1
      BY <2>3, <1>2, FS_AddElement DEF Held
    <3>2. Cardinality(DOMAIN c \cup {k}) <= Cardinality(K)
      BY FS_Subset DEF IsCache
    <3> QED BY <3>1, <3>2, <2>3, <2>1, <1>1, <1>2 DEF AgeAfterMove, Held
  <2> QED BY <2>2, <2>3
<1> QED BY <1>3 DEF Remember, Survivors, Held

(* The same of an assignment that leaves a held key in its place.          *)
LEMMA InsertIsCache ==
    ASSUME NEW K, NEW V, NEW limit \in Nat \ {0}, NEW c, NEW k \in K, NEW v \in V,
           IsCache(c, K, V, limit)
    PROVE  IsCache(Insert(c, k, v, limit), K, V, limit)
<1>1. CASE ~Held(c, k)
  <2>1. Insert(c, k, v, limit) = Remember(c, k, v, limit)
    BY <1>1 DEF Insert
  <2> QED BY <2>1, RememberIsCache
<1>2. CASE Held(c, k)
  <2> DEFINE d == [c EXCEPT ![k] = [age |-> c[k].age, value |-> v]]
  <2>1. Insert(c, k, v, limit) = d
    BY <1>2 DEF Insert
  <2>2. DOMAIN d = DOMAIN c
    OBVIOUS
  <2>3. \A j \in DOMAIN c : d[j].age = c[j].age /\ d[j] \in [age : 1 .. limit, value : V]
    BY <1>2 DEF IsCache, Held
  <2>4. IsCache(d, K, V, limit)
    BY <2>2, <2>3 DEF IsCache
  <2> QED BY <2>1, <2>4
<1> QED BY <1>1, <1>2

(* What an assignment leaves in the cache.                                 *)
LEMMA InsertReads ==
    ASSUME NEW c, NEW k, NEW v, NEW limit \in Nat \ {0}
    PROVE  LET d == Insert(c, k, v, limit)
           IN  /\ Held(d, k) /\ ValueOf(d, k) = v
               /\ \A j \in DOMAIN d \ {k} : Held(c, j) /\ ValueOf(d, j) = ValueOf(c, j)
<1>1. CASE ~Held(c, k)
  <2>1. Insert(c, k, v, limit) = Remember(c, k, v, limit)
    BY <1>1 DEF Insert
  <2> QED BY <2>1, RememberReads
<1>2. CASE Held(c, k)
  <2> DEFINE d == [c EXCEPT ![k] = [age |-> c[k].age, value |-> v]]
  <2>1. Insert(c, k, v, limit) = d
    BY <1>2 DEF Insert
  <2>2. DOMAIN d = DOMAIN c
    OBVIOUS
  <2>3. d[k].value = v
    BY <1>2 DEF Held
  <2>4. \A j \in DOMAIN c \ {k} : d[j].value = c[j].value
    OBVIOUS
  <2> QED BY <1>2, <2>1, <2>2, <2>3, <2>4 DEF Held, ValueOf
<1> QED BY <1>1, <1>2

(* The same of an assignment: with room for every key none is dropped.     *)
LEMMA InsertNeverEvicts ==
    ASSUME NEW K, NEW V, NEW limit \in Nat \ {0}, NEW c, NEW k \in K, NEW v \in V,
           IsCache(c, K, V, limit), IsFiniteSet(K), Cardinality(K) <= limit
    PROVE  \A j \in DOMAIN c : Held(Insert(c, k, v, limit), j)
<1>1. CASE ~Held(c, k)
  <2>1. Insert(c, k, v, limit) = Remember(c, k, v, limit)
    BY <1>1 DEF Insert
  <2> QED BY <2>1, RememberNeverEvicts
<1>2. CASE Held(c, k)
  BY <1>2 DEF Insert, Held
<1> QED BY <1>1, <1>2

(* Forgetting a key closes the gap it leaves.                              *)
LEMMA DiscardIsCache ==
    ASSUME NEW K, NEW V, NEW limit \in Nat \ {0}, NEW c, NEW k,
           IsCache(c, K, V, limit)
    PROVE  IsCache(Discard(c, k), K, V, limit)
<1> DEFINE d == Discard(c, k)
           newAge(j) == IF Held(c, k) /\ c[j].age > c[k].age THEN c[j].age - 1 ELSE c[j].age
<1>1. DOMAIN d = DOMAIN c \ {k}
  BY DEF Discard
<1>2. \A j \in DOMAIN d : d[j] = [age |-> newAge(j), value |-> c[j].value]
  BY DEF Discard, IsCache
<1>3. \A j \in DOMAIN d : newAge(j) \in 1 .. limit
  BY <1>1 DEF IsCache, Held
<1>4. \A i, j \in DOMAIN d : newAge(i) = newAge(j) => i = j
  BY <1>1 DEF IsCache, Held
<1>5. ASSUME NEW j \in DOMAIN d, NEW a \in 1 .. newAge(j)
      PROVE  \E i \in DOMAIN d : newAge(i) = a
  <2>1. CASE Held(c, k) /\ a >= c[k].age
    <3>1. a + 1 \in 1 .. c[j].age
      BY <2>1, <1>1 DEF IsCache, Held
    <3>2. PICK i \in DOMAIN c : c[i].age = a + 1
      BY <3>1, <1>1 DEF IsCache
    <3> QED BY <2>1, <3>2, <1>1 DEF IsCache, Held
  <2>2. CASE ~(Held(c, k) /\ a >= c[k].age)
    <3>1. a \in 1 .. c[j].age
      BY <2>2, <1>1 DEF IsCache, Held
    <3>2. PICK i \in DOMAIN c : c[i].age = a
      BY <3>1, <1>1 DEF IsCache
    <3> QED BY <2>2, <3>2, <1>1 DEF IsCache, Held
  <2> QED BY <2>1, <2>2
<1>6. d = [j \in DOMAIN d |-> d[j]]
  BY DEF Discard
<1>7. \A j \in DOMAIN d : d[j] \in [age : 1 .. limit, value : V]
  BY <1>1, <1>2, <1>3 DEF IsCache
<1> QED BY <1>1, <1>2, <1>4, <1>5, <1>6, <1>7 DEF IsCache

(* What is left when a key is forgotten.                                   *)
LEMMA DiscardReads ==
    ASSUME NEW c, NEW k
    PROVE  LET d == Discard(c, k)
           IN  /\ DOMAIN d = DOMAIN c \ {k}
               /\ \A j \in DOMAIN d : ValueOf(d, j) = ValueOf(c, j)
BY DEF Discard, ValueOf

-----------------------------------------------------------------------------
(* A cache is the OrderedDict that had the same calls                      *)

(* The ages of a cache of n keys are 1 .. n.                               *)
LEMMA AgesFill ==
    ASSUME NEW K, NEW V, NEW limit \in Nat \ {0}, NEW c, IsCache(c, K, V, limit)
    PROVE  /\ Cardinality(DOMAIN c) \in Nat
           /\ \A k \in DOMAIN c : c[k].age \in 1 .. Cardinality(DOMAIN c)
           /\ \A a \in 1 .. Cardinality(DOMAIN c) : \E k \in DOMAIN c : c[k].age = a
<1> DEFINE n == Cardinality(DOMAIN c)
           age == [k \in DOMAIN c |-> c[k].age]
<1>1. \A k \in DOMAIN c : c[k].age \in 1 .. limit
  BY DEF IsCache
<1>2. age \in Injection(DOMAIN c, 1 .. limit)
  BY <1>1 DEF Injection, IsInjective, IsCache
<1>3. IsFiniteSet(DOMAIN c)
  BY <1>2, FS_Injection, FS_Interval
<1>4. n \in Nat
  BY <1>3, FS_CardinalityType
<1>5. \A k \in DOMAIN c : c[k].age \in 1 .. n
  <2>1. IsCache(c, DOMAIN c, V, limit)
    BY DEF IsCache
  <2>2. \A k \in DOMAIN c : c[k].age <= n
    BY <1>3, <2>1, AgesBounded
  <2> QED BY <1>1, <1>4, <2>2
<1>6. age \in Injection(DOMAIN c, 1 .. n)
  BY <1>2, <1>5 DEF Injection, IsInjective
<1>7. IsFiniteSet(1 .. n) /\ Cardinality(1 .. n) = n
  BY <1>4, FS_Interval
<1>8. age \in Surjection(DOMAIN c, 1 .. n)
  BY <1>6, <1>7, FS_Injection
<1>9. \A a \in 1 .. n : \E k \in DOMAIN c : age[k] = a
  BY <1>8 DEF Surjection
<1> QED BY <1>4, <1>5, <1>9
=============================================================================
