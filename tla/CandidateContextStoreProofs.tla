---------------------- MODULE CandidateContextStoreProofs ----------------------
(***************************************************************************)
(* The evidence store for every set of deliveries, routes and settings:    *)
(* type correctness, the pairing of its two caches, first receipt wins,    *)
(* exact and stable cuts, and, for caches with room for every bar slot,    *)
(* the agreement of retained bars.                                         *)
(***************************************************************************)
EXTENDS CandidateContextStore, BoundedCacheProofs, WellFoundedInduction

LEMMA CacheSizeType == CacheSize \in Nat \ {0}
BY SettingsAssumption

(* A delivery's identity and slot are among those the store is keyed by.   *)
LEMMA MessageKeys ==
    ASSUME NEW m \in Messages
    PROVE  /\ Key(m) \in Keys
           /\ m.kind \in Kinds /\ m.bar \in Nat
           /\ IsBar(m) => Slot(m) \in Slots
<1>1. m \in MessageType
  BY MessagesAssumption
<1> QED BY <1>1 DEF Keys, Slots, MessageType

-----------------------------------------------------------------------------
(* Type correctness                                                        *)

LEMMA StoreInitTypeOK == StoreInit => StoreTypeOK
<1> SUFFICES ASSUME StoreInit PROVE StoreTypeOK
  OBVIOUS
<1>1. now \in Times
  BY SettingsAssumption DEF StoreInit, Times
<1>2. /\ IsCache(entries, Keys, Observations, CacheSize)
      /\ IsCache(digests, Keys, Messages, CacheSize)
      /\ IsCache(barSlots, Slots, Nat, CacheSize)
  BY EmptyIsCache DEF StoreInit
<1>3. quarantined \subseteq Kinds
  BY DEF StoreInit
<1> QED BY <1>1, <1>2, <1>3 DEF StoreTypeOK

LEMMA IngestTypeOK ==
    ASSUME StoreTypeOK, NEW m \in Messages, Ingest(m)
    PROVE  StoreTypeOK'
<1> USE DEF StoreTypeOK
<1>1. CASE IdentityConflict(m)
  BY <1>1, MessageKeys DEF IdentityConflict
<1>2. CASE BarConflict(m)
  BY <1>2, MessageKeys DEF BarConflict
<1>3. CASE Accept(m)
  <2> DEFINE o == [message |-> m, received |-> now]
  <2>1. o \in Observations
    BY DEF Observations
  <2>2. IsCache(digests', Keys, Messages, CacheSize)
    BY <1>3, MessageKeys, CacheSizeType, InsertIsCache DEF Accept
  <2>3. IsCache(entries', Keys, Observations, CacheSize)
    <3>1. IsCache(Insert(entries, Key(m), o, CacheSize), Keys, Observations, CacheSize)
      BY <2>1, MessageKeys, CacheSizeType, InsertIsCache
    <3> QED BY <3>1, <1>3 DEF Accept
  <2>4. IsCache(barSlots', Slots, Nat, CacheSize)
    <3>1. CASE IsBar(m)
      <4>1. IsCache(Insert(barSlots, Slot(m), m.bar, CacheSize), Slots, Nat, CacheSize)
        BY <3>1, MessageKeys, CacheSizeType, InsertIsCache
      <4> QED BY <3>1, <4>1, <1>3 DEF Accept
    <3>2. CASE ~IsBar(m)
      BY <3>2, <1>3 DEF Accept
    <3> QED BY <3>1, <3>2
  <2>5. now' = now /\ quarantined' = quarantined
    BY <1>3 DEF Accept
  <2> QED BY <2>2, <2>3, <2>4, <2>5
<1> QED BY <1>1, <1>2, <1>3 DEF Ingest

LEMMA TickTypeOK == ASSUME StoreTypeOK, Tick PROVE StoreTypeOK'
BY DEF StoreTypeOK, Tick, evidence, Times

(* Every reachable state of the store is well typed.                       *)
THEOREM StoreTypeCorrect == StoreSpec => []StoreTypeOK
<1>1. StoreTypeOK /\ [StoreNext]_storeVars => StoreTypeOK'
  <2> SUFFICES ASSUME StoreTypeOK, [StoreNext]_storeVars PROVE StoreTypeOK'
    OBVIOUS
  <2>1. CASE Tick
    BY <2>1, TickTypeOK
  <2>2. CASE \E m \in Messages : Ingest(m)
    BY <2>2, IngestTypeOK
  <2>3. CASE UNCHANGED storeVars
    BY <2>3 DEF StoreTypeOK, storeVars
  <2> QED BY <2>1, <2>2, <2>3 DEF StoreNext
<1> QED BY StoreInitTypeOK, <1>1, PTL DEF StoreSpec

-----------------------------------------------------------------------------
(* The two caches hold the same identities                                 *)

(* Two caches of the same keys at the same ages evict the same key.        *)
LEMMA InsertInStep ==
    ASSUME NEW c, NEW d, NEW k, NEW v, NEW w, NEW limit,
           DOMAIN c = DOMAIN d, \A j \in DOMAIN c : c[j].age = d[j].age
    PROVE  LET e == Insert(c, k, v, limit)
               f == Insert(d, k, w, limit)
           IN  /\ DOMAIN e = DOMAIN f
               /\ \A j \in DOMAIN e : e[j].age = f[j].age
<1> DEFINE e == Insert(c, k, v, limit)
           f == Insert(d, k, w, limit)
<1>1. CASE Held(c, k)
  BY <1>1 DEF Insert, Held
<1>2. CASE ~Held(c, k)
  <2>1. e = Remember(c, k, v, limit) /\ f = Remember(d, k, w, limit)
    BY <1>2 DEF Insert, Held
  <2>2. \A j \in DOMAIN c \cup {k} : AgeAfterMove(c, k, j) = AgeAfterMove(d, k, j)
    BY DEF AgeAfterMove, Held
  <2>3. Survivors(c, k, limit) = Survivors(d, k, limit)
    BY <2>2 DEF Survivors
  <2>4. DOMAIN e = DOMAIN f
    BY <2>1, <2>3 DEF Remember
  <2>5. \A j \in DOMAIN e : e[j].age = f[j].age
    BY <2>1, <2>2, <2>3 DEF Remember, Survivors
  <2> QED BY <2>4, <2>5
<1> QED BY <1>1, <1>2

LEMMA IngestMatches ==
    ASSUME StoreTypeOK, EntriesMatchDigests, NEW m \in Messages, Ingest(m)
    PROVE  EntriesMatchDigests'
<1>1. CASE UNCHANGED <<entries, digests>>
  BY <1>1 DEF EntriesMatchDigests
<1>2. CASE Accept(m)
  <2>1. PICK o \in Observations : o = [message |-> m, received |-> now]
    BY DEF Observations, StoreTypeOK
  <2>2. /\ entries' = Insert(entries, Key(m), o, CacheSize)
        /\ digests' = Insert(digests, Key(m), m, CacheSize)
        /\ o.message = m
    BY <1>2, <2>1 DEF Accept
  <2>3. /\ DOMAIN entries' = DOMAIN digests'
        /\ \A k \in DOMAIN entries' : entries'[k].age = digests'[k].age
    BY <2>2, InsertInStep DEF EntriesMatchDigests
  <2>4. /\ ValueOf(entries', Key(m)) = o
        /\ \A j \in DOMAIN entries' \ {Key(m)} :
             j \in DOMAIN entries /\ ValueOf(entries', j) = ValueOf(entries, j)
    BY <2>2, CacheSizeType, InsertReads DEF Held
  <2>5. /\ ValueOf(digests', Key(m)) = m
        /\ \A j \in DOMAIN digests' \ {Key(m)} :
             j \in DOMAIN digests /\ ValueOf(digests', j) = ValueOf(digests, j)
    BY <2>2, CacheSizeType, InsertReads DEF Held
  <2>6. ASSUME NEW k \in DOMAIN entries'
        PROVE  /\ ValueOf(entries', k).message = ValueOf(digests', k)
               /\ Key(ValueOf(digests', k)) = k
    <3>1. CASE k = Key(m)
      BY <3>1, <2>2, <2>4, <2>5
    <3>2. CASE k # Key(m)
      BY <3>2, <2>3, <2>4, <2>5 DEF EntriesMatchDigests
    <3> QED BY <3>1, <3>2
  <2> QED BY <2>3, <2>6 DEF EntriesMatchDigests
<1> QED BY <1>1, <1>2 DEF Ingest, IdentityConflict, BarConflict

(* For every cache size: an identity is in _entries exactly as long as its *)
(* content is in _digests, so no lookup finds one half of a pair.          *)
THEOREM StorePairsCaches == StoreSpec => []EntriesMatchDigests
<1>1. StoreInit => EntriesMatchDigests
  BY DEF StoreInit, EntriesMatchDigests, EmptyCache
<1>2. StoreTypeOK /\ EntriesMatchDigests /\ [StoreNext]_storeVars => EntriesMatchDigests'
  <2> SUFFICES ASSUME StoreTypeOK, EntriesMatchDigests, [StoreNext]_storeVars
               PROVE  EntriesMatchDigests'
    OBVIOUS
  <2>1. CASE \E m \in Messages : Ingest(m)
    BY <2>1, IngestMatches
  <2>2. CASE Tick \/ UNCHANGED storeVars
    BY <2>2 DEF EntriesMatchDigests, Tick, evidence, storeVars
  <2> QED BY <2>1, <2>2 DEF StoreNext
<1> QED BY <1>1, <1>2, StoreTypeCorrect, PTL DEF StoreSpec

-----------------------------------------------------------------------------
(* First receipt wins                                                      *)

(* For every cache size: no delivery, replayed or conflicting, changes the *)
(* content or the receipt clock of an identity that stays retained.        *)
THEOREM StoreFirstReceiptWins == StoreSpec => FirstReceiptWins
<1> DEFINE Kept == \A k \in DOMAIN entries \cap DOMAIN entries' :
                      ValueOf(entries', k) = ValueOf(entries, k)
<1>1. EntriesMatchDigests /\ [StoreNext]_storeVars => [Kept]_storeVars
  <2> SUFFICES ASSUME EntriesMatchDigests, StoreNext PROVE Kept
    OBVIOUS
  <2>1. CASE UNCHANGED entries
    BY <2>1
  <2>2. CASE \E m \in Messages : Accept(m)
    <3>1. PICK m \in Messages : Accept(m)
      BY <2>2
    <3>2. Key(m) \notin DOMAIN entries
      BY <3>1 DEF Accept, FirstDelivery, Held, EntriesMatchDigests
    <3>3. PICK o : entries' = Insert(entries, Key(m), o, CacheSize)
      BY <3>1 DEF Accept
    <3>4. \A j \in DOMAIN entries' \ {Key(m)} : ValueOf(entries', j) = ValueOf(entries, j)
      BY <3>3, CacheSizeType, InsertReads
    <3> QED BY <3>2, <3>4
  <2> QED BY <2>1, <2>2
          DEF StoreNext, Tick, evidence, Ingest, IdentityConflict, BarConflict
<1>2. StoreSpec => [][StoreNext]_storeVars
  BY DEF StoreSpec
<1> HIDE DEF Kept
<1>3. StoreSpec => [][Kept]_storeVars
  BY <1>1, <1>2, StorePairsCaches, PTL
<1> QED BY <1>3 DEF FirstReceiptWins, Kept

-----------------------------------------------------------------------------
(* What is retained was a well-formed delivery of the past                 *)

EntriesCausal ==
    \A k \in DOMAIN entries :
      LET o == ValueOf(entries, k)
      IN  /\ WellFormed(o.message)
          /\ o.message.event <= o.message.produced
          /\ o.message.produced <= o.received

LEMMA IngestCausal ==
    ASSUME EntriesCausal, NEW m \in Messages, Ingest(m), now \in Times
    PROVE  EntriesCausal'
<1>1. CASE UNCHANGED entries
  BY <1>1 DEF EntriesCausal
<1>2. CASE Accept(m)
  <2>1. PICK o : o = [message |-> m, received |-> now]
    OBVIOUS
  <2>2. entries' = Insert(entries, Key(m), o, CacheSize)
    BY <1>2, <2>1 DEF Accept
  <2>3. /\ WellFormed(o.message)
        /\ o.message.event <= o.message.produced
        /\ o.message.produced <= o.received
    <3>1. m.event \in Nat /\ m.produced \in Nat /\ now \in Nat
      BY MessagesAssumption, SettingsAssumption DEF MessageType, Times
    <3> QED BY <1>2, <2>1, <3>1 DEF Accept, InFuture
  <2>4. ASSUME NEW k \in DOMAIN entries'
        PROVE  \/ ValueOf(entries', k) = o
               \/ k \in DOMAIN entries /\ ValueOf(entries', k) = ValueOf(entries, k)
    BY <2>2, CacheSizeType, InsertReads DEF Held
  <2> QED BY <2>3, <2>4 DEF EntriesCausal
<1> QED BY <1>1, <1>2 DEF Ingest, IdentityConflict, BarConflict

LEMMA StoreCausal == StoreSpec => []EntriesCausal
<1>1. StoreInit => EntriesCausal
  BY DEF StoreInit, EntriesCausal, EmptyCache
<1>2. StoreTypeOK /\ EntriesCausal /\ [StoreNext]_storeVars => EntriesCausal'
  <2> SUFFICES ASSUME StoreTypeOK, EntriesCausal, [StoreNext]_storeVars
               PROVE  EntriesCausal'
    OBVIOUS
  <2>1. CASE \E m \in Messages : Ingest(m)
    BY <2>1, IngestCausal DEF StoreTypeOK
  <2>2. CASE Tick \/ UNCHANGED storeVars
    BY <2>2 DEF EntriesCausal, Tick, evidence, storeVars
  <2> QED BY <2>1, <2>2 DEF StoreNext
<1> QED BY <1>1, <1>2, StoreTypeCorrect, PTL DEF StoreSpec

(* What a cut built at some time shows as market or bar evidence is what   *)
(* the read-only lookup of the same time returns, for every cache size and *)
(* however the clock was set: the two readers never disagree.              *)
THEOREM StoreLookupConfirms == StoreSpec => []LookupConfirmsBuild
<1>1. StoreTypeOK /\ EntriesMatchDigests /\ EntriesCausal => LookupConfirmsBuild
  <2> SUFFICES ASSUME StoreTypeOK, EntriesMatchDigests, EntriesCausal,
                      NEW rid \in Rids, NEW kind \in {"market", "closed_bars"},
                      NEW o \in Build(rid, now, now).sources[kind]
               PROVE  RetainedObservation(o.message, now) = {o}
    BY DEF LookupConfirmsBuild
  <2>1. \E k \in KeysOf(kind) :
          /\ o = ValueOf(entries, k)
          /\ kind \notin quarantined
          /\ o.message.produced <= now /\ o.received <= now /\ Fresh(o, now)
    <3>1. CASE kind = "market"
      BY <3>1 DEF Build, Snapshot, Eligible, Quarantined
    <3>2. CASE kind = "closed_bars"
      BY <3>2 DEF Build, ClosedBars, Eligible, Quarantined
    <3> QED BY <3>1, <3>2
  <2>2. PICK k \in DOMAIN entries :
          /\ k[1] = kind /\ o = ValueOf(entries, k)
          /\ kind \notin quarantined
          /\ o.message.produced <= now /\ o.received <= now /\ Fresh(o, now)
    BY <2>1 DEF KeysOf
  <2>3. Key(o.message) = k /\ ValueOf(digests, k) = o.message /\ k \in DOMAIN digests
    BY <2>2 DEF EntriesMatchDigests
  <2>4. o.message.kind = kind
    BY <2>2, <2>3 DEF Key
  <2>5. WellFormed(o.message) /\ o.message.event <= o.message.produced
    BY <2>2 DEF EntriesCausal
  <2>6. o.message.event <= now
    <3>1. o.message.event \in Nat /\ o.message.produced \in Nat /\ now \in Nat
      BY <2>2, SettingsAssumption, MessagesAssumption
         DEF StoreTypeOK, IsCache, Observations, MessageType, Times, ValueOf
    <3> QED BY <2>2, <2>5, <3>1
  <2>7. {ValueOf(entries, j) : j \in DOMAIN entries \cap {Key(o.message)}} = {o}
    BY <2>2, <2>3
  <2> QED BY <2>2, <2>3, <2>4, <2>5, <2>6, <2>7 DEF RetainedObservation, Held
<1> QED BY <1>1, StoreTypeCorrect, StorePairsCaches, StoreCausal, PTL

-----------------------------------------------------------------------------
(* Retained bars agree                                                     *)

(* Every retained bar is the bar its slot is remembered by.                *)
SlotsRemembered ==
    \A k \in KeysOf("closed_bars") :
      LET m == ValueOf(entries, k).message
      IN  IsBar(m) /\ Held(barSlots, Slot(m)) /\ ValueOf(barSlots, Slot(m)) = m.bar

LEMMA IngestRemembersSlots ==
    ASSUME IsFiniteSet(Slots), Cardinality(Slots) <= CacheSize,
           StoreTypeOK, SlotsRemembered, NEW m \in Messages, Ingest(m)
    PROVE  SlotsRemembered'
<1>1. CASE UNCHANGED <<entries, barSlots>>
  BY <1>1 DEF SlotsRemembered, KeysOf
<1>2. CASE Accept(m)
  <2>1. PICK o : o = [message |-> m, received |-> now]
    OBVIOUS
  <2>2. entries' = Insert(entries, Key(m), o, CacheSize)
    BY <1>2, <2>1 DEF Accept
  <2>3. ASSUME NEW s, Held(barSlots, s)
        PROVE  Held(barSlots', s) /\ ValueOf(barSlots', s) = ValueOf(barSlots, s)
    <3>1. CASE ~IsBar(m)
      BY <3>1, <2>3, <1>2 DEF Accept
    <3>2. CASE IsBar(m)
      <4>1. barSlots' = Insert(barSlots, Slot(m), m.bar, CacheSize)
        BY <3>2, <1>2 DEF Accept
      <4>2. Slot(m) \in Slots /\ m.bar \in Nat /\ IsCache(barSlots, Slots, Nat, CacheSize)
        BY <3>2, MessageKeys DEF StoreTypeOK
      <4>3. Held(barSlots', s)
        BY <4>1, <4>2, <2>3, CacheSizeType, InsertNeverEvicts DEF Held
      <4>4. CASE s = Slot(m)
        BY <4>1, <4>4, <2>3, <3>2, <1>2, CacheSizeType, InsertReads DEF Accept, SlotTaken
      <4>5. CASE s # Slot(m)
        BY <4>1, <4>3, <4>5, CacheSizeType, InsertReads DEF Held
      <4> QED BY <4>3, <4>4, <4>5
    <3> QED BY <3>1, <3>2
  <2>4. IsBar(m) => Held(barSlots', Slot(m)) /\ ValueOf(barSlots', Slot(m)) = m.bar
    BY <1>2, CacheSizeType, InsertReads DEF Accept
  <2>5. ASSUME NEW k \in DOMAIN entries', k[1] = "closed_bars"
        PROVE  LET n == ValueOf(entries', k).message
               IN  IsBar(n) /\ Held(barSlots', Slot(n)) /\ ValueOf(barSlots', Slot(n)) = n.bar
    <3>1. CASE k = Key(m)
      <4>1. ValueOf(entries', k) = o
        BY <3>1, <2>2, CacheSizeType, InsertReads
      <4>2. IsBar(m)
        BY <3>1, <2>5 DEF Key, IsBar
      <4> QED BY <4>1, <4>2, <2>1, <2>4
    <3>2. CASE k # Key(m)
      <4>1. k \in DOMAIN entries /\ ValueOf(entries', k) = ValueOf(entries, k)
        BY <3>2, <2>2, <2>5, CacheSizeType, InsertReads DEF Held
      <4> QED BY <4>1, <2>3, <2>5 DEF SlotsRemembered, KeysOf
    <3> QED BY <3>1, <3>2
  <2> QED BY <2>5 DEF SlotsRemembered, KeysOf
<1> QED BY <1>1, <1>2 DEF Ingest, IdentityConflict, BarConflict

(* When the caches have room for every bar slot, two retained bars of one  *)
(* slot never disagree while bars may be used.                             *)
THEOREM StoreBarsAgree ==
    ASSUME IsFiniteSet(Slots), Cardinality(Slots) <= CacheSize
    PROVE  StoreSpec => []RetainedBarsAgree
<1>1. StoreInit => SlotsRemembered
  BY DEF StoreInit, SlotsRemembered, EmptyCache, KeysOf
<1>2. StoreTypeOK /\ SlotsRemembered /\ [StoreNext]_storeVars => SlotsRemembered'
  <2> SUFFICES ASSUME StoreTypeOK, SlotsRemembered, [StoreNext]_storeVars
               PROVE  SlotsRemembered'
    OBVIOUS
  <2>1. CASE \E m \in Messages : Ingest(m)
    BY <2>1, IngestRemembersSlots
  <2>2. CASE Tick \/ UNCHANGED storeVars
    BY <2>2 DEF SlotsRemembered, KeysOf, Tick, evidence, storeVars
  <2> QED BY <2>1, <2>2 DEF StoreNext
<1>3. SlotsRemembered => RetainedBarsAgree
  BY DEF SlotsRemembered, RetainedBarsAgree, KeysOf
<1> QED BY <1>1, <1>2, <1>3, StoreTypeCorrect, PTL DEF StoreSpec
-----------------------------------------------------------------------------
(* A cut shows exactly what it may                                         *)

(* The records a store retains, as the eligibility rules read them.        *)
LEMMA RetainedTypes ==
    ASSUME StoreTypeOK, EntriesMatchDigests, NEW k \in DOMAIN entries
    PROVE  /\ ValueOf(entries, k) \in Observations
           /\ ValueOf(entries, k).message \in MessageType
           /\ ValueOf(entries, k).received \in Times
           /\ k = <<ValueOf(entries, k).message.kind, ValueOf(entries, k).message.id>>
           /\ entries[k].age \in Nat
<1>1. ValueOf(entries, k) \in Observations /\ entries[k].age \in Nat
  BY DEF StoreTypeOK, IsCache, ValueOf
<1>2. ValueOf(entries, k).message \in Messages /\ ValueOf(entries, k).received \in Times
  BY <1>1 DEF Observations
<1>3. k = Key(ValueOf(entries, k).message)
  BY DEF EntriesMatchDigests
<1> QED BY <1>1, <1>2, <1>3, MessagesAssumption DEF Key

(* Two observations of a kind neither of which is later than the other are *)
(* one: the identity breaks the tie.                                       *)
LEMMA SnapshotSingle ==
    ASSUME StoreTypeOK, EntriesMatchDigests, NEW kind, NEW rid, NEW cutoff, NEW captured
    PROVE  \A o, p \in Snapshot(kind, rid, cutoff, captured) :
             o = p /\ (kind # "macro" => o.message.symbol = Intent[rid].symbol)
<1> SUFFICES ASSUME NEW o \in Snapshot(kind, rid, cutoff, captured),
                    NEW p \in Snapshot(kind, rid, cutoff, captured)
             PROVE  o = p /\ (kind # "macro" => o.message.symbol = Intent[rid].symbol)
  OBVIOUS
<1>1. \E k, j \in KeysOf(kind) : o = ValueOf(entries, k) /\ p = ValueOf(entries, j)
  BY DEF Snapshot
<1>2. /\ Later(o, p) /\ Later(p, o)
      /\ kind # "macro" => o.message.symbol = Intent[rid].symbol
  BY DEF Snapshot
<1>3. PICK k \in DOMAIN entries, j \in DOMAIN entries :
        k[1] = kind /\ j[1] = kind /\ o = ValueOf(entries, k) /\ p = ValueOf(entries, j)
  BY <1>1 DEF KeysOf
<1>4. /\ k = <<o.message.kind, o.message.id>> /\ j = <<p.message.kind, p.message.id>>
      /\ o.message \in MessageType /\ p.message \in MessageType
  BY <1>3, RetainedTypes
<1>5. o.message.id = p.message.id
  BY <1>2, <1>4 DEF Later, MessageType
<1>6. k = j
  BY <1>3, <1>4, <1>5
<1> QED BY <1>2, <1>3, <1>6

LEMMA LeastNatural ==
    ASSUME NEW T \in SUBSET Nat, T # {} PROVE \E x \in T : \A y \in T : x <= y
<1>1. \E x \in T : \A y \in T : <<y, x>> \notin OpToRel(<, Nat)
  BY NatLessThanWellFounded, WFMin
<1>2. \A x, y \in Nat : <<y, x>> \notin OpToRel(<, Nat) => x <= y
  BY DEF OpToRel
<1> QED BY <1>1, <1>2

(* Bars are all of the declared tail or none, and of two retained bars     *)
(* with one digest the last inserted.                                      *)
LEMMA ClosedBarsExact ==
    ASSUME StoreTypeOK, EntriesMatchDigests, NEW rid, NEW cutoff, NEW captured,
           ClosedBars(rid, cutoff, captured) # {}
    PROVE  LET bars == ClosedBars(rid, cutoff, captured)
           IN  /\ {o.message.bar : o \in bars} = DeclaredTail(rid)
               /\ \A o, p \in bars : o.message.bar = p.message.bar => o = p
<1> DEFINE usable == {k \in KeysOf("closed_bars") :
                        Eligible(ValueOf(entries, k), Intent[rid].decided, cutoff, captured)}
           bar(k) == ValueOf(entries, k).message.bar
           chosen == {k \in usable :
                        /\ bar(k) \in DeclaredTail(rid)
                        /\ \A j \in usable :
                             bar(j) = bar(k) => entries[k].age <= entries[j].age}
           bars == ClosedBars(rid, cutoff, captured)
<1>1. /\ DeclaredTail(rid) \subseteq {bar(k) : k \in usable}
      /\ bars = {ValueOf(entries, k) : k \in chosen}
  BY DEF ClosedBars, AllDeclaredHeld
<1>2. usable \subseteq DOMAIN entries
  BY DEF KeysOf
<1>3. \A k \in usable : entries[k].age \in Nat
  BY <1>2, RetainedTypes
<1>4. ASSUME NEW b \in DeclaredTail(rid) PROVE \E k \in chosen : bar(k) = b
  <2> DEFINE ages == {entries[k].age : k \in {j \in usable : bar(j) = b}}
  <2>1. ages \in SUBSET Nat /\ ages # {}
    BY <1>1, <1>3, <1>4
  <2>2. PICK a \in ages : \A y \in ages : a <= y
    BY <2>1, LeastNatural
  <2>3. PICK k \in usable : bar(k) = b /\ entries[k].age = a
    BY <2>2
  <2>4. \A j \in usable : bar(j) = bar(k) => entries[k].age <= entries[j].age
    BY <2>2, <2>3
  <2> QED BY <1>4, <2>3, <2>4
<1>5. {o.message.bar : o \in bars} = {bar(k) : k \in chosen}
  BY <1>1
<1>6. {bar(k) : k \in chosen} = DeclaredTail(rid)
  BY <1>4
<1>7. ASSUME NEW k \in chosen, NEW j \in chosen, bar(k) = bar(j) PROVE k = j
  <2>1. entries[k].age = entries[j].age
    BY <1>3, <1>7
  <2> QED BY <2>1, <1>2 DEF StoreTypeOK, IsCache
<1> HIDE DEF chosen
<1> QED BY <1>1, <1>5, <1>6, <1>7

(* Text is exactly what the route cites, or nothing.                       *)
LEMMA CitedTextExact ==
    ASSUME StoreTypeOK, EntriesMatchDigests, NEW rid, NEW cutoff, NEW captured,
           CitedText(rid, cutoff, captured) # {}
    PROVE  {o.message.id : o \in CitedText(rid, cutoff, captured)} = Intent[rid].evidence
<1> DEFINE cited == {<<"text", id>> : id \in Intent[rid].evidence}
<1>1. /\ cited \subseteq DOMAIN entries
      /\ CitedText(rid, cutoff, captured) = {ValueOf(entries, k) : k \in cited}
  BY DEF CitedText
<1>2. \A id \in Intent[rid].evidence : ValueOf(entries, <<"text", id>>).message.id = id
  <2> SUFFICES ASSUME NEW id \in Intent[rid].evidence
               PROVE  ValueOf(entries, <<"text", id>>).message.id = id
    OBVIOUS
  <2>1. <<"text", id>> \in DOMAIN entries
    BY <1>1
  <2>2. <<"text", id>> = <<ValueOf(entries, <<"text", id>>).message.kind,
                           ValueOf(entries, <<"text", id>>).message.id>>
    BY <2>1, RetainedTypes
  <2> QED BY <2>2
<1>3. {ValueOf(entries, k).message.id : k \in cited} = Intent[rid].evidence
  BY <1>2
<1> QED BY <1>1, <1>3

(* For every cache size, retained content and cutoff, also with duplicate  *)
(* bars: a cut never substitutes evidence and never shows a part of what a *)
(* route declared.                                                         *)
THEOREM StoreCutsExact == StoreSpec => []CutIsExact
<1>1. StoreTypeOK /\ EntriesMatchDigests => CutIsExact
  <2> SUFFICES ASSUME StoreTypeOK, EntriesMatchDigests,
                      NEW rid \in Rids, NEW cutoff \in Times, NEW captured \in Times
               PROVE  LET s == Build(rid, cutoff, captured).sources
                      IN  /\ \A o, p \in s.market :
                               o = p /\ o.message.symbol = Intent[rid].symbol
                          /\ \A o, p \in s.macro : o = p
                          /\ s.closed_bars # {} =>
                                /\ {o.message.bar : o \in s.closed_bars} = DeclaredTail(rid)
                                /\ \A o, p \in s.closed_bars :
                                     o.message.bar = p.message.bar => o = p
                          /\ s.text # {} =>
                                {o.message.id : o \in s.text} = Intent[rid].evidence
                          /\ \A k \in quarantined : s[k] = {}
    BY DEF CutIsExact
  <2> DEFINE s == Build(rid, cutoff, captured).sources
  <2>1. /\ s.market = Snapshot("market", rid, cutoff, captured)
        /\ s.macro = Snapshot("macro", rid, cutoff, captured)
        /\ s.closed_bars = ClosedBars(rid, cutoff, captured)
        /\ s.text = CitedText(rid, cutoff, captured)
    BY DEF Build
  <2>2. ASSUME NEW k \in quarantined PROVE s[k] = {}
    <3>1. k \in Kinds
      BY DEF StoreTypeOK
    <3>2. /\ k = "market" => s.market = {}
          /\ k = "macro" => s.macro = {}
          /\ k = "closed_bars" => s.closed_bars = {}
          /\ k = "text" => s.text = {}
      BY <2>1 DEF Snapshot, ClosedBars, CitedText, Quarantined
    <3> QED BY <3>1, <3>2 DEF Kinds
  <2>3. /\ \A o, p \in s.market : o = p /\ o.message.symbol = Intent[rid].symbol
        /\ \A o, p \in s.macro : o = p
    BY <2>1, SnapshotSingle
  <2>4. s.closed_bars # {} =>
          /\ {o.message.bar : o \in s.closed_bars} = DeclaredTail(rid)
          /\ \A o, p \in s.closed_bars : o.message.bar = p.message.bar => o = p
    BY <2>1, ClosedBarsExact
  <2>5. s.text # {} => {o.message.id : o \in s.text} = Intent[rid].evidence
    BY <2>1, CitedTextExact
  <2> QED BY <2>2, <2>3, <2>4, <2>5
<1> QED BY <1>1, StoreTypeCorrect, StorePairsCaches, PTL
-----------------------------------------------------------------------------
(* Late evidence does not change a cut                                     *)

(* A delivery that evicts nothing pushes every retained observation back   *)
(* by one place and changes none; its own receipt is dated now.            *)
LEMMA AcceptReads ==
    ASSUME EntriesMatchDigests, NEW m \in Messages, Accept(m),
           DOMAIN entries \subseteq DOMAIN entries'
    PROVE  /\ Key(m) \notin DOMAIN entries
           /\ DOMAIN entries' = DOMAIN entries \cup {Key(m)}
           /\ ValueOf(entries', Key(m)).received = now
           /\ \A j \in DOMAIN entries : /\ ValueOf(entries', j) = ValueOf(entries, j)
                                        /\ entries'[j].age = entries[j].age + 1
<1>1. Key(m) \notin DOMAIN entries
  BY DEF Accept, FirstDelivery, Held, EntriesMatchDigests
<1>2. PICK o : o.received = now /\ entries' = Insert(entries, Key(m), o, CacheSize)
  BY DEF Accept
<1>3. /\ Key(m) \in DOMAIN entries' /\ ValueOf(entries', Key(m)) = o
      /\ \A j \in DOMAIN entries' \ {Key(m)} :
           j \in DOMAIN entries /\ ValueOf(entries', j) = ValueOf(entries, j)
  BY <1>2, CacheSizeType, InsertReads DEF Held
<1>4. entries' = Remember(entries, Key(m), o, CacheSize)
  BY <1>1, <1>2 DEF Insert, Held
<1>5. \A j \in DOMAIN entries' : entries'[j].age = AgeAfterMove(entries, Key(m), j)
  BY <1>4 DEF Remember
<1>6. \A j \in DOMAIN entries : entries'[j].age = entries[j].age + 1
  BY <1>1, <1>5 DEF AgeAfterMove, Held
<1> QED BY <1>1, <1>2, <1>3, <1>6

(* What a step before whose clock the cutoff lies does to the observations *)
(* that are eligible under that cutoff: nothing.                           *)
EligibleKept(cutoff) ==
    /\ \A j \in DOMAIN entries : j \in DOMAIN entries'
    /\ \A j \in DOMAIN entries : ValueOf(entries', j) = ValueOf(entries, j)
    /\ \A j \in DOMAIN entries' \ DOMAIN entries : \A cut, captured :
         ~Eligible(ValueOf(entries', j), cut, cutoff, captured)
    /\ \A i, j \in DOMAIN entries :
         entries'[i].age <= entries'[j].age <=> entries[i].age <= entries[j].age
    /\ quarantined \subseteq quarantined'

LEMMA StepKeepsEligible ==
    ASSUME StoreTypeOK, EntriesMatchDigests, StoreNext,
           DOMAIN entries \subseteq DOMAIN entries', NEW cutoff \in 0 .. now - 1
    PROVE  EligibleKept(cutoff)
<1>1. CASE UNCHANGED entries /\ quarantined \subseteq quarantined'
  BY <1>1 DEF EligibleKept
<1>2. CASE \E m \in Messages : Accept(m)
  <2>1. PICK m \in Messages : Accept(m)
    BY <1>2
  <2>2. ASSUME NEW cut, NEW captured
        PROVE  ~Eligible(ValueOf(entries', Key(m)), cut, cutoff, captured)
    <3>1. now \in Nat
      BY SettingsAssumption DEF StoreTypeOK, Times
    <3>2. ~(now <= cutoff)
      BY <3>1
    <3> QED BY <3>2, <2>1, AcceptReads DEF Eligible
  <2>3. \A j \in DOMAIN entries : entries[j].age \in Nat
    BY RetainedTypes
  <2>4. quarantined' = quarantined
    BY <2>1 DEF Accept
  <2>5. /\ DOMAIN entries' = DOMAIN entries \cup {Key(m)}
        /\ \A j \in DOMAIN entries : /\ ValueOf(entries', j) = ValueOf(entries, j)
                                     /\ entries'[j].age = entries[j].age + 1
    BY <2>1, AcceptReads
  <2>6. \A i, j \in DOMAIN entries :
          entries'[i].age <= entries'[j].age <=> entries[i].age <= entries[j].age
    BY <2>3, <2>5
  <2>7. \A j \in DOMAIN entries' \ DOMAIN entries : j = Key(m)
    BY <2>5
  <2> QED BY <2>2, <2>4, <2>5, <2>6, <2>7 DEF EligibleKept
<1> QED BY <1>1, <1>2 DEF StoreNext, Tick, evidence, Ingest, IdentityConflict, BarConflict

LEMMA SnapshotKept ==
    ASSUME NEW kind, NEW rid, NEW cutoff, NEW captured, EligibleKept(cutoff)
    PROVE  Snapshot(kind, rid, cutoff, captured)'
             \in {{}, Snapshot(kind, rid, cutoff, captured)}
<1> DEFINE usable == {o \in {ValueOf(entries, k) : k \in KeysOf(kind)} :
                        /\ kind = "macro" \/ o.message.symbol = Intent[rid].symbol
                        /\ Eligible(o, Intent[rid].routed, cutoff, captured)}
<1>1. usable' = usable
  BY DEF EligibleKept, KeysOf
<1>2. Snapshot(kind, rid, cutoff, captured) =
        IF Quarantined(kind) THEN {} ELSE {o \in usable : \A p \in usable : Later(o, p)}
  BY DEF Snapshot
<1>3. Snapshot(kind, rid, cutoff, captured)' =
        IF Quarantined(kind)' THEN {} ELSE {o \in usable' : \A p \in usable' : Later(o, p)}
  BY DEF Snapshot
<1>4. Quarantined(kind) => Quarantined(kind)'
  BY DEF Quarantined, EligibleKept
<1> HIDE DEF usable
<1> QED BY <1>1, <1>2, <1>3, <1>4

LEMMA ClosedBarsKept ==
    ASSUME NEW rid, NEW cutoff, NEW captured, EligibleKept(cutoff)
    PROVE  ClosedBars(rid, cutoff, captured)' \in {{}, ClosedBars(rid, cutoff, captured)}
<1> DEFINE usable == {k \in KeysOf("closed_bars") :
                        Eligible(ValueOf(entries, k), Intent[rid].decided, cutoff, captured)}
           bar(k) == ValueOf(entries, k).message.bar
           chosen == {k \in usable :
                        /\ bar(k) \in DeclaredTail(rid)
                        /\ \A j \in usable :
                             bar(j) = bar(k) => entries[k].age <= entries[j].age}
           all == AllDeclaredHeld(rid, {bar(k) : k \in usable})
           shows == {ValueOf(entries, k) : k \in chosen}
<1>1. usable' = usable /\ usable \subseteq DOMAIN entries
  BY DEF EligibleKept, KeysOf
<1>2. \A k \in DOMAIN entries : bar(k)' = bar(k) /\ ValueOf(entries', k) = ValueOf(entries, k)
  BY DEF EligibleKept
<1>3. \A i, j \in usable : entries'[i].age <= entries'[j].age <=> entries[i].age <= entries[j].age
  BY <1>1 DEF EligibleKept
<1>4. {bar(k) : k \in usable}' = {bar(k) : k \in usable}
  BY <1>1, <1>2
<1>5. all' = all
  BY <1>4 DEF AllDeclaredHeld
<1>6. chosen' = chosen
  BY <1>1, <1>2, <1>3
<1>7. shows' = shows
  BY <1>1, <1>2, <1>6
<1>8. ClosedBars(rid, cutoff, captured) =
        IF ~Quarantined("closed_bars") /\ all THEN shows ELSE {}
  BY DEF ClosedBars
<1>9. ClosedBars(rid, cutoff, captured)' =
        IF ~Quarantined("closed_bars")' /\ all' THEN shows' ELSE {}
  BY DEF ClosedBars
<1>10. Quarantined("closed_bars") => Quarantined("closed_bars")'
  BY DEF Quarantined, EligibleKept
<1> HIDE DEF all, shows
<1> QED BY <1>5, <1>7, <1>8, <1>9, <1>10

LEMMA CitedTextKept ==
    ASSUME NEW rid, NEW cutoff, NEW captured, EligibleKept(cutoff)
    PROVE  CitedText(rid, cutoff, captured)' \in {{}, CitedText(rid, cutoff, captured)}
<1> DEFINE cited == {<<"text", id>> : id \in Intent[rid].evidence}
           usable(k) == /\ Eligible(ValueOf(entries, k), Intent[rid].routed, cutoff, captured)
                        /\ ValueOf(entries, k).message.symbol \in {"-", Intent[rid].symbol}
           all == cited \subseteq DOMAIN entries /\ \A k \in cited : usable(k)
           shows == {ValueOf(entries, k) : k \in cited}
<1>1. all' => all /\ shows' = shows
  BY DEF EligibleKept
<1>2. CitedText(rid, cutoff, captured) = IF ~Quarantined("text") /\ all THEN shows ELSE {}
  BY DEF CitedText
<1>3. CitedText(rid, cutoff, captured)' = IF ~Quarantined("text")' /\ all' THEN shows' ELSE {}
  BY DEF CitedText
<1>4. Quarantined("text") => Quarantined("text")'
  BY DEF Quarantined, EligibleKept
<1> HIDE DEF all, shows
<1> QED BY <1>1, <1>2, <1>3, <1>4

(* For every cache size and however the clock is set: once the clock is    *)
(* past a cutoff, no delivery adds to a cut with that cutoff or replaces   *)
(* anything in it, unless it evicts.                                       *)
THEOREM StoreCutsStable == StoreSpec => CutIsStable
<1> DEFINE Stable ==
      DOMAIN entries \subseteq DOMAIN entries' =>
        \A rid \in Rids, cutoff \in 0 .. now - 1, captured \in Times, kind \in Kinds :
          Build(rid, cutoff, captured)'.sources[kind]
            \in {{}, Build(rid, cutoff, captured).sources[kind]}
<1>1. StoreTypeOK /\ EntriesMatchDigests /\ [StoreNext]_storeVars => [Stable]_storeVars
  <2> SUFFICES ASSUME StoreTypeOK, EntriesMatchDigests, StoreNext,
                      DOMAIN entries \subseteq DOMAIN entries',
                      NEW rid \in Rids, NEW cutoff \in 0 .. now - 1, NEW captured \in Times,
                      NEW kind \in Kinds
               PROVE  Build(rid, cutoff, captured)'.sources[kind]
                        \in {{}, Build(rid, cutoff, captured).sources[kind]}
    OBVIOUS
  <2>1. EligibleKept(cutoff)
    BY StepKeepsEligible
  <2>2. CASE kind \in {"market", "macro"}
    BY <2>1, <2>2, SnapshotKept DEF Build
  <2>3. CASE kind = "closed_bars"
    BY <2>1, <2>3, ClosedBarsKept DEF Build
  <2>4. CASE kind = "text"
    BY <2>1, <2>4, CitedTextKept DEF Build
  <2> QED BY <2>2, <2>3, <2>4 DEF Kinds
<1>2. StoreSpec => [][StoreNext]_storeVars
  BY DEF StoreSpec
<1> HIDE DEF Stable
<1>3. StoreSpec => [][Stable]_storeVars
  BY <1>1, <1>2, StoreTypeCorrect, StorePairsCaches, PTL
<1> QED BY <1>3 DEF CutIsStable, Stable
=============================================================================
