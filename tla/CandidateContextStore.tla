----------------------- MODULE CandidateContextStore -----------------------
(***************************************************************************)
(* The receive-time evidence store of the candidate-review runtime         *)
(* (decision_context.py): first receipt wins, a conflicting identity       *)
(* quarantines its source kind, and a route's evidence cut is read from    *)
(* what is retained.                                                       *)
(*                                                                         *)
(* A delivery is a member of Messages; the whole record stands for its     *)
(* canonical content, so two deliveries have the same SHA-256 exactly when *)
(* they are equal.  A bar digest and a slot (the open time) are numbers.   *)
(* Every operation of the store runs between two awaits: one step each.    *)
(***************************************************************************)
EXTENDS BoundedCache, FiniteSets, Sequences

CONSTANTS
    Messages,        \* every source delivery the buses may make
    Rids,            \* canonical route identities
    Intent,          \* the content a route identity is the digest of
    Symbols,         \* typed symbols, and "-" for a text or macro topic without one
    TradingSymbols,  \* settings.trading_symbols
    Ttl,             \* milliseconds a source of each kind supports a review
    CacheSize,       \* settings.processed_cache_size
    MaxBars,         \* settings.candidate_context_max_bars
    RequireText,     \* settings.candidate_require_text_context
    RequireMacro,    \* settings.candidate_require_macro_context
    MaxTime,         \* bound on the clock
    ClockStepsBack   \* whether the wall clock may be set back

Kinds   == {"market", "closed_bars", "text", "macro"}
Times   == 0 .. MaxTime
Defects == {"none", "malformed", "scope", "receipt"}

MessageType ==
    [kind : Kinds, id : Nat, symbol : Symbols, event : Nat, produced : Nat,
     slot : Nat, bar : Nat, score : -1 .. 1, body : Nat, defect : Defects]

IntentType ==
    [symbol : Symbols, conflict : BOOLEAN, side : {-1, 1}, routed : Nat,
     deadline : Nat, decided : Nat, evidence : SUBSET Nat, bars : Seq(Nat)]

ASSUME MessagesAssumption ==
    /\ Messages \subseteq MessageType
    /\ \A m, n \in Messages :
         m.kind = "closed_bars" /\ n.kind = "closed_bars" /\ m.bar = n.bar
         => m.symbol = n.symbol /\ m.slot = n.slot /\ m.event = n.event

ASSUME RoutesAssumption ==
    /\ Intent \in [Rids -> IntentType]
    /\ \A r \in Rids : Intent[r].routed <= Intent[r].deadline

ASSUME SettingsAssumption ==
    /\ TradingSymbols \subseteq Symbols
    /\ Ttl \in [Kinds -> Nat]
    /\ CacheSize \in Nat \ {0}
    /\ MaxBars \in Nat \ {0}
    /\ MaxTime \in Nat
    /\ RequireText \in BOOLEAN
    /\ RequireMacro \in BOOLEAN
    /\ ClockStepsBack \in BOOLEAN

VARIABLES
    now,         \* the local wall clock, read by every handler
    entries,     \* _entries: (kind, message id) -> observation
    digests,     \* _digests: (kind, message id) -> canonical content
    barSlots,    \* _bar_slots: (symbol, open time) -> bar digest
    quarantined  \* quarantined_kinds

storeVars == <<now, entries, digests, barSlots, quarantined>>
evidence  == <<entries, digests, barSlots, quarantined>>

Key(m)  == <<m.kind, m.id>>
Slot(m) == <<m.symbol, m.slot>>
IsBar(m) == m.kind = "closed_bars"

Keys         == {Key(m) : m \in Messages}
Slots        == {Slot(m) : m \in {n \in Messages : IsBar(n)}}
Observations == [message : Messages, received : Times]

-----------------------------------------------------------------------------
(* The clock                                                               *)

Tick ==
    /\ now' \in Times
    /\ now' > now \/ (ClockStepsBack /\ now' < now)
    /\ UNCHANGED evidence

-----------------------------------------------------------------------------
(* Ingestion.  A delivery that none of the three actions takes (malformed, *)
(* replayed, in the future, out of scope, refused as a receipt) returns or *)
(* raises with nothing changed.                                            *)

WellFormed(m) == m.defect # "malformed"

InFuture(m) == m.produced > now \/ m.event > now \/ m.event > m.produced

InScope(m) ==
    /\ m.kind \in {"market", "closed_bars"} => m.symbol \in TradingSymbols
    /\ m.defect # "scope"

(* Fault: a replay is taken for a first delivery.                          *)
ReplayIsFirst(m) == TRUE

FirstDelivery(m) == ~Held(digests, Key(m))

(* Fault: the slot of a new bar is not looked up.                          *)
SlotUnchecked(m) == FALSE

SlotTaken(m) ==
    IsBar(m) /\ Held(barSlots, Slot(m)) /\ ValueOf(barSlots, Slot(m)) # m.bar

(* Fault: a conflicting delivery claims the identity it conflicts with.    *)
ConflictClaimsIdentity(m) ==
    /\ WellFormed(m)
    /\ Held(digests, Key(m)) /\ ValueOf(digests, Key(m)) # m
    /\ quarantined' = quarantined \cup {m.kind}
    /\ digests' = Insert(digests, Key(m), m, CacheSize)
    /\ UNCHANGED <<now, entries, barSlots>>

IdentityConflict(m) ==
    /\ WellFormed(m)
    /\ Held(digests, Key(m)) /\ ValueOf(digests, Key(m)) # m
    /\ quarantined' = quarantined \cup {m.kind}
    /\ UNCHANGED <<now, entries, digests, barSlots>>

BarConflict(m) ==
    /\ WellFormed(m) /\ FirstDelivery(m) /\ ~InFuture(m) /\ InScope(m)
    /\ SlotTaken(m)
    /\ quarantined' = quarantined \cup {m.kind}
    /\ UNCHANGED <<now, entries, digests, barSlots>>

Accept(m) ==
    /\ WellFormed(m) /\ FirstDelivery(m) /\ ~InFuture(m) /\ InScope(m)
    /\ ~SlotTaken(m)
    /\ m.defect # "receipt"
    /\ digests'  = Insert(digests, Key(m), m, CacheSize)
    /\ barSlots' = IF IsBar(m) THEN Insert(barSlots, Slot(m), m.bar, CacheSize)
                   ELSE barSlots
    /\ entries'  = Insert(entries, Key(m), [message |-> m, received |-> now], CacheSize)
    /\ UNCHANGED <<now, quarantined>>

Ingest(m) == IdentityConflict(m) \/ BarConflict(m) \/ Accept(m)

-----------------------------------------------------------------------------
(* The evidence cut of a route                                             *)

Fresh(o, t) == t - o.message.event <= Ttl[o.message.kind]

(* Fault: the receive clock is not compared with the cutoff.               *)
EligibleByProducer(o, eventCut, cutoff, captured) ==
    /\ o.message.event <= eventCut
    /\ o.message.produced <= cutoff
    /\ Fresh(o, captured)

Eligible(o, eventCut, cutoff, captured) ==
    /\ o.message.event <= eventCut
    /\ o.message.produced <= cutoff
    /\ o.received <= cutoff
    /\ Fresh(o, captured)

(* Fault: a quarantine is recorded and not consulted.                      *)
NeverQuarantined(kind) == FALSE

Quarantined(kind) == kind \in quarantined

KeysOf(kind) == {k \in DOMAIN entries : k[1] = kind}

Later(o, p) ==
    \/ o.message.event > p.message.event
    \/ o.message.event = p.message.event /\ o.message.id >= p.message.id

(* _snapshot: the latest eligible observation of the kind, as a singleton. *)
Snapshot(kind, rid, cutoff, captured) ==
    LET usable == {o \in {ValueOf(entries, k) : k \in KeysOf(kind)} :
                     /\ kind = "macro" \/ o.message.symbol = Intent[rid].symbol
                     /\ Eligible(o, Intent[rid].routed, cutoff, captured)}
    IN  IF Quarantined(kind) THEN {}
        ELSE {o \in usable : \A p \in usable : Later(o, p)}

(* The last MaxBars of the bars the strategy declared.                     *)
DeclaredTail(rid) ==
    LET bars == Intent[rid].bars
    IN  {bars[i] : i \in {j \in 1 .. Len(bars) : j > Len(bars) - MaxBars}}

(* Fault: part of the declared tail is taken for all of it.                *)
SomeDeclaredHeld(rid, bars) == DeclaredTail(rid) \cap bars # {}

AllDeclaredHeld(rid, bars) == DeclaredTail(rid) \subseteq bars

(* The dict comprehension keeps the last inserted of two with one digest.  *)
ClosedBars(rid, cutoff, captured) ==
    LET usable == {k \in KeysOf("closed_bars") :
                     Eligible(ValueOf(entries, k), Intent[rid].decided, cutoff, captured)}
        bar(k) == ValueOf(entries, k).message.bar
        chosen == {k \in usable :
                     /\ bar(k) \in DeclaredTail(rid)
                     /\ \A j \in usable :
                          bar(j) = bar(k) => entries[k].age <= entries[j].age}
    IN  IF ~Quarantined("closed_bars") /\ AllDeclaredHeld(rid, {bar(k) : k \in usable})
        THEN {ValueOf(entries, k) : k \in chosen}
        ELSE {}

(* Exactly the text the route cites, or nothing.                           *)
CitedText(rid, cutoff, captured) ==
    LET cited == {<<"text", id>> : id \in Intent[rid].evidence}
    IN  IF /\ ~Quarantined("text")
           /\ cited \subseteq DOMAIN entries
           /\ \A k \in cited :
                /\ Eligible(ValueOf(entries, k), Intent[rid].routed, cutoff, captured)
                /\ ValueOf(entries, k).message.symbol \in {"-", Intent[rid].symbol}
        THEN {ValueOf(entries, k) : k \in cited}
        ELSE {}

(* build: an unavailable source is the empty set.                          *)
Build(rid, cutoff, captured) ==
    [rid |-> rid, cutoff |-> cutoff, captured |-> captured,
     sources |-> [market      |-> Snapshot("market", rid, cutoff, captured),
                  closed_bars |-> ClosedBars(rid, cutoff, captured),
                  text        |-> CitedText(rid, cutoff, captured),
                  macro       |-> Snapshot("macro", rid, cutoff, captured)]]

Contexts ==
    [rid : Rids, cutoff : Times, captured : Times,
     sources : [Kinds -> SUBSET Observations]]

(* Fault: only what the route cites is required.                           *)
RequiredOnlyCited(rid) == IF Intent[rid].evidence # {} THEN {"text"} ELSE {}

RequiredKinds(rid) ==
    {"market", "closed_bars"}
    \cup (IF Intent[rid].evidence # {} \/ RequireText THEN {"text"} ELSE {})
    \cup (IF RequireMacro THEN {"macro"} ELSE {})

MissingRequired(ctx) == \E k \in RequiredKinds(ctx.rid) : ctx.sources[k] = {}

StaleAt(ctx, t) == \E k \in Kinds : \E o \in ctx.sources[k] : ~Fresh(o, t)

IntegrityError(ctx) == \E k \in quarantined : ctx.sources[k] # {}

(* require_retained_observation: the original observation of exactly this  *)
(* delivery as a singleton, empty where the lookup raises.                 *)
RetainedObservation(m, at) ==
    {o \in {ValueOf(entries, k) : k \in DOMAIN entries \cap {Key(m)}} :
        /\ m.kind \in {"market", "closed_bars"} \ quarantined
        /\ WellFormed(m)
        /\ Held(digests, Key(m)) /\ ValueOf(digests, Key(m)) = m
        /\ o.message = m
        /\ o.received <= at /\ m.event <= at /\ m.produced <= at
        /\ Fresh(o, at)}

-----------------------------------------------------------------------------
StoreInit ==
    /\ now = 0
    /\ entries = EmptyCache
    /\ digests = EmptyCache
    /\ barSlots = EmptyCache
    /\ quarantined = {}

StoreNext == Tick \/ \E m \in Messages : Ingest(m)

StoreSpec == StoreInit /\ [][StoreNext]_storeVars

-----------------------------------------------------------------------------
(* Properties                                                              *)

StoreTypeOK ==
    /\ now \in Times
    /\ IsCache(entries, Keys, Observations, CacheSize)
    /\ IsCache(digests, Keys, Messages, CacheSize)
    /\ IsCache(barSlots, Slots, Nat, CacheSize)
    /\ quarantined \subseteq Kinds

(* _entries and _digests evict separately but hold the same identities,    *)
(* each with the content its observation was made of, so the lookups of    *)
(* require_retained_observation never find one half of a pair.             *)
EntriesMatchDigests ==
    /\ DOMAIN entries = DOMAIN digests
    /\ \A k \in DOMAIN entries :
         /\ entries[k].age = digests[k].age
         /\ ValueOf(entries, k).message = ValueOf(digests, k)
         /\ Key(ValueOf(digests, k)) = k

(* "First receipt wins": as long as an identity is retained, neither a     *)
(* replay nor a conflicting delivery changes its content or receipt clock. *)
FirstReceiptWins ==
    [][\A k \in DOMAIN entries \cap DOMAIN entries' :
          ValueOf(entries', k) = ValueOf(entries, k)]_storeVars

(* Two retained bars of one (symbol, open time) with different digests can *)
(* be there only if closed bars are quarantined: conflicting bars never    *)
(* both stay usable as evidence.                                           *)
RetainedBarsAgree ==
    "closed_bars" \in quarantined
    \/ \A k, j \in KeysOf("closed_bars") :
          Slot(ValueOf(entries, k).message) = Slot(ValueOf(entries, j).message)
          => ValueOf(entries, k).message.bar = ValueOf(entries, j).message.bar

(* Whatever a cut built now would show as market or bar evidence, the      *)
(* read-only lookup confirms now, with the same first receipt.             *)
LookupConfirmsBuild ==
    \A rid \in Rids : \A kind \in {"market", "closed_bars"} :
      \A o \in Build(rid, now, now).sources[kind] :
        RetainedObservation(o.message, now) = {o}

(* A cut never substitutes evidence: it shows at most one market and one   *)
(* macro message, the market one of the candidate's symbol; exactly one    *)
(* observation per declared bar of the tail, or none at all; exactly the   *)
(* cited texts, or none at all; and nothing of a quarantined kind.         *)
CutIsExact ==
    \A rid \in Rids, cutoff \in Times, captured \in Times :
      LET s == Build(rid, cutoff, captured).sources
      IN  /\ \A o, p \in s.market : o = p /\ o.message.symbol = Intent[rid].symbol
          /\ \A o, p \in s.macro : o = p
          /\ s.closed_bars # {} =>
                /\ {o.message.bar : o \in s.closed_bars} = DeclaredTail(rid)
                /\ \A o, p \in s.closed_bars : o.message.bar = p.message.bar => o = p
          /\ s.text # {} => {o.message.id : o \in s.text} = Intent[rid].evidence
          /\ \A k \in quarantined : s[k] = {}

(* Once the clock is past a cutoff, no delivery changes what a build with  *)
(* that cutoff shows, except by taking a quarantined kind away or evicting *)
(* an observation: late evidence cannot upgrade a route's cut, even if the *)
(* clock is set back in between.                                           *)
CutIsStable ==
    [][DOMAIN entries \subseteq DOMAIN entries' =>
         \A rid \in Rids, cutoff \in 0 .. now - 1, captured \in Times, kind \in Kinds :
           Build(rid, cutoff, captured)'.sources[kind]
             \in {{}, Build(rid, cutoff, captured).sources[kind]}]_storeVars
=============================================================================
