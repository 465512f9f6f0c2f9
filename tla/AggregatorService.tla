-------------------------- MODULE AggregatorService --------------------------
(***************************************************************************)
(* The legacy aggregator process (service.py): four consumer tasks on one  *)
(* event loop.  A router decision waits for the exact evidence it cites;   *)
(* every message of the three other streams retries the waiting decisions  *)
(* from its own task, so several tasks may work on one decision.           *)
(*                                                                         *)
(* An optional value is a set of at most one element.  The streams, the    *)
(* model gateway and the clock are the environment: any message may be     *)
(* delivered again, a publication that fails may have been delivered.      *)
(***************************************************************************)
EXTENDS BoundedCache, TacticalDecider, FiniteSets, Sequences
LOCAL INSTANCE FiniteSetsExt

CONSTANTS
    SnapshotMsgs,    \* market snapshots the bus may deliver
    SentimentMsgs,   \* sentiment signals the bus may deliver
    DecisionMsgs,    \* router decisions the bus may deliver
    Symbols,
    TradingSymbols,  \* the symbols symbol_allowed admits
    SystemModes,     \* the SystemMode values control messages carry
    Answers,         \* outputs the model may give
    DecisionTtl, SnapshotTtl, SentimentTtl, MaxSkew,  \* seconds
    MaxWindow,       \* settings.max_sentiment_window
    MinConfidence,   \* settings.sentiment_min_confidence, in percent
    Deadband,        \* settings.sentiment_deadband, in percent
    ProcessedSize,   \* settings.processed_cache_size
    SnapshotSize,    \* settings.snapshot_cache_size
    MaxTime,         \* bound on the clock
    MaxRestarts      \* bound on process restarts

Tasks  == {"snap", "sent", "control", "router"}
Phases == {"idle", "handling", "model", "publishing", "acking"}
Times  == 0 .. MaxTime

SnapshotIds  == {s.id : s \in SnapshotMsgs}
SentimentIds == {x.id : x \in SentimentMsgs}
DecisionIds  == {d.id : d \in DecisionMsgs}

SnapshotType == [id : Nat, symbol : Symbols, bias : Sides, at : Nat, price : Nat]

SentimentType ==
    [id : Nat, impact : {"BULLISH", "BEARISH", "NEUTRAL"}, sentiment : -100 .. 100,
     confidence : 0 .. 100, at : Nat]

(* conflict: ROUTE_GPT or high effort; snapshot: the cited id, if any.     *)
DecisionType ==
    [id : Nat, symbol : Symbols, snapshot : SUBSET Nat, sentiments : SUBSET Nat,
     quant : Sides, text : Sides, conflict : BOOLEAN, at : Nat]

ASSUME StreamsAssumption ==
    /\ SnapshotMsgs \subseteq SnapshotType
    /\ SentimentMsgs \subseteq SentimentType
    /\ DecisionMsgs \subseteq DecisionType
    /\ \A d \in DecisionMsgs : \A i, j \in d.snapshot : i = j
    /\ \A d \in DecisionMsgs : IsFiniteSet(d.sentiments)
    /\ Answers \subseteq Outputs
    /\ "NORMAL" \in SystemModes

ASSUME LimitsAssumption ==
    /\ TradingSymbols \subseteq Symbols
    /\ {DecisionTtl, SnapshotTtl, SentimentTtl, MaxSkew, MaxTime, MaxRestarts} \subseteq Nat
    /\ {MaxWindow, ProcessedSize, SnapshotSize} \subseteq Nat \ {0}
    /\ {MinConfidence, Deadband} \subseteq 0 .. 100

VARIABLES
    now,
    mode,          \* system_mode
    snapshots,     \* _snapshots_by_id
    seen,          \* _seen_snapshot_ids: id -> canonical snapshot
    sentiments,    \* _sentiments_by_id: id -> signal, and the mode it came in
    heard,         \* _processed_sentiment
    pending,       \* _pending_decisions: id -> decision
    processed,     \* _processed_router
    commandCache,  \* _command_cache: id -> command
    pc,            \* where each task is suspended
    job,           \* each task's local variables
    commandsOut,   \* commands delivered to TACTICAL_COMMAND
    acked,         \* decisions the stream will not deliver again
    calls,         \* model calls per decision, counted up to 5
    restarts

sources   == <<snapshots, seen, sentiments, heard>>
decisions == <<pending, processed, commandCache>>
tasks     == <<pc, job>>
outside   == <<commandsOut, acked, calls, restarts>>
vars      == <<now, mode, sources, decisions, tasks, outside>>

(* A signal retained with whether the local text filter was on.            *)
Signals == [signal : SentimentMsgs, filtered : BOOLEAN]

(* asked: what the model was asked about, when and in which mode.          *)
Commands ==
    [decision : DecisionMsgs, output : Outputs, snapshot : SUBSET SnapshotMsgs,
     asked : SUBSET [signals : SUBSET Signals, at : Times, mode : SystemModes]]

Jobs ==
    [decision : SUBSET DecisionMsgs, queue : Seq(DecisionMsgs),
     snapshot : SUBSET SnapshotMsgs, command : SUBSET Commands,
     asked : SUBSET [signals : SUBSET Signals, at : Times, mode : SystemModes]]

NoJob ==
    [decision |-> {}, queue |-> <<>>, snapshot |-> {}, command |-> {}, asked |-> {}]

(* No task is between two awaits, so another callback may run.             *)
LoopFree == \A t \in Tasks : pc[t] # "handling"

Found(cache, ids) == {ValueOf(cache, i) : i \in ids \cap DOMAIN cache}

-----------------------------------------------------------------------------
(* Evidence                                                                *)

InFuture(at, reference) == reference - at < -MaxSkew

(* _freshness_issue finds none.                                            *)
Fresh(at, reference, ttl) == ~InFuture(at, reference) /\ reference - at <= ttl

(* compiler.py: sentiment * confidence, or nothing where impact and sign   *)
(* disagree; in ten-thousandths.                                           *)
CalibratedSentiment(x) ==
    IF \/ x.impact = "BULLISH" /\ x.sentiment > 0
       \/ x.impact = "BEARISH" /\ x.sentiment < 0
    THEN x.sentiment * x.confidence
    ELSE 0

(* The mean of a set of signals against the deadband.                      *)
CalibratedBias(S) ==
    LET total == MapThenSumSet(CalibratedSentiment, S)
        band  == 100 * Deadband * Cardinality(S)
    IN  IF total > band THEN "LONG" ELSE IF total < -band THEN "SHORT" ELSE "FLAT"

MustDegrade(d) ==
    \/ mode = "LOCAL_QUANT_MODE"
    \/ mode = "CONFLICT_SAFE" /\ d.conflict

(* What rules the model out before any evidence is looked up.              *)
RouteIssue(d) ==
    ~Fresh(d.at, now, DecisionTtl) \/ MustDegrade(d) \/ d.snapshot = {}

SnapshotIssue(d, s) ==
    \/ s.symbol # d.symbol
    \/ s.bias # d.quant
    \/ s.at > d.at
    \/ ~Fresh(s.at, now, SnapshotTtl)
    \/ ~Fresh(s.at, d.at, SnapshotTtl)

(* Fault: a signal may be younger than the snapshot.                       *)
SentimentIssueAnyOrder(d, s, S) ==
    \/ \E x \in S : ~Fresh(x.at, s.at, SentimentTtl) \/ x.confidence < MinConfidence
    \/ S # {} /\ CalibratedBias(S) # d.text

SentimentIssue(d, s, S) ==
    \/ \E x \in S : \/ x.at > s.at
                    \/ ~Fresh(x.at, s.at, SentimentTtl)
                    \/ x.confidence < MinConfidence
    \/ S # {} /\ CalibratedBias(S) # d.text

TooMany(d) == Cardinality(d.sentiments) > MaxWindow

(* The decision is worth waiting for: it cites a snapshot, or with a       *)
(* usable snapshot a signal, that has not arrived.                         *)
Waits(d) ==
    /\ ~RouteIssue(d)
    /\ \/ \E i \in d.snapshot : ~Held(snapshots, i) /\ ~Held(seen, i)
       \/ /\ \E s \in Found(snapshots, d.snapshot) : ~SnapshotIssue(d, s)
          /\ ~TooMany(d)
          /\ \E i \in d.sentiments : ~Held(sentiments, i) /\ ~Held(heard, i)

(* The exact evidence is here and nothing speaks against it.               *)
Sound(d) ==
    /\ ~RouteIssue(d)
    /\ \E s \in Found(snapshots, d.snapshot) :
         /\ ~SnapshotIssue(d, s)
         /\ ~TooMany(d)
         /\ d.sentiments \subseteq DOMAIN sentiments
         /\ ~SentimentIssue(d, s, {f.signal : f \in Found(sentiments, d.sentiments)})

-----------------------------------------------------------------------------
(* Tasks                                                                   *)

GoTo(t, phase) == pc' = [pc EXCEPT ![t] = phase]

Leave(t) == GoTo(t, "idle") /\ job' = [job EXCEPT ![t] = NoJob]

(* _handle_router is called for the next decision of a queue.              *)
Take(t, queue) ==
    IF queue = <<>> THEN Leave(t)
    ELSE /\ GoTo(t, "handling")
         /\ job' = [job EXCEPT ![t] = [NoJob EXCEPT !.decision = {Head(queue)},
                                                    !.queue = Tail(queue)]]

(* The values of a cache, oldest first.                                    *)
Listed(cache) ==
    LET n == Cardinality(DOMAIN cache)
    IN  [i \in 1 .. n |->
           ValueOf(cache, CHOOSE k \in DOMAIN cache : cache[k].age = n + 1 - i)]

(* _retry_pending_decisions starts, on a copy of the waiting decisions.    *)
Retry(t) == Take(t, Listed(pending))

(* Fault: the identity of a retained snapshot is not remembered.           *)
SnapshotUnremembered(s) ==
    /\ LoopFree /\ pc["snap"] = "idle"
    /\ ~Held(seen, s.id)
    /\ ~InFuture(s.at, now)
    /\ s.symbol \in TradingSymbols
    /\ snapshots' = Remember(snapshots, s.id, s, SnapshotSize)
    /\ Retry("snap")
    /\ UNCHANGED <<now, mode, seen, sentiments, heard, decisions, outside>>

(* _handle_snapshot; a replay, a reused id, a snapshot from the future and *)
(* a symbol not allowed change nothing.                                    *)
SnapshotArrives(s) ==
    /\ LoopFree /\ pc["snap"] = "idle"
    /\ ~Held(seen, s.id)
    /\ ~InFuture(s.at, now)
    /\ s.symbol \in TradingSymbols
    /\ snapshots' = Remember(snapshots, s.id, s, SnapshotSize)
    /\ seen' = Remember(seen, s.id, s, ProcessedSize)
    /\ Retry("snap")
    /\ UNCHANGED <<now, mode, sentiments, heard, decisions, outside>>

(* _handle_sentiment; a signal from the future and a replay change nothing.*)
SentimentArrives(x) ==
    /\ LoopFree /\ pc["sent"] = "idle"
    /\ ~InFuture(x.at, now)
    /\ ~Held(heard, x.id)
    /\ sentiments' = Remember(sentiments, x.id,
                              [signal |-> x, filtered |-> mode = "TEXT_LOCAL_FILTER"],
                              ProcessedSize)
    /\ heard' = Remember(heard, x.id, TRUE, ProcessedSize)
    /\ Retry("sent")
    /\ UNCHANGED <<now, mode, snapshots, seen, decisions, outside>>

(* Fault: the signals are dropped when the filter goes on, not off.        *)
ControlClearsOnce(m) ==
    /\ LoopFree /\ pc["control"] = "idle"
    /\ mode' = m
    /\ sentiments' = IF m = "TEXT_LOCAL_FILTER" /\ mode # m THEN EmptyCache ELSE sentiments
    /\ Retry("control")
    /\ UNCHANGED <<now, snapshots, seen, heard, decisions, outside>>

(* _handle_control.                                                        *)
ControlArrives(m) ==
    /\ LoopFree /\ pc["control"] = "idle"
    /\ mode' = m
    /\ sentiments' = IF (mode = "TEXT_LOCAL_FILTER") # (m = "TEXT_LOCAL_FILTER")
                     THEN EmptyCache ELSE sentiments
    /\ Retry("control")
    /\ UNCHANGED <<now, snapshots, seen, heard, decisions, outside>>

DecisionArrives(d) ==
    /\ LoopFree /\ pc["router"] = "idle"
    /\ d \notin acked
    /\ Take("router", <<d>>)
    /\ UNCHANGED <<now, mode, sources, decisions, outside>>

-----------------------------------------------------------------------------
(* _handle_router, up to its first await                                   *)

Handles(t, d) == pc[t] = "handling" /\ d \in job[t].decision

(* Fault: a decision known to be processed is dropped unacknowledged.      *)
SkipUnacked(t, d) ==
    /\ Handles(t, d) /\ (Held(processed, d.id) \/ d.symbol \notin TradingSymbols)
    /\ Take(t, job[t].queue)
    /\ UNCHANGED <<now, mode, sources, decisions, outside>>

(* Known to be processed, or not for this process: nothing to do but ack.  *)
Settled(d) == Held(processed, d.id) \/ d.symbol \notin TradingSymbols

Skip(t, d) ==
    /\ Handles(t, d) /\ Settled(d)
    /\ GoTo(t, "acking")
    /\ UNCHANGED <<now, mode, sources, decisions, job, outside>>

Resend(t, d) ==
    /\ Handles(t, d) /\ ~Settled(d) /\ Held(commandCache, d.id)
    /\ job' = [job EXCEPT ![t].command = {ValueOf(commandCache, d.id)}]
    /\ GoTo(t, "publishing")
    /\ UNCHANGED <<now, mode, sources, decisions, outside>>

Undecided(t, d) == Handles(t, d) /\ ~Settled(d) /\ ~Held(commandCache, d.id)

(* _defer raises: the router task drops the envelope, a retry goes on.     *)
Postpone(t, d) ==
    /\ Undecided(t, d) /\ Waits(d)
    /\ pending' = Remember(pending, d.id, d, SnapshotSize)
    /\ Take(t, job[t].queue)
    /\ UNCHANGED <<now, mode, sources, processed, commandCache, outside>>

(* Fault: the command is dropped before it is published.                   *)
PublishUncached(t, command) ==
    /\ job' = [job EXCEPT ![t].command = {command}]
    /\ GoTo(t, "publishing")
    /\ UNCHANGED commandCache

(* The command is cached and its publication starts.                       *)
Publish(t, command) ==
    /\ commandCache' = Remember(commandCache, command.decision.id, command, ProcessedSize)
    /\ job' = [job EXCEPT ![t].command = {command}]
    /\ GoTo(t, "publishing")

Command(d, output, snapshot, asked) ==
    [decision |-> d, output |-> output, snapshot |-> snapshot, asked |-> asked]

Abstain(t, d) ==
    /\ Undecided(t, d) /\ ~Waits(d) /\ ~Sound(d)
    /\ Publish(t, Command(d, SafeOutput, Found(snapshots, d.snapshot), {}))
    /\ UNCHANGED <<now, mode, sources, pending, processed, outside>>

(* The model is asked; counting stops above the number of tasks.           *)
Ask(t, d) ==
    /\ Undecided(t, d) /\ Sound(d)
    /\ job' = [job EXCEPT
                 ![t].snapshot = Found(snapshots, d.snapshot),
                 ![t].asked = {[signals |-> Found(sentiments, d.sentiments),
                                at |-> now, mode |-> mode]}]
    /\ GoTo(t, "model")
    /\ calls' = [calls EXCEPT ![d.id] = IF @ < 5 THEN @ + 1 ELSE @]
    /\ UNCHANGED <<now, mode, sources, decisions, commandsOut, acked, restarts>>

-----------------------------------------------------------------------------
(* The awaits                                                              *)

Answered(t, output) ==
    /\ LoopFree /\ pc[t] = "model"
    /\ \E d \in job[t].decision :
         Publish(t, Command(d, output, job[t].snapshot, job[t].asked))
    /\ UNCHANGED <<now, mode, sources, pending, processed, outside>>

ModelReturns(t) == \E o \in Answers : Answered(t, Decide(o))

(* The gateway raises, or its answer does not parse.                       *)
ModelFails(t) == Answered(t, SafeOutput)

Published(t) ==
    /\ LoopFree /\ pc[t] = "publishing"
    /\ commandsOut' = commandsOut \cup job[t].command
    /\ \E d \in job[t].decision :
         /\ processed' = Remember(processed, d.id, TRUE, ProcessedSize)
         /\ commandCache' = Discard(commandCache, d.id)
         /\ pending' = Discard(pending, d.id)
    /\ GoTo(t, "acking")
    /\ UNCHANGED <<now, mode, sources, job, acked, calls, restarts>>

(* Fault: the failure is swallowed and the decision acknowledged.          *)
PublishFailsSilently(t) ==
    /\ LoopFree /\ pc[t] = "publishing"
    /\ commandsOut' \in {commandsOut, commandsOut \cup job[t].command}
    /\ GoTo(t, "acking")
    /\ UNCHANGED <<now, mode, sources, decisions, job, acked, calls, restarts>>

(* The publication raises through the retry loop: the task gives up its    *)
(* own envelope and the rest of its queue.                                 *)
PublishFails(t) ==
    /\ LoopFree /\ pc[t] = "publishing"
    /\ commandsOut' \in {commandsOut, commandsOut \cup job[t].command}
    /\ Leave(t)
    /\ UNCHANGED <<now, mode, sources, decisions, acked, calls, restarts>>

(* The decision's envelope is acknowledged; a retry goes on.               *)
Acked(t) ==
    /\ LoopFree /\ pc[t] = "acking"
    /\ acked' = acked \cup job[t].decision
    /\ \E d \in job[t].decision :
         pending' = IF t = "router" THEN pending ELSE Discard(pending, d.id)
    /\ Take(t, job[t].queue)
    /\ UNCHANGED <<now, mode, sources, processed, commandCache,
                   commandsOut, calls, restarts>>

AckFails(t) ==
    /\ LoopFree /\ pc[t] = "acking"
    /\ Leave(t)
    /\ UNCHANGED <<now, mode, sources, decisions, outside>>

Clock ==
    /\ now < MaxTime
    /\ now' = now + 1
    /\ UNCHANGED <<mode, sources, decisions, tasks, outside>>

(* The process dies; everything in memory is lost.                         *)
Restart ==
    /\ restarts < MaxRestarts
    /\ restarts' = restarts + 1
    /\ mode' = "NORMAL"
    /\ snapshots' = EmptyCache /\ seen' = EmptyCache
    /\ sentiments' = EmptyCache /\ heard' = EmptyCache
    /\ pending' = EmptyCache /\ processed' = EmptyCache /\ commandCache' = EmptyCache
    /\ pc' = [t \in Tasks |-> "idle"] /\ job' = [t \in Tasks |-> NoJob]
    /\ UNCHANGED <<now, commandsOut, acked, calls>>

Init ==
    /\ now = 0 /\ mode = "NORMAL"
    /\ snapshots = EmptyCache /\ seen = EmptyCache
    /\ sentiments = EmptyCache /\ heard = EmptyCache
    /\ pending = EmptyCache /\ processed = EmptyCache /\ commandCache = EmptyCache
    /\ pc = [t \in Tasks |-> "idle"] /\ job = [t \in Tasks |-> NoJob]
    /\ commandsOut = {} /\ acked = {} /\ restarts = 0
    /\ calls = [i \in DecisionIds |-> 0]

Handle(t) ==
    \E d \in DecisionMsgs :
        Skip(t, d) \/ Resend(t, d) \/ Postpone(t, d) \/ Abstain(t, d) \/ Ask(t, d)

Next ==
    \/ \E s \in SnapshotMsgs : SnapshotArrives(s)
    \/ \E x \in SentimentMsgs : SentimentArrives(x)
    \/ \E m \in SystemModes : ControlArrives(m)
    \/ \E d \in DecisionMsgs : DecisionArrives(d)
    \/ \E t \in Tasks :
         \/ Handle(t) \/ ModelReturns(t) \/ ModelFails(t)
         \/ Published(t) \/ PublishFails(t) \/ Acked(t) \/ AckFails(t)
    \/ Clock \/ Restart

Spec == Init /\ [][Next]_vars

-----------------------------------------------------------------------------
(* Properties                                                              *)

TypeOK ==
    /\ now \in Times /\ mode \in SystemModes
    /\ IsCache(snapshots, SnapshotIds, SnapshotMsgs, SnapshotSize)
    /\ IsCache(seen, SnapshotIds, SnapshotMsgs, ProcessedSize)
    /\ IsCache(sentiments, SentimentIds, Signals, ProcessedSize)
    /\ IsCache(heard, SentimentIds, {TRUE}, ProcessedSize)
    /\ IsCache(pending, DecisionIds, DecisionMsgs, SnapshotSize)
    /\ IsCache(processed, DecisionIds, {TRUE}, ProcessedSize)
    /\ IsCache(commandCache, DecisionIds, Commands, ProcessedSize)
    /\ pc \in [Tasks -> Phases] /\ job \in [Tasks -> Jobs]
    /\ commandsOut \subseteq Commands /\ acked \subseteq DecisionMsgs
    /\ calls \in [DecisionIds -> 0 .. 5] /\ restarts \in 0 .. MaxRestarts

(* What a command other than the safe one stands on.                       *)
Grounded(c, d) ==
    \E s \in c.snapshot, a \in c.asked :
      LET S == {f.signal : f \in a.signals}
      IN  /\ d.snapshot = {s.id} /\ s.symbol = d.symbol /\ s.bias = d.quant
          /\ s.at <= d.at /\ d.at - s.at <= SnapshotTtl
          /\ a.at - s.at <= SnapshotTtl /\ a.at - d.at <= DecisionTtl
          /\ {x.id : x \in S} = d.sentiments
          /\ \A x \in S : x.at <= s.at /\ s.at - x.at <= SentimentTtl
          /\ S # {} => CalibratedBias(S) = d.text
          /\ a.mode # "LOCAL_QUANT_MODE"
          /\ d.conflict => a.mode # "CONFLICT_SAFE"

(* A delivered command is the safe command, or the model was asked, in a   *)
(* mode that allows it, about exactly the evidence its decision cites:     *)
(* that snapshot, not younger than the decision, and those signals, not    *)
(* younger than the snapshot, all of them in time when it was asked.       *)
CommandsGrounded ==
    \A c \in commandsOut : c.output = SafeOutput \/ Grounded(c, c.decision)

(* A delivered command is one decision: a side exactly with a reason that  *)
(* takes one, a grid with a shift, and no entry below the threshold.       *)
CommandsCoherent ==
    \A c \in commandsOut :
      LET o == c.output
      IN  /\ o.side # "FLAT" <=> o.status \in {"STABLE_TREND_ENTRY", "SHIFT_GRID"}
          /\ o.side = "LONG"  => o.reason # "ENTER_SHORT_TREND"
          /\ o.side = "SHORT" => o.reason # "ENTER_LONG_TREND"
          /\ o.status = "SHIFT_GRID" => o.grid
          /\ o.side # "FLAT" => o.confidence >= MinEntryConfidence

(* A router decision leaves the stream only when a command for it has been *)
(* delivered, whichever task handled it and whatever failed or restarted;  *)
(* only decisions on a symbol of somebody else's are dropped.              *)
AckedOnlyAfterCommand ==
    \A d \in acked :
      d.symbol \in TradingSymbols => \E c \in commandsOut : c.decision.id = d.id

(* service.py: "Never mix model-derived and low-confidence local sentiment *)
(* across recovery edges": the model is never asked about signals of which *)
(* some came in with the text filter on and some with it off, nor about    *)
(* signals from the other side of an edge.                                 *)
NoMixedSentiment ==
    \A t \in Tasks : \A a \in job[t].asked : \A f \in a.signals :
      f.filtered = (a.mode = "TEXT_LOCAL_FILTER")

(* Evidence that is retained is known to have arrived, although the two    *)
(* pairs of caches evict and are cleared apart: a decision waits only for  *)
(* evidence that is not there.  For a snapshot cache no larger than the    *)
(* cache of identities.                                                    *)
HeldEvidenceIsKnown ==
    /\ \A i \in DOMAIN snapshots : Held(seen, i) /\ ValueOf(seen, i) = ValueOf(snapshots, i)
    /\ DOMAIN sentiments \subseteq DOMAIN heard

(* As long as a snapshot is retained, no delivery under its id changes it. *)
SnapshotIdentityFixed ==
    [][\A i \in DOMAIN snapshots \cap DOMAIN snapshots' :
          ValueOf(snapshots', i) = ValueOf(snapshots, i)]_vars

(* Several tasks may work on one decision at once, but however they        *)
(* interleave and fail, a process pays for at most one call per task, as a *)
(* task that has an answer never asks again, and abstains at most once, as *)
(* an abstention is remembered before anybody else looks: two commands     *)
(* under one message id come from calls that were under way together.      *)
(* For a cache of processed decisions that never fills.                    *)
AnswersBoundedByTasks ==
    restarts = 0 =>
      \A i \in DecisionIds :
        /\ calls[i] <= Cardinality(Tasks)
        /\ \A c, e \in {x \in commandsOut : x.decision.id = i /\ x.asked = {}} : c = e

(* tests/test_service.py, test_router_replay_after_failed_ack_does_not_    *)
(* repeat_llm_or_publish: one model call for a decision.                   *)
ModelCalledOnce == \A i \in DecisionIds : calls[i] <= 1

-----------------------------------------------------------------------------
(* Liveness                                                                *)

(* asyncio runs every ready callback; a gateway call ends; time passes; a  *)
(* decision that is not acknowledged is delivered again; of publications,  *)
(* and of acknowledgements, tried again and again some succeed, whichever  *)
(* task makes them.                                                        *)
Fairness ==
    /\ WF_vars(Clock)
    /\ WF_vars(\E t \in Tasks : Handle(t))
    /\ WF_vars(\E t \in Tasks : ModelReturns(t) \/ ModelFails(t))
    /\ SF_vars(\E t \in Tasks : Published(t))
    /\ SF_vars(\E t \in Tasks : Acked(t))
    /\ \A d \in DecisionMsgs : SF_vars(DecisionArrives(d))

FairSpec == Spec /\ Fairness

(* Every decision is acknowledged in the end, even one whose evidence      *)
(* never arrives: it waits no longer than its own time to live.            *)
DecisionsSettle == \A d \in DecisionMsgs : <>(d \in acked)
=============================================================================
