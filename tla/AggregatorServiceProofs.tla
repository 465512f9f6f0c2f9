----------------------- MODULE AggregatorServiceProofs -----------------------
(***************************************************************************)
(* The legacy aggregator, for any streams, limits and restarts.            *)
(*                                                                         *)
(* Evidence: what is retained is known to have arrived, and a retained     *)
(* snapshot does not change, as long as the snapshot cache is not larger   *)
(* than the cache of identities.  The two caches of a pair evict apart;    *)
(* they stay together because a key enters both at once and only when      *)
(* neither holds it, so that a key held by the smaller one has the same    *)
(* age in both: SameAges is inductive.                                     *)
(*                                                                         *)
(* Commands: every state is well typed, and however the four tasks         *)
(* interleave, fail and restart, a command is coherent and stands on the   *)
(* evidence its decision cites, and a decision is acknowledged only when   *)
(* it has had one.                                                         *)
(*                                                                         *)
(* Answers: a process pays for at most one call per task and abstains at   *)
(* most once on a decision, as long as the cache of processed decisions    *)
(* does not fill: a decision is either known, to all tasks at once and for *)
(* good, or all its calls are under way.                                   *)
(***************************************************************************)
EXTENDS AggregatorService, BoundedCacheProofs, SequenceTheorems

-----------------------------------------------------------------------------
(* Evidence                                                                *)

(* Every key of c is a key of d, at the same age.                          *)
SameAges(c, d) ==
    \A i \in DOMAIN c : Held(d, i) /\ c[i].age \in Int /\ d[i].age = c[i].age

EvidenceInv ==
    /\ SameAges(snapshots, seen)
    /\ \A i \in DOMAIN snapshots : ValueOf(seen, i) = ValueOf(snapshots, i)
    /\ SameAges(sentiments, heard)

-----------------------------------------------------------------------------
(* Caches                                                                  *)

(* What a new key does to a cache: the held keys are pushed back by one.   *)
LEMMA NewKey ==
    ASSUME NEW c, NEW k, NEW v, NEW limit, ~Held(c, k)
    PROVE  LET r == Remember(c, k, v, limit)
           IN  /\ \A j : j \in DOMAIN r <=>
                           \/ j = k /\ 1 <= limit
                           \/ j \in DOMAIN c /\ c[j].age + 1 <= limit
               /\ \A j \in DOMAIN r : j # k => r[j].age = c[j].age + 1 /\ r[j].value = c[j].value
               /\ k \in DOMAIN r => r[k].age = 1 /\ r[k].value = v
<1> DEFINE r == Remember(c, k, v, limit)
<1>1. \A j : AgeAfterMove(c, k, j) = IF j = k THEN 1 ELSE c[j].age + 1
  BY DEF AgeAfterMove
<1>2. DOMAIN r = Survivors(c, k, limit)
  BY DEF Remember
<1>3. k \notin DOMAIN c
  BY DEF Held
<1>4. \A j \in DOMAIN r :
        r[j] = [age |-> AgeAfterMove(c, k, j), value |-> IF j = k THEN v ELSE c[j].value]
  BY <1>2 DEF Remember
<1>5. \A j : j \in DOMAIN r <=>
                \/ j = k /\ 1 <= limit
                \/ j \in DOMAIN c /\ c[j].age + 1 <= limit
  BY <1>1, <1>2, <1>3 DEF Survivors
<1>6. \A j \in DOMAIN r : j # k => r[j].age = c[j].age + 1 /\ r[j].value = c[j].value
  BY <1>1, <1>4
<1>7. k \in DOMAIN r => r[k].age = 1 /\ r[k].value = v
  BY <1>1, <1>4
<1> QED BY <1>5, <1>6, <1>7

(* A key that is new to both of a pair keeps the pair together.            *)
LEMMA PairGrows ==
    ASSUME NEW c, NEW d, SameAges(c, d), NEW k, ~Held(d, k), NEW v, NEW w,
           NEW m \in Nat \ {0}, NEW n \in Nat \ {0}, m <= n
    PROVE  /\ SameAges(Remember(c, k, v, m), Remember(d, k, w, n))
           /\ \A i \in DOMAIN Remember(c, k, v, m) :
                \/ i = k /\ ValueOf(Remember(c, k, v, m), i) = v
                         /\ ValueOf(Remember(d, k, w, n), i) = w
                \/ /\ i # k /\ i \in DOMAIN c
                   /\ ValueOf(Remember(c, k, v, m), i) = ValueOf(c, i)
                   /\ ValueOf(Remember(d, k, w, n), i) = ValueOf(d, i)
<1> DEFINE rc == Remember(c, k, v, m)
           rd == Remember(d, k, w, n)
<1>1. ~Held(c, k)
  BY DEF SameAges, Held
<1>2. /\ \A j : j \in DOMAIN rc <=>
                  \/ j = k /\ 1 <= m
                  \/ j \in DOMAIN c /\ c[j].age + 1 <= m
      /\ \A j \in DOMAIN rc : j # k => rc[j].age = c[j].age + 1 /\ rc[j].value = c[j].value
      /\ k \in DOMAIN rc => rc[k].age = 1 /\ rc[k].value = v
  BY <1>1, NewKey
<1>3. /\ \A j : j \in DOMAIN rd <=>
                  \/ j = k /\ 1 <= n
                  \/ j \in DOMAIN d /\ d[j].age + 1 <= n
      /\ \A j \in DOMAIN rd : j # k => rd[j].age = d[j].age + 1 /\ rd[j].value = d[j].value
      /\ k \in DOMAIN rd => rd[k].age = 1 /\ rd[k].value = w
  BY NewKey
<1> HIDE DEF rc, rd
<1>4. ASSUME NEW i \in DOMAIN rc
      PROVE  /\ i \in DOMAIN rd /\ rc[i].age \in Int /\ rd[i].age = rc[i].age
             /\ \/ i = k /\ rc[i].value = v /\ rd[i].value = w
                \/ i # k /\ i \in DOMAIN c /\ rc[i].value = c[i].value
                         /\ rd[i].value = d[i].value
  <2>1. CASE i = k
    BY <1>2, <1>3, <2>1
  <2>2. CASE i # k
    <3>1. i \in DOMAIN c /\ c[i].age + 1 <= m
      BY <1>2, <1>4, <2>2
    <3>2. i \in DOMAIN d /\ c[i].age \in Int /\ d[i].age = c[i].age
      BY <3>1 DEF SameAges, Held
    <3>3. i \in DOMAIN rd
      BY <1>3, <3>1, <3>2
    <3> QED BY <1>2, <1>3, <1>4, <2>2, <3>1, <3>2, <3>3
  <2> QED BY <2>1, <2>2
<1> QED BY <1>4 DEF SameAges, Held, ValueOf, rc, rd

-----------------------------------------------------------------------------
(* The steps                                                               *)

LEMMA InitEvidence == Init => EvidenceInv
BY DEF Init, EvidenceInv, SameAges, EmptyCache

LEMMA SnapshotStep ==
    ASSUME SnapshotSize <= ProcessedSize, EvidenceInv,
           NEW s \in SnapshotMsgs, SnapshotArrives(s)
    PROVE  /\ EvidenceInv'
           /\ \A i \in DOMAIN snapshots \cap DOMAIN snapshots' :
                ValueOf(snapshots', i) = ValueOf(snapshots, i)
<1>1. /\ ~Held(seen, s.id)
      /\ snapshots' = Remember(snapshots, s.id, s, SnapshotSize)
      /\ seen' = Remember(seen, s.id, s, ProcessedSize)
      /\ UNCHANGED <<sentiments, heard>>
  BY DEF SnapshotArrives
<1>2. SnapshotSize \in Nat \ {0} /\ ProcessedSize \in Nat \ {0}
  BY LimitsAssumption
<1>3. /\ SameAges(snapshots', seen')
      /\ \A i \in DOMAIN snapshots' :
           \/ i = s.id /\ ValueOf(snapshots', i) = s /\ ValueOf(seen', i) = s
           \/ /\ i # s.id /\ i \in DOMAIN snapshots
              /\ ValueOf(snapshots', i) = ValueOf(snapshots, i)
              /\ ValueOf(seen', i) = ValueOf(seen, i)
  BY <1>1, <1>2, PairGrows DEF EvidenceInv
<1>4. s.id \notin DOMAIN snapshots
  BY <1>1 DEF EvidenceInv, SameAges
<1>5. \A i \in DOMAIN snapshots' : ValueOf(seen', i) = ValueOf(snapshots', i)
  BY <1>3 DEF EvidenceInv
<1>6. SameAges(sentiments, heard)'
  BY <1>1 DEF EvidenceInv, SameAges, Held
<1>7. EvidenceInv'
  BY <1>3, <1>5, <1>6 DEF EvidenceInv, SameAges, Held, ValueOf
<1> QED BY <1>3, <1>4, <1>7

LEMMA SentimentStep ==
    ASSUME EvidenceInv, NEW x \in SentimentMsgs, SentimentArrives(x)
    PROVE  EvidenceInv' /\ UNCHANGED snapshots
<1>1. PICK v :
        /\ ~Held(heard, x.id)
        /\ sentiments' = Remember(sentiments, x.id, v, ProcessedSize)
        /\ heard' = Remember(heard, x.id, TRUE, ProcessedSize)
        /\ UNCHANGED <<snapshots, seen>>
  BY DEF SentimentArrives
<1>2. ProcessedSize \in Nat \ {0} /\ ProcessedSize <= ProcessedSize
  BY LimitsAssumption
<1>3. SameAges(sentiments', heard')
  BY <1>1, <1>2, PairGrows DEF EvidenceInv
<1> QED BY <1>1, <1>3 DEF EvidenceInv, SameAges, Held, ValueOf

LEMMA ControlStep ==
    ASSUME EvidenceInv, NEW m \in SystemModes, ControlArrives(m)
    PROVE  EvidenceInv' /\ UNCHANGED snapshots
<1>1. /\ sentiments' = EmptyCache \/ sentiments' = sentiments
      /\ UNCHANGED <<snapshots, seen, heard>>
  BY DEF ControlArrives
<1> QED BY <1>1 DEF EvidenceInv, SameAges, Held, ValueOf, EmptyCache

LEMMA RestartStep ==
    ASSUME EvidenceInv, Restart
    PROVE  EvidenceInv' /\ DOMAIN snapshots' = {}
BY DEF Restart, EvidenceInv, SameAges, Held, ValueOf, EmptyCache

LEMMA OtherStep ==
    ASSUME EvidenceInv, UNCHANGED sources
    PROVE  EvidenceInv' /\ UNCHANGED snapshots
BY DEF EvidenceInv, SameAges, Held, ValueOf, sources

LEMMA EvidenceStep ==
    ASSUME SnapshotSize <= ProcessedSize, EvidenceInv, [Next]_vars
    PROVE  /\ EvidenceInv'
           /\ \A i \in DOMAIN snapshots \cap DOMAIN snapshots' :
                ValueOf(snapshots', i) = ValueOf(snapshots, i)
<1>1. CASE \E s \in SnapshotMsgs : SnapshotArrives(s)
  BY <1>1, SnapshotStep
<1>2. CASE \E x \in SentimentMsgs : SentimentArrives(x)
  BY <1>2, SentimentStep DEF ValueOf
<1>3. CASE \E m \in SystemModes : ControlArrives(m)
  BY <1>3, ControlStep DEF ValueOf
<1>4. CASE Restart
  BY <1>4, RestartStep
<1>5. CASE UNCHANGED sources
  BY <1>5, OtherStep DEF ValueOf
<1>6. ASSUME NEW d \in DecisionMsgs, DecisionArrives(d) PROVE UNCHANGED sources
  BY <1>6 DEF DecisionArrives
<1>7. ASSUME NEW t \in Tasks, Handle(t) PROVE UNCHANGED sources
  BY <1>7 DEF Handle, Skip, Resend, Postpone, Abstain, Ask
<1>8. ASSUME NEW t \in Tasks,
             ModelReturns(t) \/ ModelFails(t) \/ Published(t) \/ PublishFails(t)
               \/ Acked(t) \/ AckFails(t)
      PROVE  UNCHANGED sources
  BY <1>8 DEF ModelReturns, ModelFails, Answered, Published, PublishFails, Acked, AckFails
<1>9. ASSUME Clock \/ UNCHANGED vars PROVE UNCHANGED sources
  BY <1>9 DEF Clock, vars
<1> QED BY <1>1, <1>2, <1>3, <1>4, <1>5, <1>6, <1>7, <1>8, <1>9 DEF Next

-----------------------------------------------------------------------------
(* Retained evidence is known to have arrived, whatever is evicted or      *)
(* cleared in between: a decision never waits for evidence that is there.  *)
THEOREM RetainedEvidenceKnown ==
    ASSUME SnapshotSize <= ProcessedSize
    PROVE  Spec => []HeldEvidenceIsKnown
<1>1. EvidenceInv /\ [Next]_vars => EvidenceInv'
  BY EvidenceStep
<1>2. EvidenceInv => HeldEvidenceIsKnown
  BY DEF EvidenceInv, SameAges, HeldEvidenceIsKnown, Held
<1> QED BY InitEvidence, <1>1, <1>2, PTL DEF Spec

(* A retained snapshot does not change under its id, whatever the bus      *)
(* delivers: the price of a command is that of the first delivery.         *)
THEOREM RetainedSnapshotsFixed ==
    ASSUME SnapshotSize <= ProcessedSize
    PROVE  Spec => SnapshotIdentityFixed
<1>1. EvidenceInv /\ [Next]_vars => EvidenceInv'
  BY EvidenceStep
<1>2. EvidenceInv /\ [Next]_vars =>
        [\A i \in DOMAIN snapshots \cap DOMAIN snapshots' :
           ValueOf(snapshots', i) = ValueOf(snapshots, i)]_vars
  BY EvidenceStep
<1> QED BY InitEvidence, <1>1, <1>2, PTL DEF Spec, SnapshotIdentityFixed
-----------------------------------------------------------------------------
(* Commands                                                                *)

LEMMA LimitTypes ==
    /\ SnapshotSize \in Nat \ {0} /\ ProcessedSize \in Nat \ {0}
    /\ Times \subseteq Nat /\ 0 \in Times
BY LimitsAssumption DEF Times

LEMMA NoJobType == NoJob \in Jobs
<1>1. <<>> \in Seq(DecisionMsgs)
  BY EmptySeq
<1> QED BY <1>1 DEF NoJob, Jobs

LEMMA SafeOutputType == SafeOutput \in Outputs
BY DEF SafeOutput, Outputs, Statuses, ReasonCodes, AllowedReasons, Sides

LEMMA DecideType == ASSUME NEW o \in Outputs PROVE Decide(o) \in Outputs
BY SafeOutputType DEF Decide

-----------------------------------------------------------------------------
(* A cache as a list                                                       *)

LEMMA ListedType ==
    ASSUME NEW K, NEW V, NEW limit \in Nat \ {0}, NEW c, IsCache(c, K, V, limit)
    PROVE  Listed(c) \in Seq(V)
<1> DEFINE n == Cardinality(DOMAIN c)
           key(i) == CHOOSE k \in DOMAIN c : c[k].age = n + 1 - i
<1>1. n \in Nat /\ \A a \in 1 .. n : \E k \in DOMAIN c : c[k].age = a
  BY AgesFill
<1>2. \A i \in 1 .. n : key(i) \in DOMAIN c
  <2> SUFFICES ASSUME NEW i \in 1 .. n PROVE key(i) \in DOMAIN c
    OBVIOUS
  <2>1. n + 1 - i \in 1 .. n
    BY <1>1
  <2> QED BY <1>1, <2>1
<1>3. \A i \in 1 .. n : ValueOf(c, key(i)) \in V
  BY <1>2 DEF ValueOf, IsCache
<1>4. Listed(c) = [i \in 1 .. n |-> ValueOf(c, key(i))]
  BY DEF Listed
<1> HIDE DEF n, key
<1>5. Listed(c) \in [1 .. n -> V]
  BY <1>3, <1>4
<1> QED BY <1>1, <1>5, SeqDef

-----------------------------------------------------------------------------
(* Type correctness                                                        *)

(* The variables grouped as the actions change them.                       *)
SourceTypes ==
    /\ IsCache(snapshots, SnapshotIds, SnapshotMsgs, SnapshotSize)
    /\ IsCache(seen, SnapshotIds, SnapshotMsgs, ProcessedSize)
    /\ IsCache(sentiments, SentimentIds, Signals, ProcessedSize)
    /\ IsCache(heard, SentimentIds, {TRUE}, ProcessedSize)

DecisionTypes ==
    /\ IsCache(pending, DecisionIds, DecisionMsgs, SnapshotSize)
    /\ IsCache(processed, DecisionIds, {TRUE}, ProcessedSize)
    /\ IsCache(commandCache, DecisionIds, Commands, ProcessedSize)

TaskTypes == pc \in [Tasks -> Phases] /\ job \in [Tasks -> Jobs]

OutsideTypes ==
    /\ commandsOut \subseteq Commands /\ acked \subseteq DecisionMsgs
    /\ calls \in [DecisionIds -> 0 .. 5] /\ restarts \in 0 .. MaxRestarts

ClockTypes == now \in Times /\ mode \in SystemModes

LEMMA TypeParts ==
    TypeOK <=> ClockTypes /\ SourceTypes /\ DecisionTypes /\ TaskTypes /\ OutsideTypes
BY DEF TypeOK, ClockTypes, SourceTypes, DecisionTypes, TaskTypes, OutsideTypes

LEMMA TypePartsPrime ==
    TypeOK' <=> ClockTypes' /\ SourceTypes' /\ DecisionTypes' /\ TaskTypes' /\ OutsideTypes'
BY DEF TypeOK, ClockTypes, SourceTypes, DecisionTypes, TaskTypes, OutsideTypes

LEMMA UnchangedTypes ==
    ASSUME TypeOK
    PROVE  /\ UNCHANGED <<now, mode>> => ClockTypes'
           /\ UNCHANGED sources => SourceTypes'
           /\ UNCHANGED decisions => DecisionTypes'
           /\ UNCHANGED tasks => TaskTypes'
           /\ UNCHANGED outside => OutsideTypes'
BY DEF TypeOK, ClockTypes, SourceTypes, DecisionTypes, TaskTypes, OutsideTypes,
       sources, decisions, tasks, outside

LEMMA JobType ==
    ASSUME TypeOK, NEW t \in Tasks
    PROVE  /\ job[t].decision \subseteq DecisionMsgs /\ job[t].queue \in Seq(DecisionMsgs)
           /\ job[t].snapshot \subseteq SnapshotMsgs /\ job[t].command \subseteq Commands
           /\ \A a \in job[t].asked :
                a \in [signals : SUBSET Signals, at : Times, mode : SystemModes]
BY DEF TypeOK, Jobs

LEMMA IdOf == ASSUME NEW d \in DecisionMsgs PROVE d.id \in DecisionIds
BY DEF DecisionIds

LEMMA TakeType ==
    ASSUME TypeOK, NEW t \in Tasks, NEW queue \in Seq(DecisionMsgs), Take(t, queue)
    PROVE  TaskTypes'
<1>1. CASE queue = <<>>
  BY <1>1, NoJobType DEF Take, Leave, GoTo, TypeOK, TaskTypes, Phases
<1>2. CASE queue # <<>>
  <2> DEFINE taken == [NoJob EXCEPT !.decision = {Head(queue)}, !.queue = Tail(queue)]
  <2>1. Head(queue) \in DecisionMsgs /\ Tail(queue) \in Seq(DecisionMsgs)
    BY <1>2, HeadTailProperties
  <2>2. taken \in Jobs
    BY <2>1, NoJobType DEF Jobs
  <2>3. pc' = [pc EXCEPT ![t] = "handling"] /\ job' = [job EXCEPT ![t] = taken]
    BY <1>2 DEF Take, GoTo
  <2> HIDE DEF taken
  <2> QED BY <2>2, <2>3 DEF TypeOK, TaskTypes, Phases
<1> QED BY <1>1, <1>2

LEMMA LeaveType == ASSUME TypeOK, NEW t \in Tasks, Leave(t) PROVE TaskTypes'
BY NoJobType DEF Leave, GoTo, TypeOK, TaskTypes, Phases

LEMMA RetryType == ASSUME TypeOK, NEW t \in Tasks, Retry(t) PROVE TaskTypes'
<1>1. Listed(pending) \in Seq(DecisionMsgs)
  BY LimitTypes, ListedType DEF TypeOK
<1> QED BY <1>1, TakeType DEF Retry

LEMMA FoundTypes ==
    ASSUME TypeOK, NEW ids
    PROVE  /\ Found(snapshots, ids) \subseteq SnapshotMsgs
           /\ Found(sentiments, ids) \subseteq Signals
BY DEF TypeOK, Found, ValueOf, IsCache

LEMMA SnapshotTypeOK ==
    ASSUME TypeOK, NEW s \in SnapshotMsgs, SnapshotArrives(s) PROVE TypeOK'
<1>1. s.id \in SnapshotIds
  BY DEF SnapshotIds
<1>2. /\ IsCache(snapshots', SnapshotIds, SnapshotMsgs, SnapshotSize)
      /\ IsCache(seen', SnapshotIds, SnapshotMsgs, ProcessedSize)
  BY <1>1, LimitTypes, RememberIsCache DEF TypeOK, SnapshotArrives
<1>3. SourceTypes'
  BY <1>2 DEF TypeOK, SourceTypes, SnapshotArrives
<1>4. TaskTypes'
  BY RetryType DEF SnapshotArrives, Tasks
<1> QED BY <1>3, <1>4, UnchangedTypes, TypePartsPrime DEF SnapshotArrives

LEMMA SentimentTypeOK ==
    ASSUME TypeOK, NEW x \in SentimentMsgs, SentimentArrives(x) PROVE TypeOK'
<1> DEFINE v == [signal |-> x, filtered |-> mode = "TEXT_LOCAL_FILTER"]
<1>1. x.id \in SentimentIds /\ v \in Signals
  BY DEF SentimentIds, Signals
<1>2. IsCache(sentiments, SentimentIds, Signals, ProcessedSize)
      /\ IsCache(heard, SentimentIds, {TRUE}, ProcessedSize)
  BY DEF TypeOK
<1>3. sentiments' = Remember(sentiments, x.id, v, ProcessedSize)
      /\ heard' = Remember(heard, x.id, TRUE, ProcessedSize)
  BY DEF SentimentArrives
<1> HIDE DEF v
<1>4. /\ IsCache(sentiments', SentimentIds, Signals, ProcessedSize)
      /\ IsCache(heard', SentimentIds, {TRUE}, ProcessedSize)
  BY <1>1, <1>2, <1>3, LimitTypes, RememberIsCache
<1>5. SourceTypes'
  BY <1>4 DEF TypeOK, SourceTypes, SentimentArrives
<1>6. TaskTypes'
  BY RetryType DEF SentimentArrives, Tasks
<1> QED BY <1>5, <1>6, UnchangedTypes, TypePartsPrime DEF SentimentArrives

LEMMA ControlTypeOK ==
    ASSUME TypeOK, NEW m \in SystemModes, ControlArrives(m) PROVE TypeOK'
<1>1. sentiments' = EmptyCache \/ sentiments' = sentiments
  BY DEF ControlArrives
<1>2. IsCache(sentiments', SentimentIds, Signals, ProcessedSize)
  BY <1>1, EmptyIsCache DEF TypeOK
<1>3. SourceTypes'
  BY <1>2 DEF TypeOK, SourceTypes, ControlArrives
<1>4. ClockTypes'
  BY DEF TypeOK, ClockTypes, ControlArrives
<1>5. TaskTypes'
  BY RetryType DEF ControlArrives, Tasks
<1> QED BY <1>3, <1>4, <1>5, UnchangedTypes, TypePartsPrime DEF ControlArrives

LEMMA DecisionTypeOK ==
    ASSUME TypeOK, NEW d \in DecisionMsgs, DecisionArrives(d) PROVE TypeOK'
<1>1. <<d>> \in Seq(DecisionMsgs)
  BY SeqDef
<1>2. TaskTypes'
  BY <1>1, TakeType DEF DecisionArrives, Tasks
<1> QED BY <1>2, UnchangedTypes, TypePartsPrime DEF DecisionArrives

(* A command is cached and its publication starts.                         *)
LEMMA PublishType ==
    ASSUME TypeOK, NEW t \in Tasks, NEW c \in Commands, Publish(t, c)
    PROVE  TaskTypes' /\ IsCache(commandCache', DecisionIds, Commands, ProcessedSize)
<1>1. c.decision.id \in DecisionIds
  BY IdOf DEF Commands
<1>2. IsCache(commandCache', DecisionIds, Commands, ProcessedSize)
  BY <1>1, LimitTypes, RememberIsCache DEF Publish, TypeOK
<1>3. job' \in [Tasks -> Jobs]
  BY DEF Publish, TypeOK, Jobs
<1> QED BY <1>2, <1>3 DEF Publish, GoTo, TypeOK, TaskTypes, Phases

LEMMA HandleTypeOK ==
    ASSUME TypeOK, NEW t \in Tasks, NEW d \in DecisionMsgs,
           Skip(t, d) \/ Resend(t, d) \/ Postpone(t, d) \/ Abstain(t, d) \/ Ask(t, d)
    PROVE  TypeOK'
<1>1. CASE Skip(t, d)
  <2>1. TaskTypes'
    BY <1>1 DEF Skip, GoTo, TypeOK, TaskTypes, Phases
  <2> QED BY <1>1, <2>1, UnchangedTypes, TypePartsPrime DEF Skip
<1>2. CASE Resend(t, d)
  <2>1. ValueOf(commandCache, d.id) \in Commands
    BY <1>2 DEF Resend, TypeOK, IsCache, Held, ValueOf
  <2>2. job' \in [Tasks -> Jobs]
    BY <1>2, <2>1 DEF Resend, TypeOK, Jobs
  <2>3. TaskTypes'
    BY <1>2, <2>2 DEF Resend, GoTo, TypeOK, TaskTypes, Phases
  <2> QED BY <1>2, <2>3, UnchangedTypes, TypePartsPrime DEF Resend
<1>3. CASE Postpone(t, d)
  <2>1. TaskTypes'
    BY <1>3, JobType, TakeType DEF Postpone
  <2>2. IsCache(pending', DecisionIds, DecisionMsgs, SnapshotSize)
    BY <1>3, IdOf, LimitTypes, RememberIsCache DEF Postpone, TypeOK
  <2>3. DecisionTypes'
    BY <1>3, <2>2 DEF Postpone, TypeOK, DecisionTypes
  <2> QED BY <1>3, <2>1, <2>3, UnchangedTypes, TypePartsPrime DEF Postpone
<1>4. CASE Abstain(t, d)
  <2> DEFINE c == Command(d, SafeOutput, Found(snapshots, d.snapshot), {})
  <2>1. c \in Commands
    BY SafeOutputType, FoundTypes DEF Command, Commands
  <2>2. TaskTypes' /\ IsCache(commandCache', DecisionIds, Commands, ProcessedSize)
    BY <1>4, <2>1, PublishType DEF Abstain
  <2>3. DecisionTypes'
    BY <1>4, <2>2 DEF Abstain, TypeOK, DecisionTypes
  <2> QED BY <1>4, <2>2, <2>3, UnchangedTypes, TypePartsPrime DEF Abstain
<1>5. CASE Ask(t, d)
  <2> DEFINE question == [signals |-> Found(sentiments, d.sentiments), at |-> now, mode |-> mode]
             found == Found(snapshots, d.snapshot)
  <2>1. question \in [signals : SUBSET Signals, at : Times, mode : SystemModes]
    BY FoundTypes DEF TypeOK
  <2>2. found \subseteq SnapshotMsgs
    BY FoundTypes
  <2>3. job' = [job EXCEPT ![t].snapshot = found, ![t].asked = {question}]
    BY <1>5 DEF Ask
  <2> HIDE DEF question, found
  <2>4. job' \in [Tasks -> Jobs]
    BY <2>1, <2>2, <2>3 DEF TypeOK, Jobs
  <2>5. TaskTypes'
    BY <1>5, <2>4 DEF Ask, GoTo, TypeOK, TaskTypes, Phases
  <2>6. OutsideTypes'
    BY <1>5, IdOf DEF Ask, TypeOK, OutsideTypes
  <2> QED BY <1>5, <2>5, <2>6, UnchangedTypes, TypePartsPrime DEF Ask, decisions
<1> QED BY <1>1, <1>2, <1>3, <1>4, <1>5

LEMMA AnsweredTypeOK ==
    ASSUME TypeOK, NEW t \in Tasks, NEW o \in Outputs, Answered(t, o) PROVE TypeOK'
<1>1. PICK d \in job[t].decision : Publish(t, Command(d, o, job[t].snapshot, job[t].asked))
  BY DEF Answered
<1> DEFINE c == Command(d, o, job[t].snapshot, job[t].asked)
<1>2. c \in Commands
  BY JobType DEF Command, Commands
<1> HIDE DEF c
<1>3. TaskTypes' /\ IsCache(commandCache', DecisionIds, Commands, ProcessedSize)
  BY <1>1, <1>2, PublishType DEF c
<1>4. DecisionTypes'
  BY <1>3 DEF Answered, TypeOK, DecisionTypes
<1> QED BY <1>3, <1>4, UnchangedTypes, TypePartsPrime DEF Answered

LEMMA PublicationTypeOK ==
    ASSUME TypeOK, NEW t \in Tasks,
           Published(t) \/ PublishFails(t) \/ Acked(t) \/ AckFails(t)
    PROVE  TypeOK'
<1>1. CASE Published(t)
  <2>1. PICK d \in job[t].decision :
          /\ processed' = Remember(processed, d.id, TRUE, ProcessedSize)
          /\ commandCache' = Discard(commandCache, d.id)
          /\ pending' = Discard(pending, d.id)
    BY <1>1 DEF Published
  <2>2. d.id \in DecisionIds
    BY JobType, IdOf
  <2>3. DecisionTypes'
    BY <2>1, <2>2, LimitTypes, RememberIsCache, DiscardIsCache DEF TypeOK, DecisionTypes
  <2>4. TaskTypes'
    BY <1>1 DEF Published, GoTo, TypeOK, TaskTypes, Phases
  <2>5. OutsideTypes'
    BY <1>1, JobType DEF Published, TypeOK, OutsideTypes
  <2> QED BY <1>1, <2>3, <2>4, <2>5, UnchangedTypes, TypePartsPrime DEF Published
<1>2. CASE PublishFails(t)
  <2>1. OutsideTypes'
    BY <1>2, JobType DEF PublishFails, TypeOK, OutsideTypes
  <2> QED BY <1>2, <2>1, LeaveType, UnchangedTypes, TypePartsPrime DEF PublishFails
<1>3. CASE Acked(t)
  <2>1. PICK d \in job[t].decision :
          pending' = IF t = "router" THEN pending ELSE Discard(pending, d.id)
    BY <1>3 DEF Acked
  <2>2. IsCache(pending', DecisionIds, DecisionMsgs, SnapshotSize)
    BY <2>1, LimitTypes, DiscardIsCache DEF TypeOK
  <2>3. DecisionTypes'
    BY <1>3, <2>2 DEF Acked, TypeOK, DecisionTypes
  <2>4. TaskTypes'
    BY <1>3, JobType, TakeType DEF Acked
  <2>5. OutsideTypes'
    BY <1>3, JobType DEF Acked, TypeOK, OutsideTypes
  <2> QED BY <1>3, <2>3, <2>4, <2>5, UnchangedTypes, TypePartsPrime DEF Acked
<1>4. CASE AckFails(t)
  BY <1>4, LeaveType, UnchangedTypes, TypePartsPrime DEF AckFails
<1> QED BY <1>1, <1>2, <1>3, <1>4

LEMMA ClockTypeOK == ASSUME TypeOK, Clock PROVE TypeOK'
<1>1. ClockTypes'
  BY LimitsAssumption DEF Clock, TypeOK, ClockTypes, Times
<1> QED BY <1>1, UnchangedTypes, TypePartsPrime DEF Clock

LEMMA RestartTypeOK == ASSUME TypeOK, Restart PROVE TypeOK'
<1>1. ClockTypes'
  BY StreamsAssumption DEF Restart, TypeOK, ClockTypes
<1>2. SourceTypes' /\ DecisionTypes'
  BY EmptyIsCache DEF Restart, SourceTypes, DecisionTypes
<1>3. TaskTypes'
  BY NoJobType DEF Restart, TaskTypes, Phases
<1>4. OutsideTypes'
  BY LimitsAssumption DEF Restart, TypeOK, OutsideTypes
<1> QED BY <1>1, <1>2, <1>3, <1>4, TypePartsPrime

LEMMA InitTypeOK == Init => TypeOK
<1> SUFFICES ASSUME Init PROVE TypeOK
  OBVIOUS
<1>1. SourceTypes /\ DecisionTypes
  BY EmptyIsCache DEF Init, SourceTypes, DecisionTypes
<1>2. TaskTypes
  BY NoJobType DEF Init, TaskTypes, Phases
<1>3. ClockTypes /\ OutsideTypes
  BY LimitTypes, LimitsAssumption, StreamsAssumption DEF Init, ClockTypes, OutsideTypes
<1> QED BY <1>1, <1>2, <1>3, TypeParts

LEMMA StepTypeOK == TypeOK /\ [Next]_vars => TypeOK'
<1> SUFFICES ASSUME TypeOK, [Next]_vars PROVE TypeOK'
  OBVIOUS
<1>1. CASE \E s \in SnapshotMsgs : SnapshotArrives(s)
  BY <1>1, SnapshotTypeOK
<1>2. CASE \E x \in SentimentMsgs : SentimentArrives(x)
  BY <1>2, SentimentTypeOK
<1>3. CASE \E m \in SystemModes : ControlArrives(m)
  BY <1>3, ControlTypeOK
<1>4. CASE \E d \in DecisionMsgs : DecisionArrives(d)
  BY <1>4, DecisionTypeOK
<1>5. ASSUME NEW t \in Tasks, Handle(t) PROVE TypeOK'
  BY <1>5, HandleTypeOK DEF Handle
<1>6. ASSUME NEW t \in Tasks, ModelReturns(t) \/ ModelFails(t) PROVE TypeOK'
  <2>1. \E o \in Outputs : Answered(t, o)
    BY <1>6, StreamsAssumption, DecideType, SafeOutputType DEF ModelReturns, ModelFails
  <2> QED BY <2>1, AnsweredTypeOK
<1>7. ASSUME NEW t \in Tasks, Published(t) \/ PublishFails(t) \/ Acked(t) \/ AckFails(t)
      PROVE  TypeOK'
  BY <1>7, PublicationTypeOK
<1>8. CASE Clock \/ Restart
  BY <1>8, ClockTypeOK, RestartTypeOK
<1>9. CASE UNCHANGED vars
  BY <1>9, UnchangedTypes, TypePartsPrime DEF vars
<1> QED BY <1>1, <1>2, <1>3, <1>4, <1>5, <1>6, <1>7, <1>8, <1>9 DEF Next

(* Every reachable state of the legacy aggregator is well typed, for every *)
(* stream and every limit: no eviction, removal or clearing leaves a cache *)
(* with more keys than it may hold or with a hole in its order.            *)
THEOREM LegacyTypeCorrect == Spec => []TypeOK
BY InitTypeOK, StepTypeOK, PTL DEF Spec

-----------------------------------------------------------------------------
(* The inductive invariant                                                 *)

(* What CommandsCoherent says of one output.                               *)
Coherent(o) ==
    /\ o.side # "FLAT" <=> o.status \in {"STABLE_TREND_ENTRY", "SHIFT_GRID"}
    /\ o.side = "LONG"  => o.reason # "ENTER_SHORT_TREND"
    /\ o.side = "SHORT" => o.reason # "ENTER_LONG_TREND"
    /\ o.status = "SHIFT_GRID" => o.grid
    /\ o.side # "FLAT" => o.confidence >= MinEntryConfidence

Good(c) == Coherent(c.output) /\ (c.output = SafeOutput \/ Grounded(c, c.decision))

Delivered(i) == \E c \in commandsOut : c.decision.id = i

Done(d) == d.symbol \in TradingSymbols => Delivered(d.id)

Unmixed(j) ==
    \A a \in j.asked : \A f \in a.signals : f.filtered = (a.mode = "TEXT_LOCAL_FILTER")

(* Evidence is filed under its own id, and every retained signal came in   *)
(* on the present side of the filter's edge.                               *)
SourcesKeyed ==
    /\ \A i \in DOMAIN snapshots : ValueOf(snapshots, i).id = i
    /\ \A i \in DOMAIN sentiments :
         /\ ValueOf(sentiments, i).signal.id = i
         /\ ValueOf(sentiments, i).filtered = (mode = "TEXT_LOCAL_FILTER")

(* What a suspended task's local variables are good for.                   *)
TaskSound(t) ==
    /\ pc[t] # "idle" => \E d \in DecisionMsgs : job[t].decision = {d}
    /\ Unmixed(job[t])
    /\ pc[t] = "model" => \A d \in job[t].decision : Grounded(job[t], d)
    /\ pc[t] = "publishing" =>
         \E c \in Commands :
           /\ job[t].command = {c} /\ Good(c)
           /\ \A d \in job[t].decision : c.decision.id = d.id
    /\ pc[t] = "acking" => \A d \in job[t].decision : Done(d)

TasksSound == \A t \in Tasks : TaskSound(t)

CachesSound ==
    /\ \A i \in DOMAIN commandCache :
         Good(ValueOf(commandCache, i)) /\ ValueOf(commandCache, i).decision.id = i
    /\ \A i \in DOMAIN processed : Delivered(i)

OutSound ==
    /\ \A c \in commandsOut : Good(c)
    /\ \A d \in acked : Done(d)

CommandInv == SourcesKeyed /\ TasksSound /\ CachesSound /\ OutSound

-----------------------------------------------------------------------------
(* Outputs and evidence                                                    *)

LEMMA SafeOutputCoherent == Coherent(SafeOutput)
BY DEF Coherent, SafeOutput

LEMMA DecideCoherent == ASSUME NEW o \in Outputs PROVE Coherent(Decide(o))
<1>1. CASE Decide(o) = SafeOutput
  BY <1>1, SafeOutputCoherent
<1>2. CASE ValidOutput(o) /\ ~WeakEntry(o) /\ Decide(o) = o
  <2>1. o.status \in {"STABLE_TREND_ENTRY", "HOLD_GRID", "SHIFT_GRID",
                      "WAIT_CONFIRMATION", "REDUCE_LEVERAGE", "EXIT"}
    BY DEF Outputs, Statuses, AllowedReasons
  <2>2. o.reason \in AllowedReasons[o.status] /\ o.side \in SidesOf(o.reason)
        /\ (o.status = "SHIFT_GRID" => o.grid)
    BY <1>2 DEF ValidOutput
  <2>3. o.reason \in Directional => o.confidence >= MinEntryConfidence
    BY <1>2, EntryConfidenceAssumption DEF WeakEntry, Outputs
  <2> QED BY <1>2, <2>1, <2>2, <2>3 DEF Coherent, AllowedReasons, SidesOf, Directional
<1> QED BY <1>1, <1>2 DEF Decide

(* A sound decision is one the model may be asked about.                   *)
LEMMA SoundIsGrounded ==
    ASSUME TypeOK, SourcesKeyed, NEW d \in DecisionMsgs, Sound(d), NEW j,
           j.snapshot = Found(snapshots, d.snapshot),
           j.asked = {[signals |-> Found(sentiments, d.sentiments),
                       at |-> now, mode |-> mode]}
    PROVE  Grounded(j, d) /\ Unmixed(j)
<1> DEFINE F == Found(sentiments, d.sentiments)
           S == {f.signal : f \in F}
           a == [signals |-> F, at |-> now, mode |-> mode]
<1>1. PICK s \in Found(snapshots, d.snapshot) :
        /\ ~SnapshotIssue(d, s)
        /\ d.sentiments \subseteq DOMAIN sentiments
        /\ ~SentimentIssue(d, s, S)
  BY DEF Sound
<1>2. s \in SnapshotMsgs /\ F \subseteq Signals
  BY <1>1, FoundTypes
<1>3. s.at \in Nat /\ d.at \in Nat /\ now \in Nat /\ S \subseteq SentimentMsgs
  BY <1>2, StreamsAssumption, LimitTypes DEF SnapshotType, DecisionType, Signals, TypeOK
<1>4. \A x \in S : x.at \in Nat
  BY <1>3, StreamsAssumption DEF SentimentType
<1>5. {DecisionTtl, SnapshotTtl, SentimentTtl} \subseteq Nat
  BY LimitsAssumption
<1>6. s.id \in d.snapshot
  BY <1>1 DEF Found, SourcesKeyed
<1>7. d.snapshot = {s.id}
  BY <1>6, StreamsAssumption
<1>8. /\ s.symbol = d.symbol /\ s.bias = d.quant
      /\ s.at <= d.at /\ d.at - s.at <= SnapshotTtl /\ now - s.at <= SnapshotTtl
  BY <1>1, <1>3 DEF SnapshotIssue, Fresh
<1>9. /\ now - d.at <= DecisionTtl
      /\ mode # "LOCAL_QUANT_MODE" /\ (d.conflict => mode # "CONFLICT_SAFE")
  BY DEF Sound, RouteIssue, MustDegrade, Fresh
<1>10. \A x \in S : x.at <= s.at /\ s.at - x.at <= SentimentTtl
  BY <1>1, <1>3, <1>4 DEF SentimentIssue, Fresh
<1>11. S # {} => CalibratedBias(S) = d.text
  BY <1>1 DEF SentimentIssue
<1>12. {x.id : x \in S} = d.sentiments
  <2>1. \A i \in d.sentiments :
          ValueOf(sentiments, i) \in F /\ ValueOf(sentiments, i).signal.id = i
    BY <1>1 DEF Found, SourcesKeyed
  <2>2. \A x \in S : x.id \in d.sentiments
    BY DEF Found, SourcesKeyed
  <2> QED BY <2>1, <2>2
<1>13. \A f \in F : f.filtered = (mode = "TEXT_LOCAL_FILTER")
  BY DEF Found, SourcesKeyed
<1>14. a \in j.asked /\ a.signals = F /\ a.at = now /\ a.mode = mode /\ j.asked = {a}
  OBVIOUS
<1>15. Unmixed(j)
  BY <1>13, <1>14 DEF Unmixed
<1>16. s \in j.snapshot
  BY <1>1
<1> HIDE DEF F, a
<1> QED BY <1>7, <1>8, <1>9, <1>10, <1>11, <1>12, <1>14, <1>15, <1>16 DEF Grounded

-----------------------------------------------------------------------------
(* What steps leave sound                                                  *)

(* What is delivered stays delivered.                                      *)
LEMMA DoneStays ==
    ASSUME commandsOut \subseteq commandsOut', NEW d, Done(d) PROVE Done(d)'
BY DEF Done, Delivered

LEMMA DeliveredStays ==
    ASSUME commandsOut \subseteq commandsOut', NEW i, Delivered(i) PROVE Delivered(i)'
BY DEF Delivered

(* A step of one task does not disturb the others.                         *)
LEMMA OthersStay ==
    ASSUME TasksSound, commandsOut \subseteq commandsOut', NEW t \in Tasks, TaskSound(t)',
           \A u \in Tasks \ {t} : pc'[u] = pc[u] /\ job'[u] = job[u]
    PROVE  TasksSound'
<1> SUFFICES ASSUME NEW u \in Tasks, u # t PROVE TaskSound(u)'
  BY DEF TasksSound
<1>1. TaskSound(u) /\ pc'[u] = pc[u] /\ job'[u] = job[u]
  BY DEF TasksSound
<1>2. \A d \in job[u].decision : Done(d) => Done(d)'
  BY DoneStays
<1> QED BY <1>1, <1>2 DEF TaskSound

LEMMA TakeSound ==
    ASSUME TypeOK, TasksSound, commandsOut \subseteq commandsOut',
           NEW t \in Tasks, NEW queue \in Seq(DecisionMsgs), Take(t, queue)
    PROVE  TasksSound'
<1>1. \A u \in Tasks \ {t} : pc'[u] = pc[u] /\ job'[u] = job[u]
  BY DEF Take, Leave, GoTo, TypeOK
<1>2. CASE queue = <<>>
  <2>1. pc'[t] = "idle" /\ job'[t].asked = {}
    BY <1>2 DEF Take, Leave, GoTo, TypeOK, NoJob
  <2>2. TaskSound(t)'
    BY <2>1 DEF TaskSound, Unmixed
  <2> QED BY <1>1, <2>2, OthersStay
<1>3. CASE queue # <<>>
  <2>1. Head(queue) \in DecisionMsgs
    BY <1>3, HeadTailProperties
  <2>2. /\ pc'[t] = "handling" /\ job'[t].asked = {}
        /\ job'[t].decision = {Head(queue)}
    BY <1>3 DEF Take, GoTo, TypeOK, NoJob
  <2>3. TaskSound(t)'
    BY <2>1, <2>2 DEF TaskSound, Unmixed
  <2> QED BY <1>1, <2>3, OthersStay
<1> QED BY <1>2, <1>3

LEMMA LeaveSound ==
    ASSUME TypeOK, TasksSound, commandsOut \subseteq commandsOut', NEW t \in Tasks, Leave(t)
    PROVE  TasksSound'
<1>1. \A u \in Tasks \ {t} : pc'[u] = pc[u] /\ job'[u] = job[u]
  BY DEF Leave, GoTo, TypeOK
<1>2. pc'[t] = "idle" /\ job'[t].asked = {}
  BY DEF Leave, GoTo, TypeOK, NoJob
<1>3. TaskSound(t)'
  BY <1>2 DEF TaskSound, Unmixed
<1> QED BY <1>1, <1>3, OthersStay

LEMMA RetrySound ==
    ASSUME TypeOK, TasksSound, commandsOut \subseteq commandsOut', NEW t \in Tasks, Retry(t)
    PROVE  TasksSound'
<1>1. Listed(pending) \in Seq(DecisionMsgs)
  BY LimitTypes, ListedType DEF TypeOK
<1> QED BY <1>1, TakeSound DEF Retry

LEMMA UnchangedSound ==
    ASSUME CommandInv
    PROVE  /\ UNCHANGED <<mode, snapshots, sentiments>> => SourcesKeyed'
           /\ UNCHANGED <<pc, job, commandsOut>> => TasksSound'
           /\ UNCHANGED <<processed, commandCache, commandsOut>> => CachesSound'
           /\ UNCHANGED <<commandsOut, acked>> => OutSound'
BY DEF CommandInv, SourcesKeyed, TasksSound, TaskSound, CachesSound, OutSound, Done, Delivered

LEMMA InvParts ==
    CommandInv' <=> SourcesKeyed' /\ TasksSound' /\ CachesSound' /\ OutSound'
BY DEF CommandInv

LEMMA SnapshotSound ==
    ASSUME TypeOK, CommandInv, NEW s \in SnapshotMsgs, SnapshotArrives(s) PROVE CommandInv'
<1>1. /\ ValueOf(snapshots', s.id) = s
      /\ \A j \in DOMAIN snapshots' \ {s.id} :
           Held(snapshots, j) /\ ValueOf(snapshots', j) = ValueOf(snapshots, j)
  BY LimitTypes, RememberReads DEF SnapshotArrives
<1>2. \A i \in DOMAIN snapshots' : ValueOf(snapshots', i).id = i
  BY <1>1 DEF CommandInv, SourcesKeyed, Held
<1>3. SourcesKeyed'
  BY <1>2 DEF CommandInv, SourcesKeyed, SnapshotArrives
<1>4. TasksSound'
  BY RetrySound DEF CommandInv, SnapshotArrives, Tasks, outside
<1> QED BY <1>3, <1>4, UnchangedSound, InvParts DEF SnapshotArrives, decisions, outside

LEMMA SentimentSound ==
    ASSUME TypeOK, CommandInv, NEW x \in SentimentMsgs, SentimentArrives(x) PROVE CommandInv'
<1> DEFINE v == [signal |-> x, filtered |-> mode = "TEXT_LOCAL_FILTER"]
<1>1. sentiments' = Remember(sentiments, x.id, v, ProcessedSize) /\ mode' = mode
  BY DEF SentimentArrives
<1>2. v.signal.id = x.id /\ v.filtered = (mode = "TEXT_LOCAL_FILTER")
  OBVIOUS
<1> HIDE DEF v
<1>3. /\ ValueOf(sentiments', x.id) = v
      /\ \A j \in DOMAIN sentiments' \ {x.id} :
           Held(sentiments, j) /\ ValueOf(sentiments', j) = ValueOf(sentiments, j)
  BY <1>1, LimitTypes, RememberReads
<1>4. \A i \in DOMAIN sentiments' :
        /\ ValueOf(sentiments', i).signal.id = i
        /\ ValueOf(sentiments', i).filtered = (mode' = "TEXT_LOCAL_FILTER")
  BY <1>1, <1>2, <1>3 DEF CommandInv, SourcesKeyed, Held
<1>5. SourcesKeyed'
  BY <1>4 DEF CommandInv, SourcesKeyed, SentimentArrives
<1>6. TasksSound'
  BY RetrySound DEF CommandInv, SentimentArrives, Tasks, outside
<1> QED BY <1>5, <1>6, UnchangedSound, InvParts DEF SentimentArrives, decisions, outside

LEMMA ControlSound ==
    ASSUME TypeOK, CommandInv, NEW m \in SystemModes, ControlArrives(m) PROVE CommandInv'
<1>1. \/ sentiments' = EmptyCache
      \/ sentiments' = sentiments /\ (mode = "TEXT_LOCAL_FILTER") = (m = "TEXT_LOCAL_FILTER")
  BY DEF ControlArrives
<1>2. mode' = m /\ snapshots' = snapshots
  BY DEF ControlArrives
<1>3. SourcesKeyed'
  BY <1>1, <1>2 DEF CommandInv, SourcesKeyed, EmptyCache
<1>4. TasksSound'
  BY RetrySound DEF CommandInv, ControlArrives, Tasks, outside
<1> QED BY <1>3, <1>4, UnchangedSound, InvParts DEF ControlArrives, decisions, outside

LEMMA DecisionSound ==
    ASSUME TypeOK, CommandInv, NEW d \in DecisionMsgs, DecisionArrives(d) PROVE CommandInv'
<1>1. <<d>> \in Seq(DecisionMsgs)
  BY SeqDef
<1>2. TasksSound'
  BY <1>1, TakeSound DEF CommandInv, DecisionArrives, Tasks, outside
<1> QED BY <1>2, UnchangedSound, InvParts DEF DecisionArrives, sources, decisions, outside

(* A good command is cached and its publication starts.                    *)
LEMMA PublishSound ==
    ASSUME TypeOK, CommandInv, NEW t \in Tasks, NEW c \in Commands, Good(c), Publish(t, c),
           job[t].decision = {c.decision}, UNCHANGED <<processed, commandsOut>>
    PROVE  TasksSound' /\ CachesSound'
<1>1. /\ ValueOf(commandCache', c.decision.id) = c
      /\ \A j \in DOMAIN commandCache' \ {c.decision.id} :
           Held(commandCache, j) /\ ValueOf(commandCache', j) = ValueOf(commandCache, j)
  BY LimitTypes, RememberReads DEF Publish
<1>2. \A i \in DOMAIN commandCache' :
        Good(ValueOf(commandCache', i)) /\ ValueOf(commandCache', i).decision.id = i
  BY <1>1 DEF CommandInv, CachesSound, Held
<1>3. CachesSound'
  BY <1>2 DEF CommandInv, CachesSound, Delivered
<1>4. \A u \in Tasks \ {t} : pc'[u] = pc[u] /\ job'[u] = job[u]
  BY DEF Publish, GoTo, TypeOK
<1>5. /\ pc'[t] = "publishing" /\ job'[t].command = {c}
      /\ job'[t].decision = job[t].decision /\ job'[t].asked = job[t].asked
  BY DEF Publish, GoTo, TypeOK, Jobs
<1>6. Unmixed(job[t]) /\ c.decision \in DecisionMsgs
  BY DEF CommandInv, TasksSound, TaskSound, Commands
<1>7. TaskSound(t)'
  BY <1>5, <1>6 DEF TaskSound, Unmixed
<1> QED BY <1>3, <1>4, <1>7, OthersStay DEF CommandInv

LEMMA HandleSound ==
    ASSUME TypeOK, CommandInv, NEW t \in Tasks, NEW d \in DecisionMsgs,
           Skip(t, d) \/ Resend(t, d) \/ Postpone(t, d) \/ Abstain(t, d) \/ Ask(t, d)
    PROVE  CommandInv'
<1>1. job[t].decision = {d} /\ TasksSound /\ CachesSound
  BY DEF Skip, Resend, Postpone, Abstain, Ask, Undecided, Handles,
         CommandInv, TasksSound, TaskSound
<1>2. Unmixed(job[t])
  BY <1>1 DEF TasksSound, TaskSound
<1>3. CASE Skip(t, d)
  <2>1. Done(d)
    BY <1>1, <1>3 DEF Skip, Settled, Held, CachesSound, Done
  <2>2. pc'[t] = "acking" /\ job' = job /\ UNCHANGED outside
    BY <1>3 DEF Skip, GoTo, TypeOK
  <2>3. Done(d)'
    BY <2>1, <2>2, DoneStays DEF outside
  <2>4. TaskSound(t)'
    BY <1>1, <1>2, <2>2, <2>3 DEF TaskSound, Unmixed
  <2>5. \A u \in Tasks \ {t} : pc'[u] = pc[u] /\ job'[u] = job[u]
    BY <1>3 DEF Skip, GoTo, TypeOK
  <2>6. TasksSound'
    BY <1>1, <2>2, <2>4, <2>5, OthersStay DEF outside
  <2> QED BY <1>3, <2>6, UnchangedSound, InvParts DEF Skip, sources, decisions, outside
<1>4. CASE Resend(t, d)
  <2> DEFINE c == ValueOf(commandCache, d.id)
  <2>1. c \in Commands /\ Good(c) /\ c.decision.id = d.id
    BY <1>1, <1>4 DEF Resend, Held, ValueOf, TypeOK, IsCache, CachesSound
  <2>2. /\ pc'[t] = "publishing" /\ job'[t].command = {c}
        /\ job'[t].decision = job[t].decision /\ job'[t].asked = job[t].asked
    BY <1>4 DEF Resend, GoTo, TypeOK, Jobs
  <2>3. UNCHANGED outside
    BY <1>4 DEF Resend
  <2> HIDE DEF c
  <2>4. TaskSound(t)'
    BY <1>1, <1>2, <2>1, <2>2 DEF TaskSound, Unmixed
  <2>5. \A u \in Tasks \ {t} : pc'[u] = pc[u] /\ job'[u] = job[u]
    BY <1>4 DEF Resend, GoTo, TypeOK
  <2>6. TasksSound'
    BY <1>1, <2>3, <2>4, <2>5, OthersStay DEF outside
  <2> QED BY <1>4, <2>6, UnchangedSound, InvParts DEF Resend, sources, decisions, outside
<1>5. CASE Postpone(t, d)
  <2>1. TasksSound'
    BY <1>1, <1>5, JobType, TakeSound DEF Postpone, outside
  <2> QED BY <1>5, <2>1, UnchangedSound, InvParts DEF Postpone, sources, outside
<1>6. CASE Abstain(t, d)
  <2> DEFINE c == Command(d, SafeOutput, Found(snapshots, d.snapshot), {})
  <2>1. c \in Commands /\ c.decision = d /\ c.output = SafeOutput
    BY SafeOutputType, FoundTypes DEF Command, Commands
  <2>2. Publish(t, c) /\ UNCHANGED <<processed, outside>>
    BY <1>6 DEF Abstain
  <2> HIDE DEF c
  <2>3. Good(c)
    BY <2>1, SafeOutputCoherent DEF Good
  <2>4. TasksSound' /\ CachesSound'
    BY <1>1, <2>1, <2>2, <2>3, PublishSound DEF outside
  <2> QED BY <1>6, <2>4, UnchangedSound, InvParts DEF Abstain, sources, outside
<1>7. CASE Ask(t, d)
  <2>1. /\ pc'[t] = "model" /\ job'[t].decision = {d}
        /\ job'[t].snapshot = Found(snapshots, d.snapshot)
        /\ job'[t].asked = {[signals |-> Found(sentiments, d.sentiments),
                             at |-> now, mode |-> mode]}
    BY <1>1, <1>7 DEF Ask, GoTo, TypeOK, Jobs
  <2>2. Sound(d) /\ commandsOut' = commandsOut
    BY <1>7 DEF Ask
  <2>3. Grounded(job'[t], d) /\ Unmixed(job'[t])
    BY <2>1, <2>2, SoundIsGrounded DEF CommandInv
  <2>4. TaskSound(t)'
    BY <2>1, <2>3 DEF TaskSound, Unmixed, Grounded
  <2>5. \A u \in Tasks \ {t} : pc'[u] = pc[u] /\ job'[u] = job[u]
    BY <1>7 DEF Ask, GoTo, TypeOK
  <2>6. TasksSound'
    BY <1>1, <2>2, <2>4, <2>5, OthersStay
  <2> QED BY <1>7, <2>6, UnchangedSound, InvParts DEF Ask, sources, decisions
<1> QED BY <1>3, <1>4, <1>5, <1>6, <1>7

(* An answer, or its absence, becomes a good command.                      *)
LEMMA AnsweredSound ==
    ASSUME TypeOK, CommandInv, NEW t \in Tasks, NEW o \in Outputs, Coherent(o), Answered(t, o)
    PROVE  CommandInv'
<1>1. PICK d \in job[t].decision : Publish(t, Command(d, o, job[t].snapshot, job[t].asked))
  BY DEF Answered
<1>2. job[t].decision = {d} /\ Grounded(job[t], d) /\ d \in DecisionMsgs
  BY <1>1, JobType DEF Answered, CommandInv, TasksSound, TaskSound
<1> DEFINE c == Command(d, o, job[t].snapshot, job[t].asked)
<1>3. c \in Commands /\ c.decision = d /\ c.output = o
  BY <1>2, JobType DEF Command, Commands
<1>4. Grounded(c, d)
  BY <1>2 DEF Command, Grounded
<1>5. Publish(t, c) /\ UNCHANGED <<processed, outside>>
  BY <1>1 DEF Answered
<1> HIDE DEF c
<1>6. Good(c)
  BY <1>3, <1>4 DEF Good
<1>7. TasksSound' /\ CachesSound'
  BY <1>2, <1>3, <1>5, <1>6, PublishSound DEF outside
<1> QED BY <1>7, UnchangedSound, InvParts DEF Answered, sources, outside

LEMMA PublishedSound ==
    ASSUME TypeOK, CommandInv, NEW t \in Tasks, Published(t) PROVE CommandInv'
<1>1. PICK d \in job[t].decision :
        /\ processed' = Remember(processed, d.id, TRUE, ProcessedSize)
        /\ commandCache' = Discard(commandCache, d.id)
  BY DEF Published
<1>2. job[t].decision = {d} /\ d \in DecisionMsgs /\ Unmixed(job[t])
  BY <1>1 DEF Published, CommandInv, TasksSound, TaskSound
<1>3. PICK c \in Commands : job[t].command = {c} /\ Good(c) /\ c.decision.id = d.id
  BY <1>2 DEF Published, CommandInv, TasksSound, TaskSound
<1>4. commandsOut' = commandsOut \cup {c} /\ acked' = acked
  BY <1>3 DEF Published
<1>5. OutSound'
  <2>1. \A e \in acked : Done(e)'
    BY <1>4, DoneStays DEF CommandInv, OutSound
  <2> QED BY <1>3, <1>4, <2>1 DEF CommandInv, OutSound
<1>6. Done(d)' /\ Delivered(d.id)'
  BY <1>3, <1>4 DEF Done, Delivered
<1>7. CachesSound'
  <2>1. \A i \in DOMAIN processed' : i # d.id => i \in DOMAIN processed
    BY <1>1, LimitTypes, RememberReads DEF Held
  <2>2. \A i \in DOMAIN processed' : Delivered(i)'
    BY <1>4, <1>6, <2>1, DeliveredStays DEF CommandInv, CachesSound
  <2>3. \A i \in DOMAIN commandCache' :
          i \in DOMAIN commandCache /\ ValueOf(commandCache', i) = ValueOf(commandCache, i)
    BY <1>1, DiscardReads
  <2> QED BY <2>2, <2>3 DEF CommandInv, CachesSound
<1>8. pc'[t] = "acking" /\ job' = job
  BY DEF Published, GoTo, TypeOK
<1>9. TaskSound(t)'
  BY <1>2, <1>6, <1>8 DEF TaskSound, Unmixed
<1>10. \A u \in Tasks \ {t} : pc'[u] = pc[u] /\ job'[u] = job[u]
  BY DEF Published, GoTo, TypeOK
<1>11. TasksSound'
  BY <1>4, <1>9, <1>10, OthersStay DEF CommandInv
<1> QED BY <1>5, <1>7, <1>11, UnchangedSound, InvParts DEF Published, sources

LEMMA PublishFailsSound ==
    ASSUME TypeOK, CommandInv, NEW t \in Tasks, PublishFails(t) PROVE CommandInv'
<1>1. /\ commandsOut \subseteq commandsOut'
      /\ \A c \in commandsOut' \ commandsOut : Good(c)
  BY DEF PublishFails, CommandInv, TasksSound, TaskSound
<1>2. TasksSound'
  BY <1>1, LeaveSound DEF CommandInv, PublishFails
<1>3. OutSound'
  BY <1>1, DoneStays DEF CommandInv, OutSound, PublishFails
<1>4. CachesSound'
  BY <1>1, DeliveredStays DEF CommandInv, CachesSound, PublishFails, decisions
<1> QED BY <1>2, <1>3, <1>4, UnchangedSound, InvParts DEF PublishFails, sources

LEMMA AckedSound ==
    ASSUME TypeOK, CommandInv, NEW t \in Tasks, Acked(t) PROVE CommandInv'
<1>1. \A d \in job[t].decision : Done(d)
  BY DEF Acked, CommandInv, TasksSound, TaskSound
<1>2. commandsOut' = commandsOut /\ acked' = acked \cup job[t].decision
  BY DEF Acked
<1>3. OutSound'
  BY <1>1, <1>2, DoneStays DEF CommandInv, OutSound
<1>4. TasksSound'
  BY <1>2, JobType, TakeSound DEF CommandInv, Acked
<1> QED BY <1>3, <1>4, UnchangedSound, InvParts DEF Acked, sources

LEMMA RestartSound == ASSUME TypeOK, CommandInv, Restart PROVE CommandInv'
<1>1. SourcesKeyed' /\ CachesSound'
  BY DEF Restart, SourcesKeyed, CachesSound, EmptyCache
<1>2. TasksSound'
  BY DEF Restart, TasksSound, TaskSound, Unmixed, NoJob
<1> QED BY <1>1, <1>2, UnchangedSound, InvParts DEF Restart

LEMMA InitCommandInv == Init => CommandInv
<1> SUFFICES ASSUME Init PROVE CommandInv
  OBVIOUS
<1>1. SourcesKeyed /\ CachesSound
  BY DEF Init, SourcesKeyed, CachesSound, EmptyCache
<1>2. TasksSound
  BY DEF Init, TasksSound, TaskSound, Unmixed, NoJob
<1>3. OutSound
  BY DEF Init, OutSound
<1> QED BY <1>1, <1>2, <1>3 DEF CommandInv

LEMMA StepCommandInv == TypeOK /\ CommandInv /\ [Next]_vars => CommandInv'
<1> SUFFICES ASSUME TypeOK, CommandInv, [Next]_vars PROVE CommandInv'
  OBVIOUS
<1>1. CASE \E s \in SnapshotMsgs : SnapshotArrives(s)
  BY <1>1, SnapshotSound
<1>2. CASE \E x \in SentimentMsgs : SentimentArrives(x)
  BY <1>2, SentimentSound
<1>3. CASE \E m \in SystemModes : ControlArrives(m)
  BY <1>3, ControlSound
<1>4. CASE \E d \in DecisionMsgs : DecisionArrives(d)
  BY <1>4, DecisionSound
<1>5. ASSUME NEW t \in Tasks, Handle(t) PROVE CommandInv'
  BY <1>5, HandleSound DEF Handle
<1>6. ASSUME NEW t \in Tasks, ModelReturns(t) \/ ModelFails(t) PROVE CommandInv'
  <2>1. \E o \in Outputs : Coherent(o) /\ Answered(t, o)
    BY <1>6, StreamsAssumption, DecideType, DecideCoherent, SafeOutputType, SafeOutputCoherent
       DEF ModelReturns, ModelFails
  <2> QED BY <2>1, AnsweredSound
<1>7. ASSUME NEW t \in Tasks, Published(t) \/ PublishFails(t) \/ Acked(t)
      PROVE  CommandInv'
  BY <1>7, PublishedSound, PublishFailsSound, AckedSound
<1>8. ASSUME NEW t \in Tasks, AckFails(t) PROVE CommandInv'
  <2>1. TasksSound'
    BY <1>8, LeaveSound DEF AckFails, CommandInv, outside
  <2> QED BY <1>8, <2>1, UnchangedSound, InvParts DEF AckFails, sources, decisions, outside
<1>9. CASE Clock
  BY <1>9, UnchangedSound, InvParts DEF Clock, sources, decisions, tasks, outside
<1>10. CASE Restart
  BY <1>10, RestartSound
<1>11. CASE UNCHANGED vars
  BY <1>11, UnchangedSound, InvParts DEF vars, sources, decisions, tasks, outside
<1> QED BY <1>1, <1>2, <1>3, <1>4, <1>5, <1>6, <1>7, <1>8, <1>9, <1>10, <1>11 DEF Next

LEMMA CommandInvHolds == Spec => [](TypeOK /\ CommandInv)
BY InitTypeOK, StepTypeOK, InitCommandInv, StepCommandInv, PTL DEF Spec

-----------------------------------------------------------------------------
(* Theorems                                                                *)

(* Whichever task handled a decision and whatever failed or restarted, the *)
(* decision leaves the stream only when a command for it is delivered.     *)
THEOREM AckedAfterCommand == Spec => []AckedOnlyAfterCommand
<1>1. CommandInv => AckedOnlyAfterCommand
  BY DEF CommandInv, OutSound, Done, Delivered, AckedOnlyAfterCommand
<1> QED BY <1>1, CommandInvHolds, PTL

(* A delivered command is the safe one, or the model was asked about       *)
(* exactly the evidence its decision cites, in time and in a mode that     *)
(* allows it, for every stream, every limit and every deadband.            *)
THEOREM LegacyGrounded == Spec => []CommandsGrounded
<1>1. CommandInv => CommandsGrounded
  BY DEF CommandInv, OutSound, Good, CommandsGrounded
<1> QED BY <1>1, CommandInvHolds, PTL

(* A delivered command is one decision, whatever the model answered.       *)
THEOREM LegacyCoherent == Spec => []CommandsCoherent
<1>1. CommandInv => CommandsCoherent
  BY DEF CommandInv, OutSound, Good, Coherent, CommandsCoherent
<1> QED BY <1>1, CommandInvHolds, PTL

(* No question mixes signals from the two sides of the text filter's edge, *)
(* although four tasks change the mode and use the signals.                *)
THEOREM LegacyUnmixed == Spec => []NoMixedSentiment
<1>1. CommandInv => NoMixedSentiment
  BY DEF CommandInv, TasksSound, TaskSound, Unmixed, NoMixedSentiment
<1> QED BY <1>1, CommandInvHolds, PTL
-----------------------------------------------------------------------------
(* Calls and abstentions of one decision                                   *)

(* The cache of processed decisions never fills.                           *)
RoomForDecisions == IsFiniteSet(DecisionIds) /\ Cardinality(DecisionIds) <= ProcessedSize

(* Who handles the decision now finds it processed or its command cached.  *)
Known(i) == Held(processed, i) \/ Held(commandCache, i)

AtModel(i) == {t \in Tasks : pc[t] = "model" /\ \E d \in job[t].decision : d.id = i}

(* Every command that was made without the model and is still about.       *)
Made ==
    commandsOut \cup (UNION {job[t].command : t \in Tasks})
      \cup {ValueOf(commandCache, i) : i \in DOMAIN commandCache}

Abstentions == {c \in Made : c.asked = {}}

(* A call that was paid for is under way, or its decision is known.        *)
CallsCovered(i) ==
    /\ calls[i] <= Cardinality(Tasks)
    /\ Known(i) \/ calls[i] <= Cardinality(AtModel(i))

AbstainedOnce ==
    \A c \in Abstentions :
      /\ Known(c.decision.id)
      /\ \A e \in Abstentions : c.decision.id = e.decision.id => c = e

AskedOf(t) == pc[t] = "model" => job[t].asked # {}

AnswerInv ==
    /\ \A i \in DecisionIds : CallsCovered(i)
    /\ AbstainedOnce
    /\ \A t \in Tasks : AskedOf(t)

LEMMA TasksFinite ==
    /\ IsFiniteSet(Tasks)
    /\ \A S \in SUBSET Tasks : /\ IsFiniteSet(S) /\ Cardinality(S) \in Nat
                               /\ Cardinality(S) <= Cardinality(Tasks)
    /\ \A S, T \in SUBSET Tasks : S \subseteq T => Cardinality(S) <= Cardinality(T)
<1>1. IsFiniteSet(Tasks)
  <2>1. IsFiniteSet({} \cup {"snap"})
    BY FS_EmptySet, FS_AddElement
  <2>2. IsFiniteSet(({} \cup {"snap"}) \cup {"sent"})
    BY <2>1, FS_AddElement
  <2>3. IsFiniteSet((({} \cup {"snap"}) \cup {"sent"}) \cup {"control"})
    BY <2>2, FS_AddElement
  <2>4. IsFiniteSet(((({} \cup {"snap"}) \cup {"sent"}) \cup {"control"}) \cup {"router"})
    BY <2>3, FS_AddElement
  <2>5. Tasks = ((({} \cup {"snap"}) \cup {"sent"}) \cup {"control"}) \cup {"router"}
    BY DEF Tasks
  <2> QED BY <2>4, <2>5
<1>2. \A S \in SUBSET Tasks : IsFiniteSet(S) /\ Cardinality(S) \in Nat
                              /\ Cardinality(S) <= Cardinality(Tasks)
  BY <1>1, FS_Subset, FS_CardinalityType
<1> QED BY <1>1, <1>2, FS_Subset

(* Nothing is forgotten: what is known stays known.                        *)
KnownStays == \A i \in DecisionIds : Known(i) => Known(i)'

LEMMA SameCachesKnown == UNCHANGED <<processed, commandCache>> => KnownStays
BY DEF KnownStays, Known, Held

LEMMA PublishKnown ==
    ASSUME RoomForDecisions, TypeOK, NEW t \in Tasks, NEW c \in Commands, Publish(t, c),
           UNCHANGED processed
    PROVE  KnownStays /\ Known(c.decision.id)'
<1>1. c.decision.id \in DecisionIds
  BY IdOf DEF Commands
<1>2. commandCache' = Remember(commandCache, c.decision.id, c, ProcessedSize)
  BY DEF Publish
<1>3. IsCache(commandCache, DecisionIds, Commands, ProcessedSize)
  BY DEF TypeOK
<1>4. \A j \in DOMAIN commandCache : Held(commandCache', j)
  BY <1>1, <1>2, <1>3, LimitTypes, RememberNeverEvicts DEF RoomForDecisions
<1>5. Held(commandCache', c.decision.id)
  BY <1>2, LimitTypes, RememberReads
<1> QED BY <1>4, <1>5 DEF KnownStays, Known, Held

LEMMA PublishedKnown ==
    ASSUME RoomForDecisions, TypeOK, NEW t \in Tasks, Published(t)
    PROVE  KnownStays
<1>1. PICK d \in job[t].decision :
        /\ processed' = Remember(processed, d.id, TRUE, ProcessedSize)
        /\ commandCache' = Discard(commandCache, d.id)
  BY DEF Published
<1>2. d.id \in DecisionIds
  BY JobType, IdOf
<1>3. IsCache(processed, DecisionIds, {TRUE}, ProcessedSize)
  BY DEF TypeOK
<1>4. \A j \in DOMAIN processed : Held(processed', j)
  BY <1>1, <1>2, <1>3, LimitTypes, RememberNeverEvicts DEF RoomForDecisions
<1>5. Held(processed', d.id)
  BY <1>1, LimitTypes, RememberReads
<1>6. \A j \in DOMAIN commandCache : j = d.id \/ Held(commandCache', j)
  BY <1>1, DiscardReads DEF Held
<1> QED BY <1>4, <1>5, <1>6 DEF KnownStays, Known, Held

LEMMA MadeHas ==
    /\ commandsOut \subseteq Made
    /\ \A u \in Tasks : job[u].command \subseteq Made
    /\ \A i \in DOMAIN commandCache : ValueOf(commandCache, i) \in Made
<1> DEFINE atTasks == UNION {job[u].command : u \in Tasks}
           cached == {ValueOf(commandCache, i) : i \in DOMAIN commandCache}
<1>1. Made = commandsOut \cup atTasks \cup cached
  BY DEF Made
<1>2. \A u \in Tasks : job[u].command \subseteq atTasks
  OBVIOUS
<1>3. \A i \in DOMAIN commandCache : ValueOf(commandCache, i) \in cached
  OBVIOUS
<1> HIDE DEF atTasks, cached
<1> QED BY <1>1, <1>2, <1>3

(* No command is about but those out, at a task or in the cache.           *)
LEMMA MadeLimit ==
    ASSUME NEW S, commandsOut \subseteq S,
           \A u \in Tasks : job[u].command \subseteq S,
           \A i \in DOMAIN commandCache : ValueOf(commandCache, i) \in S
    PROVE  Made \subseteq S
<1> DEFINE atTasks == UNION {job[u].command : u \in Tasks}
           cached == {ValueOf(commandCache, i) : i \in DOMAIN commandCache}
<1>1. Made = commandsOut \cup atTasks \cup cached
  BY DEF Made
<1>2. atTasks \subseteq S /\ cached \subseteq S
  OBVIOUS
<1> HIDE DEF atTasks, cached
<1> QED BY <1>1, <1>2

LEMMA MadeLimitPrime ==
    ASSUME NEW S, commandsOut' \subseteq S,
           \A u \in Tasks : job'[u].command \subseteq S,
           \A i \in DOMAIN commandCache' : ValueOf(commandCache', i) \in S
    PROVE  Made' \subseteq S
<1> DEFINE atTasks == UNION {job'[u].command : u \in Tasks}
           cached == {ValueOf(commandCache', i) : i \in DOMAIN commandCache'}
<1>1. Made' = commandsOut' \cup atTasks \cup cached
  BY DEF Made, ValueOf
<1>2. atTasks \subseteq S /\ cached \subseteq S
  OBVIOUS
<1> HIDE DEF atTasks, cached
<1> QED BY <1>1, <1>2

LEMMA MadeTypes == TypeOK => Made \subseteq Commands
<1> SUFFICES ASSUME TypeOK PROVE Made \subseteq Commands
  OBVIOUS
<1>1. IsCache(commandCache, DecisionIds, Commands, ProcessedSize) /\ commandsOut \subseteq Commands
  BY DEF TypeOK
<1>2. \A i \in DOMAIN commandCache : ValueOf(commandCache, i) \in Commands
  BY <1>1 DEF IsCache, ValueOf
<1>3. \A u \in Tasks : job[u].command \subseteq Commands
  BY JobType
<1> QED BY <1>1, <1>2, <1>3, MadeLimit

(* A step that asks nothing and makes no abstention.                       *)
LEMMA QuietAnswers ==
    ASSUME TypeOK, TypeOK', AnswerInv, KnownStays, calls' = calls,
           \A i \in DecisionIds : Known(i)' \/ AtModel(i) \subseteq AtModel(i)',
           Abstentions' \subseteq Abstentions,
           \A t \in Tasks : AskedOf(t)'
    PROVE  AnswerInv'
<1>1. ASSUME NEW i \in DecisionIds PROVE CallsCovered(i)'
  <2>1. AtModel(i) \in SUBSET Tasks /\ AtModel(i)' \in SUBSET Tasks
    BY DEF AtModel
  <2>2. /\ calls[i] <= Cardinality(Tasks)
        /\ Known(i) \/ calls[i] <= Cardinality(AtModel(i))
        /\ Known(i) => Known(i)'
        /\ calls[i] \in Nat /\ calls'[i] = calls[i]
    BY DEF AnswerInv, CallsCovered, KnownStays, TypeOK
  <2>3. Known(i)' \/ calls[i] <= Cardinality(AtModel(i)')
    <3>1. CASE Known(i)'
      BY <3>1
    <3>2. CASE ~Known(i)'
      <4>1. AtModel(i) \subseteq AtModel(i)' /\ calls[i] <= Cardinality(AtModel(i))
        BY <2>2, <3>2
      <4>2. /\ Cardinality(AtModel(i)) <= Cardinality(AtModel(i)')
            /\ Cardinality(AtModel(i)) \in Nat /\ Cardinality(AtModel(i)') \in Nat
        BY <2>1, <4>1, TasksFinite
      <4> QED BY <2>2, <4>1, <4>2
    <3> QED BY <3>1, <3>2
  <2> QED BY <2>2, <2>3 DEF CallsCovered
<1>2. AbstainedOnce'
  <2>1. \A c \in Abstentions : c.decision.id \in DecisionIds
    BY MadeTypes, IdOf DEF Abstentions, Commands
  <2> QED BY <2>1 DEF AnswerInv, AbstainedOnce, KnownStays
<1> QED BY <1>1, <1>2 DEF AnswerInv

(* A task that is not at the model turns to something else.                *)
LEMMA TurnsAway ==
    ASSUME TypeOK, AnswerInv, NEW t \in Tasks, pc[t] # "model", pc'[t] # "model",
           \A u \in Tasks \ {t} : pc'[u] = pc[u] /\ job'[u] = job[u]
    PROVE  /\ \A i \in DecisionIds : AtModel(i) \subseteq AtModel(i)'
           /\ \A u \in Tasks : AskedOf(u)'
BY DEF AtModel, AnswerInv, AskedOf

(* Fewer commands about, or the same.                                      *)
LEMMA NothingMade ==
    ASSUME commandsOut' \subseteq Made,
           \A u \in Tasks : job'[u].command \subseteq Made,
           \A i \in DOMAIN commandCache' : ValueOf(commandCache', i) \in Made
    PROVE  Abstentions' \subseteq Abstentions
<1>1. Made' \subseteq Made
  BY MadeLimitPrime
<1> QED BY <1>1 DEF Abstentions

LEMMA TakeEffect ==
    ASSUME TypeOK, NEW t \in Tasks, NEW queue, Take(t, queue) \/ Leave(t)
    PROVE  /\ \A u \in Tasks \ {t} : pc'[u] = pc[u] /\ job'[u] = job[u]
           /\ pc'[t] \in {"idle", "handling"} /\ job'[t].command = {}
<1>1. CASE Leave(t)
  BY <1>1 DEF Leave, GoTo, TypeOK, NoJob
<1>2. CASE Take(t, queue) /\ queue # <<>>
  <2>1. PICK j : /\ j = [NoJob EXCEPT !.decision = {Head(queue)}, !.queue = Tail(queue)]
                 /\ job' = [job EXCEPT ![t] = j]
    BY <1>2 DEF Take
  <2>2. j.command = {}
    BY <2>1 DEF NoJob
  <2> QED BY <1>2, <2>1, <2>2 DEF Take, GoTo, TypeOK
<1> QED BY <1>1, <1>2 DEF Take

(* A task gives up its decision, or goes on to the next one.               *)
LEMMA TakeAnswers ==
    ASSUME TypeOK, TypeOK', AnswerInv, KnownStays, NEW t \in Tasks, pc[t] # "model",
           NEW queue, Take(t, queue) \/ Leave(t), calls' = calls,
           commandsOut' \subseteq Made,
           \A i \in DOMAIN commandCache' : ValueOf(commandCache', i) \in Made
    PROVE  AnswerInv'
<1>1. /\ \A u \in Tasks \ {t} : pc'[u] = pc[u] /\ job'[u] = job[u]
      /\ pc'[t] \in {"idle", "handling"} /\ job'[t].command = {}
  BY TakeEffect
<1>2. Abstentions' \subseteq Abstentions
  BY <1>1, MadeHas, NothingMade
<1>3. /\ \A i \in DecisionIds : AtModel(i) \subseteq AtModel(i)'
      /\ \A u \in Tasks : AskedOf(u)'
  BY <1>1, TurnsAway
<1> QED BY <1>2, <1>3, QuietAnswers

LEMMA ArrivalAnswers ==
    ASSUME TypeOK, TypeOK', AnswerInv, NEW t \in Tasks, pc[t] # "model",
           NEW queue, Take(t, queue) \/ Leave(t),
           UNCHANGED <<processed, commandCache, commandsOut, calls>>
    PROVE  AnswerInv'
<1>1. KnownStays
  BY SameCachesKnown
<1> QED BY <1>1, MadeHas, TakeAnswers

LEMMA SkipAnswers ==
    ASSUME TypeOK, TypeOK', AnswerInv, NEW t \in Tasks, NEW d \in DecisionMsgs,
           Skip(t, d) \/ Resend(t, d)
    PROVE  AnswerInv'
<1>1. UNCHANGED <<processed, commandCache, commandsOut, calls>> /\ pc[t] = "handling"
  BY DEF Skip, Resend, Handles, decisions, outside
<1>2. /\ \A u \in Tasks \ {t} : pc'[u] = pc[u] /\ job'[u] = job[u]
      /\ pc'[t] \in {"acking", "publishing"}
  BY DEF Skip, Resend, GoTo, TypeOK
<1>3. job'[t].command \subseteq Made
  <2>1. CASE Skip(t, d)
    BY <2>1, MadeHas DEF Skip
  <2>2. CASE Resend(t, d)
    BY <2>2, MadeHas DEF Resend, Held, TypeOK, Jobs
  <2> QED BY <2>1, <2>2
<1>4. Abstentions' \subseteq Abstentions
  BY <1>1, <1>2, <1>3, MadeHas, NothingMade
<1>5. /\ \A i \in DecisionIds : AtModel(i) \subseteq AtModel(i)'
      /\ \A u \in Tasks : AskedOf(u)'
  BY <1>1, <1>2, TurnsAway
<1>6. KnownStays
  BY <1>1, SameCachesKnown
<1> QED BY <1>1, <1>4, <1>5, <1>6, QuietAnswers

(* An undecided decision's call is one more of the calls under way.        *)
LEMMA AskAnswers ==
    ASSUME TypeOK, TypeOK', AnswerInv, NEW t \in Tasks, NEW d \in DecisionMsgs, Ask(t, d)
    PROVE  AnswerInv'
<1>1. /\ UNCHANGED <<processed, commandCache, commandsOut>>
      /\ pc[t] = "handling" /\ d \in job[t].decision
      /\ ~Known(d.id)
      /\ pc' = [pc EXCEPT ![t] = "model"]
      /\ calls' = [calls EXCEPT ![d.id] = IF @ < 5 THEN @ + 1 ELSE @]
  BY DEF Ask, Undecided, Settled, Handles, GoTo, Known, decisions
<1>2. /\ \A u \in Tasks \ {t} : pc'[u] = pc[u] /\ job'[u] = job[u]
      /\ pc'[t] = "model" /\ job'[t].asked # {}
      /\ job'[t].command = job[t].command /\ job'[t].decision = job[t].decision
  BY DEF Ask, GoTo, TypeOK, Jobs
<1>3. ASSUME NEW i \in DecisionIds PROVE CallsCovered(i)'
  <2>1. /\ calls[i] \in Nat /\ CallsCovered(i)
        /\ AtModel(i) \in SUBSET Tasks /\ AtModel(i)' \in SUBSET Tasks
    BY DEF TypeOK, AnswerInv, AtModel
  <2>2. /\ Cardinality(AtModel(i)) \in Nat /\ Cardinality(AtModel(i)') \in Nat
        /\ IsFiniteSet(AtModel(i)) /\ Cardinality(Tasks) \in Nat
        /\ Cardinality(AtModel(i)') <= Cardinality(Tasks)
    BY <2>1, TasksFinite
  <2>3. Known(i)' = Known(i)
    BY <1>1 DEF Known, Held
  <2>4. CASE i = d.id
    <3>1. calls'[i] <= calls[i] + 1 /\ calls'[i] \in Nat
      BY <1>1, <2>1, <2>4 DEF TypeOK
    <3>2. calls[i] <= Cardinality(AtModel(i))
      BY <1>1, <2>1, <2>4 DEF CallsCovered
    <3>3. t \notin AtModel(i) /\ AtModel(i) \cup {t} \subseteq AtModel(i)'
      BY <1>1, <1>2, <2>4 DEF AtModel
    <3>4. Cardinality(AtModel(i) \cup {t}) = Cardinality(AtModel(i)) + 1
      BY <2>2, <3>3, FS_AddElement
    <3>5. Cardinality(AtModel(i) \cup {t}) <= Cardinality(AtModel(i)')
      BY <2>1, <3>3, TasksFinite
    <3> QED BY <2>1, <2>2, <3>1, <3>2, <3>4, <3>5 DEF CallsCovered
  <2>5. CASE i # d.id
    <3>1. calls'[i] = calls[i]
      BY <1>1, <2>5 DEF TypeOK
    <3>2. AtModel(i) \subseteq AtModel(i)'
      BY <1>1, <1>2 DEF AtModel
    <3>3. Cardinality(AtModel(i)) <= Cardinality(AtModel(i)')
      BY <2>1, <3>2, TasksFinite
    <3> QED BY <2>1, <2>2, <2>3, <3>1, <3>3 DEF CallsCovered
  <2> QED BY <2>4, <2>5
<1>4. Abstentions' \subseteq Abstentions
  BY <1>1, <1>2, MadeHas, NothingMade
<1>5. AbstainedOnce'
  <2>1. \A i : Known(i)' = Known(i)
    BY <1>1 DEF Known, Held
  <2> QED BY <1>4, <2>1 DEF AnswerInv, AbstainedOnce
<1>6. \A u \in Tasks : AskedOf(u)'
  BY <1>2 DEF AnswerInv, AskedOf
<1> QED BY <1>3, <1>5, <1>6 DEF AnswerInv

(* What the publication of a command adds to the commands about.           *)
LEMMA PublishMakes ==
    ASSUME TypeOK, NEW t \in Tasks, NEW c, Publish(t, c), UNCHANGED commandsOut
    PROVE  /\ Made' \subseteq Made \cup {c}
           /\ \A u \in Tasks \ {t} : pc'[u] = pc[u] /\ job'[u] = job[u]
           /\ pc'[t] = "publishing"
<1>1. /\ \A u \in Tasks \ {t} : pc'[u] = pc[u] /\ job'[u] = job[u]
      /\ pc'[t] = "publishing" /\ job'[t].command = {c}
  BY DEF Publish, GoTo, TypeOK, Jobs
<1>2. \A i \in DOMAIN commandCache' : ValueOf(commandCache', i) \in Made \cup {c}
  BY LimitTypes, RememberReads, MadeHas DEF Publish, Held
<1>3. \A u \in Tasks : job'[u].command \subseteq Made \cup {c}
  BY <1>1, MadeHas
<1>4. commandsOut' \subseteq Made \cup {c}
  BY MadeHas
<1>5. Made' \subseteq Made \cup {c}
  BY <1>2, <1>3, <1>4, MadeLimitPrime
<1> QED BY <1>1, <1>5

(* An abstention is made of a decision that has none, and known at once.   *)
LEMMA AbstainAnswers ==
    ASSUME RoomForDecisions, TypeOK, TypeOK', AnswerInv,
           NEW t \in Tasks, NEW d \in DecisionMsgs, Abstain(t, d)
    PROVE  AnswerInv'
<1>0. PICK c : c = Command(d, SafeOutput, Found(snapshots, d.snapshot), {})
  OBVIOUS
<1>1. c \in Commands /\ c.decision = d
  BY <1>0, SafeOutputType, FoundTypes DEF Command, Commands
<1>2. /\ Publish(t, c) /\ UNCHANGED <<processed, commandsOut, calls>>
      /\ pc[t] = "handling" /\ ~Known(d.id)
  BY <1>0 DEF Abstain, Undecided, Settled, Handles, Known, outside
<1>3. KnownStays /\ Known(d.id)'
  BY <1>1, <1>2, PublishKnown
<1>4. /\ Made' \subseteq Made \cup {c}
      /\ \A u \in Tasks \ {t} : pc'[u] = pc[u] /\ job'[u] = job[u]
      /\ pc'[t] = "publishing"
  BY <1>2, PublishMakes
<1>5. /\ \A i \in DecisionIds : AtModel(i) \subseteq AtModel(i)'
      /\ \A u \in Tasks : AskedOf(u)'
  BY <1>2, <1>4, TurnsAway
<1>6. ASSUME NEW i \in DecisionIds PROVE CallsCovered(i)'
  <2>1. /\ CallsCovered(i) /\ calls'[i] = calls[i] /\ calls[i] \in Nat
        /\ AtModel(i) \in SUBSET Tasks /\ AtModel(i)' \in SUBSET Tasks
    BY <1>2 DEF TypeOK, AnswerInv, AtModel
  <2>2. /\ Cardinality(AtModel(i)) <= Cardinality(AtModel(i)')
        /\ Cardinality(AtModel(i)) \in Nat /\ Cardinality(AtModel(i)') \in Nat
    BY <1>5, <2>1, TasksFinite
  <2> QED BY <1>3, <2>1, <2>2 DEF CallsCovered, KnownStays
<1>7. AbstainedOnce'
  <2>1. \A e \in Abstentions : Known(e.decision.id) /\ e.decision.id \in DecisionIds
    BY MadeTypes, IdOf DEF AnswerInv, AbstainedOnce, Abstentions, Commands
  <2>2. Abstentions' \subseteq Abstentions \cup {c}
    BY <1>4 DEF Abstentions
  <2>3. \A e \in Abstentions : Known(e.decision.id)' /\ e.decision.id # c.decision.id
    BY <1>1, <1>2, <1>3, <2>1 DEF KnownStays
  <2>4. \A e, f \in Abstentions : e.decision.id = f.decision.id => e = f
    BY DEF AnswerInv, AbstainedOnce
  <2>5. Known(c.decision.id)'
    BY <1>1, <1>3
  <2> QED BY <2>2, <2>3, <2>4, <2>5 DEF AbstainedOnce
<1> QED BY <1>5, <1>6, <1>7 DEF AnswerInv

(* An answer ends its call and makes the decision known.                   *)
LEMMA AnsweredAnswers ==
    ASSUME RoomForDecisions, TypeOK, TypeOK', AnswerInv, TasksSound,
           NEW t \in Tasks, NEW o \in Outputs, Answered(t, o)
    PROVE  AnswerInv'
<1>0. PICK d \in job[t].decision : Publish(t, Command(d, o, job[t].snapshot, job[t].asked))
  BY DEF Answered
<1>1. PICK c : c = Command(d, o, job[t].snapshot, job[t].asked) /\ Publish(t, c)
  BY <1>0
<1>2. /\ c \in Commands /\ c.decision = d /\ c.asked = job[t].asked
  BY <1>1, JobType DEF Command, Commands
<1>3. /\ Publish(t, c) /\ UNCHANGED <<processed, commandsOut, calls>> /\ pc[t] = "model"
  BY <1>1 DEF Answered, outside
<1>4. c.asked # {}
  BY <1>2, <1>3 DEF AnswerInv, AskedOf
<1>5. KnownStays /\ Known(d.id)'
  BY <1>2, <1>3, PublishKnown
<1>6. /\ Made' \subseteq Made \cup {c}
      /\ \A u \in Tasks \ {t} : pc'[u] = pc[u] /\ job'[u] = job[u]
      /\ pc'[t] = "publishing"
  BY <1>3, PublishMakes
<1>7. Abstentions' \subseteq Abstentions
  BY <1>4, <1>6 DEF Abstentions
<1>8. job[t].decision = {d}
  BY <1>3 DEF TasksSound, TaskSound
<1>9. \A i \in DecisionIds : Known(i)' \/ AtModel(i) \subseteq AtModel(i)'
  BY <1>5, <1>6, <1>8 DEF AtModel
<1>10. \A u \in Tasks : AskedOf(u)'
  BY <1>6 DEF AnswerInv, AskedOf
<1> QED BY <1>3, <1>5, <1>7, <1>9, <1>10, QuietAnswers

LEMMA PublishedAnswers ==
    ASSUME RoomForDecisions, TypeOK, TypeOK', AnswerInv, NEW t \in Tasks, Published(t)
    PROVE  AnswerInv'
<1>1. /\ pc[t] = "publishing" /\ calls' = calls /\ job' = job
      /\ commandsOut' = commandsOut \cup job[t].command
      /\ \E d \in job[t].decision : commandCache' = Discard(commandCache, d.id)
  BY DEF Published
<1>2. \A i \in DOMAIN commandCache' : ValueOf(commandCache', i) \in Made
  <2>1. PICK d \in job[t].decision : commandCache' = Discard(commandCache, d.id)
    BY <1>1
  <2>2. \A i \in DOMAIN commandCache' :
          i \in DOMAIN commandCache /\ ValueOf(commandCache', i) = ValueOf(commandCache, i)
    BY <2>1, DiscardReads
  <2> QED BY <2>2, MadeHas
<1>3. /\ pc'[t] = "acking"
      /\ \A u \in Tasks \ {t} : pc'[u] = pc[u] /\ job'[u] = job[u]
  BY <1>1 DEF Published, GoTo, TypeOK
<1>4. Abstentions' \subseteq Abstentions
  BY <1>1, <1>2, MadeHas, NothingMade
<1>5. /\ \A i \in DecisionIds : AtModel(i) \subseteq AtModel(i)'
      /\ \A u \in Tasks : AskedOf(u)'
  BY <1>1, <1>3, TurnsAway
<1> QED BY <1>1, <1>4, <1>5, PublishedKnown, QuietAnswers

LEMMA AnswerStep ==
    ASSUME RoomForDecisions, TypeOK, CommandInv, AnswerInv, [Next]_vars, ~Restart
    PROVE  AnswerInv'
<1>0. TypeOK'
  BY StepTypeOK
<1>1. ASSUME NEW s \in SnapshotMsgs, SnapshotArrives(s) PROVE AnswerInv'
  BY <1>0, <1>1, ArrivalAnswers DEF SnapshotArrives, Retry, Tasks, decisions, outside
<1>2. ASSUME NEW x \in SentimentMsgs, SentimentArrives(x) PROVE AnswerInv'
  BY <1>0, <1>2, ArrivalAnswers DEF SentimentArrives, Retry, Tasks, decisions, outside
<1>3. ASSUME NEW m \in SystemModes, ControlArrives(m) PROVE AnswerInv'
  BY <1>0, <1>3, ArrivalAnswers DEF ControlArrives, Retry, Tasks, decisions, outside
<1>4. ASSUME NEW d \in DecisionMsgs, DecisionArrives(d) PROVE AnswerInv'
  BY <1>0, <1>4, ArrivalAnswers DEF DecisionArrives, Tasks, decisions, outside
<1>5. ASSUME NEW t \in Tasks, Handle(t) PROVE AnswerInv'
  <2>1. PICK d \in DecisionMsgs :
          Skip(t, d) \/ Resend(t, d) \/ Postpone(t, d) \/ Abstain(t, d) \/ Ask(t, d)
    BY <1>5 DEF Handle
  <2>2. CASE Postpone(t, d)
    BY <1>0, <2>2, ArrivalAnswers DEF Postpone, Undecided, Handles, outside
  <2> QED BY <1>0, <2>1, <2>2, SkipAnswers, AbstainAnswers, AskAnswers
<1>6. ASSUME NEW t \in Tasks, ModelReturns(t) \/ ModelFails(t) PROVE AnswerInv'
  <2>1. \E o \in Outputs : Answered(t, o)
    BY <1>6, StreamsAssumption, DecideType, SafeOutputType DEF ModelReturns, ModelFails
  <2> QED BY <1>0, <2>1, AnsweredAnswers DEF CommandInv
<1>7. ASSUME NEW t \in Tasks, Published(t) PROVE AnswerInv'
  BY <1>0, <1>7, PublishedAnswers
<1>8. ASSUME NEW t \in Tasks, PublishFails(t) PROVE AnswerInv'
  <2>1. /\ pc[t] = "publishing" /\ Leave(t) /\ UNCHANGED <<processed, commandCache, calls>>
        /\ commandsOut' \in {commandsOut, commandsOut \cup job[t].command}
    BY <1>8 DEF PublishFails, decisions
  <2>2. commandsOut' \subseteq Made
    BY <2>1, MadeHas
  <2>3. \A i \in DOMAIN commandCache' : ValueOf(commandCache', i) \in Made
    BY <2>1, MadeHas
  <2> QED BY <1>0, <2>1, <2>2, <2>3, SameCachesKnown, TakeAnswers
<1>9. ASSUME NEW t \in Tasks, Acked(t) \/ AckFails(t) PROVE AnswerInv'
  BY <1>0, <1>9, ArrivalAnswers DEF Acked, AckFails, decisions, outside
<1>10. CASE Clock \/ UNCHANGED vars
  <2>1. /\ UNCHANGED <<processed, commandCache>> /\ calls' = calls
        /\ commandsOut' = commandsOut /\ pc' = pc /\ job' = job
    BY <1>10 DEF Clock, vars, decisions, tasks, outside
  <2>2. Abstentions' \subseteq Abstentions
    BY <2>1, MadeHas, NothingMade
  <2>3. \A i \in DecisionIds : AtModel(i) \subseteq AtModel(i)'
    BY <2>1 DEF AtModel
  <2>4. \A t \in Tasks : AskedOf(t)'
    BY <2>1 DEF AskedOf, AnswerInv
  <2>5. KnownStays
    BY <2>1, SameCachesKnown
  <2> QED BY <1>0, <2>1, <2>2, <2>3, <2>4, <2>5, QuietAnswers
<1> QED BY <1>1, <1>2, <1>3, <1>4, <1>5, <1>6, <1>7, <1>8, <1>9, <1>10 DEF Next

(* However the four tasks interleave on a decision and fail, a process     *)
(* pays for at most one call per task and abstains at most once, for every *)
(* stream and every limit that does not fill the cache of processed        *)
(* decisions.                                                              *)
THEOREM LegacyAnswersBounded ==
    ASSUME RoomForDecisions
    PROVE  Spec => []AnswersBoundedByTasks
<1> DEFINE Inv == restarts = 0 => AnswerInv
<1>1. Init => Inv
  <2> SUFFICES ASSUME Init PROVE AnswerInv
    OBVIOUS
  <2>1. Made = {}
    BY DEF Init, Made, EmptyCache, NoJob
  <2>2. \A i \in DecisionIds : CallsCovered(i)
    <3>1. \A i : AtModel(i) \in SUBSET Tasks
      BY DEF AtModel
    <3> QED BY <3>1, TasksFinite DEF Init, CallsCovered
  <2> QED BY <2>1, <2>2 DEF Init, AnswerInv, AbstainedOnce, Abstentions, AskedOf
<1>2. TypeOK /\ CommandInv /\ Inv /\ [Next]_vars => Inv'
  <2>1. Restart /\ TypeOK => restarts' # 0
    BY DEF Restart, TypeOK
  <2>2. [Next]_vars /\ ~Restart => restarts' = restarts
    BY DEF Next, SnapshotArrives, SentimentArrives, ControlArrives, DecisionArrives, Handle, Skip,
           Resend, Postpone, Abstain, Ask, ModelReturns, ModelFails, Answered, Published,
           PublishFails, Acked, AckFails, Clock, vars, outside
  <2> QED BY <2>1, <2>2, AnswerStep
<1>3. TypeOK /\ Inv => AnswersBoundedByTasks
  <2> SUFFICES ASSUME AnswerInv, NEW i \in DecisionIds
               PROVE  /\ calls[i] <= Cardinality(Tasks)
                      /\ \A c, e \in {x \in commandsOut : x.decision.id = i /\ x.asked = {}} : c = e
    BY DEF AnswersBoundedByTasks
  <2> QED BY MadeHas DEF AnswerInv, CallsCovered, AbstainedOnce, Abstentions
<1> HIDE DEF Inv
<1> QED BY <1>1, <1>2, <1>3, CommandInvHolds, PTL DEF Spec
=============================================================================
