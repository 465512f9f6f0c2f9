--------------------------- MODULE ReviewContract ---------------------------
(***************************************************************************)
(* What the candidate-review runtime promises about a route, without locks,*)
(* caches, handlers or awaits: in one life of the process a route has one  *)
(* owner message, one evidence cut, at most one paid question and one      *)
(* verdict, in this order, except that the answer to a question about a    *)
(* cut that opposes its route may be lost and asked for again; the verdict *)
(* may be delivered more than once but never changes, and only a settled   *)
(* route is acknowledged.                                                  *)
(*                                                                         *)
(* An optional value is a set of at most one element.  Cuts and verdicts   *)
(* are not enumerated here: a step that makes one takes it from the        *)
(* behaviour that is compared with this module.                            *)
(***************************************************************************)
EXTENDS Integers

CONSTANTS
    Rids,     \* route identities
    Route,    \* deliverable route messages: [rid, mid, body]
    Opposing  \* evidence cuts that oppose their route

VARIABLES
    stage,   \* how far each route is: "open", "cut", "asked", "decided", "done"
    owner,   \* the message whose identity the route id stands for
    cut,     \* the frozen evidence of the route
    verdict, \* the review that is still to be published
    shown,   \* evidence cuts published
    given,   \* reviews published
    acked,   \* messages the stream will not deliver again
    paid,    \* model calls per route; see Ask
    lives    \* how often the process was started again

contractVars == <<stage, owner, cut, verdict, shown, given, acked, paid, lives>>

Moves(rid, from, to) == stage[rid] \in from /\ stage' = [stage EXCEPT ![rid] = to]

Shows(rid) == shown' = shown \cup cut[rid]

(* A route id belongs to the first message that brings it to a decision.   *)
Owned(rid) ==
    \E r \in Route :
      /\ r.rid = rid /\ owner[rid] \subseteq {r}
      /\ owner' = [owner EXCEPT ![rid] = {r}]

Freeze(rid) ==
    /\ Moves(rid, {"open"}, "cut")
    /\ Owned(rid)
    /\ \E c \in cut'[rid] : c.rid = rid /\ cut' = [cut EXCEPT ![rid] = {c}]
    /\ UNCHANGED <<verdict, shown, given, acked, paid, lives>>

Show(rid) ==
    /\ stage[rid] \in {"cut", "decided"}
    /\ Shows(rid)
    /\ UNCHANGED <<stage, owner, cut, verdict, given, acked, paid, lives>>

Opposed(rid) == \E c \in shown : c.rid = rid /\ c \in Opposing

(* Every question is paid for; once a cut that opposes the route is shown, *)
(* they need not be counted.                                               *)
Ask(rid) ==
    /\ Moves(rid, {"cut"}, "asked")
    /\ Shows(rid)
    /\ \/ paid' = [paid EXCEPT ![rid] = @ + 1]
       \/ Opposed(rid)' /\ paid' = paid
    /\ UNCHANGED <<owner, cut, verdict, given, acked, lives>>

(* The guard against an opposed ALLOW loses the answer.                    *)
Lose(rid) ==
    /\ Moves(rid, {"asked"}, "cut")
    /\ cut[rid] \cap shown \cap Opposing # {}
    /\ UNCHANGED <<owner, cut, verdict, shown, given, acked, paid, lives>>

(* Only a route whose question was asked has a model's verdict, and a      *)
(* verdict stands on the cut or, where there is none, on nothing.          *)
Decide(rid) ==
    /\ Moves(rid, {"open", "cut", "asked"}, "decided")
    /\ Owned(rid)
    /\ \E v \in verdict'[rid] :
         /\ {v.route} = owner'[rid]
         /\ v.context = cut[rid]
         /\ v.reviewer = "LLM" => stage[rid] = "asked"
         /\ verdict' = [verdict EXCEPT ![rid] = {v}]
    /\ Shows(rid)
    /\ UNCHANGED <<cut, given, acked, paid, lives>>

(* A delivery of the verdict that the process believes to have failed.     *)
Deliver(rid) ==
    /\ stage[rid] = "decided"
    /\ given' = given \cup verdict[rid]
    /\ UNCHANGED <<stage, owner, cut, verdict, shown, acked, paid, lives>>

Settle(rid) ==
    /\ Moves(rid, {"decided"}, "done")
    /\ given' = given \cup verdict[rid]
    /\ verdict' = [verdict EXCEPT ![rid] = {}]
    /\ UNCHANGED <<owner, cut, shown, acked, paid, lives>>

Acknowledge(rid) ==
    /\ stage[rid] = "done"
    /\ acked' = acked \cup owner[rid]
    /\ UNCHANGED <<stage, owner, cut, verdict, shown, given, paid, lives>>

(* The process dies: what it published and what it paid for remain.        *)
Die ==
    /\ lives' = lives + 1
    /\ stage' = [rid \in Rids |-> "open"]
    /\ owner' = [rid \in Rids |-> {}]
    /\ cut' = [rid \in Rids |-> {}]
    /\ verdict' = [rid \in Rids |-> {}]
    /\ UNCHANGED <<shown, given, acked, paid>>

ContractInit ==
    /\ stage = [rid \in Rids |-> "open"]
    /\ owner = [rid \in Rids |-> {}]
    /\ cut = [rid \in Rids |-> {}]
    /\ verdict = [rid \in Rids |-> {}]
    /\ shown = {} /\ given = {} /\ acked = {}
    /\ paid = [rid \in Rids |-> 0]
    /\ lives = 0

ContractNext ==
    \/ \E rid \in Rids :
         \/ Freeze(rid) \/ Show(rid) \/ Ask(rid) \/ Lose(rid) \/ Decide(rid)
         \/ Deliver(rid) \/ Settle(rid) \/ Acknowledge(rid)
    \/ Die

Spec == ContractInit /\ [][ContractNext]_contractVars
=============================================================================
