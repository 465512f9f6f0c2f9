---------------------------- MODULE AtomicReport ----------------------------
(***************************************************************************)
(* What a reader of a report path may see: nothing or one whole report,    *)
(* which changes only when somebody publishes another whole report, or     *)
(* when the machine loses power and what was visible had not been kept.    *)
(***************************************************************************)
CONSTANT Reports

VARIABLES
    report,  \* the report at the path, as a set of at most one
    kept     \* the report a power loss would leave there

reportVars == <<report, kept>>

Publish(r) == report' = {r} /\ UNCHANGED kept

Keep == kept' = report /\ UNCHANGED report

LosePower == report' = kept /\ UNCHANGED kept

ReportInit == report = kept /\ \E r \in Reports : report \in {{}, {r}}

Spec == ReportInit /\ [][(\E r \in Reports : Publish(r)) \/ Keep \/ LosePower]_reportVars
=============================================================================
