----------------------------- MODULE ReportFile -----------------------------
(***************************************************************************)
(* _write_report of the two qualification harnesses, which is the same in  *)
(* both: a report goes to a temporary file beside its target, is flushed   *)
(* to disk and renamed over the target.  Each system call is a step, so    *)
(* that processes writing to one path interleave, a call may fail, a       *)
(* process may be killed and the machine may lose power in between.        *)
(*                                                                         *)
(* A report is named by the process that wrote it; "old" is one that was   *)
(* there before.  The parent directory is never flushed by the code.       *)
(***************************************************************************)
CONSTANTS
    Writers,      \* processes that write a report to the same path
    Overwriters   \* those started with --overwrite

ASSUME WritersAssumption == Overwriters \subseteq Writers /\ "old" \notin Writers

VARIABLES
    target,   \* the file at the path: a set of at most one
    onDisk,   \* the directory entry of the path that has reached the disk
    temp,     \* the temporary file of each writer
    step      \* how far each writer is

fileVars == <<target, onDisk, temp, step>>

Steps == {"idle", "checked", "open", "written", "synced", "renamed", "failing",
          "done", "failed", "refused", "killed"}

Ended == {"done", "failed", "refused", "killed"}

Reports == Writers \cup {"old"}

Files == [of : Reports, bytes : {"none", "part", "all"}, synced : BOOLEAN]

WholeFile(r) == [of |-> r, bytes |-> "all", synced |-> TRUE]

Advance(w, from, to) == step[w] \in from /\ step' = [step EXCEPT ![w] = to]

-----------------------------------------------------------------------------
(* _write_report                                                           *)

Refuse(w) ==
    /\ target # {} /\ w \notin Overwriters
    /\ Advance(w, {"idle"}, "refused")
    /\ UNCHANGED <<target, onDisk, temp>>

Check(w) ==
    /\ target = {} \/ w \in Overwriters
    /\ Advance(w, {"idle"}, "checked")
    /\ UNCHANGED <<target, onDisk, temp>>

(* The report is serialised, and the temporary file made.                  *)
Create(w) ==
    /\ Advance(w, {"checked"}, "open")
    /\ temp' = [temp EXCEPT ![w] = {[of |-> w, bytes |-> "none", synced |-> FALSE]}]
    /\ UNCHANGED <<target, onDisk>>

Write(w) ==
    /\ Advance(w, {"open"}, "written")
    /\ temp' = [temp EXCEPT ![w] = {[f EXCEPT !.bytes = "all"] : f \in @}]
    /\ UNCHANGED <<target, onDisk>>

(* Fault: the file is not flushed to disk before it is renamed.            *)
NoSync(w) ==
    /\ Advance(w, {"written"}, "synced")
    /\ UNCHANGED <<target, onDisk, temp>>

Sync(w) ==
    /\ Advance(w, {"written"}, "synced")
    /\ temp' = [temp EXCEPT ![w] = {[f EXCEPT !.synced = TRUE] : f \in @}]
    /\ UNCHANGED <<target, onDisk>>

Rename(w) ==
    /\ Advance(w, {"synced"}, "renamed")
    /\ target' = temp[w]
    /\ temp' = [temp EXCEPT ![w] = {}]
    /\ UNCHANGED onDisk

(* A call raises; a failed write may have written a part.                  *)
CallFails(w) ==
    \/ /\ Advance(w, {"checked"}, "failed")
       /\ UNCHANGED <<target, onDisk, temp>>
    \/ /\ Advance(w, {"open"}, "failing")
       /\ temp' = [temp EXCEPT ![w] = {[f EXCEPT !.bytes = "part"] : f \in @}]
       /\ UNCHANGED <<target, onDisk>>
    \/ /\ Advance(w, {"written", "synced"}, "failing")
       /\ UNCHANGED <<target, onDisk, temp>>

(* Fault: the temporary file is removed on the way of success only.        *)
CleanUpOnSuccess(w) ==
    /\ \/ Advance(w, {"renamed"}, "done")
       \/ Advance(w, {"failing"}, "failed")
    /\ UNCHANGED <<target, onDisk, temp>>

(* finally: the temporary file is removed where it is still there.         *)
CleanUp(w) ==
    /\ \/ Advance(w, {"renamed"}, "done")
       \/ Advance(w, {"failing"}, "failed")
    /\ temp' = [temp EXCEPT ![w] = {}]
    /\ UNCHANGED <<target, onDisk>>

WriteReport(w) ==
    \/ Refuse(w) \/ Check(w) \/ Create(w) \/ Write(w) \/ Sync(w)
    \/ Rename(w) \/ CallFails(w) \/ CleanUp(w)

-----------------------------------------------------------------------------
(* The operating system                                                    *)

Kill(w) ==
    /\ step[w] # "idle"
    /\ Advance(w, Steps \ Ended, "killed")
    /\ UNCHANGED <<target, onDisk, temp>>

(* The directory reaches the disk.                                         *)
DirectoryFlushed == onDisk' = target /\ UNCHANGED <<target, temp, step>>

(* Everybody dies; of a file that was not flushed a part is left.          *)
PowerLoss ==
    /\ step' = [w \in Writers |-> IF step[w] \in Ended THEN step[w] ELSE "killed"]
    /\ target' = {IF f.synced THEN f ELSE [f EXCEPT !.bytes = "part"] : f \in onDisk}
    /\ onDisk' = target'
    /\ UNCHANGED temp

FileInit ==
    /\ target \in {{}, {WholeFile("old")}}
    /\ onDisk = target
    /\ temp = [w \in Writers |-> {}]
    /\ step = [w \in Writers |-> "idle"]

FileNext ==
    \/ \E w \in Writers : WriteReport(w) \/ Kill(w)
    \/ DirectoryFlushed \/ PowerLoss

FileSpec == FileInit /\ [][FileNext]_fileVars

-----------------------------------------------------------------------------
(* Properties                                                              *)

FileTypeOK ==
    /\ target \subseteq Files /\ \A f, g \in target : f = g
    /\ onDisk \subseteq Files /\ \A f, g \in onDisk : f = g
    /\ temp \in [Writers -> SUBSET Files]
    /\ step \in [Writers -> Steps]

(* What a reader makes of a file: a report, or nothing that is one.        *)
Read(files) == {IF f.bytes = "all" THEN f.of ELSE "torn" : f \in files}

(* What would be read after a power loss.                                  *)
Safe(files) == Read({IF f.synced THEN f ELSE [f EXCEPT !.bytes = "part"] : f \in files})

Atomic == INSTANCE AtomicReport WITH report <- Read(target), kept <- Safe(onDisk)

(* src/README.md: "Reports remain atomic".  Whatever writers interleave,   *)
(* fail, are killed or lose power, the path shows no report or one whole   *)
(* report, and only a publication or a power loss changes it.              *)
ReportsRemainAtomic == Atomic!Spec

(* A writer that ends by itself, however it ends, leaves no temporary file *)
(* behind.                                                                 *)
NoTemporaryLeft ==
    \A w \in Writers : step[w] \in Ended \ {"killed"} => temp[w] = {}
=============================================================================
