-------------------------- MODULE ReportFileProofs --------------------------
(***************************************************************************)
(* The report writer of the qualification harnesses implements             *)
(* AtomicReport, for any number of writers to one path and any of them     *)
(* started with --overwrite.                                               *)
(*                                                                         *)
(* Between the calls a writer's temporary file is exactly what its last    *)
(* call made of it (Prepared), and what the path shows, or would show      *)
(* after a power loss, is whole and flushed (AllWhole).  The second needs  *)
(* the first: only a file that is whole and flushed is ever renamed.       *)
(***************************************************************************)
EXTENDS ReportFile, TLAPS

Whole(files) == \A f \in files : f = WholeFile(f.of)

AllWhole == Whole(target) /\ Whole(onDisk)

File(w, bytes, synced) == [of |-> w, bytes |-> bytes, synced |-> synced]

Draft(w, bytes) == File(w, bytes, FALSE)

NoDraft == {"idle", "checked", "renamed", "done", "failed", "refused"}

Prepared(w) ==
    /\ step[w] \in NoDraft => temp[w] = {}
    /\ step[w] = "open" => temp[w] = {Draft(w, "none")}
    /\ step[w] = "written" => temp[w] = {Draft(w, "all")}
    /\ step[w] = "synced" => temp[w] = {WholeFile(w)}

FileInv == FileTypeOK /\ AllWhole /\ \A w \in Writers : Prepared(w)

-----------------------------------------------------------------------------
(* Files                                                                   *)

(* A draft and a whole file are files.                                     *)
LEMMA FilesOfWriter ==
    ASSUME NEW r \in Reports
    PROVE  /\ WholeFile(r) \in Files
           /\ \A b \in {"none", "part", "all"} : Draft(r, b) \in Files
BY DEF WholeFile, Draft, File, Files

(* Setting a field of a file, of any values.                               *)
LEMMA Editing ==
    \A w, x, y, z :
      /\ [File(w, x, y) EXCEPT !.bytes = z] = File(w, z, y)
      /\ [File(w, x, y) EXCEPT !.synced = z] = File(w, x, z)
<1>1. \A w, x, y, z : [File(w, x, y) EXCEPT !.bytes = z] = File(w, z, y)
  BY SMT DEF File
<1>2. \A w, x, y, z : [File(w, x, y) EXCEPT !.synced = z] = File(w, x, z)
  BY SMT DEF File
<1> QED BY <1>1, <1>2

(* The writing of one draft, and its flushing.                             *)
LEMMA Drafting ==
    ASSUME NEW w
    PROVE  /\ {[f EXCEPT !.bytes = "all"] : f \in {Draft(w, "none")}} = {Draft(w, "all")}
           /\ {[f EXCEPT !.synced = TRUE] : f \in {Draft(w, "all")}} = {WholeFile(w)}
<1>1. [Draft(w, "none") EXCEPT !.bytes = "all"] = Draft(w, "all")
  <2>1. \A y : [File(w, "none", y) EXCEPT !.bytes = "all"] = File(w, "all", y)
    BY Editing
  <2> QED BY <2>1, Zenon DEF Draft
<1>2. [Draft(w, "all") EXCEPT !.synced = TRUE] = WholeFile(w)
  <2>1. WholeFile(w) = File(w, "all", TRUE)
    BY DEF WholeFile, File
  <2>2. \A y, z : [File(w, "all", y) EXCEPT !.synced = z] = File(w, "all", z)
    BY Editing
  <2> QED BY <2>1, <2>2, Zenon DEF Draft
<1>3. {[f EXCEPT !.bytes = "all"] : f \in {Draft(w, "none")}}
        = {[Draft(w, "none") EXCEPT !.bytes = "all"]}
  OBVIOUS
<1>4. {[f EXCEPT !.synced = TRUE] : f \in {Draft(w, "all")}}
        = {[Draft(w, "all") EXCEPT !.synced = TRUE]}
  OBVIOUS
<1> QED BY <1>1, <1>2, <1>3, <1>4

(* Of whole files a power loss takes nothing.                              *)
LEMMA WholeSurvives ==
    ASSUME NEW files, Whole(files)
    PROVE  {IF f.synced THEN f ELSE [f EXCEPT !.bytes = "part"] : f \in files} = files
<1>1. \A f \in files : f.synced
  BY DEF Whole, WholeFile
<1> QED BY <1>1

(* What is visible of whole files is what a power loss leaves of them.     *)
LEMMA ReadIsSafe ==
    ASSUME NEW files, Whole(files)
    PROVE  Safe(files) = Read(files) /\ Read(files) = {f.of : f \in files}
<1>1. \A f \in files : f.bytes = "all"
  BY DEF Whole, WholeFile
<1>2. Read(files) = {f.of : f \in files}
  BY <1>1 DEF Read
<1> QED BY <1>2, WholeSurvives DEF Safe

-----------------------------------------------------------------------------
(* The inductive invariant                                                 *)

LEMMA FileInvInit == FileInit => FileInv
<1> SUFFICES ASSUME FileInit PROVE FileInv
  OBVIOUS
<1>1. WholeFile("old") \in Files /\ WholeFile("old") = WholeFile(WholeFile("old").of)
  BY DEF WholeFile, Files, Reports
<1>2. target \subseteq Files /\ (\A f, g \in target : f = g) /\ Whole(target)
  BY <1>1 DEF FileInit, Whole
<1>3. onDisk = target
  BY DEF FileInit
<1>4. temp \in [Writers -> SUBSET Files] /\ step \in [Writers -> Steps]
  BY DEF FileInit, Steps
<1>5. \A w \in Writers : Prepared(w)
  BY DEF FileInit, Prepared, NoDraft
<1> QED BY <1>2, <1>3, <1>4, <1>5 DEF FileInv, FileTypeOK, AllWhole

(* A step of one writer that leaves the path alone, and after which its    *)
(* temporary file is as it should be.                                      *)
LEMMA WriterStep ==
    ASSUME FileInv, NEW w \in Writers, UNCHANGED <<target, onDisk>>,
           NEW s \in Steps, step' = [step EXCEPT ![w] = s],
           NEW draft \in SUBSET Files, temp' = [temp EXCEPT ![w] = draft],
           Prepared(w)'
    PROVE  FileInv'
<1>1. temp' \in [Writers -> SUBSET Files] /\ step' \in [Writers -> Steps]
  BY DEF FileInv, FileTypeOK
<1>2. \A v \in Writers : v # w => temp'[v] = temp[v] /\ step'[v] = step[v]
  BY DEF FileInv, FileTypeOK
<1>3. \A v \in Writers : Prepared(v)'
  <2> SUFFICES ASSUME NEW v \in Writers, v # w PROVE Prepared(v)'
    OBVIOUS
  <2> QED BY <1>2 DEF Prepared, FileInv
<1> QED BY <1>1, <1>3 DEF FileInv, FileTypeOK, AllWhole, Whole

LEMMA FileInvStep == FileInv /\ [FileNext]_fileVars => FileInv'
<1> SUFFICES ASSUME FileInv, [FileNext]_fileVars PROVE FileInv'
  OBVIOUS
<1> USE DEF Advance
<1>0. /\ temp \in [Writers -> SUBSET Files] /\ step \in [Writers -> Steps]
      /\ \A w \in Writers : Prepared(w) /\ w \in Reports
  BY DEF FileInv, FileTypeOK, Reports
<1>1. ASSUME NEW w \in Writers, WriteReport(w) PROVE FileInv'
  <2>0. temp = [temp EXCEPT ![w] = temp[w]] /\ temp[w] \subseteq Files
    BY <1>0
  <2>1. CASE Refuse(w)
    <3>1. step'[w] = "refused" /\ temp'[w] = {}
      BY <2>1, <1>0 DEF Refuse, Prepared, NoDraft
    <3>2. Prepared(w)'
      BY <3>1 DEF Prepared
    <3> QED BY <3>2, <2>0, <2>1, WriterStep DEF Refuse, Steps
  <2>2. CASE Check(w)
    <3>1. step'[w] = "checked" /\ temp'[w] = {}
      BY <2>2, <1>0 DEF Check, Prepared, NoDraft
    <3>2. Prepared(w)'
      BY <3>1 DEF Prepared
    <3> QED BY <3>2, <2>0, <2>2, WriterStep DEF Check, Steps
  <2>3. CASE Create(w)
    <3>1. temp' = [temp EXCEPT ![w] = {Draft(w, "none")}] /\ {Draft(w, "none")} \subseteq Files
      BY <2>3, <1>0, FilesOfWriter DEF Create, Draft, File
    <3>2. step'[w] = "open" /\ temp'[w] = {Draft(w, "none")}
      BY <2>3, <3>1, <1>0 DEF Create
    <3>3. Prepared(w)'
      BY <3>2 DEF Prepared, NoDraft
    <3> QED BY <3>1, <3>3, <2>3, WriterStep DEF Create, Steps
  <2>4. CASE Write(w)
    <3>1. temp[w] = {Draft(w, "none")}
      BY <2>4, <1>0 DEF Write, Prepared
    <3>2. temp' = [temp EXCEPT ![w] = {Draft(w, "all")}] /\ {Draft(w, "all")} \subseteq Files
      BY <3>1, <2>4, <1>0, Drafting, FilesOfWriter DEF Write
    <3>3. step'[w] = "written" /\ temp'[w] = {Draft(w, "all")}
      BY <2>4, <3>2, <1>0 DEF Write
    <3>4. Prepared(w)'
      BY <3>3 DEF Prepared, NoDraft
    <3> QED BY <3>2, <3>4, <2>4, WriterStep DEF Write, Steps
  <2>5. CASE Sync(w)
    <3>1. temp[w] = {Draft(w, "all")}
      BY <2>5, <1>0 DEF Sync, Prepared
    <3>2. temp' = [temp EXCEPT ![w] = {WholeFile(w)}] /\ {WholeFile(w)} \subseteq Files
      BY <3>1, <2>5, <1>0, Drafting, FilesOfWriter DEF Sync
    <3>3. step'[w] = "synced" /\ temp'[w] = {WholeFile(w)}
      BY <2>5, <3>2, <1>0 DEF Sync
    <3>4. Prepared(w)'
      BY <3>3 DEF Prepared, NoDraft
    <3> QED BY <3>2, <3>4, <2>5, WriterStep DEF Sync, Steps
  <2>6. CASE Rename(w)
    <3>1. target' = {WholeFile(w)} /\ onDisk' = onDisk
      BY <2>6, <1>0 DEF Rename, Prepared
    <3>2. WholeFile(w) \in Files /\ WholeFile(w) = WholeFile(WholeFile(w).of)
      BY <1>0, FilesOfWriter DEF WholeFile
    <3>3. temp'[w] = {} /\ step'[w] = "renamed"
      BY <2>6, <1>0 DEF Rename
    <3>4. \A v \in Writers : v # w => temp'[v] = temp[v] /\ step'[v] = step[v]
      BY <2>6, <1>0 DEF Rename
    <3>5. \A v \in Writers : Prepared(v)'
      BY <3>3, <3>4, <1>0 DEF Prepared, NoDraft
    <3>6. temp' \in [Writers -> SUBSET Files] /\ step' \in [Writers -> Steps]
      BY <2>6, <1>0 DEF Rename, Steps
    <3>7. FileTypeOK'
      BY <3>1, <3>2, <3>6 DEF FileInv, FileTypeOK
    <3>8. AllWhole'
      BY <3>1, <3>2 DEF FileInv, AllWhole, Whole
    <3> QED BY <3>5, <3>7, <3>8 DEF FileInv
  <2>7. CASE CallFails(w)
    <3> DEFINE part == {[f EXCEPT !.bytes = "part"] : f \in temp[w]}
    <3>1. CASE step[w] = "checked" /\ step' = [step EXCEPT ![w] = "failed"]
               /\ UNCHANGED <<target, onDisk, temp>>
      <4>1. step'[w] = "failed" /\ temp'[w] = {}
        BY <3>1, <1>0 DEF Prepared, NoDraft
      <4>2. Prepared(w)'
        BY <4>1 DEF Prepared
      <4> QED BY <4>2, <3>1, <2>0, WriterStep DEF Steps
    <3>2. CASE step' = [step EXCEPT ![w] = "failing"]
               /\ temp' = [temp EXCEPT ![w] = part] /\ UNCHANGED <<target, onDisk>>
      <4>1. part \subseteq Files
        BY <1>0 DEF Files
      <4>2. Prepared(w)'
        BY <3>2, <1>0 DEF Prepared, NoDraft
      <4> QED BY <4>1, <4>2, <3>2, WriterStep DEF Steps
    <3>3. CASE step' = [step EXCEPT ![w] = "failing"] /\ UNCHANGED <<target, onDisk, temp>>
      <4>1. Prepared(w)'
        BY <3>3, <1>0 DEF Prepared, NoDraft
      <4> QED BY <4>1, <3>3, <2>0, WriterStep DEF Steps
    <3>4. temp' = [temp EXCEPT ![w] = {[f EXCEPT !.bytes = "part"] : f \in @}] =>
             temp' = [temp EXCEPT ![w] = part]
      BY <1>0
    <3> QED BY <3>1, <3>2, <3>3, <3>4, <2>7 DEF CallFails
  <2>8. CASE CleanUp(w)
    <3>1. temp'[w] = {} /\ step'[w] \in {"done", "failed"}
      BY <2>8, <1>0 DEF CleanUp
    <3>2. Prepared(w)'
      BY <3>1 DEF Prepared
    <3>3. temp' = [temp EXCEPT ![w] = {}] /\ {} \in SUBSET Files
      BY <2>8 DEF CleanUp
    <3>4. \E s \in Steps : step' = [step EXCEPT ![w] = s]
      BY <2>8 DEF CleanUp, Steps
    <3> QED BY <3>2, <3>3, <3>4, <2>8, WriterStep DEF CleanUp
  <2> QED
    BY <1>1, <2>1, <2>2, <2>3, <2>4, <2>5, <2>6, <2>7, <2>8 DEF WriteReport
<1>2. ASSUME NEW w \in Writers, Kill(w) PROVE FileInv'
  <2>1. temp' = [temp EXCEPT ![w] = temp[w]] /\ temp[w] \subseteq Files
    BY <1>0, <1>2 DEF Kill
  <2>2. Prepared(w)'
    BY <1>2, <1>0 DEF Kill, Prepared, NoDraft
  <2> QED BY <1>2, <2>1, <2>2, WriterStep DEF Kill, Steps
<1>3. CASE DirectoryFlushed
  <2>1. \A w \in Writers : Prepared(w)'
    BY <1>3 DEF DirectoryFlushed, FileInv, Prepared
  <2> QED BY <1>3, <2>1 DEF DirectoryFlushed, FileInv, FileTypeOK, AllWhole, Whole
<1>4. CASE PowerLoss
  <2>1. target' = onDisk /\ onDisk' = onDisk
    BY <1>4, WholeSurvives DEF PowerLoss, FileInv, AllWhole
  <2>2. \A w \in Writers : step'[w] = step[w] \/ step'[w] = "killed"
    BY <1>4 DEF PowerLoss
  <2>3. \A w \in Writers : Prepared(w)'
    BY <1>4, <2>2, <1>0 DEF PowerLoss, Prepared, NoDraft
  <2>4. step' \in [Writers -> Steps] /\ temp' = temp
    BY <1>4, <1>0 DEF PowerLoss, Steps
  <2> QED BY <2>1, <2>3, <2>4 DEF FileInv, FileTypeOK, AllWhole, Whole
<1>5. CASE UNCHANGED fileVars
  <2>1. \A w \in Writers : Prepared(w)'
    BY <1>5 DEF fileVars, FileInv, Prepared
  <2> QED BY <1>5, <2>1 DEF fileVars, FileInv, FileTypeOK, AllWhole, Whole
<1> QED BY <1>1, <1>2, <1>3, <1>4, <1>5 DEF FileNext

LEMMA FileInvariant == FileSpec => []FileInv
BY FileInvInit, FileInvStep, PTL DEF FileSpec

-----------------------------------------------------------------------------
(* The theorems                                                            *)

(* The path, the disk and the temporary files stay well-typed.             *)
THEOREM FilesTyped == FileSpec => []FileTypeOK
<1>1. FileInv => FileTypeOK
  BY DEF FileInv
<1> QED BY <1>1, FileInvariant, PTL

(* A writer that ends by itself leaves no temporary file behind, on every  *)
(* path through _write_report.                                             *)
THEOREM NothingLeftBehind == FileSpec => []NoTemporaryLeft
<1>1. FileInv => NoTemporaryLeft
  BY DEF FileInv, NoTemporaryLeft, Prepared, NoDraft, Ended
<1> QED BY <1>1, FileInvariant, PTL

LEMMA AtomicInit == FileInit => Atomic!ReportInit
<1> SUFFICES ASSUME FileInit PROVE Atomic!ReportInit
  OBVIOUS
<1>1. Whole(target) /\ onDisk = target
  BY FileInvInit DEF FileInv, AllWhole, FileInit
<1>2. Read(target) = Safe(onDisk) /\ Read(target) = {f.of : f \in target}
  BY <1>1, ReadIsSafe
<1>3. "old" \in Reports /\ Read(target) \in {{}, {"old"}}
  BY <1>2 DEF FileInit, WholeFile, Reports
<1> QED BY <1>2, <1>3 DEF Atomic!ReportInit

LEMMA AtomicStep ==
    FileInv /\ [FileNext]_fileVars
    => [(\E r \in Reports : Atomic!Publish(r)) \/ Atomic!Keep \/ Atomic!LosePower]_(Atomic!reportVars)
<1> SUFFICES ASSUME FileInv, [FileNext]_fileVars
             PROVE  \/ \E r \in Reports : Atomic!Publish(r)
                    \/ Atomic!Keep
                    \/ Atomic!LosePower
                    \/ UNCHANGED <<Read(target), Safe(onDisk)>>
  BY DEF Atomic!reportVars
<1>1. CASE UNCHANGED <<target, onDisk>>
  BY <1>1 DEF Read, Safe
<1>2. ASSUME NEW w \in Writers, Rename(w) PROVE Atomic!Publish(w)
  <2>1. target' = {WholeFile(w)} /\ onDisk' = onDisk
    BY <1>2 DEF Rename, Advance, FileInv, Prepared
  <2>2. Read(target') = {w}
    BY <2>1 DEF Read, WholeFile
  <2> QED BY <2>1, <2>2 DEF Atomic!Publish, Read, Safe
<1>3. CASE DirectoryFlushed
  <2>1. Safe(target) = Read(target)
    BY ReadIsSafe DEF FileInv, AllWhole
  <2> QED BY <1>3, <2>1 DEF DirectoryFlushed, Atomic!Keep, Read, Safe
<1>4. CASE PowerLoss
  <2>1. target' = onDisk /\ onDisk' = onDisk
    BY <1>4, WholeSurvives DEF PowerLoss, FileInv, AllWhole
  <2>2. Safe(onDisk) = Read(onDisk)
    BY ReadIsSafe DEF FileInv, AllWhole
  <2> QED BY <2>1, <2>2 DEF Atomic!LosePower, Read, Safe
<1>5. \A w \in Writers : WriteReport(w) \/ Kill(w) =>
        Rename(w) \/ UNCHANGED <<target, onDisk>>
  BY DEF WriteReport, Refuse, Check, Create, Write, Sync, CallFails, CleanUp, Kill
<1>6. \A w \in Writers : w \in Reports
  BY DEF Reports
<1> QED BY <1>1, <1>2, <1>3, <1>4, <1>5, <1>6 DEF FileNext, fileVars

(* "Reports remain atomic": _write_report implements AtomicReport.         *)
THEOREM ReportsAtomic == FileSpec => ReportsRemainAtomic
<1>1. FileSpec => []FileInv
  BY FileInvariant
<1> QED BY <1>1, AtomicInit, AtomicStep, PTL DEF FileSpec, ReportsRemainAtomic, Atomic!Spec
=============================================================================
