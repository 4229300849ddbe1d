------------------------------ MODULE HandEdit ------------------------------
(***************************************************************************)
(* A lyric edited by hand (internal/web preview editor, internal/lyrics    *)
(* edit.go) against everything that rewrites sidecars on its own: worker   *)
(* trips, the timing sweep and the editor-tag backfill.  The state is one  *)
(* row, its .lrc and the .orig backup.  The edit mark keeps trips from     *)
(* being admitted, the path lock keeps sweep and backfill out while mark   *)
(* and file change, the row lock orders two editors.                       *)
(***************************************************************************)
EXTENDS Naturals

CONSTANTS Editors,     \* concurrent edit requests of the row
          Faults,      \* the calls that may fail
          MaxWrites,   \* bound: versions of the .lrc
          MaxRequests, \* bound: edit requests
          MaxCrashes,  \* bound: restarts of the process
          maxDegradedAttempts

None == [gen |-> 0, hand |-> FALSE, tag |-> FALSE, stamp |-> 0]  \* no file
Free == "free"

VARIABLES row,      \* status and edit mark
          lrc,      \* the .lrc: which lyric, edited, tagged, mtime
          orig,     \* the .orig beside it
          rowLock,  \* editLocks
          pathLock, \* editPathLocks
          ed,       \* editor -> its request
          wk, sweep, tags,  \* the positions of worker, timing sweep, backfill
          filled,   \* the backfill's markers: done, degraded attempts
          writes, requests, crashes

vars == <<row, lrc, orig, rowLock, pathLock, ed, wk, sweep, tags, filled,
          writes, requests, crashes>>
files == <<lrc, orig>>
locks == <<rowLock, pathLock>>
counts == <<requests, crashes>>

NoRequest == [pc |-> "idle", op |-> "none", page |-> 0, prior |-> "no", src |-> None]

Init ==
    /\ row = [st |-> "done", edit |-> "no"]
    /\ lrc = [gen |-> 1, hand |-> FALSE, tag |-> FALSE, stamp |-> 1]
    /\ orig = None
    /\ rowLock = Free /\ pathLock = Free
    /\ ed = [e \in Editors |-> NoRequest]
    /\ wk = "idle" /\ sweep = "idle" /\ tags = "idle"
    /\ filled = [done |-> FALSE, attempts |-> 0]
    /\ writes = 1 /\ requests = 0 /\ crashes = 0
-----------------------------------------------------------------------------
(* The editor.  Every early return releases both locks.                     *)
Fails(call) == call \in Faults
LineEditable == row.st = "done" /\ lrc # None
At(e, pc) == ed[e].pc = pc
Goto(e, pc) == ed' = [ed EXCEPT ![e].pc = pc]
ReturnHolding(e) ==
    /\ ed' = [ed EXCEPT ![e] = NoRequest]
    /\ rowLock' = IF rowLock = e THEN Free ELSE rowLock
    /\ UNCHANGED pathLock
Return(e) ==
    /\ ed' = [ed EXCEPT ![e] = NoRequest]
    /\ rowLock' = IF rowLock = e THEN Free ELSE rowLock
    /\ pathLock' = IF pathLock = e THEN Free ELSE pathLock

(* A request from a page that showed some version of the file.              *)
Request(e) ==
    /\ At(e, "idle") /\ requests < MaxRequests
    /\ requests' = requests + 1
    /\ \E op \in {"offset", "retime", "revert"}, page \in 1 .. writes :
          ed' = [ed EXCEPT ![e] = [NoRequest EXCEPT !.pc = "load", !.op = op, !.page = page]]
    /\ UNCHANGED <<row, files, locks, wk, sweep, tags, filled, writes, crashes>>

Load(e) ==
    /\ At(e, "load") /\ rowLock = Free
    /\ \/ /\ LineEditable
          /\ ed[e].op = "revert" => row.edit # "no"
          /\ rowLock' = e /\ UNCHANGED pathLock
          /\ ed' = [ed EXCEPT ![e].pc = "lock", ![e].prior = row.edit]
       \/ /\ ~LineEditable \/ (ed[e].op = "revert" /\ row.edit = "no") \/ Fails("read")
          /\ Return(e)
    /\ UNCHANGED <<row, files, wk, sweep, tags, filled, writes, counts>>

LockEditPath(e) ==
    /\ At(e, "lock") /\ pathLock = Free
    /\ pathLock' = e
    /\ Goto(e, IF ed[e].op = "revert" THEN "recheck" ELSE "mark")
    /\ UNCHANGED <<row, files, rowLock, wk, sweep, tags, filled, writes, counts>>

MarkedNot(op) == row
Marked(op) == [row EXCEPT !.edit = op]
SetLyricEdit(e) ==
    /\ At(e, "mark")
    /\ \/ row' = Marked(ed[e].op) /\ Goto(e, "recheck") /\ UNCHANGED locks
       \/ Fails("mark") /\ Return(e) /\ UNCHANGED row
    /\ UNCHANGED <<files, wk, sweep, tags, filled, writes, counts>>

(* A failure after the mark restores the prior one; a failed restore leaves *)
(* the row marked.                                                          *)
GiveUp(e) == Goto(e, "restore")
restoreLyricEdit(e) ==
    /\ At(e, "restore")
    /\ Return(e)
    /\ \/ row' = IF ed[e].op = "revert" THEN row ELSE [row EXCEPT !.edit = ed[e].prior]
       \/ Fails("restore") /\ UNCHANGED row
    /\ UNCHANGED <<files, wk, sweep, tags, filled, writes, counts>>

StillAny == TRUE
StillEditable == LineEditable
Recheck(e) ==
    /\ At(e, "recheck")
    /\ \/ StillEditable /\ Goto(e, "check")
       \/ (~StillEditable \/ Fails("read")) /\ GiveUp(e)
    /\ UNCHANGED <<row, files, locks, wk, sweep, tags, filled, writes, counts>>

(* editLines and ApplyEdit's refusals: the file is the page's, and the lines *)
(* of an offset or a revert come from a backup that backs it.  A retime only *)
(* asks that the backup has the file's untimed lines.                        *)
FromOrig(e) == ed[e].op # "retime" /\ orig # None
ShownStale(e) == lrc # None
Shown(e) == lrc # None /\ lrc.stamp = ed[e].page
requireOrigBacksCurrent(e) == orig # None => ed[e].op = "retime" \/ orig.gen = lrc.gen
CheckEdit(e) ==
    /\ At(e, "check")
    /\ \/ /\ Shown(e) /\ requireOrigBacksCurrent(e)
          /\ ed' = [ed EXCEPT ![e].pc = "backup", ![e].src = IF FromOrig(e) THEN orig ELSE lrc]
       \/ GiveUp(e)   \* refused, or the timing guard
    /\ UNCHANGED <<row, files, locks, wk, sweep, tags, filled, writes, counts>>

NoBackupEver == TRUE
NoBackup == orig = None
Backup(e) ==
    /\ At(e, "backup")
    /\ \/ ~NoBackup /\ Goto(e, "publish") /\ UNCHANGED orig
       \/ NoBackup /\ Shown(e) /\ orig' = lrc /\ Goto(e, "publish")
       \/ NoBackup /\ (~Shown(e) \/ Fails("write")) /\ GiveUp(e) /\ UNCHANGED orig
    /\ UNCHANGED <<row, lrc, locks, wk, sweep, tags, filled, writes, counts>>

(* rootWriteAtomic: the rename.  A stat that fails after it makes the whole *)
(* edit fail although the file is in place.                                 *)
Edited(e) == [gen |-> ed[e].src.gen, hand |-> ed[e].op # "revert",
              tag |-> ed[e].src.tag, stamp |-> writes + 1]
Publish(e) ==
    /\ At(e, "publish")
    /\ \/ /\ writes < MaxWrites /\ writes' = writes + 1
          /\ lrc' = Edited(e)
          /\ \/ ed[e].op = "revert" /\ Goto(e, "clear") /\ UNCHANGED locks
             \/ ed[e].op # "revert" /\ Return(e)
             \/ Fails("stat") /\ GiveUp(e) /\ UNCHANGED locks
       \/ (Fails("write") \/ writes = MaxWrites) /\ GiveUp(e) /\ UNCHANGED <<lrc, locks, writes>>
    /\ UNCHANGED <<row, orig, wk, sweep, tags, filled, counts>>

ClearLyricEdit(e) ==
    /\ At(e, "clear")
    /\ Return(e)
    /\ \/ row' = [row EXCEPT !.edit = "no"]
       \/ Fails("mark") /\ UNCHANGED row
    /\ UNCHANGED <<files, wk, sweep, tags, filled, writes, counts>>
-----------------------------------------------------------------------------
(* A trip: the sweeps admit a done row that is not hand-protected; WriteLRC *)
(* removes the old file, then renames the new one into place.               *)
AdmittableAny == row.st = "done"
Admittable == row.st = "done" /\ row.edit = "no"
Admit ==
    /\ Admittable
    /\ row' = [row EXCEPT !.st = "open"]
    /\ UNCHANGED <<files, locks, ed, wk, sweep, tags, filled, writes, counts>>
Claim ==
    /\ row.st = "open" /\ wk = "idle"
    /\ row' = [row EXCEPT !.st = "processing"] /\ wk' = "trip"
    /\ UNCHANGED <<files, locks, ed, sweep, tags, filled, writes, counts>>
WorkerRemove ==
    /\ wk = "trip" /\ writes < MaxWrites
    /\ lrc' = None /\ wk' = "rename"
    /\ UNCHANGED <<row, orig, locks, ed, sweep, tags, filled, writes, counts>>
WorkerRename ==
    /\ wk = "rename" /\ writes < MaxWrites
    /\ lrc' = [gen |-> writes + 1, hand |-> FALSE, tag |-> TRUE, stamp |-> writes + 1]
    /\ writes' = writes + 1 /\ wk' = "settle"
    /\ UNCHANGED <<row, orig, locks, ed, sweep, tags, filled, counts>>
Settle ==
    /\ wk \in {"trip", "rename", "settle"}
    /\ wk = "rename" => Fails("write") \/ writes = MaxWrites
    /\ row' = [row EXCEPT !.st = "done"] /\ wk' = "idle"
    /\ UNCHANGED <<files, locks, ed, sweep, tags, filled, writes, counts>>

(* The timing sweep: a plan for a lyric it judged bad in a row not held for *)
(* an edit, and for its move the path lock and the marks again.             *)
holdEditedRows == row.edit # "no"
SweepPlan ==
    /\ sweep = "idle" /\ row.st = "done" /\ lrc # None /\ ~holdEditedRows
    /\ sweep' = "lock"
    /\ UNCHANGED <<row, files, locks, ed, wk, tags, filled, writes, counts>>
SweepLock ==
    /\ sweep = "lock" /\ pathLock = Free
    /\ pathLock' = "sweep" /\ sweep' = "locked"
    /\ UNCHANGED <<row, files, rowLock, ed, wk, tags, filled, writes, counts>>
EditedNever == FALSE
sidecarEdited == row.edit # "no"
SweepRead ==
    /\ sweep = "locked"
    /\ \/ ~sidecarEdited /\ sweep' = "move" /\ UNCHANGED pathLock
       \/ (sidecarEdited \/ Fails("read")) /\ sweep' = "idle" /\ pathLock' = Free
    /\ UNCHANGED <<row, files, rowLock, ed, wk, tags, filled, writes, counts>>
applyOne ==
    /\ sweep = "move"
    /\ lrc' \in {None} \cup IF Fails("write") THEN {lrc} ELSE {}
    /\ sweep' = "idle" /\ pathLock' = Free
    /\ UNCHANGED <<row, orig, rowLock, ed, wk, tags, filled, writes, counts>>

(* The editor-tag backfill, once per process until its marker is set: lock, *)
(* mark, a record of the old bytes, then a rewrite that is dropped when the *)
(* file changed since it was read.                                          *)
TagLock ==
    /\ tags = "idle" /\ ~filled.done /\ pathLock = Free
    /\ pathLock' = "tags" /\ tags' = "locked"
    /\ UNCHANGED <<row, files, rowLock, ed, wk, sweep, filled, writes, counts>>
sidecarHandEdited == row.edit # "no"
EditorTagEligible == lrc # None /\ ~lrc.tag
TagRead ==
    /\ tags = "locked"
    /\ \/ ~sidecarHandEdited /\ EditorTagEligible /\ tags' = "rewrite" /\ UNCHANGED pathLock
       \/ sidecarHandEdited /\ tags' = "clean" /\ pathLock' = Free
       \/ ~EditorTagEligible /\ tags' = "clean" /\ pathLock' = Free
       \/ Fails("read") /\ tags' = "degraded" /\ pathLock' = Free
    /\ UNCHANGED <<row, files, rowLock, ed, wk, sweep, filled, writes, counts>>
InjectEditorTag ==
    /\ tags = "rewrite"
    /\ pathLock' = Free
    /\ \/ /\ EditorTagEligible /\ writes < MaxWrites
          /\ lrc' = [lrc EXCEPT !.tag = TRUE, !.stamp = writes + 1]
          /\ writes' = writes + 1 /\ tags' = "clean"
       \/ (~EditorTagEligible \/ Fails("write") \/ writes = MaxWrites)
          /\ tags' = "degraded" /\ UNCHANGED <<lrc, writes>>
    /\ UNCHANGED <<row, orig, rowLock, ed, wk, sweep, filled, counts>>
markEditorTagBackfillDone ==
    /\ \/ tags = "clean" /\ filled' = [done |-> TRUE, attempts |-> 0]
       \/ tags = "degraded"
          /\ filled' = IF filled.attempts + 1 < maxDegradedAttempts
                       THEN [filled EXCEPT !.attempts = @ + 1]
                       ELSE [done |-> TRUE, attempts |-> 0]
    /\ tags' = "over"
    /\ UNCHANGED <<row, files, locks, ed, wk, sweep, writes, counts>>

(* The process dies: locks and requests are gone, a claimed row is pending  *)
(* again at the next start.                                                 *)
Crash ==
    /\ crashes < MaxCrashes /\ crashes' = crashes + 1
    /\ row' = IF row.st = "processing" THEN [row EXCEPT !.st = "open"] ELSE row
    /\ rowLock' = Free /\ pathLock' = Free
    /\ ed' = [e \in Editors |-> NoRequest]
    /\ wk' = "idle" /\ sweep' = "idle" /\ tags' = "idle"
    /\ UNCHANGED <<files, filled, writes, requests>>

EditStep(e) == \/ Load(e) \/ LockEditPath(e) \/ SetLyricEdit(e) \/ restoreLyricEdit(e)
               \/ Recheck(e) \/ CheckEdit(e) \/ Backup(e) \/ Publish(e) \/ ClearLyricEdit(e)
SweepStep == SweepLock \/ SweepRead \/ applyOne
TagStep == TagLock \/ TagRead \/ InjectEditorTag \/ markEditorTagBackfillDone
Trip == Claim \/ WorkerRemove \/ WorkerRename \/ Settle
Next == \/ \E e \in Editors : Request(e) \/ EditStep(e)
        \/ Admit \/ Trip \/ SweepPlan \/ SweepStep \/ TagStep \/ Crash

Spec == Init /\ [][Next]_vars

(* Every goroutine is scheduled, and sync.Mutex lets no waiter starve.      *)
LiveSpec ==
        /\ Spec
        /\ \A e \in Editors : SF_vars(EditStep(e))
        /\ WF_vars(SweepRead \/ applyOne) /\ WF_vars(TagRead \/ InjectEditorTag)
-----------------------------------------------------------------------------
TypeOK ==
    /\ row.st \in {"done", "open", "processing"} /\ row.edit \in {"no", "offset", "retime"}
    /\ lrc.gen \in 0 .. MaxWrites /\ lrc.stamp \in 0 .. writes
    /\ rowLock \in Editors \cup {Free} /\ pathLock \in Editors \cup {Free, "sweep", "tags"}
    /\ \A e \in Editors : ed[e].pc = "idle" => rowLock # e /\ pathLock # e
    /\ filled.attempts < maxDegradedAttempts

Publishing(e) == At(e, "publish") /\ lrc' = Edited(e)

(* An edited file is replaced by an editor alone: no trip, sweep or         *)
(* backfill, whatever it read and whenever it was admitted, touches it      *)
(* (preview_edit.go:259-273, editlock.go:11-31).                            *)
HandEditKept == lrc.hand /\ lrc' # lrc => \E e \in Editors : Publishing(e)

(* The mark covers the file at every moment, crashes included: an edited    *)
(* lyric has a marked row and a backup (mark before write, write before     *)
(* clear).                                                                  *)
EditIsMarked == lrc.hand => row.edit # "no" /\ orig # None

(* An edit replaces the version its page showed, although the stamp is      *)
(* compared before the backup is written and not again at the rename.       *)
EditReplacesWhatWasShown ==
    \A e \in Editors : Publishing(e) => lrc # None /\ lrc.stamp = ed[e].page

(* The backup is the lyric as fetched: no hand edit ever gets into it, and  *)
(* no later edit replaces it (the exclusive link of ApplyEdit).             *)
OriginalKept == ~orig'.hand /\ (orig # None => orig' = orig)

(* Every request is answered: the two locks and the mark leave no editor    *)
(* waiting on a sweep, a backfill or another editor for good.               *)
Editing(e) == At(e, "load")
Answered(e) == At(e, "idle")
EditAnswered == \A e \in Editors : Editing(e) ~> Answered(e)
=============================================================================
