------------------------------- MODULE Purge -------------------------------
(***************************************************************************)
(* scan purge-provenance (internal/purgeprovenance, internal/commands/     *)
(* purge_provenance.go): a second process deletes the lyric files whose    *)
(* [source:] tag matches and has them fetched again, or puts the .orig of  *)
(* a generated retiming back, while serve works on the same rows and the   *)
(* operator may mark the track instrumental.  One track: its sidecar, the  *)
(* owned companion, the .orig, its queue row, scan result and cached       *)
(* lyric.  A file is the number of the write that made it, its source tag, *)
(* its words and whether the aligner timed it.                             *)
(*                                                                         *)
(* The index is built once, before the walk, so every step may find other  *)
(* rows and files than the one before it saw.  A dry run changes nothing   *)
(* and is left out.                                                        *)
(***************************************************************************)
EXTENDS Naturals

CONSTANTS
    Sources,     \* the providers
    Faults,      \* which steps may fail
    MaxRuns,     \* bound on the runs of the command
    MaxWrites,   \* bound on the writes of the sidecar
    MaxFaults    \* bound on the failures, crashes included

VARIABLES
    side, comp, orig,   \* the sidecar, its owned companion, its .orig
    row,                \* the work_queue row
    scan,               \* scan_results.status, "none" when no result names the file
    cached,             \* lyrics_cache holds a lyric of the track
    backup,             \* the writes recorded in the backup
    pg,                 \* the purge process
    wk,                 \* the worker's fetched lyric: NoFile when it has none
    n, runs, faults,    \* counters
    raced               \* serve or the user wrote since the purge looked

fvars == <<side, comp, orig>>
dvars == <<row, scan, cached>>
vars == <<side, comp, orig, row, scan, cached, backup, pg, wk, n, runs, faults, raced>>

NoFile == [n |-> 0, src |-> "", text |-> 0, gen |-> FALSE]
Files == [n : 0..MaxWrites, src : Sources \cup {""}, text : 0..MaxWrites, gen : BOOLEAN]
NoPurge == [pc |-> "idle", generated |-> FALSE, tag |-> "", linked |-> FALSE,
            file |-> NoFile, comp |-> NoFile, orig |-> NoFile]
Steps == {"idle", "indexed", "chosen", "matched", "reported", "reset", "looked", "unpaired", "looking",
          "judged", "recorded", "unmarked", "alone", "installed", "consuming"}
Statuses == {"none", "deferred", "processing", "done"}

TypeOK ==
    /\ side \in Files /\ comp \in Files /\ orig \in Files /\ wk \in Files
    /\ row \in [st : Statuses, lane : Sources \cup {""}, manual : BOOLEAN, edited : BOOLEAN]
    /\ scan \in {"none", "pending", "done"} /\ cached \in BOOLEAN
    /\ backup \subseteq 1..MaxWrites
    /\ pg.pc \in Steps /\ pg.file \in Files /\ pg.comp \in Files /\ pg.orig \in Files
    /\ n \in 0..MaxWrites /\ runs \in 0..MaxRuns /\ faults \in 0..MaxFaults /\ raced \in BOOLEAN

(* Either a provider's lyric with its companion, or a retiming of the      *)
(* .orig the editor saved.                                                 *)
Init ==
    /\ \E s \in Sources :
        \/ /\ side = [n |-> 1, src |-> s, text |-> 1, gen |-> FALSE] /\ n = 2
           /\ comp \in {NoFile, [n |-> 2, src |-> s, text |-> 1, gen |-> FALSE]}
           /\ orig = NoFile
        \/ /\ side = [n |-> 2, src |-> s, text |-> 1, gen |-> TRUE] /\ n = 3
           /\ comp \in {NoFile, [n |-> 3, src |-> s, text |-> 1, gen |-> TRUE]}
           /\ orig = [n |-> 1, src |-> s, text |-> 1, gen |-> FALSE]
    /\ row \in {[st |-> "none", lane |-> "", manual |-> FALSE, edited |-> FALSE],
                [st |-> "done", lane |-> side.src, manual |-> FALSE, edited |-> side.gen]}
    /\ scan \in {"none", "done"} /\ (row.st = "done" => scan = "done")
    /\ cached \in BOOLEAN
    /\ backup = {} /\ pg = NoPurge /\ wk = NoFile /\ runs = 0 /\ faults = 0 /\ raced = FALSE

May(f) == f \in Faults /\ faults < MaxFaults
At(pc) == pg.pc = pc
Goto(pc) == pg' = [pg EXCEPT !.pc = pc]
Stop == pg' = NoPurge
Failed == Stop /\ faults' = faults + 1 /\ UNCHANGED <<fvars, dvars, backup, wk, n, runs, raced>>

-----------------------------------------------------------------------------
(* The walk reaches the sidecar. *)

(* provenanceAgrees: an empty tag or lane agrees with everything. *)
provenanceAgrees(tag, lane) == tag = "" \/ lane = "" \/ tag = lane

selects(f) == IF pg.generated THEN f.gen ELSE f.src = pg.tag

(* buildIndex, once per run: whether a scan result names the file, and the *)
(* row it links, as they were before the walk.                             *)
Start(generated, tag) ==
    /\ At("idle") /\ runs < MaxRuns
    /\ runs' = runs + 1 /\ raced' = FALSE
    /\ pg' = [NoPurge EXCEPT !.pc = "indexed", !.generated = generated, !.tag = tag,
                             !.linked = scan # "none"]
    /\ UNCHANGED <<fvars, dvars, backup, wk, n, faults>>

(* The stale row of the index: marked, credited to another provider, or in *)
(* flight, the file is left alone.  The verdict is reached from the row as *)
(* it is when the index is read; the file is read later.                   *)
Spared(tag) ==
    \/ row.manual /\ ~pg.generated
    \/ row.st # "none" /\ ~pg.generated /\ ~provenanceAgrees(tag, row.lane)
    \/ row.st = "processing"

Index ==
    /\ At("indexed")
    /\ IF pg.linked /\ Spared(pg.tag) THEN Stop ELSE Goto("chosen")
    /\ UNCHANGED <<fvars, dvars, backup, wk, n, runs, faults, raced>>

Match ==
    /\ At("chosen")
    /\ \/ /\ side.n # 0 /\ selects(side)
          /\ pg' = [pg EXCEPT !.pc = "matched", !.file = side, !.comp = comp, !.orig = orig]
       \/ (side.n = 0 \/ ~selects(side)) /\ Stop
    /\ raced' = FALSE
    /\ UNCHANGED <<fvars, dvars, backup, wk, n, runs, faults>>

-----------------------------------------------------------------------------
(* Deleting.  Report appends the bytes it reads now, syncs, and only then  *)
(* is anything touched.                                                    *)

RecordedAsMatched == backup \cup ({pg.file.n, pg.comp.n} \ {0})
Recorded == backup \cup ({side.n, IF pg.comp.n = 0 THEN 0 ELSE comp.n} \ {0})

Report ==
    /\ At("matched") /\ ~pg.generated
    /\ side.n # 0 /\ (pg.comp.n # 0 => comp.n # 0)
    /\ backup' = Recorded
    /\ Goto("reported") /\ raced' = FALSE
    /\ UNCHANGED <<fvars, dvars, wk, n, runs, faults>>

(* A failed record, or one whose file has gone meanwhile, leaves the pair. *)
ReportFails == At("matched") /\ ~pg.generated /\ May("report") /\ Failed
ReportMisses ==
    /\ At("matched") /\ ~pg.generated
    /\ side.n = 0 \/ (pg.comp.n # 0 /\ comp.n = 0)
    /\ Stop /\ UNCHANGED <<fvars, dvars, backup, wk, n, runs, faults, raced>>

(* resetRowsOnce, one transaction: refused when the row is marked or       *)
(* credited elsewhere by now; an in-flight row is left to its worker.      *)
RequeuedCounted == [row EXCEPT !.st = "pending"]
Requeued == IF row.st \in {"deferred", "done"} THEN [row EXCEPT !.st = "deferred"] ELSE row
Refused == row.st # "none" /\ (row.manual \/ ~provenanceAgrees(pg.tag, row.lane))

resetRowsKeepingCache ==
    /\ At("reported") /\ pg.linked /\ ~Refused
    /\ row' = Requeued
    /\ scan' = "pending"
    /\ Goto("reset")
    /\ UNCHANGED <<cached, fvars, backup, wk, n, runs, faults, raced>>

resetRows ==
    /\ At("reported") /\ pg.linked /\ ~Refused
    /\ row' = Requeued
    /\ scan' = "pending"
    /\ cached' = FALSE
    /\ Goto("reset")
    /\ UNCHANGED <<fvars, backup, wk, n, runs, faults, raced>>

ResetRefused ==
    /\ At("reported") /\ pg.linked /\ Refused
    /\ Stop /\ UNCHANGED <<fvars, dvars, backup, wk, n, runs, faults, raced>>

ResetFails == At("reported") /\ pg.linked /\ May("db") /\ Failed

(* No scan result names the file: nothing to requeue or to forget. *)
Unlinked ==
    /\ At("reported") /\ ~pg.linked
    /\ Goto("reset") /\ UNCHANGED <<fvars, dvars, backup, wk, n, runs, faults, raced>>

(* stillUnmarked, before each unlink: the companion's, then the sidecar's. *)
NotMarked == FALSE
Marked == pg.linked /\ row.manual
LookTo(pc) == IF Marked THEN Stop ELSE Goto(pc)
Look ==
    /\ \/ At("reset") /\ pg.comp.n # 0 /\ LookTo("looked")
       \/ (At("unpaired") \/ (At("reset") /\ pg.comp.n = 0)) /\ LookTo("looking")
    /\ UNCHANGED <<fvars, dvars, backup, wk, n, runs, faults, raced>>

LeaveCompanion ==
    /\ At("looked")
    /\ Goto("unpaired") /\ UNCHANGED <<fvars, dvars, backup, wk, n, runs, faults, raced>>

RemoveCompanion ==
    /\ At("looked")
    /\ comp' = NoFile
    /\ Goto("unpaired") /\ UNCHANGED <<side, orig, dvars, backup, wk, n, runs, faults, raced>>

RemoveSidecar ==
    /\ At("looking")
    /\ side' = NoFile
    /\ Stop /\ UNCHANGED <<comp, orig, dvars, backup, wk, n, runs, faults, raced>>

RemoveFails == (At("looked") \/ At("looking") \/ At("alone") \/ At("consuming")) /\ May("remove") /\ Failed

-----------------------------------------------------------------------------
(* restoreGenerated: put the .orig back. *)

(* The .orig is read once; what is installed is what was judged. *)
Judge ==
    /\ At("matched") /\ pg.generated
    /\ IF /\ orig.n # 0 /\ side.n # 0 /\ orig.text = side.text
          /\ pg.linked \/ row.st # "processing"
          THEN pg' = [pg EXCEPT !.pc = "judged", !.orig = orig] ELSE Stop
    /\ UNCHANGED <<fvars, dvars, backup, wk, n, runs, faults, raced>>

(* A companion the aligner did not write stays, and keeps the row's tier. *)
OwnCompanion == pg.comp.n # 0 /\ pg.comp.gen

ReportGenerated ==
    /\ At("judged")
    /\ \/ backup' = backup \cup ({side.n, IF OwnCompanion THEN comp.n ELSE 0} \ {0})
          /\ Goto("recorded") /\ faults' = faults
       \/ May("report") /\ Stop /\ faults' = faults + 1 /\ UNCHANGED backup
    /\ UNCHANGED <<fvars, dvars, wk, n, runs, raced>>

clearNoMarks ==
    /\ At("recorded") /\ Goto("unmarked")
    /\ UNCHANGED <<fvars, dvars, backup, wk, n, runs, faults, raced>>

(* clearEditMarks: refused as a whole when a worker claimed the row. *)
clearEditMarks ==
    /\ At("recorded")
    /\ \/ row.st = "processing" /\ Stop /\ UNCHANGED <<row, faults>>
       \/ row.st # "processing" /\ Goto("unmarked")
          /\ row' = [row EXCEPT !.edited = FALSE] /\ faults' = faults
       \/ May("db") /\ Stop /\ faults' = faults + 1 /\ UNCHANGED row
    /\ UNCHANGED <<fvars, scan, cached, backup, wk, n, runs, raced>>

RemoveGenerated ==
    /\ \/ At("unmarked") /\ OwnCompanion /\ comp' = NoFile /\ Goto("alone")
       \/ At("unmarked") /\ ~OwnCompanion /\ comp' = comp /\ Goto("alone")
    /\ UNCHANGED <<side, orig, dvars, backup, wk, n, runs, faults, raced>>

(* installFile: a temp file renamed over the sidecar. *)
installFile ==
    /\ At("alone") /\ side' = pg.orig
    /\ Goto("installed") /\ UNCHANGED <<comp, orig, dvars, backup, wk, n, runs, faults, raced>>

(* The .orig goes only if it is still the file that was read, and goes by  *)
(* its path: what is there by then is removed.                             *)
sameName == orig.n # 0
sameEntry == orig.n = pg.orig.n
LookAtOriginal ==
    /\ At("installed")
    /\ IF sameEntry THEN Goto("consuming") ELSE Stop
    /\ UNCHANGED <<fvars, dvars, backup, wk, n, runs, faults, raced>>
Consume ==
    /\ At("consuming")
    /\ orig' = NoFile
    /\ Stop /\ UNCHANGED <<side, comp, dvars, backup, wk, n, runs, faults, raced>>

-----------------------------------------------------------------------------
(* Serve, the operator and the user beside the command. *)

(* EnqueuePending asks the cache first: a hit settles the result, no row.  *)
Enqueue ==
    /\ scan = "pending" /\ row.st = "none"
    /\ scan' = IF cached THEN "done" ELSE scan
    /\ row' = IF cached THEN row ELSE [row EXCEPT !.st = "deferred"]
    /\ UNCHANGED <<fvars, cached, backup, pg, wk, n, runs, faults, raced>>

(* An earlier deferral of the row, a webhook or an upgrade puts it back. *)
Requeue ==
    /\ row.st = "done" /\ ~row.manual /\ ~row.edited /\ n < MaxWrites
    /\ row' = [row EXCEPT !.st = "deferred"]
    /\ UNCHANGED <<fvars, scan, cached, backup, pg, wk, n, runs, faults, raced>>

Claim ==
    /\ row.st = "deferred" /\ wk = NoFile
    /\ row' = [row EXCEPT !.st = "processing"]
    /\ UNCHANGED <<fvars, scan, cached, backup, pg, wk, n, runs, faults, raced>>

Write(s) ==
    /\ row.st = "processing" /\ wk = NoFile /\ n < MaxWrites
    /\ n' = n + 1
    /\ wk' = [n |-> n + 1, src |-> s, text |-> n + 1, gen |-> FALSE]
    /\ side' = wk' /\ comp' = NoFile /\ cached' = TRUE /\ raced' = TRUE
    /\ UNCHANGED <<orig, row, scan, backup, pg, runs, faults>>

Complete ==
    /\ row.st = "processing" /\ wk # NoFile
    /\ row' = [row EXCEPT !.st = "done", !.lane = wk.src]
    /\ scan' = "done" /\ wk' = NoFile
    /\ UNCHANGED <<fvars, cached, backup, pg, n, runs, faults, raced>>

(* The manual mark settles the row and takes the lyric off the disk (see   *)
(* ManualMark), or writes its marker over a .txt.  raced only when no      *)
(* later look can see it.                                                  *)
Mark ==
    /\ row.st \in {"deferred", "done"} /\ ~row.manual
    /\ row' = [row EXCEPT !.st = "done", !.manual = TRUE, !.edited = FALSE]
    /\ \/ side' = NoFile /\ n' = n
       \/ /\ orig.n = 0 /\ comp.n = 0 /\ n < MaxWrites
          /\ n' = n + 1 /\ side' = [NoFile EXCEPT !.n = n + 1]
    /\ comp' = NoFile
    /\ raced' = (raced \/ pg.pc \in {"looked", "looking"})
    /\ UNCHANGED <<orig, scan, cached, backup, pg, wk, runs, faults>>

(* The user saves another .orig; after the last look nothing sees it.      *)
Swap ==
    /\ orig.n # 0 /\ n < MaxWrites
    /\ n' = n + 1 /\ orig' = [orig EXCEPT !.n = n + 1]
    /\ raced' = (raced \/ At("consuming"))
    /\ UNCHANGED <<side, comp, dvars, backup, pg, wk, runs, faults>>

Crash ==
    /\ pg.pc # "idle" /\ May("crash")
    /\ pg' = NoPurge /\ faults' = faults + 1
    /\ UNCHANGED <<fvars, dvars, backup, wk, n, runs, raced>>

Purger ==
    \/ Index \/ Match \/ Report \/ ReportFails \/ ReportMisses \/ resetRows \/ ResetRefused
    \/ ResetFails \/ Unlinked \/ Look \/ RemoveCompanion \/ RemoveSidecar \/ RemoveFails
    \/ Judge \/ ReportGenerated \/ clearEditMarks \/ RemoveGenerated \/ installFile
    \/ LookAtOriginal \/ Consume

Serving == Enqueue \/ Claim \/ Complete \/ (\E s \in Sources : Write(s))

Next ==
    \/ Purger \/ Serving \/ Requeue \/ Mark \/ Swap \/ Crash
    \/ \E tag \in Sources \cup {""} : Start(FALSE, tag)
    \/ Start(TRUE, "")

Spec == Init /\ [][Next]_vars

(* Serve keeps its enqueuer and its worker running. *)
Fairness == WF_vars(Enqueue) /\ WF_vars(Claim) /\ WF_vars(Complete)
            /\ WF_vars(\E s \in Sources : Write(s)) /\ WF_vars(Purger)
LiveSpec == Spec /\ Fairness

-----------------------------------------------------------------------------
(* Deletes is a step of the purge that takes the sidecar away. *)
Deletes == At("looking") /\ side.n # 0 /\ side'.n = 0 /\ pg'.pc = "idle"

(* "Every file a run replaces or deletes is written ... before it is       *)
(* touched": whatever the purge takes away or replaces is in the backup,   *)
(* also when steps fail and the files change before the report, unless a   *)
(* worker wrote it after the report (processSidecar, restoreGenerated); of *)
(* a marked row's file MarkedIsSpared speaks.                              *)
ReplacedIsRecorded ==
       Deletes \/ (At("alone") /\ side.n # 0 /\ side'.n # side.n)
         => side.n \in backup \/ raced \/ row.manual

(* A mark set before the purge's last look keeps the file and the row: the *)
(* purge neither unlinks the sidecar of a marked row nor requeues it.      *)
MarkedIsSpared ==
       /\ Deletes /\ pg.linked => ~row.manual \/ raced
       /\ row.manual => row'.st = row.st

(* The pair goes as one: an unraced purge never leaves a companion whose   *)
(* sidecar it deleted.                                                     *)
PairNotSplit == Deletes /\ ~raced => comp.n = 0

(* A restored file never keeps its edit mark, whatever fails and wherever  *)
(* the process dies: no selector would ever find that row again.           *)
RestoredIsUnmarked == side.n = 1 => ~row.edited

(* The .orig goes only while the sidecar holds its bytes, also when the    *)
(* user swaps it during the restore; the mark's own backup aside.  Not so  *)
(* after a write of the worker since the purge read the files, nor after a *)
(* swap between the last look and the removal (lines 662 and 665): that    *)
(* removes the user's file.                                                *)
OriginalSurvives ==
    orig.n # 0 /\ orig'.n = 0 => side.n = orig.n \/ raced \/ row.manual

(* "wasted work, never loss": a purged track that serve knows of is        *)
(* fetched again; it never stays without a lyric because a settled row or  *)
(* the cache claims it has one.                                            *)
Fetched == side.n # 0 \/ row.manual \/ n = MaxWrites
PurgedIsRefetched == (side.n = 0 /\ scan = "pending") ~> Fetched

(* The same of a track no worker has in flight: whatever fails, a requeued *)
(* track is fetched again and no cached lyric settles it.                  *)
Awaited == side.n = 0 /\ scan = "pending" /\ row.st # "processing"
RequeuedIsRefetched == Awaited ~> Fetched
=============================================================================
