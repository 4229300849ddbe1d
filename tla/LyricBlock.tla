----------------------------- MODULE LyricBlock -----------------------------
(***************************************************************************)
(* Marking a track's lyrics wrong (internal/lyricblock): the operator's    *)
(* Mark and Unblock against the worker, over the rows (editions) that      *)
(* share one track identity.  A block is keyed by the identity, a file by  *)
(* the row.                                                                *)
(*                                                                         *)
(* Mark is two transactions with file work around them.  The worker reads  *)
(* the blocks twice: when the lanes answer and again just before it        *)
(* writes.  A row is what the two of them read and write of it; the rest   *)
(* of the queue is module WorkQueue.                                       *)
(***************************************************************************)
EXTENDS Integers

CONSTANTS
    Rows,       \* work_queue rows of the identity, one per edition
    Bodies,     \* lyric bodies a lane may serve, by fingerprint
    NoBody,     \* no lyric file
    NoRow,
    CanUnblock  \* the operator may also unblock

ASSUME NoBodyAssumption == NoBody \notin Bodies
ASSUME NoRowAssumption == NoRow \notin Rows
ASSUME CanUnblockAssumption == CanUnblock \in BOOLEAN

VARIABLES
    row,     \* status, the file record (outcome_type) and upgrade_queued
    disk,    \* the lyric file of each row
    blocks,  \* lyric_blocks: the fingerprints blocked for the identity
    saved,   \* backup records written: row and bytes
    mark,    \* Mark at work on one row
    wk       \* the worker's pass over one row

vars == <<row, disk, blocks, saved, mark, wk>>

Status == {"absent", "pending", "processing", "failed", "done"}
Record == {"null", "file", "blocked"}
Files == Bodies \cup {NoBody}
MarkPhases == {"idle", "loaded", "read", "blocked", "extra", "remove", "compared", "removed"}
WorkPhases == {"idle", "claimed", "fetched", "checked", "landed", "kept", "allblocked"}

Work == [status : Status, out : Record, upg : BOOLEAN]
MarkState == [r : Rows \cup {NoRow}, ph : MarkPhases, redo : BOOLEAN, rec : Files,
              late : BOOLEAN]
PassState == [r : Rows \cup {NoRow}, ph : WorkPhases, body : Files]

NoWork == [status |-> "absent", out |-> "null", upg |-> FALSE]
NoMark == [r |-> NoRow, ph |-> "idle", redo |-> FALSE, rec |-> NoBody, late |-> FALSE]
NoPass == [r |-> NoRow, ph |-> "idle", body |-> NoBody]

TypeOK ==
    /\ row \in [Rows -> Work]
    /\ disk \in [Rows -> Files]
    /\ blocks \subseteq Bodies
    /\ saved \subseteq Rows \X Bodies
    /\ mark \in MarkState
    /\ wk \in PassState
    \* who is at work is at work on a row, the worker's row is claimed, and
    \* what Mark is about to block or unlink is a lyric it has read
    /\ mark.ph # "idle" => mark.r \in Rows
    /\ mark.ph \in {"read", "blocked", "extra", "compared"} => mark.rec \in Bodies
    /\ wk.ph # "idle" => wk.r \in Rows /\ row[wk.r].status = "processing"

Init ==
    /\ row = [r \in Rows |-> NoWork]
    /\ disk = [r \in Rows |-> NoBody]
    /\ blocks = {}
    /\ saved = {}
    /\ mark = NoMark
    /\ wk = NoPass

Set(r, w) == row' = [row EXCEPT ![r] = w]

-----------------------------------------------------------------------------
(* The queue around the two: rows come, go, and are sent on upgrade trips. *)

Enqueue(r) ==
    /\ row[r].status = "absent"
    /\ Set(r, [NoWork EXCEPT !.status = "pending"])
    /\ UNCHANGED <<disk, blocks, saved, mark, wk>>

Cleanup(r) ==
    /\ row[r].status \in {"pending", "failed"} /\ ~row[r].upg
    /\ Set(r, NoWork)
    /\ UNCHANGED <<disk, blocks, saved, mark, wk>>

MarkUpgradeQueued(r) ==
    /\ row[r].status = "done" /\ row[r].out = "file"
    /\ Set(r, [row[r] EXCEPT !.status = "pending", !.upg = TRUE])
    /\ UNCHANGED <<disk, blocks, saved, mark, wk>>

-----------------------------------------------------------------------------
(* The worker's pass. *)

Claim(r) ==
    /\ wk = NoPass
    /\ row[r].status \in {"pending", "failed"}
    /\ Set(r, [row[r] EXCEPT !.status = "processing"])
    /\ wk' = [NoPass EXCEPT !.r = r, !.ph = "claimed"]
    /\ UNCHANGED <<disk, blocks, saved, mark>>

Step(ph, body) == /\ wk' = [wk EXCEPT !.ph = ph, !.body = body]
                  /\ UNCHANGED <<row, disk, blocks, saved, mark>>

(* The pass ends and the row becomes w. *)
Settle(w) == /\ Set(wk.r, w)
             /\ wk' = NoPass
             /\ UNCHANGED <<disk, blocks, saved, mark>>

(* The lanes answer with some bodies; blocked ones are not candidates. *)
Dispatch(offered) ==
    /\ wk.ph = "claimed"
    /\ \/ \E b \in offered \ blocks : Step("fetched", b)
       \/ offered # {} /\ offered \subseteq blocks /\ Step("allblocked", NoBody)

(* A miss, a failure, a release.  An upgrade trip settles onto its record. *)
EndEmpty ==
    /\ wk.ph = "claimed"
    /\ \/ \E st \in {"pending", "failed"} : Settle([row[wk.r] EXCEPT !.status = st])
       \/ row[wk.r].upg /\ Settle([row[wk.r] EXCEPT !.status = "done", !.upg = FALSE])

(* WriteLRC: the block backstop, then the no-downgrade guard, then the file. *)
Backstop ==
    /\ wk.ph = "fetched"
    /\ IF wk.body \in blocks THEN Step("allblocked", NoBody) ELSE Step("checked", wk.body)

Land ==
    /\ wk.ph = "checked"
    /\ disk' = [disk EXCEPT ![wk.r] = wk.body]
    /\ mark' = [mark EXCEPT !.late = @ \/ (mark.ph = "compared" /\ mark.r = wk.r)]
    /\ wk' = [wk EXCEPT !.ph = "landed"]
    /\ UNCHANGED <<row, blocks, saved>>

Keep ==
    /\ wk.ph = "checked"
    /\ disk[wk.r] # NoBody
    /\ Step("kept", NoBody)

Complete ==
    /\ wk.ph \in {"landed", "kept"}
    /\ \/ Settle([status |-> "done", out |-> "file", upg |-> FALSE])
       \/ Settle([row[wk.r] EXCEPT !.status = "failed"])

(* Mutant: the settle does not look whether the block is still there. *)
settleBlockedBlind ==
    /\ wk.ph = "allblocked"
    /\ IF row[wk.r].upg THEN Settle([row[wk.r] EXCEPT !.status = "done", !.upg = FALSE])
       ELSE Settle([row[wk.r] EXCEPT !.status = "done", !.out = "blocked"])

(* Every result is blocked.  SettleBlocked holds only while some block of    *)
(* the identity is left; otherwise the row is released.                      *)
settleBlocked ==
    /\ wk.ph = "allblocked"
    /\ IF row[wk.r].upg THEN Settle([row[wk.r] EXCEPT !.status = "done", !.upg = FALSE])
       ELSE IF blocks # {} THEN Settle([row[wk.r] EXCEPT !.status = "done", !.out = "blocked"])
       ELSE Settle([row[wk.r] EXCEPT !.status = "pending"])

WorkerStep ==
    \/ \E r \in Rows : Claim(r)
    \/ \E offered \in SUBSET Bodies : Dispatch(offered)
    \/ EndEmpty
    \/ Backstop
    \/ Land
    \/ Keep
    \/ Complete
    \/ settleBlocked

-----------------------------------------------------------------------------
(* Mark. *)

Marking(m) == mark' = m /\ UNCHANGED wk
Abandon == Marking(NoMark) /\ UNCHANGED <<row, disk, blocks, saved>>

(* The guard of both transactions. *)
Guarded(r) == row[r].status \notin {"absent", "processing"}

(* Read the row and judge it.  redo says that, should there be no file, the  *)
(* row itself shows an interrupted mark.                                     *)
load(r) ==
    /\ mark = NoMark
    /\ row[r].status \in {"pending", "done"}
    /\ Marking([NoMark EXCEPT !.r = r, !.ph = "loaded",
                  !.redo = row[r].status = "done" /\ row[r].out = "file"])
    /\ UNCHANGED <<row, disk, blocks, saved>>

(* Inventory the files and report them to the backup.  With none, only an    *)
(* interrupted mark is finished.                                             *)
backup ==
    /\ mark.ph = "loaded"
    /\ UNCHANGED <<row, disk, blocks>>
    /\ IF disk[mark.r] = NoBody
       THEN /\ Marking(IF mark.redo /\ blocks # {} THEN [mark EXCEPT !.ph = "removed"]
                       ELSE NoMark)
            /\ UNCHANGED saved
       ELSE /\ Marking([mark EXCEPT !.ph = "read", !.rec = disk[mark.r]])
            /\ saved' = saved \cup {<<mark.r, disk[mark.r]>>}

(* Mutant: the first transaction commits without the block. *)
blockMissing ==
    /\ mark.ph = "read"
    /\ IF Guarded(mark.r)
       THEN /\ Marking([mark EXCEPT !.ph = "blocked"])
            /\ UNCHANGED <<row, disk, blocks, saved>>
       ELSE Abandon

(* Transaction 1: the blocks, guarded by the row's status. *)
block ==
    /\ mark.ph = "read"
    /\ IF Guarded(mark.r)
       THEN /\ blocks' = blocks \cup {mark.rec}
            /\ Marking([mark EXCEPT !.ph = "blocked"])
            /\ UNCHANGED <<row, disk, saved>>
       ELSE Abandon

(* Mutant: the file found late is removed without a backup. *)
rereadUnsaved ==
    /\ mark.ph = "blocked"
    /\ LET d == disk[mark.r] IN
       /\ Marking([mark EXCEPT !.rec = d, !.ph = IF d \in {NoBody, mark.rec}
                                                 THEN "remove" ELSE "extra"])
       /\ UNCHANGED saved
    /\ UNCHANGED <<row, disk, blocks>>

(* Read and report every file again: the row may have been claimed since. *)
reread ==
    /\ mark.ph = "blocked"
    /\ LET d == disk[mark.r] IN
       /\ Marking([mark EXCEPT !.rec = d, !.ph = IF d \in {NoBody, mark.rec}
                                                 THEN "remove" ELSE "extra"])
       /\ saved' = IF d = NoBody THEN saved ELSE saved \cup {<<mark.r, d>>}
    /\ UNCHANGED <<row, disk, blocks>>

(* What is new is blocked too, in a transaction of its own with no guard. *)
blockExtra ==
    /\ mark.ph = "extra"
    /\ blocks' = blocks \cup {mark.rec}
    /\ Marking([mark EXCEPT !.ph = "remove"])
    /\ UNCHANGED <<row, disk, saved>>

(* RemoveFiles: compare, then unlink.  A file that changed is kept. *)
compare ==
    /\ mark.ph = "remove"
    /\ CASE disk[mark.r] = NoBody \/ mark.rec = NoBody ->
               /\ Marking([mark EXCEPT !.ph = "removed"])
               /\ UNCHANGED <<row, disk, blocks, saved>>
         [] disk[mark.r] # NoBody /\ disk[mark.r] = mark.rec ->
               /\ Marking([mark EXCEPT !.ph = "compared"])
               /\ UNCHANGED <<row, disk, blocks, saved>>
         [] OTHER -> Abandon

unlink ==
    /\ mark.ph = "compared"
    /\ disk' = [disk EXCEPT ![mark.r] = NoBody]
    /\ Marking([mark EXCEPT !.ph = "removed"])
    /\ UNCHANGED <<row, blocks, saved>>

(* Mutant: the reopen takes the row back from the worker that claimed it. *)
reopenHeld ==
    /\ mark.ph = "removed"
    /\ Marking(NoMark)
    /\ IF row[mark.r].status # "absent"
       THEN Set(mark.r, [status |-> "pending", out |-> "null", upg |-> FALSE])
       ELSE UNCHANGED row
    /\ UNCHANGED <<disk, blocks, saved>>

(* Transaction 2: reopen a settled row and drop its record of the file. *)
reopen ==
    /\ mark.ph = "removed"
    /\ Marking(NoMark)
    /\ IF Guarded(mark.r)
       THEN Set(mark.r, [status |-> IF row[mark.r].status = "done" THEN "pending"
                                    ELSE row[mark.r].status,
                         out |-> "null", upg |-> FALSE])
       ELSE UNCHANGED row
    /\ UNCHANGED <<disk, blocks, saved>>

(* An error, or the death of the process, between two steps. *)
interrupted == mark.ph # "idle" /\ Abandon

MarkStep ==
    \/ \E r \in Rows : load(r)
    \/ backup
    \/ block
    \/ reread
    \/ blockExtra
    \/ compare
    \/ unlink
    \/ reopen
    \/ interrupted

-----------------------------------------------------------------------------
(* Unblock: delete the named blocks and reopen what settled as blocked. *)
Reopened(w) == IF w.status = "done" /\ w.out = "blocked"
               THEN [w EXCEPT !.status = "pending", !.out = "null"] ELSE w

Unblock(B) ==
    /\ CanUnblock
    /\ B \subseteq blocks
    /\ blocks' = blocks \ B
    /\ row' = [r \in Rows |-> Reopened(row[r])]
    /\ UNCHANGED <<disk, saved, mark, wk>>

(* Blocks of an identity that has no row. *)
DeleteOrphans ==
    /\ CanUnblock
    /\ blocks # {}
    /\ \A r \in Rows : row[r].status = "absent"
    /\ blocks' = {}
    /\ UNCHANGED <<row, disk, saved, mark, wk>>

Next ==
    \/ \E r \in Rows : Enqueue(r) \/ Cleanup(r) \/ MarkUpgradeQueued(r)
    \/ WorkerStep
    \/ MarkStep
    \/ \E b \in blocks : Unblock({b})
    \/ Unblock(blocks)
    \/ DeleteOrphans

Spec == Init /\ [][Next]_vars

-----------------------------------------------------------------------------
(* Properties *)

(* A row settled as blocked has a block that an unblock can clear: nothing   *)
(* else ever brings such a row back ("settling now would strand a blocked    *)
(* row that no later unblock could reopen").                                 *)
BlockedRowHasBlock ==
    \A r \in Rows : row[r].status = "done" /\ row[r].out = "blocked" => blocks # {}

(* Mark removes no lyric whose bytes are not in the backup, except one that  *)
(* landed between the comparison and the unlink, which POSIX cannot rule out.*)
RemovesOnlyBackedUp ==
    [][\A r \in Rows : disk[r] # NoBody /\ disk'[r] = NoBody
          => <<r, disk[r]>> \in saved \/ mark.late]_vars

(* "Calling Mark again completes": a settled row that records a file it no   *)
(* longer has is one that a retried mark reopens.                            *)
RetryCompletes ==
    \A r \in Rows :
        row[r].status = "done" /\ row[r].out = "file" /\ disk[r] = NoBody /\ mark.r # r
            => blocks # {}

=============================================================================
