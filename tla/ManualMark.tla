----------------------------- MODULE ManualMark -----------------------------
(***************************************************************************)
(* Marking a track instrumental by hand, and taking the mark back          *)
(* (internal/instrumentalmark, internal/queue/manual_instrumental.go),     *)
(* against the row's own worker, another writer of the same files and the  *)
(* death of the process.  Mark and Unmark of one row share a lock within a *)
(* process, so there is one marker; a second process is not modelled (the  *)
(* comments of Unmark admit its window).                                   *)
(***************************************************************************)
EXTENDS Sidecars

CONSTANTS MaxCalls,   \* bound on the calls of Mark and Unmark
          Given       \* the songs a worker or another writer may bring

VARIABLES
    row,     \* the work item: its status and its manual mark
    mk,      \* the call of Mark or Unmark under way
    saved,   \* the backup file: path and content
    pass,    \* the worker has claimed the row and not let go of it
    calls    \* calls so far

mvars == <<disk, wr, n, row, mk, saved, pass, calls>>

Paths == Outs \X {"lrc", "txt", "elrc"}
At(p) == disk[p[1]][p[2]]
None == [op |-> "none", ph |-> "idle", marked |-> FALSE, todo |-> {}, reported |-> {}, left |-> {},
         changed |-> FALSE, first |-> {}, second |-> {}]

TypeOK ==
    /\ WritersTypeOK
    /\ row \in [st : {"ready", "processing", "done"}, marked : BOOLEAN]
    /\ row.marked => row.st = "done"
    /\ mk.op \in {"none", "mark", "unmark"}
    /\ mk.todo \subseteq Paths /\ mk.reported \subseteq Paths /\ mk.left \subseteq Outs
    /\ \A b \in saved : b[1] \in Paths

Init ==
    /\ WritersInit
    /\ row \in [st : {"ready", "done"}, marked : {FALSE}]
    /\ mk = None
    /\ saved = {}
    /\ pass = FALSE
    /\ calls = 0

-----------------------------------------------------------------------------
(* Mark and Unmark                                                           *)

others == <<disk, wr, n>>
Goto(ph) == mk' = [mk EXCEPT !.ph = ph]
Give == mk' = None
Faulty(f) == f \in Faults

(* Mutant: the word-synced companions are not looked for. *)
inventoryBare(withMarkers) ==
    {p \in Paths : /\ p[2] # "elrc" /\ At(p).k # "none"
                   /\ withMarkers \/ At(p).k # "manual"}

(* inventory: the lyric files of every output, an .elrc only if it is ours. *)
inventory(withMarkers) ==
    {p \in Paths : /\ At(p).k \notin {"none", "foreign"}
                   /\ withMarkers \/ At(p).k # "manual"}
Seen(ps) == {<<p, At(p)>> : p \in ps}
(* For the properties: every lyric on disk that is ours to lose. *)
Lyrics == {p \in Paths : At(p).k \notin {"none", "foreign", "manual"}}
AllMarked == \A o \in Outs : disk[o].txt.k = "manual"

Load(op) ==
    /\ mk.op = "none" /\ calls < MaxCalls
    /\ row.st # "processing"
    /\ op = "unmark" => row.marked
    /\ mk' = [None EXCEPT !.op = op, !.ph = "loaded", !.marked = row.marked]
    /\ calls' = calls + 1
    /\ UNCHANGED <<others, row, saved, pass>>

Inventory ==
    /\ mk.ph = "loaded"
    /\ LET files == inventory(mk.op = "unmark")
       IN IF mk.op = "mark" /\ mk.marked /\ AllMarked /\ files = {}
            THEN Give
            ELSE mk' = [mk EXCEPT !.ph = "backup", !.todo = files, !.first = Seen(Lyrics)]
    /\ UNCHANGED <<others, row, saved, pass, calls>>

(* One record, durable before anything changes; a file gone or unreadable ends the call. *)
backup ==
    /\ mk.ph \in {"backup", "late"}
    /\ \E p \in mk.todo :
         \/ /\ Faulty("backup") \/ At(p).k = "none"
            /\ Give /\ UNCHANGED saved
         \/ /\ At(p).k # "none"
            /\ saved' = saved \cup {<<p, At(p)>>}
            /\ mk' = [mk EXCEPT !.todo = @ \ {p}, !.reported = @ \cup {p}]
    /\ UNCHANGED <<others, row, pass, calls>>

(* Mutant: the status read at the start of the call is trusted. *)
MarkableAny == TRUE

(* MarkManualInstrumentalTx: the row must not be in flight when the transaction runs. *)
Markable == row.st # "processing"

settle ==
    /\ mk.op = "mark" /\ mk.ph = "backup" /\ mk.todo = {}
    /\ \/ (~Markable \/ Faulty("db")) /\ Give /\ UNCHANGED row
       \/ /\ Markable
          /\ row' = [st |-> "done", marked |-> TRUE]
          /\ mk' = [mk EXCEPT !.ph = "settled", !.changed = ~row.marked]
    /\ UNCHANGED <<others, saved, pass, calls>>

(* backup skips a path that this call has already reported. *)
Unreported(files) == files \ mk.reported

LateInventory ==
    /\ mk.op = "mark" /\ mk.ph = "settled"
    /\ LET late == inventory(FALSE)
       IN mk' = [mk EXCEPT !.ph = "late", !.todo = Unreported(late), !.second = Seen(Lyrics),
                           !.left = Outs]
    /\ UNCHANGED <<others, row, saved, pass, calls>>

stillMarked == row.marked

WriteMarker ==
    /\ mk.op = "mark" /\ mk.ph = "late" /\ mk.todo = {} /\ mk.left # {}
    /\ wr["marker"].ph = "idle"
    /\ IF stillMarked THEN (\E o \in mk.left : Probe("marker", o, "manual", "force")) /\ UNCHANGED mk
                      ELSE Give /\ UNCHANGED others
    /\ UNCHANGED <<row, saved, pass, calls>>

(* Mutant: the row is re-queued and keeps its mark. *)
Requeued == [row EXCEPT !.st = "ready"]

(* UnmarkManualInstrumentalTx *)
Cleared == IF row.marked /\ row.st # "processing" THEN [st |-> "ready", marked |-> FALSE] ELSE row

(* Mutant: a failed write always withdraws the mark. *)
WithdrawnAlways == mk.changed

(* A write that failed before any marker landed withdraws a mark of this call. *)
Withdrawn == mk.changed /\ mk.left = Outs

MarkerWritten ==
    /\ wr["marker"].ph \in {"done", "failed"}
    /\ wr' = [wr EXCEPT !["marker"] = NoCall]
    /\ IF wr["marker"].ph = "done"
         THEN /\ mk' = [mk EXCEPT !.left = @ \ {wr["marker"].out}]
              /\ UNCHANGED row
         ELSE /\ Give
              /\ \/ row' = IF Withdrawn THEN Cleared ELSE row
                 \/ Faulty("db") /\ Withdrawn /\ UNCHANGED row
    /\ UNCHANGED <<disk, n, saved, pass, calls>>

(* The other variants of a replaced .txt go, unless a manual marker is there. *)
RemoveReplacedSidecar ==
    /\ mk.op = "mark" /\ mk.ph = "late" /\ mk.todo = {} /\ mk.left = {}
    /\ Give
    /\ disk' = [o \in Outs |-> IF <<o, "txt">> \in mk.reported /\ disk[o].txt.k # "manual"
                                 THEN [disk[o] EXCEPT !.txt = Absent] ELSE disk[o]]
    /\ UNCHANGED <<wr, n, row, saved, pass, calls>>

(* Mutant: the markers are left for after the row is cleared. *)
NoMarkersYet == {}

MarkersFound == {p \in mk.reported : p[2] = "txt"}

StartRemoving ==
    /\ mk.op = "unmark" /\ mk.ph = "backup" /\ mk.todo = {}
    /\ mk' = [mk EXCEPT !.ph = "remove", !.todo = MarkersFound]
    /\ UNCHANGED <<others, row, saved, pass, calls>>

(* Only a file that is still a manual marker is removed. *)
RemoveManualMarker ==
    /\ mk.op = "unmark" /\ mk.ph \in {"remove", "again"}
    /\ \E p \in mk.todo :
         \/ Faulty("remove") /\ Give /\ UNCHANGED disk
         \/ /\ mk' = [mk EXCEPT !.todo = @ \ {p}]
            /\ disk' = IF At(p).k = "manual" THEN [disk EXCEPT ![p[1]].txt = Absent] ELSE disk
    /\ UNCHANGED <<wr, n, row, saved, pass, calls>>

Unmark ==
    /\ mk.op = "unmark" /\ mk.ph = "remove" /\ mk.todo = {}
    /\ \/ Faulty("db") /\ Give /\ UNCHANGED row
       \/ row' = Cleared /\ Goto("cleared")
    /\ UNCHANGED <<others, saved, pass, calls>>

(* Step 7 of Unmark: a marker that is there again is backed up and removed. *)
LateMarkers ==
    /\ mk.op = "unmark" /\ mk.ph = "cleared"
    /\ LET late == {p \in inventory(TRUE) : At(p).k = "manual"}
       IN /\ mk' = [mk EXCEPT !.ph = "again", !.todo = late]
          /\ saved' = saved \cup Seen(late)
    /\ UNCHANGED <<others, row, pass, calls>>

UnmarkReturns ==
    /\ mk.op = "unmark" /\ mk.ph = "again" /\ mk.todo = {}
    /\ Give
    /\ UNCHANGED <<others, row, saved, pass, calls>>

MarkerSteps ==
    \/ Load("mark") \/ Load("unmark") \/ Inventory \/ backup \/ settle \/ LateInventory
    \/ WriteMarker \/ MarkerWritten \/ RemoveReplacedSidecar
    \/ StartRemoving \/ RemoveManualMarker \/ Unmark \/ LateMarkers \/ UnmarkReturns
    \/ WriteSteps("marker") /\ UNCHANGED <<row, mk, saved, pass, calls>>

-----------------------------------------------------------------------------
(* The row's worker, and a writer that serves another row                    *)

Claim ==
    /\ row.st = "ready"
    /\ row' = [row EXCEPT !.st = "processing"]
    /\ pass' = TRUE
    /\ UNCHANGED <<others, mk, saved, calls>>

(* A done row is offered again by a scan or a sweep, but never a marked one. *)
Reopen ==
    /\ row.st = "done" /\ ~row.marked /\ n < MaxWrites
    /\ row' = [row EXCEPT !.st = "ready"]
    /\ UNCHANGED <<others, mk, saved, pass, calls>>

WorkerWrites ==
    /\ pass
    /\ \/ \E o \in Outs, s \in Given : Probe("worker", o, s, "plain")
       \/ WriteSteps("worker")
    /\ UNCHANGED <<row, mk, saved, pass, calls>>

Finish ==
    /\ pass /\ wr["worker"].ph \in {"idle", "done", "failed"}
    /\ \E st \in {"ready", "done"} :
         row' = IF row.st = "processing" THEN [row EXCEPT !.st = st] ELSE row
    /\ pass' = FALSE
    /\ wr' = [wr EXCEPT !["worker"] = NoCall]
    /\ UNCHANGED <<disk, n, mk, saved, calls>>

OtherWrites ==
    /\ "other" \in Writers
    /\ \/ \E o \in Outs, s \in Given, opt \in Opts : Probe("other", o, s, opt)
       \/ WriteSteps("other")
    /\ UNCHANGED <<row, mk, saved, pass, calls>>

(* The process dies; a row in flight stays in flight. *)
Crash ==
    /\ Faulty("crash")
    /\ mk.op # "none" \/ pass
    /\ Die /\ Give /\ pass' = FALSE
    /\ UNCHANGED <<disk, n, row, saved, calls>>

Next == MarkerSteps \/ Claim \/ Reopen \/ WorkerWrites \/ Finish \/ OtherWrites \/ Crash

Spec == Init /\ [][Next]_mvars

-----------------------------------------------------------------------------
(* A manual marker never stays beside a row that does not carry the mark:    *)
(* the writer refuses to replace it, so the track could never be fetched     *)
(* again.  Holds through every failure and the death of the process          *)
(* (unmark.go 64-67, 96-99).                                                 *)
NoStrandedMarker ==
    mk.op = "none" /\ ~row.marked => \A o \in Outs : disk[o].txt.k # "manual"

(* What a call of Mark or Unmark destroys was in the backup, if the call's   *)
(* first inventory saw it.                                                   *)
MarkerTurn == mk.op # "none" /\ (mk' # mk \/ wr'["marker"] # wr["marker"]) /\ calls' = calls
Destroyed == {<<p, At(p)>> : p \in {q \in Paths : At(q).k # "none" /\ At(q)' # At(q)}}
SeenIsBackedUp == MarkerTurn => Destroyed \cap mk.first \subseteq saved

(* The same for what the second inventory saw at a path where the first saw  *)
(* nothing (mark.go 155-156: "a file that appeared after the first (a        *)
(* hand-written .txt, a .lrc a worker finished) is backed up too").  A file  *)
(* put in the place of one already reported is not: backup keeps one record  *)
(* a path (mark.go 348-350).                                                 *)
Appeared == {f \in mk.second : \A g \in mk.first : g[1] # f[1]}
LateIsBackedUp == MarkerTurn => Destroyed \cap Appeared \subseteq saved
=============================================================================
