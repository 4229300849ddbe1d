-------------------------------- MODULE Adopt -------------------------------
(***************************************************************************)
(* One queue row and the audio files that claim it: adoption of files that *)
(* already have a lyric (internal/scan/adopt.go, internal/queue/adopt.go)  *)
(* and the move of a row whose file has gone to a file of the same name    *)
(* (internal/queue/enqueue_move.go), beside the enqueuer and the worker.   *)
(*                                                                         *)
(* The adopter lists, links, looks at the disk and inserts in separate     *)
(* transactions; a move is planned from a read and two stats and applied   *)
(* in a later transaction.  All files have the row's identity.  Files of   *)
(* one stem (a.flac, a.mp3) share their sidecar.                           *)
(***************************************************************************)
EXTENDS Naturals, FiniteSets

CONSTANTS
    Files,      \* audio files of the identity
    Stem,       \* the directory and name a file has, without its extension
    MaxMoves,   \* bound on the files that come and go
    MaxForced,  \* bound on the scans that reopen a settled file
    MaxFaults   \* bound on the backup records that cannot be written

VARIABLES
    present,  \* the files on disk
    lyric,    \* the sidecar of every stem
    sr,       \* the scan_results row of every file
    forced,   \* the files an operator's scan reopened
    found,    \* settled files a scan has just indexed
    row,      \* the work_queue row
    links,    \* work_queue_scan_results: the files joined to the row
    backup,   \* the adoption backup: what was recorded, of which file
    ad,       \* the adopter
    en,       \* the enqueuer
    n         \* what has been spent of the bounds

vars == <<present, lyric, sr, forced, found, row, links, backup, ad, en, n>>

None == "none"
Stems == {Stem[f] : f \in Files}
Some == CHOOSE f \in Files : TRUE
SameStemSibling(f, g) == f # g /\ Stem[f] = Stem[g]

NoRow == [st |-> None, src |-> Some, link |-> None, retired |-> FALSE, tomb |-> FALSE,
          hand |-> FALSE, adopted |-> FALSE]
NoPlan == [old |-> None, gone |-> None, keep |-> FALSE]
Waiting == [pc |-> "idle", f |-> Some, repoint |-> FALSE, linked |-> None, plan |-> NoPlan]

TypeOK ==
    /\ present \subseteq Files /\ lyric \in [Stems -> {None, "good", "bad"}]
    /\ sr \in [Files -> {None, "pending", "processing", "done"}] /\ forced \subseteq Files /\ found \subseteq Files
    /\ row \in [st : {None, "pending", "processing", "done"}, src : Files, link : Files \cup {None},
                retired : BOOLEAN, tomb : BOOLEAN, hand : BOOLEAN, adopted : BOOLEAN]
    /\ links \subseteq Files /\ backup \subseteq {"row", "link"} \X Files
    /\ ad \in [pc : {"idle", "link", "look", "insert"}, page : SUBSET Files, cur : Files]
    /\ en \in [pc : {"idle", "row", "stat", "tx"}, f : Files, repoint : BOOLEAN, linked : Files \cup {None},
               plan : [old : Files \cup {None}, gone : Files \cup {None}, keep : BOOLEAN]]
    /\ n \in [moves : 0..MaxMoves, forced : 0..MaxForced, faults : 0..MaxFaults]
    /\ row.link # None => sr[row.link] # None
    /\ \A f \in links : sr[f] # None

Init ==
    /\ present \in (SUBSET Files) \ {{}} /\ lyric \in [Stems -> {None, "good", "bad"}]
    /\ sr = [f \in Files |-> None] /\ forced = {} /\ found = {} /\ row = NoRow /\ links = {} /\ backup = {}
    /\ ad = [pc |-> "idle", page |-> {}, cur |-> Some]
    /\ en = Waiting
    /\ n = [moves |-> 0, forced |-> 0, faults |-> 0]

-----------------------------------------------------------------------------
(* Around the two: the user's files, scans, the worker, retirement.          *)

Disk ==
    /\ n.moves < MaxMoves /\ n' = [n EXCEPT !.moves = @ + 1]
    /\ \/ \E f \in present : present' = present \ {f}
       \/ \E f \in Files \ present : present' = present \cup {f}
    /\ UNCHANGED <<lyric, sr, forced, row, links, backup, ad, en, found>>

(* A scan indexes a file that has a lyric as done and offers one that has none. *)
Index(f) ==
    /\ f \in present /\ sr[f] = None
    /\ sr' = [sr EXCEPT ![f] = IF lyric[Stem[f]] = None THEN "pending" ELSE "done"]
    /\ found' = IF lyric[Stem[f]] = None THEN found ELSE found \cup {f}
    /\ UNCHANGED <<present, lyric, forced, row, links, backup, ad, en, n>>

(* A scan with --update or --upgrade forces a settled file back to pending. *)
Force(f) ==
    /\ f \in present /\ sr[f] = "done" /\ n.forced < MaxForced
    /\ sr' = [sr EXCEPT ![f] = "pending"] /\ forced' = forced \cup {f}
    /\ n' = [n EXCEPT !.forced = @ + 1]
    /\ UNCHANGED <<present, lyric, row, links, backup, ad, en, found>>

Claim ==
    /\ row.st = "pending"
    /\ row' = [row EXCEPT !.st = "processing", !.adopted = FALSE]
    /\ UNCHANGED <<present, lyric, sr, forced, links, backup, ad, en, n, found>>

WriteBack(r) == [f \in Files |-> IF f \in links THEN "done" ELSE sr[f]]

(* The worker writes beside the row's file, whether or not it is still there. *)
Complete ==
    /\ row.st = "processing"
    /\ row' = [row EXCEPT !.st = "done", !.retired = FALSE, !.tomb = FALSE]
    /\ lyric' = [lyric EXCEPT ![Stem[row.src]] = "good"] /\ sr' = WriteBack(row)
    /\ UNCHANGED <<present, forced, links, backup, ad, en, n, found>>

(* Prune settles a row that waits for a fetch of a file that has gone, and  *)
(* writes nothing back: what is reserved for it stays reserved.             *)
retireUnresolvable ==
    /\ row.st = "pending" /\ row.src \notin present
    /\ row' = [row EXCEPT !.st = "done", !.retired = TRUE, !.tomb = FALSE]
    /\ UNCHANGED <<present, lyric, sr, forced, links, backup, ad, en, n, found>>

(* The upgrade trips that find the file of a settled row gone at both       *)
(* sightings: the mark stays as its tombstone.                              *)
Tombstone ==
    /\ row.st = "done" /\ ~row.retired /\ ~row.hand /\ row.src \notin present
    /\ row' = [row EXCEPT !.retired = TRUE, !.tomb = TRUE] /\ sr' = WriteBack(row)
    /\ UNCHANGED <<present, lyric, forced, links, backup, ad, en, n, found>>

(* A person edits the lyric or marks the track. *)
Hand ==
    /\ row.st = "done" /\ ~row.hand /\ row' = [row EXCEPT !.hand = TRUE]
    /\ UNCHANGED <<present, lyric, sr, forced, links, backup, ad, en, n, found>>

-----------------------------------------------------------------------------
(* Adopter.Run.                                                              *)

(* Pages are in the order of the results' ids: any order, but one. *)
First(page) == CHOOSE f \in page : TRUE
ListUnlinkedSettled == {f \in Files : sr[f] = "done" /\ f \notin links}

List ==
    /\ ad.pc = "idle" /\ ListUnlinkedSettled # {}
    /\ ad' = [pc |-> "link", page |-> ListUnlinkedSettled, cur |-> First(ListUnlinkedSettled)]
    /\ UNCHANGED <<present, lyric, sr, forced, row, links, backup, en, n, found>>

(* The rest of the page without the current file; a backup that cannot be *)
(* written ends the run.                                                  *)
Stop == ad' = [pc |-> "idle", page |-> {}, cur |-> Some]
Skip == LET page == ad.page \ {ad.cur} IN
        IF page = {} THEN Stop ELSE ad' = [pc |-> "link", page |-> page, cur |-> First(page)]

(* The record is written before the transaction commits; when it fails, the *)
(* transaction is rolled back.  ch is what the transaction would do.        *)
RecordedAnyway(kind, f, ch) ==
    \/ ch /\ backup' = backup \cup {<<kind, f>>} /\ Skip /\ n' = n
    \/ ch /\ n.faults < MaxFaults /\ n' = [n EXCEPT !.faults = @ + 1] /\ Stop /\ UNCHANGED backup
Recorded(kind, f, ch) ==
    \/ ch /\ backup' = backup \cup {<<kind, f>>} /\ Skip /\ n' = n
    \/ n.faults < MaxFaults /\ n' = [n EXCEPT !.faults = @ + 1] /\ Stop /\ UNCHANGED <<row, links, backup>>

(* linkExistingTx: only a settled row is linked to; the scan result may have *)
(* gone since it was listed (the join's foreign key refuses it).             *)
linkExistingTx(f) ==
    IF row.st # "done" \/ f \in links \/ sr[f] = None
    THEN Skip /\ UNCHANGED <<row, links, backup, n>>
    ELSE Recorded("link", f, links' = links \cup {f} /\ UNCHANGED row)

LinkSettled ==
    /\ ad.pc = "link"
    /\ IF row.st = None THEN ad' = [ad EXCEPT !.pc = "look"] /\ UNCHANGED <<row, links, backup, n>>
       ELSE linkExistingTx(ad.cur)
    /\ UNCHANGED <<present, lyric, sr, forced, en, found>>

(* No sidecar, or one that cannot be classified: nothing is adopted. *)
Classify ==
    /\ ad.pc = "look"
    /\ IF lyric[Stem[ad.cur]] = "good" THEN ad' = [ad EXCEPT !.pc = "insert"] ELSE Skip
    /\ UNCHANGED <<present, lyric, sr, forced, row, links, backup, en, n, found>>

(* A row that appeared meanwhile is linked to instead. *)
InsertSettledDone ==
    /\ ad.pc = "insert"
    /\ IF row.st # None THEN linkExistingTx(ad.cur)
       ELSE IF sr[ad.cur] = None THEN Skip /\ UNCHANGED <<row, links, backup, n>>
       ELSE Recorded("row", ad.cur,
                     /\ row' = [NoRow EXCEPT !.st = "done", !.src = ad.cur, !.link = ad.cur, !.adopted = TRUE]
                     /\ links' = {ad.cur})
    /\ UNCHANGED <<present, lyric, sr, forced, en, found>>

-----------------------------------------------------------------------------
(* The enqueuer: EnqueueReopening for a pending result, RepointSettled for a *)
(* settled one.  Both plan a move before their transaction.                  *)

StartEnqueue(f) ==
    /\ en.pc = "idle" /\ sr[f] = "pending"
    /\ sr' = [sr EXCEPT ![f] = "processing"]
    /\ en' = [pc |-> "row", f |-> f, repoint |-> FALSE, linked |-> None, plan |-> NoPlan]
    /\ UNCHANGED <<present, lyric, forced, row, links, backup, ad, n, found>>

StartRepoint(f) ==
    /\ en.pc = "idle" /\ f \in found /\ found' = found \ {f}
    /\ en' = [pc |-> "row", f |-> f, repoint |-> TRUE, linked |-> None, plan |-> NoPlan]
    /\ UNCHANGED <<present, lyric, sr, forced, row, links, backup, ad, n>>

readGoneSourceRow ==
    /\ en.pc = "row"
    /\ en' = IF row.st \in {None, "processing"} THEN [en EXCEPT !.pc = "tx"]
             ELSE [en EXCEPT !.pc = "stat", !.linked = row.link, !.plan.old = row.src]
    /\ UNCHANGED <<present, lyric, sr, forced, row, links, backup, ad, n, found>>

(* planGoneSourceMove: the row already names the file and only its link is *)
(* stale (planLibraryRelink when the link is another file's), or the row   *)
(* names a sibling that has gone.                                          *)
Planned ==
    LET old == en.plan.old
        lib == {g \in Files : SameStemSibling(g, en.f) /\ sr[g] # None /\ g \notin present} IN
    IF old = en.f
    THEN CASE en.linked = None -> {en.plan}
           [] en.linked # None /\ SameStemSibling(en.linked, en.f) ->
                IF en.linked \notin present THEN {[en.plan EXCEPT !.gone = en.linked]} ELSE {NoPlan}
           [] OTHER -> IF lib = {} THEN {NoPlan}
                       ELSE {[en.plan EXCEPT !.gone = g, !.keep = TRUE] : g \in lib}
    ELSE IF SameStemSibling(old, en.f) /\ old \notin present /\ en.f \in present
         THEN {[en.plan EXCEPT !.gone = old]} ELSE {NoPlan}

planGoneSourceMove ==
    /\ en.pc = "stat"
    /\ \E p \in Planned : en' = [en EXCEPT !.pc = "tx", !.plan = p]
    /\ UNCHANGED <<present, lyric, sr, forced, row, links, backup, ad, n, found>>

(* moveGoneSourceTx.  The row must still be as it was read. *)
StillThereAny(r) == r.src = en.plan.old
StillThere(r) == r.src = en.plan.old /\ r.st # "processing"
Relinked(r) == IF en.plan.keep THEN r ELSE [r EXCEPT !.link = en.f]

ReopensAny(r) == r.retired /\ r.st = "done" /\ ~r.tomb
Reopens(r) == r.retired /\ r.st = "done" /\ ~r.tomb /\ ~r.hand

MovedRow(r) ==
    LET to == [Relinked(r) EXCEPT !.src = en.f] IN
    CASE en.plan.old # en.f /\ Reopens(r) -> [to EXCEPT !.st = "pending", !.retired = FALSE]
      [] en.plan.old # en.f /\ r.retired /\ r.st = "done" /\ r.tomb -> [to EXCEPT !.retired = FALSE, !.tomb = FALSE]
      [] OTHER -> to

(* What the transaction finds after the move: the row, the joins and the    *)
(* scan results, of which the vanished file's is deleted and the incoming   *)
(* one settled when the row is.                                             *)
Moved ==
    IF en.plan.old = None \/ ~StillThere(row) THEN [row |-> row, links |-> links, sr |-> sr]
    ELSE LET g == en.plan.gone
             r == MovedRow(row)
             s == [f \in Files |-> CASE f = g -> None
                                     [] f = en.f /\ g # None /\ r.st = "done" -> "done"
                                     [] OTHER -> sr[f]]
         IN [row |-> IF r.link # None /\ s[r.link] = None THEN [r EXCEPT !.link = None] ELSE r,
             links |-> (links \ {g}) \cup {en.f}, sr |-> s]

RepointTx ==
    /\ en.pc = "tx" /\ en.repoint
    /\ en' = Waiting
    /\ IF sr[en.f] = None THEN UNCHANGED <<row, links, sr>>
       ELSE row' = Moved.row /\ links' = Moved.links /\ sr' = Moved.sr
    /\ UNCHANGED <<present, lyric, forced, backup, ad, n, found>>

(* reopenAdoptedForScan: only for the file an operator's scan reopened, and *)
(* only the row adoption made for that very file.                           *)
AdoptedOfAny(r) == r.adopted /\ r.st = "done" /\ ~r.hand
AdoptedOf(r) == r.adopted /\ r.st = "done" /\ r.src = en.f /\ ~r.hand
ReopenAdopted(r) == IF en.f \in forced /\ AdoptedOf(r) THEN [r EXCEPT !.st = "pending", !.adopted = FALSE] ELSE r

(* The upsert: a new row, a waiting one takes the file, a settled or a    *)
(* claimed one keeps its own.                                             *)
EnqueuedRow(r) ==
    LET linked == [r EXCEPT !.link = IF @ = None THEN en.f ELSE @] IN
    CASE r.st = None -> [NoRow EXCEPT !.st = "pending", !.src = en.f, !.link = en.f]
      [] r.st = "pending" -> [linked EXCEPT !.src = en.f]
      [] OTHER -> linked

EnqueueTx ==
    LET r == EnqueuedRow(ReopenAdopted(Moved.row)) IN
    /\ en.pc = "tx" /\ ~en.repoint
    /\ en' = Waiting
    /\ row' = r /\ links' = Moved.links \cup {en.f}
    /\ sr' = IF r.st = "done" THEN [Moved.sr EXCEPT ![en.f] = "done"] ELSE Moved.sr
    /\ forced' = forced \ {en.f}
    /\ UNCHANGED <<present, lyric, backup, ad, n, found>>

Adopter == List \/ LinkSettled \/ Classify \/ InsertSettledDone
Enqueuer == readGoneSourceRow \/ planGoneSourceMove \/ RepointTx \/ EnqueueTx
Worker == Claim \/ Complete

Next == \/ Disk \/ Tombstone \/ retireUnresolvable \/ Hand
        \/ \E f \in Files : Index(f) \/ Force(f) \/ StartEnqueue(f) \/ StartRepoint(f)
        \/ Adopter \/ Enqueuer \/ Worker

(* Every pass runs after every scan, and scans go on; the disk, the operator *)
(* the upgrade sweep and prune need not move.                                *)
Spec == /\ Init /\ [][Next]_vars
        /\ WF_vars(Adopter) /\ WF_vars(Enqueuer) /\ WF_vars(Worker)
        /\ \A f \in Files : WF_vars(Index(f)) /\ WF_vars(StartRepoint(f)) /\ SF_vars(StartEnqueue(f))

-----------------------------------------------------------------------------
(* What adoption did can be undone: a row it made is in the backup under the *)
(* file it was made for, or the file the row was moved from.                 *)
AdoptionRecorded == row.adopted => \E f \in Files : /\ <<"row", f>> \in backup
                                                    /\ f = row.src \/ SameStemSibling(f, row.src)

(* The file of a row in flight stays: no plan made before the claim moves  *)
(* the row, its link or its settled state under the worker.                *)
InFlightStays ==
    row.st = "processing" /\ row'.st = "processing" =>
                      /\ row'.src = row.src /\ row'.retired = row.retired
                      /\ row.link # None => row'.link = row.link

(* A row a person edited or marked is never reopened by a move or by the    *)
(* reopening of an adopted file.                                            *)
HandKept == row.hand => row'.st = row.st

(* A settled row of a file that is there is reopened only when a scan       *)
(* reopened a file with that very lyric: a copy of the song elsewhere never *)
(* does ("a second copy of the song with no lyric file      *)
(* cannot reopen the row of the copy that has one").                        *)
CopiesKeepApart ==
    row.st = "done" /\ row'.st = "pending" /\ row.src \in present /\ ~row.retired
                        => \E f \in forced : Stem[f] = Stem[row.src]

(* A settled file with a readable lyric ends up joined to a row.            *)
Unlinked(f) == sr[f] = "done" /\ f \notin links /\ lyric[Stem[f]] = "good"
Linked(f) == f \in links \/ sr[f] # "done"
SettledIsLinked == \A f \in Files : Unlinked(f) ~> Linked(f)

(* A result the enqueuer reserved is settled in the end, whichever row took *)
(* it and whatever moved meanwhile, unless prune retires the row it waits   *)
(* for: that settles the row alone (prune.go:2680-2722).                    *)
Reserved(f) == sr[f] = "processing"
Released(f) == ~Reserved(f) \/ (f \in links /\ row.retired /\ ~row.tomb)
ReservedIsSettled == \A f \in Files : Reserved(f) ~> Released(f)

(* A row retired because its file had gone is reopened at the sibling that  *)
(* took the file's place once that is offered.                              *)
RetiredFor(f) ==
    /\ row.st = "done" /\ row.retired /\ ~row.tomb /\ ~row.hand /\ f \in present /\ sr[f] = "pending"
    /\ SameStemSibling(row.src, f) /\ row.src \notin present
Returned(f) == ~row.retired \/ row.hand \/ f \notin present \/ row.src \in present
RetiredReturns == \A f \in Files : RetiredFor(f) ~> Returned(f)
=============================================================================
