-------------------------------- MODULE Scan --------------------------------
(***************************************************************************)
(* A library scan of one audio file (internal/scanner/scanner.go,          *)
(* identity_cache.go) and the three stores it keeps about the file: the    *)
(* tag cache (audio_metadata), the duration cache (audio_durations) and    *)
(* the list of files whose tags cannot be read                             *)
(* (scanner_metadata_failures).  Each is keyed by the path and stamped     *)
(* with an mtime and a size.  Scans run beside each other (scheduler,      *)
(* watcher, command line), beside whoever replaces or retags the audio,    *)
(* and beside whoever writes or removes the sidecars; nothing is locked.   *)
(*                                                                         *)
(* Every change of the audio gets a stamp of its own, and a version is its *)
(* stamp.  A path names an inode: a retag changes the inode's content, a   *)
(* replacement (write a temp file, rename it) points the path at another.  *)
(* An open handle stays with its inode.                                    *)
(***************************************************************************)
EXTENDS Naturals, FiniteSets

CONSTANTS
    Scans,      \* scans that may run at the same time
    Options,    \* the ScanOptions a scan may start with
    Embedded,   \* embedded lyrics of the audio: "none", "synced" or "unsynced"
    Edits,      \* what may be done to the audio: "retag", "replace", "rewrite"
    Faults,     \* which calls may fail
    MaxEdits,   \* bound on the changes of the audio
    MaxSides,   \* bound on the changes of the sidecars by others
    MaxFaults   \* bound on the calls that fail

VARIABLES
    truth,   \* what every version really holds
    path,    \* the inode the path names
    holds,   \* the version every inode holds
    edits,   \* changes of the audio so far; the youngest stamp is edits + 1
    side,    \* the sidecars beside the audio
    sides,   \* changes of the sidecars by others so far
    ids,     \* the tag cache's row for the path
    durs,    \* the duration cache's row
    fails,   \* the stamp on the skip list
    row,     \* the status of the scan_results row
    scan,    \* the state of every scan
    faults   \* calls that failed so far

files == <<truth, path, holds, edits>>
stores == <<ids, durs, fails, row>>
vars == <<truth, path, holds, edits, side, sides, ids, durs, fails, row, scan, faults>>

Versions == 1..(MaxEdits + 1)
None == 0                      \* no stamp; the cacheMiss of a lookup that failed
Tags == SUBSET Versions        \* the tags of these versions, read one after another
Texts == {"none", "lyric", "marker", "bare", "manual"}
Rows == {"none", "pending", "done"}

NoScan(o) == [pc |-> "idle", opt |-> o, lrc |-> FALSE, stamp |-> None, miss |-> None, ino |-> 1,
              tags |-> {}, dur |-> None, bad |-> FALSE, res |-> "none", held |-> FALSE]
Idle == NoScan(CHOOSE o \in Options : TRUE)

TypeOK ==
    /\ truth \in [Versions -> [tags : Versions, dur : Versions, ok : BOOLEAN]]
    /\ path \in Versions /\ holds \in [Versions -> Versions] /\ edits \in 0..MaxEdits
    /\ side \in [lrc : BOOLEAN, txt : Texts, fresh : BOOLEAN] /\ sides \in 0..MaxSides
    /\ ids \in [stamp : Versions \cup {None}, tags : Tags, dur : Versions \cup {None}]
    /\ durs \in [stamp : Versions \cup {None}, dur : Versions \cup {None}]
    /\ fails \in Versions \cup {None}
    /\ row \in Rows
    /\ \A s \in Scans : /\ scan[s].opt \in Options /\ scan[s].tags \in Tags
                        /\ scan[s].stamp \in Versions \cup {None}
                        /\ scan[s].miss \in {None, scan[s].stamp}
    /\ faults \in 0..MaxFaults

(* A first scan of a file that is readable or not; stores empty. *)
Init ==
    /\ \E ok \in BOOLEAN : truth = [v \in Versions |-> [tags |-> 1, dur |-> 1, ok |-> ok]]
    /\ path = 1 /\ holds = [i \in Versions |-> 1] /\ edits = 0
    /\ side \in [lrc : BOOLEAN, txt : Texts, fresh : {FALSE}] /\ sides = 0
    /\ ids = [stamp |-> None, tags |-> {}, dur |-> None] /\ durs = [stamp |-> None, dur |-> None]
    /\ fails = None /\ row = "none"
    /\ scan = [s \in Scans |-> Idle] /\ faults = 0

-----------------------------------------------------------------------------
(* The audio and the sidecars, in other hands.                               *)

Stamp == holds[path]     \* what os.Stat(path) shows

(* A tagger writes into the file, or renames a new file over it.  A retag *)
(* keeps the sound and with it the duration; "rewrite" copies other sound *)
(* into the same inode.                                                   *)
Edit(how, ok) ==
    LET v == edits + 2 IN
    /\ how \in Edits /\ edits < MaxEdits /\ edits' = edits + 1
    /\ truth' = [truth EXCEPT ![v] = [tags |-> v, ok |-> ok,
                                      dur |-> IF how = "retag" THEN truth[Stamp].dur ELSE v]]
    /\ path' = IF how = "replace" THEN v ELSE path
    /\ holds' = [holds EXCEPT ![path'] = v]
    /\ UNCHANGED <<side, sides, ids, durs, fails, row, scan, faults>>

(* Another writer of sidecars: the worker, the user, a mark. *)
Sidecars ==
    /\ sides < MaxSides /\ sides' = sides + 1
    /\ \/ side' = [lrc |-> TRUE, txt |-> "none", fresh |-> TRUE]
       \/ \E t \in Texts : side' = [lrc |-> FALSE, txt |-> t, fresh |-> TRUE]
    /\ scan' = [s \in Scans |-> [scan[s] EXCEPT !.held = @ /\ side'.txt = "manual"]]
    /\ UNCHANGED <<files, stores, faults>>

-----------------------------------------------------------------------------
(* The caches.                                                               *)

ShouldSkipPath(stamp) == fails # None
ShouldSkip(stamp) == fails # None /\ fails = stamp
Cached(stamp) == ids.stamp # None /\ ids.stamp = stamp
Banked(stamp) == durs.stamp # None /\ durs.stamp = stamp
RecordDuration(stamp, d) == IF d = None THEN durs ELSE [stamp |-> stamp, dur |-> d]

Fails(f) == f \in Faults /\ faults < MaxFaults /\ faults' = faults + 1
Works == faults' = faults

Goto(s, pc) == scan' = [scan EXCEPT ![s].pc = pc]
At(s, pc) == scan[s].pc = pc

-----------------------------------------------------------------------------
(* The walk reaches the file.                                                *)

Begin(s, o) ==
    /\ At(s, "idle")
    /\ scan' = [scan EXCEPT ![s] = [NoScan(o) EXCEPT !.pc = "lrc", !.held = side.txt = "manual" /\ ~side.lrc]]
    /\ UNCHANGED <<files, side, sides, stores, faults>>

(* reopenClassesFor: Update reopens every class, Upgrade the unsynced one. *)
ReopenSynced(o) == o.mode = "update"
ReopenUnsynced(o) == o.mode \in {"update", "upgrade"}

(* The .lrc is looked at first; a settled one only has its duration banked. *)
SeeLrc(s) ==
    /\ At(s, "lrc") /\ Works
    /\ scan' = [scan EXCEPT ![s].lrc = side.lrc,
                            ![s].pc = CASE ~side.lrc \/ ReopenSynced(scan[s].opt) -> "txt"
                                        [] scan[s].opt.enrich -> "bank"
                                        [] OTHER -> "index"]
    /\ UNCHANGED <<files, side, sides, stores>>

(* Plausible bugs, for the checks of the checks. *)
SettledButManual(o, txt) == \/ ~ReopenUnsynced(o)
                            \/ o.bare /\ txt # "bare"
                            \/ o.window /\ side.fresh

(* Which .txt leaves the file settled.  One that cannot be read counts as *)
(* a lyric.                                                               *)
Settled(o, txt) ==
    \/ ~ReopenUnsynced(o)
    \/ txt = "manual"
    \/ o.bare /\ txt # "bare"
    \/ o.window /\ side.fresh

SeeTxt(s) ==
    /\ At(s, "txt")
    /\ \E txt \in {side.txt, "lyric"} :
         /\ IF txt = side.txt THEN Works ELSE side.txt # "none" /\ Fails("readtxt")
         /\ Goto(s, IF txt # "none" /\ ~scan[s].lrc /\ Settled(scan[s].opt, txt) THEN "index" ELSE "stat")
    /\ UNCHANGED <<files, side, sides, stores>>

-----------------------------------------------------------------------------
(* A settled file: bankDurationForSkippedFile, indexSettledFile.             *)

(* A duration that is banked for the stat's stamp is not probed again. *)
BankLookup(s) ==
    /\ At(s, "bank")
    /\ \/ Works /\ Goto(s, IF Banked(Stamp) THEN "index" ELSE "bankprobe")
       \/ Fails("db") /\ Goto(s, "index")
    /\ UNCHANGED <<files, side, sides, stores>>

BankProbe(s) ==
    /\ At(s, "bankprobe")
    /\ \/ Works /\ scan' = [scan EXCEPT ![s].pc = "bankrecord", ![s].ino = path,
                                        ![s].dur = truth[Stamp].dur]
       \/ Fails("probe") /\ Goto(s, "index")
    /\ UNCHANGED <<files, side, sides, stores>>

(* recordDuration stamps with the open handle's own stat. *)
PathStamp(s) == holds[path]
HandleStamp(s) == holds[scan[s].ino]

BankRecord(s) ==
    /\ At(s, "bankrecord") /\ Goto(s, "index")
    /\ \/ Works /\ durs' = RecordDuration(HandleStamp(s), scan[s].dur)
       \/ Fails("db") /\ UNCHANGED durs
    /\ UNCHANGED <<files, side, sides, ids, fails, row>>

(* Only a path no row names is read for the index, and not when it is on *)
(* the skip list; a lookup that fails skips the file, one of the skip    *)
(* list does not.                                                        *)
IndexLookup(s) ==
    /\ At(s, "index")
    /\ \/ /\ Works
          /\ scan' = [scan EXCEPT ![s].stamp = Stamp,
                                  ![s].pc = IF row # "none" \/ ShouldSkip(Stamp)
                                            THEN "upsert" ELSE "indexread"]
       \/ Fails("db") /\ Goto(s, "upsert")
       \/ /\ row = "none" /\ Fails("db")
          /\ scan' = [scan EXCEPT ![s].stamp = Stamp, ![s].pc = "indexread"]
    /\ UNCHANGED <<files, side, sides, stores>>

(* openAndReadTags: a failed open and unreadable tags are one error here, *)
(* and either puts the file on the skip list.                             *)
IndexRead(s) ==
    /\ At(s, "indexread")
    /\ \/ /\ truth[Stamp].ok /\ Works /\ UNCHANGED fails
          /\ scan' = [scan EXCEPT ![s].pc = "upsert", ![s].res = "done"]
       \/ /\ \/ ~truth[Stamp].ok /\ Works
             \/ Fails("settledopen")
          /\ fails' = scan[s].stamp /\ Goto(s, "upsert")
       \/ ~truth[Stamp].ok /\ Fails("db") /\ Goto(s, "upsert") /\ UNCHANGED fails
    /\ UNCHANGED <<files, side, sides, ids, durs, row>>

-----------------------------------------------------------------------------
(* A file to fetch for.                                                      *)

embeddedLyricsOn(o) == o.embedded # "off"

(* The stat, the skip list and the tag cache (cachedIdentity).  A hit banks *)
(* the cached duration and answers without opening the file.                *)
StatHit(s) ==
    /\ At(s, "stat") /\ ~ShouldSkip(Stamp) /\ ~embeddedLyricsOn(scan[s].opt) /\ Cached(Stamp)
    /\ scan' = [scan EXCEPT ![s].stamp = Stamp, ![s].pc = "upsert", ![s].res = "pending"]
    /\ \/ Works /\ durs' = IF scan[s].opt.enrich /\ ~Banked(Stamp)
                           THEN RecordDuration(Stamp, ids.dur) ELSE durs
       \/ Fails("db") /\ UNCHANGED durs
    /\ UNCHANGED <<files, side, sides, ids, fails, row>>

(* miss is the stamp of a lookup that cleanly missed, else None. *)
StatMiss(s) ==
    /\ At(s, "stat")
    /\ \/ Works /\ ShouldSkip(Stamp) /\ Goto(s, "upsert")
       \/ \E failed \in BOOLEAN :
            /\ IF failed THEN Fails("db") ELSE Works /\ ~ShouldSkip(Stamp)
            /\ embeddedLyricsOn(scan[s].opt) \/ failed \/ ~Cached(Stamp)
            /\ scan' = [scan EXCEPT ![s].stamp = Stamp, ![s].pc = "open",
                          ![s].miss = IF failed \/ embeddedLyricsOn(scan[s].opt) THEN None ELSE Stamp]
    /\ UNCHANGED <<files, side, sides, stores>>

(* Open and tag.ReadFrom.  A file that cannot be opened is left for the   *)
(* next scan; tags that cannot be read put the stat's stamp on the skip   *)
(* list.                                                                  *)
OpenRead(s) ==
    LET hasLyrics == embeddedLyricsOn(scan[s].opt) /\ Embedded # "none" IN
    /\ At(s, "open")
    /\ \/ /\ truth[Stamp].ok /\ Works /\ UNCHANGED fails
          /\ scan' = [scan EXCEPT ![s].ino = path, ![s].tags = {truth[Stamp].tags},
                        ![s].pc = CASE hasLyrics /\ scan[s].opt.embedded = "extract" -> "link"
                                    [] hasLyrics -> "upsert"
                                    [] scan[s].opt.enrich -> "probe"
                                    [] OTHER -> "reread"]
       \/ ~truth[Stamp].ok /\ Works /\ fails' = scan[s].stamp /\ Goto(s, "upsert")
       \/ ~truth[Stamp].ok /\ Fails("db") /\ Goto(s, "upsert") /\ UNCHANGED fails
       \/ Fails("open") /\ Goto(s, "upsert") /\ UNCHANGED fails
    /\ UNCHANGED <<files, side, sides, ids, durs, row>>

(* linkSidecar: a hard link, which an existing file makes fail; that counts *)
(* as extracted.                                                            *)
Linked == IF Embedded = "synced" THEN [side EXCEPT !.lrc = TRUE, !.fresh = TRUE]
          ELSE IF side.txt = "none" THEN [side EXCEPT !.txt = "lyric", !.fresh = TRUE] ELSE side

Link(s) ==
    LET again == IF Embedded = "synced" THEN ReopenSynced(scan[s].opt) ELSE ReopenUnsynced(scan[s].opt)
        on == IF scan[s].opt.enrich THEN "probe" ELSE "reread" IN
    /\ At(s, "link")
    /\ \/ /\ Works /\ side' = Linked
          /\ scan' = [t \in Scans |-> [scan[t] EXCEPT !.held = @ /\ ~side'.lrc,
                                       !.pc = IF t # s THEN @ ELSE IF again THEN on ELSE "upsert"]]
       \/ Fails("link") /\ UNCHANGED side /\ Goto(s, on)
    /\ UNCHANGED <<files, sides, stores>>

Probe(s) ==
    /\ At(s, "probe")
    /\ \/ Works /\ scan' = [scan EXCEPT ![s].pc = "record", ![s].dur = truth[HandleStamp(s)].dur]
       \/ Fails("probe") /\ scan' = [scan EXCEPT ![s].pc = "reread", ![s].bad = TRUE]
    /\ UNCHANGED <<files, side, sides, stores>>

Record(s) ==
    /\ At(s, "record") /\ Goto(s, "reread")
    /\ \/ Works /\ durs' = RecordDuration(HandleStamp(s), scan[s].dur)
       \/ Fails("db") /\ UNCHANGED durs
    /\ UNCHANGED <<files, side, sides, ids, fails, row>>

(* vorbisFieldsChecked reads the comment block once more, through the same *)
(* handle: the artist may come from a later version than the title.        *)
Reread(s) ==
    /\ At(s, "reread")
    /\ \/ Works /\ scan' = [scan EXCEPT ![s].pc = "facts", ![s].tags = @ \cup {truth[HandleStamp(s)].tags}]
       \/ Fails("multivalue") /\ scan' = [scan EXCEPT ![s].pc = "facts", ![s].bad = TRUE]
    /\ UNCHANGED <<files, side, sides, stores>>

BankableUnchecked(s) == scan[s].opt.enrich /\ ~scan[s].bad /\ scan[s].miss # None

(* bankFacts: only when the handle's stamp is the stamp that missed. *)
Bankable(s) == scan[s].opt.enrich /\ ~scan[s].bad /\ HandleStamp(s) = scan[s].miss

BankFacts(s) ==
    /\ At(s, "facts")
    /\ scan' = [scan EXCEPT ![s].pc = "upsert", ![s].res = "pending"]
    /\ \/ /\ Works
          /\ ids' = IF Bankable(s) THEN [stamp |-> HandleStamp(s), tags |-> scan[s].tags,
                                         dur |-> scan[s].dur] ELSE ids
       \/ Bankable(s) /\ Fails("db") /\ UNCHANGED ids
    /\ UNCHANGED <<files, side, sides, durs, fails, row>>

-----------------------------------------------------------------------------
(* The scan's results are written (Repo.Upsert): a new row takes the status *)
(* of the result, a known one keeps its own unless the scan reopens.        *)
Upserted(old, res, o) ==
    CASE res = "none" -> old
      [] old = "none" \/ o.mode # "plain" -> res
      [] OTHER -> old

Upsert(s) ==
    /\ At(s, "upsert")
    /\ \/ Works /\ row' = Upserted(row, scan[s].res, scan[s].opt)
       \/ scan[s].res # "none" /\ Fails("db") /\ UNCHANGED row
    /\ scan' = [scan EXCEPT ![s] = Idle]
    /\ UNCHANGED <<files, side, sides, ids, durs, fails>>

(* The context ends: ScanLibrary returns an error and no results. *)
Cancel(s) ==
    /\ ~At(s, "idle") /\ Fails("cancel")
    /\ scan' = [scan EXCEPT ![s] = Idle]
    /\ UNCHANGED <<files, side, sides, stores>>

Step(s) == \/ SeeLrc(s) \/ SeeTxt(s)
           \/ BankLookup(s) \/ BankProbe(s) \/ BankRecord(s) \/ IndexLookup(s) \/ IndexRead(s)
           \/ StatHit(s) \/ StatMiss(s) \/ OpenRead(s) \/ Link(s)
           \/ Probe(s) \/ Record(s) \/ Reread(s) \/ BankFacts(s) \/ Upsert(s)

Next == \/ \E how \in Edits, ok \in BOOLEAN : Edit(how, ok)
        \/ Sidecars
        \/ \E s \in Scans : \/ Step(s) \/ Cancel(s)
                            \/ \E o \in Options : Begin(s, o)

(* The scheduler scans again and again, and a scan that runs goes on.  Edits, *)
(* sidecars of others and faults are not obliged to happen.                   *)
Spec == Init /\ [][Next]_vars
LiveSpec ==
    Spec /\ \A s \in Scans : WF_vars(Step(s)) /\ \A o \in Options : WF_vars(Begin(s, o))

-----------------------------------------------------------------------------
(* A row of the tag cache describes the version of the file its stamp names, *)
(* whole: a file retagged while it was read, or replaced between the stat    *)
(* and the open, never leaves the tags of one version under the stamp of     *)
(* another.  A later scan and the worker take such a row for the file.       *)
IdentityHonest == ids.stamp # None => /\ ids.tags = {truth[ids.stamp].tags}
                                      /\ ids.dur = truth[ids.stamp].dur

(* A banked duration is that of the version its stamp names, whichever path *)
(* banked it: revalidation trusts it without opening the file.              *)
DurationHonest == durs.stamp # None => durs.dur = truth[durs.stamp].dur

(* A file the skip list hides at its present stamp cannot be read.  Read     *)
(* errors are recorded under a stamp taken before the file was opened, so    *)
(* the list may name a version nobody read; it never hides a readable file   *)
(* ("a re-read would fail identically", MetadataFailureStore.ShouldSkip).    *)
SkipMeansUnreadable == ShouldSkip(Stamp) => ~truth[Stamp].ok

(* A track marked instrumental by hand, with no other sidecar, from the       *)
(* start of the scan is never offered for fetching by it, whatever classes    *)
(* the scan reopens (an unreadable .txt aside).                               *)
MarkedNeverOffered == \A s \in Scans : scan[s].held => scan[s].res # "pending"

(* A readable file with no sidecar gets its row in the ledger, whatever was  *)
(* recorded about its earlier versions, unless it changes or is settled      *)
(* first.                                                                    *)
Readable == truth[Stamp].ok /\ ~side.lrc /\ side.txt = "none" /\ Embedded = "none"
Offered == row # "none" \/ ~truth[Stamp].ok \/ side.lrc \/ side.txt # "none"
ReadableIsOffered == Readable ~> Offered
=============================================================================
