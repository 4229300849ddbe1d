------------------------------ MODULE Sidecars ------------------------------
(***************************************************************************)
(* The lyric files beside a track and the writer that replaces them        *)
(* (internal/lyrics/writer.go): WriteLRC probes what is on disk, decides,  *)
(* and then removes, renames and removes again, one system call at a time, *)
(* with no lock on the files.  Every call may fail and the process may die *)
(* between two of them.                                                    *)
(*                                                                         *)
(* A file is its kind and the number of the write that made it; names that *)
(* differ only in the case of the extension count as one name.  Temp files *)
(* and the audio's mtime are left out: no later step reads them.           *)
(***************************************************************************)
EXTENDS Naturals, FiniteSets

CONSTANTS
    Writers,     \* whoever calls WriteLRC
    Outs,        \* the outputs: one audio file's stem each
    WordSync,    \* wordSync: word times go into the .lrc itself
    Companion,   \* wordSyncCompanion: word times go into an .elrc beside it
    Disks,       \* what may be on disk at first
    Faults,      \* which system calls may fail
    MaxWrites    \* bound on the writes that start

VARIABLES
    disk,   \* the .lrc, .txt and .elrc of every output
    wr,     \* the call each writer is in
    n       \* the writes started so far

wvars == <<disk, wr, n>>

Absent == [k |-> "none", v |-> 0]
SidecarKinds == [lrc : [k : {"none", "line", "word"}, v : 0..MaxWrites],
                 txt : [k : {"none", "marker", "text", "manual"}, v : 0..MaxWrites],
                 elrc : [k : {"none", "owned", "foreign"}, v : 0..MaxWrites]]

(* "mis" is a song whose line times fail the timing guard: it is written as text. *)
Songs == {"manual", "inst", "text", "mis", "line", "word"}
Opts == {"plain", "force", "ifabsent"}

NoCall == [ph |-> "idle", out |-> CHOOSE o \in Outs : TRUE, song |-> "text", opt |-> "plain",
           removes |-> FALSE, cwrite |-> FALSE, stale |-> FALSE, v |-> 0, had |-> 0, alone |-> TRUE]
Phases == {"idle", "planned", "temp", "guarded", "unlinked", "renamed", "checked", "cleared",
           "done", "failed"}

WritersTypeOK ==
    /\ disk \in [Outs -> SidecarKinds]
    /\ wr \in [Writers -> [ph : Phases, out : Outs, song : Songs, opt : Opts, removes : BOOLEAN,
                           cwrite : BOOLEAN, stale : BOOLEAN, v : 0..MaxWrites, had : 0..4,
                           alone : BOOLEAN]]
    /\ n \in 0..MaxWrites

WritersInit ==
    /\ disk \in [Outs -> Disks]
    /\ wr = [p \in Writers |-> NoCall]
    /\ n = 0

-----------------------------------------------------------------------------
(* The rungs of internal/lyrics/rung.go: none, instrumental, unsynced, line, *)
(* word.                                                                     *)

RungOfSong(s) == CASE s \in {"manual", "inst"} -> 1 [] s = "text" -> 2
                   [] s \in {"mis", "line"} -> 3 [] OTHER -> 4

(* An owned companion lifts the line-timed file it stands beside. *)
LrcRung(d) == CASE d.lrc.k = "none" -> 0
                [] d.lrc.k = "line" /\ d.elrc.k # "owned" -> 3
                [] OTHER -> 4
TxtRung(d) == CASE d.txt.k = "none" -> 0 [] d.txt.k = "text" -> 2 [] OTHER -> 1

classifyOnDisk(d) == IF LrcRung(d) > TxtRung(d) THEN LrcRung(d) ELSE TxtRung(d)

(* What a write that must find nothing counts as occupied: any companion too. *)
stemOccupant(d) == classifyOnDisk(d) > 0 \/ d.elrc.k # "none"

Target(s) == IF s \in {"line", "word"} THEN "lrc" ELSE "txt"
oppositeSidecar(f) == IF f = "lrc" THEN "txt" ELSE "lrc"

(* The kind of file a song becomes. *)
Written(s) == CASE s = "inst" -> "marker" [] s = "mis" -> "text"
                [] s = "word" /\ ~WordSync -> "line" [] OTHER -> s

planCompanion(d, s) ==
    [removes |-> d.elrc.k = "owned",
     write |-> d.elrc.k # "foreign" /\ s = "word" /\ Companion]

(* Mutant: a song with words is ranked as words even where they would be dropped. *)
candidateRungOfSong(s, cwrite) == RungOfSong(s)

candidateRung(s, cwrite) ==
    IF s = "word" /\ ~WordSync /\ ~cwrite THEN 3 ELSE RungOfSong(s)

(* Only the marker of WriteManualMarker may replace a manual marker, forced or not. *)
refuseManualMarker(d, s) == s # "manual" /\ d.txt.k = "manual"

settledSidecar(d) == d.txt.k # "none" \/ d.lrc.k # "none"

(* WriteLRC returns before its first change to the disk. *)
Kept(d, s, opt, cwrite) ==
    \/ s = "mis" /\ settledSidecar(d)
    \/ refuseManualMarker(d, s)
    \/ /\ opt # "force"
       /\ \/ candidateRung(s, cwrite) < classifyOnDisk(d)
          \/ opt = "ifabsent" /\ stemOccupant(d)

-----------------------------------------------------------------------------
(* One call of WriteLRC, a step per system call.                             *)

Step(p, ph) == [wr EXCEPT ![p].ph = ph]
(* The disk of p's output changes under every other call on it. *)
Disturb(w, p) == [q \in Writers |-> IF q # p /\ w[q].out = w[p].out /\ w[q].ph # "idle"
                                      THEN [w[q] EXCEPT !.alone = FALSE] ELSE w[q]]
Put(p, f, c, ph) ==
    /\ disk' = [disk EXCEPT ![wr[p].out][f] = c]
    /\ wr' = Disturb(Step(p, ph), p)
    /\ UNCHANGED n
Stay(p, ph) == wr' = Step(p, ph) /\ UNCHANGED <<disk, n>>
Fail(p, fault) == fault \in Faults /\ Stay(p, "failed")

Probe(p, o, s, opt) ==
    /\ wr[p].ph \in {"idle", "done", "failed"}
    /\ n' = IF s = "manual" THEN n ELSE n + 1
    /\ n' <= MaxWrites
    /\ LET c == planCompanion(disk[o], s)
       IN /\ ~Kept(disk[o], s, opt, c.write)
          /\ wr' = [wr EXCEPT ![p] =
                 [ph |-> "planned", out |-> o, song |-> s, opt |-> opt, removes |-> c.removes,
                  cwrite |-> c.write, stale |-> disk[o][oppositeSidecar(Target(s))].k # "none",
                  v |-> IF s = "manual" THEN 0 ELSE n + 1, had |-> classifyOnDisk(disk[o]), alone |-> TRUE]]
    /\ UNCHANGED disk

(* Mutant: the companion of the replaced lyric is left for the companion write to replace. *)
RemoveNoCompanion(p) == wr[p].ph = "planned" /\ Stay(p, "temp")

RemoveCompanion(p) ==
    /\ wr[p].ph = "planned"
    /\ \/ wr[p].removes /\ Put(p, "elrc", Absent, "temp")
       \/ ~wr[p].removes /\ Stay(p, "temp")
       \/ wr[p].removes /\ Fail(p, "companion")

recheckManualMarker(p) ==
    /\ wr[p].ph = "temp"
    /\ \/ Fail(p, "temp")
       \/ Stay(p, IF refuseManualMarker(disk[wr[p].out], wr[p].song) THEN "failed" ELSE "guarded")

Unlink(p) ==
    /\ wr[p].ph = "guarded"
    /\ \/ Fail(p, "unlink")
       \/ Put(p, Target(wr[p].song), Absent, "unlinked")

Rename(p) ==
    /\ wr[p].ph = "unlinked"
    /\ \/ Fail(p, "rename")
       \/ Put(p, Target(wr[p].song), [k |-> Written(wr[p].song), v |-> wr[p].v], "renamed")

(* The opposite sidecar goes only if it is not a manual marker by now. *)
StaleCheck(p) ==
    /\ wr[p].ph = "renamed"
    /\ LET old == disk[wr[p].out][oppositeSidecar(Target(wr[p].song))]
       IN Stay(p, IF ~wr[p].stale THEN "cleared"
                  ELSE IF wr[p].song # "manual" /\ old.k = "manual" THEN "failed"
                  ELSE "checked")

StaleRemove(p) ==
    /\ wr[p].ph = "checked"
    /\ \/ "stale" \in Faults /\ Stay(p, "cleared")
       \/ Put(p, oppositeSidecar(Target(wr[p].song)), Absent, "cleared")

WriteCompanion(p) ==
    /\ wr[p].ph = "cleared"
    /\ \/ ~wr[p].cwrite /\ Stay(p, "done")
       \/ wr[p].cwrite /\ Fail(p, "elrc")
       \/ wr[p].cwrite /\ Put(p, "elrc", [k |-> "owned", v |-> wr[p].v], "done")

WriteSteps(p) == \/ RemoveCompanion(p) \/ recheckManualMarker(p) \/ Unlink(p) \/ Rename(p)
                 \/ StaleCheck(p) \/ StaleRemove(p) \/ WriteCompanion(p)

(* The process dies: every call in it is gone, the files are as they are. *)
Die == wr' = [p \in Writers |-> NoCall]

(* The writer on its own. *)
Writing(p) == (\E o \in Outs, s \in Songs \ {"manual"}, opt \in Opts : Probe(p, o, s, opt))
              \/ WriteSteps(p)
Killed == (\E p \in Writers : wr[p].ph \notin {"idle", "done", "failed"})
          /\ Die /\ UNCHANGED <<disk, n>>

WriterNext == Killed \/ \E p \in Writers : Writing(p)
WriterSpec == WritersInit /\ [][WriterNext]_wvars

-----------------------------------------------------------------------------
(* A .elrc of ours carries the word times of the very write that made the    *)
(* .lrc beside it, whatever failed or died on the way (writer.go 557-561:    *)
(* "never an older companion describing the lyric this write replaced").     *)
(* For writes that do not overlap.                                           *)
CompanionMatches ==
    \A o \in Outs : disk[o].elrc.k = "owned" =>
        disk[o].lrc.k # "none" /\ disk[o].lrc.v = disk[o].elrc.v

(* A write that returns success, unforced and undisturbed, leaves a file at   *)
(* least as good as the best one it found, the companion's lift counted.      *)
NeverDowngrades ==
    \A p \in Writers : wr[p].ph = "done" /\ wr[p].alone /\ wr[p].opt # "force" =>
        classifyOnDisk(disk[wr[p].out]) >= wr[p].had
=============================================================================
