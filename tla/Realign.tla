------------------------------- MODULE Realign -------------------------------
(***************************************************************************)
(* Moving sidecars (internal/realign) on the verdicts of the resolver and  *)
(* of internal/revalidate: an orphaned .lrc is renamed beside the audio it *)
(* belongs to, a mis-timed one is demoted, quarantined or purged, and the  *)
(* word-synced companion follows.  Every move is recorded first; each file *)
(* system call may fail, and the worker may write beside the audio at any  *)
(* time, also between the link of the new name and the removal of the old. *)
(* A place stands for a stem: orphans, audio files, the stem's image under *)
(* the quarantine directory, and the name a purge hides a companion under. *)
(***************************************************************************)
EXTENDS Naturals, Sequences, FiniteSets, SequencesExt

CONSTANTS Orphans,    \* stems of sidecars without audio, in name order
          Audio,      \* stems of audio files, in name order, above the orphans
          MaxScore,   \* bound: name similarity is 0 .. MaxScore
          MinConf,    \* min_confidence
          MinMargin,  \* min_margin
          HasText,    \* the audio files with a .txt beside them
          Companions, \* the sets of stems that may have a companion at first
          MaxIntrude  \* bound: lyrics the worker writes meanwhile

Aside(a) == a + 1000                   \* quarantineTarget
Hidden(a) == a + 2000                  \* stageCompanion's name
Stems == Orphans \cup Audio
Places == Stems \cup {Aside(a) : a \in Audio} \cup {Hidden(a) : a \in Audio}
None == 0                              \* no file
Fresh(n) == 5000 + n                   \* the worker's n-th lyric
Stale(a) == 6000 + a                   \* a companion left beside audio a

VARIABLES lrc,     \* place -> the .lrc there, or None
          elrc,    \* place -> the owned .elrc there, or None
          txt,     \* audio -> a .txt is there
          cfg,     \* the realign configuration of this run
          moves,   \* the plan
          log,     \* the moves the backup file has a record of
          ap,      \* Apply's position
          intruded \* lyrics the worker has written

vars == <<lrc, elrc, txt, cfg, moves, log, ap, intruded>>
files == <<lrc, elrc, txt>>

Idle == [pc |-> "plan", step |-> "link", i |-> 1, comp |-> None, at |-> FALSE, made |-> FALSE]

Init ==
    /\ \E had \in [Audio -> BOOLEAN], comp \in Companions :
          /\ lrc = [p \in Places |-> IF p \in Orphans THEN p
                                     ELSE IF p \in Audio /\ had[p] THEN p ELSE None]
          /\ elrc = [p \in Places |-> IF p \notin comp THEN None
                                      ELSE IF p \in Audio THEN Stale(p) ELSE p]
    /\ txt = [a \in Audio |-> a \in HasText]
    /\ moves = <<>> /\ log = {} /\ intruded = 0
    /\ cfg \in [names : BOOLEAN, heuristic : BOOLEAN]
    /\ ap = Idle
-----------------------------------------------------------------------------
(* The resolver.                                                            *)
destinationBlocked(f, p, from) == p # from /\ f[p] # None
moveBlocked(dst, src) ==
    \/ destinationBlocked(lrc, dst, src)
    \/ elrc[src] # None /\ destinationBlocked(elrc, dst, src)
    \/ elrc[src] = None /\ elrc[dst] # None

(* resolveNameMatch: the pairs by descending score, each taken unless its   *)
(* orphan or its audio is, its score is low, or its orphan has a runner-up  *)
(* within the margin.                                                       *)
Better(s, x, y) ==
    \/ s[x[1]][x[2]] > s[y[1]][y[2]]
    \/ s[x[1]][x[2]] = s[y[1]][y[2]] /\ (x[1] < y[1] \/ (x[1] = y[1] /\ x[2] < y[2]))
Clear(s, os, as, o, a) ==
    /\ s[o][a] >= MinConf
    /\ \A b \in as \ {a} : s[o][a] >= s[o][b] + MinMargin
Take(s, os, as, taken, x) ==
    IF /\ \A y \in taken : y[1] # x[1] /\ y[2] # x[2]
       /\ Clear(s, os, as, x[1], x[2])
    THEN taken \cup {x} ELSE taken
resolveNameMatch(s, os, as) ==
    LET byScore == SetToSortSeq(os \X as, LAMBDA x, y : Better(s, x, y))
    IN  FoldSeq(LAMBDA x, taken : Take(s, os, as, taken, x), {}, Reverse(byScore))

Orphaned == {o \in Orphans : lrc[o] # None}
Missing == {a \in Audio : lrc[a] = None}
dirPair == Cardinality(Orphaned) = 1 /\ Cardinality(Missing) = 1

(* resolveExact: the audio files that share the sidecar's MBID or ISRC.     *)
resolveExact(prov, o) == IF prov[o] = {} THEN "none"
                         ELSE IF Cardinality(prov[o]) = 1 THEN "unique" ELSE "conflict"

Candidate(prov, score, o) ==
    LET only == CHOOSE a \in Audio : prov[o] = {a}
        miss == CHOOSE a \in Missing : Missing = {a}
    IN  CASE resolveExact(prov, o) = "unique" ->
               IF dirPair /\ only # miss THEN <<>>
               ELSE <<[src |-> o, dst |-> only, kind |-> "rename", exact |-> TRUE]>>
          [] resolveExact(prov, o) = "none" /\ dirPair ->
               IF Clear(score, Orphaned, Audio, o, miss)
               THEN <<[src |-> o, dst |-> miss, kind |-> "rename", exact |-> FALSE]>> ELSE <<>>
          [] OTHER -> <<>>

Claims(list, dst) == \E i \in DOMAIN list : list[i].dst = dst
Add(list, mv) ==
    IF moveBlocked(mv.dst, mv.src) \/ Claims(list, mv.dst) THEN list ELSE Append(list, mv)

classifyDir(prov, score) ==
    LET first == FoldLeft(LAMBDA list, o :
                     LET c == Candidate(prov, score, o)
                     IN  IF c = <<>> THEN list ELSE Add(list, c[1]),
                     <<>>, SetToSortSeq(Orphaned, <))
        deferred == {o \in Orphaned : resolveExact(prov, o) = "none" /\ ~dirPair}
        pairs == IF cfg.names THEN resolveNameMatch(score, deferred, Missing) ELSE {}
    IN  FoldLeft(LAMBDA list, x :
                     Add(list, [src |-> x[1], dst |-> x[2], kind |-> "rename", exact |-> FALSE]),
                 first, SetToSortSeq(pairs, LAMBDA x, y : Better(score, x, y)))

(* PlanDir on provenance tags and name similarities.                        *)
PlanRealign ==
    /\ ap.pc = "plan"
    /\ \E prov \in [Orphans -> SUBSET Audio], score \in [Orphans -> [Audio -> 0 .. MaxScore]] :
          moves' = classifyDir(prov, score)
    /\ ap' = [ap EXCEPT !.pc = "next"]
    /\ UNCHANGED <<files, cfg, log, intruded>>

(* revalidate: the actions the options come to, the timing verdict of each  *)
(* .lrc beside its audio (its duration may be unknown), and the move that   *)
(* makes of it.  A demotion keeps the words in the .txt, and takes the .lrc *)
(* away by quarantine or, under --purge, for good.                          *)
Options == [onFail : {"demote", "delete"}, purge : BOOLEAN,
            mis : {"", "demote", "quarantine", "purge", "off"},
            cat : {"", "quarantine", "purge", "off"}]
demoteRemoval(o) == IF o.mis # "demote" /\ o.purge THEN "purge" ELSE "quarantine"
misSyncedAction(o) ==
    IF o.mis # "" THEN o.mis
    ELSE IF o.onFail = "demote" THEN "demote"
    ELSE IF o.purge THEN "purge" ELSE "quarantine"
categoricalAction(o) ==
    IF o.cat # "" THEN o.cat ELSE IF o.purge THEN "purge" ELSE "quarantine"
resolvedActions(o) ==
    [misSynced |-> misSyncedAction(o), categorical |-> categoricalAction(o),
     removal |-> demoteRemoval(o)]
Resolved == {resolvedActions(o) : o \in Options}

Verdicts == {"ok", "unknown", "errored", "misSynced", "unreadable", "noWords", "categorical"}
removalMove(a, action) ==
    [src |-> a, dst |-> IF action = "purge" THEN a ELSE Aside(a),
     kind |-> action, exact |-> TRUE, words |-> FALSE]
misSyncedMove(a, act, verdict) ==
    IF act.misSynced = "off" THEN <<>>
    ELSE IF act.misSynced # "demote" THEN <<removalMove(a, act.misSynced)>>
    ELSE IF verdict = "unreadable" THEN <<>>
    ELSE IF verdict = "noWords" THEN <<removalMove(a, act.removal)>>
    ELSE <<[removalMove(a, act.removal) EXCEPT
              !.words = TRUE, !.kind = IF @ = "purge" THEN @ ELSE "demote"]>>
judge(a, act, verdict) ==
    CASE verdict \in {"misSynced", "unreadable", "noWords"} -> misSyncedMove(a, act, verdict)
      [] verdict = "categorical" /\ act.categorical # "off" -> <<removalMove(a, act.categorical)>>
      [] OTHER -> <<>>
PlanRemedy ==
    /\ ap.pc = "plan"
    /\ \E act \in Resolved, v \in [{a \in Audio : lrc[a] # None} -> Verdicts] :
          moves' = FoldLeft(LAMBDA list, a : list \o judge(a, act, v[a]),
                            <<>>, SetToSortSeq(DOMAIN v, <))
    /\ ap' = [ap EXCEPT !.pc = "next"]
    /\ UNCHANGED <<files, cfg, log, intruded>>
-----------------------------------------------------------------------------
(* Apply, one move after another.                                           *)
mv == moves[ap.i]
At(pc) == ap.pc = pc
Onward == ap' = [Idle EXCEPT !.pc = "next", !.i = ap.i + 1]
GatedMove(m) == ~m.exact /\ ~cfg.heuristic
Gated == GatedMove(mv)
rollbackBackup == log' \in {log, log \ {ap.i}}     \* the truncation may fail

(* The gate, then the record.  A record that cannot be written skips its    *)
(* move, a backup file that cannot be opened ends Apply.                    *)
BackupOpened == \E j \in 1 .. ap.i - 1 : ~GatedMove(moves[j])
Record ==
    /\ At("next") /\ ap.i <= Len(moves)
    /\ \/ Gated /\ Onward /\ UNCHANGED log
       \/ ~Gated /\ Onward /\ UNCHANGED log
       \/ ~Gated /\ ~BackupOpened /\ ap' = [ap EXCEPT !.pc = "end"] /\ UNCHANGED log
       \/ ~Gated /\ log' = log \cup {ap.i}
          /\ ap' = [ap EXCEPT !.pc = "check", !.comp = elrc[mv.src]]
    /\ UNCHANGED <<files, cfg, moves, intruded>>

Finish ==
    /\ At("next") /\ ap.i > Len(moves)
    /\ ap' = [ap EXCEPT !.pc = "end"]
    /\ UNCHANGED <<files, cfg, moves, log, intruded>>

(* renameOrCopy: a link, or an exclusive copy, never over a file; then the  *)
(* old name is removed by its path, whatever it is by now; a link whose old *)
(* name stays is taken back when both names are still one file.             *)
Hiding == mv.kind = "purge"
Held == IF Hiding THEN Hidden(mv.src) ELSE mv.dst
Job == CASE ap.pc \in {"rename", "aside"} -> [words |-> FALSE, from |-> mv.src, to |-> mv.dst]
         [] At("undo")    -> [words |-> FALSE, from |-> mv.dst, to |-> mv.src]
         [] At("comp")    -> [words |-> TRUE, from |-> mv.src, to |-> mv.dst]
         [] At("restore") -> [words |-> TRUE, from |-> Held, to |-> mv.src]
Moving == ap.pc \in {"rename", "aside", "undo", "comp", "restore"}
There(p) == IF Job.words THEN elrc[p] ELSE lrc[p]
Becomes(p, x) == IF Job.words THEN elrc' = [elrc EXCEPT ![p] = x] /\ UNCHANGED lrc
                              ELSE lrc' = [lrc EXCEPT ![p] = x] /\ UNCHANGED elrc

Goto(pc) == ap' = [ap EXCEPT !.pc = pc, !.step = "link"]
TextTaken == txt' \in {txt, [txt EXCEPT ![mv.src] = @ /\ ~ap.made]}

(* What follows a move that is done: the companion of a rename; the .lrc of *)
(* a remediation whose companion is away.                                   *)
Moved ==
    /\ CASE At("rename") /\ ap.comp # None -> Goto("comp") /\ UNCHANGED log
         [] At("comp") /\ mv.kind # "rename" ->
               ap' = [ap EXCEPT !.pc = "text", !.step = "link", !.at = TRUE] /\ UNCHANGED log
         [] ap.pc \in {"undo", "restore"} -> Onward /\ rollbackBackup
         [] OTHER -> Onward /\ UNCHANGED log
    /\ UNCHANGED txt

(* ... and one that is not: a companion seen at its new name, refused or    *)
(* not, keeps its record; else the pair's .lrc goes back.  An undo that     *)
(* fails keeps the record.                                                  *)
CompFailed ==
    \/ elrc'[mv.dst] # None /\ Onward /\ UNCHANGED log
    \/ /\ elrc'[mv.dst] = None \/ ap.step = "link"
       /\ IF mv.kind = "rename" THEN Goto("undo") /\ UNCHANGED log ELSE Onward /\ rollbackBackup
NotMoved ==
    CASE At("comp")   -> CompFailed /\ UNCHANGED txt
      [] At("rename") -> Onward /\ rollbackBackup /\ UNCHANGED txt
      [] At("aside")  -> Goto("putback") /\ TextTaken /\ UNCHANGED log
      [] OTHER        -> Onward /\ UNCHANGED <<log, txt>>

Link ==
    /\ Moving /\ ap.step = "link" /\ (At("aside") => ~Hiding)
    /\ \/ /\ There(Job.from) # None /\ There(Job.to) = None
          /\ Becomes(Job.to, There(Job.from))
          /\ ap' = [ap EXCEPT !.step = "unlink"] /\ UNCHANGED <<txt, log>>
       \/ UNCHANGED <<lrc, elrc>> /\ NotMoved
    /\ UNCHANGED <<cfg, moves, intruded>>
removeSource ==
    /\ Moving /\ ap.step = "unlink"
    /\ \/ There(Job.from) # None /\ Becomes(Job.from, None) /\ Moved
       \/ /\ There(Job.from) # None /\ There(Job.from) = There(Job.to)
          /\ ap' = [ap EXCEPT !.step = "back"] /\ UNCHANGED <<files, log>>
       \/ UNCHANGED <<lrc, elrc>> /\ NotMoved
    /\ UNCHANGED <<cfg, moves, intruded>>
unlinkAfterLink ==
    /\ Moving /\ ap.step = "back"
    /\ Becomes(Job.to, None) \/ UNCHANGED <<lrc, elrc>>
    /\ NotMoved
    /\ UNCHANGED <<cfg, moves, intruded>>

(* A rename looks at its destination once more.                             *)
Blocked == moveBlocked(mv.dst, mv.src)
Check ==
    /\ At("check") /\ mv.kind = "rename"
    /\ IF Blocked THEN Onward /\ rollbackBackup ELSE Goto("rename") /\ UNCHANGED log
    /\ UNCHANGED <<files, cfg, moves, intruded>>

(* A remediation: the .lrc's own refusals, the companion, then the .lrc.    *)
checkRemediation == lrc[mv.src] # None
stageCompanion ==
    /\ elrc' = [elrc EXCEPT ![Hidden(mv.src)] = elrc[mv.src], ![mv.src] = None]
    /\ ap' = [ap EXCEPT !.pc = "text", !.at = elrc[mv.src] # None]
CheckRemedy ==
    /\ At("check") /\ mv.kind # "rename"
    /\ \/ ~checkRemediation /\ Onward /\ rollbackBackup /\ UNCHANGED elrc
       \/ checkRemediation /\ ap.comp = None /\ Goto("text") /\ UNCHANGED <<elrc, log>>
       \/ checkRemediation /\ ap.comp # None /\ ~Hiding /\ Goto("comp") /\ UNCHANGED <<elrc, log>>
       \/ checkRemediation /\ ap.comp # None /\ Hiding /\ stageCompanion /\ UNCHANGED log
       \/ checkRemediation /\ ap.comp # None /\ Hiding /\ Onward /\ rollbackBackup
          /\ UNCHANGED elrc
    /\ UNCHANGED <<lrc, txt, cfg, moves, intruded>>

(* writeDemotedText: exclusive; a .txt already there wins.                  *)
writeDemotedText ==
    /\ At("text")
    /\ \/ ~mv.words /\ Goto("aside") /\ UNCHANGED txt
       \/ mv.words /\ txt' = [txt EXCEPT ![mv.src] = TRUE]
          /\ ap' = [ap EXCEPT !.pc = "aside", !.made = ~txt[mv.src]]
       \/ mv.words /\ Goto("putback") /\ UNCHANGED txt
    /\ UNCHANGED <<lrc, elrc, cfg, moves, log, intruded>>

(* Purging removes the .lrc by its path, then the hidden companion.         *)
Purge ==
    /\ At("aside") /\ Hiding
    /\ \/ lrc' = [lrc EXCEPT ![mv.src] = None] /\ Goto("unhide") /\ UNCHANGED txt
       \/ TextTaken /\ Goto("putback") /\ UNCHANGED lrc
    /\ UNCHANGED <<elrc, cfg, moves, log, intruded>>
Unhide ==
    /\ At("unhide")
    /\ elrc' \in {elrc, [elrc EXCEPT ![Hidden(mv.src)] = None]}
    /\ Onward
    /\ UNCHANGED <<lrc, txt, cfg, moves, log, intruded>>

(* After a failed step of the .lrc its companion, when it went, goes back.  *)
CompBackDiscarded ==
    /\ elrc' = [elrc EXCEPT ![Held] = None]
    /\ Onward /\ UNCHANGED log
CompBack == Goto("restore") /\ UNCHANGED <<elrc, log>>
Putback ==
    /\ At("putback")
    /\ IF ap.at THEN CompBack ELSE Onward /\ rollbackBackup /\ UNCHANGED elrc
    /\ UNCHANGED <<lrc, txt, cfg, moves, intruded>>

(* The worker writes a lyric beside an audio file: WriteLRC replaces the    *)
(* .lrc and the companion it owns.                                          *)
Intrude(a) ==
    /\ intruded < MaxIntrude /\ ~At("plan") /\ ~At("end")
    /\ intruded' = intruded + 1
    /\ lrc' = [lrc EXCEPT ![a] = Fresh(intruded + 1)]
    /\ \E c \in {None, Fresh(intruded + 1)} : elrc' = [elrc EXCEPT ![a] = c]
    /\ UNCHANGED <<txt, cfg, moves, log, ap>>

Step == \/ PlanRealign \/ PlanRemedy \/ Record \/ Finish \/ Check
        \/ Link \/ removeSource \/ unlinkAfterLink
        \/ CheckRemedy \/ writeDemotedText \/ Purge \/ Unhide \/ Putback
Next == Step \/ \E a \in Audio : Intrude(a)
Spec == Init /\ [][Next]_vars /\ WF_vars(Step)
-----------------------------------------------------------------------------
TypeOK ==
    /\ lrc \in [Places -> Places \cup {None} \cup {Fresh(n) : n \in 1 .. MaxIntrude}]
    /\ elrc \in [Places -> Places \cup {None} \cup {Stale(a) : a \in Audio}
                                  \cup {Fresh(n) : n \in 1 .. MaxIntrude}]
    /\ txt \in [Audio -> BOOLEAN]
    /\ log \subseteq DOMAIN moves /\ intruded \in 0 .. MaxIntrude
    /\ ap.i \in 1 .. Len(moves) + 1 /\ (ap.pc \in {"plan", "end", "next"} => ap.comp = None)

Found == Stems \cup {Stale(a) : a \in Audio}
Lyrics == {lrc[p] : p \in Places} \cap Found
Words == {elrc[p] : p \in Places} \cap Found

(* No step of Apply costs a lyric or a companion that was there when it     *)
(* planned its last copy, whichever call fails: a purge takes its own pair  *)
(* only, and a move takes a name away when the other has the file, or had   *)
(* it before the worker wrote that stem (realign.go:394-532, 1159-1204).    *)
(* What the worker writes under the old name between a move's link and its  *)
(* removal is not covered: the removal is by path and takes that.           *)
WorkerWrote(p) == lrc[p] \notin Found \cup {None}
TakenByMove == IF ~Moving THEN {}
               ELSE IF ap.step = "unlink" /\ WorkerWrote(Job.to) THEN {There(Job.from)}
               ELSE IF ap.step = "back" /\ WorkerWrote(Job.from) THEN {There(Job.to)} ELSE {}
NothingDestroyed ==
       ap' # ap =>
         /\ Lyrics \subseteq Lyrics' \cup TakenByMove
                              \cup IF At("aside") /\ Hiding THEN {lrc[mv.src]} ELSE {}
         /\ Words \subseteq Words' \cup TakenByMove
                            \cup IF At("unhide") THEN {elrc[Hidden(mv.src)]} ELSE {}

(* ... and none replaces a file: what was at a place before the step is     *)
(* there after it, or nothing is (renameOrCopy, undoMove).                  *)
NeverClobbers ==
       ap' # ap => \A p \in Places : /\ lrc[p] # None => lrc'[p] \in {lrc[p], None}
                                     /\ elrc[p] # None => elrc'[p] \in {elrc[p], None}

(* The undo trail is complete: a finished move with no record has left both *)
(* files of its pair where they were (rollbackBackup only after undoMove).  *)
RecordTells ==
    \A i \in 1 .. ap.i - 1 : i <= Len(moves) /\ i \notin log =>
        /\ lrc[moves[i].src] # None
        /\ moves[i].src \in Orphans => elrc[moves[i].src] \in {None, moves[i].src}
                                       /\ ~\E p \in Places \ {moves[i].src} : elrc[p] = moves[i].src

(* No two moves of a plan aim at one place, whatever tags and names say.    *)
TargetsDistinct ==
    \A i, j \in DOMAIN moves : moves[i].kind = "rename" /\ moves[j].kind = "rename"
                               /\ moves[i].dst = moves[j].dst => i = j

(* resolveNameMatch pairs one to one, above the bar and clear of the        *)
(* runner-up, and an orphan with such an audio goes without it only when    *)
(* another orphan has it by at least as good a score.                       *)
NameMatchSound ==
    At("plan") => \A s \in [Orphans -> [Audio -> 0 .. MaxScore]] :
        LET P == resolveNameMatch(s, Orphans, Audio) IN
        /\ \A x, y \in P : (x[1] = y[1] \/ x[2] = y[2]) => x = y
        /\ \A x \in P : Clear(s, Orphans, Audio, x[1], x[2])
        /\ \A o \in Orphans, a \in Audio : Clear(s, Orphans, Audio, o, a) =>
              \/ \E x \in P : x[1] = o /\ s[o][x[2]] >= s[o][a]
              \/ \E x \in P : x[2] = a /\ s[x[1]][a] >= s[o][a]

(* Apply reaches the end of its moves.                                      *)
Applied == At("end")
ApplyEnds == <>Applied
=============================================================================
