--------------------------------- MODULE Prune ---------------------------------
(***************************************************************************)
(* Pruning (internal/prune): what becomes of the ledger's and the queue's  *)
(* rows whose source file is gone.  Three passes run the same reconcile:   *)
(* "sweep", the periodic directory sweep with its stored directory times   *)
(* and its ageing marks; "exact", the attended `scan reconcile-paths`; and *)
(* "path", the watcher's PrunePath.  Files and directories come and go and *)
(* roots drop out, the scanner indexes, and the worker claims, while a     *)
(* pass is between its reads and its transactions.                         *)
(***************************************************************************)
EXTENDS Integers, FiniteSets, SequencesExt

CONSTANTS Paths,       \* the source paths, numbers in the order of their names
          Dirs, Libs, Rows,
          Dir,         \* Paths -> Dirs
          Lib,         \* Paths -> Libs
          Stem,        \* Paths -> stems: two paths of a directory that share
                       \* one differ by their extension only
          IdChoices,   \* the functions Paths -> recording ids, "" for untagged
          Starts,      \* the initial queues
          Disks,       \* the sets of files that may be there at first
          Kinds,       \* the passes that run
          Grace,       \* goneGrace
          Gap,         \* goneConfirmGap
          AgeCap,      \* ageOutMaxPerSweep
          MaxTime,     \* bound: clock ticks
          MaxEvents,   \* bound: file and root events, scans, claims and crashes
          LastEvent,   \* bound: none of them, but for a crash, after this time
          MaxAttended  \* bound: passes other than the periodic sweep

VARIABLES id,       \* the recording each file is tagged with
          disk,     \* path -> the file is there
          dirs,     \* directory -> it exists
          mtime,    \* directory -> its modification time
          up,       \* library -> its root is mounted
          now, events, attended,
          led,      \* path -> id of its scan_results row, 0 when there is none
          maxScan,  \* MAX(scan_results.id)
          wq,       \* row -> its work_queue columns
          links,    \* row -> the paths of its work_queue_scan_results
          stored,   \* prune_dir_state
          since,    \* prune_gone_since
          backup,   \* the aged-out rows each pass recorded in its backup
          ps,       \* pass -> its local state
          swept,    \* a sweep ran since the last tick
          absent,   \* history: path -> the passes that listed its directory
                    \* while it was not there
          agedOut   \* history: the aged-out deletes

fs == <<disk, dirs, mtime, up, events>>
db == <<led, maxScan, wq, links>>
marks == <<stored, since>>
hist == <<absent, agedOut>>
vars == <<id, fs, db, marks, now, attended, backup, ps, swept, hist>>

NoRow == [st |-> "none", path |-> 0, out |-> 0, retired |-> FALSE, srcGone |-> FALSE, hand |-> FALSE]
NoRec == [mtime |-> -1, mark |-> -1]
NoMark == [first |-> -1, conf |-> 0]
heldMark == -1
Idle == [pc |-> "idle"]

Init ==
    /\ id \in IdChoices
    /\ \E there \in Disks : disk = [p \in Paths |-> p \in there]
    /\ dirs = [d \in Dirs |-> TRUE]
    /\ mtime = [d \in Dirs |-> 0] /\ up = [l \in Libs |-> TRUE]
    /\ now = 1 /\ events = 0 /\ attended = 0
    /\ wq \in Starts
    /\ links = [r \in Rows |-> {p \in Paths : p = wq[r].path}]
    /\ led = [p \in Paths |-> IF \E r \in Rows : wq[r].path = p THEN p ELSE 0] /\ maxScan = Max(Paths)
    /\ stored = [d \in Dirs |-> NoRec] /\ since = [p \in Paths |-> NoMark]
    /\ backup = {} /\ swept = FALSE
    /\ ps = [k \in Kinds |-> Idle]
    /\ absent = [p \in Paths |-> {}] /\ agedOut = {}
-----------------------------------------------------------------------------
(* What a stat sees: an unmounted root leaves nothing below it.              *)
Present(p) == disk[p] /\ up[Lib[p]]
DirPresent(d) == dirs[d] /\ \A p \in Paths : Dir[p] = d => up[Lib[p]]
Siblings(p) == {q \in Paths \ {p} : Dir[q] = Dir[p] /\ Stem[q] = Stem[p]}

(* availableRoots: a root that cannot be read, or is empty, is not touched. *)
dirPopulated(l) == up[l] /\ \E p \in Paths : Lib[p] = l /\ dirs[Dir[p]]

(* gatherCandidates of one source path.                                     *)
Candidate(p) ==
    LET here == {r \in Rows : wq[r].st # "none" /\ wq[r].path = p}
        work == {r \in here : wq[r].st # "processing"}
    IN  [work |-> work,
         proc |-> here # work,
         scan |-> led[p],
         out |-> [r \in work |-> wq[r].out],
         id |-> IF led[p] # 0 \/ here # {} THEN id[p] ELSE "",
         settled |-> work # {} /\ \A r \in work : wq[r].st = "done",
         retired |-> work # {} /\ \A r \in work : wq[r].retired]

IsCandidate(p) == led[p] # 0 \/ \E r \in Rows : wq[r].st # "none" /\ wq[r].path = p

(* loadDirState drops a confirmation that cannot be right.                   *)
Loaded(m) ==
    IF m.conf > 0 /\ (m.conf > now \/ now - m.first < Grace) THEN [m EXCEPT !.conf = 0] ELSE m

NoObs == [known |-> FALSE, exists |-> TRUE, examine |-> FALSE, record |-> FALSE,
          gone |-> 0, retry |-> FALSE, mtime |-> -1]

(* Sweep, PrunePath: the pass reads the queue, the roots and the marks.      *)
Begin(k) ==
    /\ ps[k].pc = "idle"
    /\ IF k = "sweep" THEN ~swept ELSE attended < MaxAttended
    /\ attended' = IF k = "sweep" THEN attended ELSE attended + 1
    /\ ps' = [ps EXCEPT ![k] =
          [pc |-> "look", at |-> now,
           todo |-> {p \in Paths : IsCandidate(p) /\ dirPopulated(Lib[p])},
           all |-> {p \in Paths : IsCandidate(p)},
           cand |-> [p \in Paths |-> Candidate(p)],
           roots |-> {l \in Libs : dirPopulated(l)},
           stored |-> stored, mark |-> maxScan,
           since |-> [p \in Paths |-> Loaded(since[p])], raw |-> since,
           seen |-> [d \in Dirs |-> NoObs],
           list |-> [d \in Dirs |-> [read |-> FALSE, names |-> {}]],
           pool |-> [known |-> FALSE, refs |-> {}, led |-> led],
           aged |-> {}, relinks |-> {}, prunes |-> {}, due |-> {}, done |-> {}]]
    /\ UNCHANGED <<id, fs, db, marks, now, backup, swept, hist>>
-----------------------------------------------------------------------------
(* dirMtimes.observe: once per directory and sweep.                         *)
Observe(s, d) ==
    IF s.seen[d].known THEN s.seen[d]
    ELSE LET rec == s.stored[d] IN
         [known |-> TRUE, exists |-> DirPresent(d),
          examine |-> DirPresent(d) /\ (rec.mtime # mtime[d] \/ (rec.mark # -1 /\ s.mark > rec.mark)),
          record |-> DirPresent(d) /\ mtime[d] < s.at,
          gone |-> 0, retry |-> FALSE, mtime |-> mtime[d]]

Due(s, p) == s.since[p].first # -1 /\ s.at - s.since[p].first >= Grace
Holding(s, p) == s.since[p].conf = heldMark
ConfirmedDue(s, p) == s.since[p].conf # 0 /\ s.at - s.since[p].conf >= Gap

(* An unchanged directory is not looked into, but for a mark that is due.    *)
Skips(s, p, o) == o.exists /\ ~o.examine /\ (Holding(s, p) \/ ~Due(s, p))
-----------------------------------------------------------------------------
(* classify.  The outcome of a source that is gone.                         *)
Out(o, held) == [out |-> o, held |-> held, retire |-> FALSE, to |-> 0, scan |-> 0, keep |-> FALSE, orRetire |-> FALSE]
Retained(retire, held) == [Out("retain", held) EXCEPT !.retire = retire]
RelinkTo(q, scan, keep, orRetire) ==
    [Out("relink", FALSE) EXCEPT !.to = q, !.scan = scan, !.keep = keep, !.orRetire = orRetire]

(* ownershipConflict: another row at the target, or linked to its file.      *)
OwnedByNone(w, l, own, q, keep) == FALSE
Owned(w, l, own, q, keep) ==
    own # {} /\ \E r \in Rows \ own :
        w[r].st # "none" /\ ((keep /\ w[r].path = q) \/ q \in l[r])

(* trySiblingRelink: [hit, c].                                              *)
trySiblingRelink(policy, p, c) ==
    LET live == {q \in Siblings(p) : led[q] # 0 /\ Present(q)}
        q == CHOOSE x \in live : TRUE
        kept == Retained(policy = "full" /\ ~c.settled /\ c.id = "", TRUE)
        stop == IF c.settled /\ c.id = "" THEN Out("settled", TRUE) ELSE kept
    IN  IF c.work = {} \/ live = {} THEN [hit |-> FALSE, c |-> kept]
        ELSE [hit |-> TRUE,
              c |-> IF Cardinality(live) > 1 THEN stop
                    ELSE IF c.id # "" /\ id[q] # "" /\ id[q] # c.id THEN kept
                    ELSE IF Owned(wq, links, c.work, q, TRUE) THEN stop
                    ELSE RelinkTo(q, led[q], TRUE, policy = "full" /\ ~c.settled /\ c.id = "")]

(* tryNameRelink: every file of the model carries the same title; the match *)
(* must be the only one in the library's index, and still be there.          *)
NamePool(s, p) == {q \in Paths \ {p} : led[q] # 0 /\ Lib[q] = Lib[p] /\ Lib[q] \in s.roots}
NameMatch(s, p, c) ==
    {q \in NamePool(s, p) : c.work # {} /\ c.scan # 0 /\ Cardinality(NamePool(s, p)) = 1 /\ Present(q)}

(* ResolveExact over the present files, indexed once per pass.               *)
PoolOf(s) ==
    IF s.pool.known THEN s.pool
    ELSE [known |-> TRUE, led |-> led,
          refs |-> {q \in Paths : led[q] # 0 /\ id[q] # "" /\ Lib[q] \in s.roots /\ Present(q)}]
Exact(s, p, c) ==
    {q \in PoolOf(s).refs : id[q] = c.id /\ (c.scan # 0 => Lib[q] = Lib[p])}

classify(s, policy, p, c) ==
    LET sib == trySiblingRelink(policy, p, c)
        named == NameMatch(s, p, c)
        nameHeld == policy = "inFolder" /\ named # {}
        exact == Exact(s, p, c)
    IN  CASE c.id = "" /\ sib.hit -> sib.c
          [] c.id = "" /\ ~sib.hit /\ c.settled /\ ~c.retired -> Out("settled", FALSE)
          [] c.id = "" /\ ~sib.hit /\ ~(c.settled /\ ~c.retired) ->
                IF policy = "full" /\ named # {}
                THEN LET q == CHOOSE q \in named : TRUE IN RelinkTo(q, led[q], FALSE, ~c.settled)
                ELSE IF c.settled THEN Out("settled", nameHeld)
                ELSE Retained(policy = "full" /\ c.work # {}, nameHeld)
          [] c.id # "" /\ policy = "inFolder" -> IF sib.hit THEN sib.c ELSE Out("retain", FALSE)
          [] c.id # "" /\ policy # "inFolder" ->
                IF Cardinality(exact) = 1
                THEN LET q == CHOOSE q \in exact : TRUE IN RelinkTo(q, PoolOf(s).led[q], FALSE, FALSE)
                ELSE IF sib.hit THEN sib.c
                ELSE IF exact # {} \/ policy = "relinkOrRetain" THEN Out("retain", FALSE)
                ELSE Out("prune", FALSE)
-----------------------------------------------------------------------------
(* identityHeld: a file of the same recording is there, or cannot be seen.   *)
identityHeld(s, p, c) ==
    c.id # "" /\ \E q \in Paths \ {p} : led[q] # 0 /\ id[q] = c.id /\ (Lib[q] \notin s.roots \/ Present(q))

(* Files of other libraries the rows are linked to; and one that is there.   *)
LinkedElsewhere(w, l, work, p) == {q \in UNION {l[r] : r \in work} : q # p /\ Lib[q] # Lib[p]}
sharedAcrossLibraries(p, c) == c.scan # 0 /\ LinkedElsewhere(wq, links, c.work, p) # {}
anyPresent(s, qs) == \E q \in qs : Lib[q] \notin s.roots \/ Present(q)

(* replacementOnDisk: the directory is listed once per pass; one that cannot *)
(* be read, or holds nothing, refuses.  A directory holds sidecars too, so   *)
(* it is empty only when it cannot be seen.                                  *)
Listing(s, d) ==
    IF s.list[d].read THEN s.list[d]
    ELSE [read |-> TRUE,
          names |-> IF DirPresent(d) THEN {q \in Paths : Dir[q] = d /\ disk[q]} \cup {0} ELSE {}]
Replaced(s, p) ==
    LET names == Listing(s, Dir[p]).names IN
    names = {} \/ \E q \in names \cap Paths : Stem[q] = Stem[p]
(* History: what a fresh listing of a directory really showed to be missing. *)
Witnessed(s, d) ==
    [q \in Paths |-> IF Dir[q] = d /\ ~s.list[d].read /\ DirPresent(d) /\ ~disk[q]
                     THEN absent[q] \cup {s.at} ELSE absent[q]]
Listed(s, p) == [s EXCEPT !.list[Dir[p]] = Listing(s, Dir[p])]

Forget(s, p) == [s EXCEPT !.since[p] = NoMark]
Mark(s, p) ==
    IF s.seen[Dir[p]].record /\ s.since[p].first = -1
    THEN [s EXCEPT !.since[p] = [first |-> s.at, conf |-> 0]] ELSE s

retireKeepsStatus(w, work) ==
    [r \in Rows |-> IF r \in work /\ w[r].st = "pending" THEN [w[r] EXCEPT !.retired = TRUE] ELSE w[r]]
retireUnresolvable(w, work) ==
    [r \in Rows |-> IF r \in work /\ w[r].st = "pending"
                    THEN [w[r] EXCEPT !.st = "done", !.retired = TRUE, !.srcGone = FALSE] ELSE w[r]]

(* reconcile, first loop: one source path.                                  *)
PolicyOf(k, inFolder) ==
    CASE k = "path" -> "relinkOrRetain" [] k # "path" /\ inFolder -> "inFolder" [] OTHER -> "full"

Look(k, p) ==
    LET s0 == ps[k]
        c == s0.cand[p]
        sw == k = "sweep"
        o == Observe(s0, Dir[p])
        missing == ~Present(p)
        isGone == IF sw THEN ~o.exists \/ (~Skips(s0, p, o) /\ missing) ELSE missing
        looked == sw /\ o.exists /\ ~Skips(s0, p, o)
        o1 == [o EXCEPT !.gone = IF looked /\ missing THEN @ + 1 ELSE @,
                        !.retry = @ \/ (isGone /\ c.proc)]
        s1 == IF sw THEN [s0 EXCEPT !.seen[Dir[p]] = o1] ELSE s0
        s2 == IF looked /\ ~missing THEN Forget(s1, p) ELSE s1
        s3 == [s2 EXCEPT !.todo = @ \ {p}]
        policy == PolicyOf(k, sw /\ o.exists)
        cg == classify(s0, policy, p, c)
        s4 == IF c.id # "" /\ policy # "inFolder"
              THEN [s3 EXCEPT !.pool = PoolOf(s0)] ELSE s3
        free == /\ policy = "inFolder" \/ (k = "exact" /\ ConfirmedDue(s0, p))
                /\ ~cg.held /\ cg.out # "relink"
                /\ ~identityHeld(s0, p, c) /\ ~sharedAcrossLibraries(p, c)
        ageable == free /\ (sw \/ ~Replaced(s4, p))
        s5 == IF ~free THEN (IF sw THEN Forget(s4, p) ELSE s4)
              ELSE IF sw THEN Mark(s4, p) ELSE Listed(s4, p)
        age == ageable /\ (~sw \/ Due(s5, p))
        stop == ~isGone \/ c.proc
    IN  /\ s0.pc = "look" /\ p \in s0.todo /\ p = Min(s0.todo)
        /\ ps' = [ps EXCEPT ![k] =
              IF stop THEN s3
              ELSE IF age THEN [s5 EXCEPT !.aged = @ \cup {p}]
              ELSE CASE cg.out = "relink" -> [s5 EXCEPT !.relinks = @ \cup {[p |-> p, cg |-> cg]}]
                     [] cg.out = "prune" /\ ~anyPresent(s0, LinkedElsewhere(wq, links, c.work, p))
                          -> [s5 EXCEPT !.prunes = @ \cup {p}]
                     [] OTHER -> s5]
        /\ wq' = IF ~stop /\ ~age /\ cg.out = "retain" /\ cg.retire
                 THEN retireUnresolvable(wq, c.work) ELSE wq
        /\ absent' = IF ~stop /\ free /\ ~sw THEN Witnessed(s4, Dir[p]) ELSE absent
        /\ UNCHANGED <<id, fs, led, maxScan, links, marks, now, attended, backup, swept, agedOut>>

(* The second loop: one aged row, statted again and its directory listed.    *)
ConfirmAtOnce(s, p) == IF s.since[p].conf = heldMark THEN s ELSE [s EXCEPT !.due = @ \cup {p}]
Confirm(s, p) ==
    IF s.since[p].conf = heldMark THEN s
    ELSE IF s.since[p].conf = 0 THEN [s EXCEPT !.since[p].conf = s.at]
    ELSE IF s.at - s.since[p].conf >= Gap THEN [s EXCEPT !.due = @ \cup {p}] ELSE s

Recheck(k, p) ==
    LET s == ps[k]
        s1 == Listed([s EXCEPT !.aged = @ \ {p}], p)
        back == Present(p) \/ Replaced(s, p)
    IN  /\ s.pc = "look" /\ s.todo = {} /\ p \in s.aged /\ p = Min(s.aged)
        /\ ps' = [ps EXCEPT ![k] =
              IF back THEN (IF k = "sweep" THEN Forget(s1, p) ELSE s1)
              ELSE IF k = "sweep" THEN Confirm(s1, p)
              ELSE [s1 EXCEPT !.due = @ \cup {p}]]
        /\ absent' = IF Present(p) THEN absent ELSE Witnessed(s, Dir[p])
        /\ UNCHANGED <<id, fs, db, marks, now, attended, backup, swept, agedOut>>

(* The age-out breaker: more than the cap, held ones counted, and the whole  *)
(* batch waits for an attended sweep.                                        *)
HeldCount(s) == Cardinality({p \in s.all : Holding(s, p)})
TrippedByHeld(k, s) == k = "sweep" /\ HeldCount(s) > AgeCap
Tripped(k, s) == k = "sweep" /\ HeldCount(s) + Cardinality(s.due) > AgeCap
Batch(k) ==
    LET s == ps[k] IN
    /\ s.pc = "look" /\ s.todo = {} /\ s.aged = {}
    /\ ps' = [ps EXCEPT ![k] =
          IF Tripped(k, s)
          THEN [s EXCEPT !.pc = "relink", !.due = {},
                         !.since = [p \in Paths |-> IF p \in s.due THEN [@[p] EXCEPT !.conf = heldMark] ELSE @[p]]]
          ELSE [s EXCEPT !.pc = "relink"]]
    /\ UNCHANGED <<id, fs, db, marks, now, attended, backup, swept, hist>>
-----------------------------------------------------------------------------
(* Deleting a scan_results row takes its links with it.                      *)
DropScan(t, p, scan) ==
    IF /\ t.led[p] = scan /\ scan # 0
       /\ ~\E r \in Rows : t.wq[r].st = "processing" /\ p \in t.links[r]
    THEN [t EXCEPT !.led[p] = 0, !.links = [r \in Rows |-> t.links[r] \ {p}]]
    ELSE t

(* relinkOne, in the relinks' transaction: every row of the candidate moves, *)
(* or none.  A row hand-edited or marked keeps its status.  A link to a      *)
(* ledger row that is not there any more fails the transaction.              *)
Writable(t, c, r) == t.wq[r].st \notin {"none", "processing"} /\ t.wq[r].out = c.out[r]
Moved(w, c, q, keep) ==
    LET at == [w EXCEPT !.path = q, !.out = IF keep THEN @ ELSE q] IN
    IF ~c.retired THEN at
    ELSE IF w.hand THEN at
    ELSE IF w.srcGone THEN [at EXCEPT !.retired = FALSE, !.srcGone = FALSE]
    ELSE [at EXCEPT !.st = "pending", !.retired = FALSE]

relinkOne(c, e, t) ==
    LET q == e.cg.to
        t1 == [t EXCEPT !.wq = [r \in Rows |-> IF r \in c.work THEN Moved(@[r], c, q, e.cg.keep) ELSE @[r]],
                        !.links = [r \in Rows |-> IF r \in c.work THEN @[r] \cup {q} ELSE @[r]],
                        !.applied = @ \cup {e.p}]
    IN  IF Owned(t.wq, t.links, c.work, q, e.cg.keep) THEN [t EXCEPT !.declined = @ \cup {e}]
        ELSE IF \E r \in c.work : ~Writable(t, c, r)
        THEN [t EXCEPT !.declined = @ \cup {e}, !.raced = @ \cup {e.p}]
        ELSE IF c.work # {} /\ t.led[q] # e.cg.scan THEN [t EXCEPT !.failed = TRUE]
        ELSE DropScan(t1, e.p, c.scan)

(* applyRelinks, in the order of the sources, and the retire of what it      *)
(* declined; a relinked source is no gone row of its directory, a raced one  *)
(* is looked at again.  A failed transaction ends the pass.                  *)
applyRelinks(k) ==
    LET s == ps[k]
        step(t, e) == relinkOne(s.cand[e.p], e, t)
        t == FoldLeft(step, [wq |-> wq, links |-> links, led |-> led, failed |-> FALSE,
                             applied |-> {}, declined |-> {}, raced |-> {}],
                      SetToSortSeq(s.relinks, LAMBDA x, y : x.p < y.p))
        retire == UNION {s.cand[e.p].work : e \in {x \in t.declined : x.cg.orRetire}}
        count(qs, d) == Cardinality({p \in qs : Dir[p] = d})
    IN  /\ s.pc = "relink"
        /\ IF t.failed
           THEN ps' = [ps EXCEPT ![k] = Idle] /\ UNCHANGED <<wq, links, led>>
           ELSE /\ wq' = retireUnresolvable(t.wq, retire)
                /\ links' = t.links /\ led' = t.led
                /\ ps' = [ps EXCEPT ![k] =
                      [s EXCEPT !.pc = "record", !.relinks = {},
                         !.seen = [d \in Dirs |-> [@[d] EXCEPT !.gone = @ - count(t.applied, d),
                                                               !.retry = @ \/ count(t.raced, d) > 0]]]]
        /\ UNCHANGED <<id, fs, maxScan, marks, now, attended, backup, swept, hist>>

(* deletePruned: an aged-out source is written to the backup before its      *)
(* delete, or is not deleted.                                                *)
RecordedOrNot(s, failed) == s.due
Recorded(s, failed) == s.due \ failed
Record(k) ==
    LET s == ps[k] IN
    /\ s.pc = "record"
    /\ \E failed \in SUBSET s.due :
          /\ ps' = [ps EXCEPT ![k] = [s EXCEPT !.pc = "delete", !.due = Recorded(s, failed)]]
          /\ backup' = backup \cup ({k} \X UNION {s.cand[p].work : p \in s.due \ failed})
    /\ UNCHANGED <<id, fs, db, marks, now, attended, swept, hist>>

(* deletePrunedTx: a worker's row and its ledger row stay; a row that moved  *)
(* is not this source's any more.                                            *)
DeletableInFlight(r, p) == wq[r].st # "none" /\ wq[r].path = p
Deletable(r, p) == wq[r].st \notin {"none", "processing"} /\ wq[r].path = p
Guarded(s, p) == p \in s.prunes /\ anyPresent(s, LinkedElsewhere(wq, links, s.cand[p].work, p))
deletePruned(k) ==
    LET s == ps[k]
        todo == {p \in s.prunes \cup s.due : ~Guarded(s, p)}
        gone == {r \in Rows : \E p \in todo : r \in s.cand[p].work /\ Deletable(r, p)}
        rows == [wq |-> [r \in Rows |-> IF r \in gone THEN NoRow ELSE wq[r]],
                 links |-> [r \in Rows |-> IF r \in gone THEN {} ELSE links[r]], led |-> led]
        drop(p, t) == DropScan(t, p, s.cand[p].scan)
        t == FoldSet(drop, rows, todo)
        lost == {p \in s.due : \/ \E r \in gone : r \in s.cand[p].work
                               \/ t.led[p] # led[p]}
    IN  /\ s.pc = "delete"
        /\ wq' = t.wq /\ links' = t.links /\ led' = t.led
        /\ agedOut' = agedOut \cup {[row |-> x[1], path |-> x[2], by |-> k, at |-> s.at,
                                      first |-> s.since[x[2]].first]
                                    : x \in {y \in gone \X s.due : y[1] \in s.cand[y[2]].work}}
        /\ backup' = backup \ ({k} \X UNION {s.cand[p].work \ gone : p \in s.due})
        /\ ps' = [ps EXCEPT ![k] =
              [s EXCEPT !.pc = "save",
                 !.seen = [d \in Dirs |-> [@[d] EXCEPT !.gone = @ - Cardinality({p \in lost : Dir[p] = d})]]]]
        /\ UNCHANGED <<id, fs, maxScan, marks, now, attended, swept, absent>>

(* dirMtimes.save, or, after an attended sweep, the release of held marks.   *)
SavedUnmarked(s, d) ==
    LET o == s.seen[d] IN
    IF o.known /\ o.exists /\ o.record THEN [mtime |-> o.mtime, mark |-> -1] ELSE NoRec
Saved(s, d) ==
    LET o == s.seen[d] IN
    CASE ~o.known -> IF \E p \in Paths : Dir[p] = d /\ Lib[p] \notin s.roots THEN stored[d] ELSE NoRec
      [] o.known /\ o.exists /\ ~o.examine -> stored[d]
      [] o.known /\ o.exists /\ o.examine /\ o.record /\ ~o.retry ->
            [mtime |-> o.mtime, mark |-> IF o.gone > 0 THEN s.mark ELSE -1]
      [] OTHER -> NoRec
Changed(s, p) == s.since[p] # s.raw[p]
Orphan(p) == led[p] = 0 /\ ~\E r \in Rows : wq[r].st # "none" /\ wq[r].path = p

Save(k) ==
    LET s == ps[k] IN
    /\ s.pc = "save"
    /\ CASE k = "sweep" ->
              /\ stored' = [d \in Dirs |-> Saved(s, d)]
              /\ since' = [p \in Paths |-> IF Orphan(p) THEN NoMark
                                           ELSE IF Changed(s, p) THEN s.since[p] ELSE since[p]]
         [] k = "exact" ->
              /\ since' = [p \in Paths |-> IF since[p].conf = heldMark
                                           THEN [since[p] EXCEPT !.conf = since[p].first] ELSE since[p]]
              /\ UNCHANGED stored
         [] OTHER -> UNCHANGED marks
    /\ ps' = [ps EXCEPT ![k] = Idle]
    /\ swept' = (swept \/ (k = "sweep" /\ s.at = now))
    /\ UNCHANGED <<id, fs, db, now, attended, backup, hist>>

(* The process stops, or a read or a transaction of the pass fails.          *)
Abort(k) ==
    /\ ps[k].pc # "idle" /\ events < MaxEvents
    /\ events' = events + 1
    /\ ps' = [ps EXCEPT ![k] = Idle]
    /\ UNCHANGED <<id, disk, dirs, mtime, up, db, marks, now, attended, backup, swept, hist>>
-----------------------------------------------------------------------------
(* The world: files, directories and mounts.                                 *)
Event == now <= LastEvent /\ events < MaxEvents /\ events' = events + 1
FileGone(p) ==
    /\ Event /\ disk[p]
    /\ disk' = [disk EXCEPT ![p] = FALSE] /\ mtime' = [mtime EXCEPT ![Dir[p]] = now]
    /\ UNCHANGED <<id, dirs, up, db, marks, now, attended, backup, ps, swept, hist>>
FileBack(p) ==
    /\ Event /\ ~disk[p] /\ dirs[Dir[p]]
    /\ disk' = [disk EXCEPT ![p] = TRUE] /\ mtime' = [mtime EXCEPT ![Dir[p]] = now]
    /\ UNCHANGED <<id, dirs, up, db, marks, now, attended, backup, ps, swept, hist>>
DirGone(d) ==
    /\ Event /\ dirs[d]
    /\ dirs' = [dirs EXCEPT ![d] = FALSE]
    /\ disk' = [p \in Paths |-> disk[p] /\ Dir[p] # d]
    /\ UNCHANGED <<id, mtime, up, db, marks, now, attended, backup, ps, swept, hist>>
Mount(l) ==
    /\ Event /\ up' = [up EXCEPT ![l] = ~@]
    /\ UNCHANGED <<id, disk, dirs, mtime, db, marks, now, attended, backup, ps, swept, hist>>

(* The scanner indexes a file and queues it, unless a row has it already.    *)
ScanFile(p, r) ==
    /\ Event /\ Present(p) /\ led[p] = 0
    /\ led' = [led EXCEPT ![p] = maxScan + 1] /\ maxScan' = maxScan + 1
    /\ IF \E x \in Rows : wq[x].st # "none" /\ wq[x].path = p
       THEN /\ links' = [x \in Rows |-> IF wq[x].st # "none" /\ wq[x].path = p THEN links[x] \cup {p} ELSE links[x]]
            /\ UNCHANGED wq
       ELSE IF wq[r].st = "none"
       THEN /\ wq' = [wq EXCEPT ![r] = [NoRow EXCEPT !.st = "pending", !.path = p, !.out = p]]
            /\ links' = [links EXCEPT ![r] = {p}]
       ELSE UNCHANGED <<wq, links>>
    /\ UNCHANGED <<id, disk, dirs, mtime, up, marks, now, attended, backup, ps, swept, hist>>

(* The worker.                                                               *)
Claim(r) ==
    /\ Event /\ wq[r].st = "pending"
    /\ wq' = [wq EXCEPT ![r].st = "processing"]
    /\ UNCHANGED <<id, disk, dirs, mtime, up, led, maxScan, links, marks, now, attended, backup, ps, swept, hist>>
Settle(r) ==
    /\ wq[r].st = "processing"
    /\ \E to \in {"pending", "done"} : wq' = [wq EXCEPT ![r].st = to]
    /\ UNCHANGED <<id, fs, led, maxScan, links, marks, now, attended, backup, ps, swept, hist>>
(* SettleGoneUpgradeTrip: retired, with the source recorded as gone.         *)
SettleGone(r) ==
    /\ wq[r].st = "processing" /\ ~Present(wq[r].path)
    /\ wq' = [wq EXCEPT ![r].st = "done", ![r].retired = TRUE, ![r].srcGone = TRUE]
    /\ UNCHANGED <<id, fs, led, maxScan, links, marks, now, attended, backup, ps, swept, hist>>

(* One sweep runs between any two ticks: its period is far below Grace and   *)
(* Gap.                                                                      *)
Tick ==
    /\ now < MaxTime /\ swept
    /\ now' = now + 1 /\ swept' = FALSE
    /\ UNCHANGED <<id, fs, db, marks, attended, backup, ps, hist>>

PassStep(k) ==
    \/ Begin(k) \/ Batch(k) \/ applyRelinks(k) \/ Record(k) \/ deletePruned(k) \/ Save(k)
    \/ \E p \in Paths : Look(k, p) \/ Recheck(k, p)

Next ==
    \/ \E k \in Kinds : PassStep(k) \/ Abort(k)
    \/ \E p \in Paths : FileGone(p) \/ FileBack(p) \/ \E r \in Rows : ScanFile(p, r)
    \/ \E d \in Dirs : DirGone(d)
    \/ \E l \in Libs : Mount(l)
    \/ \E r \in Rows : Claim(r) \/ Settle(r) \/ SettleGone(r)
    \/ Tick

Spec ==
    /\ Init /\ [][Next]_vars
    /\ \A k \in Kinds : WF_vars(PassStep(k))
    /\ \A r \in Rows : WF_vars(Settle(r))
    /\ WF_vars(Tick)
-----------------------------------------------------------------------------
(* A row the worker has claimed keeps its path, its status and its ledger    *)
(* rows: no pass moves, retires or deletes it, also when it was claimed      *)
(* after the pass read it (prune.go:2671, 2686, 2838, 2855).                 *)
InFlightUntouched ==
       \A r \in Rows : wq[r].st = "processing" =>
          /\ wq'[r].path = wq[r].path /\ wq'[r].st # "none"
          /\ links[r] \subseteq links'[r]
          /\ wq'[r].st = "processing" \/ ps' = ps

(* An aged-out delete comes Grace after the first mark, and two sweeps that  *)
(* began at least Gap apart listed the directory while the file was really   *)
(* not in it: no unmounted root, no file that came back for a while, and no  *)
(* skipped directory ages a row out (prune.go:866-974, dirstate.go:211).     *)
AgedOutWasAbsent ==
    \A a \in agedOut :
        /\ a.at - a.first >= Grace
        /\ \E t, u \in absent[a.path] : t >= a.first + Grace /\ u - t >= Gap /\ u <= a.at

(* Every row deleted by age is in the backup, and was before its delete      *)
(* (prune.go:2746, 2769).  A row scanned again under its id is another row.  *)
DeletedIsRecorded == \A a \in agedOut : <<a.by, a.row>> \in backup \/ wq[a.row].st # "none"

(* The periodic sweep ages out at most AgeCap sources, those it holds        *)
(* counted, so an emptied directory waits for an attended one (979-987).     *)
AgeOutIsCapped ==
    Cardinality({a.path : a \in {x \in agedOut' \ agedOut : x.by = "sweep"}}) <= AgeCap

(* No two rows come to own one file: not two relinks of one transaction, and *)
(* not a relink and the scanner's own row (1534, 1752).                      *)
OneOwner ==
    \A q, r \in Rows : q # r /\ wq[q].st # "none" /\ wq[r].st # "none" => wq[q].path # wq[r].path

(* The stored directory times hide no gone file: where the next sweep will   *)
(* skip a directory, every source gone from it is either ageing or leaves    *)
(* the directory to be examined at the next new ledger row                   *)
(* (dirstate.go:131-173, 289-312).                                           *)
RecordHidesNothing ==
    \A p \in Paths :
        (IsCandidate(p) /\ ~disk[p] /\ dirs[Dir[p]] /\ stored[Dir[p]].mtime = mtime[Dir[p]]) =>
            since[p].first # -1 \/ stored[Dir[p]].mark # -1

TypeOK ==
    /\ disk \in [Paths -> BOOLEAN] /\ dirs \in [Dirs -> BOOLEAN]
    /\ \A p \in Paths : disk[p] => dirs[Dir[p]]
    /\ wq \in [Rows -> [st : {"none", "pending", "processing", "done"}, path : Paths \cup {0}, out : Paths \cup {0},
                        retired : BOOLEAN, srcGone : BOOLEAN, hand : BOOLEAN]]
    /\ \A r \in Rows : /\ wq[r].st = "none" <=> wq[r].path = 0
                       /\ links[r] \subseteq {p \in Paths : led[p] # 0}
                       /\ wq[r].retired => wq[r].st = "done"
    /\ led \in [Paths -> 0 .. maxScan]
    /\ since \in [Paths -> [first : -1 .. MaxTime, conf : -1 .. MaxTime]]
    /\ stored \in [Dirs -> [mtime : -1 .. MaxTime, mark : -1 .. maxScan]]
    /\ ps \in [Kinds -> [pc : {"idle"}]] \/ \A k \in Kinds : ps[k].pc \in
          {"idle", "look", "relink", "record", "delete", "save"}
=============================================================================
