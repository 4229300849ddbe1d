------------------------------ MODULE MCBeside ------------------------------
(***************************************************************************)
(* What runs beside the queue and the worker: the tools that change files  *)
(* and rows behind the worker's back, and the web service (who may use it, *)
(* how it starts and stops, its settings, the pages that edit and play a   *)
(* track, the reports).  A behaviour takes one part of Parts and runs its  *)
(* specification on the first of the variables x1 .. x19, the others       *)
(* standing still.  Each part composes its tool with the worker, the       *)
(* scanner and the other processes it meets; two tools are never run       *)
(* against each other here.                                                *)
(***************************************************************************)
EXTENDS Integers, TLC

CONSTANTS
    Parts,     \* the parts this run takes
    \* FlacCache
    Getters, Tracks, flacMaxConversions, MaxFiles, MaxJobs, MaxReplaced, MaxGets,
    \* Reports
    SyncVerdicts, Classes, Wts,
    \* Paging
    PageIds, Vals, TooLong, PageSize, MaxChanges,
    \* Sidecars
    Writers, Outs, WordSync, WithCompanion, FirstDisks, WriteFaults, MaxWrites,
    \* LyricBlock
    Rows, Bodies, NoBody, NoBlockRow,
    \* Server
    Hooks, ServeTasks, KeyIds, SeededKeys, ServeStarts,
    \* Runner
    RepairKeys, RepairRuns,
    \* AutoRuns, for the rows of LyricBlock
    Browsers, maxConcurrent, MaxAligned, MaxResaved,
    \* HandEdit, for the writes of Sidecars
    Editors, EditFaults, MaxEditRequests, MaxEditCrashes, maxDegradedAttempts

VARIABLES part, x1, x2, x3, x4, x5, x6, x7, x8, x9, x10, x11, x12, x13, x14,
                x15, x16, x17, x18, x19

vars == <<part, x1, x2, x3, x4, x5, x6, x7, x8, x9, x10, x11, x12, x13, x14,
          x15, x16, x17, x18, x19>>

(* Two same-stem files of one directory and a file of another, tagged or   *)
(* not; a pending row of the first and an edited one of the last.          *)
PruneDir == [p \in 1..3 |-> IF p = 3 THEN "d2" ELSE "d1"]
PruneStem == [p \in 1..3 |-> IF p = 3 THEN "s2" ELSE "s1"]
PruneLib == [p \in 1..3 |-> "lib"]
PruneIds == {[p \in 1..3 |-> i] : i \in {"", "i"}}
PruneRow(p, hand) == [st |-> "pending", path |-> p, out |-> p, retired |-> FALSE,
                      srcGone |-> FALSE, hand |-> hand]
PruneStarts == {"r1" :> PruneRow(1, FALSE) @@ "r2" :> PruneRow(3, TRUE)}

(* The sidecars a writer may find. *)
Absent == [k |-> "none", v |-> 0]
Line == [k |-> "line", v |-> 0]
Bare == [lrc |-> Absent, txt |-> Absent, elrc |-> Absent]
LineOnly == [Bare EXCEPT !.lrc = Line]
WithWords == [LineOnly EXCEPT !.elrc = [k |-> "owned", v |-> 0]]
WordFile == [Bare EXCEPT !.lrc = [k |-> "word", v |-> 0], !.elrc = [k |-> "foreign", v |-> 0]]
FoundDisks == {Bare, WithWords, WordFile}

(* Saves of single fields, of sections and of the token; what a person may *)
(* type into the file; overrides in the environment.                       *)
Requests == {
    ("disabled" :> {"pet"}), ("primary" :> "" @@ "disabled" :> {"mxm"}),
    ("self" :> TRUE), ("self" :> TRUE @@ "cert" :> FALSE @@ "key" :> FALSE),
    ("cert" :> TRUE @@ "key" :> TRUE),
    ("freq" :> "weekly" @@ "at" :> "04:00" @@ "day" :> TRUE), ("freq" :> ""),
    ("base" :> 9), ("open" :> 1), ("tok" :> TRUE) }
HandEdits == {("at" :> "bad"), ("tok" :> TRUE), ("open" :> 0 @@ "base" :> 0)}
Envs == {[f \in {} |-> 0], ("cert" :> TRUE @@ "key" :> TRUE), ("disabled" :> {"pet"})}
-----------------------------------------------------------------------------
Sw == INSTANCE Prune WITH
    id <- x1, disk <- x2, dirs <- x3, mtime <- x4, up <- x5, now <- x6,
    events <- x7, attended <- x8, led <- x9, maxScan <- x10, wq <- x11,
    links <- x12, stored <- x13, since <- x14, backup <- x15, ps <- x16,
    swept <- x17, absent <- x18, agedOut <- x19, Paths <- 1..3,
    Dirs <- {"d1", "d2"}, Libs <- {"lib"}, Rows <- {"r1", "r2"},
    Dir <- PruneDir, Lib <- PruneLib, Stem <- PruneStem,
    IdChoices <- PruneIds, Starts <- PruneStarts, Disks <- {{}, {2, 3}},
    Kinds <- {"sweep"}, Grace <- 1, Gap <- 1, AgeCap <- 1, MaxTime <- 3,
    MaxEvents <- 2, LastEvent <- 2, MaxAttended <- 0
Pr == INSTANCE Prune WITH
    id <- x1, disk <- x2, dirs <- x3, mtime <- x4, up <- x5, now <- x6,
    events <- x7, attended <- x8, led <- x9, maxScan <- x10, wq <- x11,
    links <- x12, stored <- x13, since <- x14, backup <- x15, ps <- x16,
    swept <- x17, absent <- x18, agedOut <- x19, Paths <- 1..3,
    Dirs <- {"d1", "d2"}, Libs <- {"lib"}, Rows <- {"r1", "r2"},
    Dir <- PruneDir, Lib <- PruneLib, Stem <- PruneStem,
    IdChoices <- PruneIds, Starts <- PruneStarts, Disks <- {{2, 3}},
    Kinds <- {"sweep", "exact", "path"}, Grace <- 1, Gap <- 1, AgeCap <- 1,
    MaxTime <- 2, MaxEvents <- 1, LastEvent <- 1, MaxAttended <- 1
Re == INSTANCE Realign WITH
    lrc <- x1, elrc <- x2, txt <- x3, cfg <- x4, moves <- x5, log <- x6,
    ap <- x7, intruded <- x8, Orphans <- {1, 2}, Audio <- {101, 102},
    MaxScore <- 2, MinConf <- 1, MinMargin <- 1, HasText <- {102},
    Companions <- {{}, {1}, {1, 102}, {2, 101}}, MaxIntrude <- 1
Mm == INSTANCE ManualMark WITH
    disk <- x1, wr <- x2, n <- x3, row <- x4, mk <- x5, saved <- x6,
    pass <- x7, calls <- x8, Writers <- {"worker", "marker", "other"},
    Outs <- {"o1", "o2"}, WordSync <- FALSE, Companion <- FALSE,
    Disks <- {WithWords},
    Faults <- {"unlink", "rename", "backup", "db", "remove", "crash"},
    MaxWrites <- 1, MaxCalls <- 2, Given <- {"line"}
Sc == INSTANCE Sidecars WITH
    disk <- x1, wr <- x2, n <- x3, Companion <- WithCompanion,
    Disks <- FirstDisks, Faults <- WriteFaults
Lb == INSTANCE LyricBlock WITH
    row <- x1, disk <- x2, blocks <- x3, saved <- x4, mark <- x5, wk <- x6,
    NoRow <- NoBlockRow, CanUnblock <- FALSE
Pu == INSTANCE Purge WITH
    side <- x1, comp <- x2, orig <- x3, row <- x4, scan <- x5, cached <- x6,
    backup <- x7, pg <- x8, wk <- x9, n <- x10, runs <- x11, faults <- x12,
    raced <- x13, Sources <- {"lrclib", "mxm"},
    Faults <- {"report", "db", "remove", "crash"}, MaxRuns <- 2,
    MaxWrites <- 4, MaxFaults <- 1
Id == INSTANCE Identity WITH
    tag <- x1, res <- x2, rows <- x3, links <- x4, blocked <- x5,
    snap <- x6, todo <- x7, got <- x8, retags <- x9, hands <- x10,
    forced <- x11, Files <- {"a", "b"}, Inst <- {"b"},
    Keys <- {"k0", "k1", "k2"}, First <- "k0", Ids <- 1..3,
    Outs <- {{"a", "b"}}, MaxRetags <- 2, MaxHands <- 1, MaxForced <- 0
Rc == INSTANCE Recalibrate WITH
    row <- x1, file <- x2, attempt <- x3, gate <- x4, rc <- x5, bf <- x6,
    wk <- x7, runs <- x8, claims <- x9, faults <- x10, raced <- x11,
    Scores <- {0, 1}, Gates <- {1, 2},
    Faults <- {"report", "db", "write", "remove", "read", "crash"},
    MaxRuns <- 2, MaxClaims <- 2, MaxFaults <- 1
Ga == INSTANCE Gather WITH
    backlog <- x1, ver <- x2, failed <- x3, cursor <- x4, run <- x5,
    changes <- x6, Rows <- 1..4, Limit <- 2, maxGatherPages <- 2,
    MaxChanges <- 1
Ac == INSTANCE Access WITH
    users <- x1, sessions <- x2, hashes <- x3, tokens <- x4, req <- x5,
    adminExists <- x6, secretsOf <- x7, attempts <- x8, idle <- x9,
    Reqs <- {"q1", "q2"}, Names <- {"ann", "bob"}, Passwords <- {"p", "q"},
    Clients <- {"c1"}, HashSlots <- 2, MaxFailures <- 1, MaxEntries <- 1,
    MaxHashes <- 2, MaxTokens <- 1
Li == INSTANCE Access WITH
    users <- x1, sessions <- x2, hashes <- x3, tokens <- x4, req <- x5,
    adminExists <- x6, secretsOf <- x7, attempts <- x8, idle <- x9,
    Reqs <- {"q1", "q2"}, Names <- {"ann"}, Passwords <- {"p"},
    Clients <- {"c1", "c2"}, HashSlots <- 1, MaxFailures <- 2,
    MaxEntries <- 1, MaxHashes <- 1, MaxTokens <- 1
Sv == INSTANCE Server WITH
    main <- x1, signal <- x2, cancel <- x3, serveErr <- x4, gate <- x5,
    drainer <- x6, closed <- x7, hook <- x8, bg <- x9, task <- x10,
    db <- x11, late <- x12, keys <- x13, starts <- x14, Tasks <- ServeTasks,
    Configured <- SeededKeys, MaxStarts <- ServeStarts
Ru == INSTANCE Runner WITH
    closed <- x1, live <- x2, last <- x3, run <- x4, cur <- x5,
    lastID <- x6, closer <- x7, MaxRuns <- RepairRuns
St == INSTANCE Settings WITH
    env <- x1, file <- x2, bak <- x3, store <- x4, boot <- x5, up <- x6,
    lock <- x7, sv <- x8, saves <- x9, hands <- x10, starts <- x11,
    Savers <- {"s1", "s2"}, Requests <- Requests, HandEdits <- HandEdits,
    Envs <- Envs, BadEnv <- {"day"}, Faults <- {"write", "store"},
    MaxSaves <- 2, MaxHands <- 1, MaxStarts <- 2, OpenMin <- 4,
    OpenDefault <- 6, BaseMin <- 2, BaseDefault <- 3
Au == INSTANCE AutoRuns WITH
    mt <- x1, reg <- x2, run <- x3, n <- x4, active <- x5, closed <- x6,
    page <- x7, Pages <- Browsers, MaxRuns <- MaxAligned,
    MaxEdits <- MaxResaved
Fl == INSTANCE FlacCache WITH
    cur <- x1, out <- x2, inflight <- x3, job <- x4, n <- x5, closed <- x6,
    dir <- x7, get <- x8, gets <- x9, MaxEdits <- MaxReplaced
He == INSTANCE HandEdit WITH
    row <- x1, lrc <- x2, orig <- x3, rowLock <- x4, pathLock <- x5,
    ed <- x6, wk <- x7, sweep <- x8, tags <- x9, filled <- x10,
    writes <- x11, requests <- x12, crashes <- x13, Faults <- EditFaults,
    MaxRequests <- MaxEditRequests, MaxCrashes <- MaxEditCrashes
Rp == INSTANCE Reports WITH
    w <- x1, Verdicts <- SyncVerdicts
Pg == INSTANCE Paging WITH
    order <- x1, val <- x2, member <- x3, cursor <- x4, more <- x5,
    times <- x6, steady <- x7, changes <- x8, Ids <- PageIds
-----------------------------------------------------------------------------
Init ==
    /\ part \in Parts
    /\ \/ part = "sweeps" /\ Sw!Init
       \/ part = "passes" /\ Pr!Init
       \/ part = "realign" /\ Re!Init
          /\ x9 = 0 /\ x10 = 0 /\ x11 = 0 /\ x12 = 0 /\ x13 = 0 /\
             x14 = 0 /\ x15 = 0 /\ x16 = 0 /\ x17 = 0 /\ x18 = 0 /\ x19 = 0
       \/ part = "marks" /\ Mm!Init
          /\ x9 = 0 /\ x10 = 0 /\ x11 = 0 /\ x12 = 0 /\ x13 = 0 /\
             x14 = 0 /\ x15 = 0 /\ x16 = 0 /\ x17 = 0 /\ x18 = 0 /\ x19 = 0
       \/ part = "writer" /\ Sc!WritersInit
          /\ x4 = 0 /\ x5 = 0 /\ x6 = 0 /\ x7 = 0 /\ x8 = 0 /\ x9 = 0 /\
             x10 = 0 /\ x11 = 0 /\ x12 = 0 /\ x13 = 0 /\ x14 = 0 /\
             x15 = 0 /\ x16 = 0 /\ x17 = 0 /\ x18 = 0 /\ x19 = 0
       \/ part = "blocks" /\ Lb!Init
          /\ x7 = 0 /\ x8 = 0 /\ x9 = 0 /\ x10 = 0 /\ x11 = 0 /\ x12 = 0 /\
             x13 = 0 /\ x14 = 0 /\ x15 = 0 /\ x16 = 0 /\ x17 = 0 /\
             x18 = 0 /\ x19 = 0
       \/ part = "purge" /\ Pu!Init
          /\ x14 = 0 /\ x15 = 0 /\ x16 = 0 /\ x17 = 0 /\ x18 = 0 /\ x19 = 0
       \/ part = "identity" /\ Id!Init
          /\ x12 = 0 /\ x13 = 0 /\ x14 = 0 /\ x15 = 0 /\ x16 = 0 /\
             x17 = 0 /\ x18 = 0 /\ x19 = 0
       \/ part = "recalibrate" /\ Rc!Init
          /\ x12 = 0 /\ x13 = 0 /\ x14 = 0 /\ x15 = 0 /\ x16 = 0 /\
             x17 = 0 /\ x18 = 0 /\ x19 = 0
       \/ part = "gather" /\ Ga!Init
          /\ x7 = 0 /\ x8 = 0 /\ x9 = 0 /\ x10 = 0 /\ x11 = 0 /\ x12 = 0 /\
             x13 = 0 /\ x14 = 0 /\ x15 = 0 /\ x16 = 0 /\ x17 = 0 /\
             x18 = 0 /\ x19 = 0
       \/ part = "access" /\ Ac!Init
          /\ x10 = 0 /\ x11 = 0 /\ x12 = 0 /\ x13 = 0 /\ x14 = 0 /\
             x15 = 0 /\ x16 = 0 /\ x17 = 0 /\ x18 = 0 /\ x19 = 0
       \/ part = "limiter" /\ Li!Init
          /\ x10 = 0 /\ x11 = 0 /\ x12 = 0 /\ x13 = 0 /\ x14 = 0 /\
             x15 = 0 /\ x16 = 0 /\ x17 = 0 /\ x18 = 0 /\ x19 = 0
       \/ part = "server" /\ Sv!Init
          /\ x15 = 0 /\ x16 = 0 /\ x17 = 0 /\ x18 = 0 /\ x19 = 0
       \/ part = "runner" /\ Ru!Init
          /\ x8 = 0 /\ x9 = 0 /\ x10 = 0 /\ x11 = 0 /\ x12 = 0 /\ x13 = 0 /\
             x14 = 0 /\ x15 = 0 /\ x16 = 0 /\ x17 = 0 /\ x18 = 0 /\ x19 = 0
       \/ part = "settings" /\ St!Init
          /\ x12 = 0 /\ x13 = 0 /\ x14 = 0 /\ x15 = 0 /\ x16 = 0 /\
             x17 = 0 /\ x18 = 0 /\ x19 = 0
       \/ part = "autoruns" /\ Au!Init
          /\ x8 = 0 /\ x9 = 0 /\ x10 = 0 /\ x11 = 0 /\ x12 = 0 /\ x13 = 0 /\
             x14 = 0 /\ x15 = 0 /\ x16 = 0 /\ x17 = 0 /\ x18 = 0 /\ x19 = 0
       \/ part = "flac" /\ Fl!Init
          /\ x10 = 0 /\ x11 = 0 /\ x12 = 0 /\ x13 = 0 /\ x14 = 0 /\
             x15 = 0 /\ x16 = 0 /\ x17 = 0 /\ x18 = 0 /\ x19 = 0
       \/ part = "handedit" /\ He!Init
          /\ x14 = 0 /\ x15 = 0 /\ x16 = 0 /\ x17 = 0 /\ x18 = 0 /\ x19 = 0
       \/ part = "reports" /\ Rp!Init
          /\ x2 = 0 /\ x3 = 0 /\ x4 = 0 /\ x5 = 0 /\ x6 = 0 /\ x7 = 0 /\
             x8 = 0 /\ x9 = 0 /\ x10 = 0 /\ x11 = 0 /\ x12 = 0 /\ x13 = 0 /\
             x14 = 0 /\ x15 = 0 /\ x16 = 0 /\ x17 = 0 /\ x18 = 0 /\ x19 = 0
       \/ part = "paging" /\ Pg!Init
          /\ x9 = 0 /\ x10 = 0 /\ x11 = 0 /\ x12 = 0 /\ x13 = 0 /\
             x14 = 0 /\ x15 = 0 /\ x16 = 0 /\ x17 = 0 /\ x18 = 0 /\ x19 = 0

SwNext == part = "sweeps" /\ Sw!Next
            /\ UNCHANGED <<part>>
PrNext == part = "passes" /\ Pr!Next
            /\ UNCHANGED <<part>>
ReNext == part = "realign" /\ Re!Next
            /\ UNCHANGED <<part, x9, x10, x11, x12, x13, x14, x15, x16, x17,
                           x18, x19>>
MmNext == part = "marks" /\ Mm!Next
            /\ UNCHANGED <<part, x9, x10, x11, x12, x13, x14, x15, x16, x17,
                           x18, x19>>
ScNext == part = "writer" /\ Sc!WriterNext
            /\ UNCHANGED <<part, x4, x5, x6, x7, x8, x9, x10, x11, x12, x13,
                           x14, x15, x16, x17, x18, x19>>
LbNext == part = "blocks" /\ Lb!Next
            /\ UNCHANGED <<part, x7, x8, x9, x10, x11, x12, x13, x14, x15,
                           x16, x17, x18, x19>>
PuNext == part = "purge" /\ Pu!Next
            /\ UNCHANGED <<part, x14, x15, x16, x17, x18, x19>>
IdNext == part = "identity" /\ Id!Next
            /\ UNCHANGED <<part, x12, x13, x14, x15, x16, x17, x18, x19>>
RcNext == part = "recalibrate" /\ Rc!Next
            /\ UNCHANGED <<part, x12, x13, x14, x15, x16, x17, x18, x19>>
GaNext == part = "gather" /\ Ga!Next
            /\ UNCHANGED <<part, x7, x8, x9, x10, x11, x12, x13, x14, x15,
                           x16, x17, x18, x19>>
AcNext == part = "access" /\ Ac!Next
            /\ UNCHANGED <<part, x10, x11, x12, x13, x14, x15, x16, x17,
                           x18, x19>>
LiNext == part = "limiter" /\ Li!Next
            /\ UNCHANGED <<part, x10, x11, x12, x13, x14, x15, x16, x17,
                           x18, x19>>
SvNext == part = "server" /\ Sv!Next
            /\ UNCHANGED <<part, x15, x16, x17, x18, x19>>
RuNext == part = "runner" /\ Ru!Next
            /\ UNCHANGED <<part, x8, x9, x10, x11, x12, x13, x14, x15, x16,
                           x17, x18, x19>>
StNext == part = "settings" /\ St!Next
            /\ UNCHANGED <<part, x12, x13, x14, x15, x16, x17, x18, x19>>
AuNext == part = "autoruns" /\ Au!Next
            /\ UNCHANGED <<part, x8, x9, x10, x11, x12, x13, x14, x15, x16,
                           x17, x18, x19>>
FlNext == part = "flac" /\ Fl!Next
            /\ UNCHANGED <<part, x10, x11, x12, x13, x14, x15, x16, x17,
                           x18, x19>>
HeNext == part = "handedit" /\ He!Next
            /\ UNCHANGED <<part, x14, x15, x16, x17, x18, x19>>
RpNext == part = "reports" /\ Rp!Next
            /\ UNCHANGED <<part, x2, x3, x4, x5, x6, x7, x8, x9, x10, x11,
                           x12, x13, x14, x15, x16, x17, x18, x19>>
PgNext == part = "paging" /\ Pg!Next
            /\ UNCHANGED <<part, x9, x10, x11, x12, x13, x14, x15, x16, x17,
                           x18, x19>>

Next == SwNext \/ PrNext \/ ReNext \/ MmNext \/ ScNext \/ LbNext \/
        PuNext \/ IdNext \/ RcNext \/ GaNext \/ AcNext \/ LiNext \/
        SvNext \/ RuNext \/ StNext \/ AuNext \/ FlNext \/ HeNext \/
        RpNext \/ PgNext

Spec == Init /\ [][Next]_vars
-----------------------------------------------------------------------------
(* Pruning: a row is aged out only after its file was absent at two sweeps *)
(* a gap apart and within the cap of one sweep, every deleted row is in    *)
(* the backup, no file gets two rows, a directory record never hides a     *)
(* gone file, and no row in flight is touched (internal/prune).            *)
PruneIsSafe ==
    /\ [](/\ part = "sweeps" => /\ Sw!TypeOK /\ Sw!AgedOutWasAbsent /\ Sw!DeletedIsRecorded
                               /\ Sw!OneOwner /\ Sw!RecordHidesNothing
          /\ part = "passes" => /\ Pr!TypeOK /\ Pr!AgedOutWasAbsent /\ Pr!DeletedIsRecorded
                               /\ Pr!OneOwner /\ Pr!RecordHidesNothing)
    /\ [][/\ part = "sweeps" => Sw!InFlightUntouched /\ Sw!AgeOutIsCapped
          /\ part = "passes" => Pr!InFlightUntouched /\ Pr!AgeOutIsCapped]_vars

(* Realigning: no lyric is destroyed and none overwritten, whatever call   *)
(* fails and whatever the worker writes meanwhile; the record tells where  *)
(* every moved file is (internal/realign).                                 *)
RealignIsSafe ==
    /\ [](part = "realign" => Re!TypeOK /\ Re!RecordTells /\ Re!TargetsDistinct /\ Re!NameMatchSound)
    /\ [][part = "realign" => Re!NothingDestroyed /\ Re!NeverClobbers]_vars

(* Marking a track instrumental by hand and taking the mark back: no       *)
(* marker is stranded, and what a call destroys was backed up if either of *)
(* its inventories saw it (internal/instrumentalmark).                     *)
MarksAreSafe ==
    /\ [](part = "marks" => Mm!TypeOK /\ Mm!NoStrandedMarker)
    /\ [][part = "marks" => Mm!SeenIsBackedUp /\ Mm!LateIsBackedUp]_vars

(* The writer: a companion never stays beside lyrics of another song and   *)
(* no write lowers the rung of what is there (internal/lyrics/writer.go);  *)
(* and a second Mark completes one that was interrupted (lyricblock).      *)
WritesAreSafe ==
    /\ part = "writer" => Sc!WritersTypeOK /\ Sc!CompanionMatches /\ Sc!NeverDowngrades
    /\ part = "blocks" => Lb!RetryCompletes

(* Purging by provenance: what is replaced is recorded, what is marked is  *)
(* spared, no pair is split and no original is lost (purgeprovenance).     *)
PurgeIsSafe ==
    /\ [](part = "purge" => Pu!TypeOK /\ Pu!RestoredIsUnmarked)
    /\ [][part = "purge" => /\ Pu!ReplacedIsRecorded /\ Pu!MarkedIsSpared
                            /\ Pu!PairNotSplit /\ Pu!OriginalSurvives]_vars

(* Identity repair: keys stay unique, rows in flight and rows of a person  *)
(* are left alone, blocks stay with the sung edition, merged rows keep all *)
(* outputs and a detached result is offered again (internal/identityrepair).*)
IdentityIsSafe ==
    /\ [](part = "identity" => Id!TypeOK /\ Id!KeysUnique)
    /\ [][part = "identity" => /\ Id!InFlightSpared /\ Id!HandRowKept /\ Id!SungKeepsBlocks
                               /\ Id!OutputsKept /\ Id!DetachedIsOffered]_vars

(* Instrumentals: a settled row has its marker, the stored attempt agrees  *)
(* with the row, another's file is kept, and one run asks about a row once *)
(* (internal/instrumentalrecalib, internal/instrumentalbackfill).                  *)
InstrumentalsAreSafe ==
    /\ [](part = "recalibrate" => Rc!TypeOK /\ Rc!SettledHasMarker /\ Rc!AttemptAgrees)
    /\ [](part = "gather" => Ga!TypeOK /\ Ga!OncePerRun)
    /\ [][part = "recalibrate" => Rc!ForeignFileKept]_vars

(* Access: every session belongs to a credential that still stands, first  *)
(* setup is decided once, the latch means an admin exists, and the limiter *)
(* stays bounded without letting a lockout go (internal/webauth, web/auth).*)
AccessIsSound ==
    /\ [](part = "access" => /\ Ac!TypeOK /\ Ac!SessionsMatchCredential /\ Ac!SetupDecidedOnce
                             /\ Ac!LatchMeansAdmin)
    /\ [](part = "limiter" => Li!TypeOK /\ Li!SessionsMatchCredential /\ Li!LimiterBounded)
    /\ [][part = "limiter" => Li!LockoutHolds]_vars

(* Starting and stopping: no realign before the start-up backfill is done  *)
(* or after the drain, nothing runServe waits for outlives the database, a *)
(* revoked key stays revoked (cmd serve, internal/server); and one repair  *)
(* runs at a time, each snapshot is of its run and a Close waits the run   *)
(* out (internal/repair/runner.go).                                        *)
LifecycleIsSound ==
    /\ [](/\ part = "server" => Sv!TypeOK /\ Sv!RealignAfterBackfill /\ Sv!NothingOutlivesTheDatabase
          /\ part = "runner" => /\ Ru!TypeOK /\ Ru!OneRunAtATime /\ Ru!CloseLeavesNothing
                                /\ Ru!SnapshotIsItsRun)
    /\ [][part = "server" => Sv!NoRealignAfterClose /\ Sv!RevokedStaysRevoked]_vars

(* Settings: no sequence of saves leaves a file the next start refuses,    *)
(* every resolved breaker window is ordered, and a save changes its own    *)
(* fields only (internal/config, web/settings.go).                         *)
SettingsAreSound ==
    /\ [](part = "settings" => St!TypeOK /\ St!Bootable /\ St!WindowOrdered)
    /\ [][part = "settings" => St!SaveTouchesItsOwn]_vars

(* Timing runs: the slots are counted exactly, a run no page can reach is  *)
(* cancelled, a suggestion shown was made from the file as it is, and a    *)
(* watched run is kept (internal/web/auto_run.go).                     *)
AutoRunsAreSound ==
    /\ [](part = "autoruns" => Au!TypeOK /\ Au!SlotsCounted /\ Au!UnlistedIsCanceled)
    /\ [][part = "autoruns" => Au!SuggestionCurrent /\ Au!WatchedRunKept]_vars

(* Converted audio: a version is converted once at a time, a result stays  *)
(* until it is opened, is of the version asked for, and Close is final     *)
(* (internal/web/flacfallback.go).                                           *)
FlacCacheIsSound ==
    part = "flac" => /\ Fl!TypeOK /\ Fl!ConvertedOnce /\ Fl!ResultStays
                     /\ Fl!VersionHonest /\ Fl!CloseIsFinal

(* Hand edits: an edit stays until an editor replaces it, is marked, only  *)
(* replaces what its editor saw, and keeps the fetched original            *)
(* (internal/web/preview_edit.go, internal/lyrics).                      *)
HandEditIsSafe ==
    /\ [](part = "handedit" => He!TypeOK /\ He!EditIsMarked)
    /\ [][part = "handedit" => He!HandEditKept /\ He!EditReplacesWhatWasShown /\ He!OriginalKept]_vars

(* Reports: the buckets partition the rows, tiles and lists agree with     *)
(* them, a row shown as queued or failed is, and paging lists a row that   *)
(* stands still exactly once while others move (internal/reports).         *)
ReportsAgree ==
    /\ part = "reports" => /\ Rp!TypeOK /\ Rp!BucketsPartition /\ Rp!TilesAgree /\ Rp!RecentAgrees
                           /\ Rp!QueuedMeansRetired /\ Rp!ReasonMatchesMessage /\ Rp!FailedIsShown
    /\ part = "paging" => Pg!TypeOK /\ Pg!SteadyListedOnce
=============================================================================
