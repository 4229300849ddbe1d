------------------------------- MODULE MCEnds -------------------------------
(***************************************************************************)
(* What must come to an end: dispatches, scans, repairs and the process.   *)
(* A behaviour takes one part of Parts and runs it on the first of         *)
(* x1 .. x14, the rest standing still.  Each part has the fairness its     *)
(* module's specification states, on its own steps; as one part runs, the  *)
(* parts share the formulas.                                               *)
(***************************************************************************)
EXTENDS Integers, Sequences, TLC

CONSTANT Parts   \* the parts this run takes

VARIABLES part, x1, x2, x3, x4, x5, x6, x7, x8, x9, x10, x11, x12, x13, x14

vars == <<part, x1, x2, x3, x4, x5, x6, x7, x8, x9, x10, x11, x12, x13, x14>>

LaneConfigs ==
    [mode : {"ordered", "parallel"}, det : {"back"},
        ans : {"p1" :> {"plain", "rate"} @@ "p2" :> {"transport", "rate"} @@ "dt" :> {"outage"}}]
Opt(m, b, w, e, n) == [mode |-> m, bare |-> b, window |-> w, embedded |-> e, enrich |-> n]
ScanOptions == {Opt("plain", FALSE, FALSE, "off", TRUE), Opt("update", FALSE, FALSE, "extract", TRUE)}

(* The two hooks, and the lanes, of a part by number. *)
Of(k) == <<"a", "b">>[k]
Lane(k) == <<"p1", "p2", "dt">>[k]
-----------------------------------------------------------------------------
La == INSTANCE Lanes WITH
    cfg <- x1, lane <- x2, det <- x3, call <- x4, stale <- x5, d <- x6,
    ctx <- x7, Providers <- <<"p1", "p2">>, WordLanes <- {"p1", "p2"},
    Detector <- "dt", Configs <- LaneConfigs, NotReadyBound <- 1, Base <- 1,
    Cap <- 1, Width <- 4, MaxTrips <- 1
Sn == INSTANCE Scan WITH
    truth <- x1, path <- x2, holds <- x3, edits <- x4, side <- x5,
    sides <- x6, ids <- x7, durs <- x8, fails <- x9, row <- x10,
    scan <- x11, faults <- x12, Scans <- {"s"}, Options <- ScanOptions,
    Embedded <- "none", Edits <- {"retag", "replace"},
    Faults <- {"db", "open", "probe", "link", "multivalue", "cancel"},
    MaxEdits <- 1, MaxSides <- 0, MaxFaults <- 1
Re == INSTANCE Realign WITH
    lrc <- x1, elrc <- x2, txt <- x3, cfg <- x4, moves <- x5, log <- x6,
    ap <- x7, intruded <- x8, Orphans <- {1}, Audio <- {101, 102},
    MaxScore <- 1, MinConf <- 1, MinMargin <- 1, HasText <- {102},
    MaxIntrude <- 1, Companions <- {{1}}
Pu == INSTANCE Purge WITH
    side <- x1, comp <- x2, orig <- x3, row <- x4, scan <- x5, cached <- x6,
    backup <- x7, pg <- x8, wk <- x9, n <- x10, runs <- x11, faults <- x12,
    raced <- x13, Sources <- {"lrclib", "mxm"},
    Faults <- {"report", "db", "remove", "crash"}, MaxRuns <- 2,
    MaxWrites <- 4, MaxFaults <- 1
Ga == INSTANCE Gather WITH
    backlog <- x1, ver <- x2, failed <- x3, cursor <- x4, run <- x5,
    changes <- x6, Rows <- {1, 2, 3}, Limit <- 1, maxGatherPages <- 2,
    MaxChanges <- 1
Ru == INSTANCE Runner WITH
    closed <- x1, live <- x2, last <- x3, run <- x4, cur <- x5,
    lastID <- x6, closer <- x7, RepairKeys <- {"a", "b"}, MaxRuns <- 2
Sv == INSTANCE Server WITH
    main <- x1, signal <- x2, cancel <- x3, serveErr <- x4, gate <- x5,
    drainer <- x6, closed <- x7, hook <- x8, bg <- x9, task <- x10,
    db <- x11, late <- x12, keys <- x13, starts <- x14, Hooks <- {"a", "b"},
    Tasks <- {"worker"}, KeyIds <- {"conf"}, Configured <- {"conf"},
    MaxStarts <- 1
-----------------------------------------------------------------------------
Init ==
    /\ part \in Parts
    /\ \/ part = "lanes" /\ La!Init
          /\ x8 = 0 /\ x9 = 0 /\ x10 = 0 /\ x11 = 0 /\ x12 = 0 /\ x13 = 0 /\
             x14 = 0
       \/ part = "scan" /\ Sn!Init
          /\ x13 = 0 /\ x14 = 0
       \/ part = "realign" /\ Re!Init
          /\ x9 = 0 /\ x10 = 0 /\ x11 = 0 /\ x12 = 0 /\ x13 = 0 /\ x14 = 0
       \/ part = "purge" /\ Pu!Init
          /\ x14 = 0
       \/ part = "gather" /\ Ga!Init
          /\ x7 = 0 /\ x8 = 0 /\ x9 = 0 /\ x10 = 0 /\ x11 = 0 /\ x12 = 0 /\
             x13 = 0 /\ x14 = 0
       \/ part = "runner" /\ Ru!Init
          /\ x8 = 0 /\ x9 = 0 /\ x10 = 0 /\ x11 = 0 /\ x12 = 0 /\ x13 = 0 /\
             x14 = 0
       \/ part = "server" /\ Sv!Init

LaDo(A) == part = "lanes" /\ A
            /\ UNCHANGED <<part, x8, x9, x10, x11, x12, x13, x14>>
LaNext == part = "lanes" /\ La!Next
            /\ UNCHANGED <<part, x8, x9, x10, x11, x12, x13, x14>>
SnDo(A) == part = "scan" /\ A
            /\ UNCHANGED <<part, x13, x14>>
SnNext == part = "scan" /\ Sn!Next
            /\ UNCHANGED <<part, x13, x14>>
ReDo(A) == part = "realign" /\ A
            /\ UNCHANGED <<part, x9, x10, x11, x12, x13, x14>>
ReNext == part = "realign" /\ Re!Next
            /\ UNCHANGED <<part, x9, x10, x11, x12, x13, x14>>
PuDo(A) == part = "purge" /\ A
            /\ UNCHANGED <<part, x14>>
PuNext == part = "purge" /\ Pu!Next
            /\ UNCHANGED <<part, x14>>
GaDo(A) == part = "gather" /\ A
            /\ UNCHANGED <<part, x7, x8, x9, x10, x11, x12, x13, x14>>
GaNext == part = "gather" /\ Ga!Next
            /\ UNCHANGED <<part, x7, x8, x9, x10, x11, x12, x13, x14>>
RuDo(A) == part = "runner" /\ A
            /\ UNCHANGED <<part, x8, x9, x10, x11, x12, x13, x14>>
RuNext == part = "runner" /\ Ru!Next
            /\ UNCHANGED <<part, x8, x9, x10, x11, x12, x13, x14>>
SvDo(A) == part = "server" /\ A
            /\ UNCHANGED <<part>>
SvNext == part = "server" /\ Sv!Next
            /\ UNCHANGED <<part>>

Next == LaNext \/ SnNext \/ ReNext \/ PuNext \/ GaNext \/ RuNext \/ SvNext

Spec == Init /\ [][Next]_vars
(* The k-th weakly fair step of a part. *)
GoesOn(k) ==
    \/ k < 4 /\ LaDo(La!Elapse(Lane(k)))
    \/ 3 < k /\ k < 7 /\ LaDo(La!StaleStart(Lane(k - 3)) \/ La!StaleReturn(Lane(k - 3)))
    \/ k = 7 /\ LaDo(La!Step)
    \/ k = 1 /\ SnDo(Sn!Step("s"))
    \/ k = 2 /\ SnDo(Sn!Begin("s", Opt("plain", FALSE, FALSE, "off", TRUE)))
    \/ k = 3 /\ SnDo(Sn!Begin("s", Opt("update", FALSE, FALSE, "extract", TRUE)))
    \/ k = 1 /\ ReDo(Re!Step)
    \/ k = 1 /\ PuDo(Pu!Enqueue)
    \/ k = 2 /\ PuDo(Pu!Claim)
    \/ k = 3 /\ PuDo(Pu!Complete)
    \/ k = 4 /\ PuDo(\E s \in {"lrclib", "mxm"} : Pu!Write(s))
    \/ k = 5 /\ PuDo(Pu!Purger)
    \/ k = 1 /\ GaDo(Ga!RunStep)
    \/ k < 3 /\ RuDo(Ru!Finish(k))
    \/ 2 < k /\ k < 5 /\ RuDo(Ru!CloseLive(k - 2))
    \/ 4 < k /\ k < 7 /\ RuDo(Ru!Return(k - 4) /\ Ru!Canceled(k - 4))
    \/ k = 7 /\ RuDo(Ru!CloseReturns)
    \/ k = 1 /\ SvDo(Sv!Main)
    \/ k = 2 /\ SvDo(Sv!Drainer)
    \/ 2 < k /\ k < 5 /\ SvDo(Sv!Background(Of(k - 2)))
    \/ k = 5 /\ SvDo(Sv!RunDone /\ Sv!TaskEnds("worker"))

Fairness == \A k \in 1..7 : WF_vars(GoesOn(k))

LiveSpec == Spec /\ Fairness
-----------------------------------------------------------------------------
(* What runs and must come to an end, the k-th of its part, and its end.    *)
Running(k) ==
    \/ part = "scan" /\ k = 1 /\ Sn!Readable
    \/ part = "lanes" /\ ((k = 1 /\ La!Dispatching) \/ (k = 2 /\ La!Held))
    \/ part = "realign" /\ k = 1 /\ ~Re!Applied
    \/ part = "purge" /\ k = 1 /\ Pu!Awaited
    \/ part = "gather" /\ Ga!Unreached(k)
    \/ part = "runner" /\ k < 3 /\ Ru!Canceled(k)
    \/ part = "server" /\ k = 1 /\ Sv!Told

Over(k) ==
    \/ part = "scan" /\ Sn!Offered
    \/ part = "lanes" /\ ((k = 1 /\ La!Served) \/ (k = 2 /\ La!GateLeft))
    \/ part = "realign" /\ Re!Applied
    \/ part = "purge" /\ Pu!Fetched
    \/ part = "gather" /\ ~Ga!Unreached(k)
    \/ part = "runner" /\ k < 3 /\ Ru!OffThePage(k)
    \/ part = "server" /\ Sv!Exited

(* A dispatch ends and a shut gate reopens; a readable file without a lyric *)
(* is offered by the scans; a realign reaches the end of its moves; a       *)
(* purged track that was requeued is fetched again; every file of the       *)
(* backlog is reached though the pages before it are full; a canceled       *)
(* repair leaves the page; and the process stops when told.                 *)
RunsEnd == \A k \in 1..3 : Running(k) ~> Over(k)
=============================================================================
