------------------------------ MODULE MCFetch -------------------------------
(***************************************************************************)
(* The way of a track from the file to the lyric, part by part: the scan   *)
(* timer, the scanner, adoption, the dispatch to the provider lanes, what  *)
(* the provider clients keep and what the worker's pass puts on record.  A *)
(* behaviour takes one part of Parts and runs its specification on the     *)
(* first of the variables x1 .. x12, the others standing still.            *)
(***************************************************************************)
EXTENDS Integers, TLC

CONSTANTS
    Parts,         \* the parts this run takes
    \* Scan
    Scans, ScanOptions, Embedded, ScanEdits, ScanFaults, MaxEdits, MaxSides, MaxFaults,
    \* Token, Pacer and Outage
    TokenLookups, TokenFaults, MaxMints, MaxSaves, MaxStarts, MaxExpired,
    Callers, Bases, PacerWidth, adaptiveMaxLevel, adaptiveSuccessThreshold,
    adaptiveDecayInterval, PacerNow, MaxSlot, MaxThrottles,
    Probers, ZeroResultThreshold, MaxFails,
    \* Lanes
    Providers, WordLanes, Detector, LaneChoices, NotReadyBound,
    LaneBase, LaneCap, LaneWidth, LaneTrips

VARIABLES part, x1, x2, x3, x4, x5, x6, x7, x8, x9, x10, x11, x12

vars == <<part, x1, x2, x3, x4, x5, x6, x7, x8, x9, x10, x11, x12>>

ProviderOrder == <<"p1", "p2">>

(* Every kind of answer meets every other in at least one configuration. *)
Answering(a1, a2, ad) == "p1" :> a1 @@ "p2" :> a2 @@ "dt" :> ad
LaneConfigs ==
    LET all == {"word", "line", "plain", "flagged", "demoted", "refused", "unfit", "blocked", "nomatch"}
        errs == {"nomatch", "hollow", "rate", "renewal", "forbidden", "latched", "transport"}
        mix == {"line", "demoted", "refused", "blocked", "nomatch", "rate"}
        heard == {"inst", "vocal", "notready", "outage"}
    IN  [mode : {"ordered", "parallel"}, det : {"none"},
            ans : {Answering(all, all, {}), Answering(mix, errs, {}), Answering(errs, mix, {})}]
        \cup
        [mode : {"ordered", "parallel"}, det : {"front", "back"},
            ans : {Answering({"plain", "demoted", "hollow", "rate"}, {"nomatch", "refused"}, heard)}]

Opt(m, b, w, e, n) == [mode |-> m, bare |-> b, window |-> w, embedded |-> e, enrich |-> n]
OptionChoices == {Opt("plain", FALSE, FALSE, "off", TRUE), Opt("update", FALSE, FALSE, "off", TRUE),
                  Opt("upgrade", FALSE, TRUE, "off", FALSE), Opt("upgrade", TRUE, FALSE, "extract", TRUE)}
AdoptStem == [f \in {"a", "b", "c"} |-> IF f = "c" THEN "s2" ELSE "s1"]

(* One row and one file, with everything but upgrade trips, backfill and lost *)
(* stamps: see RecordDescribesDisk.                                          *)
RecordLib == "s" :> "b"
RecordFeatures == {"word", "detector", "manual", "operator", "webhook", "rescan",
                   "prune", "shutdown", "crash"}

(* Days of three hours of two ticks, weeks of two days. *)
Cadence(f, at, d, e) == [freq |-> f, at |-> at, day |-> d, every |-> e, onStart |-> FALSE]
Cadences ==
    {Cadence("daily", at, 0, 0) : at \in 0..5} \cup
    {Cadence("weekly", at, d, 0) : at \in 0..5, d \in 0..1} \cup
    {Cadence("", 0, 0, e) : e \in {0, 3}} \cup
    {Cadence("hourly", 0, 0, 0), Cadence("off", 0, 0, 0),
     [Cadence("off", 0, 0, 0) EXCEPT !.onStart = TRUE]}
-----------------------------------------------------------------------------
La == INSTANCE Lanes WITH
    cfg <- x1, lane <- x2, det <- x3, call <- x4, stale <- x5, d <- x6,
    ctx <- x7, Configs <- LaneChoices, Base <- LaneBase, Cap <- LaneCap,
    Width <- LaneWidth, MaxTrips <- LaneTrips
Br == INSTANCE Breaker WITH
    b <- x1, Base <- 3, Cap <- 13, Width <- 5, MaxTrips <- 8
Pa == INSTANCE Pacer WITH
    kind <- x1, base <- x2, now <- x3, last <- x4, level <- x5,
    streak <- x6, changed <- x7, caller <- x8, taken <- x9,
    throttled <- x10, throttles <- x11, Width <- PacerWidth,
    MaxNow <- PacerNow
Ou == INSTANCE Outage WITH
    alive <- x1, zero <- x2, latched <- x3, control <- x4, probing <- x5,
    lk <- x6, misses <- x7, fails <- x8, Lookups <- Probers
To == INSTANCE Token WITH
    store <- x1, owner <- x2, sv <- x3, lk <- x4, renewMu <- x5, dead <- x6,
    mints <- x7, saves <- x8, starts <- x9, writes <- x10,
    Lookups <- TokenLookups, Faults <- TokenFaults
Sn == INSTANCE Scan WITH
    truth <- x1, path <- x2, holds <- x3, edits <- x4, side <- x5,
    sides <- x6, ids <- x7, durs <- x8, fails <- x9, row <- x10,
    scan <- x11, faults <- x12, Options <- ScanOptions, Edits <- ScanEdits,
    Faults <- ScanFaults
Ad == INSTANCE Adopt WITH
    present <- x1, lyric <- x2, sr <- x3, forced <- x4, found <- x5,
    row <- x6, links <- x7, backup <- x8, ad <- x9, en <- x10, n <- x11,
    Files <- {"a", "c"}, Stem <- AdoptStem, MaxMoves <- 1, MaxForced <- 1,
    MaxFaults <- 1
As == INSTANCE Adopt WITH
    present <- x1, lyric <- x2, sr <- x3, forced <- x4, found <- x5,
    row <- x6, links <- x7, backup <- x8, ad <- x9, en <- x10, n <- x11,
    Files <- {"a", "b"}, Stem <- AdoptStem, MaxMoves <- 1, MaxForced <- 1,
    MaxFaults <- 1
Rc == INSTANCE Serve WITH
    row <- x1, scan <- x2, link <- x3, key <- x4, pass <- x5, disk <- x6,
    enq <- x7, bf <- x8, Rows <- {"w"}, Scans <- {"s"}, Libs <- {"b"},
    LibOf <- RecordLib, NoScan <- "none", NoRow <- "none", MaxWaits <- 1,
    AttCap <- 0, MissCap <- 0, MaxMiss <- 0, UpgradeMaxAttempts <- 1,
    Verdicts <- {"synced", "below"}, Features <- RecordFeatures
Sd == INSTANCE Schedule WITH
    sch <- x1, zone <- x2, early <- x3, now <- x4, pc <- x5, armed <- x6,
    next <- x7, left <- x8, occ <- x9, ran <- x10, slept <- x11,
    HourLen <- 2, DayHours <- 3, WeekDays <- 2, Changes <- {10, 12},
    Shifts <- -2..2, Cadences <- Cadences, MaxNow <- 18, MaxSuspends <- 1
-----------------------------------------------------------------------------
Init ==
    /\ part \in Parts
    /\ \/ part = "lanes" /\ La!Init
          /\ x8 = 0 /\ x9 = 0 /\ x10 = 0 /\ x11 = 0 /\ x12 = 0
       \/ part = "breaker" /\ Br!Init
          /\ x2 = 0 /\ x3 = 0 /\ x4 = 0 /\ x5 = 0 /\ x6 = 0 /\ x7 = 0 /\
             x8 = 0 /\ x9 = 0 /\ x10 = 0 /\ x11 = 0 /\ x12 = 0
       \/ part = "pacer" /\ Pa!Init
          /\ x12 = 0
       \/ part = "outage" /\ Ou!Init
          /\ x9 = 0 /\ x10 = 0 /\ x11 = 0 /\ x12 = 0
       \/ part = "token" /\ To!Init
          /\ x11 = 0 /\ x12 = 0
       \/ part = "scan" /\ Sn!Init
       \/ part = "adopt" /\ Ad!Init
          /\ x12 = 0
       \/ part = "siblings" /\ As!Init
          /\ x12 = 0
       \/ part = "record" /\ Rc!ServeInit
          /\ x9 = 0 /\ x10 = 0 /\ x11 = 0 /\ x12 = 0
       \/ part = "schedule" /\ Sd!Init
          /\ x12 = 0

LaNext == part = "lanes" /\ La!Next
            /\ UNCHANGED <<part, x8, x9, x10, x11, x12>>
BrNext == part = "breaker" /\ Br!Next
            /\ UNCHANGED <<part, x2, x3, x4, x5, x6, x7, x8, x9, x10, x11,
                           x12>>
PaNext == part = "pacer" /\ Pa!Next
            /\ UNCHANGED <<part, x12>>
OuNext == part = "outage" /\ Ou!Next
            /\ UNCHANGED <<part, x9, x10, x11, x12>>
ToNext == part = "token" /\ To!Next
            /\ UNCHANGED <<part, x11, x12>>
SnNext == part = "scan" /\ Sn!Next
            /\ UNCHANGED <<part>>
AdNext == part = "adopt" /\ Ad!Next
            /\ UNCHANGED <<part, x12>>
AsNext == part = "siblings" /\ As!Next
            /\ UNCHANGED <<part, x12>>
RcNext == part = "record" /\ Rc!ServeNext
            /\ UNCHANGED <<part, x9, x10, x11, x12>>
SdNext == part = "schedule" /\ Sd!Next
            /\ UNCHANGED <<part, x12>>

Next == LaNext \/ BrNext \/ PaNext \/ OuNext \/ ToNext \/ SnNext \/
        AdNext \/ AsNext \/ RcNext \/ SdNext

Spec == Init /\ [][Next]_vars
-----------------------------------------------------------------------------
(* A dispatch serves the best of the answers it received, calls a track    *)
(* wordless only when every word lane said so, reports a miss only on an   *)
(* answer and a refusal only when every lane was tried; and every lane's   *)
(* breaker stays a Breaker, whoever calls it (internal/orchestrator).      *)
DispatchIsSound ==
    /\ [](part = "lanes" => /\ La!WellConfigured /\ La!InstalledOnce
                            /\ La!TypeOK /\ La!BestReceivedWins /\ La!WordAbsentIsUnanimous
                            /\ La!MissIsAnAnswer /\ La!RefusedOnlyWhenAllTried
                            /\ La!LanesClosedMeansRecovered)
    /\ [][part = "lanes" => La!LanesKeepBreakers]_vars

(* A breaker that lets callers through at full rate has recovered, and a   *)
(* trip's window is the doubled one however many trips came before         *)
(* (internal/circuit, internal/backoff).                                   *)
BreakerIsExact ==
    /\ [](part = "breaker" => Br!TypeOK /\ Br!ClosedMeansRecovered)
    /\ [][part = "breaker" => Br!WindowExact]_vars

(* What a provider client keeps: slots stay spaced and easing waits for    *)
(* quiet (petitlyrics/pacer), an outage is declared on a run that stands   *)
(* and probed once at a time (petitlyrics/outage), a renewal never takes a *)
(* token an operator saved and the identity record describes a minted one  *)
(* (musixmatch/token).                                                     *)
ClientsAreSound ==
    /\ [](/\ part = "pacer" => Pa!TypeOK /\ Pa!SlotsSpaced
          /\ part = "outage" => Ou!TypeOK /\ Ou!OneProbe
          /\ part = "token" => To!Bounded /\ To!TypeOK /\ To!RecordMeansMinted)
    /\ [][/\ part = "pacer" => Pa!EasesOnlyInQuiet
          /\ part = "outage" => Ou!OutageNeedsRun
          /\ part = "token" => To!RenewalSparesOperator]_vars

(* The scanner: cached tags and durations are those of the file version    *)
(* their stamp names, a skipped file is unreadable, and a marked track is  *)
(* never offered, whatever is retagged or replaced during the scan         *)
(* (internal/scanner).                                                     *)
ScanIsHonest ==
    part = "scan" => /\ Sn!TypeOK /\ Sn!IdentityHonest /\ Sn!DurationHonest
                     /\ Sn!SkipMeansUnreadable /\ Sn!MarkedNeverOffered

(* Adoption: what it made is in the backup, a row in flight keeps its file, *)
(* a person's row is never reopened, and a copy of a song cannot reopen    *)
(* the row of another copy (internal/scan/adopt.go, internal/queue/adopt.go).*)
AdoptionIsSafe ==
    /\ [](/\ part = "adopt" => Ad!TypeOK /\ Ad!AdoptionRecorded
          /\ part = "siblings" => As!TypeOK /\ As!AdoptionRecorded)
    /\ [][/\ part = "adopt" => Ad!InFlightStays /\ Ad!HandKept /\ Ad!CopiesKeepApart
          /\ part = "siblings" => As!InFlightStays /\ As!HandKept /\ As!CopiesKeepApart]_vars

(* A done row's file record describes the file on disk, unless prune retired *)
(* the row (internal/worker/worker.go, stampOutcome and what it is told).    *)
RecordDescribesDisk == part = "record" => Rc!RecordDescribesDisk

(* The scan timer: the next run is ahead of the clock, none is passed over *)
(* and no occurrence runs twice, also across a change of the zone's offset *)
(* (internal/schedule).                                                    *)
ScheduleIsSound ==
    /\ [](part = "schedule" => Sd!TypeOK /\ Sd!StrictlyAhead /\ Sd!NoneSkipped)
    /\ [][part = "schedule" => Sd!OccurrenceOnce]_vars
=============================================================================
