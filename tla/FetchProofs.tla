---------------------------- MODULE FetchProofs -----------------------------
(***************************************************************************)
(* What holds of MCFetch for every value of its constants: the parts that  *)
(* SourceProofs and LanesProofs prove about, put together.  A part runs    *)
(* its component's specification on the first of the variables of MCFetch  *)
(* and keeps the others, so what is proved of the component holds of the   *)
(* part once the component's two instances are seen to be the same.        *)
(***************************************************************************)
EXTENDS MCFetch, Integers, Sequences, TLAPS

P == INSTANCE SourceProofs WITH
    truth <- x1, path <- x2, holds <- x3, edits <- x4, side <- x5, sides <-
    x6, ids <- x7, durs <- x8, fails <- x9, row <- x10, scan <- x11, faults
    <- x12, store <- x1, owner <- x2, sv <- x3, lk <- x4, renewMu <- x5, dead
    <- x6, mints <- x7, saves <- x8, starts <- x9, writes <- x10, kind <- x1,
    base <- x2, now <- x3, last <- x4, level <- x5, streak <- x6, changed <-
    x7, caller <- x8, taken <- x9, throttled <- x10, throttles <- x11, alive
    <- x1, zero <- x2, latched <- x3, control <- x4, probing <- x5, pr <- x6,
    misses <- x7, unmade <- x8, Width <- PacerWidth, MaxNow <- PacerNow
L == INSTANCE LanesProofs WITH
    cfg <- x1, lane <- x2, det <- x3, call <- x4, stale <- x5, d <- x6, ctx
    <- x7, Configs <- LaneChoices, Base <- LaneBase, Cap <- LaneCap, Width <-
    LaneWidth, MaxTrips <- LaneTrips

(* A behaviour stays in the part it starts in. *)
LEMMA PartStays == ASSUME [Next]_vars PROVE part' = part
BY DEF Next, vars, LaNext, BrNext, PaNext, OuNext, ToNext, SnNext, AdNext,
   AsNext, RcNext, SdNext

(* The scanner. *)
LEMMA ScanPart ==
    /\ Sn!Init <=> P!Sn!Init
    /\ Sn!Next <=> P!Sn!Next
    /\ Sn!vars = P!Sn!vars
    /\ Sn!TypeOK <=> P!Sn!TypeOK
    /\ Sn!IdentityHonest <=> P!Sn!IdentityHonest
    /\ Sn!DurationHonest <=> P!Sn!DurationHonest
    /\ Sn!SkipMeansUnreadable <=> P!Sn!SkipMeansUnreadable
    /\ Sn!MarkedNeverOffered <=> P!Sn!MarkedNeverOffered
<1>1. Sn!Init <=> P!Sn!Init
  BY DEF Sn!Idle, P!Sn!Idle, Sn!Init, P!Sn!Init, Sn!NoScan, P!Sn!NoScan,
         Sn!None, P!Sn!None, Sn!Texts, P!Sn!Texts, Sn!Versions, P!Sn!Versions
<1>2. Sn!Next <=> P!Sn!Next
  BY DEF Sn!At, P!Sn!At, Sn!BankFacts, P!Sn!BankFacts, Sn!BankLookup,
         P!Sn!BankLookup, Sn!BankProbe, P!Sn!BankProbe, Sn!BankRecord,
         P!Sn!BankRecord, Sn!Bankable, P!Sn!Bankable, Sn!Banked, P!Sn!Banked,
         Sn!Begin, P!Sn!Begin, Sn!Cached, P!Sn!Cached, Sn!Cancel,
         P!Sn!Cancel, Sn!Edit, P!Sn!Edit, Sn!Fails, P!Sn!Fails, Sn!Goto,
         P!Sn!Goto, Sn!HandleStamp, P!Sn!HandleStamp, Sn!Idle, P!Sn!Idle,
         Sn!IndexLookup, P!Sn!IndexLookup, Sn!IndexRead, P!Sn!IndexRead,
         Sn!Link, P!Sn!Link, Sn!Linked, P!Sn!Linked, Sn!Next, P!Sn!Next,
         Sn!NoScan, P!Sn!NoScan, Sn!None, P!Sn!None, Sn!OpenRead,
         P!Sn!OpenRead, Sn!Probe, P!Sn!Probe, Sn!Record, P!Sn!Record,
         Sn!RecordDuration, P!Sn!RecordDuration, Sn!ReopenSynced,
         P!Sn!ReopenSynced, Sn!ReopenUnsynced, P!Sn!ReopenUnsynced,
         Sn!Reread, P!Sn!Reread, Sn!SeeLrc, P!Sn!SeeLrc, Sn!SeeTxt,
         P!Sn!SeeTxt, Sn!Settled, P!Sn!Settled, Sn!ShouldSkip,
         P!Sn!ShouldSkip, Sn!Sidecars, P!Sn!Sidecars, Sn!Stamp, P!Sn!Stamp,
         Sn!StatHit, P!Sn!StatHit, Sn!StatMiss, P!Sn!StatMiss, Sn!Step,
         P!Sn!Step, Sn!Texts, P!Sn!Texts, Sn!Upsert, P!Sn!Upsert,
         Sn!Upserted, P!Sn!Upserted, Sn!Works, P!Sn!Works,
         Sn!embeddedLyricsOn, P!Sn!embeddedLyricsOn, Sn!files, P!Sn!files,
         Sn!stores, P!Sn!stores
<1>3. Sn!vars = P!Sn!vars
  BY DEF Sn!vars, P!Sn!vars
<1>4. Sn!TypeOK <=> P!Sn!TypeOK
  BY DEF Sn!None, P!Sn!None, Sn!Rows, P!Sn!Rows, Sn!Tags, P!Sn!Tags,
         Sn!Texts, P!Sn!Texts, Sn!TypeOK, P!Sn!TypeOK, Sn!Versions,
         P!Sn!Versions
<1>5. Sn!IdentityHonest <=> P!Sn!IdentityHonest
  BY DEF Sn!IdentityHonest, P!Sn!IdentityHonest, Sn!None, P!Sn!None
<1>6. Sn!DurationHonest <=> P!Sn!DurationHonest
  BY DEF Sn!DurationHonest, P!Sn!DurationHonest, Sn!None, P!Sn!None
<1>7. Sn!SkipMeansUnreadable <=> P!Sn!SkipMeansUnreadable
  BY DEF Sn!None, P!Sn!None, Sn!ShouldSkip, P!Sn!ShouldSkip,
         Sn!SkipMeansUnreadable, P!Sn!SkipMeansUnreadable, Sn!Stamp,
         P!Sn!Stamp
<1>8. Sn!MarkedNeverOffered <=> P!Sn!MarkedNeverOffered
  BY DEF Sn!MarkedNeverOffered, P!Sn!MarkedNeverOffered
<1> QED BY <1>1, <1>2, <1>3, <1>4, <1>5, <1>6, <1>7, <1>8

LEMMA ScanHolds ==
    ASSUME P!ScanConfigured, P!Counted, P!KeepsSound, "settledopen" \notin ScanFaults, "readtxt" \notin ScanFaults
    PROVE  Spec => [](part = "scan" => Sn!TypeOK /\ Sn!IdentityHonest /\
           Sn!DurationHonest /\ Sn!SkipMeansUnreadable /\
           Sn!MarkedNeverOffered)
<1>1. Init /\ part = "scan" => P!Sn!Init
  BY ScanPart DEF Init
<1>2. part = "scan" /\ [Next]_vars => (part = "scan")' /\ [P!Sn!Next]_(P!Sn!vars)
  <2> SUFFICES ASSUME part = "scan", [Next]_vars PROVE [P!Sn!Next]_(P!Sn!vars)
    BY PartStays
  <2> QED BY ScanPart DEF Next, vars, Sn!vars, P!Sn!vars, LaNext, BrNext, PaNext,
         OuNext, ToNext, SnNext, AdNext, AsNext, RcNext, SdNext
<1>3. ~(part = "scan") /\ [Next]_vars => (~(part = "scan"))'
  BY PartStays
<1>4. P!Sn!Spec => []P!Sn!TypeOK /\ []P!Sn!IdentityHonest /\ []P!Sn!DurationHonest /\
         []P!Sn!SkipMeansUnreadable /\ []P!Sn!MarkedNeverOffered
  BY P!ScanTypesHold, P!ScanIdentityHonest, P!ScanDurationHonest,
     P!ScanSkipsUnreadable, P!ScanSparesMarked
<1>5. P!Sn!TypeOK /\ P!Sn!IdentityHonest /\ P!Sn!DurationHonest /\
         P!Sn!SkipMeansUnreadable /\ P!Sn!MarkedNeverOffered => Sn!TypeOK /\
         Sn!IdentityHonest /\ Sn!DurationHonest /\ Sn!SkipMeansUnreadable /\
         Sn!MarkedNeverOffered
  BY ScanPart
<1> QED BY <1>1, <1>2, <1>3, <1>4, <1>5, PTL DEF Spec, P!Sn!Spec

(* Cached tags and durations are those of the file version their stamp      *)
(* names, a skipped file is unreadable and a marked track is never offered  *)
(* (internal/scanner): for any number of scans, options, edits and faults,  *)
(* where an edit keeps the sound of the inode it writes into and neither a  *)
(* stored duration nor a text is unreadable for a fault of its own.         *)
THEOREM FetchScanIsHonest ==
    ASSUME P!ScanConfigured, P!Counted, P!KeepsSound,
           "settledopen" \notin ScanFaults, "readtxt" \notin ScanFaults
    PROVE  Spec => []ScanIsHonest
BY ScanHolds, PTL DEF ScanIsHonest

(* The pacers. *)
LEMMA PacerPart ==
    /\ Pa!Init <=> P!Pa!Init
    /\ Pa!Next <=> P!Pa!Next
    /\ Pa!vars = P!Pa!vars
    /\ Pa!TypeOK <=> P!Pa!TypeOK
    /\ Pa!SlotsSpaced <=> P!Pa!SlotsSpaced
    /\ Pa!EasesOnlyInQuiet <=> P!Pa!EasesOnlyInQuiet
<1>1. Pa!Init <=> P!Pa!Init
  BY DEF Pa!Init, P!Pa!Init, Pa!NoWait, P!Pa!NoWait
<1>2. Pa!Next <=> P!Pa!Next
  BY DEF Pa!Cancel, P!Pa!Cancel, Pa!GrantLoop, P!Pa!GrantLoop, Pa!Larger,
         P!Pa!Larger, Pa!MaxDur, P!Pa!MaxDur, Pa!Next, P!Pa!Next,
         Pa!NextSlot, P!Pa!NextSlot, Pa!NoWait, P!Pa!NoWait, Pa!OnSuccess,
         P!Pa!OnSuccess, Pa!OnThrottle, P!Pa!OnThrottle, Pa!Reserve,
         P!Pa!Reserve, Pa!Restored, P!Pa!Restored, Pa!ThrottleClock,
         P!Pa!ThrottleClock, Pa!Tick, P!Pa!Tick, Pa!Wake, P!Pa!Wake,
         Pa!decayLocked, P!Pa!decayLocked, Pa!decaySteps, P!Pa!decaySteps,
         Pa!decayedLevel, P!Pa!decayedLevel, Pa!effectiveInterval,
         P!Pa!effectiveInterval
<1>3. Pa!vars = P!Pa!vars
  BY DEF Pa!vars, P!Pa!vars
<1>4. Pa!TypeOK <=> P!Pa!TypeOK
  BY DEF Pa!TypeOK, P!Pa!TypeOK
<1>5. Pa!SlotsSpaced <=> P!Pa!SlotsSpaced
  BY DEF Pa!SlotsSpaced, P!Pa!SlotsSpaced
<1>6. Pa!EasesOnlyInQuiet <=> P!Pa!EasesOnlyInQuiet
  BY DEF Pa!EasesOnlyInQuiet, P!Pa!EasesOnlyInQuiet
<1> QED BY <1>1, <1>2, <1>3, <1>4, <1>5, <1>6

LEMMA PacerHolds ==
    ASSUME P!PacerConfigured
    PROVE  Spec => /\ [](part = "pacer" => Pa!TypeOK /\ Pa!SlotsSpaced)
                   /\ [][part = "pacer" => Pa!EasesOnlyInQuiet]_vars
<1>1. Init /\ part = "pacer" => P!Pa!Init
  BY PacerPart DEF Init
<1>2. part = "pacer" /\ [Next]_vars => (part = "pacer")' /\ [P!Pa!Next]_(P!Pa!vars)
  <2> SUFFICES ASSUME part = "pacer", [Next]_vars PROVE [P!Pa!Next]_(P!Pa!vars)
    BY PartStays
  <2> QED BY PacerPart DEF Next, vars, Pa!vars, P!Pa!vars, LaNext, BrNext, PaNext,
         OuNext, ToNext, SnNext, AdNext, AsNext, RcNext, SdNext
<1>3. ~(part = "pacer") /\ [Next]_vars => (~(part = "pacer"))'
  BY PartStays
<1>4. P!Pa!Spec => []P!Pa!TypeOK /\ []P!Pa!SlotsSpaced /\ [][P!Pa!EasesOnlyInQuiet]_(P!Pa!vars)
  BY P!PacerTypesHold, P!PacerSlotsSpaced, P!PacerEasesInQuiet
<1>5. P!Pa!TypeOK /\ P!Pa!SlotsSpaced => Pa!TypeOK /\ Pa!SlotsSpaced
  BY PacerPart
<1>6. [P!Pa!EasesOnlyInQuiet]_(P!Pa!vars) => (part = "pacer" /\ [Next]_vars => [part = "pacer" => Pa!EasesOnlyInQuiet]_vars)
  BY PacerPart DEF Next, vars, Pa!EasesOnlyInQuiet, P!Pa!EasesOnlyInQuiet, P!Pa!vars
<1> QED BY <1>1, <1>2, <1>3, <1>4, <1>5, <1>6, PTL DEF Spec, P!Pa!Spec

(* The outage probe. *)
LEMMA OutagePart ==
    /\ Ou!Init <=> P!Ou!Init
    /\ Ou!Next <=> P!Ou!Next
    /\ Ou!vars = P!Ou!vars
    /\ Ou!TypeOK <=> P!Ou!TypeOK
    /\ Ou!OneProbe <=> P!Ou!OneProbe
    /\ Ou!OutageNeedsRun <=> P!Ou!OutageNeedsRun
<1>1. Ou!Init <=> P!Ou!Init
  BY DEF Ou!Idle, P!Ou!Idle, Ou!Init, P!Ou!Init
<1>2. Ou!Next <=> P!Ou!Next
  BY DEF Ou!Ask, P!Ou!Ask, Ou!Confirmed, P!Ou!Confirmed, Ou!Counted,
         P!Ou!Counted, Ou!Idle, P!Ou!Idle, Ou!MaxRun, P!Ou!MaxRun, Ou!Next,
         P!Ou!Next, Ou!ProbeEnds, P!Ou!ProbeEnds, Ou!ProbeHits,
         P!Ou!ProbeHits, Ou!ProbeMisses, P!Ou!ProbeMisses, Ou!ProbeOver,
         P!Ou!ProbeOver, Ou!RequestFails, P!Ou!RequestFails, Ou!Songs,
         P!Ou!Songs, Ou!Stands, P!Ou!Stands, Ou!Step, P!Ou!Step, Ou!Upstream,
         P!Ou!Upstream, Ou!backOffProbe, P!Ou!backOffProbe, Ou!confirmOutage,
         P!Ou!confirmOutage, Ou!dropSeededControl, P!Ou!dropSeededControl,
         Ou!recordSuccess, P!Ou!recordSuccess, Ou!recordZeroResult,
         P!Ou!recordZeroResult, Ou!reportConfirmedOutage,
         P!Ou!reportConfirmedOutage, Ou!Cardinality, P!Ou!Cardinality,
         Ou!IsFiniteSet, P!Ou!IsFiniteSet
<1>3. Ou!vars = P!Ou!vars
  BY DEF Ou!vars, P!Ou!vars
<1>4. Ou!TypeOK <=> P!Ou!TypeOK
  BY DEF Ou!MaxRun, P!Ou!MaxRun, Ou!TypeOK, P!Ou!TypeOK, Ou!Cardinality,
         P!Ou!Cardinality, Ou!IsFiniteSet, P!Ou!IsFiniteSet
<1>5. Ou!OneProbe <=> P!Ou!OneProbe
  BY DEF Ou!OneProbe, P!Ou!OneProbe, Ou!Cardinality, P!Ou!Cardinality,
         Ou!IsFiniteSet, P!Ou!IsFiniteSet
<1>6. Ou!OutageNeedsRun <=> P!Ou!OutageNeedsRun
  BY DEF Ou!OutageNeedsRun, P!Ou!OutageNeedsRun
<1> QED BY <1>1, <1>2, <1>3, <1>4, <1>5, <1>6

LEMMA OutageHolds ==
    ASSUME P!OutageConfigured
    PROVE  Spec => /\ [](part = "outage" => Ou!TypeOK /\ Ou!OneProbe)
                   /\ [][part = "outage" => Ou!OutageNeedsRun]_vars
<1>1. Init /\ part = "outage" => P!Ou!Init
  BY OutagePart DEF Init
<1>2. part = "outage" /\ [Next]_vars => (part = "outage")' /\ [P!Ou!Next]_(P!Ou!vars)
  <2> SUFFICES ASSUME part = "outage", [Next]_vars PROVE [P!Ou!Next]_(P!Ou!vars)
    BY PartStays
  <2> QED BY OutagePart DEF Next, vars, Ou!vars, P!Ou!vars, LaNext, BrNext, PaNext,
         OuNext, ToNext, SnNext, AdNext, AsNext, RcNext, SdNext
<1>3. ~(part = "outage") /\ [Next]_vars => (~(part = "outage"))'
  BY PartStays
<1>4. P!Ou!Spec => []P!Ou!TypeOK /\ []P!Ou!OneProbe /\ [][P!Ou!OutageNeedsRun]_(P!Ou!vars)
  BY P!OutageTypes, P!OutageOneProbe, P!OutageRunStands
<1>5. P!Ou!TypeOK /\ P!Ou!OneProbe => Ou!TypeOK /\ Ou!OneProbe
  BY OutagePart
<1>6. [P!Ou!OutageNeedsRun]_(P!Ou!vars) => (part = "outage" /\ [Next]_vars => [part = "outage" => Ou!OutageNeedsRun]_vars)
  BY OutagePart DEF Next, vars, Ou!OutageNeedsRun, P!Ou!OutageNeedsRun, P!Ou!vars
<1> QED BY <1>1, <1>2, <1>3, <1>4, <1>5, <1>6, PTL DEF Spec, P!Ou!Spec

(* The token. *)
LEMMA TokenPart ==
    /\ To!Init <=> P!To!Init
    /\ To!Next <=> P!To!Next
    /\ To!vars = P!To!vars
    /\ To!Bounded <=> P!To!Bounded
    /\ To!TypeOK <=> P!To!TypeOK
    /\ To!RecordMeansMinted <=> P!To!RecordMeansMinted
    /\ To!RenewalSparesOperator <=> P!To!RenewalSparesOperator
<1>1. To!Init <=> P!To!Init
  BY DEF To!Degenerate, P!To!Degenerate, To!Init, P!To!Init, To!NoLookup,
         P!To!NoLookup, To!NoState, P!To!NoState, To!Off, P!To!Off
<1>2. To!Next <=> P!To!Next
  BY DEF To!Answer, P!To!Answer, To!BeginMint, P!To!BeginMint, To!Boot,
         P!To!Boot, To!BootMint, P!To!BootMint, To!Commit, P!To!Commit,
         To!CommitOutcome, P!To!CommitOutcome, To!Degenerate,
         P!To!Degenerate, To!Expire, P!To!Expire, To!Identify, P!To!Identify,
         To!IdentityKey, P!To!IdentityKey, To!Legacy, P!To!Legacy, To!Lock,
         P!To!Lock, To!Mint, P!To!Mint, To!Next, P!To!Next, To!NoLookup,
         P!To!NoLookup, To!NoState, P!To!NoState, To!NoToken, P!To!NoToken,
         To!Off, P!To!Off, To!OperatorSave, P!To!OperatorSave, To!Operators,
         P!To!Operators, To!ReadIdentity, P!To!ReadIdentity, To!ReadStale,
         P!To!ReadStale, To!ReadStamp, P!To!ReadStamp, To!Refuse,
         P!To!Refuse, To!Released, P!To!Released, To!Resent, P!To!Resent,
         To!Resolve, P!To!Resolve, To!Send, P!To!Send, To!Start, P!To!Start,
         To!Step, P!To!Step, To!Stop, P!To!Stop, To!UnchangedSince,
         P!To!UnchangedSince, To!Written, P!To!Written,
         To!dropDegenerateStoredToken, P!To!dropDegenerateStoredToken,
         To!operatorStored, P!To!operatorStored, To!persistMintedToken,
         P!To!persistMintedToken, To!writeTokenPair, P!To!writeTokenPair,
         To!Cardinality, P!To!Cardinality, To!IsFiniteSet, P!To!IsFiniteSet
<1>3. To!vars = P!To!vars
  BY DEF To!vars, P!To!vars
<1>4. To!Bounded <=> P!To!Bounded
  BY DEF To!Bounded, P!To!Bounded
<1>5. To!TypeOK <=> P!To!TypeOK
  BY DEF To!LookupStates, P!To!LookupStates, To!ServeStates,
         P!To!ServeStates, To!States, P!To!States, To!Tokens, P!To!Tokens,
         To!TypeOK, P!To!TypeOK
<1>6. To!RecordMeansMinted <=> P!To!RecordMeansMinted
  BY DEF To!NoToken, P!To!NoToken, To!RecordMeansMinted,
         P!To!RecordMeansMinted
<1>7. To!RenewalSparesOperator <=> P!To!RenewalSparesOperator
  BY DEF To!RenewalSparesOperator, P!To!RenewalSparesOperator
<1> QED BY <1>1, <1>2, <1>3, <1>4, <1>5, <1>6, <1>7

LEMMA TokenHolds ==
    ASSUME P!To!Bounded
    PROVE  Spec => /\ [](part = "token" => To!Bounded /\ To!TypeOK /\ To!RecordMeansMinted)
                   /\ [][part = "token" => To!RenewalSparesOperator]_vars
<1>1. Init /\ part = "token" => P!To!Init
  BY TokenPart DEF Init
<1>2. part = "token" /\ [Next]_vars => (part = "token")' /\ [P!To!Next]_(P!To!vars)
  <2> SUFFICES ASSUME part = "token", [Next]_vars PROVE [P!To!Next]_(P!To!vars)
    BY PartStays
  <2> QED BY TokenPart DEF Next, vars, To!vars, P!To!vars, LaNext, BrNext, PaNext,
         OuNext, ToNext, SnNext, AdNext, AsNext, RcNext, SdNext
<1>3. ~(part = "token") /\ [Next]_vars => (~(part = "token"))'
  BY PartStays
<1>4. P!To!Spec => []P!To!Bounded /\ []P!To!TypeOK /\ []P!To!RecordMeansMinted /\
         [][P!To!RenewalSparesOperator]_(P!To!vars)
  BY P!TokenTypes, P!TokenRecordMeansMinted, P!TokenSparesOperator
<1>5. P!To!Bounded /\ P!To!TypeOK /\ P!To!RecordMeansMinted => To!Bounded /\
         To!TypeOK /\ To!RecordMeansMinted
  BY TokenPart
<1>6. [P!To!RenewalSparesOperator]_(P!To!vars) => (part = "token" /\ [Next]_vars => [part = "token" => To!RenewalSparesOperator]_vars)
  BY TokenPart DEF Next, vars, To!RenewalSparesOperator, P!To!RenewalSparesOperator, P!To!vars
<1> QED BY <1>1, <1>2, <1>3, <1>4, <1>5, <1>6, PTL DEF Spec, P!To!Spec

(* What a provider client keeps (petitlyrics/pacer, petitlyrics/outage,     *)
(* musixmatch/token): slots stay spaced and easing waits for quiet, one     *)
(* probe answers for a burst and an outage is declared on a run that        *)
(* stands, a renewal never takes a token an operator saved: for any number  *)
(* of callers and lookups, any intervals and thresholds and any bounds.     *)
THEOREM FetchClientsAreSound ==
    ASSUME P!PacerConfigured, P!OutageConfigured, P!To!Bounded
    PROVE  Spec => ClientsAreSound
<1>1. Spec => /\ [](part = "pacer" => Pa!TypeOK /\ Pa!SlotsSpaced)
              /\ [](part = "outage" => Ou!TypeOK /\ Ou!OneProbe)
              /\ [](part = "token" => To!Bounded /\ To!TypeOK /\ To!RecordMeansMinted)
              /\ [][part = "pacer" => Pa!EasesOnlyInQuiet]_vars
              /\ [][part = "outage" => Ou!OutageNeedsRun]_vars
              /\ [][part = "token" => To!RenewalSparesOperator]_vars
  BY PacerHolds, OutageHolds, TokenHolds
<1> QED BY <1>1, PTL DEF ClientsAreSound

(* The two instances take the same steps, from their operators up. *)
LEMMA LanesNext == La!Next <=> L!Next
<1>1. La!Lanes = L!Lanes
  BY DEF La!Lanes, L!Lanes, La!Range, L!Range
<1>2. La!Songs = L!Songs
  BY DEF La!Songs, L!Songs
<1>3. \A a : La!classifyCandidate(a) = L!classifyCandidate(a)
  BY DEF La!classifyCandidate, L!classifyCandidate
<1>4. \A a : La!retainQuality(a) = L!retainQuality(a)
  BY DEF La!QualityOf, L!QualityOf, La!retainQuality, L!retainQuality
<1>5. \A a : La!WordAnswerOf(a) = L!WordAnswerOf(a)
  BY DEF La!WordAnswerOf, L!WordAnswerOf
<1>6. \A r, l : La!consult(r, l) = L!consult(r, l)
  BY DEF La!consult, L!consult
<1>7. \A r, l, a : La!hold(r, l, a) = L!hold(r, l, a)
  BY DEF La!NoCand, L!NoCand, La!hold, L!hold
<1>8. \A n : La!wordAnswerFor(n) = L!wordAnswerFor(n)
  BY DEF La!wordAnswerFor, L!wordAnswerFor, La!Cardinality, L!Cardinality,
         La!IsFiniteSet, L!IsFiniteSet
<1>9. \A c, w : La!Song(c, w) = L!Song(c, w)
  BY DEF La!Song, L!Song
<1>10. \A a : La!Err(a) = L!Err(a)
  BY DEF La!Err, L!Err, La!NoOut, L!NoOut
<1>11. \A attempts, base, max : La!Geometric(attempts, base, max) = L!Geometric(attempts, base, max)
  BY DEF La!Geometric, L!Geometric, La!Wrap, L!Wrap
<1>12. \A b : La!Allowed(b) = L!Allowed(b)
  BY DEF La!Allowed, L!Allowed
<1>13. \A a : La!DetectorAfter(a) = L!DetectorAfter(a)
  BY DEF La!DetectorAfter, L!DetectorAfter, La!DetectorAnswer,
         L!DetectorAnswer
<1>14. \A l, cancelled : La!Possible(l, cancelled) = L!Possible(l, cancelled)
  BY DEF La!Possible, L!Possible
<1>15. \A l : La!Refused(l) <=> L!Refused(l)
  BY DEF La!AllowState, L!AllowState, La!Refused, L!Refused
<1>16. \A l : La!LaneOpen(l) <=> L!LaneOpen(l)
  BY DEF La!AllowState, L!AllowState, La!LaneOpen, L!LaneOpen,
         La!SnapshotState, L!SnapshotState
<1>17. \A r, got, out : La!Done(r, got, out) = L!Done(r, got, out)
  BY DEF La!Done, L!Done
<1>18. La!GateOrder = L!GateOrder
  BY DEF La!Dets, L!Dets, La!GateOrder, L!GateOrder
<1>19. La!Sequence = L!Sequence
  BY DEF La!Dets, L!Dets, La!Order, L!Order, La!Sequence, L!Sequence,
         La!WordOrder, L!WordOrder
<1>20. \A l : La!Elapse(l) <=> L!Elapse(l)
  BY DEF La!Elapse, L!Elapse, La!WindowOver, L!WindowOver
<1>21. La!Shutdown <=> L!Shutdown
  BY DEF La!Shutdown, L!Shutdown
<1>22. \A a : La!landedQuality(a) = L!landedQuality(a)
  BY <1>4 DEF La!landedQuality, L!landedQuality
<1>23. \A a : La!ClassifyOutcome(a) = L!ClassifyOutcome(a)
  BY <1>2 DEF La!ClassifyOutcome, L!ClassifyOutcome
<1>24. \A l, a : La!answersWord(l, a) <=> L!answersWord(l, a)
  BY <1>2, <1>5 DEF La!answersWord, L!answersWord
<1>25. La!NewDispatch = L!NewDispatch
  BY <1>1 DEF La!NewDispatch, L!NewDispatch, La!NewResult, L!NewResult,
         La!NoCand, L!NoCand, La!NoOut, L!NoOut
<1>26. \A r, l, a : La!retainCandidate(r, l, a) = L!retainCandidate(r, l, a)
  BY <1>4 DEF La!NoCand, L!NoCand, La!retainCandidate, L!retainCandidate
<1>27. \A w, n : La!ungatedWordAnswer(w, n) = L!ungatedWordAnswer(w, n)
  BY <1>8 DEF La!ungatedWordAnswer, L!ungatedWordAnswer
<1>28. \A b : La!Tripped(b) = L!Tripped(b)
  BY <1>11 DEF La!NextTrips, L!NextTrips, La!Tripped, L!Tripped
<1>29. \A l : La!Ask(l) = L!Ask(l)
  BY <1>12 DEF La!Ask, L!Ask
<1>30. \A pending : La!Abandon(pending) <=> L!Abandon(pending)
  BY <1>1 DEF La!Abandon, L!Abandon
<1>31. La!FirstUp = L!FirstUp
  <2> DEFINE Least(up) == IF up = {} THEN 0
                          ELSE CHOOSE i \in up : \A j \in up : i <= j
             A == {i \in 1..Len(La!GateOrder) : ~La!Refused(La!GateOrder[i])}
             B == {i \in 1..Len(L!GateOrder) : ~L!Refused(L!GateOrder[i])}
  <2>1. A = B  BY <1>15, <1>18
  <2>2. La!FirstUp = Least(A)  BY DEF La!FirstUp
  <2>3. L!FirstUp = Least(B)  BY DEF L!FirstUp
  <2> HIDE DEF Least, A, B
  <2> QED BY <2>1, <2>2, <2>3
<1>32. La!OrderedSkip <=> L!OrderedSkip
  BY <1>1, <1>19 DEF La!AtHead, L!AtHead, La!DetectorMoot, L!DetectorMoot,
         La!NoCand, L!NoCand, La!OrderedSkip, L!OrderedSkip
<1>33. \A r, l, a : La!noteUntried(r, l, a) = L!noteUntried(r, l, a)
  <2> SUFFICES ASSUME NEW r, NEW l, NEW a
               PROVE  La!noteUntried(r, l, a) = L!noteUntried(r, l, a)
    OBVIOUS
  <2> QED BY <1>23, Zenon DEF La!noteUntried, L!noteUntried
<1>34. \A r, a, open : La!noteTransport(r, a, open) = L!noteTransport(r, a, open)
  BY <1>23 DEF La!noteTransport, L!noteTransport
<1>35. \A r, l, a : La!gate(r, l, a) = L!gate(r, l, a)
  BY <1>22 DEF La!NoCand, L!NoCand, La!gate, L!gate
<1>36. \A r, a : La!rankErr(r, a) = L!rankErr(r, a)
  <2> SUFFICES ASSUME NEW r, NEW a
               PROVE  La!rankErr(r, a) = L!rankErr(r, a)
    OBVIOUS
  <2> QED BY <1>23, Zenon DEF La!precedence, L!precedence, La!rankErr, L!rankErr
<1>37. \A r : La!resolve(r) = L!resolve(r)
  BY <1>5, <1>9, <1>10, <1>22, <1>23 DEF La!NoCand, L!NoCand,
         La!noProviderAsked, L!noProviderAsked, La!resolve, L!resolve
<1>38. \A b, a : La!ClassifyErr(b, a) = L!ClassifyErr(b, a)
  BY <1>2, <1>28 DEF La!Breaking, L!Breaking, La!ClassifyErr, L!ClassifyErr,
         La!Recovered, L!Recovered, La!TrippedForRenewal, L!TrippedForRenewal
<1>39. \A r, a : La!OrderedCommits(r, a) <=> L!OrderedCommits(r, a)
  BY <1>2, <1>3, <1>22 DEF La!NoCand, L!NoCand, La!OrderedCommits,
         L!OrderedCommits
<1>40. \A held, r : La!HeldSong(held, r) = L!HeldSong(held, r)
  BY <1>5, <1>9, <1>27 DEF La!HeldSong, L!HeldSong
<1>41. La!GateShut <=> L!GateShut
  BY <1>25, <1>31 DEF La!GateShut, L!GateShut, La!allLanesUnavailable,
         L!allLanesUnavailable
<1>42. \A kind : La!FindLyrics(kind) <=> L!FindLyrics(kind)
  BY <1>1, <1>12, <1>18, <1>25, <1>31 DEF La!Begins, L!Begins, La!FindLyrics,
         L!FindLyrics, La!allLanesUnavailable, L!allLanesUnavailable
<1>43. \A l : La!StaleStart(l) <=> L!StaleStart(l)
  BY <1>15, <1>29 DEF La!StaleStart, L!StaleStart
<1>44. La!Restart <=> L!Restart
  BY <1>1, <1>25 DEF La!Fresh, L!Fresh, La!NewBreaker, L!NewBreaker,
         La!NewLane, L!NewLane, La!Restart, L!Restart
<1>45. \A l, a : La!Returned(l, a) = L!Returned(l, a)
  <2> SUFFICES ASSUME NEW l, NEW a
               PROVE  La!Returned(l, a) = L!Returned(l, a)
    OBVIOUS
  <2> QED BY <1>38, Zenon DEF La!IsRefusal, L!IsRefusal, La!Returned, L!Returned
<1>46. \A l, a : La!Heard(l, a) = L!Heard(l, a)
  BY <1>24, <1>33 DEF La!Heard, L!Heard
<1>47. \A r, l, a, open : La!Absorbed(r, l, a, open) = L!Absorbed(r, l, a, open)
  <2> SUFFICES ASSUME NEW r, NEW l, NEW a, NEW open
               PROVE  La!Absorbed(r, l, a, open) = L!Absorbed(r, l, a, open)
    OBVIOUS
  <2> QED BY <1>2, <1>3, <1>24, <1>26, <1>34, <1>36, Zenon DEF La!Absorbed,
         L!Absorbed, La!Blocked, L!Blocked
<1>48. \A r, got : La!finishParallel(r, got) = L!finishParallel(r, got)
  BY <1>17, <1>27, <1>37 DEF La!finishParallel, L!finishParallel
<1>49. La!OrderedEnd <=> L!OrderedEnd
  BY <1>1, <1>8, <1>10, <1>17, <1>19, <1>27, <1>37 DEF La!AtHead, L!AtHead,
         La!MinCommit, L!MinCommit, La!OrderedEnd, L!OrderedEnd
<1>50. La!RaceGivesUp <=> L!RaceGivesUp
  BY <1>1, <1>10, <1>17, <1>30, <1>40 DEF La!NoCand, L!NoCand,
         La!RaceGivesUp, L!RaceGivesUp
<1>51. \A l, a, open : La!OrderedNext(l, a, open) = L!OrderedNext(l, a, open)
  BY <1>6, <1>7, <1>35, <1>39, <1>46, <1>47 DEF La!OrderedNext, L!OrderedNext
<1>52. \A l, raw : La!LaneReturns(l, raw) <=> L!LaneReturns(l, raw)
  BY <1>13, <1>45 DEF La!AnswerOf, L!AnswerOf, La!DetectorAnswer,
         L!DetectorAnswer, La!LaneReturns, L!LaneReturns
<1>53. \A a : La!StagedTake(a) <=> L!StagedTake(a)
  <2> SUFFICES ASSUME NEW a
               PROVE  La!StagedTake(a) <=> L!StagedTake(a)
    OBVIOUS
  <2> QED BY <1>1, <1>2, <1>3, <1>5, <1>6, <1>9, <1>10, <1>16, <1>17, <1>46, <1>47,
         <1>48, Zenon DEF La!Spawned, L!Spawned, La!StagedTake, L!StagedTake
<1>54. \A r, got, held : La!EndRace(r, got, held) = L!EndRace(r, got, held)
  BY <1>10, <1>17, <1>40, <1>48 DEF La!EndRace, L!EndRace, La!NoCand,
         L!NoCand
<1>55. \A l, a : La!OrderedTake(l, a) <=> L!OrderedTake(l, a)
  <2> SUFFICES ASSUME NEW l, NEW a
               PROVE  La!OrderedTake(l, a) <=> L!OrderedTake(l, a)
    OBVIOUS
  <2> QED BY <1>5, <1>6, <1>8, <1>9, <1>16, <1>17, <1>27, <1>39, <1>46, <1>51, Zenon
         DEF La!CommitWord, L!CommitWord, La!MinCommit, L!MinCommit,
         La!OrderedTake, L!OrderedTake, La!QualityOf, L!QualityOf
<1>56. \A l, a : La!RaceTake(l, a) <=> L!RaceTake(l, a)
  <2> SUFFICES ASSUME NEW l, NEW a
               PROVE  La!RaceTake(l, a) <=> L!RaceTake(l, a)
    OBVIOUS
  <2> QED BY <1>1, <1>2, <1>3, <1>5, <1>6, <1>9, <1>16, <1>17, <1>22, <1>27, <1>30,
         <1>46, <1>47, <1>54, Zenon DEF La!NoCand, L!NoCand, La!QualityOf,
         L!QualityOf, La!RaceCommits, L!RaceCommits, La!RaceTake, L!RaceTake
<1>57. La!StagedAsk <=> L!StagedAsk
  BY <1>15, <1>29, <1>53 DEF La!StagedAsk, L!StagedAsk
<1>58. La!StagedAnswer <=> L!StagedAnswer
  BY <1>14, <1>52, <1>53 DEF La!AnswerOf, L!AnswerOf, La!DetectorAnswer,
         L!DetectorAnswer, La!StagedAnswer, L!StagedAnswer
<1>59. \A l : La!StaleReturn(l) <=> L!StaleReturn(l)
  BY <1>14, <1>52 DEF La!StaleReturn, L!StaleReturn
<1>60. La!OrderedAsk <=> L!OrderedAsk
  BY <1>1, <1>15, <1>19, <1>29, <1>55 DEF La!AtHead, L!AtHead,
         La!DetectorMoot, L!DetectorMoot, La!NoCand, L!NoCand, La!OrderedAsk,
         L!OrderedAsk
<1>61. \A l : La!OrderedAnswer(l) <=> L!OrderedAnswer(l)
  BY <1>14, <1>52, <1>55 DEF La!AnswerOf, L!AnswerOf, La!DetectorAnswer,
         L!DetectorAnswer, La!OrderedAnswer, L!OrderedAnswer
<1>62. \A l : La!RaceStart(l) <=> L!RaceStart(l)
  BY <1>15, <1>29, <1>56 DEF La!RaceStart, L!RaceStart
<1>63. \A l : La!RaceAnswer(l) <=> L!RaceAnswer(l)
  BY <1>14, <1>52, <1>56 DEF La!AnswerOf, L!AnswerOf, La!DetectorAnswer,
         L!DetectorAnswer, La!RaceAnswer, L!RaceAnswer
<1>64. La!Next <=> L!Next
  BY <1>1, <1>20, <1>21, <1>32, <1>41, <1>42, <1>43, <1>44, <1>49, <1>50,
         <1>57, <1>58, <1>59, <1>60, <1>61, <1>62, <1>63 DEF La!Next, L!Next,
         La!Step, L!Step
<1> QED BY <1>64

(* The provider lanes. *)
LEMMA LanesPart ==
    /\ La!Init <=> L!Init
    /\ La!Next <=> L!Next
    /\ La!vars = L!vars
    /\ La!WellConfigured <=> L!WellConfigured
    /\ La!InstalledOnce <=> L!InstalledOnce
    /\ La!TypeOK <=> L!TypeOK
    /\ La!BestReceivedWins <=> L!BestReceivedWins
    /\ La!WordAbsentIsUnanimous <=> L!WordAbsentIsUnanimous
    /\ La!MissIsAnAnswer <=> L!MissIsAnAnswer
    /\ La!RefusedOnlyWhenAllTried <=> L!RefusedOnlyWhenAllTried
    /\ La!LanesClosedMeansRecovered <=> L!LanesClosedMeansRecovered
    /\ La!LanesKeepBreakers <=> L!LanesKeepBreakers
<1>1. La!Init <=> L!Init
  BY DEF La!Init, L!Init, La!Lanes, L!Lanes, La!NewBreaker, L!NewBreaker,
         La!NewDispatch, L!NewDispatch, La!NewLane, L!NewLane, La!NewResult,
         L!NewResult, La!NoCand, L!NoCand, La!NoOut, L!NoOut, La!Range,
         L!Range
<1>2. La!Next <=> L!Next
  BY LanesNext
<1>3. La!vars = L!vars
  BY DEF La!vars, L!vars
<1>4. La!WellConfigured <=> L!WellConfigured
  BY DEF La!Answers, L!Answers, La!Errors, L!Errors, La!Lanes, L!Lanes,
         La!Songs, L!Songs, La!WellConfigured, L!WellConfigured, La!Range,
         L!Range
<1>5. La!InstalledOnce <=> L!InstalledOnce
  BY DEF La!InstalledOnce, L!InstalledOnce, La!Lanes, L!Lanes, La!Once,
         L!Once, La!WordOrder, L!WordOrder, La!Cardinality, L!Cardinality,
         La!IsFiniteSet, L!IsFiniteSet, La!Range, L!Range
<1>6. La!TypeOK <=> L!TypeOK
  BY DEF La!Answers, L!Answers, La!Errors, L!Errors, La!Lanes, L!Lanes,
         La!Songs, L!Songs, La!TypeOK, L!TypeOK, La!Cardinality,
         L!Cardinality, La!IsFiniteSet, L!IsFiniteSet, La!Range, L!Range
<1>7. La!BestReceivedWins <=> L!BestReceivedWins
  BY DEF La!BestReceivedWins, L!BestReceivedWins, La!Ended, L!Ended,
         La!Lanes, L!Lanes, La!QualityOf, L!QualityOf, La!Songs, L!Songs,
         La!Usable, L!Usable, La!classifyCandidate, L!classifyCandidate,
         La!landedQuality, L!landedQuality, La!retainQuality,
         L!retainQuality, La!Range, L!Range
<1>8. La!WordAbsentIsUnanimous <=> L!WordAbsentIsUnanimous
  BY DEF La!Ended, L!Ended, La!Songs, L!Songs, La!WordAbsentIsUnanimous,
         L!WordAbsentIsUnanimous, La!WordAnswerOf, L!WordAnswerOf,
         La!answersWord, L!answersWord
<1>9. La!MissIsAnAnswer <=> L!MissIsAnAnswer
  BY DEF La!ClassifyOutcome, L!ClassifyOutcome, La!Ended, L!Ended,
         La!MissIsAnAnswer, L!MissIsAnAnswer, La!Songs, L!Songs, La!Range,
         L!Range
<1>10. La!RefusedOnlyWhenAllTried <=> L!RefusedOnlyWhenAllTried
  BY DEF La!ClassifyOutcome, L!ClassifyOutcome, La!Ended, L!Ended,
         La!RefusedOnlyWhenAllTried, L!RefusedOnlyWhenAllTried, La!Songs,
         L!Songs, La!Range, L!Range
<1>11. La!LanesClosedMeansRecovered <=> L!LanesClosedMeansRecovered
  BY DEF La!Lanes, L!Lanes, La!LanesClosedMeansRecovered,
         L!LanesClosedMeansRecovered, La!Range, L!Range,
         La!Brk!ClosedMeansRecovered, L!Brk!ClosedMeansRecovered,
         La!Brk!AllowState, L!Brk!AllowState
<1>12. La!LanesKeepBreakers <=> L!LanesKeepBreakers
  BY DEF La!Lanes, L!Lanes, La!LanesKeepBreakers, L!LanesKeepBreakers,
         La!Range, L!Range, La!Brk!Next, L!Brk!Next, La!Brk!Allow,
         L!Brk!Allow, La!Brk!Trip, L!Brk!Trip, La!Brk!TripRenewal,
         L!Brk!TripRenewal, La!Brk!Record, L!Brk!Record, La!Brk!New,
         L!Brk!New, La!Brk!Elapse, L!Brk!Elapse, La!Brk!Allowed,
         L!Brk!Allowed, La!Brk!Tripped, L!Brk!Tripped, La!Brk!NextTrips,
         L!Brk!NextTrips, La!Brk!Geometric, L!Brk!Geometric, La!Brk!Wrap,
         L!Brk!Wrap, La!Brk!TrippedForRenewal, L!Brk!TrippedForRenewal,
         La!Brk!Recovered, L!Brk!Recovered, La!Brk!NewBreaker,
         L!Brk!NewBreaker, La!Brk!WindowOver, L!Brk!WindowOver
<1> QED BY <1>1, <1>2, <1>3, <1>4, <1>5, <1>6, <1>7, <1>8, <1>9, <1>10,
       <1>11, <1>12

LEMMA LanesHolds ==
    ASSUME L!WellConfigured, L!InstalledOnce, LaneTrips \in Nat, NotReadyBound \in Nat
    PROVE  Spec => /\ [](part = "lanes" => La!WellConfigured /\ La!InstalledOnce /\ La!TypeOK /\
                        La!BestReceivedWins /\ La!WordAbsentIsUnanimous /\
                        La!MissIsAnAnswer /\ La!RefusedOnlyWhenAllTried /\
                        La!LanesClosedMeansRecovered)
                   /\ [][part = "lanes" => La!LanesKeepBreakers]_vars
<1>1. Init /\ part = "lanes" => L!Init
  BY LanesPart DEF Init
<1>2. part = "lanes" /\ [Next]_vars => (part = "lanes")' /\ [L!Next]_(L!vars)
  <2> SUFFICES ASSUME part = "lanes", [Next]_vars PROVE [L!Next]_(L!vars)
    BY PartStays
  <2> QED BY LanesPart DEF Next, vars, La!vars, L!vars, LaNext, BrNext, PaNext,
         OuNext, ToNext, SnNext, AdNext, AsNext, RcNext, SdNext
<1>3. ~(part = "lanes") /\ [Next]_vars => (~(part = "lanes"))'
  BY PartStays
<1>4. L!Spec => []L!WellConfigured /\ []L!InstalledOnce /\ []L!TypeOK /\ []L!BestReceivedWins
         /\ []L!WordAbsentIsUnanimous /\ []L!MissIsAnAnswer /\
         []L!RefusedOnlyWhenAllTried /\ []L!LanesClosedMeansRecovered /\
         [][L!LanesKeepBreakers]_(L!vars)
  BY L!LanesTypesHold, L!LanesServeTheBest, L!LanesAbsentIsUnanimous,
     L!LanesMissIsAnAnswer, L!LanesRefuseOnlyTried, L!LanesRecover,
     L!LanesStayBreakers
<1>5. L!WellConfigured /\ L!InstalledOnce /\ L!TypeOK /\ L!BestReceivedWins
         /\ L!WordAbsentIsUnanimous /\ L!MissIsAnAnswer /\
         L!RefusedOnlyWhenAllTried /\ L!LanesClosedMeansRecovered =>
         La!WellConfigured /\ La!InstalledOnce /\ La!TypeOK /\
         La!BestReceivedWins /\ La!WordAbsentIsUnanimous /\ La!MissIsAnAnswer
         /\ La!RefusedOnlyWhenAllTried /\ La!LanesClosedMeansRecovered
  BY LanesPart
<1>6. [L!LanesKeepBreakers]_(L!vars) => (part = "lanes" /\ [Next]_vars => [part = "lanes" => La!LanesKeepBreakers]_vars)
  BY LanesPart DEF Next, vars, La!LanesKeepBreakers, L!LanesKeepBreakers, L!vars
<1> QED BY <1>1, <1>2, <1>3, <1>4, <1>5, <1>6, PTL DEF Spec, L!Spec

(* A dispatch serves the best of the answers it received, calls a track     *)
(* wordless only when every word lane said so, reports a miss only on an    *)
(* answer and a refusal only when every lane was tried, and every lane's    *)
(* breaker stays a Breaker (internal/orchestrator): for any lanes, modes,   *)
(* answers and windows.                                                     *)
THEOREM FetchDispatchIsSound ==
    ASSUME L!WellConfigured, L!InstalledOnce, LaneTrips \in Nat, NotReadyBound \in Nat
    PROVE  Spec => DispatchIsSound
BY LanesHolds, PTL DEF DispatchIsSound
=============================================================================
