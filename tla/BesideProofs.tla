---------------------------- MODULE BesideProofs ----------------------------
(***************************************************************************)
(* What holds of MCBeside for every value of its constants: the parts that *)
(* ToolProofs and LyricBlockProofs prove about, put together.  A part runs *)
(* its component's specification on the first of the variables of MCBeside *)
(* and keeps the others, so what is proved of the component holds of the   *)
(* part once the component's two instances are seen to be the same.        *)
(***************************************************************************)
EXTENDS MCBeside, TLAPS

P == INSTANCE ToolProofs WITH
    cur <- x1, out <- x2, inflight <- x3, job <- x4, jobs <- x5, closed <-
    x6, dir <- x7, get <- x8, gets <- x9, line <- x1, order <- x1, val <- x2,
    member <- x3, cursor <- x4, more <- x5, times <- x6, steady <- x7,
    changes <- x8, disk <- x1, wr <- x2, begun <- x3, shut <- x1, live <- x2,
    last <- x3, repair <- x4, shown <- x5, lastID <- x6, closer <- x7, main
    <- x1, signal <- x2, cancel <- x3, serveErr <- x4, gate <- x5, drainer <-
    x6, handlerClosed <- x7, hook <- x8, bg <- x9, task <- x10, db <- x11,
    late <- x12, keys <- x13, starts <- x14, mt <- x1, reg <- x2, run <- x3,
    aligned <- x4, active <- x5, ended <- x6, page <- x7, row <- x1, lrc <-
    x2, orig <- x3, rowLock <- x4, pathLock <- x5, ed <- x6, wk <- x7, sweep
    <- x8, tags <- x9, filled <- x10, writes <- x11, requests <- x12, crashes
    <- x13, Verdicts <- SyncVerdicts, Ids <- PageIds, Companion <-
    WithCompanion
B == INSTANCE LyricBlockProofs WITH
    row <- x1, disk <- x2, blocks <- x3, saved <- x4, mark <- x5, wk <- x6,
    NoRow <- NoBlockRow, CanUnblock <- FALSE

(* A behaviour stays in the part it starts in. *)
LEMMA PartStays == ASSUME [Next]_vars PROVE part' = part
BY DEF Next, vars, SwNext, PrNext, ReNext, MmNext, ScNext, LbNext, PuNext,
   IdNext, RcNext, GaNext, AcNext, LiNext, SvNext, RuNext, StNext, AuNext,
   FlNext, HeNext, RpNext, PgNext

(* Converted audio. *)
LEMMA FlacPart ==
    /\ Fl!Init <=> P!Fl!Init
    /\ Fl!Next <=> P!Fl!Next
    /\ Fl!vars = P!Fl!vars
    /\ Fl!TypeOK <=> P!Fl!TypeOK
    /\ Fl!ConvertedOnce <=> P!Fl!ConvertedOnce
    /\ Fl!ResultStays <=> P!Fl!ResultStays
    /\ Fl!VersionHonest <=> P!Fl!VersionHonest
    /\ Fl!CloseIsFinal <=> P!Fl!CloseIsFinal
<1>1. Fl!Init <=> P!Fl!Init
  BY DEF Fl!Idle, P!Fl!Idle, Fl!Init, P!Fl!Init, Fl!Keys, P!Fl!Keys,
         Fl!NoJob, P!Fl!NoJob, Fl!NoKey, P!Fl!NoKey
<1>2. Fl!Next <=> P!Fl!Next
  BY DEF Fl!Admitted, P!Fl!Admitted, Fl!Cached, P!Fl!Cached, Fl!CloseBegin,
         P!Fl!CloseBegin, Fl!CloseEnd, P!Fl!CloseEnd, Fl!Convert,
         P!Fl!Convert, Fl!End, P!Fl!End, Fl!Evict, P!Fl!Evict, Fl!Excess,
         P!Fl!Excess, Fl!Failed, P!Fl!Failed, Fl!GiveUp, P!Fl!GiveUp,
         Fl!Gone, P!Fl!Gone, Fl!Hit, P!Fl!Hit, Fl!Idle, P!Fl!Idle, Fl!Join,
         P!Fl!Join, Fl!Kept, P!Fl!Kept, Fl!Keys, P!Fl!Keys, Fl!LastWaiter,
         P!Fl!LastWaiter, Fl!Leave, P!Fl!Leave, Fl!LiveJobs, P!Fl!LiveJobs,
         Fl!Look, P!Fl!Look, Fl!Move, P!Fl!Move, Fl!Next, P!Fl!Next,
         Fl!NoJob, P!Fl!NoJob, Fl!NoKey, P!Fl!NoKey, Fl!Open, P!Fl!Open,
         Fl!Partials, P!Fl!Partials, Fl!Pinned, P!Fl!Pinned,
         Fl!QueueCanceled, P!Fl!QueueCanceled, Fl!Refused, P!Fl!Refused,
         Fl!Rename, P!Fl!Rename, Fl!Replace, P!Fl!Replace, Fl!ResultsAt,
         P!Fl!ResultsAt, Fl!Return, P!Fl!Return, Fl!Run, P!Fl!Run,
         Fl!RunsWaited, P!Fl!RunsWaited, Fl!Serve, P!Fl!Serve, Fl!Slots,
         P!Fl!Slots, Fl!Stat, P!Fl!Stat, Fl!TakeSlot, P!Fl!TakeSlot, Fl!To,
         P!Fl!To, Fl!Touched, P!Fl!Touched, Fl!Unlisted, P!Fl!Unlisted,
         Fl!Unpinned, P!Fl!Unpinned, Fl!WaitOver, P!Fl!WaitOver,
         Fl!sameFlacSource, P!Fl!sameFlacSource, Fl!Cardinality,
         P!Fl!Cardinality, Fl!IsFiniteSet, P!Fl!IsFiniteSet
<1>3. Fl!vars = P!Fl!vars
  BY DEF Fl!vars, P!Fl!vars
<1>4. Fl!TypeOK <=> P!Fl!TypeOK
  BY DEF Fl!Keys, P!Fl!Keys, Fl!Slots, P!Fl!Slots, Fl!TypeOK, P!Fl!TypeOK,
         Fl!Cardinality, P!Fl!Cardinality, Fl!IsFiniteSet, P!Fl!IsFiniteSet
<1>5. Fl!ConvertedOnce <=> P!Fl!ConvertedOnce
  BY DEF Fl!ConvertedOnce, P!Fl!ConvertedOnce, Fl!LiveJobs, P!Fl!LiveJobs
<1>6. Fl!ResultStays <=> P!Fl!ResultStays
  BY DEF Fl!Cached, P!Fl!Cached, Fl!ResultStays, P!Fl!ResultStays
<1>7. Fl!VersionHonest <=> P!Fl!VersionHonest
  BY DEF Fl!VersionHonest, P!Fl!VersionHonest
<1>8. Fl!CloseIsFinal <=> P!Fl!CloseIsFinal
  BY DEF Fl!CloseIsFinal, P!Fl!CloseIsFinal, Fl!LiveJobs, P!Fl!LiveJobs
<1> QED BY <1>1, <1>2, <1>3, <1>4, <1>5, <1>6, <1>7, <1>8

LEMMA FlacHolds ==
    ASSUME P!FlacConfigured
    PROVE  Spec => [](part = "flac" => Fl!TypeOK /\ Fl!ConvertedOnce /\
           Fl!ResultStays /\ Fl!VersionHonest /\ Fl!CloseIsFinal)
<1>1. Init /\ part = "flac" => P!Fl!Init
  BY FlacPart DEF Init
<1>2. part = "flac" /\ [Next]_vars => (part = "flac")' /\ [P!Fl!Next]_(P!Fl!vars)
  <2> SUFFICES ASSUME part = "flac", [Next]_vars PROVE [P!Fl!Next]_(P!Fl!vars)
    BY PartStays
  <2> QED BY FlacPart DEF Next, vars, Fl!vars, P!Fl!vars, SwNext, PrNext, ReNext,
         MmNext, ScNext, LbNext, PuNext, IdNext, RcNext, GaNext, AcNext,
         LiNext, SvNext, RuNext, StNext, AuNext, FlNext, HeNext, RpNext,
         PgNext
<1>3. ~(part = "flac") /\ [Next]_vars => (~(part = "flac"))'
  BY PartStays
<1>4. P!Fl!Spec => []P!Fl!TypeOK /\ []P!Fl!ConvertedOnce /\
         []P!Fl!ResultStays /\ []P!Fl!VersionHonest /\ []P!Fl!CloseIsFinal
  BY P!FlacTypesHold, P!FlacConvertedOnce, P!FlacResultStays,
     P!FlacVersionHonest, P!FlacCloseIsFinal
<1>5. P!Fl!TypeOK /\ P!Fl!ConvertedOnce /\ P!Fl!ResultStays /\
         P!Fl!VersionHonest /\ P!Fl!CloseIsFinal => Fl!TypeOK /\
         Fl!ConvertedOnce /\ Fl!ResultStays /\ Fl!VersionHonest /\
         Fl!CloseIsFinal
  BY FlacPart
<1> QED BY <1>1, <1>2, <1>3, <1>4, <1>5, PTL DEF Spec, P!Fl!Spec

(* A version is converted once at a time, a result stays until it is opened  *)
(* and is of the version asked for, and nothing is converted once the cache  *)
(* is closed (internal/web/flacfallback.go): for any number of requests and  *)
(* tracks, any pool and any number of files kept.                            *)
THEOREM BesideFlacCacheIsSound ==
    ASSUME P!FlacConfigured
    PROVE  Spec => []FlacCacheIsSound
BY FlacHolds, PTL DEF FlacCacheIsSound

(* Reports. *)
LEMMA ReportsPart ==
    /\ Rp!Init <=> P!Rp!Init
    /\ Rp!Next <=> P!Rp!Next
    /\ Rp!TypeOK <=> P!Rp!TypeOK
    /\ Rp!BucketsPartition <=> P!Rp!BucketsPartition
    /\ Rp!TilesAgree <=> P!Rp!TilesAgree
    /\ Rp!RecentAgrees <=> P!Rp!RecentAgrees
    /\ Rp!QueuedMeansRetired <=> P!Rp!QueuedMeansRetired
    /\ Rp!ReasonMatchesMessage <=> P!Rp!ReasonMatchesMessage
    /\ Rp!FailedIsShown <=> P!Rp!FailedIsShown
<1>1. /\ \A x : Rp!Cond(x) = P!Rp!Cond(x)
      /\ \A x, y : Rp!Eq(x, y) = P!Rp!Eq(x, y)
      /\ \A x, y : Rp!In(x, y) = P!Rp!In(x, y)
      /\ \A x : Rp!Not(x) = P!Rp!Not(x)
      /\ \A x, y : Rp!And(x, y) = P!Rp!And(x, y)
      /\ \A x, y : Rp!Or(x, y) = P!Rp!Or(x, y)
      /\ \A x : Rp!IsNull(x) = P!Rp!IsNull(x)
      /\ \A x : Rp!OrZero(x) = P!Rp!OrZero(x)
      /\ \A x : Rp!OrEmpty(x) = P!Rp!OrEmpty(x)
      /\ \A x : Rp!Listed(x) = P!Rp!Listed(x)
  BY DEF Rp!And, P!Rp!And, Rp!Cond, P!Rp!Cond, Rp!Eq, P!Rp!Eq, Rp!In,
         P!Rp!In, Rp!IsNull, P!Rp!IsNull, Rp!Listed, P!Rp!Listed, Rp!NULL,
         P!Rp!NULL, Rp!Not, P!Rp!Not, Rp!Or, P!Rp!Or, Rp!OrEmpty,
         P!Rp!OrEmpty, Rp!OrZero, P!Rp!OrZero
<1>2. /\ Rp!retiredPredicate = P!Rp!retiredPredicate
      /\ Rp!Synced = P!Rp!Synced
      /\ Rp!timingVerdictExclusion = P!Rp!timingVerdictExclusion
      /\ \A t : Rp!TierPredicate(t) = P!Rp!TierPredicate(t)
      /\ Rp!TierUnknownPredicate = P!Rp!TierUnknownPredicate
  BY <1>1 DEF Rp!Flagged, P!Rp!Flagged, Rp!Synced, P!Rp!Synced,
         Rp!TierFilePredicate, P!Rp!TierFilePredicate, Rp!TierPredicate,
         P!Rp!TierPredicate, Rp!TierUnknownPredicate,
         P!Rp!TierUnknownPredicate, Rp!retiredPredicate,
         P!Rp!retiredPredicate, Rp!tierRecordedPredicate,
         P!Rp!tierRecordedPredicate, Rp!timingVerdictExclusion,
         P!Rp!timingVerdictExclusion
<1>3. /\ \A top : Rp!finishedPredicates(top) = P!Rp!finishedPredicates(top)
      /\ \A top : Rp!settledPredicate(top) = P!Rp!settledPredicate(top)
  BY <1>1, <1>2 DEF Rp!AtTop, P!Rp!AtTop, Rp!finishedPredicates,
         P!Rp!finishedPredicates, Rp!settledPredicate, P!Rp!settledPredicate
<1>4. /\ \A b, top : Rp!bucketPredicate(b, top) = P!Rp!bucketPredicate(b, top)
      /\ \A b, top : Rp!chipsFor(b, top) = P!Rp!chipsFor(b, top)
      /\ \A c : Rp!chipSQL(c) = P!Rp!chipSQL(c)
      /\ \A t, top : Rp!tileHref(t, top) = P!Rp!tileHref(t, top)
  BY <1>1, <1>2, <1>3 DEF Rp!bucketPredicate, P!Rp!bucketPredicate,
         Rp!chipSQL, P!Rp!chipSQL, Rp!chipsFor, P!Rp!chipsFor, Rp!tileHref,
         P!Rp!tileHref
<1>5. /\ \A b, c, top : Rp!ListBucket(b, c, top) = P!Rp!ListBucket(b, c, top)
      /\ Rp!resultBucket = P!Rp!resultBucket
      /\ Rp!recentResult = P!Rp!recentResult
      /\ Rp!recentWhere = P!Rp!recentWhere
      /\ Rp!reasonKey = P!Rp!reasonKey
      /\ Rp!failureBaseFilter = P!Rp!failureBaseFilter
      /\ Rp!lineEditable = P!Rp!lineEditable
  BY <1>1, <1>2, <1>4, Zenon DEF Rp!Flagged, P!Rp!Flagged, Rp!ListBucket,
         P!Rp!ListBucket, Rp!ReasonKeys, P!Rp!ReasonKeys, Rp!RecentTier,
         P!Rp!RecentTier, Rp!failureBaseFilter, P!Rp!failureBaseFilter,
         Rp!lineEditable, P!Rp!lineEditable, Rp!reasonKey, P!Rp!reasonKey,
         Rp!recentResult, P!Rp!recentResult, Rp!recentWhere,
         P!Rp!recentWhere, Rp!resultBucket, P!Rp!resultBucket
<1>6. /\ \A v : Rp!Unqueued(v) = P!Rp!Unqueued(v)
      /\ \A e, c : Rp!storedClass(e, c) = P!Rp!storedClass(e, c)
      /\ Rp!HandProtected <=> P!Rp!HandProtected
      /\ \A v : Rp!Set(v) <=> P!Rp!Set(v)
  BY DEF Rp!HandProtected, P!Rp!HandProtected, Rp!NULL, P!Rp!NULL, Rp!Set,
         P!Rp!Set, Rp!Stored, P!Rp!Stored, Rp!Unqueued, P!Rp!Unqueued,
         Rp!storedClass, P!Rp!storedClass
<1>7. /\ Rp!Dequeue <=> P!Rp!Dequeue
      /\ Rp!Release <=> P!Rp!Release
      /\ Rp!SetOutcomeType <=> P!Rp!SetOutcomeType
      /\ Rp!SetSyncTier <=> P!Rp!SetSyncTier
      /\ Rp!SetTimingOutcome <=> P!Rp!SetTimingOutcome
      /\ Rp!SetWordTimingState <=> P!Rp!SetWordTimingState
      /\ Rp!ClearWordTimingState <=> P!Rp!ClearWordTimingState
      /\ Rp!Complete <=> P!Rp!Complete
      /\ Rp!SettleInstrumental <=> P!Rp!SettleInstrumental
  BY <1>1, <1>2, <1>5, <1>6, Zenon DEF Rp!ClearWordTimingState,
         P!Rp!ClearWordTimingState, Rp!Complete, P!Rp!Complete, Rp!Dequeue,
         P!Rp!Dequeue, Rp!Fetching, P!Rp!Fetching, Rp!Held, P!Rp!Held,
         Rp!NULL, P!Rp!NULL, Rp!Release, P!Rp!Release, Rp!SetOutcomeType,
         P!Rp!SetOutcomeType, Rp!SetSyncTier, P!Rp!SetSyncTier,
         Rp!SetTimingOutcome, P!Rp!SetTimingOutcome, Rp!SetWordTimingState,
         P!Rp!SetWordTimingState, Rp!SettleInstrumental,
         P!Rp!SettleInstrumental
<1>8. /\ Rp!SettleGuardRejected <=> P!Rp!SettleGuardRejected
      /\ Rp!SettleBlocked <=> P!Rp!SettleBlocked
      /\ Rp!Fail <=> P!Rp!Fail
      /\ Rp!Defer <=> P!Rp!Defer
      /\ Rp!DeferRefused <=> P!Rp!DeferRefused
      /\ Rp!RetireMiss <=> P!Rp!RetireMiss
      /\ Rp!MarkWordRecheckQueued <=> P!Rp!MarkWordRecheckQueued
      /\ Rp!SettleWordRecheck <=> P!Rp!SettleWordRecheck
      /\ Rp!DeferWordRecheck <=> P!Rp!DeferWordRecheck
  BY <1>1, <1>2, <1>5, <1>6, Zenon DEF Rp!Defer, P!Rp!Defer, Rp!DeferRefused,
         P!Rp!DeferRefused, Rp!DeferWordRecheck, P!Rp!DeferWordRecheck,
         Rp!Fail, P!Rp!Fail, Rp!Failed, P!Rp!Failed, Rp!Fetching,
         P!Rp!Fetching, Rp!Flagged, P!Rp!Flagged, Rp!Held, P!Rp!Held,
         Rp!MarkWordRecheckQueued, P!Rp!MarkWordRecheckQueued, Rp!NULL,
         P!Rp!NULL, Rp!Rechecking, P!Rp!Rechecking, Rp!RetireMiss,
         P!Rp!RetireMiss, Rp!SettleBlocked, P!Rp!SettleBlocked,
         Rp!SettleGuardRejected, P!Rp!SettleGuardRejected,
         Rp!SettleWordRecheck, P!Rp!SettleWordRecheck
<1>9. /\ Rp!RetryWordRecheckWrite <=> P!Rp!RetryWordRecheckWrite
      /\ Rp!MarkUpgradeQueued <=> P!Rp!MarkUpgradeQueued
      /\ Rp!SettleUpgradeTrip <=> P!Rp!SettleUpgradeTrip
      /\ Rp!SettleGoneUpgradeTrip <=> P!Rp!SettleGoneUpgradeTrip
      /\ Rp!retireUnresolvable <=> P!Rp!retireUnresolvable
      /\ Rp!Resurrect <=> P!Rp!Resurrect
      /\ Rp!Unretire <=> P!Rp!Unretire
      /\ Rp!SetTimingOutcomeIfIdle <=> P!Rp!SetTimingOutcomeIfIdle
      /\ Rp!SetSyncTierIfPending <=> P!Rp!SetSyncTierIfPending
  BY <1>1, <1>2, <1>5, <1>6, Zenon DEF Rp!Flagged, P!Rp!Flagged, Rp!Held, P!Rp!Held,
         Rp!MarkUpgradeQueued, P!Rp!MarkUpgradeQueued, Rp!NULL, P!Rp!NULL,
         Rp!Rechecking, P!Rp!Rechecking, Rp!Resurrect, P!Rp!Resurrect,
         Rp!RetryWordRecheckWrite, P!Rp!RetryWordRecheckWrite,
         Rp!SetSyncTierIfPending, P!Rp!SetSyncTierIfPending,
         Rp!SetTimingOutcomeIfIdle, P!Rp!SetTimingOutcomeIfIdle,
         Rp!SettleGoneUpgradeTrip, P!Rp!SettleGoneUpgradeTrip,
         Rp!SettleUpgradeTrip, P!Rp!SettleUpgradeTrip, Rp!Unretirable,
         P!Rp!Unretirable, Rp!Unretire, P!Rp!Unretire, Rp!retireUnresolvable,
         P!Rp!retireUnresolvable
<1>10. /\ Rp!ApplyRemediated <=> P!Rp!ApplyRemediated
       /\ Rp!MarkManualInstrumental <=> P!Rp!MarkManualInstrumental
       /\ Rp!UnmarkManualInstrumental <=> P!Rp!UnmarkManualInstrumental
       /\ Rp!SetLyricEdit <=> P!Rp!SetLyricEdit
       /\ Rp!ClearLyricEdit <=> P!Rp!ClearLyricEdit
       /\ Rp!Retry <=> P!Rp!Retry
       /\ Rp!RecheckRetired <=> P!Rp!RecheckRetired
       /\ Rp!ResetInstrumental <=> P!Rp!ResetInstrumental
       /\ Rp!UnsettleInstrumental <=> P!Rp!UnsettleInstrumental
  BY <1>1, <1>2, <1>5, <1>6, Zenon DEF Rp!ApplyRemediated, P!Rp!ApplyRemediated,
         Rp!ClearLyricEdit, P!Rp!ClearLyricEdit, Rp!Held, P!Rp!Held,
         Rp!MarkManualInstrumental, P!Rp!MarkManualInstrumental, Rp!NULL,
         P!Rp!NULL, Rp!RecheckRetired, P!Rp!RecheckRetired,
         Rp!ResetInstrumental, P!Rp!ResetInstrumental, Rp!Retry, P!Rp!Retry,
         Rp!SetLyricEdit, P!Rp!SetLyricEdit, Rp!UnmarkManualInstrumental,
         P!Rp!UnmarkManualInstrumental, Rp!UnsettleInstrumental,
         P!Rp!UnsettleInstrumental
<1>11. /\ Rp!ReopenDoneRow <=> P!Rp!ReopenDoneRow
  BY <1>1, <1>2, <1>5, <1>6, Zenon DEF Rp!NULL, P!Rp!NULL, Rp!ReopenDoneRow,
         P!Rp!ReopenDoneRow
<1>12. Rp!Init <=> P!Rp!Init
  BY <1>1, <1>2, <1>4, <1>5 DEF Rp!Init, P!Rp!Init, Rp!NULL, P!Rp!NULL
<1>13. Rp!Next <=> P!Rp!Next
  BY <1>7, <1>8, <1>9, <1>10, <1>11 DEF Rp!Next, P!Rp!Next
<1>14. Rp!TypeOK <=> P!Rp!TypeOK
  BY <1>1, <1>2, <1>4, <1>5 DEF Rp!NULL, P!Rp!NULL, Rp!Row, P!Rp!Row,
         Rp!TypeOK, P!Rp!TypeOK
<1>15. Rp!BucketsPartition <=> P!Rp!BucketsPartition
  BY <1>1, <1>2, <1>4, <1>5 DEF Rp!Buckets, P!Rp!Buckets,
         Rp!BucketsPartition, P!Rp!BucketsPartition, Rp!TopRungs,
         P!Rp!TopRungs
<1>16. Rp!TilesAgree <=> P!Rp!TilesAgree
  BY <1>1, <1>2, <1>4, <1>5 DEF Rp!TilesAgree, P!Rp!TilesAgree, Rp!TopRungs,
         P!Rp!TopRungs
<1>17. Rp!RecentAgrees <=> P!Rp!RecentAgrees
  BY <1>1, <1>2, <1>4, <1>5 DEF Rp!RecentAgrees, P!Rp!RecentAgrees
<1>18. Rp!QueuedMeansRetired <=> P!Rp!QueuedMeansRetired
  BY <1>1, <1>2, <1>4, <1>5 DEF Rp!QueuedMeansRetired,
         P!Rp!QueuedMeansRetired
<1>19. Rp!ReasonMatchesMessage <=> P!Rp!ReasonMatchesMessage
  BY <1>1, <1>2, <1>4, <1>5 DEF Rp!ReasonMatchesMessage,
         P!Rp!ReasonMatchesMessage
<1>20. Rp!FailedIsShown <=> P!Rp!FailedIsShown
  BY <1>1, <1>2, <1>4, <1>5 DEF Rp!FailedIsShown, P!Rp!FailedIsShown
<1> QED BY <1>12, <1>13, <1>14, <1>15, <1>16, <1>17, <1>18, <1>19, <1>20

LEMMA ReportsHolds ==
    ASSUME P!ReportsConfigured
    PROVE  Spec => [](part = "reports" => Rp!TypeOK /\ Rp!BucketsPartition /\
           Rp!TilesAgree /\ Rp!RecentAgrees /\ Rp!QueuedMeansRetired /\
           Rp!ReasonMatchesMessage /\ Rp!FailedIsShown)
<1>1. Init /\ part = "reports" => P!Rp!Init
  BY ReportsPart DEF Init
<1>2. part = "reports" /\ [Next]_vars => (part = "reports")' /\ [P!Rp!Next]_(x1)
  <2> SUFFICES ASSUME part = "reports", [Next]_vars PROVE [P!Rp!Next]_(x1)
    BY PartStays
  <2> QED BY ReportsPart DEF Next, vars, SwNext, PrNext, ReNext, MmNext, ScNext,
         LbNext, PuNext, IdNext, RcNext, GaNext, AcNext, LiNext, SvNext,
         RuNext, StNext, AuNext, FlNext, HeNext, RpNext, PgNext
<1>3. ~(part = "reports") /\ [Next]_vars => (~(part = "reports"))'
  BY PartStays
<1>4. P!Rp!Spec => []P!Rp!TypeOK /\ []P!Rp!BucketsPartition /\
         []P!Rp!TilesAgree /\ []P!Rp!RecentAgrees /\
         []P!Rp!QueuedMeansRetired /\ []P!Rp!ReasonMatchesMessage /\
         []P!Rp!FailedIsShown
  BY P!ReportsTypesHold, P!ReportsPartition, P!ReportsTilesAgree,
     P!ReportsRecentAgrees, P!ReportsQueuedMeansRetired,
     P!ReportsReasonMatches, P!ReportsFailedIsShown
<1>5. P!Rp!TypeOK /\ P!Rp!BucketsPartition /\ P!Rp!TilesAgree /\
         P!Rp!RecentAgrees /\ P!Rp!QueuedMeansRetired /\
         P!Rp!ReasonMatchesMessage /\ P!Rp!FailedIsShown => Rp!TypeOK /\
         Rp!BucketsPartition /\ Rp!TilesAgree /\ Rp!RecentAgrees /\
         Rp!QueuedMeansRetired /\ Rp!ReasonMatchesMessage /\ Rp!FailedIsShown
  BY ReportsPart
<1> QED BY <1>1, <1>2, <1>3, <1>4, <1>5, PTL DEF Spec, P!Rp!Spec

(* Walks of a Work Queue page. *)
LEMMA PagingPart ==
    /\ Pg!Init <=> P!Pg!Init
    /\ Pg!Next <=> P!Pg!Next
    /\ Pg!vars = P!Pg!vars
    /\ Pg!TypeOK <=> P!Pg!TypeOK
    /\ Pg!SteadyListedOnce <=> P!Pg!SteadyListedOnce
<1>1. Pg!Init <=> P!Pg!Init
  BY Zenon DEF Pg!Init, P!Pg!Init, Pg!Null, P!Pg!Null, Pg!Top, P!Pg!Top
<1>2. Pg!Next <=> P!Pg!Next
  BY Zenon DEF Pg!Change, P!Pg!Change, Pg!Further, P!Pg!Further, Pg!Keyset,
         P!Pg!Keyset, Pg!Last, P!Pg!Last, Pg!Limit, P!Pg!Limit, Pg!Next,
         P!Pg!Next, Pg!Null, P!Pg!Null, Pg!OrderBy, P!Pg!OrderBy, Pg!Restart,
         P!Pg!Restart, Pg!SortVal, P!Pg!SortVal, Pg!Top, P!Pg!Top,
         Pg!handleQueueBucket, P!Pg!handleQueueBucket, Pg!Cardinality,
         P!Pg!Cardinality, Pg!IsFiniteSet, P!Pg!IsFiniteSet
<1>3. Pg!vars = P!Pg!vars
  BY DEF Pg!vars, P!Pg!vars
<1>4. Pg!TypeOK <=> P!Pg!TypeOK
  BY DEF Pg!Null, P!Pg!Null, Pg!TypeOK, P!Pg!TypeOK
<1>5. Pg!SteadyListedOnce <=> P!Pg!SteadyListedOnce
  BY DEF Pg!SteadyListedOnce, P!Pg!SteadyListedOnce
<1> QED BY <1>1, <1>2, <1>3, <1>4, <1>5

LEMMA PagingHolds ==
    ASSUME P!PagingConfigured
    PROVE  Spec => [](part = "paging" => Pg!TypeOK /\ Pg!SteadyListedOnce)
<1>1. Init /\ part = "paging" => P!Pg!Init
  BY PagingPart DEF Init
<1>2. part = "paging" /\ [Next]_vars => (part = "paging")' /\ [P!Pg!Next]_(P!Pg!vars)
  <2> SUFFICES ASSUME part = "paging", [Next]_vars PROVE [P!Pg!Next]_(P!Pg!vars)
    BY PartStays
  <2> QED BY PagingPart DEF Next, vars, Pg!vars, P!Pg!vars, SwNext, PrNext, ReNext,
         MmNext, ScNext, LbNext, PuNext, IdNext, RcNext, GaNext, AcNext,
         LiNext, SvNext, RuNext, StNext, AuNext, FlNext, HeNext, RpNext,
         PgNext
<1>3. ~(part = "paging") /\ [Next]_vars => (~(part = "paging"))'
  BY PartStays
<1>4. P!Pg!Spec => []P!Pg!TypeOK /\ []P!Pg!SteadyListedOnce
  BY P!PagingTypesHold, P!PagingListsOnce, PTL
<1>5. P!Pg!TypeOK /\ P!Pg!SteadyListedOnce => Pg!TypeOK /\
         Pg!SteadyListedOnce
  BY PagingPart
<1> QED BY <1>1, <1>2, <1>3, <1>4, <1>5, PTL DEF Spec, P!Pg!Spec

(* Every row is in one bucket, tiles and lists agree with the buckets, what  *)
(* is shown as queued or failed is, and a walk of the pages lists a row that *)
(* stands still exactly once (internal/reports): whatever the verdicts and   *)
(* the error classes, for any set of rows and any page size.                 *)
THEOREM BesideReportsAgree ==
    ASSUME P!ReportsConfigured, P!PagingConfigured
    PROVE  Spec => []ReportsAgree
BY ReportsHolds, PagingHolds, PTL DEF ReportsAgree

(* The lyric writer. *)
LEMMA WriterPart ==
    /\ Sc!WritersInit <=> P!Sc!WritersInit
    /\ Sc!WriterNext <=> P!Sc!WriterNext
    /\ Sc!wvars = P!Sc!wvars
    /\ Sc!WritersTypeOK <=> P!Sc!WritersTypeOK
    /\ Sc!CompanionMatches <=> P!Sc!CompanionMatches
    /\ Sc!NeverDowngrades <=> P!Sc!NeverDowngrades
<1>1. Sc!WritersInit <=> P!Sc!WritersInit
  BY DEF Sc!NoCall, P!Sc!NoCall, Sc!WritersInit, P!Sc!WritersInit
<1>2. Sc!WriterNext <=> P!Sc!WriterNext
  BY DEF Sc!Absent, P!Sc!Absent, Sc!Die, P!Sc!Die, Sc!Disturb, P!Sc!Disturb,
         Sc!Fail, P!Sc!Fail, Sc!Kept, P!Sc!Kept, Sc!Killed, P!Sc!Killed,
         Sc!LrcRung, P!Sc!LrcRung, Sc!NoCall, P!Sc!NoCall, Sc!Opts,
         P!Sc!Opts, Sc!Probe, P!Sc!Probe, Sc!Put, P!Sc!Put,
         Sc!RemoveCompanion, P!Sc!RemoveCompanion, Sc!Rename, P!Sc!Rename,
         Sc!RungOfSong, P!Sc!RungOfSong, Sc!Songs, P!Sc!Songs, Sc!StaleCheck,
         P!Sc!StaleCheck, Sc!StaleRemove, P!Sc!StaleRemove, Sc!Stay,
         P!Sc!Stay, Sc!Step, P!Sc!Step, Sc!Target, P!Sc!Target, Sc!TxtRung,
         P!Sc!TxtRung, Sc!Unlink, P!Sc!Unlink, Sc!WriteCompanion,
         P!Sc!WriteCompanion, Sc!WriteSteps, P!Sc!WriteSteps, Sc!WriterNext,
         P!Sc!WriterNext, Sc!Writing, P!Sc!Writing, Sc!Written, P!Sc!Written,
         Sc!candidateRung, P!Sc!candidateRung, Sc!classifyOnDisk,
         P!Sc!classifyOnDisk, Sc!oppositeSidecar, P!Sc!oppositeSidecar,
         Sc!planCompanion, P!Sc!planCompanion, Sc!recheckManualMarker,
         P!Sc!recheckManualMarker, Sc!refuseManualMarker,
         P!Sc!refuseManualMarker, Sc!settledSidecar, P!Sc!settledSidecar,
         Sc!stemOccupant, P!Sc!stemOccupant
<1>3. Sc!wvars = P!Sc!wvars
  BY DEF Sc!wvars, P!Sc!wvars
<1>4. Sc!WritersTypeOK <=> P!Sc!WritersTypeOK
  BY DEF Sc!Opts, P!Sc!Opts, Sc!Phases, P!Sc!Phases, Sc!SidecarKinds,
         P!Sc!SidecarKinds, Sc!Songs, P!Sc!Songs, Sc!WritersTypeOK,
         P!Sc!WritersTypeOK
<1>5. Sc!CompanionMatches <=> P!Sc!CompanionMatches
  BY DEF Sc!CompanionMatches, P!Sc!CompanionMatches
<1>6. Sc!NeverDowngrades <=> P!Sc!NeverDowngrades
  BY DEF Sc!LrcRung, P!Sc!LrcRung, Sc!NeverDowngrades, P!Sc!NeverDowngrades,
         Sc!TxtRung, P!Sc!TxtRung, Sc!classifyOnDisk, P!Sc!classifyOnDisk
<1> QED BY <1>1, <1>2, <1>3, <1>4, <1>5, <1>6

LEMMA WriterHolds ==
    ASSUME P!WriterConfigured, P!OneWriter
    PROVE  Spec => [](part = "writer" => Sc!WritersTypeOK /\
           Sc!CompanionMatches /\ Sc!NeverDowngrades)
<1>1. Init /\ part = "writer" => P!Sc!WritersInit
  BY WriterPart DEF Init
<1>2. part = "writer" /\ [Next]_vars => (part = "writer")' /\ [P!Sc!WriterNext]_(P!Sc!wvars)
  <2> SUFFICES ASSUME part = "writer", [Next]_vars PROVE [P!Sc!WriterNext]_(P!Sc!wvars)
    BY PartStays
  <2> QED BY WriterPart DEF Next, vars, Sc!wvars, P!Sc!wvars, SwNext, PrNext, ReNext,
         MmNext, ScNext, LbNext, PuNext, IdNext, RcNext, GaNext, AcNext,
         LiNext, SvNext, RuNext, StNext, AuNext, FlNext, HeNext, RpNext,
         PgNext
<1>3. ~(part = "writer") /\ [Next]_vars => (~(part = "writer"))'
  BY PartStays
<1>4. P!Sc!WriterSpec => []P!Sc!WritersTypeOK /\ []P!Sc!CompanionMatches /\
         []P!Sc!NeverDowngrades
  BY P!WriterTypesHold, P!WriterCompanionsMatch, P!WriterNeverDowngrades
<1>5. P!Sc!WritersTypeOK /\ P!Sc!CompanionMatches /\ P!Sc!NeverDowngrades =>
         Sc!WritersTypeOK /\ Sc!CompanionMatches /\ Sc!NeverDowngrades
  BY WriterPart
<1> QED BY <1>1, <1>2, <1>3, <1>4, <1>5, PTL DEF Spec, P!Sc!WriterSpec

(* The blocks of MCBeside: a lyric body is no sign that there is none, and no *)
(* edition is taken for none.                                                *)
BlocksConfigured == NoBody \notin Bodies /\ NoBlockRow \notin Rows

(* Marks. *)
LEMMA BlocksPart ==
    /\ Lb!Init <=> B!Init
    /\ Lb!Next <=> B!Next
    /\ Lb!vars = B!vars
    /\ Lb!RetryCompletes <=> B!RetryCompletes
<1>1. Lb!Init <=> B!Init
  BY Zenon DEF Lb!Init, B!Init, Lb!NoMark, B!NoMark, Lb!NoPass, B!NoPass,
         Lb!NoWork, B!NoWork
<1>2. Lb!Next <=> B!Next
  BY Zenon DEF Lb!Abandon, B!Abandon, Lb!Backstop, B!Backstop, Lb!Claim, B!Claim,
         Lb!Cleanup, B!Cleanup, Lb!Complete, B!Complete, Lb!DeleteOrphans,
         B!DeleteOrphans, Lb!Dispatch, B!Dispatch, Lb!EndEmpty, B!EndEmpty,
         Lb!Enqueue, B!Enqueue, Lb!Guarded, B!Guarded, Lb!Keep, B!Keep,
         Lb!Land, B!Land, Lb!MarkStep, B!MarkStep, Lb!MarkUpgradeQueued,
         B!MarkUpgradeQueued, Lb!Marking, B!Marking, Lb!Next, B!Next,
         Lb!NoMark, B!NoMark, Lb!NoPass, B!NoPass, Lb!NoWork, B!NoWork,
         Lb!Reopened, B!Reopened, Lb!Set, B!Set, Lb!Settle, B!Settle,
         Lb!Step, B!Step, Lb!Unblock, B!Unblock, Lb!WorkerStep, B!WorkerStep,
         Lb!backup, B!backup, Lb!block, B!block, Lb!blockExtra, B!blockExtra,
         Lb!compare, B!compare, Lb!interrupted, B!interrupted, Lb!load,
         B!load, Lb!reopen, B!reopen, Lb!reread, B!reread, Lb!settleBlocked,
         B!settleBlocked, Lb!unlink, B!unlink
<1>3. Lb!vars = B!vars
  BY DEF Lb!vars, B!vars
<1>4. Lb!RetryCompletes <=> B!RetryCompletes
  BY DEF Lb!RetryCompletes, B!RetryCompletes
<1> QED BY <1>1, <1>2, <1>3, <1>4

LEMMA BlocksHolds ==
    ASSUME BlocksConfigured
    PROVE  Spec => [](part = "blocks" => Lb!RetryCompletes)
<1>1. Init /\ part = "blocks" => B!Init
  BY BlocksPart DEF Init
<1>2. part = "blocks" /\ [Next]_vars => (part = "blocks")' /\ [B!Next]_(B!vars)
  <2> SUFFICES ASSUME part = "blocks", [Next]_vars PROVE [B!Next]_(B!vars)
    BY PartStays
  <2> QED BY BlocksPart DEF Next, vars, Lb!vars, B!vars, SwNext, PrNext, ReNext,
         MmNext, ScNext, LbNext, PuNext, IdNext, RcNext, GaNext, AcNext,
         LiNext, SvNext, RuNext, StNext, AuNext, FlNext, HeNext, RpNext,
         PgNext
<1>3. ~(part = "blocks") /\ [Next]_vars => (~(part = "blocks"))'
  BY PartStays
<1>4. B!Spec => []B!RetryCompletes
  <2>1. NoBody \notin Bodies /\ NoBlockRow \notin Rows /\ FALSE \in BOOLEAN /\ ~FALSE
    BY DEF BlocksConfigured
  <2> QED BY <2>1, B!RetriedMarkCompletes, Zenon
<1>5. B!RetryCompletes => Lb!RetryCompletes
  BY BlocksPart
<1> QED BY <1>1, <1>2, <1>3, <1>4, <1>5, PTL DEF Spec, B!Spec

(* A companion never stays beside lyrics of another song and no write lowers *)
(* the rung of what is there (internal/lyrics/writer.go), for any outputs,   *)
(* any files found and any faults, with one writer at a time; and a second   *)
(* Mark completes one that was interrupted (internal/lyricblock), for any    *)
(* editions and bodies.                                                      *)
THEOREM BesideWritesAreSafe ==
    ASSUME P!WriterConfigured, P!OneWriter, BlocksConfigured
    PROVE  Spec => []WritesAreSafe
BY WriterHolds, BlocksHolds, PTL DEF WritesAreSafe

(* Starting and stopping. *)
LEMMA ServerPart ==
    /\ Sv!Init <=> P!Sv!Init
    /\ Sv!Next <=> P!Sv!Next
    /\ Sv!vars = P!Sv!vars
    /\ Sv!TypeOK <=> P!Sv!TypeOK
    /\ Sv!RealignAfterBackfill <=> P!Sv!RealignAfterBackfill
    /\ Sv!NothingOutlivesTheDatabase <=> P!Sv!NothingOutlivesTheDatabase
    /\ Sv!NoRealignAfterClose <=> P!Sv!NoRealignAfterClose
    /\ Sv!RevokedStaysRevoked <=> P!Sv!RevokedStaysRevoked
<1>1. Sv!Init <=> P!Sv!Init
  BY Zenon DEF Sv!Init, P!Sv!Init
<1>2. Sv!Next <=> P!Sv!Next
  BY DEF Sv!Answered, P!Sv!Answered, Sv!Backfill, P!Sv!Backfill,
         Sv!Background, P!Sv!Background, Sv!BgIdle, P!Sv!BgIdle, Sv!BgWait,
         P!Sv!BgWait, Sv!Build, P!Sv!Build, Sv!Checked, P!Sv!Checked,
         Sv!CloseDB, P!Sv!CloseDB, Sv!CloseHandler, P!Sv!CloseHandler,
         Sv!CreateKey, P!Sv!CreateKey, Sv!Dispatched, P!Sv!Dispatched,
         Sv!DrainStart, P!Sv!DrainStart, Sv!Drained, P!Sv!Drained,
         Sv!Drainer, P!Sv!Drainer, Sv!GateOpen, P!Sv!GateOpen, Sv!Gated,
         P!Sv!Gated, Sv!InFlight, P!Sv!InFlight, Sv!Listen, P!Sv!Listen,
         Sv!Listening, P!Sv!Listening, Sv!Main, P!Sv!Main, Sv!Next,
         P!Sv!Next, Sv!Open, P!Sv!Open, Sv!RecheckShutdown,
         P!Sv!RecheckShutdown, Sv!Restart, P!Sv!Restart, Sv!RevokeKey,
         P!Sv!RevokeKey, Sv!RunDone, P!Sv!RunDone, Sv!Seeded, P!Sv!Seeded,
         Sv!ServeFails, P!Sv!ServeFails, Sv!ServeReturns, P!Sv!ServeReturns,
         Sv!ShutdownReturns, P!Sv!ShutdownReturns, Sv!Signal, P!Sv!Signal,
         Sv!StartTasks, P!Sv!StartTasks, Sv!TaskEnds, P!Sv!TaskEnds,
         Sv!ValidateKey, P!Sv!ValidateKey, Sv!WgWait, P!Sv!WgWait,
         Sv!dispatchRealign, P!Sv!dispatchRealign, Sv!handleLidarr,
         P!Sv!handleLidarr, Sv!http, P!Sv!http, Sv!idleMain, P!Sv!idleMain,
         Sv!reactiveRealign, P!Sv!reactiveRealign
<1>3. Sv!vars = P!Sv!vars
  BY DEF Sv!vars, P!Sv!vars
<1>4. Sv!TypeOK <=> P!Sv!TypeOK
  BY DEF Sv!TypeOK, P!Sv!TypeOK
<1>5. Sv!RealignAfterBackfill <=> P!Sv!RealignAfterBackfill
  BY DEF Sv!RealignAfterBackfill, P!Sv!RealignAfterBackfill
<1>6. Sv!NothingOutlivesTheDatabase <=> P!Sv!NothingOutlivesTheDatabase
  BY DEF Sv!BgIdle, P!Sv!BgIdle, Sv!InFlight, P!Sv!InFlight,
         Sv!NothingOutlivesTheDatabase, P!Sv!NothingOutlivesTheDatabase
<1>7. Sv!NoRealignAfterClose <=> P!Sv!NoRealignAfterClose
  BY DEF Sv!NoRealignAfterClose, P!Sv!NoRealignAfterClose
<1>8. Sv!RevokedStaysRevoked <=> P!Sv!RevokedStaysRevoked
  BY DEF Sv!RevokedStaysRevoked, P!Sv!RevokedStaysRevoked
<1> QED BY <1>1, <1>2, <1>3, <1>4, <1>5, <1>6, <1>7, <1>8

LEMMA ServerHolds ==
    Spec => /\ [](part = "server" => Sv!TypeOK /\ Sv!RealignAfterBackfill /\
                 Sv!NothingOutlivesTheDatabase)
            /\ [][part = "server" => Sv!NoRealignAfterClose]_vars
            /\ [][part = "server" => Sv!RevokedStaysRevoked]_vars
<1>1. Init /\ part = "server" => P!Sv!Init
  BY ServerPart DEF Init
<1>2. part = "server" /\ [Next]_vars => (part = "server")' /\ [P!Sv!Next]_(P!Sv!vars)
  <2> SUFFICES ASSUME part = "server", [Next]_vars PROVE [P!Sv!Next]_(P!Sv!vars)
    BY PartStays
  <2> QED BY ServerPart DEF Next, vars, Sv!vars, P!Sv!vars, SwNext, PrNext, ReNext,
         MmNext, ScNext, LbNext, PuNext, IdNext, RcNext, GaNext, AcNext,
         LiNext, SvNext, RuNext, StNext, AuNext, FlNext, HeNext, RpNext,
         PgNext
<1>3. ~(part = "server") /\ [Next]_vars => (~(part = "server"))'
  BY PartStays
<1>4. P!Sv!Spec => []P!Sv!TypeOK /\ []P!Sv!RealignAfterBackfill /\
         []P!Sv!NothingOutlivesTheDatabase /\
         [][P!Sv!NoRealignAfterClose]_(P!Sv!vars) /\
         [][P!Sv!RevokedStaysRevoked]_(P!Sv!vars)
  BY P!ServerTypesHold, P!ServerGatesRealigns, P!ServerClosesLast,
     P!ServerRefusesLate, P!ServerRevokesForGood
<1>5. P!Sv!TypeOK /\ P!Sv!RealignAfterBackfill /\
         P!Sv!NothingOutlivesTheDatabase => Sv!TypeOK /\
         Sv!RealignAfterBackfill /\ Sv!NothingOutlivesTheDatabase
  BY ServerPart
<1>6. [P!Sv!NoRealignAfterClose]_(P!Sv!vars) => (part = "server" /\ [Next]_vars => [part = "server" => Sv!NoRealignAfterClose]_vars)
  BY ServerPart DEF Next, vars, Sv!NoRealignAfterClose, P!Sv!NoRealignAfterClose, P!Sv!vars
<1>7. [P!Sv!RevokedStaysRevoked]_(P!Sv!vars) => (part = "server" /\ [Next]_vars => [part = "server" => Sv!RevokedStaysRevoked]_vars)
  BY ServerPart DEF Next, vars, Sv!RevokedStaysRevoked, P!Sv!RevokedStaysRevoked, P!Sv!vars
<1> QED BY <1>1, <1>2, <1>3, <1>4, <1>5, <1>6, <1>7, PTL DEF Spec, P!Sv!Spec

(* Repair runs. *)
LEMMA RunnerPart ==
    /\ Ru!Init <=> P!Ru!Init
    /\ Ru!Next <=> P!Ru!Next
    /\ Ru!vars = P!Ru!vars
    /\ Ru!TypeOK <=> P!Ru!TypeOK
    /\ Ru!OneRunAtATime <=> P!Ru!OneRunAtATime
    /\ Ru!CloseLeavesNothing <=> P!Ru!CloseLeavesNothing
    /\ Ru!SnapshotIsItsRun <=> P!Ru!SnapshotIsItsRun
<1>1. Ru!Init <=> P!Ru!Init
  BY DEF Ru!Ids, P!Ru!Ids, Ru!Init, P!Ru!Init, Ru!NoRun, P!Ru!NoRun
<1>2. Ru!Next <=> P!Ru!Next
  BY DEF Ru!Admits, P!Ru!Admits, Ru!Awaited, P!Ru!Awaited, Ru!Begin,
         P!Ru!Begin, Ru!CancelKey, P!Ru!CancelKey, Ru!Close, P!Ru!Close,
         Ru!CloseLive, P!Ru!CloseLive, Ru!CloseReturns, P!Ru!CloseReturns,
         Ru!CloseTimesOut, P!Ru!CloseTimesOut, Ru!Finish, P!Ru!Finish,
         Ru!Finished, P!Ru!Finished, Ru!Ids, P!Ru!Ids, Ru!Next, P!Ru!Next,
         Ru!Return, P!Ru!Return, Ru!Start, P!Ru!Start
<1>3. Ru!vars = P!Ru!vars
  BY DEF Ru!vars, P!Ru!vars
<1>4. Ru!TypeOK <=> P!Ru!TypeOK
  BY DEF Ru!Ids, P!Ru!Ids, Ru!TypeOK, P!Ru!TypeOK
<1>5. Ru!OneRunAtATime <=> P!Ru!OneRunAtATime
  BY DEF Ru!Ids, P!Ru!Ids, Ru!OneRunAtATime, P!Ru!OneRunAtATime
<1>6. Ru!CloseLeavesNothing <=> P!Ru!CloseLeavesNothing
  BY DEF Ru!CloseLeavesNothing, P!Ru!CloseLeavesNothing, Ru!Ids, P!Ru!Ids
<1>7. Ru!SnapshotIsItsRun <=> P!Ru!SnapshotIsItsRun
  BY DEF Ru!SnapshotIsItsRun, P!Ru!SnapshotIsItsRun
<1> QED BY <1>1, <1>2, <1>3, <1>4, <1>5, <1>6, <1>7

LEMMA RunnerHolds ==
    ASSUME P!RunnerConfigured
    PROVE  Spec => [](part = "runner" => Ru!TypeOK /\ Ru!OneRunAtATime /\
           Ru!CloseLeavesNothing /\ Ru!SnapshotIsItsRun)
<1>1. Init /\ part = "runner" => P!Ru!Init
  BY RunnerPart DEF Init
<1>2. part = "runner" /\ [Next]_vars => (part = "runner")' /\ [P!Ru!Next]_(P!Ru!vars)
  <2> SUFFICES ASSUME part = "runner", [Next]_vars PROVE [P!Ru!Next]_(P!Ru!vars)
    BY PartStays
  <2> QED BY RunnerPart DEF Next, vars, Ru!vars, P!Ru!vars, SwNext, PrNext, ReNext,
         MmNext, ScNext, LbNext, PuNext, IdNext, RcNext, GaNext, AcNext,
         LiNext, SvNext, RuNext, StNext, AuNext, FlNext, HeNext, RpNext,
         PgNext
<1>3. ~(part = "runner") /\ [Next]_vars => (~(part = "runner"))'
  BY PartStays
<1>4. P!Ru!Spec => []P!Ru!TypeOK /\ []P!Ru!OneRunAtATime /\ []P!Ru!CloseLeavesNothing /\
         []P!Ru!SnapshotIsItsRun
  BY P!RunnerTypesHold, P!RunnerRunsOne, P!RunnerCloses, P!RunnerSnapshots
<1>5. P!Ru!TypeOK /\ P!Ru!OneRunAtATime /\ P!Ru!CloseLeavesNothing /\
         P!Ru!SnapshotIsItsRun => Ru!TypeOK /\ Ru!OneRunAtATime /\
         Ru!CloseLeavesNothing /\ Ru!SnapshotIsItsRun
  BY RunnerPart
<1> QED BY <1>1, <1>2, <1>3, <1>4, <1>5, PTL DEF Spec, P!Ru!Spec

(* No realign starts before the start-up backfill is done or after the drain *)
(* shut the handler, nothing runServe waits for outlives the database and a  *)
(* revoked key stays revoked (cmd serve, internal/server), for any number of *)
(* webhooks, tasks, keys and starts; one repair runs at a time, the snapshot *)
(* is of its run and Close leaves nothing behind (internal/repair), for any  *)
(* repairs and any number of runs.                                           *)
THEOREM BesideLifecycleIsSound ==
    ASSUME P!RunnerConfigured
    PROVE  Spec => LifecycleIsSound
<1>1. Spec => /\ [](part = "server" => Sv!TypeOK /\ Sv!RealignAfterBackfill /\
                    Sv!NothingOutlivesTheDatabase)
              /\ [][part = "server" => Sv!NoRealignAfterClose]_vars
              /\ [][part = "server" => Sv!RevokedStaysRevoked]_vars
  BY ServerHolds
<1>2. Spec => [](part = "runner" => Ru!TypeOK /\ Ru!OneRunAtATime /\
                    Ru!CloseLeavesNothing /\ Ru!SnapshotIsItsRun)
  BY RunnerHolds
<1> QED BY <1>1, <1>2, PTL DEF LifecycleIsSound

(* Timing runs. *)
LEMMA AutoPart ==
    /\ Au!Init <=> P!Au!Init
    /\ Au!Next <=> P!Au!Next
    /\ Au!vars = P!Au!vars
    /\ Au!TypeOK <=> P!Au!TypeOK
    /\ Au!SlotsCounted <=> P!Au!SlotsCounted
    /\ Au!UnlistedIsCanceled <=> P!Au!UnlistedIsCanceled
    /\ Au!SuggestionCurrent <=> P!Au!SuggestionCurrent
    /\ Au!WatchedRunKept <=> P!Au!WatchedRunKept
<1>1. Au!Init <=> P!Au!Init
  BY DEF Au!Idle, P!Au!Idle, Au!Init, P!Au!Init, Au!NoRun, P!Au!NoRun
<1>2. Au!Next <=> P!Au!Next
  BY DEF Au!Age, P!Au!Age, Au!Answer, P!Au!Answer, Au!Begin, P!Au!Begin,
         Au!Cancel, P!Au!Cancel, Au!Close, P!Au!Close, Au!Drop, P!Au!Drop,
         Au!Edit, P!Au!Edit, Au!Finish, P!Au!Finish, Au!FreeSlot,
         P!Au!FreeSlot, Au!Idle, P!Au!Idle, Au!Live, P!Au!Live, Au!Next,
         P!Au!Next, Au!PollAnswer, P!Au!PollAnswer, Au!PollChanged,
         P!Au!PollChanged, Au!PollGet, P!Au!PollGet, Au!Reap, P!Au!Reap,
         Au!Running, P!Au!Running, Au!SameVersion, P!Au!SameVersion,
         Au!Stale, P!Au!Stale, Au!StartGet, P!Au!StartGet, Au!StartRead,
         P!Au!StartRead, Au!StatAgrees, P!Au!StatAgrees, Au!Superseded,
         P!Au!Superseded, Au!reaped, P!Au!reaped
<1>3. Au!vars = P!Au!vars
  BY DEF Au!vars, P!Au!vars
<1>4. Au!TypeOK <=> P!Au!TypeOK
  BY DEF Au!TypeOK, P!Au!TypeOK
<1>5. Au!SlotsCounted <=> P!Au!SlotsCounted
  BY DEF Au!Live, P!Au!Live, Au!SlotsCounted, P!Au!SlotsCounted,
         Au!Cardinality, P!Au!Cardinality, Au!IsFiniteSet, P!Au!IsFiniteSet
<1>6. Au!UnlistedIsCanceled <=> P!Au!UnlistedIsCanceled
  BY DEF Au!Live, P!Au!Live, Au!UnlistedIsCanceled, P!Au!UnlistedIsCanceled
<1>7. Au!SuggestionCurrent <=> P!Au!SuggestionCurrent
  BY DEF Au!SuggestionCurrent, P!Au!SuggestionCurrent
<1>8. Au!WatchedRunKept <=> P!Au!WatchedRunKept
  BY DEF Au!Running, P!Au!Running, Au!WatchedRunKept, P!Au!WatchedRunKept
<1> QED BY <1>1, <1>2, <1>3, <1>4, <1>5, <1>6, <1>7, <1>8

LEMMA AutoHolds ==
    ASSUME P!AutoConfigured
    PROVE  Spec => /\ [](part = "autoruns" => Au!TypeOK /\ Au!SlotsCounted /\
                        Au!UnlistedIsCanceled)
                   /\ [][part = "autoruns" => Au!SuggestionCurrent]_vars
                   /\ [][part = "autoruns" => Au!WatchedRunKept]_vars
<1>1. Init /\ part = "autoruns" => P!Au!Init
  BY AutoPart DEF Init
<1>2. part = "autoruns" /\ [Next]_vars => (part = "autoruns")' /\ [P!Au!Next]_(P!Au!vars)
  <2> SUFFICES ASSUME part = "autoruns", [Next]_vars PROVE [P!Au!Next]_(P!Au!vars)
    BY PartStays
  <2> QED BY AutoPart DEF Next, vars, Au!vars, P!Au!vars, SwNext, PrNext, ReNext,
         MmNext, ScNext, LbNext, PuNext, IdNext, RcNext, GaNext, AcNext,
         LiNext, SvNext, RuNext, StNext, AuNext, FlNext, HeNext, RpNext,
         PgNext
<1>3. ~(part = "autoruns") /\ [Next]_vars => (~(part = "autoruns"))'
  BY PartStays
<1>4. P!Au!Spec => []P!Au!TypeOK /\ []P!Au!SlotsCounted /\ []P!Au!UnlistedIsCanceled /\
         [][P!Au!SuggestionCurrent]_(P!Au!vars) /\
         [][P!Au!WatchedRunKept]_(P!Au!vars)
  BY P!AutoTypesHold, P!AutoSlotsCounted, P!AutoUnlistedStops,
     P!AutoSuggestsCurrent, P!AutoWatchedStays
<1>5. P!Au!TypeOK /\ P!Au!SlotsCounted /\ P!Au!UnlistedIsCanceled =>
         Au!TypeOK /\ Au!SlotsCounted /\ Au!UnlistedIsCanceled
  BY AutoPart
<1>6. [P!Au!SuggestionCurrent]_(P!Au!vars) => (part = "autoruns" /\ [Next]_vars => [part = "autoruns" => Au!SuggestionCurrent]_vars)
  BY AutoPart DEF Next, vars, Au!SuggestionCurrent, P!Au!SuggestionCurrent, P!Au!vars
<1>7. [P!Au!WatchedRunKept]_(P!Au!vars) => (part = "autoruns" /\ [Next]_vars => [part = "autoruns" => Au!WatchedRunKept]_vars)
  BY AutoPart DEF Next, vars, Au!WatchedRunKept, P!Au!WatchedRunKept, P!Au!vars
<1> QED BY <1>1, <1>2, <1>3, <1>4, <1>5, <1>6, <1>7, PTL DEF Spec, P!Au!Spec

(* The slots of timing runs are counted exactly, a run no page can reach is  *)
(* told to stop, a suggestion shown was made from the text on disk when the  *)
(* poll looked, and a poll keeps the run someone watches                     *)
(* (internal/web/auto_run.go): for any rows, browsers, slots and edits.      *)
THEOREM BesideAutoRunsAreSound ==
    ASSUME P!AutoConfigured
    PROVE  Spec => AutoRunsAreSound
<1>1. Spec => /\ [](part = "autoruns" => Au!TypeOK /\ Au!SlotsCounted /\ Au!UnlistedIsCanceled)
              /\ [][part = "autoruns" => Au!SuggestionCurrent]_vars
              /\ [][part = "autoruns" => Au!WatchedRunKept]_vars
  BY AutoHolds
<1> QED BY <1>1, PTL DEF AutoRunsAreSound

(* Hand edits. *)
LEMMA EditPart ==
    /\ He!Init <=> P!He!Init
    /\ He!Next <=> P!He!Next
    /\ He!vars = P!He!vars
    /\ He!TypeOK <=> P!He!TypeOK
    /\ He!EditIsMarked <=> P!He!EditIsMarked
    /\ He!HandEditKept <=> P!He!HandEditKept
    /\ He!EditReplacesWhatWasShown <=> P!He!EditReplacesWhatWasShown
    /\ He!OriginalKept <=> P!He!OriginalKept
<1>1. He!Init <=> P!He!Init
  BY DEF He!Free, P!He!Free, He!Init, P!He!Init, He!NoRequest,
         P!He!NoRequest, He!None, P!He!None
<1>2. He!Next <=> P!He!Next
  BY DEF He!Admit, P!He!Admit, He!Admittable, P!He!Admittable, He!At,
         P!He!At, He!Backup, P!He!Backup, He!CheckEdit, P!He!CheckEdit,
         He!Claim, P!He!Claim, He!ClearLyricEdit, P!He!ClearLyricEdit,
         He!Crash, P!He!Crash, He!EditStep, P!He!EditStep, He!Edited,
         P!He!Edited, He!EditorTagEligible, P!He!EditorTagEligible, He!Fails,
         P!He!Fails, He!Free, P!He!Free, He!FromOrig, P!He!FromOrig,
         He!GiveUp, P!He!GiveUp, He!Goto, P!He!Goto, He!InjectEditorTag,
         P!He!InjectEditorTag, He!LineEditable, P!He!LineEditable, He!Load,
         P!He!Load, He!LockEditPath, P!He!LockEditPath, He!Marked,
         P!He!Marked, He!Next, P!He!Next, He!NoBackup, P!He!NoBackup,
         He!NoRequest, P!He!NoRequest, He!None, P!He!None, He!Publish,
         P!He!Publish, He!Recheck, P!He!Recheck, He!Request, P!He!Request,
         He!Return, P!He!Return, He!SetLyricEdit, P!He!SetLyricEdit,
         He!Settle, P!He!Settle, He!Shown, P!He!Shown, He!StillEditable,
         P!He!StillEditable, He!SweepLock, P!He!SweepLock, He!SweepPlan,
         P!He!SweepPlan, He!SweepRead, P!He!SweepRead, He!SweepStep,
         P!He!SweepStep, He!TagLock, P!He!TagLock, He!TagRead, P!He!TagRead,
         He!TagStep, P!He!TagStep, He!Trip, P!He!Trip, He!WorkerRemove,
         P!He!WorkerRemove, He!WorkerRename, P!He!WorkerRename, He!applyOne,
         P!He!applyOne, He!counts, P!He!counts, He!files, P!He!files,
         He!holdEditedRows, P!He!holdEditedRows, He!locks, P!He!locks,
         He!markEditorTagBackfillDone, P!He!markEditorTagBackfillDone,
         He!requireOrigBacksCurrent, P!He!requireOrigBacksCurrent,
         He!restoreLyricEdit, P!He!restoreLyricEdit, He!sidecarEdited,
         P!He!sidecarEdited, He!sidecarHandEdited, P!He!sidecarHandEdited
<1>3. He!vars = P!He!vars
  BY DEF He!vars, P!He!vars
<1>4. He!TypeOK <=> P!He!TypeOK
  BY DEF He!Free, P!He!Free, He!TypeOK, P!He!TypeOK
<1>5. He!EditIsMarked <=> P!He!EditIsMarked
  BY DEF He!EditIsMarked, P!He!EditIsMarked, He!None, P!He!None
<1>6. He!HandEditKept <=> P!He!HandEditKept
  BY DEF He!At, P!He!At, He!Edited, P!He!Edited, He!HandEditKept,
         P!He!HandEditKept, He!Publishing, P!He!Publishing
<1>7. He!EditReplacesWhatWasShown <=> P!He!EditReplacesWhatWasShown
  BY DEF He!At, P!He!At, He!EditReplacesWhatWasShown,
         P!He!EditReplacesWhatWasShown, He!Edited, P!He!Edited, He!None,
         P!He!None, He!Publishing, P!He!Publishing
<1>8. He!OriginalKept <=> P!He!OriginalKept
  BY DEF He!None, P!He!None, He!OriginalKept, P!He!OriginalKept
<1> QED BY <1>1, <1>2, <1>3, <1>4, <1>5, <1>6, <1>7, <1>8

LEMMA EditHolds ==
    ASSUME P!EditConfigured
    PROVE  Spec => /\ [](part = "handedit" => He!TypeOK /\ He!EditIsMarked)
                   /\ [][part = "handedit" => He!HandEditKept]_vars
                   /\ [][part = "handedit" => He!EditReplacesWhatWasShown]_vars
                   /\ [][part = "handedit" => He!OriginalKept]_vars
<1>1. Init /\ part = "handedit" => P!He!Init
  BY EditPart DEF Init
<1>2. part = "handedit" /\ [Next]_vars => (part = "handedit")' /\ [P!He!Next]_(P!He!vars)
  <2> SUFFICES ASSUME part = "handedit", [Next]_vars PROVE [P!He!Next]_(P!He!vars)
    BY PartStays
  <2> QED BY EditPart DEF Next, vars, He!vars, P!He!vars, SwNext, PrNext, ReNext,
         MmNext, ScNext, LbNext, PuNext, IdNext, RcNext, GaNext, AcNext,
         LiNext, SvNext, RuNext, StNext, AuNext, FlNext, HeNext, RpNext,
         PgNext
<1>3. ~(part = "handedit") /\ [Next]_vars => (~(part = "handedit"))'
  BY PartStays
<1>4. P!He!Spec => []P!He!TypeOK /\ []P!He!EditIsMarked /\ [][P!He!HandEditKept]_(P!He!vars) /\
         [][P!He!EditReplacesWhatWasShown]_(P!He!vars) /\
         [][P!He!OriginalKept]_(P!He!vars)
  BY P!EditTypesHold, P!EditsAreMarked, P!EditsAreKept,
     P!EditsReplaceTheShown, P!EditsKeepTheOriginal
<1>5. P!He!TypeOK /\ P!He!EditIsMarked => He!TypeOK /\ He!EditIsMarked
  BY EditPart
<1>s. part = "handedit" /\ [Next]_vars /\ UNCHANGED P!He!vars => UNCHANGED vars
  BY DEF Next, vars, P!He!vars, SwNext, PrNext, ReNext, MmNext, ScNext,
       LbNext, PuNext, IdNext, RcNext, GaNext, AcNext, LiNext, SvNext,
       RuNext, StNext, AuNext, FlNext, HeNext, RpNext, PgNext
<1>6. [P!He!HandEditKept]_(P!He!vars) => (part = "handedit" /\ [Next]_vars => [part = "handedit" => He!HandEditKept]_vars)
  BY <1>s, EditPart
<1>7. [P!He!EditReplacesWhatWasShown]_(P!He!vars) => (part = "handedit" /\ [Next]_vars => [part = "handedit" => He!EditReplacesWhatWasShown]_vars)
  BY <1>s, EditPart
<1>8. [P!He!OriginalKept]_(P!He!vars) => (part = "handedit" /\ [Next]_vars => [part = "handedit" => He!OriginalKept]_vars)
  BY <1>s, EditPart
<1> QED BY <1>1, <1>2, <1>3, <1>4, <1>5, <1>6, <1>7, <1>8, PTL DEF Spec, P!He!Spec

(* A lyric edited by hand has a marked row and a backup at every moment, no  *)
(* trip, sweep or backfill replaces it, an edit replaces the version its     *)
(* page showed and the backup stays the lyric as fetched                     *)
(* (internal/web/preview_edit.go, internal/lyrics/edit.go): for any number   *)
(* of editors, edits, writes and restarts, whichever of the calls fails but  *)
(* the stat after the rename.                                                *)
THEOREM BesideHandEditIsSafe ==
    ASSUME P!EditConfigured
    PROVE  Spec => HandEditIsSafe
<1>1. Spec => /\ [](part = "handedit" => He!TypeOK /\ He!EditIsMarked)
              /\ [][part = "handedit" => He!HandEditKept]_vars
              /\ [][part = "handedit" => He!EditReplacesWhatWasShown]_vars
              /\ [][part = "handedit" => He!OriginalKept]_vars
  BY EditHolds
<1> QED BY <1>1, PTL DEF HandEditIsSafe
=============================================================================
