------------------------------ MODULE Reports ------------------------------
(***************************************************************************)
(* What the dashboard, the Work Queue pages and the Reports page say of    *)
(* one work_queue row (internal/reports, web/buckets.go) while the worker, *)
(* the sweeps, prune and the operator move that row about                  *)
(* (internal/queue).                                                       *)
(*                                                                         *)
(* Every page is an SQL predicate over the recorded columns, most of which *)
(* may be NULL, so a predicate has three values and a row that makes two   *)
(* complementary predicates both NULL is in neither list.  The predicates  *)
(* are kept as the code composes them; each statement that moves a row is  *)
(* one action, with the triggers of migrations 053 and 067 applied by      *)
(* Stored.  The message in last_error is abstracted to whether it is       *)
(* empty, blank, one of the two sentinels, or any other text.              *)
(***************************************************************************)
EXTENDS Naturals

CONSTANTS
    Verdicts,   \* timing verdicts a fetch or a sweep may reach
    Classes,    \* failure classes the worker attaches
    Wts         \* word-timing verdicts a fetch or a recheck may reach

VARIABLE w      \* the row

NULL == "null"
Flagged == {"categorical", "mis_synced", "degenerate"}

Row == [status : {"pending", "processing", "done", "failed", "deferred",
                  "unavailable"},
        prev : {"pending", "failed", "deferred"},
        err : {"", "blank", "text", "gone", "limit"},
        cls : {NULL, "none", "miss"} \cup Classes,
        out : {NULL, "synced", "unsynced", "instrumental", "rejected",
               "blocked"},
        tier : {NULL, "word", "line", "unsynced"},
        tim : {NULL} \cup Verdicts,
        wts : {NULL, "queued"} \cup Wts,
        manual : BOOLEAN, edited : BOOLEAN, upg : BOOLEAN, mark : BOOLEAN,
        tried : BOOLEAN]            \* attempts > 0

TypeOK == w \in Row

-----------------------------------------------------------------------------
(* SQL conditions: true, false or NULL. *)

Cond(b) == IF b THEN "T" ELSE "F"
Eq(a, b) == IF NULL \in {a, b} THEN "N" ELSE Cond(a = b)
In(a, S) == IF a = NULL THEN "N" ELSE Cond(a \in S)
Not(x) == IF x = "N" THEN "N" ELSE Cond(x = "F")
And(x, y) == IF "F" \in {x, y} THEN "F" ELSE IF "N" \in {x, y} THEN "N" ELSE "T"
Or(x, y) == Not(And(Not(x), Not(y)))
IsNull(a) == Cond(a = NULL)
OrZero(x) == Cond(x = "T")                        \* COALESCE(x, 0)
OrEmpty(a) == IF a = NULL THEN "" ELSE a          \* COALESCE(a, '')
Listed(x) == x = "T"                              \* WHERE keeps only true

-----------------------------------------------------------------------------
(* The shared predicates *)

retiredPredicate == Cond(w.err = "gone")

\* Mutant: a prune-retired row keeps its stale tier.
tierNotQueued == Cond(OrEmpty(w.wts) # "queued")
tierRecordedPredicate == And(Not(retiredPredicate), Cond(OrEmpty(w.wts) # "queued"))
timingVerdictExclusion == Cond(OrEmpty(w.tim) \notin Flagged)

TierFilePredicate(t) == And(Eq(w.tier, t), tierRecordedPredicate)
TierPredicate(t) == And(TierFilePredicate(t), timingVerdictExclusion)
Synced == Eq(w.out, "synced")

TierUnknownPredicate ==
    Or(IsNull(w.tier), Or(Not(In(w.tier, {"word", "line"})),
    Or(Cond(OrEmpty(w.tim) \in Flagged), Eq(w.wts, "queued"))))

(* The rungs of the deployment: "word", or "line" when no word tier is       *)
(* reachable.                                                               *)
TopRungs == {"word", "line"}
AtTop(top) == IF top = "word" THEN TierPredicate("word")
              ELSE Or(TierPredicate("word"), TierPredicate("line"))

finishedPredicates(top) ==
    And(Eq(w.status, "done"), Or(Cond(w.manual), And(Synced, AtTop(top))))

\* Mutant: the complement of a NULL condition.
settledPlain(top) == And(Eq(w.status, "done"), Not(finishedPredicates(top)))
settledPredicate(top) ==
    And(Eq(w.status, "done"), Not(OrZero(finishedPredicates(top))))

Buckets == {"pending", "processing", "deferred", "failed", "finished",
            "settled", "unavailable"}

bucketPredicate(b, top) ==
    CASE b = "finished" -> finishedPredicates(top)
      [] b = "settled" -> settledPredicate(top)
      [] b = "blocked" -> And(Eq(w.status, "done"),
                          And(Eq(w.out, "blocked"), Not(retiredPredicate)))
      [] OTHER -> Eq(w.status, b)

(* The chips a page offers, and what each keeps. *)
chipsFor(b, top) ==
    CASE b = "finished" -> {"word", "edited"} \cup
                           (IF top = "line" THEN {"line"} ELSE {})
      [] b = "settled" -> {"edited", "missync"} \cup
                          (IF top = "word" THEN {"line"} ELSE {})
      [] OTHER -> {}

chipSQL(c) ==
    CASE c = "word" -> And(Synced, TierPredicate("word"))
      [] c = "line" -> And(Synced, TierPredicate("line"))
      [] c = "edited" -> Cond(w.edited)
      [] c = "missync" -> Eq(w.tim, "mis_synced")
      [] OTHER -> "T"

(* A listing: the bucket narrowed by a chip; a chip the bucket does not      *)
(* offer is dropped, not honoured.                                          *)
ListBucket(b, c, top) ==
    Listed(And(bucketPredicate(b, top),
               IF c \in chipsFor(b, top) THEN chipSQL(c) ELSE "T"))

(* The Results tile of a done row. *)
resultBucket ==
    IF Listed(retiredPredicate) THEN "other"
    ELSE IF Listed(And(Synced, TierPredicate("word"))) THEN "word"
    ELSE IF Listed(And(Synced, TierPredicate("line"))) THEN "line"
    ELSE IF Listed(And(Synced, TierUnknownPredicate)) THEN "tier_unknown"
    ELSE IF w.out \in {"unsynced", "instrumental", "blocked"} THEN w.out
    ELSE "other"

(* Where a tile of the dashboard links to: a bucket and a chip. *)
tileHref(tile, top) ==
    CASE tile = "word" -> <<"finished", "word">>
      [] tile = "line" -> <<IF top = "line" THEN "finished" ELSE "settled", "line">>
      [] tile = "blocked" -> <<"blocked", "">>

(* The Recent outcomes table: which rows it lists and how it names them.     *)
recentWhere == And(In(w.status, {"done", "unavailable"}), Not(retiredPredicate))

\* Mutant: the recent table trusts the recorded tier.
RecentTierStale(t) == w.tier = t
RecentTier(t) == /\ w.tier = t
                 /\ OrEmpty(w.tim) \notin Flagged
                 /\ OrEmpty(w.wts) # "queued"

recentResult ==
    IF w.err = "limit" THEN "miss"
    ELSE IF w.out = "synced" /\ RecentTier("word") THEN "word"
    ELSE IF w.out = "synced" /\ RecentTier("line") THEN "line"
    ELSE IF w.out = "synced" THEN "tier_unknown"
    ELSE IF w.out \in {"unsynced", "instrumental", "blocked"} THEN w.out
    ELSE "other"

(* The failure-reason filter of the Retrying and Errored pages. *)
ReasonKeys == {"none", "write", "throttle", "network", "miss", "other"}
reasonKey == IF w.cls \in ReasonKeys THEN w.cls
             ELSE IF w.err \in {"", "blank"} THEN "none" ELSE "other"

(* What Failure Analysis counts and Needs Attention lists of the failed rows: *)
(* a row with no message and no attempt never failed a fetch.               *)
failureBaseFilter == And(Eq(w.status, "failed"), Not(Cond(w.err = "" /\ ~w.tried)))

lineEditable == And(Eq(w.status, "done"), And(Synced, TierPredicate("line")))

-----------------------------------------------------------------------------
(* The statements that move the row *)

\* Mutant: the trigger of migration 067 is missing.
StoredClassKept(v) ==
    [v EXCEPT !.upg = v.upg /\ v.status \notin {"done", "unavailable"}]

(* The triggers: a settle disarms the upgrade trip, a row that is pending or *)
(* done or has no message has no failure class.                             *)
Stored(v) ==
    [v EXCEPT !.upg = v.upg /\ v.status \notin {"done", "unavailable"},
              !.cls = IF v.status \in {"pending", "done"} \/ v.err = ""
                      THEN NULL ELSE v.cls]
Set(v) == w' = Stored(v)

storedClass(err, cls) == CASE err = "" -> NULL
                           [] err = "blank" -> "none"
                           [] OTHER -> cls
Unqueued(v) == IF v.wts = "queued" THEN [v EXCEPT !.wts = NULL] ELSE v
HandProtected == w.edited \/ w.manual

Init == w = [status |-> "pending", prev |-> "pending", err |-> "", cls |-> NULL,
             out |-> NULL, tier |-> NULL, tim |-> NULL, wts |-> NULL,
             manual |-> FALSE, edited |-> FALSE, upg |-> FALSE, mark |-> FALSE,
             tried |-> FALSE]

Dequeue == /\ w.status \in {"pending", "failed", "deferred"}
           /\ Set([w EXCEPT !.status = "processing", !.prev = w.status])

Held == w.status = "processing"
Release == /\ Held
           /\ Set([w EXCEPT !.status = w.prev,
                            !.err = IF w.prev = "pending" /\ @ # ""
                                    THEN "text" ELSE @])

(* An ordinary fetch or an upgrade trip: the best-effort stamps, each of     *)
(* which may be lost, and the settles.                                      *)
Fetching == Held /\ w.wts # "queued"
SetOutcomeType == /\ Fetching
                  /\ \E o \in {"synced", "unsynced", "instrumental"} :
                        Set([w EXCEPT !.out = o])
SetSyncTier == /\ Held
               /\ \E t \in {NULL, "word", "line", "unsynced"} :
                     Set([w EXCEPT !.tier = t])
SetTimingOutcome == Fetching /\ \E v \in Verdicts : Set([w EXCEPT !.tim = v])
SetWordTimingState == Fetching /\ \E s \in Wts : Set([w EXCEPT !.wts = s])
ClearWordTimingState == Fetching /\ Set([w EXCEPT !.wts = NULL])
Complete == Fetching /\ Set([w EXCEPT !.status = "done", !.err = "", !.mark = FALSE])
SettleInstrumental ==
    /\ Fetching \/ (w.status \in {"deferred", "failed"} /\ w.wts # "queued")
    /\ Set([w EXCEPT !.status = "done", !.out = "instrumental", !.err = ""])
SettleGuardRejected ==
    Fetching /\ ~w.upg /\ Set([w EXCEPT !.status = "done", !.out = "rejected", !.err = ""])
SettleBlocked ==
    /\ Fetching /\ ~w.upg
    /\ Set([w EXCEPT !.status = "done", !.out = "blocked", !.err = "",
                     !.tier = NULL, !.tim = NULL, !.wts = NULL])
\* Mutant: the failed attempt is not counted.
FailedUncounted(e, c) == Set([w EXCEPT !.status = "failed", !.err = e, !.cls = c])
Failed(e, c) == Set([w EXCEPT !.status = "failed", !.tried = TRUE, !.err = e, !.cls = c])
Fail == /\ Fetching
        /\ \E e \in {"", "blank", "text"}, c \in Classes :
              Failed(e, storedClass(e, c))
Defer == /\ Fetching
         /\ \E e \in {"text"}, c \in {"miss"} :
               Set([w EXCEPT !.status = "deferred", !.err = e, !.cls = storedClass(e, c)])
DeferRefused ==
    /\ Fetching
    /\ Set([w EXCEPT !.status = "deferred", !.err = "text",
                     !.cls = storedClass("text", "throttle")])
RetireMiss == /\ Fetching
              /\ Set([w EXCEPT !.status = "unavailable", !.err = "limit", !.cls = "miss"])

(* Word rechecks *)
MarkWordRecheckQueued ==
    /\ w.status = "done" /\ w.out = "synced" /\ OrEmpty(w.tim) \notin Flagged
    /\ w.err # "gone" /\ ~HandProtected /\ w.wts \in {NULL, "absent"}
    /\ Set([w EXCEPT !.status = "deferred", !.err = "", !.wts = "queued", !.tried = FALSE])
Rechecking == Held /\ w.wts = "queued"
SettleWordRecheck == /\ Rechecking
                     /\ \E s \in Wts : Set([w EXCEPT !.status = "done", !.err = "", !.wts = s])
DeferWordRecheck ==
    /\ Rechecking
    /\ \/ Set([w EXCEPT !.status = "done", !.err = "", !.wts = NULL])
       \/ \E c \in Classes :
             Set([w EXCEPT !.status = "deferred", !.err = "text", !.cls = c])
RetryWordRecheckWrite ==
    Rechecking /\ Set([w EXCEPT !.status = "deferred", !.err = "text", !.cls = "other"])

(* Upgrade trips *)
MarkUpgradeQueued ==
    /\ w.status = "done" /\ w.err = "" /\ w.wts # "queued" /\ ~HandProtected
    /\ \/ /\ w.out \in {"unsynced", "instrumental"} \/ (w.out = "synced" /\ w.tier = "unsynced")
          /\ OrEmpty(w.tim) \notin Flagged
       \/ w.tim = "mis_synced"
    /\ Set([w EXCEPT !.status = "pending", !.err = "", !.upg = TRUE, !.tried = FALSE])
SettleUpgradeTrip == Held /\ w.upg /\ Set([w EXCEPT !.status = "done", !.err = "", !.tried = FALSE])
SettleGoneUpgradeTrip ==
    /\ Held /\ w.upg
    /\ IF w.mark THEN Set([w EXCEPT !.status = "done", !.err = "gone", !.tried = FALSE])
       ELSE Set([w EXCEPT !.status = "done", !.err = "", !.mark = TRUE, !.tried = FALSE])

(* Prune and the gone-source move *)
retireUnresolvable ==
    /\ w.status \in {"pending", "failed", "deferred"}
    /\ Set([w EXCEPT !.status = "done", !.err = "gone", !.mark = FALSE])
Resurrect ==
    /\ w.status = "done" /\ w.err = "gone" /\ ~w.mark /\ ~HandProtected
    /\ Set([Unqueued(w) EXCEPT !.status = "pending", !.err = "", !.out = NULL,
                               !.tim = NULL, !.tried = FALSE])
\* Mutant: any retired row whose file turns up is un-retired.
UnretirableAny == w.status = "done" /\ w.err = "gone"
Unretirable == w.status = "done" /\ w.err = "gone" /\ w.mark
Unretire == Unretirable /\ Set([w EXCEPT !.err = "", !.mark = FALSE])

(* The timing sweep: a verdict, and what the remediation left on disk.       *)
SetTimingOutcomeIfIdle ==
    /\ ~Held
    /\ \E v \in Verdicts :
          \/ Set([w EXCEPT !.tim = v])
          \/ \E o \in {NULL, "unsynced"} :
                ~HandProtected /\ Set([w EXCEPT !.tim = v, !.out = o, !.tier = NULL])

(* The backfills of sync_tier *)
SetSyncTierIfPending ==
    /\ w.status = "done" /\ w.out = "synced" /\ w.tier = NULL
    /\ \E t \in {"word", "line", "unsynced"} : Set([w EXCEPT !.tier = t])
ApplyRemediated ==
    /\ w.status = "done" /\ w.out = "synced" /\ w.wts # "queued"
    /\ Listed(TierUnknownPredicate)
    /\ \/ w.err = "" /\ Set([w EXCEPT !.status = "deferred", !.out = NULL,
                                      !.tier = NULL, !.wts = NULL, !.tim = NULL,
                                      !.tried = FALSE])
       \/ Set([w EXCEPT !.out = "unsynced", !.tier = NULL])
       \/ \E t \in {"word", "line"} : Set([w EXCEPT !.tier = t])

(* The operator *)
MarkManualInstrumental ==
    /\ ~Held /\ ~w.manual
    /\ Set([w EXCEPT !.manual = TRUE, !.status = "done", !.out = "instrumental",
                     !.tier = NULL, !.wts = NULL, !.tim = NULL, !.edited = FALSE,
                     !.upg = FALSE, !.err = ""])
UnmarkManualInstrumental ==
    /\ ~Held /\ w.manual
    /\ Set([w EXCEPT !.manual = FALSE, !.status = "deferred", !.out = NULL, !.err = "",
                     !.tried = FALSE])
SetLyricEdit == Listed(lineEditable) /\ ~w.edited /\ Set([w EXCEPT !.edited = TRUE])
ClearLyricEdit == w.edited /\ Set([w EXCEPT !.edited = FALSE])
Retry == w.status = "failed" /\ Set([Unqueued(w) EXCEPT !.status = "pending", !.err = "", !.tried = FALSE])
RecheckRetired ==
    /\ w.status = "unavailable" /\ w.err = "limit"
    /\ Set([Unqueued(w) EXCEPT !.status = "deferred", !.err = ""])
ResetInstrumental ==
    /\ w.status = "done" /\ w.out = "instrumental" /\ ~w.manual
    /\ Set([Unqueued(w) EXCEPT !.status = "deferred", !.out = NULL, !.err = ""])
UnsettleInstrumental ==
    /\ w.status = "done" /\ w.out = "instrumental" /\ ~w.manual
    /\ Set([Unqueued(w) EXCEPT !.status = "deferred", !.out = NULL, !.err = "text",
                               !.cls = "other"])
ReopenDoneRow ==
    /\ w.status = "done" \/ (w.status = "deferred" /\ w.wts = "queued")
    /\ ~w.manual
    /\ Set([Unqueued(w) EXCEPT !.status = "pending", !.err = "", !.out = NULL,
                               !.tim = NULL, !.mark = FALSE, !.tried = FALSE])

Next ==
    \/ Dequeue \/ Release \/ SetOutcomeType \/ SetSyncTier \/ SetTimingOutcome
    \/ SetWordTimingState \/ ClearWordTimingState \/ Complete
    \/ SettleInstrumental \/ SettleGuardRejected \/ SettleBlocked
    \/ Fail \/ Defer \/ DeferRefused \/ RetireMiss
    \/ MarkWordRecheckQueued \/ SettleWordRecheck \/ DeferWordRecheck
    \/ RetryWordRecheckWrite \/ MarkUpgradeQueued \/ SettleUpgradeTrip
    \/ SettleGoneUpgradeTrip \/ retireUnresolvable \/ Resurrect \/ Unretire
    \/ SetTimingOutcomeIfIdle \/ SetSyncTierIfPending \/ ApplyRemediated
    \/ MarkManualInstrumental \/ UnmarkManualInstrumental \/ SetLyricEdit
    \/ ClearLyricEdit \/ Retry \/ RecheckRetired \/ ResetInstrumental
    \/ UnsettleInstrumental \/ ReopenDoneRow

Spec == Init /\ [][Next]_w

-----------------------------------------------------------------------------
(* Every row is on exactly one page of the Work Queue, whichever rung the     *)
(* deployment counts as finished and whichever of its columns are NULL: the  *)
(* pages neither repeat nor lose a row (reports/bucket.go Buckets,           *)
(* settledPredicate).                                                       *)
BucketsPartition ==
    \A top \in TopRungs :
        \E b \in Buckets :
            /\ Listed(bucketPredicate(b, top))
            /\ \A c \in Buckets \ {b} : ~Listed(bucketPredicate(c, top))

(* A tile that links to a page counts exactly the rows the page lists: the    *)
(* tile of a done row and the page's predicates, which are composed apart,  *)
(* agree under both rungs, also for retired, rechecked and remediated rows   *)
(* (web/buckets.go resultBuckets, reports/results.go resultBucketCaseSQL).   *)
TilesAgree ==
    \A top \in TopRungs, tile \in {"word", "line", "blocked"} :
        ListBucket(tileHref(tile, top)[1], tileHref(tile, top)[2], top)
            <=> w.status = "done" /\ resultBucket = tile

(* The Recent outcomes table names a settled row as its tile does; only a     *)
(* row that ran out of misses has a name of its own (reports.go              *)
(* recentResultExpr keeps its own copy of the tier rules).                   *)
RecentAgrees ==
    Listed(recentWhere) =>
        recentResult = IF w.status = "unavailable" THEN "miss" ELSE resultBucket

(* A done row still marked for a word recheck is one that prune retired: the  *)
(* mark of a recheck never outlives it otherwise, and no tile shows such a   *)
(* row by its old tier (reports/results.go ResultsBreakdown).                *)
QueuedMeansRetired == w.status = "done" /\ w.wts = "queued" => w.err = "gone"

(* A waiting row is listed under "no reason recorded" exactly when it shows   *)
(* no message: the class a failure left does not outlive its message, nor    *)
(* is a message filed under none (bucket.go reasonKeySQL and the trigger).   *)
ReasonMatchesMessage ==
    w.status \in {"deferred", "failed"} =>
        (reasonKey = "none" <=> w.err \in {"", "blank"})

(* A failed row is never hidden by the guard against rows no fetch has tried: *)
(* whatever resets its attempts also takes it out of failed (reports.go      *)
(* failureBaseFilter, failure_items.go NeedsAttention).                      *)
FailedIsShown == w.status = "failed" => Listed(failureBaseFilter)
=============================================================================
