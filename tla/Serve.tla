------------------------------- MODULE Serve -------------------------------
(***************************************************************************)
(* The serve process over the durable tables of WorkQueue: the worker's    *)
(* pass over one claimed row (internal/worker), the scan enqueuer          *)
(* (internal/scan), the instrumental backfill sweep                        *)
(* (internal/instrumentalbackfill), the sidecars they write, and a crash.  *)
(* What a process remembers between two transactions is its own variable:  *)
(* it is a copy that may be stale, and a crash loses it.                   *)
(*                                                                         *)
(* A provider call, a detector run and a file write happen between         *)
(* transactions.  Which answer comes is a choice of the action taken; a    *)
(* best-effort stamp may be lost to a database error.                      *)
(***************************************************************************)
EXTENDS WorkQueue

CONSTANTS
    NoRow,               \* the worker holds no row
    MaxMiss,             \* maxMissAttempts, 0 for no cap
    UpgradeMaxAttempts   \* upgradeMaxAttempts

ASSUME NoRowAssumption == NoRow \notin Rows
ASSUME MaxMissAssumption == MaxMiss \in 0..MissCap
ASSUME UpgradeCapAssumption == UpgradeMaxAttempts \in 1..(AttCap + 1)

VARIABLES
    pass,   \* the worker's pass: its row, its phase, and the claimed item
    disk,   \* the sidecar beside the audio of each identity
    enq,    \* the enqueuer: results listed but not yet offered, and the one reserved
    bf      \* the backfill: the candidate row and its phase

svars == <<row, scan, link, key, pass, disk, enq, bf>>

Phases == {"idle", "claimed", "refused", "marked", "cleared", "landed", "kept",
           "stamped", "worded", "keptstamped"}
Files == {"none", "marker", "text", "synced"}

(* The rungs of internal/lyrics: a write never replaces a higher one. *)
Rung == [f \in Files |-> CASE f = "none" -> 0 [] f = "marker" -> 1
                           [] f = "text" -> 2 [] OTHER -> 3]

(* What a verdict may put on disk, and what a file is recorded as. *)
FilesOf(v) == CASE v = "synced" -> {"synced"} [] v = "below" -> {"marker", "text"}
                [] OTHER -> {"none"}
(* Mutant: a kept file is recorded as the poorer lyric it was kept from. *)
RecordFetched(f) == "below"

RecordOf(f) == IF f = "synced" THEN "synced" ELSE "below"

Idle == [r |-> NoRow, ph |-> "idle", word |-> "null", upg |-> FALSE, att |-> 0,
         miss |-> 0, out |-> "null"]
NoEnq == [todo |-> {}, cur |-> {}]
NoCand == [r |-> NoRow, ph |-> "idle"]

ServeTypeOK ==
    /\ pass \in [r : Rows \cup {NoRow}, ph : Phases, word : WordState,
                 upg : BOOLEAN, att : 0..AttCap, miss : 0..MissCap, out : Outcome]
    /\ (pass.r = NoRow) <=> (pass.ph = "idle")
    /\ disk \in [Rows -> Files]
    /\ enq \in [todo : SUBSET (Scans \X Rows), cur : SUBSET (Scans \X Rows)]
    /\ bf \in [r : Rows \cup {NoRow}, ph : {"idle", "listed", "written"}]
    /\ (bf.r = NoRow) <=> (bf.ph = "idle")

ServeInit ==
    /\ Init
    /\ pass = Idle
    /\ disk = [r \in Rows |-> "none"]
    /\ enq = NoEnq
    /\ bf = NoCand

-----------------------------------------------------------------------------
(* The worker's pass.  Every queue call is one transaction of WorkQueue.     *)

others == <<disk, enq, bf>>

(* The pass goes on in another phase, or ends, with the queue call A. *)
Go(A, ph) == A /\ pass' = [pass EXCEPT !.ph = ph] /\ UNCHANGED others
End(A) == A /\ pass' = Idle /\ UNCHANGED others

(* A stamp whose error is logged and ignored. *)
BestEffort(A) == A \/ ("dberror" \in Features /\ UNCHANGED vars)

(* Mutant: the claim counts the attempt before it is made. *)
ClaimCountsAttempt(r) ==
    /\ pass = Idle
    /\ Dequeue(r)
    /\ pass' = [r |-> r, ph |-> "claimed", word |-> row[r].word, upg |-> row[r].upg,
                att |-> row[r].att + 1, miss |-> row[r].miss, out |-> "null"]
    /\ UNCHANGED others

Claim(r) ==
    /\ pass = Idle
    /\ Dequeue(r)
    /\ pass' = [r |-> r, ph |-> "claimed", word |-> row[r].word, upg |-> row[r].upg,
                att |-> row[r].att, miss |-> row[r].miss, out |-> "null"]
    /\ UNCHANGED others

Claimed == pass.ph = "claimed"
Fetching == Claimed /\ pass.word # "queued"

(* Mutant: the parked row is not released. *)
parkAndForget == Claimed /\ End(UNCHANGED vars)

(* The library root is offline, or no provider may be asked yet. *)
parkIfLibraryOffline == Claimed /\ End(ReleaseUntil(pass.r))

(* Shutdown; no lane available; a lane not ready; a throttle. *)
releaseClaim == Claimed /\ End(Release(pass.r))

(* Mutant: a failed write fails the recheck as an ordinary row. *)
failWordRecheck == Claimed /\ pass.word = "queued" /\ End(Fail(pass.r))

(* A word recheck asks the word lanes only and has its own settles: it is    *)
(* never failed, deferred as a miss or retired.                              *)
runWordRecheck ==
    /\ Claimed /\ pass.word = "queued"
    /\ \/ \E state \in {"served", "absent"} : End(SettleWordRecheck(pass.r, state))
       \/ End(DeferWordRecheck(pass.r, MaxWaits))
       \/ End(DeferWordRecheck(pass.r, 0))
       \/ End(RetryWordRecheckWrite(pass.r))

(* Mutant: an upgrade trip's miss is counted like any other. *)
requeueDeferredAll == IF MaxMiss > 0 /\ pass.miss + 1 >= MaxMiss
                      THEN RetireMiss(pass.r) ELSE Defer(pass.r)

(* A miss costs an upgrade trip nothing but the trip. *)
requeueDeferred ==
    IF pass.upg THEN SettleUpgradeTrip(pass.r)
    ELSE IF MaxMiss > 0 /\ pass.miss + 1 >= MaxMiss THEN RetireMiss(pass.r)
    ELSE Defer(pass.r)

AtCap == pass.att + 1 >= UpgradeMaxAttempts

(* Shutdown releases the row; an upgrade trip at its cap, or rejected by the *)
(* verifier, settles back onto its file unless this pass replaced the file.  *)
failPass(landed, rejected) ==
    \/ Release(pass.r)
    \/ IF pass.upg /\ ~landed /\ (rejected \/ AtCap)
       THEN SettleUpgradeTrip(pass.r) ELSE Fail(pass.r)

failStuckItem(capNever) ==
    IF ~capNever /\ pass.upg /\ AtCap
    THEN SettleStuckUpgradeTrip(pass.r) ELSE Fail(pass.r)

clearWordTiming ==
    IF pass.word \in {"served", "absent"}
    THEN BestEffort(ClearWordTimingState(pass.r)) ELSE UNCHANGED vars

(* The output directory is missing: an upgrade trip whose audio is gone      *)
(* settles, every other row fails.                                           *)
preflightOutputs ==
    /\ Fetching
    /\ \/ pass.upg /\ \E c \in BOOLEAN : End(SettleGoneUpgradeTrip(pass.r, c))
       \/ pass.upg /\ Go(ClearSourceGone(pass.r), "claimed")
       \/ End(failPass(FALSE, FALSE))

(* The fetch brought nothing to write. *)
fetchEndsEmpty ==
    /\ Fetching
    /\ \/ End(DeferRefused(pass.r))
       \/ End(requeueDeferred)
       \/ \E rejected \in BOOLEAN : End(failPass(FALSE, rejected))
       \/ pass.upg /\ End(SettleUpgradeTrip(pass.r))
       \/ ~pass.upg /\ Go(clearWordTiming, "refused")

guardRejected ==
    /\ pass.ph = "refused"
    /\ End(SettleGuardRejected(pass.r)) \/ End(failPass(FALSE, FALSE))

(* WriteLRC for a fetched song.  A categorical verdict writes no file; an    *)
(* upgrade trip writes only what it promotes as is.                          *)
writeSong(v, f) ==
    /\ Fetching
    /\ v = "categorical" => ~pass.upg
    /\ IF v # "categorical" /\ Rung[f] < Rung[disk[pass.r]]
       THEN /\ pass' = [pass EXCEPT !.ph = "kept", !.out = RecordOf(disk[pass.r])]
            /\ UNCHANGED disk
       ELSE /\ pass' = [pass EXCEPT !.ph = "landed", !.out = v]
            /\ disk' = IF v = "categorical" THEN disk ELSE [disk EXCEPT ![pass.r] = f]
    /\ UNCHANGED <<vars, enq, bf>>

(* A second output path, or the cache store, fails after a write landed. *)
failAfterWrite == pass.ph = "landed" /\ End(failPass(TRUE, FALSE))

stampOutcome ==
    /\ pass.ph \in {"landed", "kept"}
    /\ Go(BestEffort(SetOutcomeType(pass.r, pass.out)),
          IF pass.ph = "landed" THEN "stamped" ELSE "keptstamped")

stampWordTiming ==
    /\ pass.ph = "stamped"
    /\ \/ /\ pass.out = "synced"
          /\ \E state \in {"served", "absent"} :
                Go(BestEffort(SetWordTimingState(pass.r, state)), "worded")
       \/ Go(clearWordTiming, "worded")

completePass ==
    /\ pass.ph \in {"worded", "keptstamped"}
    /\ \/ End(Complete(pass.r))
       \/ \E capNever \in BOOLEAN : End(failStuckItem(capNever))

(* The detector won: its marker is written, then the row settles in one      *)
(* transaction.                                                              *)
completeDetectorInstrumental ==
    /\ "detector" \in Features
    /\ \/ /\ Fetching
          /\ IF Rung["marker"] < Rung[disk[pass.r]]
             THEN /\ pass' = [pass EXCEPT !.ph = "kept", !.out = RecordOf(disk[pass.r])]
                  /\ UNCHANGED disk
             ELSE /\ pass' = [pass EXCEPT !.ph = "marked"]
                  /\ disk' = [disk EXCEPT ![pass.r] = "marker"]
          /\ UNCHANGED <<vars, enq, bf>>
       \/ pass.ph = "marked" /\ Go(clearWordTiming, "cleared")
       \/ pass.ph = "cleared" /\ End(SettleInstrumental(pass.r, "processing"))
       \/ pass.ph = "cleared" /\ End(requeueDeferred)

(* The settling statement and its fallback both fail on the database: the    *)
(* error is returned and the row stays in 'processing'.                      *)
orphanClaim ==
    /\ "dberror" \in Features
    /\ pass.ph # "idle"
    /\ End(UNCHANGED vars)

PassStep ==
    \/ orphanClaim
    \/ parkIfLibraryOffline
    \/ releaseClaim
    \/ runWordRecheck
    \/ preflightOutputs
    \/ fetchEndsEmpty
    \/ guardRejected
    \/ \E v \in Verdicts : \E f \in FilesOf(v) : writeSong(v, f)
    \/ failAfterWrite
    \/ stampOutcome
    \/ stampWordTiming
    \/ completePass
    \/ completeDetectorInstrumental

-----------------------------------------------------------------------------
(* The scan enqueuer.  The listing is read once; statuses and identities in  *)
(* it may be stale by the time a result is reached.                          *)

Enq(A, e) == A /\ enq' = e /\ UNCHANGED <<pass, disk, bf>>

ListPendingByLibrary(l) ==
    /\ enq = NoEnq
    /\ Enq(UNCHANGED vars,
           [NoEnq EXCEPT !.todo = {<<s, key[s]>> : s \in
                {t \in Scans : scan[t] = "pending" /\ LibOf[t] = l}}])

cacheHit(e) ==
    /\ enq.cur = {} /\ e \in enq.todo
    /\ Enq(SetStatus(e[1], "done"), [enq EXCEPT !.todo = @ \ {e}])

(* Quarantined by a categorical verdict: left pending. *)
suppress(e) ==
    /\ enq.cur = {} /\ e \in enq.todo
    /\ Enq(UNCHANGED vars, [enq EXCEPT !.todo = @ \ {e}])

reserve(e) ==
    /\ enq.cur = {} /\ e \in enq.todo
    /\ Enq(SetStatus(e[1], "processing"), [todo |-> enq.todo \ {e}, cur |-> {e}])

(* Mutant: the error path forgets to hand the result back. *)
restoreLost(e) == e \in enq.cur /\ Enq(UNCHANGED vars, NoEnq)

(* Enqueue failed: the result is pending again and the pass ends.  A refusal *)
(* of the categorical reopen lets the pass go on.                            *)
restorePending(e) ==
    /\ e \in enq.cur
    /\ \E todo \in {{}} \cup (IF EnqueueRefused(e[2], e[1]) THEN {enq.todo} ELSE {}) :
          Enq(SetStatus(e[1], "pending"), [todo |-> todo, cur |-> {}])

offer(e) ==
    /\ e \in enq.cur
    /\ \E c \in BOOLEAN : Enq(EnqueueScan(e[2], e[1], c), [enq EXCEPT !.cur = {}])

(* The pass ends early, on an error or at shutdown.  Shutdown cancels the     *)
(* context of the restore too, so a reserved result is left as it is.        *)
abortPass ==
    /\ enq # NoEnq
    /\ enq.cur = {} \/ "shutdown" \in Features
    /\ Enq(UNCHANGED vars, NoEnq)

EnqueuerStep ==
    \/ \E l \in Libs : ListPendingByLibrary(l)
    \/ \E e \in enq.todo : cacheHit(e) \/ suppress(e) \/ reserve(e)
    \/ \E e \in enq.cur : offer(e) \/ restorePending(e)
    \/ abortPass

-----------------------------------------------------------------------------
(* The instrumental backfill: detect, write the marker, then settle the row  *)
(* if it is still deferred; otherwise take the marker back, unless a peer    *)
(* recorded the same verdict.                                                *)

Bf(A, b) == A /\ bf' = b /\ UNCHANGED <<pass, enq>>

ListUnclassified(r) ==
    /\ "backfill" \in Features
    /\ bf = NoCand
    /\ row[r].status = "deferred" /\ row[r].word # "queued" /\ ~row[r].inst
    /\ Bf(UNCHANGED vars, [r |-> r, ph |-> "listed"]) /\ UNCHANGED disk

(* Not instrumental, a detector error, or better lyrics already on disk. *)
dropCandidate ==
    /\ bf.ph = "listed"
    /\ Bf(UNCHANGED vars, NoCand) /\ UNCHANGED disk

writeMarkers ==
    /\ bf.ph = "listed"
    /\ Rung["marker"] >= Rung[disk[bf.r]]
    /\ Bf(UNCHANGED vars, [bf EXCEPT !.ph = "written"])
    /\ disk' = [disk EXCEPT ![bf.r] = "marker"]

BackfillOwned(w) == w.status = "deferred" /\ w.word # "queued"

(* os.Remove of the marker's path, whatever is there now. *)
removeMarkers(r) == disk' = [disk EXCEPT ![r] = IF @ = "synced" THEN @ ELSE "none"]

settleMarker ==
    /\ bf.ph = "written"
    /\ \/ Bf(SettleInstrumental(bf.r, "deferred"), NoCand) /\ UNCHANGED disk
       \/ /\ ~BackfillOwned(row[bf.r])
          /\ Bf(UNCHANGED vars, NoCand)
          /\ IF row[bf.r].status = "done" /\ row[bf.r].inst
             THEN UNCHANGED disk ELSE removeMarkers(bf.r)
       \/ \* the settle's outcome is unknown: the marker stays
          /\ "dberror" \in Features
          /\ Bf(UNCHANGED vars, NoCand) /\ UNCHANGED disk

BackfillStep ==
    \/ \E r \in Rows : ListUnclassified(r)
    \/ dropCandidate
    \/ writeMarkers
    \/ settleMarker

-----------------------------------------------------------------------------
(* Everyone else: scans, webhooks, sweeps, operators, time.                  *)

mem == <<pass, disk, bf>>

(* Deleting a library's results ends an enqueuer pass over it: its ids name  *)
(* nothing any more.                                                         *)
Dropped(l) == [todo |-> {e \in enq.todo : LibOf[e[1]] # l},
               cur |-> {e \in enq.cur : LibOf[e[1]] # l}]

OutsideStep ==
    \/ /\ \/ \E r \in Rows :
                \/ Tick(r)
                \/ MarkWordRecheckQueued(r)
                \/ MarkUpgradeQueued(r)
                \/ Retry(r)
                \/ Cleanup(r)
                \/ RecheckDeferred(r)
                \/ RecheckRetired(r, Libs)
                \/ MarkManualInstrumentalTx(r)
                \/ UnmarkManualInstrumentalTx(r)
                \/ ReopenDoneRowTx(r)
                \/ ResetInstrumental(r)
                \/ UnsettleInstrumental(r)
                \/ retireUnresolvable(r)
                \/ relinkResurrect(r)
                \/ relinkUnretire(r)
                \/ \E s \in Scans \cup {NoScan} : EnqueueWebhook(r, s)
          \/ \E s \in Scans, r \in Rows, f \in BOOLEAN : Upsert(s, r, f)
          \/ ClearDone
       /\ UNCHANGED <<pass, disk, enq, bf>>
    \/ \E l \in Libs : \E Kept \in SUBSET Rows :
          CancelByLibrary(l, Kept) /\ enq' = Dropped(l) /\ UNCHANGED mem

(* The process dies: what was only in memory is gone.  Startup reclaims      *)
(* nothing.                                                                  *)
Crash ==
    /\ "crash" \in Features
    /\ pass' = Idle /\ enq' = NoEnq /\ bf' = NoCand
    /\ UNCHANGED <<vars, disk>>

ServeNext ==
    \/ \E r \in Rows : Claim(r)
    \/ PassStep
    \/ EnqueuerStep
    \/ BackfillStep
    \/ OutsideStep
    \/ Crash

ServeSpec == ServeInit /\ [][ServeNext]_svars

(* The worker goroutine runs a pass to its end: lanes have timeouts, and     *)
(* settles run on a context that shutdown does not cancel.                   *)
FairServe == ServeSpec /\ WF_svars(PassStep)

-----------------------------------------------------------------------------
(* Properties *)

(* "The worker holds this row in 'processing' and nothing else can move it": *)
(* what the worker copied at the claim is still what the table says when it  *)
(* settles, whatever sweeps, scans, webhooks and operators did meanwhile.    *)
OwnershipHolds ==
    pass.r # NoRow =>
        LET w == row[pass.r] IN
        /\ w.status = "processing"
        /\ w.upg = pass.upg /\ w.att = pass.att /\ w.miss = pass.miss
        /\ w.word = "queued" <=> pass.word = "queued"

(* A word recheck is only ever parked or held: the worker never fails it,    *)
(* defers it as a miss, retires it or completes it as an ordinary row, so no *)
(* ordinary sweep can pick it up with the mark still on.  Prune alone        *)
(* settles a row under the mark, and leaves the sentinel beside it.          *)
ReTripShape ==
    \A r \in Rows : row[r].word = "queued" =>
        \/ row[r].status \in {"deferred", "processing"}
        \/ row[r].status = "done" /\ row[r].gone = "pruned"

(* What the proof of the two needs besides: a held word recheck returns to    *)
(* the park it came from, only ordinary passes write, and what is stamped    *)
(* and what is on disk came from a verdict of this deployment.               *)
WordShape(w) == w.word = "queued" => \/ w.status = "deferred"
                                     \/ w.status = "processing" /\ w.prev = "deferred"
                                     \/ w.status = "done" /\ w.gone = "pruned"
PassShape ==
    /\ pass.ph \notin {"idle", "claimed"} => pass.word # "queued"
    /\ pass.ph \in {"landed", "kept", "stamped", "worded", "keptstamped"}
          => pass.out \in Verdicts
    /\ \A r \in Rows : /\ disk[r] = "text" => "below" \in Verdicts
                       /\ disk[r] = "synced" => "synced" \in Verdicts

ServeInv == /\ Inv /\ ServeTypeOK /\ OwnershipHolds /\ PassShape
            /\ \A r \in Rows : WordShape(row[r])

(* A re-trip spends no miss of the row's budget: a song that once had lyrics *)
(* is not retired because a better version was looked for in vain.           *)
ReTripKeepsMissBudget ==
    [][\A r \in Rows : ReTrip(row[r]) /\ row'[r].status # "absent"
          => row'[r].miss = row[r].miss /\ row'[r].status # "unavailable"]_svars

(* A scan result in 'processing' is somebody's: the enqueuer reserved it, or *)
(* a linked row is still to be settled.                                      *)
Backed(s) == scan[s] = "processing" =>
                \/ \E e \in enq.cur : e[1] = s
                \/ \E r \in Rows : <<r, s>> \in link /\ row[r].status \notin Settled

(* No result is left behind in 'processing': whoever lets go of one answers  *)
(* it or leaves it to a row that will.  Prune's retirement of a linked row   *)
(* is the exception, as it writes nothing back.  (Merging two identities,    *)
(* which can leave one to a retired row, is a step of module Identity.)      *)
NoStrandedScan ==
    [][\A s \in Scans : Backed(s) =>
          Backed(s)' \/ \E r \in Rows : <<r, s>> \in link /\ retireUnresolvable(r)]_svars

(* A done row's file record describes the file on disk, unless prune retired *)
(* the row, which keeps whatever outcome an unfinished pass left.            *)
RecordDescribesDisk ==
    \A r \in Rows : row[r].status = "done" /\ row[r].gone # "pruned" =>
        /\ row[r].out = "synced" => disk[r] = "synced"
        /\ row[r].out \in {"below", "detector"} => disk[r] \in {"marker", "text"}

(* A backfill's rollback removes the marker it wrote and nothing else. *)
RollbackOnlyOwnMarker ==
    [][\A r \in Rows : disk[r] # "none" /\ disk'[r] = "none" => disk[r] = "marker"]_svars

(* A claimed row does not stay claimed. *)
ClaimReturns ==
    \A r \in Rows : row[r].status = "processing" ~> row[r].status # "processing"

=============================================================================
