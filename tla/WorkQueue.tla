----------------------------- MODULE WorkQueue -----------------------------
(***************************************************************************)
(* The durable work queue of internal/queue and the scan ledger of         *)
(* internal/scan: the SQLite tables work_queue, scan_results and the       *)
(* junction work_queue_scan_results.  Every action is one committed        *)
(* transaction, so it is atomic; who calls it, and what a caller remembers *)
(* between two calls, is the business of module Serve.  Next lets any      *)
(* caller take any of these transactions, so what holds here holds         *)
(* whatever their callers do.  Transactions of other packages that write   *)
(* the same rows are in the modules of those packages, and listed in the   *)
(* README.                                                                 *)
(*                                                                         *)
(* Time is abstracted to one bit per row: due says that next_attempt_at    *)
(* has passed.  A wait of any length clears it, Tick sets it.  The order   *)
(* in which due rows are claimed is the business of module Lookahead.      *)
(***************************************************************************)
EXTENDS Integers, FiniteSets

CONSTANTS
    Rows,        \* identities (artist_key, title_key, edition), one row each
    Scans,       \* audio files a scan may find, one scan_results row each
    Libs,        \* libraries
    LibOf,       \* the library of each file
    NoScan,      \* an enqueue that names no scan result
    MaxWaits,    \* maxRefusedWaits: bounded waits on a lane that did not answer
    AttCap,      \* bound on the modelled attempts counter (it saturates)
    MissCap,     \* bound on the modelled miss_count counter (it saturates)
    Verdicts,    \* what a fetch may land in this deployment, among Outcome
    Features     \* the optional subsystems of this deployment

AllFeatures == {"word", "upgrade", "detector", "manual", "webhook", "rescan",
                "operator", "backfill", "prune", "dberror", "shutdown", "crash"}

ASSUME LibOfAssumption == LibOf \in [Scans -> Libs]
ASSUME NoScanAssumption == NoScan \notin Scans
ASSUME MaxWaitsAssumption == MaxWaits \in Nat
ASSUME AttCapAssumption == AttCap \in Nat
ASSUME MissCapAssumption == MissCap \in Nat
ASSUME VerdictsAssumption == Verdicts \subseteq {"synced", "below", "categorical"}
ASSUME FeaturesAssumption == Features \subseteq AllFeatures

VARIABLES
    row,    \* work_queue: the record of each identity, "absent" when no row
    scan,   \* scan_results.status of each file, "absent" when no row
    link,   \* work_queue_scan_results
    key     \* the identity scan_results holds for each file

vars == <<row, scan, link, key>>

-----------------------------------------------------------------------------
(* States *)

Eligible == {"pending", "failed", "deferred"}      \* what Dequeue may claim
Settled  == {"done", "unavailable"}                \* terminal for the worker
RowStatus == {"absent", "processing"} \cup Eligible \cup Settled
ScanStatus == {"absent", "pending", "processing", "done", "failed"}
WordState == {"null", "queued", "served", "absent"}
\* What the row says is on disk.  "below" is an unsynced or a provider
\* instrumental sidecar, "categorical" a verdict that wrote no file.
Outcome == {"null", "synced", "below", "detector", "manual", "rejected",
            "categorical"}
\* source_gone_at, and the UnresolvableGoneError sentinel in last_error:
\* "seen" has the mark alone, "pruned" the sentinel alone, "retired" both.
Gone == {"no", "seen", "retired", "pruned"}

Row == [status : RowStatus, prev : Eligible, due : BOOLEAN, word : WordState,
        upg : BOOLEAN, waits : 0..MaxWaits, att : 0..AttCap,
        miss : 0..MissCap, out : Outcome, inst : BOOLEAN, manual : BOOLEAN,
        gone : Gone]

NoWork == [status |-> "absent", prev |-> "pending", due |-> FALSE,
           word |-> "null", upg |-> FALSE, waits |-> 0, att |-> 0, miss |-> 0,
           out |-> "null", inst |-> FALSE, manual |-> FALSE, gone |-> "no"]

NewWork == [NoWork EXCEPT !.status = "pending", !.due = TRUE]

TypeOK ==
    /\ row \in [Rows -> Row]
    /\ scan \in [Scans -> ScanStatus]
    /\ link \subseteq Rows \X Scans
    /\ key \in [Scans -> Rows]
    \* ON DELETE CASCADE on both sides: the junction links what exists.
    /\ \A r \in Rows, s \in Scans :
          <<r, s>> \in link => row[r].status # "absent" /\ scan[s] # "absent"

Init ==
    /\ row = [r \in Rows |-> NoWork]
    /\ scan = [s \in Scans |-> "absent"]
    /\ link = {}
    /\ key \in [Scans -> Rows]

Bump(n, cap) == IF n < cap THEN n + 1 ELSE cap

(* A re-trip is a settled row sent round again: a word recheck or an        *)
(* upgrade trip.  Its file is already on disk.                              *)
ReTrip(w) == w.word = "queued" \/ w.upg

(* ClearWordRecheckQueued *)
Unqueued(word) == IF word = "queued" THEN "null" ELSE word

(* The sentinel stands in last_error. *)
Sentinel(w) == w.gone \in {"retired", "pruned"}

(* last_error = '' on a row that keeps its source_gone_at mark *)
ErrorCleared(g) == CASE g = "retired" -> "seen" [] g = "pruned" -> "no" [] OTHER -> g

(* Mutants: the trigger is lost in a table rebuild; a settle forgets the      *)
(* wait budget.                                                             *)
SettledStillArmed(w, st) == [w EXCEPT !.status = st, !.waits = 0]
SettledBudgetSpent(w, st) == [w EXCEPT !.status = st, !.upg = FALSE]

(* Moving a row to done or unavailable.  upgrade_queued is dropped by the   *)
(* trigger on work_queue, refused_waits by every settling statement of the  *)
(* queue package; prune's retirement, below, settles on its own terms.      *)
SettledAs(w, st) == [w EXCEPT !.status = st, !.waits = 0, !.upg = FALSE]

-----------------------------------------------------------------------------
(* The scan ledger *)

(* A row that still owes linked scan results an ordinary answer.            *)
LiveOwner(w) == /\ w.status \notin {"absent"} \cup Settled
                /\ ~ReTrip(w)

(* Mutant: a sibling waiting for a retry is taken for finished. *)
NoClaimedSibling(r, s) ==
    \A q \in Rows \ {r} : <<q, s>> \in link => row[q].status # "processing"

NoLiveSibling(r, s) ==
    \A q \in Rows \ {r} : <<q, s>> \in link => ~LiveOwner(row[q])

(* Linked results that are not done and that no other live row owns.        *)
Owned(r, s) == /\ <<r, s>> \in link
               /\ scan[s] \notin {"absent", "done"}
               /\ NoLiveSibling(r, s)

writeBackScanResultsDone(r) ==
    scan' = [s \in Scans |-> IF Owned(r, s) THEN "done" ELSE scan[s]]

(* Move every linked result in one of the states from to the state to.      *)
MoveLinked(r, from, to) ==
    scan' = [s \in Scans |-> IF <<r, s>> \in link /\ scan[s] \in from
                             THEN to ELSE scan[s]]

Write(r, w) == row' = [row EXCEPT ![r] = w]

(* A row update that leaves the ledger alone, and one that settles it.      *)
Quietly(r, w) == Write(r, w) /\ UNCHANGED <<scan, link, key>>
Answering(r, w) == /\ Write(r, w)
                   /\ writeBackScanResultsDone(r)
                   /\ UNCHANGED <<link, key>>

Held(r) == row[r].status = "processing"

-----------------------------------------------------------------------------
(* Time *)

(* next_attempt_at passes. *)
Tick(r) ==
    /\ row[r].status \in Eligible
    /\ ~row[r].due
    /\ Quietly(r, [row[r] EXCEPT !.due = TRUE])

-----------------------------------------------------------------------------
(* Enqueue *)

(* Mutant: a reopen that does not look for the manual mark. *)
CanReopenMarked(w) == w.status = "done" \/ (w.status = "deferred" /\ w.word = "queued")

(* ReopenDoneRowTx: the row is fetched again from nothing. *)
CanReopen(w) == /\ w.status = "done" \/ (w.status = "deferred" /\ w.word = "queued")
                /\ ~w.manual

Reopened(w) ==
    [w EXCEPT !.status = "pending", !.due = TRUE, !.att = 0, !.out = "null",
              !.waits = 0, !.gone = "no", !.word = Unqueued(w.word)]

ReopenDoneRowTx(r) ==
    /\ CanReopen(row[r])
    /\ Quietly(r, Reopened(row[r]))

(* A scan that collides with a parked word recheck reopens it. *)
reopenWordRecheckForScan(w) ==
    IF w.status = "deferred" /\ w.word = "queued" /\ CanReopen(w)
    THEN Reopened(w) ELSE w

(* A different-length copy of a song with a categorical verdict reopens it,  *)
(* or is refused, or (the row is waiting already) changes nothing.           *)
OtherCopyOpen(r, s) ==
    \E t \in Scans \ {s} : <<r, t>> \in link /\ scan[t] # "done"

CategoricalRefused(r, s, w) ==
    /\ w.out = "categorical"
    /\ ReTrip(w) \/ w.status \notin Eligible
    /\ ReTrip(w) \/ OtherCopyOpen(r, s) \/ ~CanReopen(w)

reopenCategoricalForScan(w) ==
    IF w.out = "categorical" /\ w.status = "done" THEN Reopened(w) ELSE w

(* The upsert's CASE on the stored status. *)
Upserted(w, webhook) ==
    CASE w.status = "absent"               -> NewWork
      [] w.status = "pending"              -> [w EXCEPT !.due = TRUE]
      [] w.status \in {"failed", "deferred"} -> [w EXCEPT !.due = w.due \/ webhook]
      [] OTHER                             -> w

(* The row as the scan-origin reopens leave it. *)
ForScan(w, reopenCategorical) ==
    LET v == reopenWordRecheckForScan(w)
    IN  IF reopenCategorical THEN reopenCategoricalForScan(v) ELSE v

EnqueueRefused(r, s) ==
    CategoricalRefused(r, s, reopenWordRecheckForScan(row[r]))

(* From the scan enqueuer: the file behind s wants fetching. *)
EnqueueScan(r, s, reopenCategorical) ==
    LET w == Upserted(ForScan(row[r], reopenCategorical), FALSE) IN
    /\ scan[s] # "absent"
    /\ reopenCategorical => ~EnqueueRefused(r, s)
    /\ Write(r, w)
    /\ link' = link \cup {<<r, s>>}
    /\ scan' = IF w.status \in Settled /\ scan[s] # "done" /\ NoLiveSibling(r, s)
               THEN [scan EXCEPT ![s] = "done"] ELSE scan
    /\ UNCHANGED key

(* From a webhook: "this file changed".  It may name an inventoried file. *)
EnqueueWebhook(r, s) ==
    /\ "webhook" \in Features
    /\ s # NoScan => scan[s] # "absent"
    /\ Write(r, Upserted(row[r], TRUE))
    /\ link' = IF s = NoScan THEN link ELSE link \cup {<<r, s>>}
    /\ UNCHANGED <<scan, key>>

-----------------------------------------------------------------------------
(* Claiming, and the worker's settlements.  Each of them is guarded by       *)
(* status = 'processing' in its UPDATE.                                      *)

(* The claim: any due row, see module Lookahead for which one. *)
Dequeue(r) ==
    /\ row[r].status \in Eligible
    /\ row[r].due
    /\ Quietly(r, [row[r] EXCEPT !.status = "processing", !.prev = row[r].status])

(* The stamps the worker makes before it settles a row.  They key on the id  *)
(* alone: no status guard.                                                   *)
SetOutcomeType(r, out) ==
    /\ row[r].status # "absent"
    /\ Quietly(r, [row[r] EXCEPT !.out = out])

SetWordTimingState(r, state) ==
    /\ "word" \in Features
    /\ row[r].status # "absent"
    /\ state \in {"served", "absent"}
    /\ Quietly(r, [row[r] EXCEPT !.word = state])

ClearWordTimingState(r) ==
    /\ row[r].status # "absent"
    /\ row[r].word \in {"served", "absent"}
    /\ Quietly(r, [row[r] EXCEPT !.word = "null"])

SetInstrumentalResult(r) ==
    /\ row[r].status # "absent"
    /\ Quietly(r, [row[r] EXCEPT !.inst = FALSE])

Complete(r) ==
    /\ Held(r)
    /\ Answering(r, [SettledAs(row[r], "done") EXCEPT !.gone = "no"])

(* The worker settles the row it holds, the backfill a row that is still     *)
(* deferred and not parked for a word recheck.                               *)
SettleInstrumental(r, owner) ==
    /\ "detector" \in Features
    /\ row[r].status = owner
    /\ owner \in {"processing", "deferred"}
    /\ owner = "processing" \/ row[r].word # "queued"
    /\ Answering(r, [SettledAs(row[r], "done") EXCEPT
                        !.inst = TRUE, !.out = "detector",
                        !.gone = ErrorCleared(row[r].gone)])

SettleGuardRejected(r) ==
    /\ Held(r)
    /\ Answering(r, [SettledAs(row[r], "done") EXCEPT
                        !.out = "rejected", !.gone = ErrorCleared(row[r].gone)])

(* Back to where the claim found it, due at once or after a wait. *)
Release(r) ==
    /\ Held(r)
    /\ Quietly(r, [row[r] EXCEPT !.status = row[r].prev])

ReleaseUntil(r) ==
    /\ Held(r)
    /\ Quietly(r, [row[r] EXCEPT !.status = row[r].prev, !.due = FALSE])

Fail(r) ==
    /\ Held(r)
    /\ Write(r, [row[r] EXCEPT !.status = "failed", !.due = FALSE,
                               !.att = Bump(row[r].att, AttCap)])
    /\ MoveLinked(r, {"processing"}, "failed")
    /\ UNCHANGED <<link, key>>

Defer(r) ==
    /\ Held(r)
    /\ Quietly(r, [row[r] EXCEPT !.status = "deferred", !.due = FALSE,
                                 !.miss = Bump(row[r].miss, MissCap)])

(* Mutant: the wait budget is not checked. *)
DeferRefusedAlways(r) ==
    /\ Held(r)
    /\ Quietly(r, [row[r] EXCEPT !.status = "deferred", !.due = FALSE,
                                 !.waits = row[r].waits + 1])

(* Park a refused row for a bounded wait; a spent budget changes nothing and *)
(* the caller settles the row.                                               *)
DeferRefused(r) ==
    /\ Held(r)
    /\ row[r].waits < MaxWaits
    /\ Quietly(r, [row[r] EXCEPT !.status = "deferred", !.due = FALSE,
                                 !.waits = row[r].waits + 1])

RetireMiss(r) ==
    /\ Held(r)
    /\ Answering(r, SettledAs(row[r], "unavailable"))

-----------------------------------------------------------------------------
(* Word rechecks: a settled line-synced row is asked once more for words. *)

WordCandidate(w) == /\ w.status = "done"
                    /\ w.out = "synced"
                    /\ w.word \in {"null", "absent"}
                    /\ ~Sentinel(w)
                    /\ ~w.manual

MarkWordRecheckQueued(r) ==
    /\ "word" \in Features
    /\ WordCandidate(row[r])
    /\ Quietly(r, [row[r] EXCEPT !.status = "deferred", !.due = TRUE, !.att = 0,
                                 !.waits = 0, !.word = "queued"])

wordRecheckOwned(r) == Held(r) /\ row[r].word = "queued"

(* Mutant: the settle forgets the ledger. *)
SettleWordRecheckQuiet(r, state) ==
    /\ wordRecheckOwned(r)
    /\ state \in {"served", "absent"}
    /\ Quietly(r, [SettledAs(row[r], "done") EXCEPT !.word = state])

SettleWordRecheck(r, state) ==
    /\ wordRecheckOwned(r)
    /\ state \in {"served", "absent"}
    /\ Answering(r, [SettledAs(row[r], "done") EXCEPT !.word = state])

(* One more wait, or (budget spent) back to done as if never flipped. *)
DeferWordRecheck(r, maxWaits) ==
    /\ wordRecheckOwned(r)
    /\ IF row[r].waits >= maxWaits
       THEN Answering(r, [SettledAs(row[r], "done") EXCEPT !.word = "null"])
       ELSE Quietly(r, [row[r] EXCEPT !.status = "deferred", !.due = FALSE,
                                      !.waits = row[r].waits + 1])

RetryWordRecheckWrite(r) ==
    /\ wordRecheckOwned(r)
    /\ Quietly(r, [row[r] EXCEPT !.status = "deferred", !.due = FALSE])

-----------------------------------------------------------------------------
(* Upgrade trips: a settled row below line sync is fetched again, and so is  *)
(* one that the timing sweep has since stamped mis_synced, whatever outcome  *)
(* it records.  The stamp is not in the model, so any row may carry it.      *)

UpgradeCandidate(w) == /\ w.status = "done"
                       /\ w.out # "categorical"
                       /\ w.word # "queued"
                       /\ ~Sentinel(w)
                       /\ ~w.manual

MarkUpgradeQueued(r) ==
    /\ "upgrade" \in Features
    /\ UpgradeCandidate(row[r])
    /\ Quietly(r, [row[r] EXCEPT !.status = "pending", !.due = TRUE, !.att = 0,
                                 !.waits = 0, !.upg = TRUE])

(* Nothing better: the row keeps its file record.  No scan writeback. *)
SettleUpgradeTrip(r) ==
    /\ Held(r) /\ row[r].upg
    /\ Quietly(r, [SettledAs(row[r], "done") EXCEPT !.att = 0])

SettleStuckUpgradeTrip(r) == SettleUpgradeTrip(r)

(* The audio file is gone: marked at the first sighting, retired when the    *)
(* mark is old enough.                                                       *)
SettleGoneUpgradeTrip(r, confirmed) ==
    /\ Held(r) /\ row[r].upg
    /\ confirmed => row[r].gone # "no"
    /\ LET w == [SettledAs(row[r], "done") EXCEPT
                    !.att = 0, !.gone = IF confirmed THEN "retired" ELSE "seen"]
       IN  IF confirmed THEN Answering(r, w) ELSE Quietly(r, w)

ClearSourceGone(r) ==
    /\ row[r].status # "absent"
    /\ row[r].gone = "seen"
    /\ Quietly(r, [row[r] EXCEPT !.gone = "no"])

-----------------------------------------------------------------------------
(* The prune sweep, which runs in serve and from the CLI. *)

(* The audio is gone and nothing can relink it: the row is taken out of the  *)
(* eligible states by one statement of prune's own.  It keeps refused_waits  *)
(* and a queued word recheck, and it answers no scan result.                 *)
retireUnresolvable(r) ==
    /\ "prune" \in Features
    /\ row[r].status \in Eligible
    /\ Quietly(r, [row[r] EXCEPT !.status = "done", !.upg = FALSE, !.gone = "pruned"])

(* The file turned up elsewhere: a relink, by prune or by an enqueue under    *)
(* the new path, reopens what prune retired.  The statement looks at the row *)
(* again, but not at the sentinel the plan was made for.  The scan results   *)
(* that a relink moves along are in module Prune.                            *)
relinkResurrect(r) ==
    /\ "prune" \in Features
    /\ row[r].status \notin {"absent", "processing"}
    /\ row[r].gone \in {"no", "pruned"}
    /\ ~row[r].manual
    /\ Quietly(r, [row[r] EXCEPT !.status = "pending", !.due = TRUE, !.att = 0,
                                 !.out = "null", !.gone = "no",
                                 !.word = Unqueued(row[r].word)])

(* A row the worker retired did land its fetch: it keeps status and outcome  *)
(* and only loses the retirement.                                            *)
relinkUnretire(r) ==
    /\ "prune" \in Features
    /\ row[r].status \notin {"absent", "processing"}
    /\ row[r].gone = "retired" \/ (row[r].gone = "seen" /\ ~row[r].manual)
    /\ Quietly(r, [row[r] EXCEPT !.gone = "no"])

-----------------------------------------------------------------------------
(* Operator and backfill writes.  They run in other goroutines or other      *)
(* processes than the worker.                                                *)

Retry(r) ==
    /\ "operator" \in Features
    /\ row[r].status = "failed"
    /\ Write(r, [row[r] EXCEPT !.status = "pending", !.due = TRUE, !.att = 0,
                               !.word = Unqueued(row[r].word)])
    /\ MoveLinked(r, {"processing", "failed"}, "pending")
    /\ UNCHANGED <<link, key>>

(* Delete rows, after resetting the results only they still owned. *)
DeleteResetting(D) ==
    /\ row' = [r \in Rows |-> IF r \in D THEN NoWork ELSE row[r]]
    /\ scan' = [s \in Scans |->
                  IF /\ \E r \in D : <<r, s>> \in link
                     /\ scan[s] \notin {"absent", "done"}
                     /\ \A q \in Rows \ D : <<q, s>> \in link => ~LiveOwner(row[q])
                  THEN "pending" ELSE scan[s]]
    /\ link' = {l \in link : l[1] \notin D}
    /\ UNCHANGED key

(* Mutant: a cancel that takes the row the worker holds. *)
CancellableHeld(w) == w.status \in Eligible \cup {"processing"} /\ ~ReTrip(w)

Cancellable(w) == w.status \in Eligible /\ ~ReTrip(w)

Cleanup(r) ==
    /\ "operator" \in Features
    /\ Cancellable(row[r])
    /\ DeleteResetting({r})

LinkedTo(r, l) == \E s \in Scans : <<r, s>> \in link /\ LibOf[s] = l
LinkedBeside(r, l) == \E s \in Scans : <<r, s>> \in link /\ LibOf[s] # l

(* scan clear: cancel the library's rows, then drop its results, in one      *)
(* transaction.  A row whose output paths another library keeps survives     *)
(* (Kept); the paths themselves are not modelled.                            *)
CancelByLibrary(l, Kept) ==
    LET Cand == {r \in Rows : Cancellable(row[r]) /\ LinkedTo(r, l)} IN
    /\ "operator" \in Features
    /\ Kept \subseteq {r \in Cand : LinkedBeside(r, l)}
    /\ LET D == Cand \ Kept IN
       /\ row' = [r \in Rows |-> IF r \in D THEN NoWork ELSE row[r]]
       /\ scan' = [s \in Scans |->
                     CASE LibOf[s] = l -> "absent"
                       [] LibOf[s] # l /\ (\E r \in D : <<r, s>> \in link)
                             /\ scan[s] \notin {"absent", "done"}
                             /\ (\A q \in Rows \ D : <<q, s>> \in link => ~LiveOwner(row[q]))
                          -> "pending"
                       [] OTHER -> scan[s]]
       /\ link' = {p \in link : p[1] \notin D /\ LibOf[p[2]] # l}
       /\ UNCHANGED key

ClearDone ==
    /\ "operator" \in Features
    /\ LET D == {r \in Rows : row[r].status = "done" /\ ~row[r].manual} IN
       /\ D # {}
       /\ row' = [r \in Rows |-> IF r \in D THEN NoWork ELSE row[r]]
       /\ link' = {p \in link : p[1] \notin D}
       /\ UNCHANGED <<scan, key>>

RecheckDeferred(r) ==
    /\ "operator" \in Features
    /\ row[r].status = "deferred" /\ ~ReTrip(row[r])
    /\ Quietly(r, [row[r] EXCEPT !.due = TRUE])

(* Revive a retired row; its done results in the chosen libraries reopen. *)
RecheckRetired(r, ls) ==
    /\ "operator" \in Features
    /\ row[r].status = "unavailable"
    /\ ls = Libs \/ \E l \in ls : LinkedTo(r, l)
    /\ Write(r, [row[r] EXCEPT !.status = "deferred", !.due = TRUE, !.waits = 0,
                               !.word = Unqueued(row[r].word)])
    /\ scan' = [s \in Scans |-> IF <<r, s>> \in link /\ LibOf[s] \in ls
                                   /\ scan[s] = "done"
                                THEN "pending" ELSE scan[s]]
    /\ UNCHANGED <<link, key>>

ResetInstrumental(r) ==
    /\ "detector" \in Features
    /\ row[r].status = "done" /\ row[r].inst
    /\ Write(r, [row[r] EXCEPT !.status = "deferred", !.due = TRUE, !.waits = 0,
                               !.inst = FALSE, !.out = "null",
                               !.gone = ErrorCleared(row[r].gone),
                               !.word = Unqueued(row[r].word)])
    /\ MoveLinked(r, {"done"}, "pending")
    /\ UNCHANGED <<link, key>>

UnsettleInstrumental(r) ==
    /\ "detector" \in Features
    /\ row[r].status = "done" /\ row[r].inst
    /\ row[r].out \in {"null", "detector"}
    /\ Quietly(r, [row[r] EXCEPT !.status = "deferred", !.due = TRUE, !.waits = 0,
                                 !.inst = FALSE, !.out = "null",
                                 !.gone = ErrorCleared(row[r].gone),
                                 !.word = Unqueued(row[r].word)])

MarkManualInstrumentalTx(r) ==
    /\ "manual" \in Features
    /\ row[r].status \notin {"absent", "processing"}
    /\ ~row[r].manual
    /\ Answering(r, [SettledAs(row[r], "done") EXCEPT
                        !.manual = TRUE, !.out = "manual", !.inst = FALSE,
                        !.word = "null", !.gone = ErrorCleared(row[r].gone)])

UnmarkManualInstrumentalTx(r) ==
    /\ "manual" \in Features
    /\ row[r].manual /\ row[r].status # "processing"
    /\ Write(r, [row[r] EXCEPT !.manual = FALSE, !.status = "deferred",
                               !.out = "null", !.due = TRUE, !.att = 0,
                               !.waits = 0, !.gone = ErrorCleared(row[r].gone)])
    /\ MoveLinked(r, {"done"}, "pending")
    /\ UNCHANGED <<link, key>>

-----------------------------------------------------------------------------
(* The scan repository *)

(* A scan finds the file, under identity r.  A forced rescan (--update,      *)
(* --upgrade) offers it again; retagging the file re-keys it.                *)
Upsert(s, r, force) ==
    /\ scan[s] = "absent" \/ "rescan" \in Features
    /\ scan' = IF scan[s] = "absent" \/ force
               THEN [scan EXCEPT ![s] = "pending"] ELSE scan
    /\ key' = [key EXCEPT ![s] = r]
    /\ UNCHANGED <<row, link>>

(* Unguarded: WHERE id = ? and nothing else. *)
SetStatus(s, status) ==
    /\ scan[s] # "absent"
    /\ scan' = [scan EXCEPT ![s] = status]
    /\ UNCHANGED <<row, link, key>>

-----------------------------------------------------------------------------
WorkerStep(r) ==
    \/ Dequeue(r)
    \/ \E o \in Verdicts : SetOutcomeType(r, o)
    \/ \E w \in {"served", "absent"} : SetWordTimingState(r, w)
    \/ ClearWordTimingState(r)
    \/ SetInstrumentalResult(r)
    \/ Complete(r)
    \/ SettleInstrumental(r, "processing")
    \/ SettleGuardRejected(r)
    \/ Release(r)
    \/ ReleaseUntil(r)
    \/ Fail(r)
    \/ Defer(r)
    \/ DeferRefused(r)
    \/ RetireMiss(r)

ReTripStep(r) ==
    \/ MarkWordRecheckQueued(r)
    \/ \E w \in {"served", "absent"} : SettleWordRecheck(r, w)
    \/ \E m \in {0, MaxWaits} : DeferWordRecheck(r, m)
    \/ RetryWordRecheckWrite(r)
    \/ MarkUpgradeQueued(r)
    \/ SettleUpgradeTrip(r)
    \/ \E c \in BOOLEAN : SettleGoneUpgradeTrip(r, c)
    \/ ClearSourceGone(r)

OtherStep(r) ==
    \/ Tick(r)
    \/ ReopenDoneRowTx(r)
    \/ SettleInstrumental(r, "deferred")
    \/ Retry(r)
    \/ Cleanup(r)
    \/ RecheckDeferred(r)
    \/ \E ls \in {{l} : l \in Libs} \cup {Libs} : RecheckRetired(r, ls)
    \/ ResetInstrumental(r)
    \/ UnsettleInstrumental(r)
    \/ MarkManualInstrumentalTx(r)
    \/ UnmarkManualInstrumentalTx(r)
    \/ retireUnresolvable(r)
    \/ relinkResurrect(r)
    \/ relinkUnretire(r)

EnqueueStep(r) ==
    \/ \E s \in Scans, c \in BOOLEAN : EnqueueScan(r, s, c)
    \/ \E s \in Scans \cup {NoScan} : EnqueueWebhook(r, s)

LedgerStep ==
    \/ \E s \in Scans, r \in Rows, f \in BOOLEAN : Upsert(s, r, f)
    \/ \E s \in Scans, st \in ScanStatus \ {"absent"} : SetStatus(s, st)
    \/ \E l \in Libs : \E Kept \in SUBSET Rows : CancelByLibrary(l, Kept)
    \/ ClearDone

Next ==
    \/ \E r \in Rows : WorkerStep(r) \/ ReTripStep(r) \/ OtherStep(r) \/ EnqueueStep(r)
    \/ LedgerStep

Spec == Init /\ [][Next]_vars

-----------------------------------------------------------------------------
(* Properties that hold whatever the callers do *)

(* An upgrade mark never outlives its trip: a settled row carries none (the  *)
(* trigger of migration 053), and no row is on a word recheck and an upgrade *)
(* trip at once, so the worker never has to choose between the two.          *)
TripDisarmed ==
    \A r \in Rows :
        /\ row[r].status \in Settled => ~row[r].upg
        /\ ~(row[r].upg /\ row[r].word = "queued")

(* A settled row has its whole wait budget back, unless prune retired it.    *)
(* Word rechecks and refused fetches share refused_waits, so a settle that   *)
(* kept a spent budget would make the next trip give up at its first silent  *)
(* lane.  Prune's retirement does keep it, and relinkResurrect is the one    *)
(* reopen that does not clear it.                                            *)
SettledBudgetFresh ==
    \A r \in Rows : row[r].status \in Settled =>
                        row[r].waits = 0 \/ row[r].gone = "pruned"

(* A row marked instrumental by hand stays done until it is unmarked: no     *)
(* sweep, reopen, retry, cancel or claim moves it.                           *)
ManualMarkSticks ==
    \A r \in Rows : row[r].manual => row[r].status = "done"

(* A queue transaction calls a scan result done only when no linked row      *)
(* still owes it an ordinary answer: the first of two linked rows to finish  *)
(* leaves the result to the second (scanResultNoLiveSibling).  Only the      *)
(* repository's unguarded SetStatus may do otherwise.                        *)
NothingOwed(s) == \A r \in Rows : <<r, s>> \in link => ~LiveOwner(row[r])

DoneIsHonest ==
    [][\A s \in Scans : scan[s] # "done" /\ scan'[s] = "done"
          => NothingOwed(s)' \/ SetStatus(s, "done")]_vars

(* The detector's verdict is dropped when a row is marked by hand; without   *)
(* it the detector's own reset would reopen the marked row.                  *)
MarkedNotDetected == \A r \in Rows : row[r].manual => ~row[r].inst

(* A row that prune retired is done and stays so until it is reopened,       *)
(* which drops the sentinel.                                                 *)
PrunedIsDone == \A r \in Rows : row[r].gone = "pruned" => row[r].status = "done"

(* The inductive invariant: ManualMarkSticks needs MarkedNotDetected,        *)
(* SettledBudgetFresh needs PrunedIsDone.                                    *)
Inv == TypeOK /\ TripDisarmed /\ SettledBudgetFresh /\ ManualMarkSticks
       /\ MarkedNotDetected /\ PrunedIsDone

=============================================================================
