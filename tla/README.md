# Canticle: a TLA+ model of the lyric service

Canticle (the Go module `mxlrcgo-svc`) keeps the lyric sidecars of a music
library up to date. In serve mode a scheduler walks the libraries and records
every audio file in a scan ledger; an enqueuer turns ledger entries into rows of
a durable SQLite work queue; a worker claims one row at a time, asks the lyric
providers through an orchestrator of lanes guarded by circuit breakers, writes
the sidecar and settles the row. Around that pipeline, sweeps, detectors,
backfills, webhooks, a web UI and an operator's commands read and write the same
tables and the same files while the worker runs. This directory models the
pipeline and those others, checks them with TLC, and proves with TLAPS what
holds of the queue, the serve process, the lyric blocks, the lookahead buffer, the
lanes, the token and the watcher for every number of rows, files, libraries,
lanes and lookups.

Contents: 1 the system, 2 the modules, 3 the runs, 4 the proofs, 5 what is left
out, 6 the plan.

## 1. Inventory

### The parts

"Proved" means for every value of the constants, "checked" on the instances of
section 3. The order is that of a track's way from file to lyric, then of those
who work beside it.

| Part | State | Operations | Who it meets | Where | Status |
| --- | --- | --- | --- | --- | --- |
| Scan timer (`internal/schedule`, `internal/scan`) | next occurrence, timer | next occurrence of a cadence, sleep, run | the clock, offset changes, suspends | `Schedule` | checked |
| Watcher and self-write registry (`internal/watcher`, `internal/selfwrite`) | event channel, debounce timers, recent own writes | translate, arm, fire, scan a directory | the kernel's queue, the writer, the scan timer | `Watch` | safety proved, liveness checked |
| Scanner (`internal/scanner`, `internal/scanfail`) | caches of tags, durations and failures, keyed by path and stamp | decide one file | whoever retags or replaces the file | `Scan` | proved |
| Scan ledger (`internal/scan/repository.go`) | `scan_results.status` and the key of each file | Upsert, SetStatus, ListPendingByLibrary | scheduler, enqueuer, the queue's write-backs | `WorkQueue` | proved |
| Adoption and moves (`internal/scan/adopt.go`, `internal/queue/adopt.go`, `enqueue_move.go`) | links of settled files, the file of a row | adopt, repoint, reopen | enqueuer, worker | `Adopt` | checked |
| Enqueuer (`internal/scan/enqueuer.go`) | a listing, the reserved result | list, suppress, answer from cache, reserve, enqueue, restore | ledger, queue, worker | `Serve` | proved |
| Work queue (`internal/queue`) | `work_queue`, one row per (artist key, title key, edition); `work_queue_scan_results` | Enqueue, Dequeue, Complete, Release, Fail, Defer, RetireMiss, the settlements of detectors, guards, rechecks and trips, the operator's commands | everyone; each call is one transaction | `WorkQueue` | proved |
| Lookahead buffer (`internal/queue`) | `batch_seq` | refill, claim in stamp order, webhook invalidation | Dequeue, webhooks | `Lookahead`, `Claims` | proved |
| Worker (`internal/worker`) | the claimed item, a snapshot of its row | RunOnce | queue, orchestrator, writer, detectors | `Serve` | proved, ending checked |
| Re-trips (`internal/queue/word_timing.go`, `upgrade_sweep.go`, `source_gone.go`) | `word_timing_state`, `upgrade_queued`, `source_gone_at` | mark, settle, defer, retire | worker, queue | `WorkQueue`, `Serve` | proved |
| Orchestrator (`internal/orchestrator`) | answers so far, held answer, cancelled calls | ordered and parallel dispatch, recheck, classification, the worker's gate | lanes, worker | `Lanes` | proved |
| Breakers (`internal/circuit`, `internal/backoff`) | open-until, trips, probe | Allow, Trip, TripRenewal, RecordSuccess, RecordBenignMiss | lane calls, gate | `Circuit`, `Breaker`, `Lanes` | proved in part |
| Provider clients (`internal/musixmatch`, `internal/petitlyrics`, `internal/innertube`) | stored token and renewal lock; pacing level and slot; run of empty answers | renew, pace, probe | concurrent lookups, the operator | `Token`, `Pacer`, `Outage` | proved; the token refuted in one point |
| Lyric writer (`internal/lyrics`, `internal/sidecar`) | the sidecars of a track | write by rung, keep better, pair the companion | worker, tools, users | `Sidecars` | proved |
| Lyric blocks (`internal/lyricblock`) | `lyric_blocks`, backup | Mark, Unblock, RemoveFiles | worker (two looks at the blocks) | `LyricBlock` | proved |
| Manual marks (`internal/instrumentalmark`) | marker files, backup | Mark, Unmark | the row's worker | `ManualMark` | checked |
| Instrumental backfill (`internal/instrumentalbackfill`) | page, cursor, candidate | gather, write marker, settle, roll back | worker | `Serve`, `Gather` | checked |
| Detectors' verdicts (`internal/instrumentalrecalib`, `internal/detectorbackfill`) | stored attempt, marker | recalibrate, reset, copy | worker | `Recalibrate`, `WorkQueue` | checked |
| Prune (`internal/prune`) | directory records, absence marks, tombstones | sweep, exact pass, path pass | scanner, worker, mounts that come and go | `Prune`; its retirement and relinks of rows in `WorkQueue` | checked; what it does to rows proved |
| Purge by provenance (`internal/purgeprovenance`) | index, report | requeue, unlink, restore | worker, cache, a user | `Purge` | checked, refuted in one point |
| Identity repairs (`internal/identityrepair`, `internal/titlerepair`) | snapshot, to-do | re-key, merge, follow, detach, split | scanner, enqueuer, worker, blocks | `Identity` | checked |
| Realign (`internal/realign`, `internal/revalidate`) | planned moves, log, staged names | plan, apply, roll back | worker, users | `Realign` | checked |
| Repair runner (`internal/repair`) | live run, last run, closer | start, cancel, finish, Close | web routes, shutdown | `Runner` | proved |
| Hand edits (`internal/web/preview_edit.go`, `internal/lyrics/editlock.go`) | edit mark, `.orig`, row and path locks | save, restore, tag fill, timing sweep | worker, other editors | `HandEdit` | proved |
| Timing runs, converted audio (`internal/web/auto_run.go`, `flacfallback.go`) | registry, slots; cache, jobs, pins | start, poll, drop; get, convert, evict, close | browsers, shutdown | `AutoRuns`, `FlacCache` | proved |
| Process lifecycle (`internal/commands`, `internal/server`) | gate, drainer, tasks, database | start, webhook, realign, signal, drain, exit | everything it starts and stops | `Server` | proved |
| Credentials (`internal/webauth`, `internal/auth`) | users, sessions, login limiter | setup, login, rotate, delete | concurrent requests, the command line | `Access` | checked |
| Settings (`internal/config`, `internal/web/settings_save*.go`) | file, backup, secrets, environment | resolve, validate, save | concurrent saves, hand edits of the file, restarts | `Settings` | checked |
| Reports (`internal/reports`, `internal/tablesort`) | none but a cursor | buckets, tiles, lists, pages | every writer of `work_queue` | `Reports`, `Paging` | proved |
| LRC normalisation, timing, media and text helpers, wiring, the other pages | none shared | pure functions, I/O, request-scoped reads | | | not modelled |

### What is hard

* **Many writers, no lock held across steps.** The worker fetches for seconds
  between claiming a row and settling it. In between a scan may enqueue the same
  row, a webhook may touch it, a sweep may look at it, an operator may retry,
  cancel or mark it, and another process (the CLI) may do all of that on the same
  database. The protection is a `WHERE status = ...` in each UPDATE.
* **Two ledgers.** A file's scan result and the row fetched for it are settled in
  different steps. One row can serve several files, one file can be linked to
  several rows (retagging re-keys it), so "the file is done" must wait for every
  row that still owes it an answer, and no result may be left `processing` with
  nobody to finish it.
* **Re-trips.** A word recheck or an upgrade trip sends a settled row round
  again. It has a file on disk, its own wait budget in a column it shares with
  ordinary fetches, and must end where it started when it finds nothing.
* **A buffer of promises.** Rows are stamped ahead of their claim, stop being due
  while they carry the stamp, and a webhook must get ahead of all of them.
* **Calls that return late.** The losers of a decided race are cancelled, not
  joined; their refusals trip breakers during the next dispatch, half-open probes
  overlap, and the worker's gate itself consumes the probe.
* **Files without locks.** Writer, marks, blocks, purge, realign, prune and the
  editor decide from a file they read, then unlink or rename by path. Each call
  may fail, the process may die between two of them, and what must survive is
  the user's lyric.
* **Crashes.** Rows, results, marks and files survive; the worker's item, the
  enqueuer's listing and its reservation, and a half-done move do not.

### What makes each part correct

| Part | Correct when |
| --- | --- |
| Work queue | the upgrade mark is dropped by every settle (`TripDisarmed`) and the wait budget by every settle but prune's (`SettledBudgetFresh`); a manual mark sticks (`ManualMarkSticks`) |
| Scan ledger | a result is called done only when no live row owes it an answer (`DoneIsHonest`); no step but prune's retirement leaves one stuck in `processing` (`NoStrandedScan`) |
| Worker | its copy of the row is never stale (`OwnershipHolds`); a recheck stays in its own states until it is settled or prune retires it (`ReTripShape`) and costs the row no miss (`ReTripKeepsMissBudget`); the record describes the file (`RecordDescribesDisk`); every claim is let go (`ClaimReturns`) |
| Lookahead buffer | it decides the order of claims and nothing else (`ImplementsClaims`); a webhook's row comes next (`WebhookServedNext`) |
| Lanes | every lane's breaker follows the breaker's protocol whatever returns late (`LanesKeepBreakers`); none is at full rate while an outage's trips stand (`LanesClosedMeansRecovered`); the best answer received wins, a miss is an answer of a lane that was asked, a word is absent only by unanimity |
| Files | nothing is destroyed that was not backed up or seen (`RemovesOnlyBackedUp`, `SeenIsBackedUp`, `NothingDestroyed`, `OriginalSurvives`); nothing is overwritten unseen (`NeverClobbers`, `EditReplacesWhatWasShown`, `NeverDowngrades`) |
| Blocks | a blocked row can be reopened (`BlockedRowHasBlock`); an interrupted mark can be finished (`RetryCompletes`) |
| Prune, purge, identity | rows in flight and rows of a person are left alone; what is deleted or replaced is recorded; keys stay unique and no output is lost in a merge |
| Web service | no session outlives the credential it was made with; no save leaves a file the next start refuses; limits are counted exactly; shutdown leaves nothing running behind the closed database |
| All | whoever waits is served: files changed, rows buffered, requests made, runs begun |

## 2. The modules

### WorkQueue

The three SQLite tables the pipeline shares. Each action is one transaction: SQLite
serialises writers, so a transaction is atomic and nothing finer is visible to
another process. The actions are the transactions that move a row's status, its
budgets or its re-trip marks, in the queue package and in prune; section 5 lists
the other writers of these tables and where they are modelled.

* `row[r]` is the `work_queue` record of identity `r` (artist key, title key,
  edition), restricted to the columns that decide anything: `status`, `prev`
  (`prev_status`), `word` (`word_timing_state`), `upg` (`upgrade_queued`),
  `waits` (`refused_waits`), `att`, `miss`, `out` (`outcome_type`), `inst`
  (`instrumental_result = 1`), `manual`, `gone` (`source_gone_at` and the
  retiring sentinel in `last_error`: "seen" is the mark alone, "pruned" the sentinel
  alone, "retired" both). `due` stands for `next_attempt_at <= now`.
* `scan[s]` is `scan_results.status`, `key[s]` the identity it is filed under,
  `link` the junction table.
* Every action has the guard of its `UPDATE`'s `WHERE` clause. Actions whose SQL
  has no status guard (`SetOutcomeType`, `SetStatus`) have none here either.
* `SettledAs` is what every settling statement of the queue package and the trigger
  of migration 053 do together. `Quietly` and `Answering` are the two kinds of
  settle: without and with the ledger's write-back.
* Prune settles on its own terms. `retireUnresolvable` takes a row whose audio is
  gone out of the eligible states and keeps its spent waits and its queued recheck,
  and answers no scan result. `relinkResurrect` and `relinkUnretire` are the two ways
  back when the file turns up elsewhere, by prune's relink or by an enqueue.

`Next` lets any caller take any step, so what holds of `Spec` holds whatever the
callers remember or forget.

### Serve

The processes over those tables. `Serve` extends `WorkQueue` and adds what lives
outside the database: the worker's `pass` (the claimed item, a copy that can be
stale), the sidecar files `disk`, the enqueuer's listing and reservation `enq`,
and the backfill's candidate `bf`. A pass is cut at every transaction and every
file write, so another process can act in each gap:

| Worker code | Action |
| --- | --- |
| `RunOnce` up to `Dequeue` | `Claim` |
| `parkIfLibraryOffline`, `parkUnaskedRow` | `parkIfLibraryOffline` |
| the outcomes that release (unavailable, not ready, throttle, shutdown) | `releaseClaim` |
| `runWordRecheck` | `runWordRecheck` |
| `preflightOutputs` | `preflightOutputs` |
| miss, refusal, failure, guard rejection | `fetchEndsEmpty`, `guardRejected` |
| the write loop, then the stamps, then completion | `writeSong`, `failAfterWrite`, `stampOutcome`, `stampWordTiming`, `completePass` |
| `completeDetectorInstrumental` | an action of three phases |
| a settle that fails on the database | `orphanClaim` |

`Crash` forgets everything that is not on disk. `OutsideStep` is everyone else:
scans, webhooks, sweeps (prune's among them), resets, operators and time.

Every step of `ServeNext` that touches the tables is written with an action of
`WorkQueue`, so `ServeSpec => Spec` holds by construction. It is no result about the
code; it is the lemma that carries what is proved of the queue over to the process.

### LyricBlock

`Mark` and `Unblock` of `internal/lyricblock` against the worker, over the rows
(editions) of one identity. `Mark` is cut at each of its two transactions, at
both reads of the files, and between comparing a file and unlinking it;
`interrupted` may end it anywhere. The worker checks the blocks twice, when the
lanes answer (`Dispatch`) and before it writes (`Backstop`). The rest of the row
is collapsed: deferred into pending, unavailable into failed.

### Lookahead and Claims

`Claims` is a queue without a buffer: a claim takes some due row, and "nothing to
do" is answered only when no row is due. `Lookahead` is `dequeueBatched`: `buf`
holds the stamped rows in stamp order (only the order is ever read), each
operation is one transaction, and `Abstract` maps it to `Claims` by forgetting
`buf`. A refill, an invalidation and a dropped stamp each leave a `Cut` of the
buffer: some of its rows, each once, in their order. `refillBuffer` then draws
free rows in any order within their priority, up to `BatchSize`.

### Circuit, Breaker and Lanes

`Circuit` is the breaker as operations on its fields: each holds the mutex from
start to end, so each is one step. `Breaker` is one breaker under any caller, the
abstract specification. `Lanes` is the orchestrator: dispatches in both modes,
the detector's lane before or after, the word recheck on the same breakers, the
gate, restarts, and `stale`, the cancelled calls that return later.
`Brk(l) == INSTANCE Breaker WITH b <- lane[l].b` is the refinement of each lane.
`d.i` is the place in the sequence of an ordered dispatch; in a race it is the
code's `preConsulted`, 1 once the detector was consulted before the providers.

### The other modules

One module per component, each with its own type invariant, its properties and,
where something must end, its fairness.

| Module | What its state and actions are |
| --- | --- |
| `Schedule` | `Scheduler.Run` and `NextFire` on integer time: anchored and interval cadences, one change of the zone's offset, suspends of the machine, early wake-ups of the timer |
| `Watch` | notify channel, `translate`, `hand`, `dispatch`, timers, one scan at a time, the registry of own writes, and the scheduler's full walk |
| `Scan` | `ScanLibrary` on one file, cut at each stat, open, read and query; a path names an inode, a version is its stamp; three caches |
| `Adopt` | one row and the files that claim it; list, link, look and insert are separate transactions, a move is planned from a read and two stats and applied later; a gone file's row is retired by prune (`retireUnresolvable`, which answers no result) or at the end of an upgrade trip (`Tombstone`, which does) |
| `Token` | stored token, identity record and stamp; start-up resolution, renewal by concurrent lookups under `renewMu`, the operator's saves |
| `Pacer` | slot reservation, doubling and easing of the interval, cancelled callers; a duration wraps at `Width` bits |
| `Outage` | run of empty answers, control probe and verdict, with the lock given up in between |
| `Sidecars` | `WriteLRC`, one system call at a time, any of which may fail; companion pairing |
| `ManualMark` | extends `Sidecars`: Mark and Unmark with their two inventories and the backup, against the row's own worker and another writer |
| `Gather` | the backfill's pages, the tail of files the detector failed on, the cursor between cycles |
| `Recalibrate` | Run (marker, then row) and Reverse (row, then marker), the stored attempt, the copy of attempts; the threshold of the command is its own, that of serve is fixed at its start; the worker's attempt, stamp, write and settle are steps of their own |
| `Prune` | the three passes over one reconcile: directory records, two-sweep ageing, relink, tombstone, cap, backup |
| `Purge` | a second process: index, check, requeue, unlink, restore of `.orig` (its last look and its removal are two steps), with companion and cache |
| `Identity` | tags that change, results that follow, rows merged or split, blocks re-keyed; one row per transaction, the file read in a step before it |
| `Realign` | planned moves applied call by call: a move is a link and a removal by path, with companions, names set aside, roll-back and the log |
| `Runner` | one run at a time on its own goroutine, cancel, snapshot, Close with its timeout |
| `HandEdit` | save, rescue of the original, edit mark, the two locks, the timing sweep and the tag filler |
| `AutoRuns`, `FlacCache` | registry of timing runs with its slots; cache of conversions with jobs, pins, eviction and Close |
| `Server` | start-up order, the gate of the start-up backfill, webhooks, the chain of four goroutines that shuts down |
| `Access` | setup, login, rotation, deletion, with slow hashing between two statements; the lockout table |
| `Settings` | resolve (file, environment, defaults, clamps), judge, write through a temporary file and `.bak` |
| `Reports` | one row's columns under every statement that moves it, and the pages' predicates with SQL's three values |
| `Paging` | keyset pages over rows that move between two requests |

### Instances and proof modules

`MCWorkQueue` and `MCServe` give the constants of their module values;
`LyricBlock`, `Purge` and `Token` take theirs from the `.cfg`. `MCFetch`, `MCBeside`, `MCServed` and `MCEnds` each check several
components in one run: a behaviour takes one part of `Parts` and runs that
component's specification, instantiated on the variables `x1`, `x2`, ...; the
others stay as they are. The state space is the sum of the parts', never
their product, and a property is the conjunction over its parts. Components that
do interact share a module instead (worker, enqueuer, backfill and ledger in
`Serve`; purge and worker in `Purge`; breakers and dispatches in `Lanes`, and so
on). To look at one component, give its part alone in the `.cfg`. `MCServed` runs
`Lookahead` on that module's own variables, so that the run checks the very
property the proof is of.

The theorems are in eight modules: `ServeProofs` (queue and process),
`LyricBlockProofs`, `IntakeProofs` (`Lookahead` and `Watch`), `LanesProofs`,
`SourceProofs` (`Scan`, `Token`, `Pacer`, `Outage`) and `ToolProofs` (`FlacCache`,
`Reports`, `Paging`, `Sidecars`, `Runner`, `Server`, `AutoRuns`, `HandEdit`), which
prove about the components, and
`FetchProofs` and `BesideProofs`, which put the parts together to the properties
that the runs `fetch` and `beside` check.

## 3. Runs

| Run | Properties | Instance and question |
| --- | --- | --- |
| `queue_row` | `TypeOK`, `TripDisarmed`, `SettledBudgetFresh`, `ManualMarkSticks` | one row, two files of two libraries, every feature of the queue, arbitrary callers: do marks, budgets and manual marks survive every interleaving? |
| `serve_trips` | `ServeTypeOK`, `OwnershipHolds`, `ReTripShape`, `ReTripKeepsMissBudget` | one row, one file, every feature but rescans; crashes, shutdowns and lost stamps on: does a re-trip keep to its own states and cost nothing? |
| `serve_ledger` | `NoStrandedScan`, `DoneIsHonest` | two rows, one file that is retagged and rescanned; operators and prune: is every reserved result owed by somebody, and none called done too early? |
| `serve_claim` | `ClaimReturns` | one row; re-trips, detectors, manual marks, backfill, prune, operators: is every claim let go? |
| `block_editions` | `TypeOK`, `BlockedRowHasBlock`, `RemovesOnlyBackedUp` | two editions, two bodies, with unblocks |
| `fetch` | `ScanIsHonest`, `RecordDescribesDisk`, `DispatchIsSound`, `BreakerIsExact`, `ClientsAreSound`, `AdoptionIsSafe`, `ScheduleIsSound` | from the file to the lyric: `Schedule`, `Scan`, `Adopt` (two copies of a song; and a file with its sibling), `Lanes`, `Breaker`, `Pacer`, `Outage`, `Token`; and `Serve` on one row for the record of what was written |
| `beside` | `WritesAreSafe`, `PruneIsSafe`, `RealignIsSafe`, `MarksAreSafe`, `PurgeIsSafe`, `IdentityIsSafe`, `InstrumentalsAreSafe`, `FlacCacheIsSound`, `ReportsAgree`, `AccessIsSound`, `LifecycleIsSound`, `SettingsAreSound`, `AutoRunsAreSound`, `HandEditIsSafe` | what deletes, moves and rewrites behind the worker's back: `Sidecars`, `LyricBlock` without unblocks, `Prune` (the sweep; the attended passes), `Realign`, `ManualMark`, `Purge`, `Identity`, `Recalibrate`, `Gather`; and the web service: `Access` (requests that interleave; the limiter), `Server`, `Runner`, `Settings`, `AutoRuns`, `FlacCache`, `HandEdit`, `Reports`, `Paging` |
| `served` | `ImplementsClaims`, `WorkIsServed` | under fairness: three rows in a buffer of two; a changed file, a token lookup, an adopted result, a recovered provider; edits, conversions and saves |
| `ends` | `RunsEnd` | under fairness: a dispatch and a shut gate, a scan, a realign, a purge, a backlog, a canceled repair, a shutdown |
| `serve_x_crash` | `ClaimReturns`, violated | one row and a crash |
| `purge_x_loss` | `PurgedIsRefetched`, violated | one track, serve beside the purge |
| `token_x_mints` | `OneMintPerToken`, violated | two lookups, one expired token, no save by the operator |

The properties of `fetch` and `beside` are conjunctions, one conjunct
per part; the comment at each says what its conjuncts mean, and the properties
themselves are stated, each with its own comment, at the end of the component's
module.

### What the code does not keep

Three runs state what the repository says of itself and find it violated:

1. `serve_x_crash`: a row claimed at a crash stays `processing` for ever.
   `reports/inflight.go:24-25` says "until startup recovery"; there is none.
2. `purge_x_loss`: a worker that claims the requeued row and writes before the
   purge's unlink loses its fresh lyric, settles the row as done, and nothing
   fetches the track again. `purgeprovenance.go:443-452` calls the race "wasted
   work, never loss".
3. `token_x_mints`: `musixmatch/client.go:269-271` and `651-655` say that
   concurrent `hint=renew` answers produce one mint. A lookup reads the token it
   would replace (`staleToken`, line 656) after its answer, not before its
   request. When another lookup renews between the answer and that read, the
   comparison under the lock finds nothing changed and a second, rate-limited
   mint replaces the token that was just minted.

The same kind of disagreement exists in these places. The modules have the steps;
the instances above leave the named feature or fault out, so that the property
says what the code does keep:

* Prune's retirement settles a row and leaves its spent wait budget, its queued
  recheck and its `processing` result as they are (`prune.go:2680-2722`). The first two
  are exceptions named in `SettledBudgetFresh` and `ReTripShape`, the third a step that
  `NoStrandedScan` and `ReservedIsSettled` (in `Adopt`) name. The two statements that
  reopen such a row (`prune.go:2660-2667`, `enqueue_move.go:195-201`) keep the budget too,
  against "every reopen path clears" (`queue.go:4193-4197`).
* A merge of two identities moves the results of the dropped row to the survivor, and
  a survivor that is `unavailable` is "deliberately NOT reopened"
  (`identityrepair.go:783-794`): a reserved result waits there until an operator's
  `RecheckRetired`. Merges are steps of `Identity` and not of `Serve`, so
  `NoStrandedScan` does not speak of them.
* An upgrade trip's settle does not answer the ledger: a file found during the
  trip is linked and stays `processing` (`upgrade_sweep.go:149` against
  `scan_writeback.go:20-22`). `NoStrandedScan` is without feature `upgrade`; and
  without `shutdown` and `crash`, because a process that stops between reserving
  a result and offering it leaves the result `processing` (`abortPass`).
* An upgrade trip that wrote a better file and then failed starts its retry with
  `landed = false`, and a miss settles it onto the record of the replaced file
  (`worker.go:3010` against `2988-2990`). The backfill's settle and a lost stamp
  (`worker.go:2045`) do the like. `RecordDescribesDisk` is without `upgrade`,
  `backfill`, `dberror`.
* The backfill's rollback removes a path, not a marker: lyrics a worker wrote
  there in between go with it (`instrumentalbackfill.go:741` against `316-317`).
  `RollbackOnlyOwnMarker` in `Serve` states it and no run lists it.
* An unblock between an interrupted mark and its retry takes away the block by
  which the retry would know the half-finished mark (`lyricblock/mark.go:219`
  against `160-162`). `RetryCompletes` is checked with `CanUnblock = FALSE`.
* Some properties leave a gap between two steps out, and say so in their comment;
  the modules have the steps, so each exception is needed:
  * `Realign`: a pair the worker writes under the old name between a move's link and
    its removal by path is deleted (`realign.go:1159-1170`).
  * `Purge`: a `.orig` the user replaces between the check of its directory entry and
    the removal by path is deleted (`purgeprovenance.go:662`, `665`).
  * `Identity`: Run does not read the tag again in its transaction
    (`identityrepair.go:304` against `355` and `445`); a file retagged back in between
    loses its blocks to a key it no longer has, until the next scan.
  * `Recalibrate`: a worker that claims the row between its release and the command's
    own record of the attempt (`instrumentalrecalib.go:580-597`), with a looser
    threshold than the command's, settles it as instrumental under a recorded miss;
    and a file it writes there goes with the marker, whose removal is by path.
  * `ManualMark`: a file put in the place of one already reported, between the two
    inventories, is not backed up (`mark.go:348-350`); one that appeared is.
* Further faults that the instances do not inject: a sidecar that changes between
  `ManualMark`'s inventory and its backup (`stale`), a failing open that puts a
  readable settled file on the scanner's skip list and a failing read of the
  `.txt` (`settledopen`, `readtxt` in `Scan`), audio rewritten in place
  (`rewrite`), a stat that fails after an edit was written (`stat` in
  `HandEdit`), a settings reload that fails after the save (`reload`).

### Bounds

* Counters: `AttCap` and `MissCap` saturate at 1 or 2 (at 0 where no property of the
  run looks at them), `MaxWaits` is 0 or 1,
  `UpgradeMaxAttempts` 1 or 2, `MaxMiss` 0 to 2. The code compares each counter
  with one limit, so "below the limit", "at the limit" and "no limit" are all
  there is to tell apart; the proofs hold for any values.
* Two rows and one file are enough for a re-keyed file to have an old and a new
  row; one row and two files for two copies of a song; two libraries for a cancel
  that another library's link must survive; three rows and a buffer of two for a
  buffer that is full while another row is due. One row is enough wherever rows
  do not meet: they meet only in the ledger and in the buffer.
* `Features` of `WorkQueue` and `Serve` switches whole subsystems, so that a run
  can afford the interleavings it is about. What a feature switches off is a
  deployment's configuration or an operator who does not act.
* In the other modules a constant whose name begins with `Max` bounds what the
  environment may do (edits, writes, faults, runs, saves), and nothing else: one
  or two of each is enough to put a foreign step between any two steps of the
  component. `Faults` names the calls that may fail.
* Widths: the breaker's window arithmetic and the pacer's durations wrap at
  `Width` bits, small enough that the instances reach the wrap (`Breaker` is
  checked through eight trips with a cap that is not a power of two).
* Symmetry is used over the rows of `serve_ledger`, which has no liveness. No
  definition distinguishes them.
* In the runs of `WorkQueue`, `Serve` and `LyricBlock` a row may always be
  enqueued, so deadlock is checked. The other modules have parts that end (a
  purge that is over, a process that has exited, a bound that is used up), so
  these runs have `CHECK_DEADLOCK FALSE`; what must not stop there is stated as
  liveness in `served` and `ends`.

### Fairness

* `FairServe` asks weak fairness of the worker's pass and of nothing else: a pass
  that has begun takes its next step. The worker is one goroutine, lanes have
  timeouts, and the settles run on `context.WithoutCancel`. Nothing is assumed of
  scans, operators, sweeps or time, so `ClaimReturns` cannot lean on them.
  Neither a crash nor a failed settle is in that instance: the code has no answer
  to either (the first disagreement above, and the comment of
  `releaseAfterThrottle`).
* `MCServed` and `MCEnds` list their fair steps in `GoesOn` (weak) and `Competes`
  (strong). Weak fairness is asked of steps a goroutine takes by itself once it
  runs: the next statement of a handler, a timer that fires, a window that ends,
  the worker's and the enqueuer's next transaction. Strong fairness is asked only
  of acquiring a mutex or a slot, or of starting on a row when it is not in
  flight: Go's mutexes hand over to a waiter after a millisecond, and the
  semaphores are channels. No fairness is asked of requests, of operators, of
  changes on disk, of faults or of crashes.

## 4. Proofs

All theorems hold for every set of rows, files, libraries, features, verdicts,
editions, bodies, lanes, lookups, scans, callers, writers and directories and
every value of the bounds. The assumptions are the
`ASSUME`s of `WorkQueue`, `Serve`, `LyricBlock` and `Lookahead`: files have a
library, the null values are not members, bounds are natural numbers (they may be 0), the
buffer's rows are finite and its batch is at least one (`queue.go:626` turns the
buffer off below that). TLC evaluates them in every run of these modules.

**The queue (`ServeProofs`, part 1).** `Inv` is `TypeOK`, `TripDisarmed`,
`SettledBudgetFresh`, `ManualMarkSticks` and `MarkedNotDetected`. The last is
there because `ManualMarkSticks` is not inductive: the detector's reset reopens
any done row with a detector verdict, and only because a manual mark drops the
verdict does it leave marked rows alone. The proof turns `Inv` into a predicate of
one record (`RowOK`), shows once that writing a good record preserves it, and then
has one step per action that shows its record good. `QueueDoneIsHonest` is an
action property: `AnsweringHonest` shows that a settle under the sibling guard
leaves nothing owed, for any number of linked rows.

**The process (`ServeProofs`, part 2).** `ServeInv` adds `ServeTypeOK`, `OwnershipHolds`,
`WordShape` and `PassShape`. `OwnershipHolds` is the hinge: it lets each call of a
pass be the queue action with its guard true. Its proof is a frame argument: every
step of anyone else keeps a held row's status and the columns the worker copied
(`OtherStepsFrame`). `WordShape` says that a held word recheck returns to the park
it came from, without which `Release` could turn it into a pending row.
The lemma `ServeImplementsQueue` (true by the way `ServeNext` is written, section 2)
lets `ServeDoneIsHonest` carry the ledger's promise over. A row that prune retires
keeps its recheck mark and its budget, so `WordShape`, `ReTripShape` and
`SettledBudgetFresh` have that case; `PrunedIsDone` says that such a row is done until
it is reopened, without which a reopened row could keep the excuse.

**Budget, record and ledger (`ServeProofs`, part 3).** Three results over the whole
process, each from `ServeInv`.

* `Moves(q, w, v)` says what any one step may do to the record of one row. It is
  shown once, caller by caller (scans and sweeps, enqueuer, ledger, the worker's
  calls on the row its pass holds), and `StepMoves` collects it. From there
  `ServeKeepsMissBudget` needs no case split: a row on a re-trip has the miss
  count it had and is not retired. It needs `BlankInv` (a deleted row keeps no
  upgrade mark), or a row could be deleted and come back on a trip.
* `ServeRecordDescribesDisk` is the property that `fetch` checks on one row. It
  follows the record through the pass: `RecordInv` says which phases of a pass have
  written what (`RecPass`), that a row whose word recheck is queued is as good as
  done (`RecRows`), and that no upgrade or backfill is under way. Its hypothesis
  `Stamped` rules out the features `upgrade`, `backfill` and `dberror`, with which the
  code breaks the property (section 3); everything else, crashes included, is in.
* `ServeNoStrandedScan` is an action property: a step that finds a result `Backed`
  leaves it so or is prune's retirement of a linked row. It needs the inductive
  `StrandInv` (at most one reservation, no upgrade trip). The work is in `AnswerBacks` (a settle that
  does not answer a result leaves a live sibling that will) and `OfferBacks` (an
  offered result becomes the row's, unless the row is settled and nobody else
  owes it). Its hypothesis `Running` rules out `upgrade`, `shutdown` and `crash`,
  again because the code breaks the property with them.

Both hypotheses are about `Features`, a constant; the runs' instances satisfy
them, and so does a deployment that has the upgrade sweep and the backfill
switched off.

**Blocks (`LyricBlockProofs`).** `BlockTypes` includes that the worker's row stays
claimed while `Mark` and `Unblock` run and that `Mark` unlinks only what it has
read. For `BlockedRowsReopenable` the inductive `LabelInv` says more than the
property: a row labelled blocked is done, in any state, and some block is left.
Only with the first half does a claim or an enqueue keep the second. For
`MarkRemovesBackedUp` the inductive `BackupInv` says, at the step before the
unlink, that what was compared is saved and, unless a write came late, still on
disk; and that what the worker is about to write is a lyric at all.
`RetriedMarkCompletes` has the hypothesis that nobody unblocks (`~CanUnblock`),
without which the code does not keep it. Its `RetryInv` says more than the
property: as long as there is no block, no file was ever removed, so every record
of a file is true, and a pass that wrote or kept a file will make a true one.

**The buffer (`IntakeProofs`).** Sequences are confined to two facts, what a
`Cut` keeps (`CutShape`) and what a draw adds (`DrawShape`); `RefillShape` joins
them: after a refill the buffer is full or nothing is left to draw, and all of it
is due. `LookaheadImplements` is then one case per action: a claim takes a due
row, and an empty buffer after a refill means that no row is due. For
`LookaheadServesWebhook` the inductive `HookInv` says that a row a webhook has
asked for is due and of high priority, that the buffer holds no scan row unless
such a row stands before it, and that no stamp stands on a row in flight. `LookaheadTypes` is the bound of the buffer and that no
row is stamped twice.

**The lanes (`LanesProofs`).** `EveryStepMoves` reduces the actions to
what they do to the lanes: nothing, one lane asked, one answer returned, one
window over, a new process. `MoveIsAfter` turns each into an operation of one
breaker (`After`), which gives `LaneIsBreaker`: for every lane, `Spec` implements
`Breaker`'s specification. `LanesRecover` needs the inductive `Recovering`: a
window excludes a probe, and trips stand only while a window is set or a probe is
out. `LanesStayBreakers` is the same said of the whole array of lanes, and
`LanesTypesHold` the type invariant, which needs the count of "no word" answers
(below) to bound its counter.

What a dispatch answers takes four more invariants, one per result, each kept by
one lemma per way of taking an answer (ordered, staged, raced) and per way of
ending.

* `LanesRefuseOnlyTried` (`RefusedInv`): a lane that could not be tried is
  remembered in the result, and nothing refused is ever held or gated.
* `LanesServeTheBest` (`BestInv`): every usable answer received is still there,
  as the best, the gated or the held one, or has been beaten (`Kept`); with what
  may be held or gated in which phase (`Ordering`, `Racing`, `Staging`).
* `LanesAbsentIsUnanimous` (`WordInv`): the count of "no word" answers never
  exceeds the word-capable lanes that gave one. It grows by one with a lane only
  because no lane is asked twice (`Turns`, `Spawns`).
* `LanesMissIsAnAnswer` (`MissInv`): a dispatch that asked a provider has such an
  answer, keeps a song, or keeps an error that outranks the detector's word; one
  that asked none has skipped one, and so comes to "unavailable".

Their hypotheses are facts of the set-up, not of the run. `WellConfigured`: there
is a provider, the detector is not one, and each answers in its own vocabulary.
`InstalledOnce`: no lane is installed twice and the word-capable lanes are
providers. The latter states that `WordOrder`, a filtered sequence, is without
repetition as well, which would take induction over `SelectSeq`. TLC checks both
in `DispatchIsSound`.

**The token (`SourceProofs`).** `TokenInv` joins what a renewal relies on.
`OneRenewal`: `renewMu` is held exactly by the lookup that renews. `Alone`: no
lookup runs while `serve` starts, so the start's own writes meet no renewal of
its process. `Owned`: a token of the operator's has a stamp and no record.
`Judged`: a snapshot that a renewal mints for is not the operator's, or is the
one state without a stamp that the start remembered (`legacy`). At the commit
the stored state is the snapshot, so it cannot be owned and judged at once
(`CommitSpares`), which is `TokenSparesOperator`. `Dropping` covers the two
deletes of a degenerate row, between which the record outlives its token, and
`Stamps` bounds the stamps by the mints and saves. The actions fall into four
kinds (`Careful` lookups, `Booting` starts, `MintedWrite`s and the rest). The
hypothesis `Bounded` is of the set-up: the bounds are numbers and the name of the
free lock is no lookup; TLC checks it in `ClientsAreSound`.

**The watcher (`IntakeProofs`).** `NothingForgotten` is not inductive: a file that
is gone may have only a write event queued, which prunes nothing. `WatchInv` says
more: an unseen file that is there has an event queued or a scan owed, and one
that is gone has its Remove or Rename queued (`QueuedGone`). The steps that
matter are the delivery of an event (`translateKeeps`) and the scan that deletes
a directory's entry (`scanStartKeeps`). `FiredScansAreQueued` adds that an entry
whose timer has gone off has its scan queued, which `NothingForgotten` leaves
open, and `WatchTypesHold` bounds the channel. The hypothesis is that every file
has its directory.

**The scanner (`SourceProofs`).** Scans overlap and the file changes under them.
`Youngest` says that the path names the youngest version and that no stamp held by
a cache or a scan is younger: a stamp equal to the file's version therefore says
that nothing was written since. `OneVersion` is the invariant of a scan that has
the file open: the stamp of its look is no younger than the inode's version, and
if they are equal, what it has read so far is of that version.
`ScanIdentityHonest`, `ScanDurationHonest`, `ScanSkipsUnreadable`,
`ScanSparesMarked` and `ScanTypesHold` follow. The hypotheses are where the code
needs them: a banked duration is only right when an edit of the inode in place
keeps the sound (`KeepsSound`: `recordDuration` stamps at the end of the probe), a
skip is only right when the open of a settled file fails for its tags alone, and a
mark is only seen when the `.txt` can be read (`os.Open` failing is taken for "no
text").

**The pacer (`SourceProofs`).** `PacerSlotsSpaced` is not inductive: a cancelled
caller gives its slot back. `Reserved` says that every slot lies at or before the
last, that a sleeper's slot is taken, that no two sleepers share one and that no
slot lies between a sleeper's and the one before, so giving back the last restores
the spacing. `PacerEasesInQuiet` needs that the last change of the level is no
earlier than the last throttle (`Clocks`). `PacerConfigured` is about the bounds;
that a power of two is at least one is stated there because no prover has a rule
for `2^l`; TLC computes the same powers in `fetch`.

**The outage probe (`SourceProofs`).** `ProbeHeld`: the flag is up for exactly the
one lookup that is between its check and its deferred reset, so two probes never
overlap (`OutageOneProbe`); a run is never longer than the misses since the last
songs, and the second look at the count makes the verdict stand on it
(`OutageRunStands`).

**Converted audio (`ToolProofs`).** `FlacInv` joins the counts of waiters with the
requests that wait (`Counted`), the map of conversions in flight with the jobs
(`InFlight`), the disk with both (`OnDisk`: a finished result that is still
awaited is there) and the pool (`InSlots`). From it follow that a version is
converted once at a time, that a result is not evicted before it is opened, that
it is of the version asked for and that nothing runs after the directory is gone.

**Reports and paging (`ToolProofs`).** `RowInv` is what the statements keep of one
row; then the pages' predicates, in SQL's three values, are evaluated over it:
buckets partition, tiles and lists agree, the outcomes table names what the tile
counts. The walk's invariant (`WalkInv`) says that every row that stood still is
listed exactly up to the cursor. A page ends at the row with `PageSize` rows
before it (`Rank`), which is found by a least element of a set of naturals and not
by induction over the page.

**The writer (`ToolProofs`).** `WriterInv`: a call that is past its refusals
writes no less than it found, and while no other call touches its output it finds
what it put. That gives `WriterNeverDowngrades` for any number of writers, outputs
and faults. That a companion never stays beside another song's lyrics
(`CompanionInv`) has the hypothesis `OneWriter`: the code does not lock the pair.

**Repair runs (`ToolProofs`).** `RunnerInv`: only the live run, which is the latest,
is before its last locked step (`OneLive`); the snapshot is the latest run's, and
says "running" exactly while one is live (`ShownIsLatest`); a Close has shut the
door before it waits, so a Close that returned left no goroutine (`WaitedOut`).

**Starting and stopping (`ToolProofs`).** `ServerInv` says what each stage has made
sure of: past the gate of the start-up backfill a realign was let through by the
gate or by the shutdown (`GateKept`), tasks run only between their start and the
wait for them (`TasksWaited`), and a drainer that is done has shut the handler and
waited for its realigns, the requests it gave up on excepted (`Drains`, `late`).
There is no hypothesis. The two action properties need only the types.

**Timing runs (`ToolProofs`).** The count that the limit is taken from is the number
of goroutines alive, the dropped and replaced ones included (`AutoSlotsCounted`, by
the cardinalities of `Live`). `UnlistedIsCanceled` is kept because every step that
takes a run out of the registry tells it to stop (`DropsCanceled`). That a
suggestion is of the text on disk rests on `PagesInv`: a page begins a run only
with the lines of the version it names, and a poll looks at a run that was begun.

**Hand edits (`ToolProofs`).** `EditInv` ties an editor's position to its two locks
(`EdLocks`: the row's from its look at the row, the path's from before the mark),
to the mark (`EdMarks`) and to the file (`EdFile`). Marking comes before writing
and clearing after it, but that alone does not make `EditIsMarked` inductive: a
failed edit restores the mark it found, so the invariant says that the mark to be
restored covers the file if that is edited. Past the second look no trip can be
admitted, and the sweep and the backfill need the path lock, so the file is still
the one the page showed when it is replaced (`EditsReplaceTheShown`). `Quiet` is
the other side: nobody but an editor is ever at an edited file, which is
`EditsAreKept`. `EditConfigured` rules out that the stat after the rename fails:
the code then takes an edit that is in place for undone and restores the mark
(section 3).

**The parts together (`FetchProofs`, `BesideProofs`).** The constants that these
components depend on are CONSTANTS of `MCFetch` and `MCBeside` and get their
values in the `.cfg`. `FetchScanIsHonest`, `FetchDispatchIsSound`,
`FetchClientsAreSound`, `BesideFlacCacheIsSound`, `BesideReportsAgree`,
`BesideWritesAreSafe`, `BesideLifecycleIsSound`, `BesideAutoRunsAreSound` and
`BesideHandEditIsSafe` state, for every value of them, the very properties that
the runs check. A behaviour stays in its part (`PartStays`), and on that part each
operator of the component as the instance sees it is the operator as its proof
module sees it (`ScanPart`, `LanesPart`, ...).

**Only model-checked.** Liveness under fairness is outside the prover:
`ClaimReturns`, `WorkIsServed`, `RunsEnd`. What a recursive computation yields for
every input would need induction over data: `BreakerIsExact`'s window is checked
against `Doubled` through eight trips. Of the action properties of `fetch`,
`AdoptionIsSafe` and `ScheduleIsSound`, and of `beside`, `PruneIsSafe`,
`RealignIsSafe`, `MarksAreSafe`, `PurgeIsSafe`, `IdentityIsSafe`,
`InstrumentalsAreSafe`, `AccessIsSound` and `SettingsAreSound` are checked and not
proved.

## 5. Abstractions and what is left out

* Time is the bit `due` in the queue; hold periods, cooldowns and generations of
  the sweeps decide only whether a candidate is offered, and every candidate may
  be. Integer time appears where it matters: `Schedule`, `Pacer`, and as windows
  in `Circuit`.
* A lyric, a file or a tag is its version, source or rank: the text is never
  looked into. Text formats, normalisation of LRC, timing analysis, tag parsing
  and the requests of the provider clients are pure functions or I/O; what they
  return is a choice of the actions.
* In `Serve` which due row is claimed is left open (that is `Lookahead`'s), each
  identity has one output path (the second appears as `failAfterWrite`), the title
  rule has no transition that the word recheck, the upgrade trip and the marker
  do not have, and a forced `--update` overwrite is left out. A manual mark's own
  marker file is not on `disk` (it is in `ManualMark`). `instrumental_result` 0
  and NULL are one value. One enqueuer and one backfill candidate at a time, as in
  the code.
* `LyricBlock` leaves out the options to skip blocking, to vet and to refuse
  hand-edited files, and `AnyBlocked` failing open on a read error. The re-keying
  of blocks is in `Identity`, where a reader may ask whether an edition's block
  follows; that every file of an identity ends under one key is not checked.
* `WorkQueue.Next` has the transactions of the queue package that move status,
  budgets and re-trip marks, and prune's retirement and relinks. The other writers of
  the two tables are steps of the module of what they do: the block's settle and
  reopening (`settle_blocked.go`, `lyricblock/mark.go`) in `LyricBlock`; re-keying,
  merging and splitting (`identityrepair`, `titlerepair`) in `Identity`;
  `ApplyRemediated` (`reconcile_remediated.go`) in `Reports`; moves to a new path and adopted inserts (`enqueue_move.go`, `adopt.go`) in
  `Adopt`; deletions and the paths and links that prune moves (`prune.go`) in `Prune`;
  the requeue of a purge (`purgeprovenance.go`) in `Purge`; the edit mark
  (`lyric_edit.go`) in `HandEdit`. `WorkQueue`'s `manual` stands for
  `manual_instrumental_at` alone.
* Not modelled among those writers: `StampUnclassifiedMiss`, the stamps of sync tier,
  upstream, timing outcome and provenance (`sync_tier.go`, `reconcile_upstream.go`),
  the index's fill of recording ids (`metaindex/fill.go`) and prune's repair of output
  paths (`prune/repair.go`). None of them changes a column that `row` has. The tier,
  upstream and word-sync repairs share `Identity`'s transactions and have no module.
* `Access` leaves out the attempts to change a password, which share the limiter's
  table under keys of their own; `AutoRuns` leaves out a running run's refresh with
  another file time.
* Dry runs, `--limit`, scoped runs and report writers only choose or describe
  rows; the directory walk of the scanner and the report of prune are left out.
* Left out as components: LRC normalisation and timing, media and text helpers,
  migrations and wiring, TLS and trusted networks, and the pages that only read.
  `PROJECT.json` lists them with their packages.

## 6. Plan

What the components need next is proof, in this order:

1. `Purge`: a restored original is not marked (`RestoredIsUnmarked`).
2. `Access`: no session outlives its credential, for any number of requests.
3. `Realign`: nothing is destroyed and nothing overwritten (`NothingDestroyed`,
   `NeverClobbers`).

And one model: `AnyBlocked` failing open, with the property that a blocked lyric
is written only in that case.
