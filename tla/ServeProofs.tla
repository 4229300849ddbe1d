---------------------------- MODULE ServeProofs ----------------------------
(***************************************************************************)
(* TLAPS proofs about the queue and the serve process, for every set of    *)
(* rows, files and libraries, every bound and every choice of features.    *)
(*                                                                         *)
(* First the tables of WorkQueue: an action writes one row (Quietly,       *)
(* Answering, Write with MoveLinked) or deletes rows, so a lemma per shape *)
(* of write says that a good record written to a good queue leaves it      *)
(* good, and the step proof shows, action by action, that the record is    *)
(* good.                                                                   *)
(*                                                                         *)
(* Then Serve.  Every step of the process is a step of WorkQueue, so what  *)
(* is shown of the tables holds of every run of the process.  On top of    *)
(* that: the worker owns the row it holds, and a word recheck never        *)
(* reaches an ordinary state.                                              *)
(*                                                                         *)
(* Last, what the process leaves behind: a re-trip spends no miss of its   *)
(* row's budget, a done row's file record describes the file on disk, and  *)
(* a scan result in 'processing' is somebody's.  Moves says what any one   *)
(* step may do to one row.  It is shown once, for every step of the        *)
(* process, and the first two properties are read off it.  The third       *)
(* follows the ledger through every kind of transaction.                   *)
(***************************************************************************)
EXTENDS Serve, TLAPS

-----------------------------------------------------------------------------
(* WorkQueue: what every transaction keeps of the tables. *)

(* The per-row part of Inv. *)
RowOK(w) ==
    /\ w.status \in Settled => ~w.upg /\ (w.waits = 0 \/ w.gone = "pruned")
    /\ ~(w.upg /\ w.word = "queued")
    /\ w.manual => w.status = "done" /\ ~w.inst
    /\ w.gone = "pruned" => w.status = "done"

GoodRow(w) == w \in Row /\ RowOK(w)

(* A record an action may write: good, and not the deletion of a row. *)
Writable(w) == GoodRow(w) /\ w.status # "absent"

(* Inv is TypeOK and RowOK of every row. *)
LEMMA InvIsRowOK == Inv <=> TypeOK /\ \A r \in Rows : RowOK(row[r])
BY
   DEF Inv, TripDisarmed, SettledBudgetFresh, ManualMarkSticks,
       MarkedNotDetected, PrunedIsDone, RowOK

LEMMA NoWorkGood == GoodRow(NoWork) /\ Writable(NewWork)
<1>0. 0 \in 0..MaxWaits /\ 0 \in 0..AttCap /\ 0 \in 0..MissCap
  BY MaxWaitsAssumption, AttCapAssumption, MissCapAssumption
<1>1. NoWork \in Row
  BY <1>0 DEF NoWork, Row, RowStatus, Eligible, Settled, WordState, Outcome, Gone
<1>2. NewWork \in Row
  BY <1>1 DEF NewWork, Row, RowStatus, Eligible
<1>3. RowOK(NoWork) /\ RowOK(NewWork) /\ NewWork.status # "absent"
  BY DEF RowOK, NewWork, NoWork, Settled
<1> QED BY <1>1, <1>2, <1>3 DEF GoodRow, Writable

(* Writing a good record, and moving scan results that exist among the      *)
(* states a result may have, keeps the queue good.                          *)
LEMMA WriteKeepsInv ==
    ASSUME Inv, NEW r \in Rows, NEW w, Writable(w), Write(r, w),
           scan' \in [Scans -> ScanStatus],
           \A s \in Scans : scan'[s] = "absent" <=> scan[s] = "absent",
           UNCHANGED <<link, key>>
    PROVE  Inv'
<1>1. \A q \in Rows : row'[q] = IF q = r THEN w ELSE row[q]
  BY InvIsRowOK DEF Write, TypeOK
<1>2. TypeOK'
  BY <1>1, InvIsRowOK DEF TypeOK, Write, Writable, GoodRow
<1>3. \A q \in Rows : RowOK(row'[q])
  BY <1>1, InvIsRowOK DEF Writable, GoodRow
<1> QED BY <1>2, <1>3
   DEF Inv, TripDisarmed, SettledBudgetFresh, ManualMarkSticks,
       MarkedNotDetected, PrunedIsDone, RowOK

LEMMA QuietlyKeepsInv ==
    ASSUME Inv, NEW r \in Rows, NEW w, Writable(w), Quietly(r, w)
    PROVE  Inv'
BY WriteKeepsInv DEF Quietly, Inv, TypeOK

LEMMA AnsweringKeepsInv ==
    ASSUME Inv, NEW r \in Rows, NEW w, Writable(w), Answering(r, w)
    PROVE  Inv'
<1>1. scan' \in [Scans -> ScanStatus]
  BY DEF Answering, writeBackScanResultsDone, Inv, TypeOK, ScanStatus
<1>2. \A s \in Scans : scan'[s] = "absent" <=> scan[s] = "absent"
  BY DEF Answering, writeBackScanResultsDone, Owned
<1> QED BY <1>1, <1>2, WriteKeepsInv DEF Answering

LEMMA MovingKeepsInv ==
    ASSUME Inv, NEW r \in Rows, NEW w, Writable(w), Write(r, w),
           NEW from, NEW to \in ScanStatus \ {"absent"}, "absent" \notin from,
           MoveLinked(r, from, to), UNCHANGED <<link, key>>
    PROVE  Inv'
<1>1. scan' \in [Scans -> ScanStatus]
  BY DEF MoveLinked, Inv, TypeOK
<1>2. \A s \in Scans : scan'[s] = "absent" <=> scan[s] = "absent"
  BY DEF MoveLinked
<1> QED BY <1>1, <1>2, WriteKeepsInv

-----------------------------------------------------------------------------
(* The counters stay within their bounds. *)
LEMMA CounterFacts ==
    /\ 0 \in 0..MaxWaits /\ 0 \in 0..AttCap /\ 0 \in 0..MissCap
    /\ \A n \in 0..AttCap : Bump(n, AttCap) \in 0..AttCap
    /\ \A n \in 0..MissCap : Bump(n, MissCap) \in 0..MissCap
    /\ \A n \in 0..MaxWaits : n < MaxWaits => n + 1 \in 0..MaxWaits
BY MaxWaitsAssumption, AttCapAssumption, MissCapAssumption DEF Bump

(* A write that also links the row to a result that exists. *)
LEMMA LinkKeepsInv ==
    ASSUME Inv, NEW r \in Rows, NEW s \in Scans, NEW w, Writable(w), Write(r, w),
           scan' \in [Scans -> ScanStatus], scan[s] # "absent",
           \A t \in Scans : scan'[t] = "absent" <=> scan[t] = "absent",
           link' = link \cup {<<r, s>>}, key' = key
    PROVE  Inv'
<1>1. \A q \in Rows : row'[q] = IF q = r THEN w ELSE row[q]
  BY InvIsRowOK DEF Write, TypeOK
<1>2. row' \in [Rows -> Row] /\ link' \subseteq Rows \X Scans /\ key' \in [Scans -> Rows]
  BY <1>1, InvIsRowOK DEF TypeOK, Write, Writable, GoodRow
<1>3. ASSUME NEW q \in Rows, NEW t \in Scans, <<q, t>> \in link'
      PROVE  row'[q].status # "absent" /\ scan'[t] # "absent"
  <2>1. CASE <<q, t>> \in link
    BY <1>1, <2>1, InvIsRowOK DEF TypeOK, Writable
  <2>2. CASE q = r /\ t = s
    BY <1>1, <2>2 DEF Writable
  <2> QED BY <1>3, <2>1, <2>2
<1>4. \A q \in Rows : RowOK(row'[q])
  BY <1>1, InvIsRowOK DEF Writable, GoodRow
<1> QED BY <1>2, <1>3, <1>4
        DEF Inv, TypeOK, TripDisarmed, SettledBudgetFresh, ManualMarkSticks, MarkedNotDetected, PrunedIsDone, RowOK

(* Deleting rows keeps the others as they were. *)
LEMMA DeletedKeepsInv ==
    ASSUME Inv, NEW D,
           row' = [r \in Rows |-> IF r \in D THEN NoWork ELSE row[r]],
           scan' \in [Scans -> ScanStatus], link' \subseteq link, key' = key,
           \A r \in Rows, s \in Scans :
              <<r, s>> \in link' => row'[r].status # "absent" /\ scan'[s] # "absent"
    PROVE  Inv'
<1>1. \A r \in Rows : GoodRow(row'[r])
  BY NoWorkGood, InvIsRowOK DEF TypeOK, GoodRow
<1>2. row' \in [Rows -> Row] /\ link' \subseteq Rows \X Scans /\ key' \in [Scans -> Rows]
  BY <1>1, InvIsRowOK DEF TypeOK, GoodRow
<1> QED BY <1>1, <1>2
        DEF Inv, TypeOK, TripDisarmed, SettledBudgetFresh, ManualMarkSticks, MarkedNotDetected, PrunedIsDone, GoodRow,
            RowOK

LEMMA DeleteKeepsInv ==
    ASSUME Inv, NEW D, DeleteResetting(D)
    PROVE  Inv'
<1>1. scan' \in [Scans -> ScanStatus]
  BY DEF DeleteResetting, Inv, TypeOK, ScanStatus
<1>2. \A s \in Scans : scan'[s] = "absent" <=> scan[s] = "absent"
  BY DEF DeleteResetting
<1>3. /\ row' = [r \in Rows |-> IF r \in D THEN NoWork ELSE row[r]]
      /\ link' = {l \in link : l[1] \notin D} /\ key' = key
  BY DEF DeleteResetting
<1>4. \A r \in Rows, s \in Scans :
         <<r, s>> \in link' => row'[r].status # "absent" /\ scan'[s] # "absent"
  BY <1>2, <1>3, InvIsRowOK DEF TypeOK
<1> QED BY <1>1, <1>3, <1>4, DeletedKeepsInv

(* The claim, the worker's stamps and its settlements keep Inv. *)
LEMMA WorkerStepInv ==
    ASSUME Inv, NEW r \in Rows, WorkerStep(r)
    PROVE  Inv'
<1> DEFINE w == row[r]
<1>0. w \in Row /\ RowOK(w)
  BY InvIsRowOK DEF TypeOK
<1>a. /\ w.status \in RowStatus /\ w.prev \in Eligible /\ w.waits \in 0..MaxWaits
      /\ w.att \in 0..AttCap /\ w.miss \in 0..MissCap
  BY <1>0 DEF Row
<1>1. CASE Dequeue(r)
  <2>1. Writable([w EXCEPT !.status = "processing", !.prev = w.status])
    BY <1>0, <1>a, <1>1
       DEF Dequeue, Writable, GoodRow, RowOK, Row, RowStatus, Eligible, Settled
  <2> QED BY <2>1, <1>1, QuietlyKeepsInv DEF Dequeue
<1>2. ASSUME NEW o \in Verdicts, SetOutcomeType(r, o)
       PROVE  Inv'
  <2>1. Writable([w EXCEPT !.out = o])
    BY <1>0, <1>a, <1>2, VerdictsAssumption
       DEF SetOutcomeType, Writable, GoodRow, RowOK, Row, RowStatus, Eligible,
           Settled, Outcome
  <2> QED BY <2>1, <1>2, QuietlyKeepsInv DEF SetOutcomeType
<1>3. ASSUME NEW st, SetWordTimingState(r, st)
       PROVE  Inv'
  <2>1. Writable([w EXCEPT !.word = st])
    BY <1>0, <1>a, <1>3
       DEF SetWordTimingState, Writable, GoodRow, RowOK, Row, RowStatus,
           Eligible, Settled, WordState
  <2> QED BY <2>1, <1>3, QuietlyKeepsInv DEF SetWordTimingState
<1>4. CASE ClearWordTimingState(r)
  <2>1. Writable([w EXCEPT !.word = "null"])
    BY <1>0, <1>a, <1>4
       DEF ClearWordTimingState, Writable, GoodRow, RowOK, Row, RowStatus,
           Eligible, Settled, WordState
  <2> QED BY <2>1, <1>4, QuietlyKeepsInv DEF ClearWordTimingState
<1>5. CASE SetInstrumentalResult(r)
  <2>1. Writable([w EXCEPT !.inst = FALSE])
    BY <1>0, <1>a, <1>5
       DEF SetInstrumentalResult, Writable, GoodRow, RowOK, Row, RowStatus,
           Eligible, Settled
  <2> QED BY <2>1, <1>5, QuietlyKeepsInv DEF SetInstrumentalResult
<1>6. CASE Complete(r)
  <2>1. Writable([SettledAs(w, "done") EXCEPT !.gone = "no"])
    BY <1>0, <1>a, <1>6, CounterFacts
       DEF Complete, SettledAs, Writable, GoodRow, RowOK, Row, Settled, Held,
           RowStatus, Gone
  <2> QED BY <2>1, <1>6, AnsweringKeepsInv DEF Complete
<1>7. CASE SettleInstrumental(r, "processing")
  <2>1. Writable([SettledAs(w, "done") EXCEPT !.inst = TRUE, !.out = "detector",
                                                 !.gone = ErrorCleared(w.gone)])
    BY <1>0, <1>a, <1>7, CounterFacts
       DEF SettleInstrumental, SettledAs, Writable, GoodRow, RowOK, Row, Settled,
           RowStatus, Gone, Outcome, ErrorCleared
  <2> QED BY <2>1, <1>7, AnsweringKeepsInv DEF SettleInstrumental
<1>8. CASE SettleGuardRejected(r)
  <2>1. Writable([SettledAs(w, "done") EXCEPT !.out = "rejected",
                                                 !.gone = ErrorCleared(w.gone)])
    BY <1>0, <1>a, <1>8, CounterFacts
       DEF SettleGuardRejected, SettledAs, Writable, GoodRow, RowOK, Row,
           Settled, RowStatus, Gone, Outcome, ErrorCleared
  <2> QED BY <2>1, <1>8, AnsweringKeepsInv DEF SettleGuardRejected
<1>9. CASE Release(r)
  <2>1. Writable([w EXCEPT !.status = w.prev])
    BY <1>0, <1>a, <1>9
       DEF Release, Writable, GoodRow, RowOK, Row, RowStatus, Eligible, Settled,
           Held
  <2> QED BY <2>1, <1>9, QuietlyKeepsInv DEF Release
<1>10. CASE ReleaseUntil(r)
  <2>1. Writable([w EXCEPT !.status = w.prev, !.due = FALSE])
    BY <1>0, <1>a, <1>10
       DEF ReleaseUntil, Writable, GoodRow, RowOK, Row, RowStatus, Eligible,
           Settled, Held
  <2> QED BY <2>1, <1>10, QuietlyKeepsInv DEF ReleaseUntil
<1>11. CASE Fail(r)
  <2>1. Writable([w EXCEPT !.status = "failed", !.due = FALSE,
                            !.att = Bump(w.att, AttCap)])
    BY <1>0, <1>a, <1>11, CounterFacts
       DEF Fail, Writable, GoodRow, RowOK, Row, RowStatus, Eligible, Settled,
           Held
  <2> QED BY <2>1, <1>11, MovingKeepsInv DEF Fail, ScanStatus
<1>12. CASE Defer(r)
  <2>1. Writable([w EXCEPT !.status = "deferred", !.due = FALSE,
                            !.miss = Bump(w.miss, MissCap)])
    BY <1>0, <1>a, <1>12, CounterFacts
       DEF Defer, Writable, GoodRow, RowOK, Row, RowStatus, Eligible, Settled,
           Held
  <2> QED BY <2>1, <1>12, QuietlyKeepsInv DEF Defer
<1>13. CASE DeferRefused(r)
  <2>1. Writable([w EXCEPT !.status = "deferred", !.due = FALSE,
                            !.waits = w.waits + 1])
    BY <1>0, <1>a, <1>13, CounterFacts
       DEF DeferRefused, Writable, GoodRow, RowOK, Row, RowStatus, Eligible,
           Settled, Held
  <2> QED BY <2>1, <1>13, QuietlyKeepsInv DEF DeferRefused
<1>14. CASE RetireMiss(r)
  <2>1. Writable(SettledAs(w, "unavailable"))
    BY <1>0, <1>a, <1>14, CounterFacts
       DEF RetireMiss, SettledAs, Writable, GoodRow, RowOK, Row, Settled, Held,
           RowStatus
  <2> QED BY <2>1, <1>14, AnsweringKeepsInv DEF RetireMiss
<1> QED BY <1>1, <1>2, <1>3, <1>4, <1>5, <1>6, <1>7, <1>8, <1>9, <1>10, <1>11, <1>12, <1>13, <1>14
   DEF WorkerStep

(* Word rechecks and upgrade trips keep Inv. *)
LEMMA ReTripStepInv ==
    ASSUME Inv, NEW r \in Rows, ReTripStep(r)
    PROVE  Inv'
<1> DEFINE w == row[r]
<1>0. w \in Row /\ RowOK(w)
  BY InvIsRowOK DEF TypeOK
<1>a. /\ w.status \in RowStatus /\ w.prev \in Eligible /\ w.waits \in 0..MaxWaits
      /\ w.att \in 0..AttCap /\ w.miss \in 0..MissCap
  BY <1>0 DEF Row
<1>1. CASE MarkWordRecheckQueued(r)
  <2>1. Writable([w EXCEPT !.status = "deferred", !.due = TRUE, !.att = 0,
                            !.waits = 0, !.word = "queued"])
    BY <1>0, <1>a, <1>1, CounterFacts
       DEF MarkWordRecheckQueued, Writable, GoodRow, RowOK, Row, RowStatus,
           Eligible, Settled, WordCandidate, Sentinel, WordState
  <2> QED BY <2>1, <1>1, QuietlyKeepsInv DEF MarkWordRecheckQueued
<1>2. ASSUME NEW st, SettleWordRecheck(r, st)
       PROVE  Inv'
  <2>1. Writable([SettledAs(w, "done") EXCEPT !.word = st])
    BY <1>0, <1>a, <1>2, CounterFacts
       DEF SettleWordRecheck, SettledAs, Writable, GoodRow, RowOK, Row, Settled,
           wordRecheckOwned, Held, RowStatus, WordState
  <2> QED BY <2>1, <1>2, AnsweringKeepsInv DEF SettleWordRecheck
<1>3. ASSUME NEW m \in {0, MaxWaits}, DeferWordRecheck(r, m)
       PROVE  Inv'
  <2>1. CASE w.waits >= m
    <3>1. Writable([SettledAs(w, "done") EXCEPT !.word = "null"])
      BY <1>0, <1>a, <1>3, CounterFacts
         DEF DeferWordRecheck, wordRecheckOwned, Held, SettledAs, Writable, GoodRow,
             RowOK, Row, RowStatus, Settled, WordState
    <3> QED BY <3>1, <2>1, <1>3, AnsweringKeepsInv DEF DeferWordRecheck
  <2>2. CASE ~(w.waits >= m)
    <3>1. w.waits + 1 \in 0..MaxWaits
      BY <1>a, <2>2, MaxWaitsAssumption
    <3>2. Writable([w EXCEPT !.status = "deferred", !.due = FALSE, !.waits = w.waits + 1])
      BY <1>0, <1>a, <1>3, <3>1
         DEF DeferWordRecheck, wordRecheckOwned, Held, Writable, GoodRow, RowOK, Row,
             RowStatus, Eligible, Settled
    <3> QED BY <3>2, <2>2, <1>3, QuietlyKeepsInv DEF DeferWordRecheck
  <2> QED BY <2>1, <2>2
<1>4. CASE RetryWordRecheckWrite(r)
  <2>1. Writable([w EXCEPT !.status = "deferred", !.due = FALSE])
    BY <1>0, <1>a, <1>4
       DEF RetryWordRecheckWrite, Writable, GoodRow, RowOK, Row, RowStatus,
           Eligible, Settled, wordRecheckOwned, Held
  <2> QED BY <2>1, <1>4, QuietlyKeepsInv DEF RetryWordRecheckWrite
<1>5. CASE MarkUpgradeQueued(r)
  <2>1. Writable([w EXCEPT !.status = "pending", !.due = TRUE, !.att = 0,
                            !.waits = 0, !.upg = TRUE])
    BY <1>0, <1>a, <1>5, CounterFacts
       DEF MarkUpgradeQueued, Writable, GoodRow, RowOK, Row, RowStatus, Eligible,
           Settled, UpgradeCandidate, Sentinel
  <2> QED BY <2>1, <1>5, QuietlyKeepsInv DEF MarkUpgradeQueued
<1>6. CASE SettleUpgradeTrip(r)
  <2>1. Writable([SettledAs(w, "done") EXCEPT !.att = 0])
    BY <1>0, <1>a, <1>6, CounterFacts
       DEF SettleUpgradeTrip, SettledAs, Writable, GoodRow, RowOK, Row, Settled,
           Held, RowStatus
  <2> QED BY <2>1, <1>6, QuietlyKeepsInv DEF SettleUpgradeTrip
<1>7. ASSUME NEW c \in BOOLEAN, SettleGoneUpgradeTrip(r, c)
       PROVE  Inv'
  <2> DEFINE v == [SettledAs(w, "done") EXCEPT
                      !.att = 0, !.gone = IF c THEN "retired" ELSE "seen"]
  <2>1. Writable(v)
    BY <1>0, <1>a, <1>7, CounterFacts
       DEF SettleGoneUpgradeTrip, Held, SettledAs, Writable, GoodRow, RowOK, Row,
           RowStatus, Settled, Gone
  <2>2. Quietly(r, v) \/ Answering(r, v)
    BY <1>7 DEF SettleGoneUpgradeTrip
  <2> QED BY <2>1, <2>2, QuietlyKeepsInv, AnsweringKeepsInv
<1>8. CASE ClearSourceGone(r)
  <2>1. Writable([w EXCEPT !.gone = "no"])
    BY <1>0, <1>a, <1>8
       DEF ClearSourceGone, Writable, GoodRow, RowOK, Row, RowStatus, Eligible,
           Settled, Gone
  <2> QED BY <2>1, <1>8, QuietlyKeepsInv DEF ClearSourceGone
<1> QED BY <1>1, <1>2, <1>3, <1>4, <1>5, <1>6, <1>7, <1>8 DEF ReTripStep

(* Time, reopens, and the operator's and the backfill's writes keep Inv. *)
LEMMA OtherStepInv ==
    ASSUME Inv, NEW r \in Rows, OtherStep(r)
    PROVE  Inv'
<1> DEFINE w == row[r]
<1>0. w \in Row /\ RowOK(w)
  BY InvIsRowOK DEF TypeOK
<1>a. /\ w.status \in RowStatus /\ w.prev \in Eligible /\ w.waits \in 0..MaxWaits
      /\ w.att \in 0..AttCap /\ w.miss \in 0..MissCap
  BY <1>0 DEF Row
<1>1. CASE Tick(r)
  <2>1. Writable([w EXCEPT !.due = TRUE])
    BY <1>0, <1>a, <1>1
       DEF Tick, Writable, GoodRow, RowOK, Row, RowStatus, Eligible, Settled
  <2> QED BY <2>1, <1>1, QuietlyKeepsInv DEF Tick
<1>2. CASE ReopenDoneRowTx(r)
  <2>1. Writable(Reopened(w))
    BY <1>0, <1>a, <1>2, CounterFacts
       DEF ReopenDoneRowTx, Writable, GoodRow, RowOK, Row, RowStatus, Eligible,
           Settled, CanReopen, Reopened, Unqueued, WordState, Outcome, Gone
  <2> QED BY <2>1, <1>2, QuietlyKeepsInv DEF ReopenDoneRowTx
<1>3. CASE SettleInstrumental(r, "deferred")
  <2>1. Writable([SettledAs(w, "done") EXCEPT !.inst = TRUE, !.out = "detector",
                                                 !.gone = ErrorCleared(w.gone)])
    BY <1>0, <1>a, <1>3, CounterFacts
       DEF SettleInstrumental, SettledAs, Writable, GoodRow, RowOK, Row, Settled,
           RowStatus, Gone, Outcome, ErrorCleared
  <2> QED BY <2>1, <1>3, AnsweringKeepsInv DEF SettleInstrumental
<1>4. CASE Retry(r)
  <2>1. Writable([w EXCEPT !.status = "pending", !.due = TRUE, !.att = 0,
                            !.word = Unqueued(w.word)])
    BY <1>0, <1>a, <1>4, CounterFacts
       DEF Retry, Writable, GoodRow, RowOK, Row, RowStatus, Eligible, Settled,
           Unqueued, WordState
  <2> QED BY <2>1, <1>4, MovingKeepsInv DEF Retry, ScanStatus
<1>5. CASE Cleanup(r)
  BY <1>5, DeleteKeepsInv DEF Cleanup
<1>6. CASE RecheckDeferred(r)
  <2>1. Writable([w EXCEPT !.due = TRUE])
    BY <1>0, <1>a, <1>6
       DEF RecheckDeferred, Writable, GoodRow, RowOK, Row, RowStatus, Eligible,
           Settled
  <2> QED BY <2>1, <1>6, QuietlyKeepsInv DEF RecheckDeferred
<1>7. ASSUME NEW ls, RecheckRetired(r, ls)
       PROVE  Inv'
  <2>1. Writable([w EXCEPT !.status = "deferred", !.due = TRUE, !.waits = 0,
                            !.word = Unqueued(w.word)])
    BY <1>0, <1>a, <1>7, CounterFacts
       DEF RecheckRetired, Writable, GoodRow, RowOK, Row, RowStatus, Eligible, Settled,
           Unqueued, WordState
  <2>2. scan' \in [Scans -> ScanStatus]
    BY <1>7 DEF RecheckRetired, Inv, TypeOK, ScanStatus
  <2>3. \A s \in Scans : scan'[s] = "absent" <=> scan[s] = "absent"
    BY <1>7 DEF RecheckRetired
  <2> QED BY <2>1, <2>2, <2>3, <1>7, WriteKeepsInv DEF RecheckRetired
<1>8. CASE ResetInstrumental(r)
  <2>1. Writable([w EXCEPT !.status = "deferred", !.due = TRUE, !.waits = 0,
                            !.inst = FALSE, !.out = "null",
                            !.gone = ErrorCleared(w.gone), !.word = Unqueued(w.word)])
    BY <1>0, <1>a, <1>8, CounterFacts
       DEF ResetInstrumental, Writable, GoodRow, RowOK, Row, RowStatus, Eligible,
           Settled, Unqueued, WordState, Outcome, ErrorCleared, Gone
  <2> QED BY <2>1, <1>8, MovingKeepsInv DEF ResetInstrumental, ScanStatus
<1>9. CASE UnsettleInstrumental(r)
  <2>1. Writable([w EXCEPT !.status = "deferred", !.due = TRUE, !.waits = 0,
                            !.inst = FALSE, !.out = "null",
                            !.gone = ErrorCleared(w.gone), !.word = Unqueued(w.word)])
    BY <1>0, <1>a, <1>9, CounterFacts
       DEF UnsettleInstrumental, Writable, GoodRow, RowOK, Row, RowStatus,
           Eligible, Settled, Unqueued, WordState, Outcome, ErrorCleared, Gone
  <2> QED BY <2>1, <1>9, QuietlyKeepsInv DEF UnsettleInstrumental
<1>10. CASE MarkManualInstrumentalTx(r)
  <2>1. Writable([SettledAs(w, "done") EXCEPT !.manual = TRUE, !.out = "manual",
                                                 !.inst = FALSE, !.word = "null",
                                                 !.gone = ErrorCleared(w.gone)])
    BY <1>0, <1>a, <1>10, CounterFacts
       DEF MarkManualInstrumentalTx, SettledAs, Writable, GoodRow, RowOK, Row,
           Settled, RowStatus, WordState, Outcome, ErrorCleared, Gone
  <2> QED BY <2>1, <1>10, AnsweringKeepsInv DEF MarkManualInstrumentalTx
<1>11. CASE UnmarkManualInstrumentalTx(r)
  <2>1. Writable([w EXCEPT !.manual = FALSE, !.status = "deferred",
                            !.out = "null", !.due = TRUE, !.att = 0, !.waits = 0,
                            !.gone = ErrorCleared(w.gone)])
    BY <1>0, <1>a, <1>11, CounterFacts
       DEF UnmarkManualInstrumentalTx, Writable, GoodRow, RowOK, Row, RowStatus,
           Eligible, Settled, Outcome, ErrorCleared, Gone
  <2> QED BY <2>1, <1>11, MovingKeepsInv DEF UnmarkManualInstrumentalTx, ScanStatus
<1>12. CASE retireUnresolvable(r)
  <2>1. Writable([w EXCEPT !.status = "done", !.upg = FALSE, !.gone = "pruned"])
    BY <1>0, <1>a, <1>12
       DEF retireUnresolvable, Writable, GoodRow, RowOK, Row, RowStatus, Eligible,
           Settled, Gone
  <2> QED BY <2>1, <1>12, QuietlyKeepsInv DEF retireUnresolvable
<1>13. CASE relinkResurrect(r)
  <2>1. Writable([w EXCEPT !.status = "pending", !.due = TRUE, !.att = 0,
                            !.out = "null", !.gone = "no", !.word = Unqueued(w.word)])
    BY <1>0, <1>a, <1>13, CounterFacts
       DEF relinkResurrect, Writable, GoodRow, RowOK, Row, RowStatus, Eligible,
           Settled, Gone, Unqueued, WordState, Outcome
  <2> QED BY <2>1, <1>13, QuietlyKeepsInv DEF relinkResurrect
<1>14. CASE relinkUnretire(r)
  <2>1. Writable([w EXCEPT !.gone = "no"])
    BY <1>0, <1>a, <1>14
       DEF relinkUnretire, Writable, GoodRow, RowOK, Row, Settled, Gone
  <2> QED BY <2>1, <1>14, QuietlyKeepsInv DEF relinkUnretire
<1> QED BY <1>1, <1>2, <1>3, <1>4, <1>5, <1>6, <1>7, <1>8, <1>9, <1>10, <1>11,
          <1>12, <1>13, <1>14
   DEF OtherStep

(* The record an enqueue leaves is good: a reopened row has no trip left,    *)
(* and the upsert's CASE keeps the status of a row it does not create.       *)
LEMMA UpsertedGood ==
    ASSUME NEW w \in Row, RowOK(w), NEW webhook \in BOOLEAN
    PROVE  Writable(Upserted(w, webhook))
<1>1. CASE w.status = "absent"
  BY <1>1, NoWorkGood DEF Upserted
<1>2. CASE w.status = "pending"
  BY <1>2 DEF Upserted, Writable, GoodRow, RowOK, Row, Settled
<1>3. CASE w.status \in {"failed", "deferred"}
  BY <1>3 DEF Upserted, Writable, GoodRow, RowOK, Row, Settled
<1>4. CASE w.status \in {"processing", "done", "unavailable"}
  BY <1>4 DEF Upserted, Writable, GoodRow
<1> QED BY <1>1, <1>2, <1>3, <1>4 DEF Row, RowStatus, Eligible, Settled

LEMMA ReopenedGood ==
    ASSUME NEW w \in Row, RowOK(w), CanReopen(w)
    PROVE  GoodRow(Reopened(w))
BY CounterFacts DEF CanReopen, Reopened, Unqueued, GoodRow, RowOK, Row, RowStatus,
   Eligible, Settled, WordState, Outcome, Gone

(* The scan-origin reopens; a refused categorical reopen never gets here. *)
LEMMA ForScanGood ==
    ASSUME NEW r \in Rows, NEW s \in Scans, NEW c \in BOOLEAN,
           row[r] \in Row, RowOK(row[r]), c => ~EnqueueRefused(r, s)
    PROVE  GoodRow(ForScan(row[r], c))
<1> DEFINE v == reopenWordRecheckForScan(row[r])
<1>1. GoodRow(v)
  BY ReopenedGood DEF reopenWordRecheckForScan, GoodRow
<1>2. CASE c /\ v.out = "categorical" /\ v.status = "done"
  <2>1. CanReopen(v)
    BY <1>2 DEF EnqueueRefused, CategoricalRefused, Eligible
  <2> QED BY <1>1, <1>2, <2>1, ReopenedGood
     DEF ForScan, reopenCategoricalForScan, GoodRow
<1>3. CASE ~(c /\ v.out = "categorical" /\ v.status = "done")
  BY <1>1, <1>3 DEF ForScan, reopenCategoricalForScan
<1> QED BY <1>2, <1>3

(* Enqueues keep Inv: what they link exists. *)
LEMMA EnqueueStepInv ==
    ASSUME Inv, NEW r \in Rows, EnqueueStep(r)
    PROVE  Inv'
<1>0. row[r] \in Row /\ RowOK(row[r])
  BY InvIsRowOK DEF TypeOK
<1>1. ASSUME NEW s \in Scans, NEW c \in BOOLEAN, EnqueueScan(r, s, c)
      PROVE  Inv'
  <2> DEFINE w == Upserted(ForScan(row[r], c), FALSE)
  <2>1. Writable(w)
    BY <1>0, <1>1, ForScanGood, UpsertedGood DEF EnqueueScan, GoodRow
  <2>2. Write(r, w) /\ scan[s] # "absent"
    BY <1>1 DEF EnqueueScan
  <2>3. scan' \in [Scans -> ScanStatus]
    BY <1>1 DEF EnqueueScan, Inv, TypeOK, ScanStatus
  <2>4. \A t \in Scans : scan'[t] = "absent" <=> scan[t] = "absent"
    BY <1>1 DEF EnqueueScan, Inv, TypeOK
  <2>5. link' = link \cup {<<r, s>>} /\ key' = key
    BY <1>1 DEF EnqueueScan
  <2> HIDE DEF w
  <2> QED BY <2>1, <2>2, <2>3, <2>4, <2>5, LinkKeepsInv
<1>2. ASSUME NEW s \in Scans \cup {NoScan}, EnqueueWebhook(r, s)
      PROVE  Inv'
  <2> DEFINE w == Upserted(row[r], TRUE)
  <2>1. Writable(w)
    BY <1>0, UpsertedGood
  <2>2. Write(r, w) /\ UNCHANGED <<scan, key>>
    BY <1>2 DEF EnqueueWebhook
  <2>3. \/ link' = link
        \/ s \in Scans /\ scan[s] # "absent" /\ link' = link \cup {<<r, s>>}
    BY <1>2 DEF EnqueueWebhook
  <2>4. scan' \in [Scans -> ScanStatus]
    BY <2>2 DEF Inv, TypeOK
  <2> HIDE DEF w
  <2>5. CASE link' = link
    BY <2>1, <2>2, <2>4, <2>5, WriteKeepsInv
  <2>6. CASE s \in Scans /\ scan[s] # "absent" /\ link' = link \cup {<<r, s>>}
    BY <2>1, <2>2, <2>4, <2>6, LinkKeepsInv
  <2> QED BY <2>3, <2>5, <2>6
<1> QED BY <1>1, <1>2 DEF EnqueueStep

(* The scan repository, scan clear and the clearing of done rows keep Inv. *)
LEMMA LedgerStepInv ==
    ASSUME Inv, LedgerStep
    PROVE  Inv'
<1>0. TypeOK /\ \A r \in Rows : RowOK(row[r])
  BY InvIsRowOK
<1>1. ASSUME NEW s \in Scans, NEW r \in Rows, NEW f \in BOOLEAN, Upsert(s, r, f)
      PROVE  Inv'
  <2>1. TypeOK'
    BY <1>0, <1>1 DEF Upsert, TypeOK, ScanStatus
  <2> QED BY <1>0, <1>1, <2>1 DEF Upsert, Inv, TripDisarmed, SettledBudgetFresh,
                                ManualMarkSticks, MarkedNotDetected, PrunedIsDone
<1>2. ASSUME NEW s \in Scans, NEW st \in ScanStatus \ {"absent"}, SetStatus(s, st)
      PROVE  Inv'
  <2>1. TypeOK'
    BY <1>0, <1>2 DEF SetStatus, TypeOK
  <2> QED BY <1>0, <1>2, <2>1 DEF SetStatus, Inv, TripDisarmed, SettledBudgetFresh,
                                ManualMarkSticks, MarkedNotDetected, PrunedIsDone
<1>3. ASSUME NEW l \in Libs, NEW Kept \in SUBSET Rows, CancelByLibrary(l, Kept)
      PROVE  Inv'
  <2> DEFINE D == {r \in Rows : Cancellable(row[r]) /\ LinkedTo(r, l)} \ Kept
  <2>1. row' = [r \in Rows |-> IF r \in D THEN NoWork ELSE row[r]]
    BY <1>3 DEF CancelByLibrary
  <2>2. scan' \in [Scans -> ScanStatus]
    BY <1>0, <1>3 DEF CancelByLibrary, TypeOK, ScanStatus
  <2>3. \A s \in Scans : scan'[s] = "absent" => scan[s] = "absent" \/ LibOf[s] = l
    BY <1>3 DEF CancelByLibrary
  <2>4. link' = {p \in link : p[1] \notin D /\ LibOf[p[2]] # l} /\ key' = key
    BY <1>3 DEF CancelByLibrary
  <2>5. \A r \in Rows, s \in Scans :
          <<r, s>> \in link' => /\ row'[r].status # "absent"
                               /\ scan'[s] # "absent"
    BY <1>0, <2>1, <2>3, <2>4 DEF TypeOK
  <2> QED BY <1>0, <2>1, <2>2, <2>4, <2>5, DeletedKeepsInv
<1>4. CASE ClearDone
  <2> DEFINE D == {r \in Rows : row[r].status = "done" /\ ~row[r].manual}
  <2>1. /\ row' = [r \in Rows |-> IF r \in D THEN NoWork ELSE row[r]]
        /\ link' = {p \in link : p[1] \notin D}
        /\ UNCHANGED <<scan, key>>
    BY <1>4 DEF ClearDone
  <2>2. \A r \in Rows, s \in Scans :
          <<r, s>> \in link' => /\ row'[r].status # "absent"
                               /\ scan'[s] # "absent"
    BY <1>0, <2>1 DEF TypeOK
  <2> QED BY <1>0, <2>1, <2>2, DeletedKeepsInv DEF TypeOK
<1> QED BY <1>1, <1>2, <1>3, <1>4 DEF LedgerStep

-----------------------------------------------------------------------------
(* The main theorem: Inv is inductive. *)

LEMMA InitInv == Init => Inv
<1> SUFFICES ASSUME Init PROVE Inv
  OBVIOUS
<1>1. \A r \in Rows : row[r] = NoWork
  BY DEF Init
<1>2. TypeOK
  BY <1>1, NoWorkGood DEF Init, TypeOK, GoodRow, ScanStatus
<1>3. \A r \in Rows : RowOK(row[r])
  BY <1>1, NoWorkGood DEF GoodRow
<1> QED BY <1>2, <1>3, InvIsRowOK

LEMMA StepInv == Inv /\ [Next]_vars => Inv'
<1> SUFFICES ASSUME Inv, [Next]_vars PROVE Inv'
  OBVIOUS
<1>1. ASSUME NEW r \in Rows,
             WorkerStep(r) \/ ReTripStep(r) \/ OtherStep(r) \/ EnqueueStep(r)
      PROVE  Inv'
  BY <1>1, WorkerStepInv, ReTripStepInv, OtherStepInv, EnqueueStepInv
<1>2. CASE LedgerStep
  BY <1>2, LedgerStepInv
<1>3. CASE UNCHANGED vars
  BY <1>3
     DEF vars, Inv, TypeOK, TripDisarmed, SettledBudgetFresh, ManualMarkSticks,
         MarkedNotDetected, PrunedIsDone
<1> QED BY <1>1, <1>2, <1>3 DEF Next

(* Every reachable state of the queue satisfies the inductive invariant. *)
THEOREM QueueInvariant == Spec => []Inv
BY InitInv, StepInv, PTL DEF Spec

(* Rows, results and the junction keep their types, and the junction links   *)
(* only rows and results that exist (the two ON DELETE CASCADEs).            *)
THEOREM QueueTypes == Spec => []TypeOK
<1>1. Inv => TypeOK
  BY DEF Inv
<1> QED BY <1>1, QueueInvariant, PTL

(* No settled row carries an upgrade mark and no row is on two trips.        *)
THEOREM QueueTripDisarmed == Spec => []TripDisarmed
<1>1. Inv => TripDisarmed
  BY DEF Inv
<1> QED BY <1>1, QueueInvariant, PTL

(* A settled row has its whole wait budget back, unless prune retired it:    *)
(* that statement leaves refused_waits as it is.                             *)
THEOREM QueueBudgetFresh == Spec => []SettledBudgetFresh
<1>1. Inv => SettledBudgetFresh
  BY DEF Inv
<1> QED BY <1>1, QueueInvariant, PTL

(* A manual mark holds its row done until it is removed.                     *)
THEOREM QueueManualMark == Spec => []ManualMarkSticks
<1>1. Inv => ManualMarkSticks
  BY DEF Inv
<1> QED BY <1>1, QueueInvariant, PTL

-----------------------------------------------------------------------------
(* DoneIsHonest.  Only settlements (Answering) and a scan's enqueue turn a   *)
(* result done, and both look at every other linked row first.               *)

HonestStep ==
    \A s \in Scans : scan[s] # "done" /\ scan'[s] = "done"
        => NothingOwed(s)' \/ SetStatus(s, "done")

LEMMA AnsweringHonest ==
    ASSUME Inv, NEW r \in Rows, NEW w, w.status \in Settled, Answering(r, w)
    PROVE  HonestStep
<1> SUFFICES ASSUME NEW s \in Scans, scan[s] # "done", scan'[s] = "done"
             PROVE  NothingOwed(s)'
  BY DEF HonestStep
<1>1. NoLiveSibling(r, s) /\ link' = link
  BY DEF Answering, writeBackScanResultsDone, Owned
<1>2. \A q \in Rows : row'[q] = IF q = r THEN w ELSE row[q]
  BY DEF Answering, Write, Inv, TypeOK
<1>3. ~LiveOwner(w)
  BY DEF LiveOwner
<1>4. \A q \in Rows : <<q, s>> \in link => ~LiveOwner(row'[q])
  BY <1>1, <1>2, <1>3 DEF NoLiveSibling
<1> QED BY <1>1, <1>4 DEF NothingOwed, LiveOwner, ReTrip

(* A step that turns no result done is honest. *)
LEMMA NoneDoneHonest ==
    ASSUME \A s \in Scans : scan'[s] = "done" => scan[s] = "done"
    PROVE  HonestStep
BY DEF HonestStep

LEMMA SettledStatus ==
    ASSUME NEW w \in Row, NEW st
    PROVE  /\ SettledAs(w, st).status = st
           /\ \A g : [SettledAs(w, st) EXCEPT !.gone = g].status = st
           /\ \A x : [SettledAs(w, st) EXCEPT !.word = x].status = st
           /\ \A o, g : [SettledAs(w, st) EXCEPT !.out = o, !.gone = g].status = st
           /\ \A i, o, g : [SettledAs(w, st) EXCEPT !.inst = i, !.out = o,
                                                    !.gone = g].status = st
           /\ \A n, g : [SettledAs(w, st) EXCEPT !.att = n, !.gone = g].status = st
           /\ \A m, o, i, x, g : [SettledAs(w, st) EXCEPT !.manual = m, !.out = o,
                                     !.inst = i, !.word = x, !.gone = g].status = st
BY DEF SettledAs, Row

LEMMA WorkerStepHonest ==
    ASSUME Inv, NEW r \in Rows, WorkerStep(r)
    PROVE  HonestStep
<1>0. row[r] \in Row /\ "done" \in Settled /\ "unavailable" \in Settled
  BY DEF Inv, TypeOK, Settled
<1>1. ASSUME NEW v, v.status \in Settled, Answering(r, v)
      PROVE  HonestStep
  BY <1>1, AnsweringHonest
<1>4. CASE Complete(r)
  <2> DEFINE v == [SettledAs(row[r], "done") EXCEPT !.gone = "no"]
  <2>1. v.status \in Settled
    BY <1>0, SettledStatus
  <2>2. Answering(r, v)
    BY <1>4 DEF Complete
  <2> HIDE DEF v
  <2> QED BY <1>1, <2>1, <2>2
<1>5. CASE SettleInstrumental(r, "processing")
  <2> DEFINE v == [SettledAs(row[r], "done") EXCEPT
                     !.inst = TRUE, !.out = "detector",
                     !.gone = ErrorCleared(row[r].gone)]
  <2>1. v.status \in Settled
    BY <1>0, SettledStatus
  <2>2. Answering(r, v)
    BY <1>5 DEF SettleInstrumental
  <2> HIDE DEF v
  <2> QED BY <1>1, <2>1, <2>2
<1>6. CASE SettleGuardRejected(r)
  <2> DEFINE v == [SettledAs(row[r], "done") EXCEPT
                     !.out = "rejected", !.gone = ErrorCleared(row[r].gone)]
  <2>1. v.status \in Settled
    BY <1>0, SettledStatus
  <2>2. Answering(r, v)
    BY <1>6 DEF SettleGuardRejected
  <2> HIDE DEF v
  <2> QED BY <1>1, <2>1, <2>2
<1>7. CASE RetireMiss(r)
  BY <1>0, <1>1, <1>7, SettledStatus DEF RetireMiss
<1>2. CASE Fail(r)
  BY <1>2, NoneDoneHonest DEF Fail, MoveLinked, Inv, TypeOK
<1>3. CASE \/ Dequeue(r) \/ ClearWordTimingState(r) \/ SetInstrumentalResult(r)
           \/ Release(r) \/ ReleaseUntil(r) \/ Defer(r) \/ DeferRefused(r)
           \/ \E o \in Verdicts : SetOutcomeType(r, o)
           \/ \E st \in {"served", "absent"} : SetWordTimingState(r, st)
  BY <1>3, NoneDoneHonest
     DEF Dequeue, ClearWordTimingState, SetInstrumentalResult, Release, ReleaseUntil,
         Defer, DeferRefused, SetOutcomeType, SetWordTimingState, Quietly
<1> QED BY <1>2, <1>3, <1>4, <1>5, <1>6, <1>7 DEF WorkerStep

LEMMA ReTripStepHonest ==
    ASSUME Inv, NEW r \in Rows, ReTripStep(r)
    PROVE  HonestStep
<1>0. row[r] \in Row /\ "done" \in Settled
  BY DEF Inv, TypeOK, Settled
<1>a. ASSUME NEW v, v.status \in Settled, Answering(r, v)
      PROVE  HonestStep
  BY <1>a, AnsweringHonest
<1>b. ASSUME NEW v, Quietly(r, v)
      PROVE  HonestStep
  BY <1>b, NoneDoneHonest DEF Quietly
<1>1. ASSUME NEW st, SettleWordRecheck(r, st)
      PROVE  HonestStep
  <2> DEFINE v == [SettledAs(row[r], "done") EXCEPT !.word = st]
  <2>1. v.status \in Settled
    BY <1>0, SettledStatus
  <2>2. Answering(r, v)
    BY <1>1 DEF SettleWordRecheck
  <2> HIDE DEF v
  <2> QED BY <1>a, <2>1, <2>2
<1>2. ASSUME NEW m, DeferWordRecheck(r, m)
      PROVE  HonestStep
  <2>1. CASE row[r].waits >= m
    <3> DEFINE v == [SettledAs(row[r], "done") EXCEPT !.word = "null"]
    <3>1. v.status \in Settled
      BY <1>0, SettledStatus
    <3>2. Answering(r, v)
      BY <1>2, <2>1 DEF DeferWordRecheck
    <3> HIDE DEF v
    <3> QED BY <1>a, <3>1, <3>2
  <2>2. CASE ~(row[r].waits >= m)
    BY <1>2, <1>b, <2>2 DEF DeferWordRecheck
  <2> QED BY <2>1, <2>2
<1>3. ASSUME NEW c \in BOOLEAN, SettleGoneUpgradeTrip(r, c)
      PROVE  HonestStep
  <2> DEFINE g == IF c THEN "retired" ELSE "seen"
             v == [SettledAs(row[r], "done") EXCEPT !.att = 0, !.gone = g]
  <2>1. v.status \in Settled
    BY <1>0, SettledStatus
  <2>2. Answering(r, v) \/ Quietly(r, v)
    BY <1>3 DEF SettleGoneUpgradeTrip
  <2> HIDE DEF v
  <2> QED BY <1>a, <1>b, <2>1, <2>2
<1>4. CASE \/ MarkWordRecheckQueued(r) \/ RetryWordRecheckWrite(r)
           \/ MarkUpgradeQueued(r) \/ SettleUpgradeTrip(r) \/ ClearSourceGone(r)
  BY <1>4, NoneDoneHonest
     DEF MarkWordRecheckQueued, RetryWordRecheckWrite, MarkUpgradeQueued,
         SettleUpgradeTrip, ClearSourceGone, Quietly
<1> QED BY <1>1, <1>2, <1>3, <1>4 DEF ReTripStep

LEMMA OtherStepHonest ==
    ASSUME Inv, NEW r \in Rows, OtherStep(r)
    PROVE  HonestStep
<1>0. row[r] \in Row /\ "done" \in Settled
  BY DEF Inv, TypeOK, Settled
<1>a. ASSUME NEW v, v.status \in Settled, Answering(r, v)
      PROVE  HonestStep
  BY <1>a, AnsweringHonest
<1>1. CASE SettleInstrumental(r, "deferred")
  <2> DEFINE v == [SettledAs(row[r], "done") EXCEPT
                     !.inst = TRUE, !.out = "detector",
                     !.gone = ErrorCleared(row[r].gone)]
  <2>1. v.status \in Settled
    BY <1>0, SettledStatus
  <2>2. Answering(r, v)
    BY <1>1 DEF SettleInstrumental
  <2> HIDE DEF v
  <2> QED BY <1>a, <2>1, <2>2
<1>6. CASE MarkManualInstrumentalTx(r)
  <2> DEFINE v == [SettledAs(row[r], "done") EXCEPT
                     !.manual = TRUE, !.out = "manual", !.inst = FALSE,
                     !.word = "null", !.gone = ErrorCleared(row[r].gone)]
  <2>1. v.status \in Settled
    BY <1>0, SettledStatus
  <2>2. Answering(r, v)
    BY <1>6 DEF MarkManualInstrumentalTx
  <2> HIDE DEF v
  <2> QED BY <1>a, <2>1, <2>2
<1>2. CASE Retry(r) \/ ResetInstrumental(r) \/ UnmarkManualInstrumentalTx(r)
  BY <1>2, NoneDoneHonest
     DEF Retry, ResetInstrumental, UnmarkManualInstrumentalTx, MoveLinked
<1>3. CASE Cleanup(r)
  BY <1>3, NoneDoneHonest DEF Cleanup, DeleteResetting
<1>4. CASE \E ls \in {{l} : l \in Libs} \cup {Libs} : RecheckRetired(r, ls)
  BY <1>4, NoneDoneHonest DEF RecheckRetired
<1>5. CASE \/ Tick(r) \/ ReopenDoneRowTx(r) \/ RecheckDeferred(r)
           \/ UnsettleInstrumental(r) \/ retireUnresolvable(r) \/ relinkResurrect(r)
           \/ relinkUnretire(r)
  BY <1>5, NoneDoneHonest
     DEF Tick, ReopenDoneRowTx, RecheckDeferred, UnsettleInstrumental,
         retireUnresolvable, relinkResurrect, relinkUnretire, Quietly
<1> QED BY <1>1, <1>2, <1>3, <1>4, <1>5, <1>6 DEF OtherStep

LEMMA EnqueueStepHonest ==
    ASSUME Inv, NEW r \in Rows, EnqueueStep(r)
    PROVE  HonestStep
<1>1. ASSUME NEW s \in Scans, NEW c \in BOOLEAN, EnqueueScan(r, s, c)
      PROVE  HonestStep
  <2> DEFINE w == Upserted(ForScan(row[r], c), FALSE)
  <2> SUFFICES ASSUME NEW t \in Scans, scan[t] # "done", scan'[t] = "done"
               PROVE  NothingOwed(t)'
    BY DEF HonestStep
  <2>1. t = s /\ w.status \in Settled /\ NoLiveSibling(r, s)
    BY <1>1 DEF EnqueueScan, Inv, TypeOK
  <2>2. \A q \in Rows : row'[q] = IF q = r THEN w ELSE row[q]
    BY <1>1 DEF EnqueueScan, Write, Inv, TypeOK
  <2>3. link' = link \cup {<<r, s>>}
    BY <1>1 DEF EnqueueScan
  <2>4. ~LiveOwner(w)
    BY <2>1 DEF LiveOwner
  <2> HIDE DEF w
  <2>5. \A q \in Rows : <<q, s>> \in link' => ~LiveOwner(row'[q])
    BY <2>1, <2>2, <2>3, <2>4 DEF NoLiveSibling
  <2> QED BY <2>1, <2>5 DEF NothingOwed, LiveOwner, ReTrip
<1>2. CASE \E s \in Scans \cup {NoScan} : EnqueueWebhook(r, s)
  BY <1>2, NoneDoneHonest DEF EnqueueWebhook
<1> QED BY <1>1, <1>2 DEF EnqueueStep

LEMMA LedgerStepHonest ==
    ASSUME Inv, LedgerStep
    PROVE  HonestStep
<1>1. ASSUME NEW s \in Scans, NEW st \in ScanStatus \ {"absent"}, SetStatus(s, st)
      PROVE  HonestStep
  <2> SUFFICES ASSUME NEW t \in Scans, scan[t] # "done", scan'[t] = "done"
               PROVE  SetStatus(t, "done")
    BY DEF HonestStep
  <2>1. t = s /\ st = "done"
    BY <1>1 DEF SetStatus, Inv, TypeOK
  <2> QED BY <1>1, <2>1
<1>2. CASE \E s \in Scans, r \in Rows, f \in BOOLEAN : Upsert(s, r, f)
  BY <1>2, NoneDoneHonest DEF Upsert, Inv, TypeOK
<1>3. CASE \E l \in Libs : \E Kept \in SUBSET Rows : CancelByLibrary(l, Kept)
  BY <1>3, NoneDoneHonest DEF CancelByLibrary
<1>4. CASE ClearDone
  BY <1>4, NoneDoneHonest DEF ClearDone
<1> QED BY <1>1, <1>2, <1>3, <1>4 DEF LedgerStep

(* A queue transaction turns a result done only when no linked row still     *)
(* owes it an answer, whatever the callers do.                               *)
THEOREM QueueDoneIsHonest == Spec => DoneIsHonest
<1>1. Inv /\ [Next]_vars => [HonestStep]_vars
  BY WorkerStepHonest, ReTripStepHonest, OtherStepHonest, EnqueueStepHonest,
     LedgerStepHonest DEF Next
<1> QED BY <1>1, QueueInvariant, PTL DEF Spec, DoneIsHonest, HonestStep

-----------------------------------------------------------------------------
(* The queue calls of a pass are steps of the queue. *)
LEMMA PassCallsAreSteps ==
    ASSUME NEW r \in Rows
    PROVE  /\ Release(r) => Next
           /\ ReleaseUntil(r) => Next
           /\ Fail(r) => Next
           /\ Defer(r) => Next
           /\ DeferRefused(r) => Next
           /\ RetireMiss(r) => Next
           /\ Complete(r) => Next
           /\ SettleGuardRejected(r) => Next
           /\ SettleInstrumental(r, "processing") => Next
           /\ ClearWordTimingState(r) => Next
           /\ \A o \in Verdicts : SetOutcomeType(r, o) => Next
           /\ \A w \in {"served", "absent"} : SetWordTimingState(r, w) => Next
BY DEF Next, WorkerStep

LEMMA TripCallsAreSteps ==
    ASSUME NEW r \in Rows
    PROVE  /\ \A w \in {"served", "absent"} : SettleWordRecheck(r, w) => Next
           /\ \A m \in {0, MaxWaits} : DeferWordRecheck(r, m) => Next
           /\ RetryWordRecheckWrite(r) => Next
           /\ SettleUpgradeTrip(r) => Next
           /\ SettleStuckUpgradeTrip(r) => Next
           /\ \A c \in BOOLEAN : SettleGoneUpgradeTrip(r, c) => Next
           /\ ClearSourceGone(r) => Next
           /\ MarkWordRecheckQueued(r) => Next
           /\ MarkUpgradeQueued(r) => Next
BY DEF Next, ReTripStep, SettleStuckUpgradeTrip

(* Reopens, and what prune makes of rows whose file is gone or back. *)
SweepRow(r) ==
    \/ ReopenDoneRowTx(r) \/ UnmarkManualInstrumentalTx(r)
    \/ ResetInstrumental(r) \/ UnsettleInstrumental(r)
    \/ retireUnresolvable(r) \/ relinkResurrect(r) \/ relinkUnretire(r)

LEMMA OutsideCallsAreSteps ==
    ASSUME NEW r \in Rows
    PROVE  /\ Tick(r) => Next
           /\ SettleInstrumental(r, "deferred") => Next
           /\ Retry(r) => Next
           /\ Cleanup(r) => Next
           /\ RecheckDeferred(r) => Next
           /\ RecheckRetired(r, Libs) => Next
           /\ MarkManualInstrumentalTx(r) => Next
           /\ SweepRow(r) => Next
           /\ \A s \in Scans, c \in BOOLEAN : EnqueueScan(r, s, c) => Next
           /\ \A s \in Scans \cup {NoScan} : EnqueueWebhook(r, s) => Next
           /\ \A s \in Scans, f \in BOOLEAN : Upsert(s, r, f) => Next
<1>1. Libs \in {{l} : l \in Libs} \cup {Libs}
  OBVIOUS
<1> QED BY <1>1 DEF Next, OtherStep, EnqueueStep, LedgerStep, SweepRow

LEMMA LedgerCallsAreSteps ==
    /\ ClearDone => Next
    /\ \A s \in Scans, st \in ScanStatus \ {"absent"} : SetStatus(s, st) => Next
    /\ \A l \in Libs : \A Kept \in SUBSET Rows : CancelByLibrary(l, Kept) => Next
BY DEF Next, LedgerStep

LEMMA RequeueIsStep ==
    ASSUME pass.r \in Rows
    PROVE  /\ requeueDeferred => Next
           /\ \A landed, rejected \in BOOLEAN : failPass(landed, rejected) => Next
           /\ \A never \in BOOLEAN : failStuckItem(never) => Next
           /\ clearWordTiming => Next \/ UNCHANGED vars
BY PassCallsAreSteps, TripCallsAreSteps
   DEF requeueDeferred, failPass, failStuckItem, clearWordTiming, BestEffort

LEMMA PassStepQueue ==
    ASSUME ServeInv, PassStep
    PROVE  [Next]_vars
<1>0. pass.ph # "idle" => pass.r \in Rows
  BY DEF ServeInv, ServeTypeOK
<1> USE DEF End, Go, Claimed, Fetching
<1>13. CASE orphanClaim
  BY <1>13 DEF orphanClaim
<1>1. CASE parkIfLibraryOffline
  BY <1>0, <1>1, PassCallsAreSteps DEF parkIfLibraryOffline
<1>2. CASE releaseClaim
  BY <1>0, <1>2, PassCallsAreSteps DEF releaseClaim
<1>3. CASE runWordRecheck
  BY <1>0, <1>3, TripCallsAreSteps DEF runWordRecheck
<1>4. CASE preflightOutputs
  BY <1>0, <1>4, TripCallsAreSteps, RequeueIsStep DEF preflightOutputs
<1>5. CASE fetchEndsEmpty
  BY <1>0, <1>5, PassCallsAreSteps, TripCallsAreSteps, RequeueIsStep DEF fetchEndsEmpty
<1>6. CASE guardRejected
  BY <1>0, <1>6, PassCallsAreSteps, RequeueIsStep DEF guardRejected
<1>7. CASE \E v \in Verdicts : \E f \in FilesOf(v) : writeSong(v, f)
  BY <1>7 DEF writeSong
<1>8. CASE failAfterWrite
  BY <1>0, <1>8, PassCallsAreSteps, RequeueIsStep DEF failAfterWrite
<1>9. CASE stampOutcome
  BY <1>0, <1>9, PassCallsAreSteps DEF stampOutcome, BestEffort, ServeInv, PassShape
<1>10. CASE stampWordTiming
  BY <1>0, <1>10, PassCallsAreSteps, RequeueIsStep DEF stampWordTiming, BestEffort
<1>11. CASE completePass
  BY <1>0, <1>11, PassCallsAreSteps, RequeueIsStep DEF completePass
<1>12. CASE completeDetectorInstrumental
  BY <1>0, <1>12, PassCallsAreSteps, RequeueIsStep DEF completeDetectorInstrumental
<1> QED BY <1>1, <1>2, <1>3, <1>4, <1>5, <1>6, <1>7, <1>8, <1>9, <1>10, <1>11, <1>12, <1>13
        DEF PassStep

LEMMA OtherStepsQueue ==
    ASSUME ServeInv, EnqueuerStep \/ BackfillStep \/ OutsideStep \/ Crash
    PROVE  [Next]_vars
<1>0. enq.todo \subseteq Scans \X Rows /\ enq.cur \subseteq Scans \X Rows
  BY DEF ServeInv, ServeTypeOK
<1>1. CASE EnqueuerStep
  <2>1. CASE \E l \in Libs : ListPendingByLibrary(l)
    BY <2>1 DEF ListPendingByLibrary, Enq
  <2>2. CASE \E e \in enq.todo : cacheHit(e) \/ suppress(e) \/ reserve(e)
    BY <1>0, <2>2, LedgerCallsAreSteps DEF cacheHit, suppress, reserve, Enq, ScanStatus
  <2>3. CASE \E e \in enq.cur : offer(e) \/ restorePending(e)
    BY <1>0, <2>3, LedgerCallsAreSteps, OutsideCallsAreSteps
       DEF offer, restorePending, Enq, ScanStatus
  <2> QED BY <1>1, <2>1, <2>2, <2>3 DEF EnqueuerStep, abortPass, Enq
<1>2. CASE BackfillStep
  <2>1. bf.ph # "idle" => bf.r \in Rows
    BY DEF ServeInv, ServeTypeOK
  <2> QED BY <1>2, <2>1, OutsideCallsAreSteps
          DEF BackfillStep, ListUnclassified, dropCandidate, writeMarkers, settleMarker, Bf
<1>3. CASE OutsideStep
  BY <1>3, OutsideCallsAreSteps, TripCallsAreSteps, LedgerCallsAreSteps
     DEF OutsideStep, SweepRow
<1>4. CASE Crash
  BY <1>4 DEF Crash
<1> QED BY <1>1, <1>2, <1>3, <1>4

LEMMA ServeStepQueue == ServeInv /\ [ServeNext]_svars => [Next]_vars
<1> SUFFICES ASSUME ServeInv, [ServeNext]_svars PROVE [Next]_vars
  OBVIOUS
<1>1. CASE \E r \in Rows : Claim(r)
  BY <1>1 DEF Claim, Next, WorkerStep
<1>2. CASE UNCHANGED svars
  BY <1>2 DEF svars, vars
<1> QED BY <1>1, <1>2, PassStepQueue, OtherStepsQueue DEF ServeNext

-----------------------------------------------------------------------------
(* What a step of anyone but the worker does to the rows: a held row is left *)
(* alone and word rechecks stay parked or held.                              *)
Frame == /\ \A q \in Rows : row[q].status = "processing" => row'[q] = row[q]
         /\ \A q \in Rows : WordShape(row'[q])

LEMMA FreeWrite ==
    ASSUME TypeOK, \A q \in Rows : WordShape(row[q]), NEW r \in Rows, NEW v,
           Write(r, v), row[r].status # "processing", WordShape(v)
    PROVE  Frame
<1>1. \A q \in Rows : row'[q] = IF q = r THEN v ELSE row[q]
  BY DEF Write, TypeOK
<1> QED BY <1>1 DEF Frame

LEMMA RowsKeptFrame ==
    ASSUME \A q \in Rows : WordShape(row[q]), row' = row
    PROVE  Frame
BY DEF Frame

(* Rows that are neither held nor rechecks may be deleted. *)
LEMMA DeleteFrame ==
    ASSUME \A q \in Rows : WordShape(row[q]), NEW D \in SUBSET Rows,
           \A q \in D : row[q].status # "processing",
           row' = [q \in Rows |-> IF q \in D THEN NoWork ELSE row[q]]
    PROVE  Frame
<1>1. WordShape(NoWork)
  BY DEF WordShape, NoWork
<1> QED BY <1>1 DEF Frame

LEMMA UnqueuedFact == \A word : Unqueued(word) # "queued"
BY DEF Unqueued

(* A sweep reopens a row, retires it or takes its retirement back. *)
LEMMA SweepRowWrites ==
    ASSUME NEW r \in Rows, row[r] \in Row, WordShape(row[r]), SweepRow(r)
    PROVE  \E v :
              /\ Write(r, v) /\ row[r].status # "processing" /\ link' = link
              /\ \A s \in Scans : scan'[s] = "processing" => scan[s] = "processing"
              /\ WordShape(v) /\ v.miss = row[r].miss /\ (v.upg => row[r].upg)
              /\ \/ v.status \in {"pending", "deferred"} /\ v.out = "null"
                 \/ v.status = "done" /\ v.gone = "pruned" /\ retireUnresolvable(r)
                 \/ /\ v.status = row[r].status /\ v.out = row[r].out
                    /\ v.word = row[r].word /\ row[r].gone # "pruned"
                    /\ row[r].status # "absent"
<1> DEFINE w == row[r]
<1> USE DEF WordShape, Row
<1>1. CASE ReopenDoneRowTx(r)
  <2> DEFINE v == Reopened(w)
  <2>1. /\ Write(r, v) /\ w.status # "processing" /\ UNCHANGED <<scan, link>>
        /\ v.word # "queued" /\ v.miss = w.miss /\ v.upg = w.upg
        /\ v.status = "pending" /\ v.out = "null"
    BY <1>1, UnqueuedFact DEF ReopenDoneRowTx, Quietly, CanReopen, Reopened
  <2> HIDE DEF v
  <2> QED BY <2>1
<1>2. CASE UnmarkManualInstrumentalTx(r)
  <2> DEFINE v == [w EXCEPT !.manual = FALSE, !.status = "deferred", !.out = "null",
                            !.due = TRUE, !.att = 0, !.waits = 0,
                            !.gone = ErrorCleared(w.gone)]
  <2>1. /\ Write(r, v) /\ w.status # "processing" /\ UNCHANGED link
        /\ \A s \in Scans : scan'[s] = "processing" => scan[s] = "processing"
        /\ v.miss = w.miss /\ v.upg = w.upg /\ v.status = "deferred" /\ v.out = "null"
    BY <1>2 DEF UnmarkManualInstrumentalTx, MoveLinked
  <2> HIDE DEF v
  <2> QED BY <2>1
<1>3. CASE ResetInstrumental(r) \/ UnsettleInstrumental(r)
  <2> DEFINE v == [w EXCEPT !.status = "deferred", !.due = TRUE, !.waits = 0,
                            !.inst = FALSE, !.out = "null",
                            !.gone = ErrorCleared(w.gone), !.word = Unqueued(w.word)]
  <2>1. /\ Write(r, v) /\ w.status # "processing" /\ UNCHANGED link
        /\ \A s \in Scans : scan'[s] = "processing" => scan[s] = "processing"
        /\ v.miss = w.miss /\ v.upg = w.upg /\ v.status = "deferred" /\ v.out = "null"
    BY <1>3 DEF ResetInstrumental, UnsettleInstrumental, MoveLinked, Quietly
  <2> HIDE DEF v
  <2> QED BY <2>1
<1>4. CASE retireUnresolvable(r)
  <2> DEFINE v == [w EXCEPT !.status = "done", !.upg = FALSE, !.gone = "pruned"]
  <2>1. /\ Write(r, v) /\ w.status # "processing" /\ UNCHANGED <<scan, link>>
        /\ v.miss = w.miss /\ v.upg = FALSE /\ v.status = "done" /\ v.gone = "pruned"
    BY <1>4 DEF retireUnresolvable, Quietly, Eligible
  <2> HIDE DEF v
  <2> QED BY <1>4, <2>1
<1>5. CASE relinkResurrect(r)
  <2> DEFINE v == [w EXCEPT !.status = "pending", !.due = TRUE, !.att = 0,
                            !.out = "null", !.gone = "no", !.word = Unqueued(w.word)]
  <2>1. /\ Write(r, v) /\ w.status # "processing" /\ UNCHANGED <<scan, link>>
        /\ v.word # "queued" /\ v.miss = w.miss /\ v.upg = w.upg
        /\ v.status = "pending" /\ v.out = "null"
    BY <1>5, UnqueuedFact DEF relinkResurrect, Quietly
  <2> HIDE DEF v
  <2> QED BY <2>1
<1>6. CASE relinkUnretire(r)
  <2> DEFINE v == [w EXCEPT !.gone = "no"]
  <2>1. /\ Write(r, v) /\ w.status \notin {"absent", "processing"}
        /\ UNCHANGED <<scan, link>> /\ w.gone # "pruned"
        /\ v.miss = w.miss /\ v.upg = w.upg /\ v.status = w.status
        /\ v.out = w.out /\ v.word = w.word /\ v.prev = w.prev
    BY <1>6 DEF relinkUnretire, Quietly
  <2> HIDE DEF v
  <2> QED BY <2>1
<1> QED BY <1>1, <1>2, <1>3, <1>4, <1>5, <1>6 DEF SweepRow

LEMMA OutsideRowFrame ==
    ASSUME TypeOK, \A q \in Rows : WordShape(row[q]), NEW r \in Rows,
           \/ Tick(r) \/ MarkWordRecheckQueued(r) \/ MarkUpgradeQueued(r)
           \/ Retry(r) \/ Cleanup(r) \/ RecheckDeferred(r) \/ RecheckRetired(r, Libs)
           \/ MarkManualInstrumentalTx(r) \/ SettleInstrumental(r, "deferred")
           \/ SweepRow(r)
    PROVE  Frame
<1> DEFINE w == row[r]
<1>0. w \in Row /\ WordShape(w)
  BY DEF TypeOK
<1>1. CASE Tick(r)
  <2>1. WordShape([w EXCEPT !.due = TRUE])
    BY <1>0 DEF WordShape, Row
  <2> QED BY <1>1, <2>1, FreeWrite DEF Tick, Quietly, Eligible
<1>2. CASE MarkWordRecheckQueued(r)
  <2> DEFINE v == [w EXCEPT !.status = "deferred", !.due = TRUE, !.att = 0,
                            !.waits = 0, !.word = "queued"]
  <2>1. WordShape(v)
    BY <1>0 DEF WordShape, Row
  <2>2. Write(r, v) /\ w.status # "processing"
    BY <1>2 DEF MarkWordRecheckQueued, Quietly, WordCandidate
  <2> QED BY <2>1, <2>2, FreeWrite
<1>3. CASE MarkUpgradeQueued(r)
  <2> DEFINE v == [w EXCEPT !.status = "pending", !.due = TRUE, !.att = 0,
                            !.waits = 0, !.upg = TRUE]
  <2>1. Write(r, v) /\ w.status # "processing" /\ w.word # "queued"
    BY <1>3 DEF MarkUpgradeQueued, Quietly, UpgradeCandidate
  <2>2. WordShape(v)
    BY <1>0, <2>1 DEF WordShape, Row
  <2> QED BY <2>1, <2>2, FreeWrite
<1>4. CASE Retry(r)
  <2> DEFINE v == [w EXCEPT !.status = "pending", !.due = TRUE, !.att = 0,
                            !.word = Unqueued(w.word)]
  <2>1. Write(r, v) /\ w.status # "processing"
    BY <1>4 DEF Retry
  <2>2. WordShape(v)
    BY <1>0, UnqueuedFact DEF WordShape, Row
  <2> QED BY <2>1, <2>2, FreeWrite
<1>5. CASE Cleanup(r)
  <2>1. row[r].status # "processing"
    BY <1>5 DEF Cleanup, Cancellable, Eligible
  <2> DEFINE D == {r}
  <2>2. row' = [q \in Rows |-> IF q \in D THEN NoWork ELSE row[q]]
    BY <1>5 DEF Cleanup, DeleteResetting
  <2>3. D \in SUBSET Rows /\ \A q \in D : row[q].status # "processing"
    BY <2>1
  <2> HIDE DEF D
  <2> QED BY <2>2, <2>3, DeleteFrame
<1>6. CASE RecheckDeferred(r)
  <2>1. WordShape([w EXCEPT !.due = TRUE])
    BY <1>0 DEF WordShape, Row
  <2> QED BY <1>6, <2>1, FreeWrite DEF RecheckDeferred, Quietly
<1>7. CASE RecheckRetired(r, Libs)
  <2> DEFINE v == [w EXCEPT !.status = "deferred", !.due = TRUE, !.waits = 0,
                            !.word = Unqueued(w.word)]
  <2>1. Write(r, v) /\ w.status # "processing"
    BY <1>7 DEF RecheckRetired
  <2>2. WordShape(v)
    BY <1>0, UnqueuedFact DEF WordShape, Row
  <2> QED BY <2>1, <2>2, FreeWrite
<1>8. CASE MarkManualInstrumentalTx(r)
  <2> DEFINE v == [SettledAs(w, "done") EXCEPT
                        !.manual = TRUE, !.out = "manual", !.inst = FALSE,
                        !.word = "null", !.gone = ErrorCleared(w.gone)]
  <2>1. Write(r, v) /\ w.status # "processing"
    BY <1>8 DEF MarkManualInstrumentalTx, Answering
  <2>2. WordShape(v)
    BY <1>0 DEF WordShape, Row, SettledAs
  <2> QED BY <2>1, <2>2, FreeWrite
<1>9. CASE SettleInstrumental(r, "deferred")
  <2> DEFINE v == [SettledAs(w, "done") EXCEPT
                        !.inst = TRUE, !.out = "detector",
                        !.gone = ErrorCleared(w.gone)]
  <2>1. Write(r, v) /\ w.status # "processing" /\ w.word # "queued"
    BY <1>9 DEF SettleInstrumental, Answering
  <2>2. WordShape(v)
    BY <1>0, <2>1 DEF WordShape, Row, SettledAs
  <2> QED BY <2>1, <2>2, FreeWrite
<1>10. CASE SweepRow(r)
  BY <1>0, <1>10, SweepRowWrites, FreeWrite
<1> QED BY <1>1, <1>2, <1>3, <1>4, <1>5, <1>6, <1>7, <1>8, <1>9, <1>10

(* An enqueue leaves a held row as it is. *)
LEMMA UpsertedFrame ==
    ASSUME NEW w \in Row, WordShape(w), NEW webhook \in BOOLEAN
    PROVE  /\ WordShape(Upserted(w, webhook))
           /\ w.status = "processing" => Upserted(w, webhook) = w
BY DEF Upserted, WordShape, Row, RowStatus, Eligible, Settled, NewWork, NoWork

LEMMA ForScanFrame ==
    ASSUME NEW w \in Row, WordShape(w), NEW c \in BOOLEAN
    PROVE  /\ WordShape(ForScan(w, c))
           /\ w.status = "processing" => ForScan(w, c) = w
<1>1. \A v \in Row : WordShape(Reopened(v))
  BY UnqueuedFact DEF Reopened, WordShape, Row
<1> DEFINE v == reopenWordRecheckForScan(w)
<1>2. v \in {w, Reopened(w)} /\ WordShape(v) /\ (w.status = "processing" => v = w)
  BY <1>1 DEF reopenWordRecheckForScan
<1>3. WordShape(Reopened(v)) /\ (w.status = "processing" => ForScan(w, c) = w)
  BY <1>2, UnqueuedFact DEF ForScan, reopenCategoricalForScan, Reopened, WordShape, Row
<1> QED BY <1>2, <1>3 DEF ForScan, reopenCategoricalForScan

(* Writing a row that is held only as it was. *)
LEMMA UpsertWrite ==
    ASSUME TypeOK, \A q \in Rows : WordShape(row[q]), NEW r \in Rows, NEW v,
           Write(r, v), row[r].status = "processing" => v = row[r], WordShape(v)
    PROVE  Frame
<1>1. \A q \in Rows : row'[q] = IF q = r THEN v ELSE row[q]
  BY DEF Write, TypeOK
<1> QED BY <1>1 DEF Frame

LEMMA EnqueueFrame ==
    ASSUME Inv, \A q \in Rows : WordShape(row[q]), NEW r \in Rows,
           \/ \E s \in Scans, c \in BOOLEAN : EnqueueScan(r, s, c)
           \/ \E s \in Scans \cup {NoScan} : EnqueueWebhook(r, s)
    PROVE  Frame
<1>0. TypeOK /\ row[r] \in Row /\ WordShape(row[r])
  BY DEF Inv, TypeOK
<1>1. CASE \E s \in Scans, c \in BOOLEAN : EnqueueScan(r, s, c)
  <2>1. PICK s \in Scans, c \in BOOLEAN : EnqueueScan(r, s, c)
    BY <1>1
  <2> DEFINE f == ForScan(row[r], c)
  <2>2. f \in Row
    <3>1. RowOK(row[r]) /\ (c => ~EnqueueRefused(r, s))
      BY <2>1, InvIsRowOK DEF EnqueueScan
    <3> QED BY <1>0, <3>1, ForScanGood DEF GoodRow
  <2>3. WordShape(f) /\ (row[r].status = "processing" => f = row[r])
    BY <1>0, ForScanFrame
  <2>4. WordShape(Upserted(f, FALSE)) /\ (f.status = "processing" => Upserted(f, FALSE) = f)
    BY <2>2, <2>3, UpsertedFrame
  <2>5. Write(r, Upserted(f, FALSE))
    BY <2>1 DEF EnqueueScan
  <2> HIDE DEF f
  <2> QED BY <1>0, <2>3, <2>4, <2>5, UpsertWrite
<1>2. CASE \E s \in Scans \cup {NoScan} : EnqueueWebhook(r, s)
  <2>1. Write(r, Upserted(row[r], TRUE))
    BY <1>2 DEF EnqueueWebhook
  <2>2. WordShape(Upserted(row[r], TRUE))
        /\ (row[r].status = "processing" => Upserted(row[r], TRUE) = row[r])
    BY <1>0, UpsertedFrame
  <2> QED BY <1>0, <2>1, <2>2, UpsertWrite
<1> QED BY <1>1, <1>2

LEMMA LedgerFrame ==
    ASSUME \A q \in Rows : WordShape(row[q]),
           \/ \E s \in Scans, r \in Rows, f \in BOOLEAN : Upsert(s, r, f)
           \/ \E s \in Scans, st \in ScanStatus : SetStatus(s, st)
           \/ \E l \in Libs : \E Kept \in SUBSET Rows : CancelByLibrary(l, Kept)
           \/ ClearDone
    PROVE  Frame
<1>1. CASE \/ \E s \in Scans, r \in Rows, f \in BOOLEAN : Upsert(s, r, f)
           \/ \E s \in Scans, st \in ScanStatus : SetStatus(s, st)
  BY <1>1, RowsKeptFrame DEF Upsert, SetStatus
<1>2. CASE \E l \in Libs : \E Kept \in SUBSET Rows : CancelByLibrary(l, Kept)
  <2>1. PICK l \in Libs, Kept \in SUBSET Rows : CancelByLibrary(l, Kept)
    BY <1>2
  <2> DEFINE D == {r \in Rows : Cancellable(row[r]) /\ LinkedTo(r, l)} \ Kept
  <2>2. D \in SUBSET Rows /\ \A q \in D : row[q].status # "processing"
    BY DEF Cancellable, Eligible
  <2>3. row' = [q \in Rows |-> IF q \in D THEN NoWork ELSE row[q]]
    BY <2>1 DEF CancelByLibrary
  <2> HIDE DEF D
  <2> QED BY <2>2, <2>3, DeleteFrame
<1>3. CASE ClearDone
  <2> DEFINE D == {r \in Rows : row[r].status = "done" /\ ~row[r].manual}
  <2>1. D \in SUBSET Rows /\ \A q \in D : row[q].status # "processing"
    OBVIOUS
  <2>2. row' = [q \in Rows |-> IF q \in D THEN NoWork ELSE row[q]]
    BY <1>3 DEF ClearDone
  <2> HIDE DEF D
  <2> QED BY <2>1, <2>2, DeleteFrame
<1> QED BY <1>1, <1>2, <1>3

LEMMA OtherStepsFrame ==
    ASSUME ServeInv, EnqueuerStep \/ BackfillStep \/ OutsideStep \/ Crash
    PROVE  Frame
<1>0. /\ Inv /\ TypeOK /\ \A q \in Rows : WordShape(row[q])
      /\ enq.todo \subseteq Scans \X Rows /\ enq.cur \subseteq Scans \X Rows
      /\ bf.ph # "idle" => bf.r \in Rows
  BY DEF ServeInv, ServeTypeOK, Inv
<1>1. CASE EnqueuerStep
  <2>1. CASE row' = row
    BY <1>0, <2>1, RowsKeptFrame
  <2>2. CASE \E e \in enq.cur : offer(e)
    <3>1. PICK e \in enq.cur, c \in BOOLEAN : EnqueueScan(e[2], e[1], c)
      BY <2>2 DEF offer, Enq
    <3>2. e[1] \in Scans /\ e[2] \in Rows
      BY <1>0
    <3> QED BY <1>0, <3>1, <3>2, EnqueueFrame
  <2>3. row' = row \/ \E e \in enq.cur : offer(e)
    BY <1>1 DEF EnqueuerStep, ListPendingByLibrary, cacheHit, suppress, reserve,
                restorePending, abortPass, Enq, SetStatus, vars
  <2> QED BY <2>1, <2>2, <2>3
<1>2. CASE BackfillStep
  <2>1. CASE row' = row
    BY <1>0, <2>1, RowsKeptFrame
  <2>2. CASE bf.ph = "written" /\ SettleInstrumental(bf.r, "deferred")
    BY <1>0, <2>2, OutsideRowFrame
  <2> QED BY <1>2, <2>1, <2>2
          DEF BackfillStep, ListUnclassified, dropCandidate, writeMarkers, settleMarker,
              Bf, vars
<1>3. CASE OutsideStep
  <2>1. CASE \E r \in Rows, s \in Scans \cup {NoScan} : EnqueueWebhook(r, s)
    BY <1>0, <2>1, EnqueueFrame
  <2>2. CASE \/ \E s \in Scans, r \in Rows, f \in BOOLEAN : Upsert(s, r, f)
             \/ \E l \in Libs : \E Kept \in SUBSET Rows : CancelByLibrary(l, Kept)
             \/ ClearDone
    BY <1>0, <2>2, LedgerFrame
  <2>3. CASE \E r \in Rows :
                \/ Tick(r) \/ MarkWordRecheckQueued(r) \/ MarkUpgradeQueued(r)
                \/ Retry(r) \/ Cleanup(r) \/ RecheckDeferred(r)
                \/ RecheckRetired(r, Libs) \/ MarkManualInstrumentalTx(r)
                \/ SweepRow(r)
    BY <1>0, <2>3, OutsideRowFrame
  <2> QED BY <1>3, <2>1, <2>2, <2>3 DEF OutsideStep, SweepRow
<1>4. CASE Crash
  BY <1>0, <1>4, RowsKeptFrame DEF Crash, vars
<1> QED BY <1>1, <1>2, <1>3, <1>4

(* Nobody takes the worker's row away: its copy of the row stays true. *)
LEMMA OtherStepsOwnership ==
    ASSUME ServeInv, EnqueuerStep \/ BackfillStep \/ OutsideStep \/ Crash
    PROVE  OwnershipHolds' /\ (\A q \in Rows : WordShape(row'[q]))
<1>1. Frame
  BY OtherStepsFrame
<1>2. pass' = pass \/ pass' = Idle
  BY DEF EnqueuerStep, ListPendingByLibrary, cacheHit, suppress, reserve, restorePending, abortPass,
         offer, Enq, BackfillStep, ListUnclassified, dropCandidate, writeMarkers,
         settleMarker, Bf, OutsideStep, mem, Crash
<1>3. CASE pass' = Idle
  BY <1>1, <1>3 DEF Frame, Idle, OwnershipHolds
<1>4. CASE pass' = pass
  <2>1. pass.r # NoRow => pass.r \in Rows /\ row'[pass.r] = row[pass.r]
    BY <1>1 DEF Frame, ServeInv, ServeTypeOK, OwnershipHolds
  <2> QED BY <1>1, <1>4, <2>1 DEF Frame, ServeInv, OwnershipHolds
<1> QED BY <1>2, <1>3, <1>4

LEMMA InitialMemory ==
    /\ Idle \in [r : Rows \cup {NoRow}, ph : Phases, word : WordState, upg : BOOLEAN,
                 att : 0..AttCap, miss : 0..MissCap, out : Outcome]
    /\ Idle.r = NoRow /\ Idle.ph = "idle"
    /\ NoEnq \in [todo : SUBSET (Scans \X Rows), cur : SUBSET (Scans \X Rows)]
    /\ NoCand \in [r : Rows \cup {NoRow}, ph : {"idle", "listed", "written"}]
    /\ NoCand.r = NoRow /\ NoCand.ph = "idle"
BY CounterFacts DEF Idle, NoEnq, NoCand, Phases, WordState, Outcome

(* What the others keep in memory and put on disk. *)
DiskOK(d) == /\ d \in [Rows -> Files]
             /\ \A r \in Rows : /\ d[r] = "text" => "below" \in Verdicts
                                /\ d[r] = "synced" => "synced" \in Verdicts

LEMMA DiskWrite ==
    ASSUME NEW d, DiskOK(d), NEW r \in Rows, NEW f \in Files,
           f = "text" => "below" \in Verdicts, f = "synced" => "synced" \in Verdicts
    PROVE  DiskOK([d EXCEPT ![r] = f])
BY DEF DiskOK

LEMMA OtherStepsTypes ==
    ASSUME ServeInv, EnqueuerStep \/ BackfillStep \/ OutsideStep \/ Crash
    PROVE  ServeTypeOK' /\ PassShape'
<1> DEFINE EnqSet == [todo : SUBSET (Scans \X Rows), cur : SUBSET (Scans \X Rows)]
           BfOK(b) == /\ b \in [r : Rows \cup {NoRow}, ph : {"idle", "listed", "written"}]
                      /\ (b.r = NoRow) <=> (b.ph = "idle")
<1>0. ServeTypeOK /\ PassShape /\ enq \in EnqSet /\ BfOK(bf) /\ DiskOK(disk)
      /\ key \in [Scans -> Rows]
  BY DEF ServeInv, ServeTypeOK, PassShape, DiskOK, Inv, TypeOK
<1>1. pass' = pass \/ pass' = Idle
  BY DEF EnqueuerStep, ListPendingByLibrary, cacheHit, suppress, reserve, restorePending, abortPass,
         offer, Enq, BackfillStep, ListUnclassified, dropCandidate, writeMarkers,
         settleMarker, Bf, OutsideStep, mem, Crash
<1>2. enq' \in EnqSet
  <2>1. CASE EnqueuerStep
    <3>1. CASE \E l \in Libs : ListPendingByLibrary(l)
      BY <1>0, <3>1, InitialMemory DEF ListPendingByLibrary, Enq
    <3>2. CASE \E e \in enq.todo : cacheHit(e) \/ suppress(e) \/ reserve(e)
      BY <1>0, <3>2 DEF cacheHit, suppress, reserve, Enq
    <3>3. CASE \E e \in enq.cur : offer(e) \/ restorePending(e)
      BY <1>0, <3>3 DEF offer, restorePending, Enq
    <3>4. CASE abortPass
      BY <1>0, <3>4 DEF abortPass, Enq, NoEnq
    <3> QED BY <2>1, <3>1, <3>2, <3>3, <3>4 DEF EnqueuerStep
  <2>2. CASE BackfillStep
    BY <1>0, <2>2 DEF BackfillStep, ListUnclassified, dropCandidate, writeMarkers,
                      settleMarker, Bf
  <2>3. CASE OutsideStep
    BY <1>0, <2>3 DEF OutsideStep, Dropped
  <2>4. CASE Crash
    BY <2>4, InitialMemory DEF Crash
  <2> QED BY <2>1, <2>2, <2>3, <2>4
<1>3. BfOK(bf') /\ DiskOK(disk')
  <2>1. CASE BackfillStep
    <3>1. CASE \E r \in Rows : ListUnclassified(r)
      BY <1>0, <3>1, NoRowAssumption DEF ListUnclassified, Bf
    <3>2. CASE dropCandidate
      BY <1>0, <3>2, InitialMemory DEF dropCandidate, Bf
    <3>3. CASE writeMarkers
      <4>1. bf.r \in Rows /\ "marker" \in Files
        BY <1>0, <3>3 DEF writeMarkers, Files
      <4>2. BfOK(bf')
        BY <1>0, <3>3 DEF writeMarkers, Bf
      <4> QED BY <1>0, <3>3, <4>1, <4>2, DiskWrite DEF writeMarkers
    <3>4. CASE settleMarker
      <4>1. bf.r \in Rows /\ "none" \in Files
        BY <1>0, <3>4 DEF settleMarker, Files
      <4>2. CASE disk' = disk
        BY <1>0, <3>4, <4>2, InitialMemory DEF settleMarker, Bf
      <4>3. CASE removeMarkers(bf.r)
        <5> DEFINE f == IF disk[bf.r] = "synced" THEN "synced" ELSE "none"
        <5>1. f \in Files /\ disk' = [disk EXCEPT ![bf.r] = f]
          BY <1>0, <4>1, <4>3 DEF removeMarkers, DiskOK, Files
        <5>2. f # "text" /\ (f = "synced" => "synced" \in Verdicts)
          BY <1>0, <4>1 DEF DiskOK
        <5> HIDE DEF f
        <5>3. DiskOK(disk')
          BY <1>0, <4>1, <5>1, <5>2, DiskWrite
        <5> QED BY <3>4, <5>3, InitialMemory DEF settleMarker, Bf
      <4> QED BY <3>4, <4>2, <4>3 DEF settleMarker
    <3> QED BY <2>1, <3>1, <3>2, <3>3, <3>4 DEF BackfillStep
  <2>2. CASE EnqueuerStep
    BY <1>0, <2>2 DEF EnqueuerStep, ListPendingByLibrary, cacheHit, suppress, reserve,
                      restorePending, offer, abortPass, Enq
  <2>3. CASE OutsideStep
    BY <1>0, <2>3 DEF OutsideStep, mem
  <2>4. CASE Crash
    BY <1>0, <2>4, InitialMemory DEF Crash
  <2> QED BY <2>1, <2>2, <2>3, <2>4
<1>4. CASE pass' = pass
  BY <1>0, <1>2, <1>3, <1>4 DEF ServeTypeOK, PassShape, DiskOK
<1>5. CASE pass' = Idle
  BY <1>2, <1>3, <1>5, InitialMemory DEF ServeTypeOK, PassShape, DiskOK
<1> QED BY <1>1, <1>4, <1>5

-----------------------------------------------------------------------------
(* The worker's own steps. *)
Shaped == \A q \in Rows : WordShape(row[q])

LEMMA WriteShape ==
    ASSUME TypeOK, Shaped, NEW r \in Rows, NEW v, Write(r, v), WordShape(v)
    PROVE  Shaped'
<1>1. \A q \in Rows : row'[q] = IF q = r THEN v ELSE row[q]
  BY DEF Write, TypeOK
<1> QED BY <1>1 DEF Shaped, WordShape

(* A settle of an ordinary row leaves its word state alone. *)
LEMMA OrdinaryCallsShape ==
    ASSUME TypeOK, Shaped, NEW r \in Rows, row[r].word # "queued",
           \/ Fail(r) \/ Defer(r) \/ DeferRefused(r) \/ RetireMiss(r) \/ Complete(r)
           \/ SettleGuardRejected(r) \/ SettleInstrumental(r, "processing")
           \/ SettleUpgradeTrip(r) \/ \E c \in BOOLEAN : SettleGoneUpgradeTrip(r, c)
    PROVE  Shaped'
<1> DEFINE w == row[r]
<1>0. w \in Row
  BY DEF TypeOK
<1>1. PICK v : Write(r, v) /\ v.word = w.word
  <2>1. CASE Fail(r)
    <3> DEFINE v == [w EXCEPT !.status = "failed", !.due = FALSE, !.att = Bump(w.att, AttCap)]
    <3>1. Write(r, v) /\ v.word = w.word
      BY <1>0, <2>1 DEF Fail, Row
    <3> QED BY <3>1
  <2>2. CASE Defer(r)
    <3> DEFINE v == [w EXCEPT !.status = "deferred", !.due = FALSE,
                              !.miss = Bump(w.miss, MissCap)]
    <3>1. Write(r, v) /\ v.word = w.word
      BY <1>0, <2>2 DEF Defer, Quietly, Row
    <3> QED BY <3>1
  <2>3. CASE DeferRefused(r)
    <3> DEFINE v == [w EXCEPT !.status = "deferred", !.due = FALSE, !.waits = w.waits + 1]
    <3>1. Write(r, v) /\ v.word = w.word
      BY <1>0, <2>3 DEF DeferRefused, Quietly, Row
    <3> QED BY <3>1
  <2>4. CASE RetireMiss(r)
    <3> DEFINE v == SettledAs(w, "unavailable")
    <3>1. Write(r, v) /\ v.word = w.word
      BY <1>0, <2>4 DEF RetireMiss, Answering, SettledAs, Row
    <3> QED BY <3>1
  <2>5. CASE Complete(r)
    <3> DEFINE v == [SettledAs(w, "done") EXCEPT !.gone = "no"]
    <3>1. Write(r, v) /\ v.word = w.word
      BY <1>0, <2>5 DEF Complete, Answering, SettledAs, Row
    <3> QED BY <3>1
  <2>6. CASE SettleGuardRejected(r)
    <3> DEFINE v == [SettledAs(w, "done") EXCEPT !.out = "rejected",
                                                 !.gone = ErrorCleared(w.gone)]
    <3>1. Write(r, v) /\ v.word = w.word
      BY <1>0, <2>6 DEF SettleGuardRejected, Answering, SettledAs, Row
    <3> QED BY <3>1
  <2>7. CASE SettleInstrumental(r, "processing")
    <3> DEFINE v == [SettledAs(w, "done") EXCEPT !.inst = TRUE, !.out = "detector",
                                                 !.gone = ErrorCleared(w.gone)]
    <3>1. Write(r, v) /\ v.word = w.word
      BY <1>0, <2>7 DEF SettleInstrumental, Answering, SettledAs, Row
    <3> QED BY <3>1
  <2>8. CASE SettleUpgradeTrip(r)
    <3> DEFINE v == [SettledAs(w, "done") EXCEPT !.att = 0]
    <3>1. Write(r, v) /\ v.word = w.word
      BY <1>0, <2>8 DEF SettleUpgradeTrip, Quietly, SettledAs, Row
    <3> QED BY <3>1
  <2>9. CASE \E c \in BOOLEAN : SettleGoneUpgradeTrip(r, c)
    <3>1. PICK c \in BOOLEAN : SettleGoneUpgradeTrip(r, c)
      BY <2>9
    <3> DEFINE g == IF c THEN "retired" ELSE "seen"
               v == [SettledAs(w, "done") EXCEPT !.att = 0, !.gone = g]
    <3>2. Write(r, v) /\ v.word = w.word
      BY <1>0, <3>1 DEF SettleGoneUpgradeTrip, Quietly, Answering, SettledAs, Row
    <3> QED BY <3>2
  <2> QED BY <2>1, <2>2, <2>3, <2>4, <2>5, <2>6, <2>7, <2>8, <2>9
<1> QED BY <1>1, WriteShape DEF WordShape

(* A word recheck is released into the park it came from, parked again, or   *)
(* settled with the mark taken off.                                          *)
LEMMA RecheckCallsShape ==
    ASSUME TypeOK, Shaped, NEW r \in Rows,
           \/ Release(r) \/ ReleaseUntil(r) \/ RetryWordRecheckWrite(r)
           \/ \E state \in {"served", "absent"} : SettleWordRecheck(r, state)
           \/ \E m : DeferWordRecheck(r, m)
    PROVE  Shaped'
<1> DEFINE w == row[r]
<1>0. w \in Row /\ WordShape(w)
  BY DEF TypeOK, Shaped
<1>1. CASE Release(r)
  <2>1. WordShape([w EXCEPT !.status = w.prev])
    BY <1>0, <1>1 DEF Release, Held, WordShape, Row
  <2> QED BY <1>1, <2>1, WriteShape DEF Release, Quietly
<1>2. CASE ReleaseUntil(r)
  <2>1. WordShape([w EXCEPT !.status = w.prev, !.due = FALSE])
    BY <1>0, <1>2 DEF ReleaseUntil, Held, WordShape, Row
  <2> QED BY <1>2, <2>1, WriteShape DEF ReleaseUntil, Quietly
<1>3. CASE RetryWordRecheckWrite(r)
  <2>1. WordShape([w EXCEPT !.status = "deferred", !.due = FALSE])
    BY <1>0 DEF WordShape, Row
  <2> QED BY <1>3, <2>1, WriteShape DEF RetryWordRecheckWrite, Quietly
<1>4. ASSUME NEW state \in {"served", "absent"}, SettleWordRecheck(r, state)
      PROVE  Shaped'
  <2> DEFINE v == [SettledAs(w, "done") EXCEPT !.word = state]
  <2>1. WordShape(v)
    BY <1>0 DEF WordShape, Row, SettledAs
  <2>2. Write(r, v)
    BY <1>4 DEF SettleWordRecheck, Answering
  <2> QED BY <2>1, <2>2, WriteShape
<1>5. ASSUME NEW m, DeferWordRecheck(r, m)
      PROVE  Shaped'
  <2> DEFINE u == [SettledAs(w, "done") EXCEPT !.word = "null"]
             v == [w EXCEPT !.status = "deferred", !.due = FALSE, !.waits = w.waits + 1]
  <2>1. WordShape(u) /\ WordShape(v)
    BY <1>0 DEF WordShape, Row, SettledAs
  <2>2. Write(r, u) \/ Write(r, v)
    BY <1>5 DEF DeferWordRecheck, Answering, Quietly
  <2> QED BY <2>1, <2>2, WriteShape
<1> QED BY <1>1, <1>2, <1>3, <1>4, <1>5

ServePart == ServeTypeOK /\ OwnershipHolds /\ PassShape /\ Shaped

(* A pass that ends with a settle leaves the worker with nothing. *)
LEMMA PassEnds ==
    ASSUME ServeInv, Shaped', pass' = Idle, UNCHANGED others
    PROVE  ServePart'
BY InitialMemory DEF ServePart, ServeInv, ServeTypeOK, OwnershipHolds, PassShape, others

Stamping == {"refused", "cleared", "stamped", "worded", "keptstamped", "claimed"}
Writing == {"landed", "kept", "stamped", "worded", "keptstamped"}

(* A stamp before the settle touches nothing the worker relies on. *)
LEMMA PassStamps ==
    ASSUME ServeInv, pass.r \in Rows, pass.word # "queued", NEW v,
           Write(pass.r, v) \/ (row' = row /\ v = row[pass.r]),
           v.status = row[pass.r].status, v.upg = row[pass.r].upg,
           v.att = row[pass.r].att, v.miss = row[pass.r].miss, v.word # "queued",
           NEW ph \in Stamping, pass' = [pass EXCEPT !.ph = ph],
           ph \in Writing => pass.out \in Verdicts, UNCHANGED others
    PROVE  ServePart'
<1>1. \A q \in Rows : row'[q] = IF q = pass.r THEN v ELSE row[q]
  BY DEF Write, ServeInv, Inv, TypeOK
<1>2. Shaped'
  BY <1>1 DEF Shaped, WordShape, ServeInv
<1>3. ph \in Phases /\ ph # "idle" /\ pass' = [pass EXCEPT !.ph = ph]
  BY DEF Stamping, Phases
<1>4. pass'.ph = ph /\ pass'.r = pass.r /\ pass'.word = pass.word /\ pass'.out = pass.out
      /\ pass'.upg = pass.upg /\ pass'.att = pass.att /\ pass'.miss = pass.miss
  BY <1>3 DEF ServeInv, ServeTypeOK
<1>5. ServeTypeOK'
  BY <1>3, <1>4, NoRowAssumption DEF ServeInv, ServeTypeOK, others
<1>6. OwnershipHolds'
  BY <1>1, <1>4, NoRowAssumption DEF ServeInv, OwnershipHolds
<1>7. PassShape'
  BY <1>4 DEF ServeInv, PassShape, others, Writing
<1> QED BY <1>2, <1>5, <1>6, <1>7 DEF ServePart

LEMMA ClearWordTimingKeeps ==
    ASSUME ServeInv, pass.r \in Rows, pass.word # "queued", clearWordTiming,
           NEW ph \in Stamping, pass' = [pass EXCEPT !.ph = ph],
           ph \in Writing => pass.out \in Verdicts, UNCHANGED others
    PROVE  ServePart'
<1>0. row[pass.r] \in Row /\ row[pass.r].word # "queued"
  BY NoRowAssumption DEF ServeInv, Inv, TypeOK, OwnershipHolds
<1>1. CASE ClearWordTimingState(pass.r)
  <2> DEFINE v == [row[pass.r] EXCEPT !.word = "null"]
  <2>1. /\ v.status = row[pass.r].status /\ v.upg = row[pass.r].upg
        /\ v.att = row[pass.r].att /\ v.miss = row[pass.r].miss /\ v.word # "queued"
    BY <1>0 DEF Row
  <2>2. Write(pass.r, v)
    BY <1>1 DEF ClearWordTimingState, Quietly
  <2> HIDE DEF v
  <2> QED BY <2>1, <2>2, PassStamps
<1>2. CASE row' = row
  BY <1>0, <1>2, PassStamps
<1> QED BY <1>1, <1>2 DEF clearWordTiming, BestEffort, vars

LEMMA RequeueShape ==
    ASSUME TypeOK, Shaped, pass.r \in Rows, row[pass.r].word # "queued",
           \/ requeueDeferred
           \/ \E landed, rejected \in BOOLEAN : failPass(landed, rejected)
           \/ \E never \in BOOLEAN : failStuckItem(never)
    PROVE  Shaped'
BY OrdinaryCallsShape, RecheckCallsShape
   DEF requeueDeferred, failPass, failStuckItem, SettleStuckUpgradeTrip

(* WriteLRC: what lands on disk is a verdict of this deployment. *)
LEMMA WriteKeeps ==
    ASSUME ServeInv, Fetching, row' = row, UNCHANGED <<enq, bf>>,
           NEW f \in Files, f = "text" => "below" \in Verdicts,
           f = "synced" => "synced" \in Verdicts,
           disk' \in {disk, [disk EXCEPT ![pass.r] = f]},
           NEW ph \in {"landed", "kept", "marked"}, NEW o \in Outcome,
           ph # "marked" => o \in Verdicts,
           pass' = [pass EXCEPT !.ph = ph, !.out = o]
    PROVE  ServePart'
<1>0. pass.r \in Rows /\ DiskOK(disk)
  BY DEF ServeInv, ServeTypeOK, PassShape, DiskOK, Fetching, Claimed
<1>1. DiskOK(disk')
  BY <1>0, DiskWrite
<1>2. ph \in Phases /\ ph # "idle"
  BY DEF Phases
<1>3. pass'.ph = ph /\ pass'.r = pass.r /\ pass'.word = pass.word /\ pass'.out = o
      /\ pass'.upg = pass.upg /\ pass'.att = pass.att /\ pass'.miss = pass.miss
  BY DEF ServeInv, ServeTypeOK
<1>4. ServeTypeOK'
  BY <1>0, <1>1, <1>2, <1>3, NoRowAssumption DEF ServeInv, ServeTypeOK, DiskOK
<1>5. OwnershipHolds' /\ Shaped'
  BY <1>3 DEF ServeInv, OwnershipHolds, Shaped, WordShape
<1>6. PassShape'
  BY <1>1, <1>3 DEF PassShape, DiskOK, Fetching
<1> QED BY <1>4, <1>5, <1>6 DEF ServePart

(* A kept file is recorded as what it is: a file on disk came from a verdict. *)
LEMMA KeptRecord ==
    ASSUME ServeInv, NEW r \in Rows, NEW f \in Files, Rung[f] < Rung[disk[r]],
           f = "marker" \/ f = "text" \/ f = "synced"
    PROVE  RecordOf(disk[r]) \in Verdicts
<1>1. disk[r] \in Files /\ disk[r] # "none" /\ disk[r] # "marker"
  BY DEF ServeInv, ServeTypeOK, Files, Rung
<1> QED BY <1>1 DEF ServeInv, PassShape, RecordOf, Files

LEMMA WriteSongKeeps ==
    ASSUME ServeInv, NEW v \in Verdicts, NEW f \in FilesOf(v), writeSong(v, f)
    PROVE  ServePart'
<1>0. Fetching /\ row' = row /\ UNCHANGED <<enq, bf>> /\ pass.r \in Rows
  BY DEF writeSong, vars, Fetching, Claimed, ServeInv, ServeTypeOK
<1>1. v \in {"synced", "below", "categorical"} /\ Verdicts \subseteq Outcome
  BY VerdictsAssumption DEF Outcome
<1>2. /\ f \in Files /\ (f = "text" => "below" \in Verdicts)
      /\ (f = "synced" => "synced" \in Verdicts)
      /\ v # "categorical" => f \in {"marker", "text", "synced"}
  BY <1>1 DEF FilesOf, Files
<1>3. CASE v # "categorical" /\ Rung[f] < Rung[disk[pass.r]]
  <2>1. RecordOf(disk[pass.r]) \in Verdicts
    BY <1>0, <1>2, <1>3, KeptRecord
  <2>2. disk' = disk /\ pass' = [pass EXCEPT !.ph = "kept", !.out = RecordOf(disk[pass.r])]
    BY <1>3 DEF writeSong
  <2> QED BY <1>0, <1>1, <1>2, <2>1, <2>2, WriteKeeps
<1>4. CASE ~(v # "categorical" /\ Rung[f] < Rung[disk[pass.r]])
  <2>1. pass' = [pass EXCEPT !.ph = "landed", !.out = v]
        /\ disk' \in {disk, [disk EXCEPT ![pass.r] = f]}
    BY <1>4 DEF writeSong
  <2> QED BY <1>0, <1>1, <1>2, <2>1, WriteKeeps
<1> QED BY <1>3, <1>4

LEMMA DetectorKeeps ==
    ASSUME ServeInv, completeDetectorInstrumental
    PROVE  ServePart'
<1>0. /\ pass.ph # "idle" => pass.r \in Rows
      /\ pass.ph # "idle" => pass.r # NoRow
      /\ TypeOK /\ Shaped
  BY DEF ServeInv, ServeTypeOK, Inv, Shaped
<1>1. CASE Fetching /\ UNCHANGED <<vars, enq, bf>>
           /\ Rung["marker"] < Rung[disk[pass.r]]
           /\ pass' = [pass EXCEPT !.ph = "kept", !.out = RecordOf(disk[pass.r])]
           /\ UNCHANGED disk
  <2>1. RecordOf(disk[pass.r]) \in Verdicts /\ Verdicts \subseteq Outcome
    BY <1>0, <1>1, KeptRecord, VerdictsAssumption
       DEF Fetching, Claimed, Files, Outcome
  <2> QED BY <1>1, <2>1, WriteKeeps DEF Files, vars
<1>2. CASE Fetching /\ UNCHANGED <<vars, enq, bf>>
           /\ pass' = [pass EXCEPT !.ph = "marked"]
           /\ disk' = [disk EXCEPT ![pass.r] = "marker"]
  <2>1. pass.out \in Outcome /\ pass' = [pass EXCEPT !.ph = "marked", !.out = pass.out]
    BY <1>2 DEF ServeInv, ServeTypeOK
  <2> QED BY <1>2, <2>1, WriteKeeps DEF Files, vars
<1>3. CASE pass.ph = "marked" /\ Go(clearWordTiming, "cleared")
  <2>1. pass.word # "queued" /\ "cleared" \in Stamping /\ "cleared" \notin Writing
    BY <1>3 DEF ServeInv, PassShape, Stamping, Writing
  <2> QED BY <1>0, <1>3, <2>1, ClearWordTimingKeeps DEF Go
<1>4. CASE pass.ph = "cleared" /\ (End(SettleInstrumental(pass.r, "processing"))
                                     \/ End(requeueDeferred))
  <2>1. row[pass.r].word # "queued"
    BY <1>0, <1>4 DEF ServeInv, PassShape, OwnershipHolds
  <2>2. Shaped'
    BY <1>0, <1>4, <2>1, OrdinaryCallsShape, RequeueShape DEF End
  <2> QED BY <1>4, <2>2, PassEnds DEF End
<1> QED BY <1>1, <1>2, <1>3, <1>4 DEF completeDetectorInstrumental

LEMMA PassStepKeeps ==
    ASSUME ServeInv, PassStep
    PROVE  ServePart'
<1>0. /\ pass.ph # "idle" => pass.r \in Rows /\ pass.r # NoRow
      /\ TypeOK /\ Shaped
  BY NoRowAssumption DEF ServeInv, ServeTypeOK, Inv, Shaped
<1>a. pass.ph \notin {"idle", "claimed"} => pass.word # "queued" /\ row[pass.r].word # "queued"
  BY <1>0 DEF ServeInv, PassShape, OwnershipHolds
<1>b. Fetching => pass.word # "queued" /\ row[pass.r].word # "queued"
  BY <1>0 DEF ServeInv, OwnershipHolds, Fetching, Claimed
<1>c. row[pass.r] \in Row \/ pass.ph = "idle"
  BY <1>0 DEF TypeOK
<1>13. CASE orphanClaim
  BY <1>0, <1>13, PassEnds DEF orphanClaim, End, vars, Shaped, WordShape
<1>1. CASE parkIfLibraryOffline
  BY <1>0, <1>1, RecheckCallsShape, PassEnds DEF parkIfLibraryOffline, Claimed, End
<1>2. CASE releaseClaim
  BY <1>0, <1>2, RecheckCallsShape, PassEnds DEF releaseClaim, Claimed, End
<1>3. CASE runWordRecheck
  BY <1>0, <1>3, RecheckCallsShape, PassEnds DEF runWordRecheck, Claimed, End
<1>4. CASE preflightOutputs
  <2>1. CASE Go(ClearSourceGone(pass.r), "claimed")
    <3> DEFINE v == [row[pass.r] EXCEPT !.gone = "no"]
    <3>1. /\ v.status = row[pass.r].status /\ v.upg = row[pass.r].upg
          /\ v.att = row[pass.r].att /\ v.miss = row[pass.r].miss /\ v.word # "queued"
      BY <1>b, <1>c, <1>4 DEF preflightOutputs, Fetching, Claimed, Row
    <3>2. Write(pass.r, v)
      BY <2>1 DEF Go, ClearSourceGone, Quietly
    <3>3. "claimed" \in Stamping /\ "claimed" \notin Writing
      BY DEF Stamping, Writing
    <3>4. pass.r \in Rows /\ pass.word # "queued"
      BY <1>0, <1>b, <1>4 DEF preflightOutputs, Fetching, Claimed
    <3> HIDE DEF v
    <3> QED BY <2>1, <3>1, <3>2, <3>3, <3>4, PassStamps DEF Go
  <2>2. CASE \/ \E c \in BOOLEAN : End(SettleGoneUpgradeTrip(pass.r, c))
             \/ End(failPass(FALSE, FALSE))
    <3>1. Shaped'
      BY <1>0, <1>b, <1>4, <2>2, OrdinaryCallsShape, RequeueShape
         DEF End, preflightOutputs, Fetching, Claimed
    <3> QED BY <2>2, <3>1, PassEnds DEF End
  <2> QED BY <1>4, <2>1, <2>2 DEF preflightOutputs
<1>5. CASE fetchEndsEmpty
  <2>1. CASE Go(clearWordTiming, "refused")
    <3>1. "refused" \in Stamping /\ "refused" \notin Writing
      BY DEF Stamping, Writing
    <3>2. pass.r \in Rows /\ pass.word # "queued"
      BY <1>0, <1>b, <1>5 DEF fetchEndsEmpty, Fetching, Claimed
    <3> QED BY <2>1, <3>1, <3>2, ClearWordTimingKeeps DEF Go
  <2>2. CASE \/ End(DeferRefused(pass.r)) \/ End(requeueDeferred)
             \/ \E rejected \in BOOLEAN : End(failPass(FALSE, rejected))
             \/ End(SettleUpgradeTrip(pass.r))
    <3>1. Shaped'
      BY <1>0, <1>b, <1>5, <2>2, OrdinaryCallsShape, RequeueShape
         DEF End, fetchEndsEmpty, Fetching, Claimed
    <3> QED BY <2>2, <3>1, PassEnds DEF End
  <2> QED BY <1>5, <2>1, <2>2 DEF fetchEndsEmpty
<1>6. CASE guardRejected
  <2>1. Shaped'
    BY <1>0, <1>a, <1>6, OrdinaryCallsShape, RequeueShape DEF End, guardRejected
  <2> QED BY <1>6, <2>1, PassEnds DEF End, guardRejected
<1>7. CASE \E v \in Verdicts : \E f \in FilesOf(v) : writeSong(v, f)
  BY <1>7, WriteSongKeeps
<1>8. CASE failAfterWrite
  <2>1. Shaped'
    BY <1>0, <1>a, <1>8, RecheckCallsShape, RequeueShape DEF End, failAfterWrite
  <2> QED BY <1>8, <2>1, PassEnds DEF End, failAfterWrite
<1>9. CASE stampOutcome
  <2> DEFINE ph == IF pass.ph = "landed" THEN "stamped" ELSE "keptstamped"
  <2>1. /\ ph \in Stamping /\ pass.out \in Verdicts /\ pass' = [pass EXCEPT !.ph = ph]
        /\ UNCHANGED others /\ pass.r \in Rows /\ pass.word # "queued"
    BY <1>0, <1>a, <1>9 DEF stampOutcome, Go, Stamping, ServeInv, PassShape
  <2> HIDE DEF ph
  <2>2. CASE SetOutcomeType(pass.r, pass.out)
    <3> DEFINE v == [row[pass.r] EXCEPT !.out = pass.out]
    <3>1. /\ v.status = row[pass.r].status /\ v.upg = row[pass.r].upg
          /\ v.att = row[pass.r].att /\ v.miss = row[pass.r].miss /\ v.word # "queued"
      BY <1>a, <1>c, <1>9 DEF stampOutcome, Row
    <3>2. Write(pass.r, v)
      BY <2>2 DEF SetOutcomeType, Quietly
    <3> HIDE DEF v
    <3> QED BY <2>1, <3>1, <3>2, PassStamps
  <2>3. CASE row' = row
    BY <1>a, <1>9, <2>1, <2>3, PassStamps DEF stampOutcome
  <2> QED BY <1>9, <2>2, <2>3 DEF stampOutcome, Go, BestEffort, vars
<1>10. CASE stampWordTiming
  <2>1. /\ "worded" \in Stamping /\ pass.out \in Verdicts /\ UNCHANGED others
        /\ pass' = [pass EXCEPT !.ph = "worded"] /\ pass.r \in Rows /\ pass.word # "queued"
    BY <1>0, <1>a, <1>10 DEF stampWordTiming, Go, Stamping, ServeInv, PassShape
  <2>2. ASSUME NEW st \in {"served", "absent"}, SetWordTimingState(pass.r, st)
        PROVE  ServePart'
    <3> DEFINE v == [row[pass.r] EXCEPT !.word = st]
    <3>1. /\ v.status = row[pass.r].status /\ v.upg = row[pass.r].upg
          /\ v.att = row[pass.r].att /\ v.miss = row[pass.r].miss /\ v.word # "queued"
      BY <1>c, <1>10 DEF stampWordTiming, Row
    <3>2. Write(pass.r, v)
      BY <2>2 DEF SetWordTimingState, Quietly
    <3> HIDE DEF v
    <3> QED BY <2>1, <3>1, <3>2, PassStamps
  <2>3. CASE row' = row
    BY <1>a, <1>10, <2>1, <2>3, PassStamps DEF stampWordTiming
  <2>4. CASE clearWordTiming
    BY <2>1, <2>4, ClearWordTimingKeeps
  <2> QED BY <1>10, <2>2, <2>3, <2>4 DEF stampWordTiming, Go, BestEffort, vars
<1>11. CASE completePass
  <2>1. Shaped'
    BY <1>0, <1>a, <1>11, OrdinaryCallsShape, RequeueShape DEF End, completePass
  <2> QED BY <1>11, <2>1, PassEnds DEF End, completePass
<1>12. CASE completeDetectorInstrumental
  BY <1>12, DetectorKeeps
<1> QED BY <1>1, <1>2, <1>3, <1>4, <1>5, <1>6, <1>7, <1>8, <1>9, <1>10, <1>11, <1>12, <1>13
        DEF PassStep

(* The claim copies the row it takes. *)
LEMMA ClaimKeeps ==
    ASSUME ServeInv, NEW r \in Rows, Claim(r)
    PROVE  ServePart'
<1> DEFINE v == [row[r] EXCEPT !.status = "processing", !.prev = row[r].status]
<1>0. TypeOK /\ Shaped /\ row[r] \in Row /\ WordShape(row[r])
  BY DEF ServeInv, Inv, TypeOK, Shaped
<1>1. Write(r, v) /\ row[r].status \in Eligible /\ UNCHANGED others
  BY DEF Claim, Dequeue, Quietly
<1>2. WordShape(v) /\ v.status = "processing" /\ v.upg = row[r].upg /\ v.att = row[r].att
      /\ v.miss = row[r].miss /\ v.word = row[r].word
  BY <1>0, <1>1 DEF WordShape, Row, Eligible
<1>3. row'[r] = v
  BY <1>0, <1>1 DEF Write, TypeOK
<1> HIDE DEF v
<1>4. Shaped'
  BY <1>0, <1>1, <1>2, WriteShape
<1>5. pass' = [r |-> r, ph |-> "claimed", word |-> row[r].word, upg |-> row[r].upg,
               att |-> row[r].att, miss |-> row[r].miss, out |-> "null"]
  BY DEF Claim
<1>6. ServeTypeOK'
  BY <1>0, <1>1, <1>5, NoRowAssumption
     DEF ServeInv, ServeTypeOK, Row, Phases, Outcome, others
<1>7. OwnershipHolds'
  BY <1>2, <1>3, <1>5 DEF OwnershipHolds
<1>8. PassShape'
  BY <1>1, <1>5 DEF ServeInv, PassShape, others
<1> QED BY <1>4, <1>6, <1>7, <1>8 DEF ServePart

-----------------------------------------------------------------------------
LEMMA ServeInitInv == ServeInit => ServeInv
<1> SUFFICES ASSUME ServeInit PROVE ServeInv
  OBVIOUS
<1>1. Inv
  BY InitInv DEF ServeInit
<1>2. ServeTypeOK /\ OwnershipHolds /\ PassShape
  BY InitialMemory DEF ServeInit, ServeTypeOK, OwnershipHolds, PassShape, Files
<1>3. \A r \in Rows : WordShape(row[r])
  BY DEF ServeInit, Init, WordShape, NoWork
<1> QED BY <1>1, <1>2, <1>3 DEF ServeInv

LEMMA ServeStepInv == ServeInv /\ [ServeNext]_svars => ServeInv'
<1> SUFFICES ASSUME ServeInv, [ServeNext]_svars PROVE ServeInv'
  OBVIOUS
<1>1. Inv'
  BY ServeStepQueue, StepInv DEF ServeInv
<1>2. ServePart'
  <2>1. CASE UNCHANGED svars
    BY <2>1 DEF svars, ServeInv, ServePart, ServeTypeOK, OwnershipHolds, PassShape, Shaped,
                WordShape
  <2>2. CASE EnqueuerStep \/ BackfillStep \/ OutsideStep \/ Crash
    BY <2>2, OtherStepsTypes, OtherStepsOwnership DEF ServePart, Shaped, WordShape
  <2> QED BY <2>1, <2>2, ClaimKeeps, PassStepKeeps DEF ServeNext
<1> QED BY <1>1, <1>2 DEF ServeInv, ServePart, Shaped

(* The inductive invariant of the serve process. *)
THEOREM ServeInvariant == ServeSpec => []ServeInv
BY ServeInitInv, ServeStepInv, PTL DEF ServeSpec

(* Every queue call of the process is a transaction of the queue, so what is *)
(* proved of the queue holds of the process.                                 *)
LEMMA ServeImplementsQueue == ServeSpec => Spec
<1>1. ServeInit => Init
  BY DEF ServeInit
<1> QED BY <1>1, ServeStepQueue, ServeInvariant, PTL DEF ServeSpec, Spec

(* The worker's copy of its row is never stale, a crash of the process       *)
(* included: nothing but the worker moves a row in 'processing'.             *)
THEOREM ServeOwnership == ServeSpec => []OwnershipHolds
<1>1. ServeInv => OwnershipHolds
  BY DEF ServeInv
<1> QED BY <1>1, ServeInvariant, PTL

(* What the process keeps in memory stays well formed. *)
THEOREM ServeTypes == ServeSpec => []ServeTypeOK
<1>1. ServeInv => ServeTypeOK
  BY DEF ServeInv
<1> QED BY <1>1, ServeInvariant, PTL

(* A word recheck is parked, held or retired by prune, never in an ordinary  *)
(* state.                                                                    *)
THEOREM ServeReTripShape == ServeSpec => []ReTripShape
<1>1. ServeInv => ReTripShape
  BY DEF ServeInv, WordShape, ReTripShape
<1> QED BY <1>1, ServeInvariant, PTL

(* No queue transaction of the process calls an owed scan result done. *)
THEOREM ServeDoneIsHonest == ServeSpec => DoneIsHonest
BY ServeImplementsQueue, QueueDoneIsHonest, PTL

-----------------------------------------------------------------------------
(* What the process leaves behind. *)

(* A record that is done describes a file, and so does one of a row that    *)
(* is sent round for words only; prune retires a row as it finds it.        *)
OnFile(w) == (w.status = "done" \/ w.word = "queued") /\ w.gone # "pruned"

(* Rows that are not there carry no upgrade mark. *)
BlankInv == \A r \in Rows : row[r].status = "absent" => ~row[r].upg

(* What a step may make of the record w of row q. *)
Moves(q, w, v) ==
    /\ v.status = "absent" => ~v.upg
    /\ ReTrip(w) /\ v.status # "absent" => v.miss = w.miss /\ v.status # "unavailable"
    /\ v.upg => w.upg \/ "upgrade" \in Features
    /\ OnFile(v) => \/ OnFile(w) /\ v.out = w.out
                    \/ v.out \in {"null", "manual", "rejected"}
                    \/ w.upg
                    \/ v.out = "detector" /\ bf # NoCand
                    \/ v.out = "detector" /\ q = pass.r /\ pass.ph = "cleared"
                    \/ v.out = w.out /\ q = pass.r /\ pass.ph \in {"worded", "keptstamped"}

(* A record as Inv, WordShape and BlankInv leave it. *)
Sound(w) == /\ w \in Row /\ WordShape(w)
            /\ w.status \in Settled \cup {"absent"} => ~w.upg
            /\ w.gone = "pruned" => w.status = "done"

LEMMA RowsAreSound == ServeInv /\ BlankInv => TypeOK /\ \A q \in Rows : Sound(row[q])
BY DEF ServeInv, Inv, TypeOK, TripDisarmed, PrunedIsDone, BlankInv, Sound

LEMMA SoundStays ==
    ASSUME NEW q, NEW w, Sound(w)
    PROVE  Moves(q, w, w)
BY DEF Sound, Moves, WordShape, ReTrip, Settled

(* A step that writes one record, and one that deletes some. *)
LEMMA WriteMoves ==
    ASSUME TypeOK, \A q \in Rows : Sound(row[q]), NEW r \in Rows, NEW v,
           Write(r, v), Moves(r, row[r], v)
    PROVE  \A q \in Rows : Moves(q, row[q], row'[q])
<1>1. \A q \in Rows : row'[q] = IF q = r THEN v ELSE row[q]
  BY DEF Write, TypeOK
<1> QED BY <1>1, SoundStays

LEMMA DeleteMoves ==
    ASSUME \A q \in Rows : Sound(row[q]), NEW D,
           row' = [q \in Rows |-> IF q \in D THEN NoWork ELSE row[q]]
    PROVE  \A q \in Rows : Moves(q, row[q], row'[q])
<1>1. \A q, w : Moves(q, w, NoWork)
  BY DEF Moves, NoWork, OnFile
<1>2. \A q \in Rows : row'[q] = IF q \in D THEN NoWork ELSE row[q]
  OBVIOUS
<1> QED BY <1>1, <1>2, SoundStays

-----------------------------------------------------------------------------
(* Scans, webhooks, sweeps and operators. *)

LEMMA ReopenedMoves ==
    ASSUME NEW q, NEW w, Sound(w)
    PROVE  Reopened(w) \in Row /\ Moves(q, w, Reopened(w))
<1>1. /\ Reopened(w).status = "pending" /\ Reopened(w).word # "queued"
      /\ Reopened(w).upg = w.upg /\ Reopened(w).miss = w.miss
  BY UnqueuedFact DEF Reopened, Sound, Row
<1>2. Reopened(w) \in Row
  BY CounterFacts DEF Reopened, Sound, Row, RowStatus, Eligible, Unqueued, WordState, Outcome, Gone
<1> QED BY <1>1, <1>2 DEF Sound, Moves, WordShape, OnFile, Settled

LEMMA UpsertedMoves ==
    ASSUME NEW q, NEW w, Sound(w), NEW webhook \in BOOLEAN
    PROVE  Moves(q, w, Upserted(w, webhook))
<1>1. CASE w.status = "absent"
  <2>1. Upserted(w, webhook) = NewWork
    BY <1>1 DEF Upserted
  <2>2. ~ReTrip(w)
    BY <1>1 DEF Sound, WordShape, ReTrip
  <2> QED BY <2>1, <2>2 DEF Moves, NewWork, NoWork, OnFile
<1>2. CASE w.status # "absent"
  <2>1. \E b : Upserted(w, webhook) \in {w, [w EXCEPT !.due = b]}
    BY <1>2 DEF Upserted
  <2>2. PICK b : Upserted(w, webhook) \in {w, [w EXCEPT !.due = b]}
    BY <2>1
  <2>3. Moves(q, w, w) /\ Moves(q, w, [w EXCEPT !.due = b])
    BY SoundStays DEF Moves, Sound, Row, OnFile
  <2> QED BY <2>2, <2>3
<1> QED BY <1>1, <1>2

LEMMA ScannedMoves ==
    ASSUME NEW q, NEW w, Sound(w), NEW c \in BOOLEAN
    PROVE  Moves(q, w, Upserted(ForScan(w, c), FALSE))
<1>1. ForScan(w, c) \in {w, Reopened(w)}
  <2>1. reopenWordRecheckForScan(w) \in {w, Reopened(w)}
    BY DEF reopenWordRecheckForScan
  <2>2. Reopened(w).status = "pending"
    BY DEF Reopened, Sound, Row
  <2> QED BY <2>1, <2>2 DEF ForScan, reopenCategoricalForScan
<1>2. CASE ForScan(w, c) = w
  BY <1>2, UpsertedMoves
<1>3. CASE ForScan(w, c) = Reopened(w)
  <2> DEFINE v == Reopened(w)
  <2>1. /\ v.status = "pending" /\ v.word # "queued" /\ v.upg = w.upg /\ v.miss = w.miss
    BY UnqueuedFact DEF Reopened, Sound, Row
  <2>2. v \in Row /\ ForScan(w, c) = v
    BY <1>3, ReopenedMoves
  <2> HIDE DEF v
  <2>3. Moves(q, w, [v EXCEPT !.due = TRUE])
    BY <2>1, <2>2 DEF Sound, Moves, WordShape, OnFile, ReTrip, Row, Settled
  <2>4. Upserted(v, FALSE) = [v EXCEPT !.due = TRUE]
    BY <2>1 DEF Upserted
  <2> QED BY <2>2, <2>3, <2>4
<1> QED BY <1>1, <1>2, <1>3

LEMMA OutsideRowMoves ==
    ASSUME TypeOK, \A q \in Rows : Sound(row[q]), NEW r \in Rows,
           \/ Tick(r) \/ MarkWordRecheckQueued(r) \/ MarkUpgradeQueued(r)
           \/ Retry(r) \/ Cleanup(r) \/ RecheckDeferred(r) \/ RecheckRetired(r, Libs)
           \/ MarkManualInstrumentalTx(r) \/ SweepRow(r)
           \/ SettleInstrumental(r, "deferred") /\ bf # NoCand
    PROVE  \A q \in Rows : Moves(q, row[q], row'[q])
<1> DEFINE w == row[r]
<1>0. Sound(w)
  OBVIOUS
<1> USE DEF Sound, Moves, Row, OnFile, ReTrip, WordShape
<1>1. CASE Tick(r) \/ RecheckDeferred(r)
  <2>1. Moves(r, w, [w EXCEPT !.due = TRUE])
    BY <1>0, <1>1 DEF Tick, RecheckDeferred, Eligible, Settled
  <2> QED BY <1>1, <2>1, WriteMoves DEF Tick, RecheckDeferred, Quietly
<1>2. CASE MarkWordRecheckQueued(r)
  <2> DEFINE v == [w EXCEPT !.status = "deferred", !.due = TRUE, !.att = 0,
                            !.waits = 0, !.word = "queued"]
  <2>1. Moves(r, w, v)
    BY <1>0, <1>2 DEF MarkWordRecheckQueued, WordCandidate, Sentinel, Settled
  <2>2. Write(r, v)
    BY <1>2 DEF MarkWordRecheckQueued, Quietly
  <2> QED BY <2>1, <2>2, WriteMoves
<1>3. CASE MarkUpgradeQueued(r)
  <2> DEFINE v == [w EXCEPT !.status = "pending", !.due = TRUE, !.att = 0,
                            !.waits = 0, !.upg = TRUE]
  <2>1. Moves(r, w, v)
    BY <1>0, <1>3 DEF MarkUpgradeQueued, UpgradeCandidate, Sentinel, Settled
  <2>2. Write(r, v)
    BY <1>3 DEF MarkUpgradeQueued, Quietly
  <2> QED BY <2>1, <2>2, WriteMoves
<1>4. CASE Retry(r)
  <2> DEFINE v == [w EXCEPT !.status = "pending", !.due = TRUE, !.att = 0,
                            !.word = Unqueued(w.word)]
  <2>1. Moves(r, w, v)
    BY <1>0, <1>4, UnqueuedFact DEF Retry
  <2>2. Write(r, v)
    BY <1>4 DEF Retry
  <2> QED BY <2>1, <2>2, WriteMoves
<1>5. CASE Cleanup(r)
  <2> DEFINE D == {r}
  <2>1. row' = [q \in Rows |-> IF q \in D THEN NoWork ELSE row[q]]
    BY <1>5 DEF Cleanup, DeleteResetting
  <2> HIDE DEF D
  <2> QED BY <2>1, DeleteMoves
<1>6. CASE RecheckRetired(r, Libs)
  <2> DEFINE v == [w EXCEPT !.status = "deferred", !.due = TRUE, !.waits = 0,
                            !.word = Unqueued(w.word)]
  <2>1. Moves(r, w, v)
    BY <1>0, <1>6, UnqueuedFact DEF RecheckRetired, Settled
  <2>2. Write(r, v)
    BY <1>6 DEF RecheckRetired
  <2> QED BY <2>1, <2>2, WriteMoves
<1>7. CASE MarkManualInstrumentalTx(r)
  <2> DEFINE v == [SettledAs(w, "done") EXCEPT
                        !.manual = TRUE, !.out = "manual", !.inst = FALSE,
                        !.word = "null", !.gone = ErrorCleared(w.gone)]
  <2>1. Moves(r, w, v)
    BY <1>0 DEF SettledAs
  <2>2. Write(r, v)
    BY <1>7 DEF MarkManualInstrumentalTx, Answering
  <2> QED BY <2>1, <2>2, WriteMoves
<1>8. CASE SettleInstrumental(r, "deferred") /\ bf # NoCand
  <2> DEFINE v == [SettledAs(w, "done") EXCEPT
                        !.inst = TRUE, !.out = "detector",
                        !.gone = ErrorCleared(w.gone)]
  <2>1. Moves(r, w, v)
    BY <1>0, <1>8 DEF SettledAs
  <2>2. Write(r, v)
    BY <1>8 DEF SettleInstrumental, Answering
  <2> QED BY <2>1, <2>2, WriteMoves
<1>9. CASE SweepRow(r)
  <2>1. PICK v :
           /\ Write(r, v) /\ WordShape(v) /\ v.miss = w.miss /\ (v.upg => w.upg)
           /\ \/ v.status \in {"pending", "deferred"} /\ v.out = "null"
              \/ v.status = "done" /\ v.gone = "pruned"
              \/ /\ v.status = w.status /\ v.out = w.out
                 /\ v.word = w.word /\ w.gone # "pruned"
                 /\ w.status # "absent"
    BY <1>0, <1>9, SweepRowWrites
  <2>2. Moves(r, w, v)
    BY <1>0, <2>1 DEF Settled
  <2> QED BY <2>1, <2>2, WriteMoves
<1> QED BY <1>1, <1>2, <1>3, <1>4, <1>5, <1>6, <1>7, <1>8, <1>9

LEMMA EnqueueMoves ==
    ASSUME TypeOK, \A q \in Rows : Sound(row[q]), NEW r \in Rows,
           \/ \E s \in Scans, c \in BOOLEAN : EnqueueScan(r, s, c)
           \/ \E s \in Scans \cup {NoScan} : EnqueueWebhook(r, s)
    PROVE  \A q \in Rows : Moves(q, row[q], row'[q])
<1>1. ASSUME NEW s \in Scans, NEW c \in BOOLEAN, EnqueueScan(r, s, c)
      PROVE  \A q \in Rows : Moves(q, row[q], row'[q])
  <2> DEFINE v == Upserted(ForScan(row[r], c), FALSE)
  <2>1. Write(r, v) /\ Moves(r, row[r], v)
    BY <1>1, ScannedMoves DEF EnqueueScan
  <2> HIDE DEF v
  <2> QED BY <2>1, WriteMoves
<1>2. ASSUME NEW s, EnqueueWebhook(r, s)
      PROVE  \A q \in Rows : Moves(q, row[q], row'[q])
  <2> DEFINE v == Upserted(row[r], TRUE)
  <2>1. Write(r, v) /\ Moves(r, row[r], v)
    BY <1>2, UpsertedMoves DEF EnqueueWebhook
  <2> HIDE DEF v
  <2> QED BY <2>1, WriteMoves
<1> QED BY <1>1, <1>2

LEMMA LedgerMoves ==
    ASSUME TypeOK, \A q \in Rows : Sound(row[q]),
           \/ row' = row
           \/ \E s \in Scans, r \in Rows, f \in BOOLEAN : Upsert(s, r, f)
           \/ \E l \in Libs : \E Kept \in SUBSET Rows : CancelByLibrary(l, Kept)
           \/ ClearDone
    PROVE  \A q \in Rows : Moves(q, row[q], row'[q])
<1>1. CASE row' = row
  BY <1>1, SoundStays
<1>2. ASSUME NEW l \in Libs, NEW Kept \in SUBSET Rows, CancelByLibrary(l, Kept)
      PROVE  \A q \in Rows : Moves(q, row[q], row'[q])
  <2> DEFINE D == {r \in Rows : Cancellable(row[r]) /\ LinkedTo(r, l)} \ Kept
  <2>1. row' = [q \in Rows |-> IF q \in D THEN NoWork ELSE row[q]]
    BY <1>2 DEF CancelByLibrary
  <2> HIDE DEF D
  <2> QED BY <2>1, DeleteMoves
<1>3. CASE ClearDone
  <2> DEFINE D == {r \in Rows : row[r].status = "done" /\ ~row[r].manual}
  <2>1. row' = [q \in Rows |-> IF q \in D THEN NoWork ELSE row[q]]
    BY <1>3 DEF ClearDone
  <2> HIDE DEF D
  <2> QED BY <2>1, DeleteMoves
<1> QED BY <1>1, <1>2, <1>3 DEF Upsert

LEMMA OtherStepsMoves ==
    ASSUME ServeInv, BlankInv, EnqueuerStep \/ BackfillStep \/ OutsideStep \/ Crash
    PROVE  \A q \in Rows : Moves(q, row[q], row'[q])
<1>0. /\ TypeOK /\ \A q \in Rows : Sound(row[q])
      /\ enq.todo \subseteq Scans \X Rows /\ enq.cur \subseteq Scans \X Rows
      /\ bf.ph = "written" => bf.r \in Rows /\ bf # NoCand
  BY RowsAreSound DEF ServeInv, ServeTypeOK, NoCand
<1>1. CASE EnqueuerStep
  <2>1. CASE \E e \in enq.cur : offer(e)
    <3>1. PICK e \in enq.cur, c \in BOOLEAN : EnqueueScan(e[2], e[1], c)
      BY <2>1 DEF offer, Enq
    <3>2. e[1] \in Scans /\ e[2] \in Rows
      BY <1>0
    <3> QED BY <1>0, <3>1, <3>2, EnqueueMoves
  <2>2. row' = row \/ \E e \in enq.cur : offer(e)
    BY <1>1 DEF EnqueuerStep, ListPendingByLibrary, cacheHit, suppress, reserve,
                restorePending, abortPass, Enq, SetStatus, vars
  <2> QED BY <1>0, <2>1, <2>2, LedgerMoves
<1>2. CASE BackfillStep
  <2>1. row' = row \/ (bf.ph = "written" /\ SettleInstrumental(bf.r, "deferred"))
    BY <1>2 DEF BackfillStep, ListUnclassified, dropCandidate, writeMarkers, settleMarker,
                Bf, vars
  <2> QED BY <1>0, <2>1, LedgerMoves, OutsideRowMoves
<1>3. CASE OutsideStep
  BY <1>0, <1>3, EnqueueMoves, LedgerMoves, OutsideRowMoves DEF OutsideStep, SweepRow
<1>4. CASE Crash
  BY <1>0, <1>4, LedgerMoves DEF Crash, vars
<1> QED BY <1>1, <1>2, <1>3, <1>4

-----------------------------------------------------------------------------
(* The worker.  What it may do to the row it holds, call by call. *)

Holding == /\ TypeOK /\ \A q \in Rows : Sound(row[q])
           /\ pass.r \in Rows /\ row[pass.r].status = "processing"
AllMove == \A q \in Rows : Moves(q, row[q], row'[q])

LEMMA ParkMoves ==
    ASSUME Holding,
           \/ Release(pass.r) \/ ReleaseUntil(pass.r) \/ Fail(pass.r)
           \/ DeferRefused(pass.r) \/ ClearSourceGone(pass.r)
           \/ Defer(pass.r) /\ ~ReTrip(row[pass.r])
    PROVE  AllMove
<1> DEFINE r == pass.r
           w == row[r]
<1>0. Sound(w) /\ w.status = "processing"
  BY DEF Holding
<1> USE DEF Sound, Moves, Row, OnFile, ReTrip, Eligible, Holding, AllMove
<1>1. CASE Release(r)
  <2>1. Moves(r, w, [w EXCEPT !.status = w.prev])
    BY <1>0
  <2> QED BY <1>1, <2>1, WriteMoves DEF Release, Quietly
<1>2. CASE ReleaseUntil(r)
  <2>1. Moves(r, w, [w EXCEPT !.status = w.prev, !.due = FALSE])
    BY <1>0
  <2> QED BY <1>2, <2>1, WriteMoves DEF ReleaseUntil, Quietly
<1>3. CASE Fail(r)
  <2> DEFINE v == [w EXCEPT !.status = "failed", !.due = FALSE, !.att = Bump(w.att, AttCap)]
  <2>1. Moves(r, w, v) /\ Write(r, v)
    BY <1>0, <1>3 DEF Fail
  <2> HIDE DEF v
  <2> QED BY <2>1, WriteMoves
<1>4. CASE DeferRefused(r)
  <2>1. Moves(r, w, [w EXCEPT !.status = "deferred", !.due = FALSE, !.waits = w.waits + 1])
    BY <1>0
  <2> QED BY <1>4, <2>1, WriteMoves DEF DeferRefused, Quietly
<1>5. CASE ClearSourceGone(r)
  <2>1. Moves(r, w, [w EXCEPT !.gone = "no"])
    BY <1>0
  <2> QED BY <1>5, <2>1, WriteMoves DEF ClearSourceGone, Quietly
<1>6. CASE Defer(r) /\ ~ReTrip(w)
  <2> DEFINE v == [w EXCEPT !.status = "deferred", !.due = FALSE,
                            !.miss = Bump(w.miss, MissCap)]
  <2>1. Moves(r, w, v) /\ Write(r, v)
    BY <1>0, <1>6 DEF Defer, Quietly
  <2> HIDE DEF v
  <2> QED BY <2>1, WriteMoves
<1> QED BY <1>1, <1>2, <1>3, <1>4, <1>5, <1>6

LEMMA StampMoves ==
    ASSUME Holding, row[pass.r].word # "queued",
           \/ \E out : SetOutcomeType(pass.r, out)
           \/ \E state \in {"served", "absent"} : SetWordTimingState(pass.r, state)
           \/ ClearWordTimingState(pass.r)
    PROVE  AllMove
<1> DEFINE r == pass.r
           w == row[r]
<1>0. Sound(w) /\ w.status = "processing" /\ w.word # "queued"
  BY DEF Holding
<1> USE DEF Sound, Moves, Row, OnFile, ReTrip, Holding, AllMove
<1>1. ASSUME NEW out, SetOutcomeType(r, out) PROVE AllMove
  <2>1. Moves(r, w, [w EXCEPT !.out = out])
    BY <1>0
  <2> QED BY <1>1, <2>1, WriteMoves DEF SetOutcomeType, Quietly
<1>2. ASSUME NEW st \in {"served", "absent", "null"}, Write(r, [w EXCEPT !.word = st])
      PROVE  AllMove
  <2>1. Moves(r, w, [w EXCEPT !.word = st])
    BY <1>0
  <2> QED BY <1>2, <2>1, WriteMoves
<1> QED BY <1>1, <1>2 DEF SetWordTimingState, ClearWordTimingState, Quietly

LEMMA RecheckMoves ==
    ASSUME Holding,
           \/ \E state \in {"served", "absent"} : SettleWordRecheck(pass.r, state)
           \/ \E m : DeferWordRecheck(pass.r, m)
           \/ RetryWordRecheckWrite(pass.r)
    PROVE  AllMove
<1> DEFINE r == pass.r
           w == row[r]
<1>0. Sound(w) /\ w.status = "processing" /\ w.word = "queued"
  BY DEF Holding, SettleWordRecheck, DeferWordRecheck, RetryWordRecheckWrite, wordRecheckOwned
<1> USE DEF Sound, Moves, Row, OnFile, ReTrip, Holding, AllMove
<1>1. ASSUME NEW st \in {"served", "absent", "null"},
             Write(r, [SettledAs(w, "done") EXCEPT !.word = st])
      PROVE  AllMove
  <2>1. Moves(r, w, [SettledAs(w, "done") EXCEPT !.word = st])
    BY <1>0 DEF SettledAs
  <2> QED BY <1>1, <2>1, WriteMoves
<1>2. ASSUME NEW n, Write(r, [w EXCEPT !.status = "deferred", !.due = FALSE, !.waits = n])
      PROVE  AllMove
  <2>1. Moves(r, w, [w EXCEPT !.status = "deferred", !.due = FALSE, !.waits = n])
    BY <1>0
  <2> QED BY <1>2, <2>1, WriteMoves
<1>3. CASE RetryWordRecheckWrite(r)
  <2>1. Moves(r, w, [w EXCEPT !.status = "deferred", !.due = FALSE])
    BY <1>0
  <2> QED BY <1>3, <2>1, WriteMoves DEF RetryWordRecheckWrite, Quietly
<1> QED BY <1>1, <1>2, <1>3 DEF SettleWordRecheck, DeferWordRecheck, Answering, Quietly

LEMMA SettleMoves ==
    ASSUME Holding,
           \/ row[pass.r].upg /\ SettleUpgradeTrip(pass.r)
           \/ row[pass.r].upg /\ \E c \in BOOLEAN : SettleGoneUpgradeTrip(pass.r, c)
           \/ ~ReTrip(row[pass.r]) /\ RetireMiss(pass.r)
           \/ SettleGuardRejected(pass.r)
           \/ pass.ph = "cleared" /\ SettleInstrumental(pass.r, "processing")
           \/ pass.ph \in {"worded", "keptstamped"} /\ Complete(pass.r)
    PROVE  AllMove
<1> DEFINE r == pass.r
           w == row[r]
<1>0. Sound(w) /\ w.status = "processing"
  BY DEF Holding
<1> USE DEF Sound, Moves, Row, OnFile, ReTrip, Holding, AllMove, SettledAs
<1>1. CASE w.upg /\ SettleUpgradeTrip(r)
  <2>1. Moves(r, w, [SettledAs(w, "done") EXCEPT !.att = 0])
    BY <1>0, <1>1
  <2> QED BY <1>1, <2>1, WriteMoves DEF SettleUpgradeTrip, Quietly
<1>2. ASSUME NEW c \in BOOLEAN, w.upg, SettleGoneUpgradeTrip(r, c) PROVE AllMove
  <2> DEFINE v == [SettledAs(w, "done") EXCEPT
                      !.att = 0, !.gone = IF c THEN "retired" ELSE "seen"]
  <2>1. Moves(r, w, v) /\ Write(r, v)
    BY <1>0, <1>2 DEF SettleGoneUpgradeTrip, Answering, Quietly
  <2> HIDE DEF v
  <2> QED BY <2>1, WriteMoves
<1>3. CASE ~ReTrip(w) /\ RetireMiss(r)
  <2>1. Moves(r, w, SettledAs(w, "unavailable"))
    BY <1>0, <1>3
  <2> QED BY <1>3, <2>1, WriteMoves DEF RetireMiss, Answering
<1>4. CASE SettleGuardRejected(r)
  <2> DEFINE v == [SettledAs(w, "done") EXCEPT
                      !.out = "rejected", !.gone = ErrorCleared(w.gone)]
  <2>1. Moves(r, w, v) /\ Write(r, v)
    BY <1>0, <1>4 DEF SettleGuardRejected, Answering
  <2> HIDE DEF v
  <2> QED BY <2>1, WriteMoves
<1>5. CASE pass.ph = "cleared" /\ SettleInstrumental(r, "processing")
  <2> DEFINE v == [SettledAs(w, "done") EXCEPT
                      !.inst = TRUE, !.out = "detector", !.gone = ErrorCleared(w.gone)]
  <2>1. Moves(r, w, v) /\ Write(r, v)
    BY <1>0, <1>5 DEF SettleInstrumental, Answering
  <2> HIDE DEF v
  <2> QED BY <2>1, WriteMoves
<1>6. CASE pass.ph \in {"worded", "keptstamped"} /\ Complete(r)
  <2>1. Moves(r, w, [SettledAs(w, "done") EXCEPT !.gone = "no"])
    BY <1>0, <1>6
  <2> QED BY <1>6, <2>1, WriteMoves DEF Complete, Answering
<1> QED BY <1>1, <1>2, <1>3, <1>4, <1>5, <1>6

(* What the worker knows of the row its pass holds. *)
LEMMA PassHolds ==
    ASSUME ServeInv, BlankInv, pass.ph # "idle"
    PROVE  /\ Holding /\ row[pass.r].upg = pass.upg
           /\ row[pass.r].word = "queued" <=> pass.word = "queued"
           /\ pass.ph # "claimed" => pass.word # "queued"
BY RowsAreSound, NoRowAssumption
   DEF Holding, ServeInv, ServeTypeOK, OwnershipHolds, PassShape

LEMMA RequeueMoves ==
    ASSUME Holding, row[pass.r].upg = pass.upg, row[pass.r].word # "queued",
           \/ requeueDeferred
           \/ \E landed, rejected \in BOOLEAN : failPass(landed, rejected)
           \/ \E never \in BOOLEAN : failStuckItem(never)
    PROVE  AllMove
<1>1. ReTrip(row[pass.r]) <=> pass.upg
  BY DEF ReTrip
<1> QED BY <1>1, ParkMoves, SettleMoves
        DEF requeueDeferred, failPass, failStuckItem, SettleStuckUpgradeTrip

LEMMA ClearWordMoves ==
    ASSUME Holding, row[pass.r].word # "queued", clearWordTiming \/ UNCHANGED vars
    PROVE  AllMove
<1>1. CASE row' = row
  BY <1>1, SoundStays DEF Holding, AllMove
<1> QED BY <1>1, StampMoves DEF clearWordTiming, BestEffort, vars

LEMMA PassStepMoves ==
    ASSUME ServeInv, BlankInv, PassStep
    PROVE  AllMove
<1>0. pass.ph # "idle" =>
         /\ Holding /\ row[pass.r].upg = pass.upg
         /\ row[pass.r].word = "queued" <=> pass.word = "queued"
         /\ pass.ph # "claimed" => pass.word # "queued"
  BY PassHolds
<1>s. row' = row => AllMove
  BY RowsAreSound, SoundStays DEF AllMove
<1> USE DEF End, Go, Claimed, Fetching
<1>1. CASE orphanClaim
  BY <1>1, <1>s DEF orphanClaim, vars
<1>2. CASE parkIfLibraryOffline \/ releaseClaim
  BY <1>0, <1>2, ParkMoves DEF parkIfLibraryOffline, releaseClaim
<1>3. CASE runWordRecheck
  BY <1>0, <1>3, RecheckMoves DEF runWordRecheck
<1>4. CASE preflightOutputs
  BY <1>0, <1>4, ParkMoves, SettleMoves, RequeueMoves DEF preflightOutputs
<1>5. CASE fetchEndsEmpty
  BY <1>0, <1>5, ParkMoves, SettleMoves, RequeueMoves, ClearWordMoves DEF fetchEndsEmpty
<1>6. CASE guardRejected
  BY <1>0, <1>6, SettleMoves, RequeueMoves DEF guardRejected
<1>7. CASE \E v \in Verdicts : \E f \in FilesOf(v) : writeSong(v, f)
  BY <1>7, <1>s DEF writeSong, vars
<1>8. CASE failAfterWrite
  BY <1>0, <1>8, RequeueMoves DEF failAfterWrite
<1>9. CASE stampOutcome
  BY <1>0, <1>9, <1>s, StampMoves DEF stampOutcome, BestEffort, vars
<1>10. CASE stampWordTiming
  BY <1>0, <1>10, <1>s, StampMoves, ClearWordMoves DEF stampWordTiming, BestEffort, vars
<1>11. CASE completePass
  BY <1>0, <1>11, SettleMoves, RequeueMoves DEF completePass
<1>12. CASE completeDetectorInstrumental
  BY <1>0, <1>12, <1>s, SettleMoves, RequeueMoves, ClearWordMoves
     DEF completeDetectorInstrumental, vars
<1> QED BY <1>1, <1>2, <1>3, <1>4, <1>5, <1>6, <1>7, <1>8, <1>9, <1>10, <1>11, <1>12
        DEF PassStep

LEMMA StepMoves == ServeInv /\ BlankInv /\ [ServeNext]_svars => AllMove
<1> SUFFICES ASSUME ServeInv, BlankInv, [ServeNext]_svars PROVE AllMove
  OBVIOUS
<1>0. TypeOK /\ \A q \in Rows : Sound(row[q])
  BY RowsAreSound
<1>1. ASSUME NEW r \in Rows, Claim(r) PROVE AllMove
  <2> DEFINE v == [row[r] EXCEPT !.status = "processing", !.prev = row[r].status]
  <2>1. Write(r, v)
    BY <1>1 DEF Claim, Dequeue, Quietly
  <2>2. Moves(r, row[r], v)
    BY <1>0 DEF Sound, Moves, Row, OnFile, ReTrip
  <2> HIDE DEF v
  <2> QED BY <1>0, <2>1, <2>2, WriteMoves DEF AllMove
<1>2. CASE UNCHANGED svars
  BY <1>0, <1>2, SoundStays DEF svars, AllMove
<1> QED BY <1>1, <1>2, PassStepMoves, OtherStepsMoves DEF ServeNext, AllMove

LEMMA BlankStep == ServeInv /\ BlankInv /\ [ServeNext]_svars => BlankInv'
BY StepMoves DEF AllMove, Moves, BlankInv

LEMMA BlankInvariant == ServeSpec => [](ServeInv /\ BlankInv)
<1>1. ServeInit => BlankInv
  BY DEF ServeInit, Init, BlankInv, NoWork
<1> QED BY <1>1, BlankStep, ServeInitInv, ServeStepInv, PTL DEF ServeSpec

(* Whatever happens to a song that was sent round for a better version, its *)
(* miss budget is what it was and it is not retired for the misses.         *)
THEOREM ServeKeepsMissBudget == ServeSpec => ReTripKeepsMissBudget
<1>1. ServeInv /\ BlankInv /\ [ServeNext]_svars
        => [\A r \in Rows : ReTrip(row[r]) /\ row'[r].status # "absent"
              => row'[r].miss = row[r].miss /\ row'[r].status # "unavailable"]_svars
  BY StepMoves DEF AllMove, Moves
<1> QED BY <1>1, BlankInvariant, PTL DEF ServeSpec, ReTripKeepsMissBudget

-----------------------------------------------------------------------------
(* The file record.  In a deployment without upgrade trips and the backfill, *)
(* and as long as no stamp is lost to a database error, the record is what   *)
(* the last pass put on disk: RecordInv follows it through the pass.         *)

Recorded(o, f) == /\ o = "synced" => f = "synced"
                  /\ o \in {"below", "detector"} => f \in {"marker", "text"}

RecRows == \A r \in Rows : OnFile(row[r]) => Recorded(row[r].out, disk[r])
RecPass ==
    /\ pass.ph \in {"landed", "kept"} => Recorded(pass.out, disk[pass.r])
    /\ pass.ph \in {"stamped", "worded", "keptstamped"} =>
          row[pass.r].out = pass.out /\ Recorded(pass.out, disk[pass.r])
    /\ pass.ph \in {"marked", "cleared"} => disk[pass.r] = "marker"
NoTrip == \A r \in Rows : ~row[r].upg
RecordInv == RecRows /\ RecPass /\ NoTrip /\ bf = NoCand

Stamped == Features \cap {"upgrade", "backfill", "dberror"} = {}

(* Without a backfill only a fetching pass writes to disk. *)
LEMMA DiskMoves ==
    ASSUME Stamped, ServeInv, bf = NoCand, [ServeNext]_svars
    PROVE  /\ bf' = NoCand
           /\ \/ disk' = disk
              \/ Fetching /\ row' = row /\ \E f : disk' = [disk EXCEPT ![pass.r] = f]
<1>0. NoCand.ph = "idle" /\ "backfill" \notin Features
  BY DEF NoCand, Stamped
<1> USE DEF End, Go, others
<1>1. ASSUME NEW r \in Rows, Claim(r) PROVE bf' = bf /\ disk' = disk
  BY <1>1 DEF Claim
<1>2. CASE PassStep
  <2>1. ASSUME NEW v, NEW f, writeSong(v, f)
        PROVE  /\ bf' = bf
               /\ \/ disk' = disk
                  \/ Fetching /\ row' = row /\ \E g : disk' = [disk EXCEPT ![pass.r] = g]
    BY <2>1 DEF writeSong, vars
  <2>2. CASE completeDetectorInstrumental
    BY <2>2 DEF completeDetectorInstrumental, vars
  <2> QED BY <1>2, <2>1, <2>2
          DEF PassStep, orphanClaim, parkIfLibraryOffline, releaseClaim, runWordRecheck,
              preflightOutputs, fetchEndsEmpty, guardRejected, failAfterWrite, stampOutcome,
              stampWordTiming, completePass
<1>3. CASE EnqueuerStep
  BY <1>3 DEF EnqueuerStep, ListPendingByLibrary, cacheHit, suppress, reserve, offer,
              restorePending, abortPass, Enq
<1>4. CASE BackfillStep
  BY <1>0, <1>4 DEF BackfillStep, ListUnclassified, dropCandidate, writeMarkers, settleMarker
<1>5. CASE OutsideStep
  BY <1>5 DEF OutsideStep, mem
<1>6. CASE Crash
  BY <1>6 DEF Crash
<1>7. CASE UNCHANGED svars
  BY <1>7 DEF svars
<1> QED BY <1>1, <1>2, <1>3, <1>4, <1>5, <1>6, <1>7 DEF ServeNext

LEMMA RecRowsStep ==
    ASSUME Stamped, ServeInv, BlankInv, RecordInv, [ServeNext]_svars
    PROVE  RecRows' /\ NoTrip' /\ bf' = NoCand
<1>1. AllMove
  BY StepMoves
<1>2. NoTrip'
  BY <1>1 DEF AllMove, Moves, NoTrip, RecordInv, Stamped
<1>3. CASE disk' = disk
  <2>1. ASSUME NEW q \in Rows, OnFile(row'[q])
        PROVE  Recorded(row'[q].out, disk[q])
    <3>1. Moves(q, row[q], row'[q])
      BY <1>1 DEF AllMove
    <3> QED BY <2>1, <3>1 DEF Moves, RecordInv, RecRows, RecPass, NoTrip, Recorded
  <2> QED BY <1>2, <1>3, <2>1, DiskMoves DEF RecRows, RecordInv, OnFile
<1>4. CASE Fetching /\ row' = row /\ \E f : disk' = [disk EXCEPT ![pass.r] = f]
  <2>1. pass.r \in Rows /\ ~OnFile(row[pass.r])
    BY <1>4, PassHolds DEF Fetching, Claimed, Holding, OnFile
  <2>2. \A q \in Rows : q # pass.r => disk'[q] = disk[q]
    BY <1>4 DEF ServeInv, ServeTypeOK
  <2> QED BY <1>2, <1>4, <2>1, <2>2, DiskMoves DEF RecRows, RecordInv
<1> QED BY <1>2, <1>3, <1>4, DiskMoves DEF RecordInv

(* What a pass records is what it put on disk. *)
LEMMA WrittenRecorded ==
    /\ \A v \in Verdicts : \A f \in FilesOf(v) : v # "categorical" => Recorded(v, f)
    /\ \A f \in Files : f # "none" => Recorded(RecordOf(f), f)
    /\ \A f : Recorded("categorical", f) /\ Recorded("detector", "marker")
BY VerdictsAssumption DEF FilesOf, Recorded, RecordOf, Files

LEMMA NothingLower ==
    ASSUME NEW f \in Files, NEW d \in Files, Rung[f] < Rung[d]
    PROVE  d # "none"
<1>1. CASE f = "none"
  BY <1>1 DEF Files, Rung
<1>2. CASE f = "marker" \/ f = "text" \/ f = "synced"
  BY <1>2 DEF Files, Rung
<1> QED BY <1>1, <1>2 DEF Files

LEMMA WritePhase ==
    ASSUME ServeInv, RecordInv, NEW f \in Files, Fetching, row' = row,
           \/ /\ Rung[f] < Rung[disk[pass.r]] /\ disk' = disk
              /\ pass' = [pass EXCEPT !.ph = "kept", !.out = RecordOf(disk[pass.r])]
           \/ /\ f = "marker" /\ disk' = [disk EXCEPT ![pass.r] = f]
              /\ pass' = [pass EXCEPT !.ph = "marked"]
           \/ \E v : /\ Recorded(v, f) /\ disk' = [disk EXCEPT ![pass.r] = f]
                     /\ pass' = [pass EXCEPT !.ph = "landed", !.out = v]
           \/ /\ disk' = disk
              /\ pass' = [pass EXCEPT !.ph = "landed", !.out = "categorical"]
    PROVE  RecPass'
<1>1. pass.r \in Rows /\ disk[pass.r] \in Files /\ disk \in [Rows -> Files]
  BY NoRowAssumption DEF ServeInv, ServeTypeOK, Fetching, Claimed
<1>2. Rung[f] < Rung[disk[pass.r]] => disk[pass.r] # "none"
  BY <1>1, NothingLower
<1>3. pass \in [r : Rows \cup {NoRow}, ph : Phases, word : WordState,
                 upg : BOOLEAN, att : 0..AttCap, miss : 0..MissCap, out : Outcome]
  BY DEF ServeInv, ServeTypeOK
<1> QED BY <1>1, <1>2, <1>3, WrittenRecorded DEF RecPass

LEMMA RecPassStep ==
    ASSUME Stamped, ServeInv, BlankInv, RecordInv, PassStep
    PROVE  RecPass'
<1>0. /\ pass.ph # "idle" => Holding /\ pass.r \in Rows
      /\ pass \in [r : Rows \cup {NoRow}, ph : Phases, word : WordState,
                    upg : BOOLEAN, att : 0..AttCap, miss : 0..MissCap, out : Outcome]
      /\ "dberror" \notin Features
  BY PassHolds DEF Holding, ServeInv, ServeTypeOK, Stamped
<1>i. pass' = Idle => RecPass'
  BY DEF RecPass, Idle
<1>c. pass'.ph \in {"claimed", "refused"} => RecPass'
  BY DEF RecPass
<1> USE DEF End, Go
<1>1. CASE pass' = Idle
  BY <1>1, <1>i
<1>2. CASE preflightOutputs \/ fetchEndsEmpty
  BY <1>0, <1>2, <1>i, <1>c DEF preflightOutputs, fetchEndsEmpty, Claimed, Fetching
<1>3. ASSUME NEW v \in Verdicts, NEW f \in FilesOf(v), writeSong(v, f) PROVE RecPass'
  <2>1. f \in Files /\ v \in {"synced", "below", "categorical"}
    BY VerdictsAssumption DEF FilesOf, Files
  <2> QED BY <1>3, <2>1, WrittenRecorded, WritePhase DEF writeSong, vars
<1>4. CASE stampOutcome
  <2>1. SetOutcomeType(pass.r, pass.out) /\ UNCHANGED disk
    BY <1>0, <1>4 DEF stampOutcome, BestEffort, others
  <2>2. pass.r \in Rows /\ row'[pass.r].out = pass.out
    BY <1>0, <1>4, <2>1 DEF stampOutcome, SetOutcomeType, Quietly, Write, Holding, TypeOK, Row
  <2> QED BY <1>0, <1>4, <2>1, <2>2 DEF stampOutcome, RecordInv, RecPass
<1>5. CASE stampWordTiming
  <2>1. row'[pass.r].out = row[pass.r].out /\ UNCHANGED disk
    BY <1>0, <1>5 DEF stampWordTiming, BestEffort, clearWordTiming, SetWordTimingState,
       ClearWordTimingState, Quietly, Write, Holding, TypeOK, Row, others, vars
  <2> QED BY <1>0, <1>5, <2>1 DEF stampWordTiming, RecordInv, RecPass
<1>6. CASE completeDetectorInstrumental
  <2>1. CASE Fetching /\ UNCHANGED <<vars, enq, bf>>
    BY <1>6, <2>1, WritePhase DEF completeDetectorInstrumental, vars, Files, Fetching, Claimed
  <2>2. CASE pass.ph = "marked" /\ Go(clearWordTiming, "cleared")
    BY <1>0, <2>2 DEF others, RecordInv, RecPass
  <2> QED BY <1>6, <1>i, <2>1, <2>2 DEF completeDetectorInstrumental
<1> QED BY <1>1, <1>2, <1>3, <1>4, <1>5, <1>6
        DEF PassStep, orphanClaim, parkIfLibraryOffline, releaseClaim, runWordRecheck,
            guardRejected, failAfterWrite, completePass

LEMMA RecordStep ==
    ASSUME Stamped
    PROVE  ServeInv /\ BlankInv /\ RecordInv /\ [ServeNext]_svars => RecordInv'
<1> SUFFICES ASSUME ServeInv, BlankInv, RecordInv, [ServeNext]_svars PROVE RecordInv'
  OBVIOUS
<1>1. RecRows' /\ NoTrip' /\ bf' = NoCand
  BY RecRowsStep
<1>2. RecPass'
  <2>1. CASE EnqueuerStep \/ BackfillStep \/ OutsideStep \/ Crash
    <3>1. CASE pass' = Idle
      BY <3>1 DEF RecPass, Idle
    <3>2. CASE pass' = pass /\ disk' = disk
      <4>1. pass.ph # "idle" => pass.r \in Rows /\ row'[pass.r] = row[pass.r]
        BY <2>1, PassHolds, OtherStepsFrame DEF Frame, Holding
      <4> QED BY <3>2, <4>1 DEF RecPass, RecordInv
    <3>3. pass' = Idle \/ (pass' = pass /\ disk' = disk)
      <4>1. NoCand.ph = "idle" /\ "backfill" \notin Features
        BY DEF NoCand, Stamped
      <4> QED BY <2>1, <4>1
           DEF EnqueuerStep, ListPendingByLibrary, cacheHit, suppress, reserve, offer,
               restorePending, abortPass, Enq, BackfillStep, ListUnclassified, dropCandidate,
               writeMarkers, settleMarker, Bf, OutsideStep, mem, Crash, RecordInv
    <3> QED BY <3>1, <3>2, <3>3
  <2>2. ASSUME NEW r \in Rows, Claim(r) PROVE RecPass'
    BY <2>2 DEF Claim, RecPass
  <2>3. CASE UNCHANGED svars
    BY <2>3 DEF svars, RecordInv, RecPass
  <2> QED BY <2>1, <2>2, <2>3, RecPassStep DEF ServeNext
<1> QED BY <1>1, <1>2 DEF RecordInv

(* A row that is done says of its file what is on disk, for any number of   *)
(* rows and whatever scans, webhooks, operators, rechecks and crashes do in *)
(* between, where no upgrade trip and no backfill writes beside the worker  *)
(* and no stamp is lost.                                                    *)
THEOREM ServeRecordDescribesDisk ==
    ASSUME Stamped
    PROVE  ServeSpec => []RecordDescribesDisk
<1>1. ServeInit => RecordInv
  BY DEF ServeInit, Init, RecordInv, RecRows, RecPass, NoTrip, OnFile, NoWork, Idle
<1>2. RecordInv => RecordDescribesDisk
  BY DEF RecordInv, RecRows, OnFile, Recorded, RecordDescribesDisk
<1> QED BY <1>1, <1>2, RecordStep, BlankInvariant, PTL DEF ServeSpec

-----------------------------------------------------------------------------
(* The ledger: a result in 'processing' is reserved by the enqueuer, or a    *)
(* linked row still owes it an answer.                                       *)

Reserved(s) == \E e \in enq.cur : e[1] = s
Waits(q, s) == <<q, s>> \in link /\ row[q].status \notin Settled
OneReserved == \A e, f \in enq.cur : e = f
StrandInv == NoTrip /\ OneReserved

(* Prune's retirement leaves a linked result in 'processing' as it is. *)
Spared(b) == \A q \in Rows : <<q, b>> \in link => ~retireUnresolvable(q)

(* No upgrade trip, which settles without a writeback, and no end of the     *)
(* process between a reservation and its offer.                              *)
Running == Features \cap {"upgrade", "shutdown", "crash"} = {}

(* Transactions that take no result into 'processing' and settle no row that *)
(* the result is linked to.                                                  *)
LEMMA QuietBacks ==
    ASSUME TypeOK, NEW b \in Scans, Backed(b), NEW r \in Rows, NEW v, Write(r, v),
           v.status \in Settled => row[r].status \in Settled \/ <<r, b>> \notin link,
           \A p \in link : p \in link', \A s \in Scans : Reserved(s) => Reserved(s)',
           \A s \in Scans : scan'[s] = "processing" => scan[s] = "processing"
    PROVE  Backed(b)'
<1>1. \A q \in Rows : row'[q] = IF q = r THEN v ELSE row[q]
  BY DEF Write, TypeOK
<1> QED BY <1>1 DEF Backed, Reserved

(* A settlement with its writeback: what it leaves in 'processing' a live    *)
(* sibling still owes.                                                       *)
LEMMA AnswerBacks ==
    ASSUME TypeOK, NEW b \in Scans, Backed(b), NEW r \in Rows, NEW v, Answering(r, v),
           enq' = enq
    PROVE  Backed(b)'
<1>1. \A q \in Rows : q # r => row'[q] = row[q]
  BY DEF Answering, Write, TypeOK
<1> SUFFICES ASSUME scan'[b] = "processing"
             PROVE  Reserved(b) \/ \E q \in Rows \ {r} : Waits(q, b)
  BY <1>1 DEF Backed, Reserved, Waits, Answering
<1>2. scan[b] = "processing" /\ ~Owned(r, b)
  BY DEF Answering, writeBackScanResultsDone
<1>3. Reserved(b) \/ \E q \in Rows : Waits(q, b)
  BY <1>2 DEF Backed, Reserved, Waits
<1>4. CASE <<r, b>> \in link
  BY <1>2, <1>4 DEF Owned, NoLiveSibling, LiveOwner, Waits
<1> QED BY <1>3, <1>4 DEF Waits

(* Deleting rows, when what they were the last to owe is put back. *)
LEMMA DeleteBacks ==
    ASSUME TypeOK, NEW b \in Scans, Backed(b), NEW D \in SUBSET Rows,
           row' = [q \in Rows |-> IF q \in D THEN NoWork ELSE row[q]],
           scan'[b] = "processing" =>
              /\ scan[b] = "processing"
              /\ Reserved(b) => Reserved(b)'
              /\ \A q \in Rows \ D : <<q, b>> \in link => <<q, b>> \in link'
              /\ \/ \A q \in D : ~Waits(q, b)
                 \/ \E q \in Rows \ D : <<q, b>> \in link /\ LiveOwner(row[q])
    PROVE  Backed(b)'
<1>1. \A q \in Rows \ D : row'[q] = row[q]
  OBVIOUS
<1> SUFFICES ASSUME scan'[b] = "processing"
             PROVE  Reserved(b) \/ \E q \in Rows \ D : Waits(q, b)
  BY <1>1 DEF Backed, Reserved, Waits
<1>2. Reserved(b) \/ \E q \in Rows : Waits(q, b)
  BY DEF Backed, Reserved, Waits
<1> QED BY <1>2 DEF LiveOwner, Waits

LEMMA OutsideRowBacks ==
    ASSUME TypeOK, NEW b \in Scans, Backed(b), Spared(b), enq' = enq,
           NEW r \in Rows, WordShape(row[r]),
           \/ Tick(r) \/ MarkWordRecheckQueued(r)
           \/ Retry(r) \/ Cleanup(r) \/ RecheckDeferred(r) \/ RecheckRetired(r, Libs)
           \/ MarkManualInstrumentalTx(r) \/ SettleInstrumental(r, "deferred")
           \/ SweepRow(r)
           \/ \E s \in Scans \cup {NoScan} : EnqueueWebhook(r, s)
    PROVE  Backed(b)'
<1> DEFINE w == row[r]
<1>0. w \in Row /\ scan \in [Scans -> ScanStatus]
  BY DEF TypeOK
<1>e. \A s \in Scans : Reserved(s) => Reserved(s)'
  BY DEF Reserved
<1>1. CASE Tick(r) \/ RecheckDeferred(r)
  <2>1. Quietly(r, [w EXCEPT !.due = TRUE]) /\ [w EXCEPT !.due = TRUE].status = w.status
    BY <1>0, <1>1 DEF Tick, RecheckDeferred, Row
  <2> QED BY <1>e, <2>1, QuietBacks DEF Quietly
<1>2. CASE MarkWordRecheckQueued(r)
  <2> DEFINE v == [w EXCEPT !.status = "deferred", !.due = TRUE, !.att = 0,
                            !.waits = 0, !.word = "queued"]
  <2>1. Quietly(r, v) /\ v.status = "deferred"
    BY <1>0, <1>2 DEF MarkWordRecheckQueued, Row
  <2> QED BY <1>e, <2>1, QuietBacks DEF Quietly, Settled
<1>3. CASE Retry(r)
  <2> DEFINE v == [w EXCEPT !.status = "pending", !.due = TRUE, !.att = 0,
                            !.word = Unqueued(w.word)]
  <2>1. Write(r, v) /\ v.status = "pending" /\ link' = link
    BY <1>0, <1>3 DEF Retry, Row
  <2>2. \A s \in Scans : scan'[s] = "processing" => scan[s] = "processing"
    BY <1>3 DEF Retry, MoveLinked
  <2> QED BY <1>e, <2>1, <2>2, QuietBacks DEF Settled
<1>4. CASE Cleanup(r)
  <2> DEFINE D == {r}
  <2>1. DeleteResetting(D)
    BY <1>4 DEF Cleanup
  <2>2. D \in SUBSET Rows /\ \A q \in D : q = r
    OBVIOUS
  <2>3. \A s \in Scans : scan'[s] = "processing" =>
           /\ scan[s] = "processing"
           /\ \/ \A q \in D : <<q, s>> \notin link
              \/ \E q \in Rows \ D : <<q, s>> \in link /\ LiveOwner(row[q])
    BY <2>1 DEF DeleteResetting
  <2>4. /\ row' = [q \in Rows |-> IF q \in D THEN NoWork ELSE row[q]]
        /\ \A q \in Rows \ D, s \in Scans : <<q, s>> \in link => <<q, s>> \in link'
    BY <2>1 DEF DeleteResetting
  <2> HIDE DEF D
  <2> QED BY <1>e, <2>2, <2>3, <2>4, DeleteBacks DEF Waits
<1>5. CASE RecheckRetired(r, Libs)
  <2> DEFINE v == [w EXCEPT !.status = "deferred", !.due = TRUE, !.waits = 0,
                            !.word = Unqueued(w.word)]
  <2>1. Write(r, v) /\ v.status = "deferred" /\ link' = link
    BY <1>0, <1>5 DEF RecheckRetired, Row
  <2>2. \A s \in Scans : scan'[s] = "processing" => scan[s] = "processing"
    BY <1>5 DEF RecheckRetired
  <2> QED BY <1>e, <2>1, <2>2, QuietBacks DEF Settled
<1>6. CASE MarkManualInstrumentalTx(r) \/ SettleInstrumental(r, "deferred")
  <2>1. \E v : Answering(r, v)
    BY <1>6 DEF MarkManualInstrumentalTx, SettleInstrumental
  <2> QED BY <2>1, AnswerBacks
<1>8. CASE SweepRow(r)
  <2>1. PICK v : /\ Write(r, v) /\ row[r].status # "processing" /\ link' = link
                 /\ \A s \in Scans : scan'[s] = "processing" => scan[s] = "processing"
                 /\ \/ v.status \in {"pending", "deferred"}
                    \/ retireUnresolvable(r)
                    \/ v.status = row[r].status
    BY <1>0, <1>8, SweepRowWrites
  <2>2. v.status \in Settled => row[r].status \in Settled \/ <<r, b>> \notin link
    BY <2>1 DEF Settled, Spared
  <2> QED BY <1>e, <2>1, <2>2, QuietBacks
<1>7. ASSUME NEW s \in Scans \cup {NoScan}, EnqueueWebhook(r, s) PROVE Backed(b)'
  <2> DEFINE v == Upserted(w, TRUE)
  <2>1. Write(r, v) /\ scan' = scan /\ \A p \in link : p \in link'
    BY <1>7 DEF EnqueueWebhook
  <2>2. v.status \in Settled => w.status \in Settled
    BY <1>0 DEF Upserted, Settled, Row, NewWork, NoWork
  <2> HIDE DEF v
  <2> QED BY <1>e, <2>1, <2>2, QuietBacks
<1> QED BY <1>1, <1>2, <1>3, <1>4, <1>5, <1>6, <1>7, <1>8

LEMMA LibraryBacks ==
    ASSUME TypeOK, NEW b \in Scans, Backed(b), NEW l \in Libs, NEW Kept \in SUBSET Rows,
           CancelByLibrary(l, Kept), enq' = Dropped(l)
    PROVE  Backed(b)'
<1> DEFINE D == {r \in Rows : Cancellable(row[r]) /\ LinkedTo(r, l)} \ Kept
<1>1. row' = [q \in Rows |-> IF q \in D THEN NoWork ELSE row[q]]
  BY DEF CancelByLibrary
<1>2. \A s \in Scans : scan'[s] = "processing" =>
         /\ scan[s] = "processing" /\ LibOf[s] # l
         /\ \/ \A q \in D : <<q, s>> \notin link
            \/ \E q \in Rows \ D : <<q, s>> \in link /\ LiveOwner(row[q])
  BY DEF CancelByLibrary
<1>3. \A q \in Rows \ D, s \in Scans :
         <<q, s>> \in link /\ LibOf[s] # l => <<q, s>> \in link'
  BY DEF CancelByLibrary
<1>4. \A s \in Scans : LibOf[s] # l /\ Reserved(s) => Reserved(s)'
  BY DEF Reserved, Dropped
<1>5. D \in SUBSET Rows
  OBVIOUS
<1> HIDE DEF D
<1> QED BY <1>1, <1>2, <1>3, <1>4, <1>5, DeleteBacks DEF Waits

LEMMA OutsideBacks ==
    ASSUME Running, ServeInv, StrandInv, OutsideStep, NEW b \in Scans, Backed(b), Spared(b)
    PROVE  Backed(b)'
<1>0. /\ TypeOK /\ "upgrade" \notin Features
      /\ \A r \in Rows : WordShape(row[r])
  BY DEF ServeInv, Inv, Running
<1>1. ASSUME NEW r \in Rows, enq' = enq,
             \/ Tick(r) \/ MarkWordRecheckQueued(r) \/ MarkUpgradeQueued(r)
             \/ Retry(r) \/ Cleanup(r) \/ RecheckDeferred(r) \/ RecheckRetired(r, Libs)
             \/ MarkManualInstrumentalTx(r) \/ SweepRow(r)
             \/ \E s \in Scans \cup {NoScan} : EnqueueWebhook(r, s)
      PROVE  Backed(b)'
  BY <1>0, <1>1, OutsideRowBacks DEF MarkUpgradeQueued
<1>2. ASSUME NEW s \in Scans, NEW r \in Rows, NEW f \in BOOLEAN, Upsert(s, r, f), enq' = enq
      PROVE  Backed(b)'
  <2>1. \A t \in Scans : scan'[t] = "processing" => scan[t] = "processing"
    BY <1>0, <1>2 DEF Upsert, TypeOK
  <2> QED BY <1>0, <1>2, <2>1 DEF Upsert, Backed
<1>3. CASE ClearDone /\ enq' = enq
  <2> DEFINE D == {r \in Rows : row[r].status = "done" /\ ~row[r].manual}
  <2>1. /\ row' = [q \in Rows |-> IF q \in D THEN NoWork ELSE row[q]]
        /\ scan' = scan
        /\ \A q \in Rows \ D, s \in Scans : <<q, s>> \in link => <<q, s>> \in link'
    BY <1>3 DEF ClearDone
  <2>2. D \in SUBSET Rows /\ \A q \in D, s \in Scans : ~Waits(q, s)
    BY DEF Waits, Settled
  <2>3. \A s \in Scans : Reserved(s) => Reserved(s)'
    BY <1>3 DEF Reserved
  <2> HIDE DEF D
  <2> QED BY <1>0, <1>3, <2>1, <2>2, <2>3, DeleteBacks
<1>4. ASSUME NEW l \in Libs, NEW Kept \in SUBSET Rows, CancelByLibrary(l, Kept), enq' = Dropped(l)
      PROVE  Backed(b)'
  BY <1>0, <1>4, LibraryBacks
<1> QED BY <1>1, <1>2, <1>3, <1>4 DEF OutsideStep, SweepRow

(* The enqueuer: the result it offers becomes the row's, unless the row is   *)
(* settled and nobody else owes it; then it is done.                         *)
LEMMA OfferBacks ==
    ASSUME TypeOK, NEW b \in Scans, Backed(b), OneReserved, NEW e \in enq.cur,
           NEW c \in BOOLEAN, e \in Scans \X Rows, EnqueueScan(e[2], e[1], c)
    PROVE  Backed(b)'
<1> DEFINE r == e[2]
           t == e[1]
           w == row[r]
           v == Upserted(ForScan(w, c), FALSE)
<1>1. r \in Rows /\ t \in Scans /\ w \in Row /\ scan \in [Scans -> ScanStatus]
  BY DEF TypeOK
<1>2. /\ \A q \in Rows : row'[q] = IF q = r THEN v ELSE row[q]
      /\ link' = link \cup {<<r, t>>}
      /\ scan' = IF v.status \in Settled /\ scan[t] # "done" /\ NoLiveSibling(r, t)
                 THEN [scan EXCEPT ![t] = "done"] ELSE scan
  BY <1>1 DEF EnqueueScan, Write, TypeOK
<1>3. v.status \in Settled => w.status \in Settled
  <2>1. Reopened(w).status = "pending"
    BY <1>1 DEF Reopened, Row
  <2>2. ForScan(w, c) \in {w, Reopened(w)}
    BY <2>1 DEF ForScan, reopenWordRecheckForScan, reopenCategoricalForScan
  <2>3. \A x : x.status \in RowStatus \ Settled => Upserted(x, FALSE).status \notin Settled
               \/ Upserted(x, FALSE) \in {x, [x EXCEPT !.due = x.due \/ FALSE], [x EXCEPT !.due = TRUE]}
    BY DEF Upserted, NewWork, NoWork, Settled
  <2>4. CASE ForScan(w, c) = w
    BY <1>1, <2>4 DEF Upserted, NewWork, NoWork, Settled, Row
  <2>5. CASE ForScan(w, c) = Reopened(w)
    <3>1. Upserted(Reopened(w), FALSE) = [Reopened(w) EXCEPT !.due = TRUE]
      BY <2>1 DEF Upserted
    <3>2. [Reopened(w) EXCEPT !.due = TRUE].status = "pending"
      BY <1>1 DEF Reopened, Row
    <3> QED BY <2>5, <3>1, <3>2 DEF Settled
  <2> QED BY <2>2, <2>4, <2>5
<1> HIDE DEF v
<1> SUFFICES ASSUME scan'[b] = "processing"
             PROVE  \E q \in Rows : <<q, b>> \in link' /\ row'[q].status \notin Settled
  BY DEF Backed
<1>4. scan[b] = "processing"
  BY <1>1, <1>2
<1>5. CASE b # t
  <2>1. PICK q \in Rows : Waits(q, b)
    BY <1>4, <1>5 DEF Backed, OneReserved, Waits
  <2> QED BY <1>2, <1>3, <2>1 DEF Waits
<1>6. CASE b = t /\ v.status \in Settled
  BY <1>1, <1>2, <1>4, <1>6 DEF NoLiveSibling, LiveOwner
<1>7. CASE b = t /\ v.status \notin Settled
  BY <1>1, <1>2, <1>7
<1> QED BY <1>5, <1>6, <1>7

LEMMA EnqueuerBacks ==
    ASSUME Running, ServeInv, StrandInv, EnqueuerStep, NEW b \in Scans, Backed(b)
    PROVE  Backed(b)'
<1>0. /\ TypeOK /\ OneReserved /\ "shutdown" \notin Features
      /\ enq \in [todo : SUBSET (Scans \X Rows), cur : SUBSET (Scans \X Rows)]
      /\ scan \in [Scans -> ScanStatus]
  BY DEF ServeInv, ServeTypeOK, Inv, TypeOK, StrandInv, Running
<1>1. ASSUME enq.cur = {}, UNCHANGED vars, enq'.cur = {} PROVE Backed(b)'
  BY <1>0, <1>1 DEF vars, Backed, OneReserved
<1>2. CASE (\E l \in Libs : ListPendingByLibrary(l)) \/ abortPass
           \/ \E e \in enq.todo : suppress(e)
  BY <1>0, <1>1, <1>2 DEF ListPendingByLibrary, abortPass, suppress, Enq, NoEnq
<1>3. ASSUME NEW e \in enq.todo, cacheHit(e) PROVE Backed(b)'
  <2>1. \A s \in Scans : scan'[s] = "processing" => scan[s] = "processing"
    BY <1>0, <1>3 DEF cacheHit, Enq, SetStatus
  <2> QED BY <1>0, <1>3, <2>1 DEF cacheHit, Enq, SetStatus, Backed, OneReserved
<1>4. ASSUME NEW e \in enq.todo, reserve(e) PROVE Backed(b)'
  <2>1. \A s \in Scans : scan'[s] = "processing" => scan[s] = "processing" \/ s = e[1]
    BY <1>0, <1>4 DEF reserve, Enq, SetStatus
  <2>2. enq.cur = {} /\ enq'.cur = {e} /\ row' = row /\ link' = link
    BY <1>4 DEF reserve, Enq, SetStatus
  <2> QED BY <1>0, <2>1, <2>2 DEF Backed, OneReserved
<1>5. ASSUME NEW e \in enq.cur, restorePending(e) PROVE Backed(b)'
  <2>1. e[1] \in Scans /\ enq'.cur = {} /\ row' = row /\ link' = link
        /\ scan' = [scan EXCEPT ![e[1]] = "pending"]
    BY <1>0, <1>5 DEF restorePending, Enq, SetStatus
  <2>2. \A s \in Scans : scan'[s] = "processing" => scan[s] = "processing" /\ s # e[1]
    BY <1>0, <2>1
  <2> QED BY <1>0, <2>1, <2>2 DEF Backed, OneReserved
<1>6. ASSUME NEW e \in enq.cur, offer(e) PROVE Backed(b)'
  <2>1. enq'.cur = {} /\ e \in Scans \X Rows
    BY <1>0, <1>6 DEF offer, Enq
  <2>2. \E c \in BOOLEAN : EnqueueScan(e[2], e[1], c)
    BY <1>6 DEF offer, Enq
  <2> QED BY <1>0, <2>1, <2>2, OfferBacks
<1> QED BY <1>2, <1>3, <1>4, <1>5, <1>6 DEF EnqueuerStep

(* The worker's calls, on the row its pass holds. *)
WorkerCall(r) ==
    \/ Release(r) \/ ReleaseUntil(r) \/ Fail(r) \/ Defer(r) \/ DeferRefused(r)
    \/ ClearSourceGone(r) \/ RetryWordRecheckWrite(r) \/ ClearWordTimingState(r)
    \/ \E out : SetOutcomeType(r, out)
    \/ \E state : SetWordTimingState(r, state)
    \/ \E state \in {"served", "absent"} : SettleWordRecheck(r, state)
    \/ \E m : DeferWordRecheck(r, m)
    \/ SettleUpgradeTrip(r) \/ \E c \in BOOLEAN : SettleGoneUpgradeTrip(r, c)
    \/ RetireMiss(r) \/ SettleGuardRejected(r)
    \/ SettleInstrumental(r, "processing") \/ Complete(r)
    \/ UNCHANGED vars

LEMMA WorkerCallBacks ==
    ASSUME TypeOK, NEW b \in Scans, Backed(b), enq' = enq, NEW r \in Rows, row[r].status = "processing",
           ~row[r].upg,
           WorkerCall(r)
    PROVE  Backed(b)'
<1> DEFINE w == row[r]
<1>0. w \in Row /\ \A s \in Scans : Reserved(s) => Reserved(s)'
  BY DEF TypeOK, Reserved
<1>q. ASSUME NEW v, Quietly(r, v), v.status \notin Settled PROVE Backed(b)'
  BY <1>0, <1>q, QuietBacks DEF Quietly
<1>1. CASE Release(r) \/ ReleaseUntil(r)
  <2>1. \A d : /\ [w EXCEPT !.status = w.prev].status \notin Settled
               /\ [w EXCEPT !.status = w.prev, !.due = d].status \notin Settled
    BY <1>0 DEF Row, Eligible, Settled
  <2> QED BY <1>1, <1>q, <2>1 DEF Release, ReleaseUntil
<1>d. \A st \in {"deferred", "processing"} : st \notin Settled
  BY DEF Settled
<1>2. CASE Defer(r) \/ DeferRefused(r) \/ RetryWordRecheckWrite(r)
  <2>1. \A n : /\ [w EXCEPT !.status = "deferred", !.due = FALSE].status = "deferred"
               /\ [w EXCEPT !.status = "deferred", !.due = FALSE, !.miss = n].status = "deferred"
               /\ [w EXCEPT !.status = "deferred", !.due = FALSE, !.waits = n].status = "deferred"
    BY <1>0 DEF Row
  <2> QED BY <1>2, <1>d, <1>q, <2>1 DEF Defer, DeferRefused, RetryWordRecheckWrite
<1>3. CASE \/ ClearSourceGone(r) \/ ClearWordTimingState(r)
           \/ (\E out : SetOutcomeType(r, out)) \/ (\E state : SetWordTimingState(r, state))
  <2>1. \A x : /\ [w EXCEPT !.gone = x].status = "processing"
               /\ [w EXCEPT !.word = x].status = "processing"
               /\ [w EXCEPT !.out = x].status = "processing"
    BY <1>0 DEF Row
  <2> QED BY <1>3, <1>d, <1>q, <2>1
          DEF ClearSourceGone, ClearWordTimingState, SetOutcomeType, SetWordTimingState
<1>a. ASSUME NEW v, Answering(r, v) PROVE Backed(b)'
  BY <1>a, AnswerBacks
<1>4. CASE (\E state \in {"served", "absent"} : SettleWordRecheck(r, state))
           \/ RetireMiss(r) \/ SettleGuardRejected(r)
           \/ SettleInstrumental(r, "processing") \/ Complete(r)
  BY <1>4, <1>a DEF SettleWordRecheck, RetireMiss, SettleGuardRejected, SettleInstrumental,
                    Complete
<1>5. CASE \E m : DeferWordRecheck(r, m)
  <2>1. \A n : [w EXCEPT !.status = "deferred", !.due = FALSE, !.waits = n].status = "deferred"
    BY <1>0 DEF Row
  <2> QED BY <1>5, <1>a, <1>d, <1>q, <2>1 DEF DeferWordRecheck
<1>6. CASE SettleUpgradeTrip(r) \/ \E c \in BOOLEAN : SettleGoneUpgradeTrip(r, c)
  BY <1>6 DEF SettleUpgradeTrip, SettleGoneUpgradeTrip
<1>7. CASE Fail(r)
  <2> DEFINE v == [w EXCEPT !.status = "failed", !.due = FALSE, !.att = Bump(w.att, AttCap)]
  <2>1. Write(r, v) /\ v.status = "failed" /\ link' = link
    BY <1>0, <1>7 DEF Fail, Row
  <2>2. \A s \in Scans : scan'[s] = "processing" => scan[s] = "processing"
    BY <1>7 DEF Fail, MoveLinked
  <2> QED BY <1>0, <2>1, <2>2, QuietBacks DEF Settled
<1>8. CASE UNCHANGED vars
  BY <1>8 DEF vars, Backed
<1> QED BY <1>1, <1>2, <1>3, <1>4, <1>5, <1>6, <1>7, <1>8 DEF WorkerCall

LEMMA PassBacks ==
    ASSUME ServeInv, BlankInv, StrandInv, PassStep, NEW b \in Scans, Backed(b)
    PROVE  Backed(b)'
<1>0. /\ TypeOK
      /\ pass.ph # "idle" => /\ pass.r \in Rows /\ row[pass.r].status = "processing"
                             /\ ~row[pass.r].upg /\ ~pass.upg
  BY PassHolds DEF ServeInv, Inv, StrandInv, NoTrip, Holding
<1>1. enq' = enq
  BY DEF PassStep, orphanClaim, parkIfLibraryOffline, releaseClaim, runWordRecheck,
         preflightOutputs, fetchEndsEmpty, guardRejected, writeSong, failAfterWrite,
         stampOutcome, stampWordTiming, completePass, completeDetectorInstrumental,
         End, Go, others
<1>k. ASSUME row' = row, scan' = scan, link' = link PROVE Backed(b)'
  BY <1>0, <1>1, <1>k DEF Backed
<1>w. ASSUME pass.ph # "idle", WorkerCall(pass.r) PROVE Backed(b)'
  BY <1>0, <1>1, <1>w, WorkerCallBacks
<1> USE DEF End, Go, Claimed, Fetching, WorkerCall
<1>3. CASE orphanClaim \/ parkIfLibraryOffline \/ releaseClaim
  BY <1>0, <1>3, <1>w DEF orphanClaim, parkIfLibraryOffline, releaseClaim
<1>4. CASE runWordRecheck
  BY <1>0, <1>4, <1>w DEF runWordRecheck
<1>r. requeueDeferred /\ pass.ph # "idle" => Backed(b)'
  BY <1>0, <1>w DEF requeueDeferred
<1>f. /\ \A landed, rejected \in BOOLEAN :
            failPass(landed, rejected) /\ pass.ph # "idle" => Backed(b)'
      /\ \A never \in BOOLEAN : failStuckItem(never) /\ pass.ph # "idle" => Backed(b)'
  BY <1>0, <1>w DEF failPass, failStuckItem
<1>c. clearWordTiming /\ pass.ph # "idle" => Backed(b)'
  BY <1>0, <1>w DEF clearWordTiming, BestEffort
<1>5. CASE preflightOutputs
  BY <1>0, <1>5, <1>f, <1>w DEF preflightOutputs
<1>6. CASE fetchEndsEmpty
  BY <1>0, <1>6, <1>f, <1>r, <1>c, <1>w DEF fetchEndsEmpty
<1>7. CASE guardRejected \/ failAfterWrite
  BY <1>0, <1>7, <1>f, <1>w DEF guardRejected, failAfterWrite
<1>8. CASE \E v \in Verdicts : \E f \in FilesOf(v) : writeSong(v, f)
  BY <1>8, <1>k DEF writeSong, vars
<1>9. CASE stampOutcome
  BY <1>0, <1>9, <1>w DEF stampOutcome, BestEffort
<1>10. CASE stampWordTiming
  BY <1>0, <1>10, <1>c, <1>w DEF stampWordTiming, BestEffort
<1>11. CASE completePass
  BY <1>0, <1>11, <1>f, <1>w DEF completePass
<1>12. CASE completeDetectorInstrumental
  BY <1>0, <1>12, <1>r, <1>c, <1>k, <1>w
     DEF completeDetectorInstrumental, vars
<1> QED BY <1>3, <1>4, <1>5, <1>6, <1>7, <1>8, <1>9, <1>10, <1>11, <1>12 DEF PassStep

(* The enqueuer holds one result at a time. *)
LEMMA OneReservedStep == ServeInv /\ OneReserved /\ [ServeNext]_svars => OneReserved'
<1> SUFFICES ASSUME ServeInv, OneReserved, [ServeNext]_svars PROVE OneReserved'
  OBVIOUS
<1>1. enq \in [todo : SUBSET (Scans \X Rows), cur : SUBSET (Scans \X Rows)]
  BY DEF ServeInv, ServeTypeOK
<1>2. CASE enq' = enq
  BY <1>2 DEF OneReserved
<1>3. CASE \E l \in Libs : enq' = Dropped(l)
  BY <1>3 DEF OneReserved, Dropped
<1>4. CASE EnqueuerStep
  <2>1. ASSUME enq'.cur = {} PROVE OneReserved'
    BY <2>1 DEF OneReserved
  <2>2. ASSUME NEW e \in enq.todo, reserve(e) PROVE OneReserved'
    <3>1. enq'.cur = {e}
      BY <2>2 DEF reserve, Enq
    <3> QED BY <3>1 DEF OneReserved
  <2>3. (\E l \in Libs : ListPendingByLibrary(l)) \/ abortPass => enq'.cur = {}
    BY <1>1 DEF ListPendingByLibrary, abortPass, Enq, NoEnq
  <2>4. \A e \in enq.todo : suppress(e) \/ cacheHit(e) => enq'.cur = {}
    BY <1>1 DEF suppress, cacheHit, Enq
  <2>5. \A e \in enq.cur : restorePending(e) \/ offer(e) => enq'.cur = {}
    BY <1>1 DEF restorePending, offer, Enq
  <2> QED BY <1>4, <2>1, <2>2, <2>3, <2>4, <2>5 DEF EnqueuerStep
<1>5. CASE Crash
  BY <1>5 DEF Crash, NoEnq, OneReserved
<1>6. CASE PassStep
  BY <1>2, <1>6
     DEF PassStep, orphanClaim, parkIfLibraryOffline, releaseClaim, runWordRecheck,
         preflightOutputs, fetchEndsEmpty, guardRejected, writeSong, failAfterWrite,
         stampOutcome, stampWordTiming, completePass, completeDetectorInstrumental,
         End, Go, others
<1>7. CASE BackfillStep
  BY <1>2, <1>7 DEF BackfillStep, ListUnclassified, dropCandidate, writeMarkers,
                    settleMarker, Bf
<1>8. CASE OutsideStep
  BY <1>2, <1>3, <1>8 DEF OutsideStep
<1>9. ASSUME NEW r \in Rows, Claim(r) PROVE OneReserved'
  BY <1>2, <1>9 DEF Claim, others
<1>10. CASE UNCHANGED svars
  BY <1>2, <1>10 DEF svars
<1> QED BY <1>4, <1>5, <1>6, <1>7, <1>8, <1>9, <1>10 DEF ServeNext

LEMMA StrandInvStep ==
    ASSUME Running
    PROVE  ServeInv /\ BlankInv /\ StrandInv /\ [ServeNext]_svars => StrandInv'
<1> SUFFICES ASSUME ServeInv, BlankInv, StrandInv, [ServeNext]_svars PROVE StrandInv'
  OBVIOUS
<1>1. AllMove /\ NoTrip
  BY StepMoves DEF StrandInv
<1>2. NoTrip'
  BY <1>1 DEF AllMove, Moves, NoTrip, Running
<1>3. OneReserved'
  BY OneReservedStep DEF StrandInv
<1> QED BY <1>2, <1>3 DEF StrandInv

LEMMA StrandStep ==
    ASSUME Running, ServeInv, BlankInv, StrandInv, [ServeNext]_svars,
           NEW b \in Scans, Backed(b), Spared(b)
    PROVE  Backed(b)'
<1>0. TypeOK /\ bf \in [r : Rows \cup {NoRow},
         ph : {"idle", "listed", "written"}] /\ (bf.r = NoRow <=> bf.ph = "idle")
      /\ \A r \in Rows : WordShape(row[r])
  BY DEF ServeInv, ServeTypeOK, Inv
<1>2. ASSUME NEW r \in Rows, Claim(r) PROVE Backed(b)'
  <2> DEFINE v == [row[r] EXCEPT !.status = "processing", !.prev = row[r].status]
  <2>1. Quietly(r, v) /\ enq' = enq
    BY <1>2 DEF Claim, Dequeue, others
  <2>2. v.status \notin Settled
    BY <1>0 DEF TypeOK, Row, Settled
  <2>3. \A s \in Scans : Reserved(s) => Reserved(s)'
    BY <2>1 DEF Reserved
  <2> HIDE DEF v
  <2> QED BY <1>0, <2>1, <2>2, <2>3, QuietBacks DEF Quietly
<1>3. CASE BackfillStep
  <2>1. enq' = enq /\ (UNCHANGED vars \/ (bf.r \in Rows /\ SettleInstrumental(bf.r, "deferred")))
    BY <1>0, <1>3, NoRowAssumption
       DEF BackfillStep, ListUnclassified, dropCandidate, writeMarkers, settleMarker, Bf
  <2>2. UNCHANGED vars /\ enq' = enq => Backed(b)'
    BY DEF vars, Backed
  <2> QED BY <1>0, <2>1, <2>2, OutsideRowBacks
<1>4. ~Crash
  BY DEF Crash, Running
<1>5. CASE UNCHANGED svars
  BY <1>5 DEF svars, vars, Backed
<1> QED BY <1>2, <1>3, <1>4, <1>5, PassBacks, EnqueuerBacks, OutsideBacks
        DEF ServeNext

(* A scan result in 'processing' that the enqueuer holds or a linked row     *)
(* owes stays so until it is answered or put back, for any number of rows    *)
(* and results and whatever the worker, webhooks, operators, rescans, the    *)
(* detector and the backfill do, where no upgrade trip settles and the       *)
(* process does not stop in between.  The one exception is a step of prune   *)
(* that retires a row linked to it: that writes nothing back.                *)
THEOREM ServeNoStrandedScan ==
    ASSUME Running
    PROVE  ServeSpec => NoStrandedScan
<1> DEFINE Left == \A s \in Scans : Backed(s) =>
                     Backed(s)' \/ \E r \in Rows : <<r, s>> \in link /\ retireUnresolvable(r)
<1>1. ServeInit => StrandInv
  BY DEF ServeInit, Init, StrandInv, NoTrip, OneReserved, NoWork, NoEnq
<1>2. ServeInv /\ BlankInv /\ StrandInv /\ [ServeNext]_svars => [Left]_svars
  BY StrandStep DEF Spared
<1> QED BY <1>1, <1>2, StrandInvStep, BlankInvariant, PTL DEF ServeSpec, NoStrandedScan
=============================================================================
