-------------------------- MODULE LyricBlockProofs --------------------------
(* What holds of LyricBlock for every set of editions and of bodies. *)
EXTENDS LyricBlock, TLAPS

(* The rows that the actions build. *)
LEMMA WorkBuilt ==
    /\ NoWork \in Work
    /\ [NoWork EXCEPT !.status = "pending"] \in Work
    /\ [status |-> "done", out |-> "file", upg |-> FALSE] \in Work
    /\ \A w \in Work :
          /\ \A st \in Status : [w EXCEPT !.status = st] \in Work
          /\ [w EXCEPT !.status = "pending", !.upg = TRUE] \in Work
          /\ [w EXCEPT !.status = "done", !.upg = FALSE] \in Work
          /\ [w EXCEPT !.status = "done", !.out = "blocked"] \in Work
          /\ [w EXCEPT !.status = "pending", !.out = "null"] \in Work
          /\ \A st \in Status : [status |-> st, out |-> "null", upg |-> FALSE] \in Work
          /\ w.status \in Status
          /\ Reopened(w) \in Work
          /\ w.status = "processing" => Reopened(w) = w
BY DEF Work, NoWork, Status, Record, Reopened

(* Writing one row leaves the others alone. *)
LEMMA SetRow ==
    ASSUME NEW r \in Rows, NEW w \in Work, row \in [Rows -> Work], Set(r, w)
    PROVE  /\ row' \in [Rows -> Work]
           /\ row'[r] = w
           /\ \A q \in Rows \ {r} : row'[q] = row[q]
BY DEF Set

(* A row that the worker does not hold may be written by anyone. *)
LEMMA FreeRow ==
    ASSUME TypeOK, NEW r \in Rows, NEW w \in Work, Set(r, w),
           row[r].status # "processing", UNCHANGED <<disk, blocks, saved, mark, wk>>
    PROVE  TypeOK'
<1>1. wk.ph # "idle" => wk.r # r
  BY DEF TypeOK
<1> QED BY <1>1, SetRow DEF TypeOK

(* The worker's pass ends. *)
LEMMA SettleTypes ==
    ASSUME TypeOK, NEW w \in Work, Settle(w), wk.ph # "idle"
    PROVE  TypeOK'
<1>1. NoPass \in PassState /\ NoPass.ph = "idle"
  BY DEF NoPass, PassState, WorkPhases, Files
<1> QED BY <1>1, SetRow DEF TypeOK, Settle

(* The worker's pass goes on. *)
LEMMA StepTypes ==
    ASSUME TypeOK, NEW ph \in WorkPhases \ {"idle"}, NEW body \in Files,
           Step(ph, body), wk.ph # "idle"
    PROVE  TypeOK'
<1>1. wk' \in PassState /\ wk'.ph = ph /\ wk'.r = wk.r
  BY DEF Step, TypeOK, PassState
<1> QED BY <1>1 DEF Step, TypeOK

(* Every step of the worker keeps the types, and its row claimed. *)
LEMMA WorkerTypes ==
    ASSUME TypeOK, WorkerStep
    PROVE  TypeOK'
<1>0. /\ wk.ph # "idle" => wk.r \in Rows /\ row[wk.r] \in Work
      /\ wk.body \in Files
      /\ {"pending", "failed", "processing"} \subseteq Status
      /\ NoBody \in Files /\ Bodies \subseteq Files
      /\ {"fetched", "checked", "kept", "allblocked"} \subseteq WorkPhases \ {"idle"}
  BY DEF TypeOK, PassState, Status, Files, WorkPhases
<1>1. ASSUME NEW r \in Rows, Claim(r) PROVE TypeOK'
  <2>1. /\ row' \in [Rows -> Work]
        /\ row'[r].status = "processing"
    <3>1. row[r] \in Work
      BY DEF TypeOK
    <3>2. [row[r] EXCEPT !.status = "processing"].status = "processing"
      BY <3>1 DEF Work
    <3> QED BY <1>0, <1>1, <3>1, <3>2, WorkBuilt, SetRow DEF Claim, TypeOK
  <2>2. wk' \in PassState /\ wk'.r = r
    BY <1>1 DEF Claim, NoPass, PassState, WorkPhases, Files
  <2> QED BY <1>1, <2>1, <2>2 DEF Claim, TypeOK
<1>2. ASSUME NEW offered \in SUBSET Bodies, Dispatch(offered) PROVE TypeOK'
  BY <1>0, <1>2, StepTypes DEF Dispatch
<1>3. CASE EndEmpty
  BY <1>0, <1>3, WorkBuilt, SettleTypes DEF EndEmpty
<1>4. CASE Backstop \/ Keep
  BY <1>0, <1>4, StepTypes DEF Backstop, Keep
<1>5. CASE Land
  <2>1. mark' \in MarkState /\ mark'.ph = mark.ph /\ mark'.r = mark.r /\ mark'.rec = mark.rec
    BY <1>5 DEF Land, TypeOK, MarkState
  <2>2. wk' \in PassState /\ wk'.r = wk.r
    BY <1>5 DEF Land, TypeOK, PassState, WorkPhases
  <2>3. disk' \in [Rows -> Files]
    BY <1>0, <1>5 DEF Land, TypeOK
  <2> QED BY <1>5, <2>1, <2>2, <2>3 DEF Land, TypeOK
<1>6. CASE Complete
  BY <1>0, <1>6, WorkBuilt, SettleTypes DEF Complete
<1>7. CASE settleBlocked
  BY <1>0, <1>7, WorkBuilt, SettleTypes DEF settleBlocked
<1> QED BY <1>1, <1>2, <1>3, <1>4, <1>5, <1>6, <1>7 DEF WorkerStep

(* Every step of Mark keeps the types: it never writes a claimed row. *)
LEMMA MarkTypes ==
    ASSUME TypeOK, MarkStep
    PROVE  TypeOK'
<1>0. /\ NoMark \in MarkState /\ NoMark.ph = "idle"
      /\ mark.ph # "idle" => mark.r \in Rows
  BY DEF TypeOK, NoMark, MarkState, MarkPhases, Files
<1>a. CASE Abandon
  BY <1>0, <1>a DEF Abandon, Marking, TypeOK
<1>1. ASSUME NEW r \in Rows, load(r) PROVE TypeOK'
  <2>1. mark' \in MarkState /\ mark'.r = r /\ mark'.ph = "loaded"
    BY <1>1 DEF load, Marking, NoMark, MarkState, MarkPhases, Files
  <2> QED BY <1>1, <2>1 DEF load, Marking, TypeOK
<1>2. CASE backup
  <2>1. CASE disk[mark.r] = NoBody
    <3>1. mark' \in MarkState /\ mark'.ph \in {"removed", "idle"}
                              /\ (mark'.ph = "removed" => mark'.r = mark.r)
      BY <1>0, <1>2, <2>1 DEF backup, Marking, TypeOK, MarkState, MarkPhases
    <3> QED BY <1>0, <1>2, <2>1, <3>1 DEF backup, Marking, TypeOK
  <2>2. CASE disk[mark.r] # NoBody
    <3>1. mark.r \in Rows /\ disk[mark.r] \in Bodies
      BY <1>0, <1>2, <2>2 DEF backup, TypeOK, Files
    <3>2. mark' \in MarkState /\ mark'.r = mark.r /\ mark'.rec \in Bodies
      BY <1>2, <2>2, <3>1 DEF backup, Marking, TypeOK, MarkState, MarkPhases, Files
    <3>3. saved' \subseteq Rows \X Bodies
      BY <1>2, <2>2, <3>1 DEF backup, TypeOK
    <3> QED BY <1>2, <3>1, <3>2, <3>3 DEF backup, Marking, TypeOK
  <2> QED BY <2>1, <2>2
<1>3. CASE block /\ Guarded(mark.r)
  <2>1. mark' \in MarkState /\ mark'.r = mark.r /\ mark'.rec = mark.rec
    BY <1>3 DEF block, Marking, TypeOK, MarkState, MarkPhases
  <2> QED BY <1>3, <2>1 DEF block, Marking, TypeOK
<1>4. CASE reread
  <2>1. /\ mark.r \in Rows /\ disk[mark.r] \in Files
        /\ disk[mark.r] # NoBody => disk[mark.r] \in Bodies
    BY <1>0, <1>4 DEF reread, TypeOK, Files
  <2>2. /\ mark' \in MarkState /\ mark'.r = mark.r /\ mark'.ph \in {"remove", "extra"}
        /\ mark'.ph = "extra" => mark'.rec \in Bodies
    BY <1>4, <2>1 DEF reread, Marking, TypeOK, MarkState, MarkPhases
  <2>3. saved' \subseteq Rows \X Bodies
    BY <1>4, <2>1 DEF reread, TypeOK
  <2> QED BY <1>4, <2>1, <2>2, <2>3 DEF reread, Marking, TypeOK
<1>5. CASE blockExtra
  <2>1. mark' \in MarkState /\ mark'.r = mark.r /\ mark'.ph = "remove"
    BY <1>5 DEF blockExtra, Marking, TypeOK, MarkState, MarkPhases
  <2> QED BY <1>5, <2>1 DEF blockExtra, Marking, TypeOK
<1>6. CASE compare /\ ~Abandon
  <2>1. /\ mark' \in MarkState /\ mark'.r = mark.r
        /\ mark'.ph = "removed" \/ (mark'.ph = "compared" /\ mark'.rec \in Bodies)
    BY <1>0, <1>6 DEF compare, Marking, TypeOK, MarkState, MarkPhases, Files
  <2> QED BY <1>0, <1>6, <2>1 DEF compare, Marking, TypeOK
<1>7. CASE unlink
  <2>1. mark' \in MarkState /\ mark'.r = mark.r /\ mark'.ph = "removed"
    BY <1>7 DEF unlink, Marking, TypeOK, MarkState, MarkPhases
  <2> QED BY <1>7, <2>1 DEF unlink, Marking, TypeOK, Files
<1>8. CASE reopen
  <2>1. CASE Guarded(mark.r)
    <3>1. mark.r \in Rows /\ row[mark.r] \in Work /\ row[mark.r].status # "processing"
      BY <1>0, <1>8, <2>1 DEF reopen, Guarded, TypeOK
    <3>2. wk.ph # "idle" => wk.r # mark.r
      BY <3>1 DEF TypeOK
    <3>3. PICK w \in Work : Set(mark.r, w)
      BY <1>8, <2>1, <3>1, WorkBuilt DEF reopen, Status
    <3>4. row' \in [Rows -> Work] /\ \A q \in Rows \ {mark.r} : row'[q] = row[q]
      BY <3>1, <3>3, SetRow DEF TypeOK
    <3> QED BY <1>0, <1>8, <3>2, <3>4 DEF reopen, Marking, TypeOK
  <2>2. CASE ~Guarded(mark.r)
    BY <1>0, <1>8, <2>2 DEF reopen, Marking, TypeOK
  <2> QED BY <2>1, <2>2
<1> QED BY <1>a, <1>1, <1>2, <1>3, <1>4, <1>5, <1>6, <1>7, <1>8
        DEF MarkStep, block, interrupted

LEMMA BlockTypesStep ==
    ASSUME TypeOK, [Next]_vars
    PROVE  TypeOK'
<1>1. ASSUME NEW r \in Rows, Enqueue(r) \/ Cleanup(r) \/ MarkUpgradeQueued(r)
      PROVE  TypeOK'
  <2>1. row[r] \in Work
    BY DEF TypeOK
  <2> QED BY <1>1, <2>1, WorkBuilt, FreeRow DEF Enqueue, Cleanup, MarkUpgradeQueued
<1>2. ASSUME NEW B, Unblock(B) PROVE TypeOK'
  BY <1>2, WorkBuilt DEF Unblock, TypeOK
<1>3. CASE DeleteOrphans
  BY <1>3 DEF DeleteOrphans, TypeOK
<1>4. CASE UNCHANGED vars
  BY <1>4 DEF vars, TypeOK
<1> QED BY <1>1, <1>2, <1>3, <1>4, WorkerTypes, MarkTypes DEF Next

(* LyricBlock keeps its types: who works on a row really holds it, so Mark's  *)
(* guards keep it off every row that the worker has claimed.                 *)
THEOREM BlockTypes == Spec => []TypeOK
<1>1. Init => TypeOK
  BY DEF Init, TypeOK, NoWork, NoMark, NoPass, Work, MarkState, PassState, Status, Record,
         Files, MarkPhases, WorkPhases
<1>2. TypeOK /\ [Next]_vars => TypeOK'
  BY BlockTypesStep
<1> QED BY <1>1, <1>2, PTL DEF Spec

-----------------------------------------------------------------------------
(* The inductive form: only a settled row carries the blocked label, so no   *)
(* trip, claim or release can bring the label back to a row without a block. *)
LabelInv ==
    \A r \in Rows : row[r].out = "blocked" => row[r].status = "done" /\ blocks # {}

(* A step that writes one row, and only a row that keeps LabelInv. *)
LEMMA LabelRow ==
    ASSUME TypeOK, LabelInv, NEW r \in Rows, NEW w \in Work, Set(r, w), blocks' = blocks,
           w.out = "blocked" => w.status = "done" /\ blocks # {}
    PROVE  LabelInv'
BY SetRow DEF LabelInv, TypeOK

(* What the actions leave in the label of a row. *)
LEMMA LabelBuilt ==
    ASSUME NEW w \in Work
    PROVE  /\ \A st \in Status : [w EXCEPT !.status = st].out = w.out
           /\ [w EXCEPT !.status = "pending", !.upg = TRUE].out = w.out
           /\ [w EXCEPT !.status = "done", !.upg = FALSE].out = w.out
           /\ [w EXCEPT !.status = "done", !.out = "blocked"].status = "done"
           /\ Reopened(w).out = "blocked" => w.out = "blocked" /\ w.status # "done"
           /\ [NoWork EXCEPT !.status = "pending"].out = "null"
           /\ NoWork.out = "null"
BY DEF Work, Reopened, NoWork, Status, Record

LEMMA LabelStep ==
    ASSUME TypeOK, LabelInv, [Next]_vars
    PROVE  LabelInv'
<1>0. /\ wk.ph # "idle" => wk.r \in Rows /\ row[wk.r] \in Work /\ row[wk.r].status = "processing"
      /\ row \in [Rows -> Work]
      /\ {"pending", "failed", "processing", "done"} \subseteq Status
  BY DEF TypeOK, Status
<1>1. CASE UNCHANGED <<row, blocks>>
  BY <1>1 DEF LabelInv
<1>2. ASSUME NEW r \in Rows, Enqueue(r) \/ Cleanup(r) \/ MarkUpgradeQueued(r) \/ Claim(r)
      PROVE  LabelInv'
  <2>1. row[r] \in Work
    BY <1>0
  <2>2. CASE Enqueue(r) \/ Cleanup(r)
    BY <2>2, WorkBuilt, LabelBuilt, LabelRow, <2>1 DEF Enqueue, Cleanup
  <2>3. CASE MarkUpgradeQueued(r)
    BY <2>1, <2>3, WorkBuilt, LabelBuilt, LabelRow DEF MarkUpgradeQueued
  <2>4. CASE Claim(r)
    <3>1. row[r].out # "blocked"
      BY <2>4 DEF Claim, LabelInv
    <3> DEFINE w == [row[r] EXCEPT !.status = "processing"]
    <3>2. w \in Work /\ w.out # "blocked"
      BY <1>0, <2>1, <3>1 DEF Work, Status, Record
    <3>3. Set(r, w) /\ blocks' = blocks
      BY <2>4 DEF Claim
    <3> HIDE DEF w
    <3> QED BY <3>2, <3>3, LabelRow
  <2> QED BY <1>2, <2>2, <2>3, <2>4
<1>3. CASE EndEmpty \/ Complete \/ settleBlocked
  <2>1. /\ wk.r \in Rows /\ row[wk.r] \in Work
        /\ row[wk.r].out # "blocked"
    BY <1>0, <1>3 DEF EndEmpty, Complete, settleBlocked, LabelInv
  <2>2. PICK w \in Work : /\ Settle(w)
                          /\ w.out = "blocked" => w.status = "done" /\ blocks # {}
    <3> DEFINE v == row[wk.r]
               settled == [v EXCEPT !.status = "done", !.upg = FALSE]
               label == [v EXCEPT !.status = "done", !.out = "blocked"]
               full == [status |-> "done", out |-> "file", upg |-> FALSE]
    <3>0. /\ \A st \in {"pending", "failed"} :
                [v EXCEPT !.status = st] \in Work /\ [v EXCEPT !.status = st].out # "blocked"
          /\ settled \in Work /\ settled.out # "blocked"
          /\ label \in Work /\ label.status = "done"
          /\ full \in Work /\ full.out # "blocked"
      BY <2>1 DEF Work, Status, Record
    <3>1. CASE EndEmpty
      <4>1. \/ \E st \in {"pending", "failed"} : Settle([v EXCEPT !.status = st])
            \/ Settle(settled)
        BY <3>1 DEF EndEmpty
      <4> HIDE DEF v, settled
      <4> QED BY <3>0, <4>1
    <3>2. CASE Complete
      <4>1. Settle(full) \/ Settle([v EXCEPT !.status = "failed"])
        BY <3>2 DEF Complete
      <4> HIDE DEF v, full
      <4> QED BY <3>0, <4>1
    <3>3. CASE settleBlocked
      <4>1. \/ Settle(settled)
            \/ blocks # {} /\ Settle(label)
            \/ Settle([v EXCEPT !.status = "pending"])
        BY <3>3 DEF settleBlocked
      <4> HIDE DEF v, settled, label
      <4> QED BY <3>0, <4>1
    <3> QED BY <1>3, <3>1, <3>2, <3>3
  <2> QED BY <2>1, <2>2, LabelRow DEF Settle
<1>4. CASE block \/ blockExtra
  BY <1>1, <1>4 DEF block, blockExtra, Abandon, LabelInv
<1>5. CASE reopen
  <2>1. CASE Guarded(mark.r)
    <3>1. mark.r \in Rows /\ row[mark.r] \in Work
      BY <1>5 DEF reopen, TypeOK
    <3> DEFINE w == [status |-> IF row[mark.r].status = "done" THEN "pending"
                                ELSE row[mark.r].status, out |-> "null", upg |-> FALSE]
    <3>2. w \in Work /\ w.out = "null" /\ Set(mark.r, w) /\ blocks' = blocks
      BY <1>0, <1>5, <2>1, <3>1, WorkBuilt DEF reopen
    <3> QED BY <3>1, <3>2, LabelRow
  <2>2. CASE ~Guarded(mark.r)
    BY <1>1, <1>5, <2>2 DEF reopen
  <2> QED BY <2>1, <2>2
<1>6. ASSUME NEW B, Unblock(B) PROVE LabelInv'
  BY <1>0, <1>6, LabelBuilt DEF Unblock, LabelInv
<1>7. CASE DeleteOrphans
  BY <1>0, <1>7 DEF DeleteOrphans, LabelInv
<1>8. ASSUME NEW offered, Dispatch(offered) PROVE LabelInv'
  BY <1>1, <1>8 DEF Dispatch, Step
<1>9. CASE Backstop \/ Keep \/ Land
  BY <1>1, <1>9 DEF Backstop, Keep, Land, Step
<1>10. ASSUME NEW r \in Rows, load(r) PROVE LabelInv'
  BY <1>1, <1>10 DEF load
<1>11. CASE backup \/ reread \/ unlink \/ interrupted
  BY <1>1, <1>11 DEF backup, reread, unlink, interrupted, Abandon
<1>12. CASE compare
  BY <1>1, <1>12 DEF compare, Abandon
<1>13. CASE UNCHANGED vars
  BY <1>1, <1>13 DEF vars
<1> QED BY <1>2, <1>3, <1>4, <1>5, <1>6, <1>7, <1>8, <1>9, <1>10, <1>11, <1>12, <1>13
        DEF Next, WorkerStep, MarkStep

(* However marks, unblocks and passes interleave, over any number of editions:*)
(* a row settled as blocked always has a block whose removal reopens it.     *)
THEOREM BlockedRowsReopenable == Spec => []BlockedRowHasBlock
<1>1. Init => LabelInv
  BY DEF Init, LabelInv, NoWork
<1>2. TypeOK /\ LabelInv /\ [Next]_vars => LabelInv'
  BY LabelStep
<1>3. LabelInv => BlockedRowHasBlock
  BY DEF LabelInv, BlockedRowHasBlock
<1> QED BY <1>1, <1>2, <1>3, BlockTypes, PTL DEF Spec

-----------------------------------------------------------------------------
(* What Mark is about to unlink is in the backup, and unless a write came    *)
(* after the comparison it is still what is on disk; what the worker is      *)
(* about to write is a lyric.                                                *)
BackupInv ==
    /\ wk.ph \in {"fetched", "checked"} => wk.body \in Bodies
    /\ mark.ph \in {"read", "blocked", "extra", "remove", "compared"} /\ mark.rec # NoBody
          => <<mark.r, mark.rec>> \in saved
    /\ mark.ph = "compared" /\ ~mark.late => disk[mark.r] = mark.rec

LEMMA BackupWorker ==
    ASSUME TypeOK, BackupInv, WorkerStep
    PROVE  BackupInv'
<1>0. wk \in PassState /\ mark \in MarkState /\ disk \in [Rows -> Files]
  BY DEF TypeOK
<1>1. ASSUME NEW r \in Rows, Claim(r) PROVE BackupInv'
  BY <1>1 DEF Claim, NoPass, BackupInv
<1>2. ASSUME NEW offered \in SUBSET Bodies, Dispatch(offered) PROVE BackupInv'
  BY <1>0, <1>2 DEF Dispatch, Step, PassState, BackupInv
<1>3. CASE EndEmpty \/ Complete \/ settleBlocked
  <2>1. wk' = NoPass /\ UNCHANGED <<disk, saved, mark>>
    BY <1>3 DEF EndEmpty, Complete, settleBlocked, Settle
  <2>2. NoPass.ph = "idle"
    BY DEF NoPass
  <2> QED BY <2>1, <2>2 DEF BackupInv
<1>4. CASE Backstop
  <2>1. wk.ph = "fetched" /\ UNCHANGED <<disk, saved, mark>>
    BY <1>4 DEF Backstop, Step
  <2>2. wk'.ph = "allblocked" \/ (wk'.ph = "checked" /\ wk'.body = wk.body)
    BY <1>0, <1>4 DEF Backstop, Step, PassState
  <2> QED BY <2>1, <2>2 DEF BackupInv
<1>5. CASE Keep
  BY <1>0, <1>5 DEF Keep, Step, PassState, BackupInv
<1>6. CASE Land
  <2>1. /\ wk'.ph = "landed"
        /\ mark'.ph = mark.ph /\ mark'.r = mark.r /\ mark'.rec = mark.rec
        /\ mark'.late <=> mark.late \/ (mark.ph = "compared" /\ mark.r = wk.r)
    BY <1>0, <1>6 DEF Land, PassState, MarkState
  <2>2. saved' = saved /\ \A r \in Rows \ {wk.r} : disk'[r] = disk[r]
    BY <1>0, <1>6 DEF Land
  <2>3. mark.ph = "compared" => mark.r \in Rows
    BY DEF TypeOK
  <2> QED BY <2>1, <2>2, <2>3 DEF BackupInv
<1> QED BY <1>1, <1>2, <1>3, <1>4, <1>5, <1>6 DEF WorkerStep

LEMMA BackupMark ==
    ASSUME TypeOK, BackupInv, MarkStep
    PROVE  BackupInv'
<1> DEFINE Held == {"read", "blocked", "extra", "remove", "compared"}
<1>0. /\ mark \in MarkState /\ disk \in [Rows -> Files]
      /\ mark.ph # "idle" => mark.r \in Rows
  BY DEF TypeOK
\* what a step of Mark has to keep
<1>a. ASSUME wk' = wk, disk' = disk, saved \subseteq saved',
             mark'.ph \in Held /\ mark'.rec # NoBody => <<mark'.r, mark'.rec>> \in saved',
             mark'.ph = "compared" => disk[mark'.r] = mark'.rec
      PROVE  BackupInv'
  BY <1>a DEF BackupInv
<1>b. ASSUME mark' = NoMark, wk' = wk, disk' = disk, saved' = saved PROVE BackupInv'
  <2>1. NoMark.ph = "idle"
    BY DEF NoMark
  <2> QED BY <1>a, <1>b, <2>1
<1>1. ASSUME NEW r \in Rows, load(r) PROVE BackupInv'
  <2>1. wk' = wk /\ disk' = disk /\ saved' = saved /\ mark'.ph = "loaded"
    BY <1>1 DEF load, Marking, NoMark
  <2> QED BY <1>a, <2>1
<1>2. CASE backup
  <2>0. wk' = wk /\ disk' = disk
    BY <1>2 DEF backup, Marking
  <2>1. CASE disk[mark.r] = NoBody
    <3>1. saved' = saved /\ (mark' = NoMark \/ mark' = [mark EXCEPT !.ph = "removed"])
      BY <1>2, <2>1 DEF backup, Marking
    <3>2. CASE mark' = [mark EXCEPT !.ph = "removed"]
      <4>1. mark'.ph = "removed"
        BY <1>0, <3>2 DEF MarkState
      <4> QED BY <1>a, <2>0, <3>1, <4>1
    <3> QED BY <1>b, <2>0, <3>1, <3>2
  <2>2. CASE disk[mark.r] # NoBody
    <3>1. /\ saved' = saved \cup {<<mark.r, disk[mark.r]>>}
          /\ mark'.ph = "read" /\ mark'.r = mark.r /\ mark'.rec = disk[mark.r]
      BY <1>0, <1>2, <2>2 DEF backup, Marking, MarkState
    <3> QED BY <1>a, <2>0, <3>1
  <2> QED BY <2>1, <2>2
<1>3. CASE block
  <2>1. CASE Guarded(mark.r)
    <3>1. /\ wk' = wk /\ disk' = disk /\ saved' = saved
          /\ mark.ph = "read" /\ mark'.ph = "blocked"
          /\ mark'.r = mark.r /\ mark'.rec = mark.rec
      BY <1>0, <1>3, <2>1 DEF block, Marking, MarkState
    <3> QED BY <1>a, <3>1 DEF BackupInv
  <2>2. CASE ~Guarded(mark.r)
    BY <1>3, <1>b, <2>2 DEF block, Abandon, Marking
  <2> QED BY <2>1, <2>2
<1>4. CASE reread
  <2>1. /\ wk' = wk /\ disk' = disk
        /\ mark'.ph \in {"remove", "extra"}
        /\ mark'.r = mark.r /\ mark'.rec = disk[mark.r]
    BY <1>0, <1>4 DEF reread, Marking, MarkState
  <2>2. saved' = IF disk[mark.r] = NoBody THEN saved ELSE saved \cup {<<mark.r, disk[mark.r]>>}
    BY <1>4 DEF reread
  <2> QED BY <1>a, <2>1, <2>2
<1>5. CASE blockExtra
  <2>1. /\ wk' = wk /\ disk' = disk /\ saved' = saved
        /\ mark.ph = "extra" /\ mark'.ph = "remove"
        /\ mark'.r = mark.r /\ mark'.rec = mark.rec
    BY <1>0, <1>5 DEF blockExtra, Marking, MarkState
  <2> QED BY <1>a, <2>1 DEF BackupInv
<1>6. CASE compare
  <2>1. wk' = wk /\ disk' = disk /\ saved' = saved
    BY <1>6 DEF compare, Abandon, Marking
  <2>2. CASE mark' = [mark EXCEPT !.ph = "removed"]
    <3>1. mark'.ph = "removed"
      BY <1>0, <2>2 DEF MarkState
    <3> QED BY <1>a, <2>1, <3>1
  <2>3. CASE mark' = [mark EXCEPT !.ph = "compared"] /\ disk[mark.r] = mark.rec
    <3>1. mark.ph = "remove" /\ mark'.r = mark.r /\ mark'.rec = mark.rec
      BY <1>0, <1>6, <2>3 DEF compare, MarkState
    <3> QED BY <1>a, <2>1, <2>3, <3>1 DEF BackupInv
  <2>4. CASE mark' = NoMark
    BY <1>b, <2>1, <2>4
  <2> QED BY <1>6, <2>2, <2>3, <2>4 DEF compare, Abandon, Marking
<1>7. CASE unlink
  <2>1. wk' = wk /\ saved' = saved /\ mark'.ph = "removed"
    BY <1>0, <1>7 DEF unlink, Marking, MarkState
  <2> QED BY <2>1 DEF BackupInv
<1>8. CASE reopen \/ interrupted
  BY <1>8, <1>b DEF reopen, interrupted, Abandon, Marking
<1> QED BY <1>1, <1>2, <1>3, <1>4, <1>5, <1>6, <1>7, <1>8 DEF MarkStep

LEMMA BackupStep == TypeOK /\ BackupInv /\ [Next]_vars => BackupInv'
<1>1. CASE UNCHANGED <<disk, saved, mark, wk>>
  BY <1>1 DEF BackupInv
<1>2. [Next]_vars => WorkerStep \/ MarkStep \/ UNCHANGED <<disk, saved, mark, wk>>
  BY DEF Next, vars, Enqueue, Cleanup, MarkUpgradeQueued, Unblock, DeleteOrphans
<1> QED BY <1>1, <1>2, BackupWorker, BackupMark

(* Mark removes no lyric whose bytes are not in the backup, whatever passes   *)
(* land in between and wherever it is interrupted, except one written between *)
(* its comparison and its unlink (lyricblock RemoveFiles).                   *)
THEOREM MarkRemovesBackedUp == Spec => RemovesOnlyBackedUp
<1>1. Init => BackupInv
  BY DEF Init, NoMark, NoPass, BackupInv
<1>2. ASSUME TypeOK, BackupInv, [Next]_vars, NEW r \in Rows,
             disk[r] # NoBody, disk'[r] = NoBody
      PROVE  <<r, disk[r]>> \in saved \/ mark.late
  <2>1. Land \/ unlink
    BY <1>2 DEF Next, vars, Enqueue, Cleanup, MarkUpgradeQueued, Unblock, DeleteOrphans,
                WorkerStep, Claim, Dispatch, EndEmpty, Backstop, Keep, Complete, settleBlocked,
                Settle, Step, MarkStep, load, backup, block, reread, blockExtra, compare,
                reopen, interrupted, Abandon
  <2>2. ~Land
    BY <1>2, NoBodyAssumption DEF Land, TypeOK, BackupInv
  <2>3. CASE unlink
    BY <1>2, <2>3 DEF unlink, TypeOK, BackupInv
  <2> QED BY <2>1, <2>2, <2>3
<1>3. TypeOK /\ BackupInv /\ [Next]_vars
         => [\A r \in Rows : disk[r] # NoBody /\ disk'[r] = NoBody
                => <<r, disk[r]>> \in saved \/ mark.late]_vars
  BY <1>2
<1> QED BY <1>1, <1>3, BackupStep, BlockTypes, PTL DEF Spec, RemovesOnlyBackedUp

-----------------------------------------------------------------------------
(* Where nobody unblocks: as long as no block was ever set, no file was      *)
(* removed, so a record of a file is true, and a pass that wrote or kept one *)
(* will make a true record; and Mark is past its first transaction only once *)
(* that has left a block.                                                    *)
RetryInv ==
    /\ mark.ph \in {"blocked", "extra", "remove", "compared", "removed"} => blocks # {}
    /\ blocks = {} =>
          /\ \A r \in Rows : row[r].out = "file" => disk[r] # NoBody
          /\ wk.ph \in {"landed", "kept"} => disk[wk.r] # NoBody

(* A step that keeps the files and makes no new record of one. *)
LEMMA RetryQuiet ==
    ASSUME RetryInv, disk' = disk, blocks \subseteq blocks',
           \A r \in Rows : row'[r].out = "file" => row[r].out = "file",
           mark'.ph \in {"blocked", "extra", "remove", "compared", "removed"} => blocks' # {},
           wk'.ph \in {"landed", "kept"} => wk.ph \in {"landed", "kept"} /\ wk'.r = wk.r
    PROVE  RetryInv'
<1>1. blocks' = {} => blocks = {}
  OBVIOUS
<1> QED BY <1>1 DEF RetryInv

(* Writing one row. *)
LEMMA RetryRow ==
    ASSUME TypeOK, NEW q \in Rows, NEW w, Set(q, w), w.out = "file" => row[q].out = "file"
    PROVE  \A r \in Rows : row'[r].out = "file" => row[r].out = "file"
BY DEF TypeOK, Set

LEMMA RetryWorker ==
    ASSUME TypeOK, BackupInv, RetryInv, WorkerStep
    PROVE  RetryInv'
<1>0. /\ wk \in PassState /\ mark \in MarkState /\ disk \in [Rows -> Files] /\ row \in [Rows -> Work]
      /\ wk.ph # "idle" => wk.r \in Rows
  BY DEF TypeOK
<1>a. NoPass.ph = "idle"
  BY DEF NoPass
<1>1. ASSUME NEW r \in Rows, Claim(r) PROVE RetryInv'
  <2>1. disk' = disk /\ blocks' = blocks /\ mark' = mark /\ wk'.ph = "claimed"
    BY <1>1 DEF Claim, NoPass
  <2>2. \A q \in Rows : row'[q].out = row[q].out
    BY <1>0, <1>1 DEF Claim, Set, Work
  <2> QED BY <2>1, <2>2, RetryQuiet DEF RetryInv
<1>2. CASE \/ \E offered \in SUBSET Bodies : Dispatch(offered)
           \/ Backstop
  <2>1. UNCHANGED <<row, disk, blocks, mark>> /\ wk'.ph \notin {"landed", "kept"}
    BY <1>0, <1>2 DEF Dispatch, Backstop, Step, PassState
  <2> QED BY <2>1, RetryQuiet DEF RetryInv
<1>3. CASE EndEmpty \/ settleBlocked
  <2>1. wk' = NoPass /\ UNCHANGED <<disk, blocks, mark>> /\ wk.r \in Rows
    BY <1>0, <1>3 DEF EndEmpty, settleBlocked, Settle
  <2>2. \A q \in Rows : row'[q].out = "file" => row[q].out = "file"
    <3> DEFINE w == row[wk.r]
    <3>1. ASSUME NEW v, Settle(v), v.out = "file" => w.out = "file"
          PROVE  \A q \in Rows : row'[q].out = "file" => row[q].out = "file"
      BY <2>1, <3>1, RetryRow DEF Settle
    <3>2. /\ \A st : [w EXCEPT !.status = st].out = w.out
          /\ [w EXCEPT !.status = "done", !.upg = FALSE].out = w.out
          /\ [w EXCEPT !.status = "done", !.out = "blocked"].out = "blocked"
      BY <1>0, <2>1 DEF Work
    <3>3. CASE EndEmpty
      BY <3>1, <3>2, <3>3 DEF EndEmpty
    <3>4. CASE settleBlocked
      BY <3>1, <3>2, <3>4 DEF settleBlocked
    <3> QED BY <1>3, <3>3, <3>4
  <2>3. wk'.ph = "idle"
    BY <1>a, <2>1
  <2>4. mark'.ph \in {"blocked", "extra", "remove", "compared", "removed"} => blocks' # {}
    BY <2>1 DEF RetryInv
  <2> QED BY <2>1, <2>2, <2>3, <2>4, RetryQuiet
<1>4. CASE Land
  <2>1. /\ wk.body # NoBody /\ wk.r \in Rows /\ wk'.r = wk.r
        /\ disk' = [disk EXCEPT ![wk.r] = wk.body]
        /\ mark'.ph = mark.ph /\ UNCHANGED <<row, blocks>>
    BY <1>0, <1>4, NoBodyAssumption DEF Land, BackupInv, PassState, MarkState
  <2> QED BY <1>0, <2>1 DEF RetryInv
<1>5. CASE Keep
  <2>1. disk[wk.r] # NoBody /\ wk'.r = wk.r /\ UNCHANGED <<row, disk, blocks, mark>>
    BY <1>0, <1>5 DEF Keep, Step, PassState
  <2> QED BY <2>1 DEF RetryInv
<1>6. CASE Complete
  <2>1. /\ wk' = NoPass /\ UNCHANGED <<disk, blocks, mark>>
        /\ wk.r \in Rows /\ wk.ph \in {"landed", "kept"}
    BY <1>0, <1>6 DEF Complete, Settle
  <2>2. \A q \in Rows \ {wk.r} : row'[q] = row[q]
    BY <1>0, <1>6 DEF Complete, Settle, Set
  <2> QED BY <1>a, <2>1, <2>2 DEF RetryInv
<1> QED BY <1>1, <1>2, <1>3, <1>4, <1>5, <1>6 DEF WorkerStep

LEMMA RetryMark ==
    ASSUME TypeOK, RetryInv, MarkStep
    PROVE  RetryInv'
<1> DEFINE Past == {"blocked", "extra", "remove", "compared", "removed"}
<1>0. mark \in MarkState /\ row \in [Rows -> Work] /\ (mark.ph # "idle" => mark.r \in Rows)
  BY DEF TypeOK
<1>a. NoMark.ph = "idle" /\ wk' = wk /\ blocks \subseteq blocks'
  BY DEF MarkStep, NoMark, load, backup, block, reread, blockExtra, compare, unlink, reopen,
         interrupted, Abandon, Marking
<1>b. mark'.ph \in Past => blocks' # {}
  <2>1. CASE (\E r \in Rows : load(r)) \/ reopen \/ interrupted
    BY <1>a, <2>1 DEF load, reopen, interrupted, Abandon, Marking, NoMark
  <2>2. CASE backup
    BY <1>0, <1>a, <2>2 DEF backup, Marking, MarkState
  <2>3. CASE block \/ blockExtra
    BY <1>a, <2>3 DEF block, blockExtra, Abandon, Marking
  <2>4. CASE reread \/ unlink
    BY <1>a, <2>4 DEF reread, unlink, RetryInv
  <2>5. CASE compare
    BY <1>a, <2>5 DEF compare, Abandon, RetryInv
  <2> QED BY <2>1, <2>2, <2>3, <2>4, <2>5 DEF MarkStep
<1>1. CASE unlink
  <2>1. blocks # {} /\ blocks' = blocks
    BY <1>1 DEF unlink, RetryInv
  <2> QED BY <2>1 DEF RetryInv
<1>2. CASE reopen
  <2>1. disk' = disk
    BY <1>2 DEF reopen
  <2>2. \A q \in Rows : row'[q].out = "file" => row[q].out = "file"
    BY <1>0, <1>2 DEF reopen, Set, Work
  <2> QED BY <1>a, <1>b, <2>1, <2>2, RetryQuiet
<1>3. ASSUME MarkStep, ~unlink, ~reopen PROVE RetryInv'
  <2>1. row' = row /\ disk' = disk
    BY <1>3 DEF MarkStep, load, backup, block, reread, blockExtra, compare, interrupted, Abandon
  <2> QED BY <1>a, <1>b, <2>1, RetryQuiet
<1> QED BY <1>1, <1>2, <1>3

LEMMA RetryStep ==
    ASSUME ~CanUnblock
    PROVE  TypeOK /\ BackupInv /\ RetryInv /\ [Next]_vars => RetryInv'
<1> SUFFICES ASSUME TypeOK, BackupInv, RetryInv, [Next]_vars PROVE RetryInv'
  OBVIOUS
<1>0. row \in [Rows -> Work]
  BY DEF TypeOK
<1>1. ASSUME NEW r \in Rows, Enqueue(r) \/ Cleanup(r) \/ MarkUpgradeQueued(r) PROVE RetryInv'
  <2>1. UNCHANGED <<disk, blocks, mark, wk>>
    BY <1>1 DEF Enqueue, Cleanup, MarkUpgradeQueued
  <2>2. \A q \in Rows : row'[q].out = "file" => row[q].out = "file"
    BY <1>0, <1>1 DEF Enqueue, Cleanup, MarkUpgradeQueued, Set, NoWork, Work
  <2> QED BY <2>1, <2>2, RetryQuiet DEF RetryInv
<1>2. CASE UNCHANGED vars
  BY <1>2 DEF vars, RetryInv
<1>3. \A B : ~Unblock(B) /\ ~DeleteOrphans
  BY DEF Unblock, DeleteOrphans
<1> QED BY <1>1, <1>2, <1>3, RetryWorker, RetryMark DEF Next

(* "Calling Mark again completes": where nobody unblocks meanwhile, a row     *)
(* whose file an interrupted Mark removed still has a block, by which the    *)
(* next Mark knows it and reopens the row (lyricblock Mark).  With an        *)
(* unblock in between the code does not keep this.                           *)
THEOREM RetriedMarkCompletes ==
    ASSUME ~CanUnblock
    PROVE  Spec => []RetryCompletes
<1>1. Init => BackupInv /\ RetryInv
  BY DEF Init, NoMark, NoPass, NoWork, BackupInv, RetryInv
<1>2. RetryInv => RetryCompletes
  BY DEF RetryInv, RetryCompletes
<1> QED BY <1>1, <1>2, BackupStep, RetryStep, BlockTypes, PTL DEF Spec
=============================================================================
