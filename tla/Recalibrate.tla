---------------------------- MODULE Recalibrate ----------------------------
(***************************************************************************)
(* scan reconcile-instrumental-recalibrate (internal/instrumentalrecalib): *)
(* the stored telemetry of one row is judged again under thresholds that   *)
(* were loosened (Run: write the marker, then settle the row) or tightened *)
(* (Reverse: take the row back, then remove the marker), by a process of   *)
(* its own beside serve; and the one-shot backfill of the detector's lane  *)
(* attempts (internal/detectorbackfill).                                   *)
(*                                                                         *)
(* The three gates of detector.Instrumental are one score below one gate.  *)
(* Each process has its own: serve's is fixed when it starts, a run of the *)
(* command takes what the configuration says when it starts.               *)
(* Dry runs, --limit and --library only choose rows and are left out.      *)
(***************************************************************************)
EXTENDS Naturals

CONSTANTS
    Scores,     \* the stored telemetry
    Gates,      \* the thresholds an operator may configure
    Faults,     \* which steps may fail
    MaxRuns,    \* bound on the runs of the command
    MaxClaims,  \* bound on the worker's claims
    MaxFaults   \* bound on the failures, crashes included

VARIABLES
    row,      \* the work_queue row
    file,     \* the .txt at the track's path
    attempt,  \* lane_attempts of the detector lane
    gate,     \* the threshold serve started with
    rc,       \* the command
    bf,       \* the lane-attempt backfill: what it loaded
    wk,       \* the worker, with the row it holds
    runs, claims, faults,
    raced     \* what the worker touched between two steps of the command

vars == <<row, file, attempt, gate, rc, bf, wk, runs, claims, faults, raced>>

Markers == {"bare", "detector", "provider"}
NoRow == [st |-> "none", res |-> "null", score |-> 0, stale |-> FALSE, lane |-> ""]
NoRun == [pc |-> "idle", score |-> 0, gate |-> 0, stale |-> FALSE, marker |-> FALSE]
NoWork == [pc |-> "none", says |-> "none", score |-> 0, live |-> FALSE, asked |-> FALSE]
Answers == {"lyrics", "provider", "detector", "miss"}
Pcs == {"idle", "listed", "reported", "written", "settled", "rollback",
        "confirmed", "looked", "recorded", "unsettled", "attempted"}
Window == {"written", "rollback", "recorded", "unsettled", "attempted"}

TypeOK ==
    /\ row \in [st : {"none", "deferred", "processing", "done"}, res : {"null", "neg", "pos"},
                score : Scores, stale : BOOLEAN, lane : {"", "detector", "provider"}]
    /\ file \in Markers \cup {"none", "lyrics"}
    /\ attempt \in {"none", "miss", "hit"} /\ gate \in Gates
    /\ rc \in [pc : Pcs, score : Scores \cup {0}, gate : Gates \cup {0}, stale : BOOLEAN, marker : BOOLEAN]
    /\ bf \in {"idle", "miss", "hit"}
    /\ wk \in [pc : {"none", "claimed", "answered", "recorded", "written", "kept", "requeue"},
               says : Answers \cup {"none"}, score : Scores \cup {0}, live : BOOLEAN, asked : BOOLEAN]
    /\ runs \in 0..MaxRuns /\ claims \in 0..MaxClaims /\ faults \in 0..MaxFaults
    /\ raced \subseteq {"file", "attempt"}

(* A rejection the queue is still fetching for, or a verdict with its marker. *)
Init ==
    /\ row \in [st : {"deferred"}, res : {"neg"}, score : Scores, stale : BOOLEAN, lane : {""}]
          \cup [st : {"done"}, res : {"pos"}, score : Scores, stale : BOOLEAN, lane : {"", "detector"}]
    /\ file \in IF row.res = "pos" THEN Markers \cup {"lyrics"} ELSE {"none", "lyrics", "provider"}
    /\ attempt \in {"none", IF row.res = "pos" THEN "hit" ELSE "miss"}
    /\ gate \in Gates
    /\ rc = NoRun /\ bf = "idle" /\ wk = NoWork
    /\ runs = 0 /\ claims = 0 /\ faults = 0 /\ raced = {}

Instrumental(score, g) == score < g

May(f) == f \in Faults /\ faults < MaxFaults
At(pc) == rc.pc = pc
Goto(pc) == rc' = [rc EXCEPT !.pc = pc]
Stop == rc' = NoRun
Keep == UNCHANGED <<gate, bf, wk, runs, claims, raced>>
Race(x, when) == raced' = raced \cup (IF when THEN {x} ELSE {})
Errs(f) == May(f) /\ faults' = faults + 1 /\ Stop /\ Keep /\ UNCHANGED <<row, file, attempt>>

-----------------------------------------------------------------------------
(* Run: a rejection the loosened gate admits.                              *)

ListRejections ==
    /\ At("idle") /\ runs < MaxRuns
    /\ row.st = "deferred" /\ row.res = "neg"
    /\ runs' = runs + 1
    /\ \E g \in Gates :
          rc' = [NoRun EXCEPT !.pc = "listed", !.score = row.score, !.gate = g, !.stale = row.stale]
    /\ UNCHANGED <<row, file, attempt, gate, bf, wk, claims, faults, raced>>

(* The intent is on disk before anything is touched. *)
Report(pc, next) ==
    \/ At(pc) /\ Goto(next) /\ Keep /\ UNCHANGED <<row, file, attempt, faults>>
    \/ At(pc) /\ Errs("report")

Judge ==
    \/ At("listed") /\ ~Instrumental(rc.score, rc.gate) /\ Stop /\ Keep /\ UNCHANGED <<row, file, attempt, faults>>
    \/ Instrumental(rc.score, rc.gate) /\ Report("listed", "reported")

(* Telemetry of another model never settles: the row is classified again. *)
ResetStale ==
    /\ At("reported") /\ rc.stale
    /\ \/ /\ row' = IF row.st = "deferred" /\ row.res = "neg" THEN [row EXCEPT !.res = "null"] ELSE row
          /\ Stop /\ Keep /\ UNCHANGED <<file, attempt, faults>>
       \/ Errs("db")

(* Mutant: a marker that could not be written settles the row all the same. *)
WriteMarkerAnyway ==
    /\ At("reported") /\ ~rc.stale
    /\ file' = IF file = "lyrics" THEN file ELSE IF May("write") THEN "none" ELSE "bare"
    /\ Goto("written") /\ Keep /\ UNCHANGED <<row, attempt, faults>>

(* WriteLRC refuses the marker where lyrics are (ErrKeptBetter). *)
WriteMarker ==
    /\ At("reported") /\ ~rc.stale
    /\ \/ file # "lyrics" /\ file' = "bare" /\ Goto("written") /\ Keep /\ UNCHANGED <<row, attempt, faults>>
       \/ file = "lyrics" /\ Stop /\ Keep /\ UNCHANGED <<row, file, attempt, faults>>
       \/ Errs("write")

(* SettleInstrumental: an error may hide a commit, so the marker stays. *)
Settled == [row EXCEPT !.res = "pos", !.st = "done", !.lane = "detector",
                       !.score = rc.score, !.stale = rc.stale]

Settle ==
    /\ At("written")
    /\ \/ /\ row.st = "deferred" /\ row' = Settled
          /\ Goto("settled") /\ UNCHANGED <<faults, raced>>
       \/ /\ row.st # "deferred" /\ UNCHANGED <<row, faults>>
          /\ IF row.st = "done" /\ row.res = "pos" THEN Stop /\ UNCHANGED raced
             ELSE Goto("rollback") /\ Race("file", row.st # "none")
       \/ /\ May("db") /\ faults' = faults + 1 /\ Stop /\ UNCHANGED raced
          /\ row' \in {row} \cup (IF row.st = "deferred" THEN {Settled} ELSE {})
    /\ UNCHANGED <<file, attempt, gate, bf, wk, runs, claims>>

Rollback ==
    /\ At("rollback")
    /\ \/ file' = "none" /\ Stop /\ UNCHANGED faults
       \/ May("remove") /\ faults' = faults + 1 /\ Stop /\ UNCHANGED file
    /\ Keep /\ UNCHANGED <<row, attempt>>

(* recordAttempt is best effort. *)
recordAttempt(pc, next, hit) ==
    /\ At(pc)
    /\ \/ attempt' = (IF row.st = "none" THEN "none" ELSE hit) /\ UNCHANGED faults
       \/ May("db") /\ faults' = faults + 1 /\ UNCHANGED attempt
    /\ (IF next = "idle" THEN Stop ELSE Goto(next)) /\ Keep /\ UNCHANGED <<row, file>>

-----------------------------------------------------------------------------
(* Reverse: a verdict the tightened gate no longer admits.                 *)

ListConfirmations ==
    /\ At("idle") /\ runs < MaxRuns
    /\ row.st = "done" /\ row.res = "pos"
    /\ runs' = runs + 1
    /\ \E g \in Gates : rc' = [NoRun EXCEPT !.pc = "confirmed", !.score = row.score, !.gate = g]
    /\ UNCHANGED <<row, file, attempt, gate, bf, wk, claims, faults, raced>>

(* Mutant: whatever stands at the path counts as the detector's. *)
OwnedAny == TRUE

(* detectorOwnedMarker: only an explicit contrary sign disowns the file. *)
Owned == file \in {"none", "bare", "detector"}

Look ==
    /\ At("confirmed")
    /\ \/ /\ ~Instrumental(rc.score, rc.gate) /\ Owned
          /\ rc' = [rc EXCEPT !.pc = "looked", !.marker = file # "none"]
          /\ Keep /\ UNCHANGED <<row, file, attempt, faults>>
       \/ (Instrumental(rc.score, rc.gate) \/ ~Owned) /\ Stop /\ Keep /\ UNCHANGED <<row, file, attempt, faults>>
       \/ Errs("read")

Intent == Report("looked", "recorded")

(* UnsettleInstrumental: the row goes back before its marker goes. *)
Unsettle ==
    /\ At("recorded")
    /\ \/ /\ row.st = "done" /\ row.res = "pos" /\ row.lane # "provider"
          /\ row' = [row EXCEPT !.res = "neg", !.st = "deferred", !.lane = ""]
          /\ Goto("unsettled") /\ Keep /\ UNCHANGED <<file, attempt, faults>>
       \/ /\ ~(row.st = "done" /\ row.res = "pos" /\ row.lane # "provider")
          /\ Stop /\ Keep /\ UNCHANGED <<row, file, attempt, faults>>
       \/ Errs("db")

RemoveMarker ==
    /\ At("attempted")
    /\ \/ file' = (IF rc.marker THEN "none" ELSE file) /\ UNCHANGED faults
       \/ rc.marker /\ May("remove") /\ faults' = faults + 1 /\ UNCHANGED file
    /\ Stop /\ Race("file", wk.pc # "none")
    /\ UNCHANGED <<row, attempt, gate, bf, wk, runs, claims>>

Forward == \/ ListRejections \/ Judge \/ ResetStale \/ WriteMarker \/ Settle \/ Rollback
           \/ recordAttempt("settled", "idle", "hit")
Backward == \/ ListConfirmations \/ Look \/ Intent \/ Unsettle
            \/ recordAttempt("unsettled", "attempted", "miss") \/ RemoveMarker

(* The process dies; nothing resumes it. *)
Crash == ~At("idle") /\ Errs("crash")

-----------------------------------------------------------------------------
(* The backfill of lane_attempts: the verdicts are loaded before the one   *)
(* transaction that inserts them.                                          *)

Load ==
    /\ bf = "idle" /\ row.st # "none" /\ row.res # "null"
    /\ bf' = IF row.res = "pos" THEN "hit" ELSE "miss"
    /\ UNCHANGED <<row, file, attempt, gate, rc, wk, runs, claims, faults, raced>>

(* Mutant: the backfilled attempt replaces a recorded one. *)
InsertedOver == bf

Inserted == IF attempt = "none" THEN bf ELSE attempt

runApply ==
    /\ bf # "idle" /\ bf' = "idle"
    /\ \/ attempt' = (IF row.st = "none" THEN "none" ELSE Inserted) /\ UNCHANGED faults
       \/ May("report") /\ faults' = faults + 1 /\ UNCHANGED attempt
    /\ UNCHANGED <<row, file, gate, rc, wk, runs, claims, raced>>

-----------------------------------------------------------------------------
(* Serve and the operator.                                                 *)

(* The row's telemetry is copied at the claim; without a usable one the    *)
(* detector samples the track.                                             *)
Claim ==
    /\ row.st = "deferred" /\ wk = NoWork /\ claims < MaxClaims
    /\ row' = [row EXCEPT !.st = "processing"] /\ claims' = claims + 1
    /\ wk' = [NoWork EXCEPT !.pc = "claimed", !.score = row.score, !.live = row.stale \/ row.res = "null"]
    /\ Race("attempt", At("unsettled"))
    /\ UNCHANGED <<file, attempt, gate, rc, bf, runs, faults>>

(* A provider answers, the detector says instrumental under serve's own    *)
(* gate, or every lane that was asked missed.  When no provider could be   *)
(* asked the row is given back without a recorded attempt.                 *)
Answer ==
    /\ wk.pc = "claimed"
    /\ \/ \E a \in {"lyrics", "provider", "miss"} : wk' = [NoWork EXCEPT !.pc = "answered", !.says = a]
       \/ \E s \in (IF wk.live THEN Scores ELSE {wk.score}), a \in Answers, pc \in {"answered", "recorded"} :
             /\ a = "detector" => Instrumental(s, gate)
             /\ a = "miss" => ~Instrumental(s, gate)
             /\ pc = "recorded" => a = "miss"
             /\ wk' = [NoWork EXCEPT !.pc = pc, !.says = a, !.score = s, !.live = wk.live, !.asked = TRUE]
    /\ UNCHANGED <<row, file, attempt, gate, rc, bf, runs, claims, faults, raced>>

(* recordLaneAttempts, best effort: a hit of the lane that won. *)
RecordAttempts ==
    /\ wk.pc = "answered" /\ wk' = [wk EXCEPT !.pc = "recorded"]
    /\ \/ /\ attempt' = (IF ~wk.asked THEN attempt ELSE IF wk.says = "detector" THEN "hit" ELSE "miss")
          /\ UNCHANGED faults
       \/ May("db") /\ faults' = faults + 1 /\ UNCHANGED attempt
    /\ UNCHANGED <<row, file, gate, rc, bf, runs, claims, raced>>

(* stampDetectorMissTelemetry, best effort: the scores of a live sampling. *)
StampMiss ==
    /\ wk.pc = "recorded" /\ wk.says = "miss" /\ wk' = [wk EXCEPT !.pc = "requeue"]
    /\ \/ /\ row' = (IF wk.live /\ wk.asked
                     THEN [row EXCEPT !.res = "neg", !.score = wk.score, !.stale = FALSE] ELSE row)
          /\ UNCHANGED faults
       \/ May("db") /\ faults' = faults + 1 /\ UNCHANGED row
    /\ UNCHANGED <<file, attempt, gate, rc, bf, runs, claims, raced>>

(* A file better than the answer is kept (ErrKeptBetter). *)
Write ==
    /\ wk.pc = "recorded" /\ wk.says # "miss"
    /\ \/ /\ wk.says # "lyrics" /\ file = "lyrics" /\ wk' = [wk EXCEPT !.pc = "kept"]
          /\ UNCHANGED <<file, faults, raced>>
       \/ /\ wk.says = "lyrics" \/ file # "lyrics"
          /\ file' = wk.says /\ wk' = [wk EXCEPT !.pc = "written"]
          /\ Race("file", rc.pc \in Window) /\ UNCHANGED faults
       \/ /\ May("write") /\ faults' = faults + 1 /\ wk' = [wk EXCEPT !.pc = "requeue"]
          /\ UNCHANGED <<file, raced>>
    /\ UNCHANGED <<row, attempt, gate, rc, bf, runs, claims>>

(* The settle, or the requeue that a miss and a failed step end in. *)
Complete ==
    /\ wk' = NoWork
    /\ \/ /\ wk.pc = "written" /\ UNCHANGED faults
          /\ row' = IF wk.says = "detector"
                    THEN [row EXCEPT !.res = "pos", !.st = "done", !.lane = "detector", !.score = wk.score]
                    ELSE [row EXCEPT !.st = "done", !.lane = "provider"]
       \/ wk.pc = "kept" /\ row' = [row EXCEPT !.st = "done"] /\ UNCHANGED faults
       \/ wk.pc = "requeue" /\ row' = [row EXCEPT !.st = "deferred"] /\ UNCHANGED faults
       \/ /\ wk.pc = "written" /\ wk.says = "detector" /\ May("db") /\ faults' = faults + 1
          /\ row' = [row EXCEPT !.st = "deferred"]
    /\ UNCHANGED <<file, attempt, gate, rc, bf, runs, claims, raced>>

PruneRow ==
    /\ row.st = "deferred" /\ row' = NoRow /\ attempt' = "none"
    /\ UNCHANGED <<file, gate, rc, bf, wk, runs, claims, faults, raced>>

(* serve starts with what the configuration says by then. *)
Restart(g) ==
    /\ wk = NoWork /\ gate' = g /\ g # gate
    /\ UNCHANGED <<row, file, attempt, rc, bf, wk, runs, claims, faults, raced>>

Worker == Claim \/ Answer \/ RecordAttempts \/ StampMiss \/ Write \/ Complete

Next ==
    \/ Forward \/ Backward \/ Crash \/ Load \/ runApply \/ Worker
    \/ PruneRow \/ (\E g \in Gates : Restart(g))

Spec == Init /\ [][Next]_vars

-----------------------------------------------------------------------------
(* A row settled as instrumental has a file that says so, whichever step   *)
(* failed or died: Run writes before it settles, Reverse takes the row     *)
(* back before it removes (instrumentalrecalib.go:506-513).  The one gap   *)
(* is a worker that claims the row and writes between the two; both        *)
(* removals are by path.                                                   *)
SettledHasMarker ==
    row.st = "done" /\ row.res = "pos" /\ "file" \notin raced => file # "none"

(* Neither direction takes a provider's marker or a lyric off the disk     *)
(* that was there when it looked (detectorOwnedMarker, ErrKeptBetter),     *)
(* with the same gap.                                                      *)
ForeignFileKept ==
       (file = "lyrics" \/ (file = "provider" /\ rc.pc # "reported"))
          /\ "file" \notin raced' /\ rc' # rc => file' = file

(* With nothing lost to an error, the recorded lane attempt and the        *)
(* verdict agree once everyone is done: a rejection the queue still works  *)
(* on never shows a hit, and a verdict never shows a miss.  The worker     *)
(* records before it settles and the command after it flips, so the        *)
(* backfill's snapshot never overrides a later verdict.  One gap: a worker *)
(* that claims the row between Reverse's UnsettleInstrumental and its      *)
(* recordAttempt (instrumentalrecalib.go:580-597) is overtaken by the miss *)
(* recorded for the verdict before its own; with serve's gate looser than  *)
(* the command's, its verdict is a hit.                                    *)
AttemptAgrees ==
    At("idle") /\ bf = "idle" /\ wk = NoWork /\ faults = 0 /\ "attempt" \notin raced
        => /\ attempt = "hit" => row.res # "neg" \/ row.st = "done"
           /\ attempt = "miss" => row.res # "pos"
=============================================================================
