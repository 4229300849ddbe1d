-------------------------------- MODULE Runner --------------------------------
(***************************************************************************)
(* The repair runner (internal/repair: runner.go, runstore.go) and the web *)
(* routes that drive it (internal/web/repair_actions.go): one run at a     *)
(* time, on a goroutine of its own, with its own cancel; a snapshot that   *)
(* the pages read; and a Close that waits for the goroutine.               *)
(***************************************************************************)
EXTENDS Naturals, FiniteSets

CONSTANTS RepairKeys,  \* the registered repairs
          MaxRuns      \* bound: runs started

VARIABLES closed,   \* no further run starts
          live,     \* the id of the live run, 0 when there is none
          last,     \* the id whose channel Close waits on, 0 before any run
          run,      \* id -> the run's goroutine
          cur,      \* the store's snapshot
          lastID,   \* the store's last id
          closer    \* Close: "no", "waiting" on a run, "returned", "timedOut"

vars == <<closed, live, last, run, cur, lastID, closer>>

Ids == 1 .. MaxRuns
NoRun == [key |-> "none", pc |-> "none", canceled |-> FALSE, state |-> "none"]

Init ==
    /\ closed = FALSE /\ live = 0 /\ last = 0 /\ lastID = 0 /\ closer = "no"
    /\ run = [i \in Ids |-> NoRun]
    /\ cur = [id |-> 0, key |-> "none", state |-> "idle"]

(* POST /repairs/{key}: Start, under the runner's lock, with Begin of the   *)
(* store inside it.                                                         *)
Admits == ~closed /\ live = 0
BeginSameID(k) == [id |-> lastID, key |-> k, state |-> "running"]
BeginZero(k) == [id |-> lastID + 1, key |-> k, state |-> ""]
Begin(k) == [id |-> lastID + 1, key |-> k, state |-> "running"]
Start(k) ==
    /\ lastID < MaxRuns
    /\ Admits
    /\ cur.state # "running"
    /\ cur' = Begin(k)
    /\ lastID' = lastID + 1
    /\ live' = lastID + 1 /\ last' = lastID + 1
    /\ run' = [run EXCEPT ![lastID + 1] =
                 [key |-> k, pc |-> "work", canceled |-> FALSE, state |-> "failed"]]
    /\ UNCHANGED <<closed, closer>>

(* The repair returns: done, an error, a panic, a result it had not         *)
(* declared, or, when it was canceled, that.                                *)
ReturnUncanceled(i) ==
    /\ run[i].pc = "work" /\ ~run[i].canceled
    /\ \E s \in {"done", "failed"} : run' = [run EXCEPT ![i].pc = "finish", ![i].state = s]
    /\ UNCHANGED <<closed, live, last, cur, lastID, closer>>
Return(i) ==
    /\ run[i].pc = "work"
    /\ \E s \in {"done", "failed"} \cup IF run[i].canceled THEN {"canceled"} ELSE {} :
          run' = [run EXCEPT ![i].pc = "finish", ![i].state = s]
    /\ UNCHANGED <<closed, live, last, cur, lastID, closer>>

(* MemStore.Finish: a finish of a run that is not the snapshot's is dropped. *)
FinishedDone(i) ==
    IF cur.id = i /\ cur.state = "running"
    THEN [id |-> i, key |-> run[i].key, state |-> "done"] ELSE cur
Finished(i) ==
    IF cur.id = i /\ cur.state = "running"
    THEN [id |-> i, key |-> run[i].key, state |-> run[i].state] ELSE cur

(* The deferred end of the goroutine, under the lock, then the channel. *)
Finish(i) ==
    /\ run[i].pc = "finish"
    /\ cur' = Finished(i)
    /\ live' = IF live = i THEN 0 ELSE live
    /\ run' = [run EXCEPT ![i].pc = "closing"]
    /\ UNCHANGED <<closed, last, lastID, closer>>

CloseLive(i) ==
    /\ run[i].pc = "closing"
    /\ run' = [run EXCEPT ![i].pc = "gone"]
    /\ UNCHANGED <<closed, live, last, cur, lastID, closer>>

(* POST /repairs/{key}/cancel. *)
CancelKey(k) ==
    /\ live # 0 /\ run[live].key = k
    /\ run' = [run EXCEPT ![live].canceled = TRUE]
    /\ UNCHANGED <<closed, live, last, cur, lastID, closer>>

AwaitedLive == live
Awaited == last
Close ==
    /\ closer = "no"
    /\ closed' = TRUE
    /\ run' = IF live = 0 THEN run ELSE [run EXCEPT ![live].canceled = TRUE]
    /\ closer' = IF Awaited = 0 THEN "returned" ELSE "waiting"
    /\ UNCHANGED <<live, last, cur, lastID>>

CloseReturns ==
    /\ closer = "waiting" /\ (Awaited # 0 => run[Awaited].pc = "gone")
    /\ closer' = "returned"
    /\ UNCHANGED <<closed, live, last, run, cur, lastID>>

(* A repair that ignores its cancel past closeWait. *)
CloseTimesOut ==
    /\ closer = "waiting" /\ closer' = "timedOut"
    /\ UNCHANGED <<closed, live, last, run, cur, lastID>>

Next ==
    \/ \E k \in RepairKeys : Start(k) \/ CancelKey(k)
    \/ \E i \in Ids : Return(i) \/ Finish(i) \/ CloseLive(i)
    \/ Close \/ CloseReturns \/ CloseTimesOut

(* The goroutines run on, and a repair honours its cancel; nothing makes    *)
(* one finish that was not canceled.                                        *)
Spec == Init /\ [][Next]_vars
LiveSpec ==
    /\ Spec
    /\ \A i \in Ids : /\ WF_vars(Finish(i)) /\ WF_vars(CloseLive(i))
                      /\ WF_vars(Return(i) /\ run[i].canceled)
    /\ WF_vars(CloseReturns)
-----------------------------------------------------------------------------
(* One repair at a time: no two goroutines are before their last locked     *)
(* step, and the snapshot says "running" exactly while the live run is      *)
(* (runner.go:75, 107, runstore.go:95).                                     *)
OneRunAtATime ==
    /\ \A i, j \in Ids : (run[i].pc \in {"work", "finish"} /\ run[j].pc \in {"work", "finish"}) => i = j
    /\ (cur.state = "running") <=> (live # 0)
    /\ live # 0 => cur.id = live /\ run[live].pc \in {"work", "finish"}

(* A Close that returned without a timeout has waited out the latest run's  *)
(* goroutine, also when that one had already given up its slot; of earlier  *)
(* runs at most the final log line is left (runner.go:186-205).             *)
CloseLeavesNothing ==
    closer = "returned" =>
        /\ \A i \in Ids : run[i].pc \in {"none", "closing", "gone"}
        /\ lastID # 0 => run[lastID].pc = "gone"

(* What the page shows of a finished run is how that run ended.             *)
SnapshotIsItsRun ==
    cur.state \notin {"idle", "running"} =>
        /\ cur.id = lastID /\ cur.state = run[cur.id].state /\ cur.key = run[cur.id].key

(* A canceled run ends, and its page stops saying "running".                *)
Canceled(i) == run[i].canceled
OffThePage(i) == cur.id # i \/ cur.state # "running"
CancelEnds == \A i \in Ids : Canceled(i) ~> OffThePage(i)

TypeOK ==
    /\ closed \in BOOLEAN /\ live \in 0 .. MaxRuns /\ last \in 0 .. MaxRuns
    /\ lastID \in 0 .. MaxRuns /\ live \in {0, lastID} /\ last = lastID
    /\ run \in [Ids -> [key : RepairKeys \cup {"none"}, pc : {"none", "work", "finish", "closing", "gone"},
                        canceled : BOOLEAN, state : {"none", "done", "failed", "canceled"}]]
    /\ cur \in [id : 0 .. MaxRuns, key : RepairKeys \cup {"none"},
                state : {"idle", "running", "done", "failed", "canceled"}]
    /\ closer \in {"no", "waiting", "returned", "timedOut"}
=============================================================================
