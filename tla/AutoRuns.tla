------------------------------ MODULE AutoRuns ------------------------------
(***************************************************************************)
(* The registry of word-timing alignments a browser may start for a row    *)
(* (internal/web/auto_run.go).  A run outlives the request that starts it, *)
(* counts under a limit until its goroutine ends, and is dropped when its  *)
(* .lrc changes, when its viewer leaves, when it is cancelled or replaced, *)
(* and at shutdown.                                                        *)
(***************************************************************************)
EXTENDS Naturals, FiniteSets

CONSTANTS
    Rows, Pages,              \* rows of the queue, browser pages
    maxConcurrent,            \* the limit on run goroutines
    MaxRuns, MaxEdits         \* bounds

VARIABLES
    mt,         \* the version of each row's .lrc (its mtime)
    reg,        \* autoRuns.m: the row's run, 0 when there is none
    run,        \* every run begun
    n,          \* runs begun so far
    active,     \* autoRuns.active
    closed,     \* autoRuns.closed
    page        \* each page: what its request is doing

vars == <<mt, reg, run, n, active, closed, page>>

NoRun == [row |-> CHOOSE r \in Rows : TRUE, mtime |-> 0, lines |-> 0, state |-> "none",
          live |-> FALSE, canceled |-> FALSE, seen |-> FALSE]
Idle == [pc |-> "idle", row |-> CHOOSE r \in Rows : TRUE, mtime |-> 0, lines |-> 0, run |-> 0, state |-> "none"]
Live == {i \in 1..n : run[i].live}

TypeOK ==
    /\ mt \in [Rows -> 1..(MaxEdits + 1)] /\ reg \in [Rows -> 0..MaxRuns]
    /\ n \in 0..MaxRuns /\ active \in 0..MaxRuns /\ closed \in BOOLEAN
    /\ \A i \in 1..MaxRuns : run[i].state \in {"none", "running", "done", "empty"}
    /\ \A p \in Pages : page[p].pc \in {"idle", "read", "begin", "stat"}
    /\ \A r \in Rows : reg[r] # 0 => run[reg[r]].row = r

Init ==
    /\ mt = [r \in Rows |-> 1] /\ reg = [r \in Rows |-> 0]
    /\ run = [i \in 1..MaxRuns |-> NoRun] /\ n = 0 /\ active = 0 /\ closed = FALSE
    /\ page = [p \in Pages |-> Idle]

Running(r) == reg[r] # 0 /\ run[reg[r]].state = "running"
Answer(p) == page' = [page EXCEPT ![p] = Idle]

(* handleAutoStart, the first look: a run of this version is joined.       *)
StartGet(p, r, m) ==
    /\ page[p].pc = "idle" /\ m \in 1..mt[r]
    /\ IF Running(r) /\ run[reg[r]].mtime = m
       THEN run' = [run EXCEPT ![reg[r]].seen = TRUE] /\ Answer(p)
       ELSE /\ page' = [page EXCEPT ![p] = [Idle EXCEPT !.pc = "read", !.row = r, !.mtime = m]]
            /\ UNCHANGED run
    /\ UNCHANGED <<mt, reg, n, active, closed>>

(* lyrics.CurrentLRC reads the lines only at the version asked for; a      *)
(* blocked body, no text, no audio or too much of it is refused.           *)
SameVersion(r, m) == mt[r] = m

StartRead(p) ==
    /\ page[p].pc = "read"
    /\ \/ /\ SameVersion(page[p].row, page[p].mtime)
          /\ page' = [page EXCEPT ![p].pc = "begin", ![p].lines = mt[page[p].row]]
       \/ Answer(p)
    /\ UNCHANGED <<mt, reg, run, n, active, closed>>

(* begin: attach, or cancel the run of another version and take its place  *)
(* when a goroutine may still be started.                                  *)
Superseded(r) == IF Running(r) THEN [run EXCEPT ![reg[r]].canceled = TRUE] ELSE run
FreeByMap == Cardinality({r \in Rows : Running(r)}) < maxConcurrent
FreeSlot == active < maxConcurrent

Begin(p) ==
    /\ page[p].pc = "begin" /\ n < MaxRuns /\ Answer(p)
    /\ LET r == page[p].row IN
       \/ closed /\ UNCHANGED <<reg, run, n, active>>
       \/ /\ ~closed /\ Running(r) /\ run[reg[r]].mtime = page[p].mtime
          /\ run' = [run EXCEPT ![reg[r]].seen = TRUE] /\ UNCHANGED <<reg, n, active>>
       \/ /\ ~closed /\ ~(Running(r) /\ run[reg[r]].mtime = page[p].mtime)
          /\ IF FreeSlot
             THEN /\ n' = n + 1 /\ active' = active + 1 /\ reg' = [reg EXCEPT ![r] = n + 1]
                  /\ run' = [Superseded(r) EXCEPT ![n + 1] =
                       [row |-> r, mtime |-> page[p].mtime, lines |-> page[p].lines, state |-> "running",
                        live |-> TRUE, canceled |-> FALSE, seen |-> TRUE]]
             ELSE run' = Superseded(r) /\ UNCHANGED <<reg, n, active>>
    /\ UNCHANGED <<mt, closed>>

(* finish: the aligner answered, or there is nothing to suggest (no usable *)
(* word, a failure, a timeout, its cancel, a panic).                       *)
Finish(i) ==
    /\ i \in Live /\ active' = active - 1
    /\ \E s \in {"done", "empty"} :
         run' = [run EXCEPT ![i].state = s, ![i].live = FALSE, ![i].seen = TRUE]
    /\ UNCHANGED <<mt, reg, n, closed, page>>

(* Time passes: no poll for autoOrphanAfter, or autoResultTTL is over.     *)
Age(r) ==
    /\ reg[r] # 0 /\ run[reg[r]].seen /\ run' = [run EXCEPT ![reg[r]].seen = FALSE]
    /\ UNCHANGED <<mt, reg, n, active, closed, page>>

(* reap: every unseen run is forgotten, a running one cancelled.           *)
Stale(r) == reg[r] # 0 /\ ~run[reg[r]].seen
reapedLeft(g, rs) == run
reaped(g, rs) == [i \in 1..MaxRuns |->
    IF (\E r \in rs : g[r] = i) /\ run[i].state = "running" THEN [run[i] EXCEPT !.canceled = TRUE] ELSE run[i]]

Reap ==
    /\ \E r \in Rows : Stale(r)
    /\ run' = reaped(reg, {r \in Rows : Stale(r)})
    /\ reg' = [r \in Rows |-> IF Stale(r) THEN 0 ELSE reg[r]]
    /\ UNCHANGED <<mt, n, active, closed, page>>

(* handleAutoPoll: get, counting as a poll, then the .lrc's stat.          *)
PollGet(p, r) ==
    /\ page[p].pc = "idle" /\ reg[r] # 0
    /\ LET i == reg[r]
           stale == {q \in Rows : Stale(q)} \ (IF Running(r) THEN {r} ELSE {})
       IN  /\ run' = [reaped(reg, stale) EXCEPT ![i].seen = @ \/ Running(r)]
           /\ reg' = [q \in Rows |-> IF q \in stale THEN 0 ELSE reg[q]]
           /\ page' = IF r \in stale THEN page
                      ELSE [page EXCEPT ![p] = [Idle EXCEPT !.pc = "stat", !.row = r, !.run = i, !.state = run[i].state]]
    /\ UNCHANGED <<mt, n, active, closed>>

(* drop: only the run this poll was given, told apart by its identity.     *)
DropByRow(p) ==
    /\ reg' = [reg EXCEPT ![page[p].row] = 0]
    /\ run' = [i \in 1..MaxRuns |->
           IF i \in {page[p].run, reg[page[p].row]} THEN [run[i] EXCEPT !.canceled = TRUE] ELSE run[i]]
Drop(p) ==
    /\ reg' = IF reg[page[p].row] = page[p].run THEN [reg EXCEPT ![page[p].row] = 0] ELSE reg
    /\ run' = [run EXCEPT ![page[p].run].canceled = TRUE]

StatAnyway(p) == TRUE
StatAgrees(p) == mt[page[p].row] = run[page[p].run].mtime

PollChanged(p) ==
    /\ page[p].pc = "stat" /\ ~StatAgrees(p) /\ Drop(p) /\ Answer(p)
    /\ UNCHANGED <<mt, n, active, closed>>

PollAnswer(p) ==
    /\ page[p].pc = "stat" /\ StatAgrees(p) /\ Answer(p)
    /\ UNCHANGED <<mt, reg, run, n, active, closed>>

(* handleAutoCancel.                                                       *)
Cancel(r) ==
    /\ reg[r] # 0 /\ reg' = [reg EXCEPT ![r] = 0]
    /\ run' = [run EXCEPT ![reg[r]].canceled = TRUE]
    /\ UNCHANGED <<mt, n, active, closed, page>>

Close ==
    /\ ~closed /\ closed' = TRUE /\ reg' = [r \in Rows |-> 0]
    /\ run' = [i \in 1..MaxRuns |-> IF \E r \in Rows : reg[r] = i THEN [run[i] EXCEPT !.canceled = TRUE] ELSE run[i]]
    /\ UNCHANGED <<mt, n, active, page>>

(* Another save or a worker rewrites the .lrc.                             *)
Edit(r) ==
    /\ mt[r] <= MaxEdits /\ mt' = [mt EXCEPT ![r] = @ + 1]
    /\ UNCHANGED <<reg, run, n, active, closed, page>>

Next ==
    \/ \E p \in Pages : \/ \E r \in Rows : PollGet(p, r) \/ \E m \in 1..(MaxEdits + 1) : StartGet(p, r, m)
                        \/ StartRead(p) \/ Begin(p) \/ PollChanged(p) \/ PollAnswer(p)
    \/ \E i \in 1..MaxRuns : Finish(i)
    \/ \E r \in Rows : Age(r) \/ Cancel(r) \/ Edit(r)
    \/ Reap \/ Close

Spec == Init /\ [][Next]_vars

-----------------------------------------------------------------------------
(* The goroutines alive, those of runs already dropped or replaced         *)
(* included, are the ones counted, and never more than the limit allows.   *)
SlotsCounted == active = Cardinality(Live) /\ active <= maxConcurrent

(* A run that left the registry was cancelled: none goes on unseen, and    *)
(* after a shutdown every one that still runs has been told to stop.       *)
UnlistedIsCanceled ==
    \A i \in Live : (\A r \in Rows : reg[r] # i) => run[i].canceled

(* A suggestion shown was made from the very text on disk when the poll    *)
(* looked: never from a version since replaced.                            *)
SuggestionCurrent ==
       \A p \in Pages : page[p].pc = "stat" /\ page[p].state = "done" /\ page'[p].pc = "idle"
            /\ ~run'[page[p].run].canceled => run[page[p].run].lines = mt[page[p].row]

(* A poll never costs a row the run someone watches, of the version on     *)
(* disk: the late answer to a poll of a run it replaced does not drop it.  *)
WatchedRunKept ==
       \A r \in Rows, p \in Pages :
          /\ Running(r) /\ run[reg[r]].seen /\ run[reg[r]].mtime = mt[r] /\ ~run[reg[r]].canceled
          /\ page'[p] # page[p] /\ page[p].pc # "begin"
          => reg'[r] = reg[r]
=============================================================================
