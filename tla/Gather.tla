------------------------------- MODULE Gather -------------------------------
(***************************************************************************)
(* How the instrumental backfill chooses its batch (gather and admit of    *)
(* internal/instrumentalbackfill, ListUnclassified of internal/queue, the  *)
(* loop of internal/commands/instrumental_backfill_sweep.go): pages of the *)
(* unclassified rows, the files the detector could not sample sorted last  *)
(* and skipped while they are unchanged, and a cursor that carries the     *)
(* position in that tail from one cycle to the next.                       *)
(*                                                                         *)
(* A file is its version; the store of failures remembers one version per  *)
(* file.  Rows whose file is missing are left out: they fill the batch of  *)
(* every cycle until prune removes them.                                   *)
(***************************************************************************)
EXTENDS Naturals, Sequences, SequencesExt, FiniteSets

CONSTANTS
    Rows,            \* the work_queue ids, 1..n, in queue order
    Limit,           \* opts.Limit, the batch size
    maxGatherPages,  \* pages one run may read
    MaxChanges       \* bound on the changes of the files

VARIABLES
    backlog,     \* the rows ListUnclassified selects
    ver,         \* the version of every row's file
    failed,      \* detector_sample_failures: 0 or the version that failed
    cursor,      \* Backfiller.cursor, a position
    run,         \* the run in progress
    changes

vars == <<backlog, ver, failed, cursor, run, changes>>

NoRun == [pc |-> "idle", page |-> 0, offset |-> 0, jump |-> 0, wrapped |-> FALSE,
          seen |-> {}, out |-> <<>>]

TypeOK ==
    /\ backlog \subseteq Rows
    /\ ver \in [Rows -> 1..(MaxChanges + 2)] /\ failed \in [Rows -> 0..(MaxChanges + 2)]
    /\ cursor \in 0..(Cardinality(Rows) + Limit * maxGatherPages)
    /\ run.pc \in {"idle", "pages", "detect"} /\ run.page \in 0..maxGatherPages
    /\ run.seen \subseteq Rows /\ Len(run.out) <= Limit
    /\ changes \in 0..MaxChanges

(* Any part of the backlog may be remembered already, as it is or as it was. *)
Init ==
    /\ backlog \in SUBSET Rows
    /\ ver = [i \in Rows |-> 2]
    /\ failed \in [Rows -> {0, 1, 2}] /\ \A i \in Rows \ backlog : failed[i] = 0
    /\ cursor = 0 /\ run = NoRun /\ changes = 0

(* Never-attempted rows first, then the remembered ones, each by id. *)
ListUnclassified ==
    LET order    == [k \in 1..Cardinality(Rows) |-> k]
        fresh(i) == i \in backlog /\ failed[i] = 0
        known(i) == i \in backlog /\ failed[i] # 0
    IN SelectSeq(order, fresh) \o SelectSeq(order, known)

Page(offset) ==
    LET all == ListUnclassified
    IN IF offset >= Len(all) THEN <<>>
       ELSE SubSeq(all, offset + 1, IF offset + Limit < Len(all) THEN offset + Limit ELSE Len(all))

Begin ==
    /\ run.pc = "idle"
    /\ run' = [NoRun EXCEPT !.pc = "pages", !.jump = IF cursor > Limit THEN cursor ELSE Limit]
    /\ UNCHANGED <<backlog, ver, failed, cursor, changes>>

(* admit: skipped while the failure is of the file as it is now. *)
ShouldSkip(i) == failed[i] = ver[i]

Candidate(i) == [row |-> i, ver |-> ver[i]]

(* Mutant: a row met on two pages is taken twice. *)
TakeAgain(r, i) ==
    IF Len(r.out) = Limit THEN r
    ELSE [r EXCEPT !.offset = @ + 1, !.seen = @ \cup {i},
                   !.out = IF ShouldSkip(i) THEN @ ELSE Append(@, Candidate(i))]

(* A row of the page is examined while there is room: offset becomes the   *)
(* position of the first row left unexamined.                              *)
Take(r, i) ==
    IF Len(r.out) = Limit THEN r
    ELSE [r EXCEPT !.offset = @ + 1, !.seen = @ \cup {i},
                   !.out = IF i \in r.seen \/ ShouldSkip(i) THEN @ ELSE Append(@, Candidate(i))]

(* Mutant: the position is forgotten between the runs. *)
setCursorNot(pos) == cursor' = 0

setCursor(pos) == cursor' = pos

(* One page, with everything gather decides after it. *)
GatherPage ==
    /\ run.pc = "pages"
    /\ LET items == Page(run.offset)
           r     == FoldLeft(Take, run, items)
           ended == Len(items) < Limit
           last  == run.page + 1 >= maxGatherPages
           full  == Len(r.out) = Limit \/ (last /\ ~ended)
           wrap  == ended /\ ~run.wrapped /\ run.jump > Limit
           offset == IF wrap THEN Limit ELSE IF run.page = 0 THEN run.jump ELSE r.offset
           round   == (run.wrapped \/ wrap) /\ offset >= run.jump
           finish  == [r EXCEPT !.pc = "detect"]
       IN \/ /\ full /\ run' = finish
             /\ IF run.page > 0 THEN setCursor(r.offset) ELSE UNCHANGED cursor
          \/ /\ ~full /\ ((ended /\ ~wrap) \/ round)
             /\ run' = finish /\ setCursor(0)
          \/ /\ ~full /\ (ended => wrap) /\ ~round /\ last
             /\ run' = finish /\ setCursor(offset)
          \/ /\ ~full /\ (ended => wrap) /\ ~round /\ ~last
             /\ run' = [r EXCEPT !.page = @ + 1, !.offset = offset, !.wrapped = @ \/ wrap]
             /\ UNCHANGED cursor
    /\ UNCHANGED <<backlog, ver, failed, changes>>

(* The next candidate: classified, or its version remembered as failing;   *)
(* a row that left meanwhile changes nothing.                              *)
Detect ==
    /\ run.pc = "detect" /\ run.out # <<>>
    /\ LET c == Head(run.out)
       IN \/ backlog' = backlog \ {c.row} /\ UNCHANGED failed
          \/ failed' = [failed EXCEPT ![c.row] = c.ver] /\ UNCHANGED backlog
    /\ run' = [run EXCEPT !.out = Tail(@)]
    /\ UNCHANGED <<ver, cursor, changes>>

End ==
    /\ run.pc = "detect" /\ run.out = <<>> /\ run' = NoRun
    /\ UNCHANGED <<backlog, ver, failed, cursor, changes>>

(* The file is replaced, or the worker defers or settles a row. *)
Change(i) ==
    /\ changes < MaxChanges /\ changes' = changes + 1
    /\ \/ ver' = [ver EXCEPT ![i] = @ + 1] /\ UNCHANGED backlog
       \/ backlog' = backlog \cup {i} /\ UNCHANGED ver
       \/ backlog' = backlog \ {i} /\ UNCHANGED ver
    /\ UNCHANGED <<failed, cursor, run>>

RunStep == Begin \/ GatherPage \/ Detect \/ End
Next == RunStep \/ \E i \in Rows : Change(i)

Spec == Init /\ [][Next]_vars
(* runBackfillSweepLoop starts a run at every tick and nothing stops it. *)
LiveSpec == Spec /\ WF_vars(RunStep)

-----------------------------------------------------------------------------
(* A run asks the detector about a row once, also when rows moved between  *)
(* its pages (gather's seen).                                              *)
OncePerRun ==
    \A j, k \in DOMAIN run.out : run.out[j].row = run.out[k].row => j = k

(* However many remembered files stand before it, an unclassified row      *)
(* whose file the detector has not failed on as it is now is reached: the  *)
(* page bound and the cursor never hide a changed file for good            *)
(* (instrumentalbackfill.go:462-471).                                      *)
Unreached(i) == i \in backlog /\ ~ShouldSkip(i)
EveryFileReached == \A i \in Rows : Unreached(i) ~> ~Unreached(i)
=============================================================================
