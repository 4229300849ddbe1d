-------------------------------- MODULE Watch --------------------------------
(***************************************************************************)
(* How a change on disk reaches the scan ledger: the filesystem watcher    *)
(* (internal/watcher), the registry of the process's own writes            *)
(* (internal/selfwrite) and the scan scheduler (internal/scan).            *)
(*                                                                         *)
(*   notify -> chan -> translate -> hand -> dispatch -> timers -> fired    *)
(*          -> scan of one directory                                       *)
(*                                                                         *)
(* dispatch scans on its own goroutine, so while it scans nothing drains   *)
(* the events, and the notify library drops what its channel cannot hold.  *)
(***************************************************************************)
EXTENDS Naturals, Sequences, FiniteSets

CONSTANTS Paths,        \* the files of the libraries
          Dirs,         \* the watched directories
          DirOf,        \* the directory an event on a path is scanned under
          EventBuffer,  \* capacity of the notify channel
          MaxChanges    \* changes made on disk, then it is quiet

VARIABLES exists,   \* path -> the file is there
          seen,     \* path -> the ledger reflects the file as it is
          recorded, \* the paths of unexpired self-writes
          chan,     \* events notify has queued: [path, gone: Remove or Rename]
          hand,     \* the event translate is handing over, or the empty sequence
          timer,    \* dir -> "none", "running", "fired": the pending entry's timer
          orphan,   \* dir -> a timer reset after it fired outlives its entry
          fired,    \* the directories whose timer has gone off, in order
          scanning, \* dispatch is in a scan
          missed,   \* paths with a change the watcher is allowed to miss
          changes   \* changes so far

vars == <<exists, seen, recorded, chan, hand, timer, orphan, fired, scanning, missed, changes>>

Init ==
    /\ exists = [p \in Paths |-> TRUE] /\ seen = [p \in Paths |-> TRUE]
    /\ recorded = {} /\ chan = <<>> /\ hand = <<>> /\ fired = <<>> /\ scanning = FALSE
    /\ timer = [d \in Dirs |-> "none"] /\ orphan = [d \in Dirs |-> FALSE]
    /\ missed = {} /\ changes = 0

(* notify.Watch: an event for every change, dropped when the channel is full. *)
Notify(p, gone) ==
    /\ changes < MaxChanges /\ changes' = changes + 1
    /\ IF Len(chan) < EventBuffer
       THEN chan' = Append(chan, [path |-> p, gone |-> gone]) /\ missed' = missed
       ELSE chan' = chan /\ missed' = missed \cup {p}

(* Somebody else writes, creates or removes the file. *)
External(p) ==
    /\ \E there \in BOOLEAN :
          /\ there \/ exists[p]
          /\ exists' = [exists EXCEPT ![p] = there]
          /\ Notify(p, ~there)
    /\ seen' = [seen EXCEPT ![p] = FALSE]
    /\ UNCHANGED <<recorded, hand, timer, orphan, fired, scanning>>

(* The process itself writes the file: Record first, then the write.  The   *)
(* writer settles the ledger on its own.                                    *)
SelfWrite(p) ==
    /\ recorded' = recorded \cup {p}
    /\ exists' = [exists EXCEPT ![p] = TRUE]
    /\ Notify(p, FALSE)
    /\ UNCHANGED <<seen, hand, timer, orphan, fired, scanning>>

Expire(p) ==
    /\ p \in recorded
    /\ recorded' = recorded \ {p}
    /\ UNCHANGED <<exists, seen, chan, hand, timer, orphan, fired, scanning, missed, changes>>

(* Suppress, by path alone: an external change to a path just written by    *)
(* the process cannot be told from the write.                               *)
Suppress(p) == p \in recorded

(* maybePrune: at once, and only for a path that is gone right now.  A      *)
(* failed prune is logged.                                                  *)
Pruned(ev) == ev.gone /\ ~exists[ev.path]

translate ==
    /\ chan # <<>> /\ hand = <<>>
    /\ chan' = Tail(chan)
    /\ LET ev == Head(chan) IN
       IF Suppress(ev.path)
       THEN /\ missed' = IF seen[ev.path] THEN missed ELSE missed \cup {ev.path}
            /\ UNCHANGED <<hand, seen>>
       ELSE /\ hand' = <<DirOf[ev.path]>>
            /\ \/ /\ seen' = IF Pruned(ev) THEN [seen EXCEPT ![ev.path] = TRUE] ELSE seen
                  /\ UNCHANGED missed
               \/ /\ Pruned(ev) /\ missed' = missed \cup {ev.path} /\ UNCHANGED seen
    /\ UNCHANGED <<exists, recorded, timer, orphan, fired, scanning, changes>>

-----------------------------------------------------------------------------
(* dispatch: its select loop, idle between scans. *)

(* The slip: an entry whose timer has fired is taken to be done with. *)
armNew ==
    /\ ~scanning /\ hand # <<>>
    /\ timer' = IF timer[hand[1]] = "fired" THEN [timer EXCEPT ![hand[1]] = "none"]
                ELSE [timer EXCEPT ![hand[1]] = "running"]
    /\ hand' = <<>>
    /\ UNCHANGED <<exists, seen, recorded, chan, orphan, fired, scanning, missed, changes>>

(* An event for a directory with an entry stops and resets its timer, which *)
(* may already have fired; otherwise a new entry is armed.                  *)
arm ==
    /\ ~scanning /\ hand # <<>>
    /\ timer' = [timer EXCEPT ![hand[1]] = "running"]
    /\ hand' = <<>>
    /\ UNCHANGED <<exists, seen, recorded, chan, orphan, fired, scanning, missed, changes>>

TimerFires(d) ==
    /\ \/ timer[d] = "running" /\ timer' = [timer EXCEPT ![d] = "fired"] /\ UNCHANGED orphan
       \/ orphan[d] /\ orphan' = [orphan EXCEPT ![d] = FALSE] /\ UNCHANGED timer
    /\ fired' = Append(fired, d)
    /\ UNCHANGED <<exists, seen, recorded, chan, hand, scanning, missed, changes>>

(* A fired directory with an entry is scanned and its entry deleted; its    *)
(* timer, if reset meanwhile, runs on.  Bound: one such timer a directory.  *)
(* RunOnceForPath walks the directory and upserts the files it finds; what  *)
(* changes after the walk comes with an event of its own.  A failed scan is *)
(* logged and not repeated.                                                 *)
scanStart ==
    /\ ~scanning /\ fired # <<>>
    /\ fired' = Tail(fired)
    /\ LET d == Head(fired)
           found == {p \in Paths : DirOf[p] = d /\ exists[p]}
       IN  IF timer[d] = "none"
           THEN UNCHANGED <<timer, orphan, scanning, seen, missed>>
           ELSE /\ timer[d] = "running" => ~orphan[d]
                /\ orphan' = [orphan EXCEPT ![d] = @ \/ timer[d] = "running"]
                /\ timer' = [timer EXCEPT ![d] = "none"]
                /\ scanning' = TRUE
                /\ \/ /\ seen' = [p \in Paths |-> seen[p] \/ p \in found]
                      /\ missed' = missed \ found
                   \/ missed' = missed \cup found /\ UNCHANGED seen
    /\ UNCHANGED <<exists, recorded, chan, hand, changes>>

scanEnd ==
    /\ scanning /\ scanning' = FALSE
    /\ UNCHANGED <<exists, seen, recorded, chan, hand, timer, orphan, fired, missed, changes>>

(* The scheduler's full pass over every library, on its own goroutine.  It  *)
(* is taken only where it matters: to bring in what the watcher missed.     *)
RunOnce ==
    /\ \E p \in missed : exists[p]
    /\ seen' = [p \in Paths |-> seen[p] \/ exists[p]]
    /\ missed' = {p \in missed : ~exists[p]}
    /\ UNCHANGED <<exists, recorded, chan, hand, timer, orphan, fired, scanning, changes>>

Watcher == translate \/ arm \/ scanStart \/ scanEnd \/ \E d \in Dirs : TimerFires(d)

Next == \/ Watcher \/ RunOnce
        \/ \E p \in Paths : External(p) \/ SelfWrite(p) \/ Expire(p)

(* The watcher's goroutines run, a debounce timer goes off once its         *)
(* directory is quiet, and the scheduler comes round again.                 *)
Spec == Init /\ [][Next]_vars
LiveSpec ==
    /\ Spec
    /\ WF_vars(translate) /\ WF_vars(arm) /\ WF_vars(scanStart) /\ WF_vars(scanEnd)
    /\ \A d \in Dirs : WF_vars(TimerFires(d))
    /\ WF_vars(RunOnce)

-----------------------------------------------------------------------------
(* The shape of the pipeline. *)
TypeOK ==
    /\ exists \in [Paths -> BOOLEAN] /\ seen \in [Paths -> BOOLEAN]
    /\ Len(chan) <= EventBuffer /\ Len(hand) <= 1
    /\ timer \in [Dirs -> {"none", "running", "fired"}]
    /\ recorded \subseteq Paths /\ missed \subseteq Paths

(* No change falls between the stages: while the ledger does not reflect a  *)
(* file, its event is still queued, or a scan of its directory is owed,     *)
(* unless the channel overflowed, the path was one just written by the      *)
(* process, or a scan or prune failed.                                      *)
NothingForgotten ==
    \A p \in Paths :
        \/ seen[p] \/ p \in missed
        \/ \E i \in 1..Len(chan) : chan[i].path = p
        \/ exists[p] /\ (hand = <<DirOf[p]>> \/ timer[DirOf[p]] # "none")

(* Once the disk is quiet every file that is there is in the ledger as it   *)
(* is: the watcher brings it in, or, if its event was suppressed, dropped   *)
(* or failed on the way, the scheduler's next pass.                         *)
Unseen(p) == ~seen[p]
CaughtUp(p) == seen[p] \/ ~exists[p]
LedgerCatchesUp == \A p \in Paths : Unseen(p) ~> CaughtUp(p)
=============================================================================
