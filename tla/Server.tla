-------------------------------- MODULE Server --------------------------------
(***************************************************************************)
(* The life of one `canticle serve` (internal/commands: runServe) and of   *)
(* its HTTP handler (internal/server): start-up, the Lidarr webhook with   *)
(* its API key, the background realign it dispatches, and the shutdown.    *)
(*                                                                         *)
(* HTTP listens before the start-up backfill runs, so webhooks arrive      *)
(* while it does; realigns wait for the gate backfillDone.  Shutdown is a  *)
(* chain of four goroutines: whoever cancels, the drainer (srv.Shutdown,   *)
(* then Handler.Close), the WaitGroup's tasks, and runServe itself, which  *)
(* closes the database last.                                               *)
(***************************************************************************)
EXTENDS Naturals, FiniteSets

CONSTANTS Hooks,      \* webhook requests (and the realign each may dispatch)
          Tasks,      \* what the WaitGroup holds: worker, scheduler, sweeps...
          KeyIds,     \* API keys
          Configured, \* the keys the configuration seeds at every start
          MaxStarts   \* bound: starts of the process

VARIABLES main,    \* where runServe is
          signal,  \* the caller's context is done
          cancel,  \* cancel() has been called
          serveErr,\* srv.Serve has returned
          gate,    \* backfillDone is closed
          drainer, \* "none", "wait", "shutdown", "close", "done"
          closed,  \* Handler.closed, and Handler.shutdown with it
          hook,    \* webhook request -> where it is
          bg,      \* webhook request -> the realign goroutine it dispatched
          task,    \* task -> "off", "run", "done"
          db,      \* the database handle is open
          late,    \* handlers that srv.Shutdown stopped waiting for
          keys,    \* key -> "none", "live", "revoked"
          starts

vars == <<main, signal, cancel, serveErr, gate, drainer, closed, hook, bg, task, db, late, keys, starts>>

RunDone == signal \/ cancel

Init ==
    /\ main = "open" /\ signal = FALSE /\ cancel = FALSE /\ serveErr = FALSE /\ gate = FALSE
    /\ drainer = "none" /\ closed = FALSE /\ db = FALSE /\ late = {} /\ starts = 1
    /\ hook = [h \in Hooks |-> "none"] /\ bg = [h \in Hooks |-> "none"]
    /\ task = [t \in Tasks |-> "off"] /\ keys = [k \in KeyIds |-> "none"]

http == <<hook, bg, late>>
-----------------------------------------------------------------------------
(* runServe, step by step.                                                  *)
(* db.Open, the secrets, the provider, ffmpeg; any of them may fail.        *)
Open ==
    /\ main = "open"
    /\ \/ main' = "build" /\ db' = TRUE
       \/ main' = "exit" /\ db' = FALSE
    /\ UNCHANGED <<signal, cancel, serveErr, gate, drainer, closed, task, keys, starts>> /\ UNCHANGED http

(* keyService: the configured keys, INSERT ... ON CONFLICT DO NOTHING. *)
SeededAgain(k) == IF k \in Configured THEN "live" ELSE keys[k]
Seeded(k) == IF k \in Configured /\ keys[k] = "none" THEN "live" ELSE keys[k]

(* The rest of the wiring, up to the drainer; a failure on the way returns, *)
(* two of them (audio detector, trusted networks) with the handle open.     *)
Build ==
    /\ main = "build"
    /\ keys' = [k \in KeyIds |-> Seeded(k)]
    /\ \/ main' = "listen" /\ drainer' = "wait" /\ UNCHANGED db
       \/ main' = "exit" /\ drainer' = "none" /\ db' \in BOOLEAN
    /\ UNCHANGED <<signal, cancel, serveErr, gate, closed, task, starts>> /\ UNCHANGED http

ListenGateOpen ==
    /\ main = "listen" /\ main' = "backfill" /\ gate' = TRUE
    /\ UNCHANGED <<signal, cancel, serveErr, drainer, closed, task, db, keys, starts>> /\ UNCHANGED http
Listen ==
    /\ main = "listen"
    /\ \/ main' = "backfill" /\ UNCHANGED cancel
       \/ main' = "drain" /\ cancel' = TRUE
    /\ UNCHANGED <<signal, serveErr, gate, drainer, closed, task, db, keys, starts>> /\ UNCHANGED http

Backfill ==
    /\ main = "backfill"
    /\ main' = "start" /\ gate' = TRUE
    /\ UNCHANGED <<signal, cancel, serveErr, drainer, closed, task, db, keys, starts>> /\ UNCHANGED http

StartTasks ==
    /\ main = "start"
    /\ \E on \in SUBSET Tasks : task' = [t \in Tasks |-> IF t \in on THEN "run" ELSE "off"]
    /\ main' = "serve"
    /\ UNCHANGED <<signal, cancel, serveErr, gate, drainer, closed, db, keys, starts>> /\ UNCHANGED http

ServeReturnsUncanceled ==
    /\ main = "serve" /\ serveErr /\ main' = "wait"
    /\ UNCHANGED <<signal, cancel, serveErr, gate, drainer, closed, task, db, keys, starts>> /\ UNCHANGED http
ServeReturns ==
    /\ main = "serve" /\ serveErr
    /\ cancel' = TRUE /\ main' = "wait"
    /\ UNCHANGED <<signal, serveErr, gate, drainer, closed, task, db, keys, starts>> /\ UNCHANGED http

WgWait ==
    /\ main = "wait" /\ \A t \in Tasks : task[t] # "run"
    /\ main' = "drain"
    /\ UNCHANGED <<signal, cancel, serveErr, gate, drainer, closed, task, db, keys, starts>> /\ UNCHANGED http

NotDrained == TRUE
Drained == drainer = "done"
CloseDB ==
    /\ main = "drain" /\ Drained
    /\ db' = FALSE /\ main' = "exit"
    /\ UNCHANGED <<signal, cancel, serveErr, gate, drainer, closed, task, keys, starts>> /\ UNCHANGED http

(* The listener fails, or the operator stops the process. *)
ServeFails ==
    /\ main \in {"backfill", "start", "serve"} /\ ~serveErr /\ serveErr' = TRUE
    /\ UNCHANGED <<main, signal, cancel, gate, drainer, closed, task, db, keys, starts>> /\ UNCHANGED http

Signal ==
    /\ ~signal /\ main # "exit" /\ signal' = TRUE
    /\ UNCHANGED <<main, cancel, serveErr, gate, drainer, closed, task, db, keys, starts>> /\ UNCHANGED http

(* A task may end on its own, and ends once the context is done. *)
TaskEnds(t) ==
    /\ task[t] = "run" /\ task' = [task EXCEPT ![t] = "done"]
    /\ UNCHANGED <<main, signal, cancel, serveErr, gate, drainer, closed, db, keys, starts>> /\ UNCHANGED http
-----------------------------------------------------------------------------
(* The drainer: srv.Shutdown stops the listener at once, waits at most ten  *)
(* seconds for the requests in flight, and leaves the rest running.         *)
DrainStart ==
    /\ drainer = "wait" /\ RunDone
    /\ drainer' = "shutdown" /\ serveErr' = TRUE
    /\ UNCHANGED <<main, signal, cancel, gate, closed, task, db, keys, starts>> /\ UNCHANGED http

InFlight == {h \in Hooks : hook[h] \in {"auth", "work"}}

ShutdownReturns ==
    /\ drainer = "shutdown"
    /\ drainer' = "close" /\ late' = InFlight
    /\ UNCHANGED <<main, signal, cancel, serveErr, gate, closed, hook, bg, task, db, keys, starts>>

(* Handler.Close: refuse new realigns, wake the waiting ones, wait for all. *)
CloseHandler ==
    /\ drainer = "close" /\ ~closed /\ closed' = TRUE
    /\ UNCHANGED <<main, signal, cancel, serveErr, gate, drainer, task, db, keys, starts>> /\ UNCHANGED http

BgIdle == \A h \in Hooks : bg[h] \notin {"gate", "check", "run"}
BgWait ==
    /\ drainer = "close" /\ closed /\ BgIdle
    /\ drainer' = "done"
    /\ UNCHANGED <<main, signal, cancel, serveErr, gate, closed, task, db, keys, starts>> /\ UNCHANGED http
-----------------------------------------------------------------------------
Listening == main \in {"backfill", "start", "serve"} /\ ~serveErr
idleMain == <<main, signal, cancel, serveErr, gate, drainer, closed, task, db, keys, starts>>

(* handleLidarr: ValidateKey, then the event; Download, TrackRetag and      *)
(* Rename dispatch a realign once the enqueues succeeded.                   *)
handleLidarr(h) ==
    /\ Listening /\ hook[h] = "none"
    /\ hook' = [hook EXCEPT ![h] = "auth"]
    /\ UNCHANGED idleMain /\ UNCHANGED <<bg, late>>

ValidateKey(h) ==
    /\ hook[h] = "auth"
    /\ \E k \in KeyIds : hook' = [hook EXCEPT ![h] = IF db /\ keys[k] = "live" THEN "work" ELSE "done"]
    /\ UNCHANGED idleMain /\ UNCHANGED <<bg, late>>

DispatchedAnyway == "gate"
Dispatched == IF closed THEN "refused" ELSE "gate"
dispatchRealign(h) ==
    /\ hook[h] = "work"
    /\ hook' = [hook EXCEPT ![h] = "done"]
    /\ bg' = [bg EXCEPT ![h] = Dispatched]
    /\ UNCHANGED idleMain /\ UNCHANGED late

(* Any other event, a bad payload, an enqueue or a cleanup that fails. *)
Answered(h) ==
    /\ hook[h] = "work"
    /\ hook' = [hook EXCEPT ![h] = "done"]
    /\ UNCHANGED idleMain /\ UNCHANGED <<bg, late>>

(* The goroutine: the gate or the shutdown, whichever; then the shutdown    *)
(* again, for a select with both ready may have taken the gate.             *)
Gated == gate \/ closed
GateOpen(h) ==
    /\ bg[h] = "gate" /\ Gated
    /\ bg' = [bg EXCEPT ![h] = "check"]
    /\ UNCHANGED idleMain /\ UNCHANGED <<hook, late>>

Proceeds(h) == "run"
Checked(h) == IF closed THEN "dropped" ELSE "run"
RecheckShutdown(h) ==
    /\ bg[h] = "check"
    /\ bg' = [bg EXCEPT ![h] = Checked(h)]
    /\ UNCHANGED idleMain /\ UNCHANGED <<hook, late>>

reactiveRealign(h) ==
    /\ bg[h] = "run"
    /\ bg' = [bg EXCEPT ![h] = "done"]
    /\ UNCHANGED idleMain /\ UNCHANGED <<hook, late>>
-----------------------------------------------------------------------------
(* CreateKey, RevokeKey and RevokeKeyByID, from the command line or the UI. *)
CreateKey(k) ==
    /\ keys[k] = "none" /\ k \notin Configured
    /\ keys' = [keys EXCEPT ![k] = "live"]
    /\ UNCHANGED <<main, signal, cancel, serveErr, gate, drainer, closed, task, db, starts>> /\ UNCHANGED http

RevokeKey(k) ==
    /\ keys[k] = "live"
    /\ keys' = [keys EXCEPT ![k] = "revoked"]
    /\ UNCHANGED <<main, signal, cancel, serveErr, gate, drainer, closed, task, db, starts>> /\ UNCHANGED http

(* The next start, on the same database. *)
Restart ==
    /\ main = "exit" /\ starts < MaxStarts /\ starts' = starts + 1
    /\ main' = "open" /\ signal' = FALSE /\ cancel' = FALSE /\ serveErr' = FALSE /\ gate' = FALSE
    /\ drainer' = "none" /\ closed' = FALSE /\ db' = FALSE /\ late' = {}
    /\ hook' = [h \in Hooks |-> "none"] /\ bg' = [h \in Hooks |-> "none"]
    /\ task' = [t \in Tasks |-> "off"]
    /\ UNCHANGED keys

Main == Open \/ Build \/ Listen \/ Backfill \/ StartTasks \/ ServeReturns \/ WgWait \/ CloseDB
Drainer == DrainStart \/ ShutdownReturns \/ CloseHandler \/ BgWait
Background(h) == GateOpen(h) \/ RecheckShutdown(h) \/ reactiveRealign(h)

Next ==
    \/ Main \/ Drainer \/ ServeFails \/ Signal \/ Restart
    \/ \E t \in Tasks : TaskEnds(t)
    \/ \E h \in Hooks : Background(h) \/ handleLidarr(h) \/ ValidateKey(h) \/ dispatchRealign(h) \/ Answered(h)
    \/ \E k \in KeyIds : CreateKey(k) \/ RevokeKey(k)

Spec == Init /\ [][Next]_vars

(* Every goroutine goes on; a task returns once its context is done.        *)
LiveSpec ==
    /\ Spec
    /\ WF_vars(Main) /\ WF_vars(Drainer)
    /\ \A h \in Hooks : WF_vars(Background(h))
    /\ \A t \in Tasks : WF_vars(RunDone /\ TaskEnds(t))
-----------------------------------------------------------------------------
(* No realign touches a file while the start-up backfill still may, not     *)
(* even one woken by the shutdown (server.go:701-716).                      *)
RealignAfterBackfill == \A h \in Hooks : bg[h] = "run" => gate

(* When runServe closes the database, nothing it waits for is left: no      *)
(* task, no realign, and no request but those srv.Shutdown gave up on       *)
(* (commands.go:1743-1750, server.go:726).                                  *)
NothingOutlivesTheDatabase ==
    (main = "exit" /\ drainer # "none") =>
        /\ \A t \in Tasks : task[t] # "run"
        /\ BgIdle
        /\ InFlight \subseteq late

(* A request that outlives srv.Shutdown cannot start a realign that nobody  *)
(* waits for (server.go:688-695).                                           *)
NoRealignAfterClose ==
    \A h \in Hooks : (drainer = "done" /\ drainer' = "done") => bg'[h] \in {bg[h], "refused"}

(* A revoked key stays revoked, also when the configuration still names it  *)
(* at the next start (auth/store.go:42).                                    *)
RevokedStaysRevoked ==
    \A k \in KeyIds : keys[k] = "revoked" => keys'[k] = "revoked"

(* Told to stop, the process stops: no phase of the start-up, no task and   *)
(* no waiting realign keeps it (commands.go:1508-1520, 1738-1750).          *)
Told == signal \/ serveErr
Exited == main = "exit"
StopsWhenTold == Told ~> Exited

TypeOK ==
    /\ main \in {"open", "build", "listen", "backfill", "start", "serve", "wait", "drain", "exit"}
    /\ drainer \in {"none", "wait", "shutdown", "close", "done"}
    /\ \A h \in Hooks : hook[h] \in {"none", "auth", "work", "done"}
    /\ \A h \in Hooks : bg[h] \in {"none", "refused", "gate", "check", "run", "dropped", "done"}
    /\ keys \in [KeyIds -> {"none", "live", "revoked"}]
    /\ gate => main \in {"start", "serve", "wait", "drain", "exit"}
=============================================================================
