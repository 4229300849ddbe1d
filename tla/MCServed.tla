------------------------------ MODULE MCServed ------------------------------
(***************************************************************************)
(* What must happen in the end on the way from the disk to a served row    *)
(* and in the requests of the UI, part by part.  A behaviour takes one     *)
(* part of Parts; the lookahead buffer has the variables of its module,    *)
(* the other parts run on the first of x1 .. x13, the rest standing still. *)
(* Each part has the fairness its module's specification states, on its    *)
(* own steps; as one part runs, the parts share the formulas.              *)
(***************************************************************************)
EXTENDS Lookahead, Integers, TLC

CONSTANT Parts   \* the parts this run takes

VARIABLES part, x1, x2, x3, x4, x5, x6, x7, x8, x9, x10, x11, x12, x13

allVars == <<part, x1, x2, x3, x4, x5, x6, x7, x8, x9, x10, x11, x12, x13,
             status, due, high, buf, fresh, empty>>

WatchDir == [p \in {1, 2} |-> "d"]
AdoptStem == [f \in {"a", "b"} |-> "s1"]
NoChange == [f \in {} |-> 0]
Requests == {("disabled" :> {"mxm"}), ("cert" :> TRUE @@ "key" :> TRUE), ("tok" :> TRUE)}

(* The two files, lookups or clients of a part by number. *)
Of(k) == <<"a", "b">>[k]
-----------------------------------------------------------------------------
Wa == INSTANCE Watch WITH
    exists <- x1, seen <- x2, recorded <- x3, chan <- x4, hand <- x5,
    timer <- x6, orphan <- x7, fired <- x8, scanning <- x9, missed <- x10,
    changes <- x11, Paths <- {1, 2}, Dirs <- {"d"}, DirOf <- WatchDir,
    EventBuffer <- 2, MaxChanges <- 3
Ou == INSTANCE Outage WITH
    alive <- x1, zero <- x2, latched <- x3, control <- x4, probing <- x5,
    lk <- x6, misses <- x7, fails <- x8, Lookups <- {"a", "b"},
    ZeroResultThreshold <- 2, MaxFails <- 1
To == INSTANCE Token WITH
    store <- x1, owner <- x2, sv <- x3, lk <- x4, renewMu <- x5, dead <- x6,
    mints <- x7, saves <- x8, starts <- x9, writes <- x10,
    Lookups <- {"a", "b"}, Faults <- {"mint", "db"}, MaxMints <- 1,
    MaxSaves <- 1, MaxStarts <- 1, MaxExpired <- 1
Ad == INSTANCE Adopt WITH
    present <- x1, lyric <- x2, sr <- x3, forced <- x4, found <- x5,
    row <- x6, links <- x7, backup <- x8, ad <- x9, en <- x10, n <- x11,
    Files <- {"a", "b"}, Stem <- AdoptStem, MaxMoves <- 1, MaxForced <- 0,
    MaxFaults <- 1
He == INSTANCE HandEdit WITH
    row <- x1, lrc <- x2, orig <- x3, rowLock <- x4, pathLock <- x5,
    ed <- x6, wk <- x7, sweep <- x8, tags <- x9, filled <- x10,
    writes <- x11, requests <- x12, crashes <- x13, Editors <- {"a", "b"},
    Faults <- {"mark", "write"}, MaxWrites <- 1, MaxRequests <- 2,
    MaxCrashes <- 0, maxDegradedAttempts <- 2
Fl == INSTANCE FlacCache WITH
    cur <- x1, out <- x2, inflight <- x3, job <- x4, n <- x5, closed <- x6,
    dir <- x7, get <- x8, gets <- x9, Getters <- {"a", "b"},
    Tracks <- {"t"}, flacMaxConversions <- 1, MaxFiles <- 1, MaxJobs <- 2,
    MaxEdits <- 0, MaxGets <- 2
St == INSTANCE Settings WITH
    env <- x1, file <- x2, bak <- x3, store <- x4, boot <- x5, up <- x6,
    lock <- x7, sv <- x8, saves <- x9, hands <- x10, starts <- x11,
    Savers <- {"a", "b"}, Requests <- Requests, HandEdits <- {},
    Envs <- {NoChange}, BadEnv <- {}, Faults <- {"write", "store"},
    MaxSaves <- 2, MaxHands <- 0, MaxStarts <- 2, OpenMin <- 4,
    OpenDefault <- 6, BaseMin <- 2, BaseDefault <- 3
-----------------------------------------------------------------------------
AnyInit ==
    /\ part \in Parts
    /\ \/ part = "lookahead" /\ Init
          /\ x1 = 0 /\ x2 = 0 /\ x3 = 0 /\ x4 = 0 /\ x5 = 0 /\ x6 = 0 /\
             x7 = 0 /\ x8 = 0 /\ x9 = 0 /\ x10 = 0 /\ x11 = 0 /\ x12 = 0 /\
             x13 = 0
       \/ part = "watch" /\ Wa!Init
          /\ x12 = 0 /\ x13 = 0 /\ status = [r \in Rows |-> "none"] /\
             due = [r \in Rows |-> FALSE] /\
             high = [r \in Rows |-> FALSE] /\ buf = <<>> /\ fresh = {} /\
             empty = FALSE
       \/ part = "outage" /\ Ou!Init
          /\ x9 = 0 /\ x10 = 0 /\ x11 = 0 /\ x12 = 0 /\ x13 = 0 /\
             status = [r \in Rows |-> "none"] /\
             due = [r \in Rows |-> FALSE] /\
             high = [r \in Rows |-> FALSE] /\ buf = <<>> /\ fresh = {} /\
             empty = FALSE
       \/ part = "token" /\ To!Init
          /\ x11 = 0 /\ x12 = 0 /\ x13 = 0 /\
             status = [r \in Rows |-> "none"] /\
             due = [r \in Rows |-> FALSE] /\
             high = [r \in Rows |-> FALSE] /\ buf = <<>> /\ fresh = {} /\
             empty = FALSE
       \/ part = "adopt" /\ Ad!Init
          /\ x12 = 0 /\ x13 = 0 /\ status = [r \in Rows |-> "none"] /\
             due = [r \in Rows |-> FALSE] /\
             high = [r \in Rows |-> FALSE] /\ buf = <<>> /\ fresh = {} /\
             empty = FALSE
       \/ part = "edits" /\ He!Init
          /\ status = [r \in Rows |-> "none"] /\
             due = [r \in Rows |-> FALSE] /\
             high = [r \in Rows |-> FALSE] /\ buf = <<>> /\ fresh = {} /\
             empty = FALSE
       \/ part = "flac" /\ Fl!Init
          /\ x10 = 0 /\ x11 = 0 /\ x12 = 0 /\ x13 = 0 /\
             status = [r \in Rows |-> "none"] /\
             due = [r \in Rows |-> FALSE] /\
             high = [r \in Rows |-> FALSE] /\ buf = <<>> /\ fresh = {} /\
             empty = FALSE
       \/ part = "settings" /\ St!Init
          /\ x12 = 0 /\ x13 = 0 /\ status = [r \in Rows |-> "none"] /\
             due = [r \in Rows |-> FALSE] /\
             high = [r \in Rows |-> FALSE] /\ buf = <<>> /\ fresh = {} /\
             empty = FALSE

LoDo(A) == part = "lookahead" /\ A
            /\ UNCHANGED <<part, x1, x2, x3, x4, x5, x6, x7, x8, x9, x10,
                           x11, x12, x13>>
LoNext == part = "lookahead" /\ Next
            /\ UNCHANGED <<part, x1, x2, x3, x4, x5, x6, x7, x8, x9, x10,
                           x11, x12, x13>>
WaDo(A) == part = "watch" /\ A
            /\ UNCHANGED <<part, x12, x13, status, due, high, buf, fresh,
                           empty>>
WaNext == part = "watch" /\ Wa!Next
            /\ UNCHANGED <<part, x12, x13, status, due, high, buf, fresh,
                           empty>>
OuDo(A) == part = "outage" /\ A
            /\ UNCHANGED <<part, x9, x10, x11, x12, x13, status, due, high,
                           buf, fresh, empty>>
OuNext == part = "outage" /\ Ou!Next
            /\ UNCHANGED <<part, x9, x10, x11, x12, x13, status, due, high,
                           buf, fresh, empty>>
ToDo(A) == part = "token" /\ A
            /\ UNCHANGED <<part, x11, x12, x13, status, due, high, buf,
                           fresh, empty>>
ToNext == part = "token" /\ To!Next
            /\ UNCHANGED <<part, x11, x12, x13, status, due, high, buf,
                           fresh, empty>>
AdDo(A) == part = "adopt" /\ A
            /\ UNCHANGED <<part, x12, x13, status, due, high, buf, fresh,
                           empty>>
AdNext == part = "adopt" /\ Ad!Next
            /\ UNCHANGED <<part, x12, x13, status, due, high, buf, fresh,
                           empty>>
HeDo(A) == part = "edits" /\ A
            /\ UNCHANGED <<part, status, due, high, buf, fresh, empty>>
HeNext == part = "edits" /\ He!Next
            /\ UNCHANGED <<part, status, due, high, buf, fresh, empty>>
FlDo(A) == part = "flac" /\ A
            /\ UNCHANGED <<part, x10, x11, x12, x13, status, due, high, buf,
                           fresh, empty>>
FlNext == part = "flac" /\ Fl!Next
            /\ UNCHANGED <<part, x10, x11, x12, x13, status, due, high, buf,
                           fresh, empty>>
StDo(A) == part = "settings" /\ A
            /\ UNCHANGED <<part, x12, x13, status, due, high, buf, fresh,
                           empty>>
StNext == part = "settings" /\ St!Next
            /\ UNCHANGED <<part, x12, x13, status, due, high, buf, fresh,
                           empty>>

AnyNext == LoNext \/ WaNext \/ OuNext \/ ToNext \/ AdNext \/ HeNext \/
           FlNext \/ StNext

AnySpec == AnyInit /\ [][AnyNext]_allVars
(* The k-th weakly fair step of a part. *)
GoesOn(k) ==
    \/ k = 1 /\ LoDo(Dequeue)
    \/ k = 1 /\ WaDo(Wa!translate)
    \/ k = 2 /\ WaDo(Wa!arm)
    \/ k = 3 /\ WaDo(Wa!scanStart)
    \/ k = 4 /\ WaDo(Wa!scanEnd)
    \/ k = 5 /\ WaDo(Wa!TimerFires("d"))
    \/ k = 6 /\ WaDo(Wa!RunOnce)
    \/ k < 3 /\ OuDo(Ou!Ask(Of(k)))
    \/ 2 < k /\ k < 5 /\ OuDo(Ou!Step(Of(k - 2)))
    \/ k < 3 /\ AdDo(Ad!Index(Of(k)))
    \/ 2 < k /\ k < 5 /\ AdDo(Ad!StartRepoint(Of(k - 2)))
    \/ k = 5 /\ AdDo(Ad!Adopter)
    \/ k = 6 /\ AdDo(Ad!Enqueuer)
    \/ k = 7 /\ AdDo(Ad!Worker)
    \/ k = 1 /\ HeDo(He!SweepRead \/ He!applyOne)
    \/ k = 2 /\ HeDo(He!TagRead \/ He!InjectEditorTag)
    \/ k < 3 /\ FlDo(Fl!Serve(Of(k)))
    \/ 2 < k /\ k < 5 /\ FlDo(Fl!Run(k - 2))
    \/ k = 5 /\ FlDo(Fl!CloseEnd)
    \/ k < 3 /\ StDo(St!Step(Of(k)))

(* The k-th step that competes for a lock or a slot, or waits for a row it  *)
(* is not always allowed to take.                                           *)
Competes(k) ==
    \/ OuDo(Ou!recordZeroResult(Of(k)))
    \/ ToDo(To!Step(Of(k)))
    \/ AdDo(Ad!StartEnqueue(Of(k)))
    \/ HeDo(He!EditStep(Of(k)))
    \/ FlDo(Fl!TakeSlot(k))
    \/ StDo(St!Lock(Of(k)))

Fairness == (\A k \in 1..7 : WF_allVars(GoesOn(k))) /\ (\A k \in 1..2 : SF_allVars(Competes(k)))

LiveSpec == AnySpec /\ Fairness
-----------------------------------------------------------------------------
(* What waits, the k-th of its part, and the end of the wait. *)
Waiting(k) ==
    \/ part = "lookahead" /\ Buffered(k)
    \/ part = "watch" /\ k < 3 /\ Wa!Unseen(k)
    \/ part = "token" /\ k < 3 /\ To!LookingUp(Of(k))
    \/ part = "edits" /\ k < 3 /\ He!Editing(Of(k))
    \/ part = "flac" /\ k < 3 /\ Fl!Getting(Of(k))
    \/ part = "settings" /\ k < 3 /\ St!Saving(Of(k))
    \/ part = "adopt" /\ ((k = 1 /\ Ad!Unlinked("a")) \/ (k = 2 /\ Ad!Reserved("b")) \/ (k = 3 /\ Ad!RetiredFor("b")))

Served(k) ==
    \/ part = "lookahead" /\ ~Buffered(k)
    \/ part = "watch" /\ k < 3 /\ Wa!CaughtUp(k)
    \/ part = "token" /\ k < 3 /\ ~To!LookingUp(Of(k))
    \/ part = "edits" /\ k < 3 /\ He!Answered(Of(k))
    \/ part = "flac" /\ k < 3 /\ Fl!Got(Of(k))
    \/ part = "settings" /\ k < 3 /\ St!Saved(Of(k))
    \/ part = "adopt" /\ ((k = 1 /\ Ad!Linked("a")) \/ (k = 2 /\ Ad!Released("b")) \/ (k = 3 /\ Ad!Returned("b")))

(* A buffered row is claimed or loses its stamp; a changed file reaches the *)
(* ledger whichever event was lost; a token lookup ends; a settled file is  *)
(* linked to a row, a reserved result settled unless prune retires its row, *)
(* and a retired row reopened at the file that took its file's place; a     *)
(* provider's recovery is noticed;                                          *)
(* and every edit, conversion and settings save is answered, whatever the   *)
(* others hold and whichever step fails.                                    *)
(* No change on disk falls between two stages of the watcher, and a         *)
(* webhook's row is the next one claimed.                                   *)
WorkIsServed ==
    /\ \A k \in 1..3 : Waiting(k) ~> Served(k)
    /\ []<>(part = "outage" => Ou!Noticed)
    /\ [](part = "watch" => Wa!TypeOK /\ Wa!NothingForgotten)
    /\ [](part = "lookahead" => TypeOK)
    /\ WebhookServedNext
=============================================================================
