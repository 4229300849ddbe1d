----------------------------- MODULE FlacCache ------------------------------
(***************************************************************************)
(* The cache of FLAC conversions behind the preview player                 *)
(* (internal/web/flacfallback.go): requests for one version of a file      *)
(* share one conversion, the result is pinned until each has opened it,    *)
(* the oldest results go when the cache outgrows its cap, and a close      *)
(* waits for the conversions before it removes the directory.              *)
(***************************************************************************)
EXTENDS Naturals, FiniteSets, Sequences

CONSTANTS
    Getters,               \* requests at once
    Tracks,                \* audio files
    flacMaxConversions,    \* code: 2
    MaxFiles,              \* the cap, counted in files (code: bytes)
    MaxJobs, MaxEdits, MaxGets      \* bounds

VARIABLES
    cur,        \* each track's version on disk
    out,        \* the cached results, oldest first: [key, ver]
    inflight,   \* the job of a key, 0 when there is none
    job,        \* every job begun
    n,          \* jobs begun
    closed,     \* Close has begun
    dir,        \* the directory exists
    get,        \* each request
    gets

vars == <<cur, out, inflight, job, n, closed, dir, get, gets>>

Keys == Tracks \X (1..(MaxEdits + 1))          \* flacKey: path and version
NoKey == <<CHOOSE t \in Tracks : TRUE, 1>>
NoJob == [key |-> NoKey, pc |-> "none", err |-> FALSE, waiters |-> 0, canceled |-> FALSE, ver |-> 0]
Idle == [pc |-> "idle", key |-> NoKey, job |-> 0]

Cached(k) == \E i \in DOMAIN out : out[i].key = k
(* The results at the positions s, in their order.                         *)
ResultsAt(s) == [j \in 1..Cardinality(s) |-> out[CHOOSE i \in s : Cardinality({x \in s : x <= i}) = j]]
Unlisted(k) == ResultsAt({i \in DOMAIN out : out[i].key # k})
SlotsLeaked == {i \in 1..n : job[i].pc \in {"open", "convert", "rename", "evict", "end"} \/ (job[i].pc = "gone" /\ job[i].err)}
Slots == {i \in 1..n : job[i].pc \in {"open", "convert", "rename", "evict", "end"}}
Partials == {i \in 1..n : job[i].pc \in {"convert", "rename"}}
LiveJobs == {i \in 1..n : job[i].pc \notin {"none", "gone"}}

TypeOK ==
    /\ cur \in [Tracks -> 1..(MaxEdits + 1)] /\ n \in 0..MaxJobs /\ gets \in 0..MaxGets
    /\ \A i \in DOMAIN out : out[i].key \in Keys /\ out[i].ver \in 1..(MaxEdits + 1)
    /\ inflight \in [Keys -> 0..n] /\ closed \in BOOLEAN /\ dir \in BOOLEAN
    /\ \A i \in 1..MaxJobs : job[i].waiters \in 0..Cardinality(Getters)
    /\ \A g \in Getters : get[g].pc \in {"idle", "look", "hit", "join", "wait", "leave"}
    /\ Cardinality(Slots) <= flacMaxConversions

Init ==
    /\ cur = [t \in Tracks |-> 1] /\ out = <<>> /\ inflight = [k \in Keys |-> 0]
    /\ job = [i \in 1..MaxJobs |-> NoJob] /\ n = 0 /\ closed = FALSE /\ dir = TRUE
    /\ get = [g \in Getters |-> Idle] /\ gets = 0

To(g, pc) == get' = [get EXCEPT ![g].pc = pc]
Return(g) == get' = [get EXCEPT ![g] = Idle]

(* handlePreviewFlac: the stat of the source names the conversion.         *)
Stat(g, t) ==
    /\ get[g].pc = "idle" /\ gets < MaxGets /\ gets' = gets + 1
    /\ get' = [get EXCEPT ![g] = [pc |-> "look", key |-> <<t, cur[t]>>, job |-> 0]]
    /\ UNCHANGED <<cur, out, inflight, job, n, closed, dir>>

(* Get: a result on disk is opened, then served unless Close has begun.    *)
Look(g) ==
    /\ get[g].pc = "look" /\ To(g, IF dir /\ Cached(get[g].key) THEN "hit" ELSE "join")
    /\ UNCHANGED <<cur, out, inflight, job, n, closed, dir, gets>>

Touched(k) ==
    IF Cached(k) THEN Append(Unlisted(k), out[CHOOSE i \in DOMAIN out : out[i].key = k]) ELSE out

Hit(g) ==
    /\ get[g].pc = "hit" /\ Return(g)
    /\ out' = IF closed THEN out ELSE Touched(get[g].key)
    /\ UNCHANGED <<cur, inflight, job, n, closed, dir, gets>>

(* Under mu: join the conversion in flight, or begin one.                  *)
AdmitAlways == TRUE
Admitted == ~closed

Refused(g) ==
    /\ get[g].pc = "join" /\ ~Admitted /\ Return(g)
    /\ UNCHANGED <<cur, out, inflight, job, n, closed, dir, gets>>

Join(g) ==
    /\ get[g].pc = "join" /\ Admitted
    /\ LET k == get[g].key
           i == IF inflight[k] # 0 THEN inflight[k] ELSE n + 1
       IN  /\ i <= MaxJobs /\ n' = IF i > n THEN i ELSE n
           /\ job' = IF i > n THEN [job EXCEPT ![i] = [NoJob EXCEPT !.key = k, !.pc = "queued", !.waiters = 1]]
                     ELSE [job EXCEPT ![i].waiters = @ + 1]
           /\ inflight' = [inflight EXCEPT ![k] = i]
           /\ get' = [get EXCEPT ![g].pc = "wait", ![g].job = i]
    /\ UNCHANGED <<cur, out, closed, dir, gets>>

(* The conversion is over and its result opened, or the client has gone.   *)
WaitOver(g) ==
    /\ get[g].pc = "wait" /\ job[get[g].job].pc = "gone" /\ To(g, "leave")
    /\ UNCHANGED <<cur, out, inflight, job, n, closed, dir, gets>>

GiveUp(g) ==
    /\ get[g].pc = "wait" /\ To(g, "leave")
    /\ UNCHANGED <<cur, out, inflight, job, n, closed, dir, gets>>

(* The last to leave cancels the job and unpins its result.                *)
NeverLastWaiter(i) == FALSE
LastWaiter(i) == job[i].waiters = 1
Unpinned(i) == inflight' = IF job[i].waiters = 1 THEN [inflight EXCEPT ![job[i].key] = 0] ELSE inflight

Leave(g) ==
    /\ get[g].pc = "leave" /\ Return(g)
    /\ LET i == get[g].job IN
         /\ Unpinned(i)
         /\ job' = [job EXCEPT ![i].waiters = @ - 1, ![i].canceled = @ \/ LastWaiter(i)]
    /\ UNCHANGED <<cur, out, n, closed, dir, gets>>

-----------------------------------------------------------------------------
(* run: a slot, the source, the conversion, the rename, the eviction.      *)
Move(i, pc) == job' = [job EXCEPT ![i].pc = pc]
Failed(i) == job' = [job EXCEPT ![i].pc = "end", ![i].err = TRUE]

TakeSlot(i) ==
    /\ job[i].pc = "queued" /\ Cardinality(Slots) < flacMaxConversions
    /\ IF job[i].canceled THEN Failed(i) ELSE Move(i, "open")
    /\ UNCHANGED <<cur, out, inflight, n, closed, dir, get, gets>>

QueueCanceled(i) ==
    /\ job[i].pc = "queued" /\ job[i].canceled
    /\ job' = [job EXCEPT ![i].pc = "gone", ![i].err = TRUE]
    /\ UNCHANGED <<cur, out, inflight, n, closed, dir, get, gets>>

(* sameFlacSource: the file opened is the one the request saw.             *)
anySource(k) == TRUE
sameFlacSource(k) == cur[k[1]] = k[2]

Open(i) ==
    /\ job[i].pc = "open"
    /\ IF sameFlacSource(job[i].key)
       THEN job' = [job EXCEPT ![i].pc = "convert", ![i].ver = cur[job[i].key[1]]]
       ELSE Failed(i)
    /\ UNCHANGED <<cur, out, inflight, n, closed, dir, get, gets>>

Convert(i) ==
    /\ job[i].pc = "convert" /\ (Move(i, "rename") \/ Failed(i))
    /\ UNCHANGED <<cur, out, inflight, n, closed, dir, get, gets>>

Rename(i) ==
    /\ job[i].pc = "rename" /\ dir /\ Move(i, "evict")
    /\ out' = Append(Unlisted(job[i].key), [key |-> job[i].key, ver |-> job[i].ver])
    /\ UNCHANGED <<cur, inflight, n, closed, dir, get, gets>>

(* evict: the oldest results that no job pins, until all files fit.        *)
PinsNothing(k) == FALSE
Pinned(k) == inflight[k] # 0
Excess == LET m == Len(out) + Cardinality(Partials) IN IF m > MaxFiles THEN m - MaxFiles ELSE 0
Gone(i) == ~Pinned(out[i].key) /\ Cardinality({j \in 1..(i - 1) : ~Pinned(out[j].key)}) < Excess
Kept == ResultsAt({i \in DOMAIN out : ~Gone(i)})

Evict(i) ==
    /\ job[i].pc = "evict" /\ Move(i, "end") /\ out' = Kept
    /\ UNCHANGED <<cur, inflight, n, closed, dir, get, gets>>

(* The slot is given back, the job cancelled, done closed.                 *)
End(i) ==
    /\ job[i].pc = "end" /\ job' = [job EXCEPT ![i].pc = "gone", ![i].canceled = TRUE]
    /\ UNCHANGED <<cur, out, inflight, n, closed, dir, get, gets>>

-----------------------------------------------------------------------------
CloseBegin ==
    /\ ~closed /\ closed' = TRUE
    /\ job' = [i \in 1..MaxJobs |-> IF \E k \in Keys : inflight[k] = i THEN [job[i] EXCEPT !.canceled = TRUE] ELSE job[i]]
    /\ UNCHANGED <<cur, out, inflight, n, dir, get, gets>>

NotWaited == TRUE
RunsWaited == LiveJobs = {}
CloseEnd ==
    /\ closed /\ dir /\ RunsWaited /\ dir' = FALSE /\ out' = <<>>
    /\ UNCHANGED <<cur, inflight, job, n, closed, get, gets>>

Replace(t) ==
    /\ cur[t] <= MaxEdits /\ cur' = [cur EXCEPT ![t] = @ + 1]
    /\ UNCHANGED <<out, inflight, job, n, closed, dir, get, gets>>

Serve(g) == Look(g) \/ Hit(g) \/ Refused(g) \/ Join(g) \/ WaitOver(g) \/ Leave(g)
Run(i) == TakeSlot(i) \/ QueueCanceled(i) \/ Open(i) \/ Convert(i) \/ Rename(i) \/ Evict(i) \/ End(i)

Next ==
    \/ \E g \in Getters : (\E t \in Tracks : Stat(g, t)) \/ Serve(g) \/ GiveUp(g)
    \/ \E i \in 1..MaxJobs : Run(i)
    \/ CloseBegin \/ CloseEnd
    \/ \E t \in Tracks : Replace(t)

(* Handlers and conversions go on (a conversion has a timeout); the slot   *)
(* channel is first come, first served.                                    *)
Fairness ==
    /\ \A g \in Getters : WF_vars(Serve(g))
    /\ \A i \in 1..MaxJobs : WF_vars(Run(i)) /\ SF_vars(TakeSlot(i))
    /\ WF_vars(CloseEnd)
Spec == Init /\ [][Next]_vars
LiveSpec == Spec /\ Fairness

-----------------------------------------------------------------------------
(* One version of a file is converted once at a time: two conversions of   *)
(* it run together only after every request has left the first.            *)
ConvertedOnce ==
    \A i, j \in LiveJobs : i # j /\ job[i].key = job[j].key => job[i].canceled \/ job[j].canceled

(* A result whose requests have not all opened it is still there: no       *)
(* eviction by another conversion takes it away, as long as the cache is   *)
(* open.                                                                   *)
ResultStays ==
    \A i \in 1..n : job[i].pc = "gone" /\ ~job[i].err /\ job[i].waiters > 0 /\ ~closed => Cached(job[i].key)

(* What is served under a version's name was made from that version, the   *)
(* source replaced at any moment before the conversion opened it.          *)
VersionHonest == \A i \in DOMAIN out : out[i].ver = out[i].key[2]

(* Once the directory is removed no conversion runs that would write into  *)
(* it, and nothing is left in it.                                          *)
CloseIsFinal == ~dir => LiveJobs = {} /\ out = <<>>

(* Every request ends, with one slot for all: a conversion that failed,    *)
(* was cancelled in the queue or came too late gives its slot back.        *)
Getting(g) == get[g].pc = "wait"
Got(g) == get[g].pc = "idle"
GetEnds == \A g \in Getters : Getting(g) ~> Got(g)
=============================================================================
