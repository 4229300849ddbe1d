----------------------------- MODULE ToolProofs -----------------------------
(***************************************************************************)
(* What holds of what runs beside the queue, one component each: the cache *)
(* of converted audio (FlacCache), the reports (Reports), the walk of a    *)
(* Work Queue page (Paging), the lyric writer (Sidecars), repair runs      *)
(* (Runner), start and stop (Server), timing runs (AutoRuns) and hand      *)
(* edits (HandEdit).                                                       *)
(* Each part has its own constants and variables; BesideProofs applies the *)
(* theorems to the parts of MCBeside.                                      *)
(***************************************************************************)
EXTENDS Integers, Sequences, FiniteSets, FiniteSetTheorems,
        SequenceTheorems, WellFoundedInduction, TLAPS

CONSTANTS Getters, Tracks, flacMaxConversions, MaxFiles, MaxJobs,
          MaxReplaced, MaxGets, Verdicts, Classes, Wts, Ids, Vals, TooLong,
          PageSize, MaxChanges, Writers, Outs, WordSync, Companion,
          FirstDisks, WriteFaults, MaxWrites, RepairKeys, RepairRuns, Hooks,
          ServeTasks, KeyIds, SeededKeys, ServeStarts, Rows, Browsers,
          maxConcurrent, MaxAligned, MaxResaved, Editors, EditFaults,
          MaxEditRequests, MaxEditCrashes, maxDegradedAttempts

VARIABLES cur, out, inflight, job, jobs, closed, dir, get, gets, line, order,
          val, member, cursor, more, times, steady, changes, disk, wr, begun,
          shut, live, last, repair, shown, lastID, closer, main, signal,
          cancel, serveErr, gate, drainer, handlerClosed, hook, bg, task, db,
          late, keys, starts, mt, reg, run, aligned, active, ended, page,
          row, lrc, orig, rowLock, pathLock, ed, wk, sweep, tags, filled,
          writes, requests, crashes

Fl == INSTANCE FlacCache WITH MaxEdits <- MaxReplaced, n <- jobs
Rp == INSTANCE Reports WITH w <- line
Pg == INSTANCE Paging
Sc == INSTANCE Sidecars WITH n <- begun, Disks <- FirstDisks, Faults <- WriteFaults
Ru == INSTANCE Runner WITH MaxRuns <- RepairRuns, closed <- shut, run <- repair, cur <- shown
Sv == INSTANCE Server WITH Tasks <- ServeTasks, closed <- handlerClosed, Configured <- SeededKeys, MaxStarts <- ServeStarts
Au == INSTANCE AutoRuns WITH MaxRuns <- MaxAligned, MaxEdits <- MaxResaved, n <- aligned, closed <- ended, Pages <- Browsers
He == INSTANCE HandEdit WITH Faults <- EditFaults, MaxRequests <- MaxEditRequests, MaxCrashes <- MaxEditCrashes

-----------------------------------------------------------------------------
(* Converted audio (FlacCache). *)

LEMMA FlSize == \A S : Fl!Cardinality(S) = Cardinality(S)
BY DEF Cardinality, Fl!Cardinality, IsFiniteSet, Fl!IsFiniteSet

(* The bounds are numbers, there are finitely many requests, and there is   *)
(* a track to ask for.                                                      *)
FlacConfigured ==
    /\ IsFiniteSet(Getters) /\ Tracks # {}
    /\ flacMaxConversions \in Nat /\ MaxJobs \in Nat /\ MaxReplaced \in Nat /\ MaxGets \in Nat

Edition == 1..(MaxReplaced + 1)
Results == [key : Fl!Keys, ver : Edition]
JobPCs == {"none", "queued", "open", "convert", "rename", "evict", "end", "gone"}
Jobs == [key : Fl!Keys, pc : JobPCs, err : BOOLEAN, waiters : Nat, canceled : BOOLEAN, ver : Edition \cup {0}]
Requests == [pc : {"idle", "look", "hit", "join", "wait", "leave"}, key : Fl!Keys, job : 0..MaxJobs]

FlacTypes ==
    /\ cur \in [Tracks -> Edition] /\ jobs \in 0..MaxJobs /\ gets \in 0..MaxGets
    /\ out \in Seq(Results) /\ inflight \in [Fl!Keys -> 0..jobs]
    /\ job \in [1..MaxJobs -> Jobs] /\ get \in [Getters -> Requests]
    /\ closed \in BOOLEAN /\ dir \in BOOLEAN

(* The requests that wait for a job, or are about to leave it. *)
Holders(i) == {g \in Getters : get[g].pc \in {"wait", "leave"} /\ get[g].job = i}

(* A job is begun for a key no job is in flight for, and stays in flight    *)
(* until its last request leaves, which cancels it.                         *)
Counted(i) ==
    /\ i > jobs => job[i].pc = "none"
    /\ job[i].waiters = Cardinality(Holders(i))
    /\ job[i].waiters > 0 => inflight[job[i].key] = i
    /\ job[i].pc \notin {"none", "gone"} /\ ~job[i].canceled => inflight[job[i].key] = i
Awaited(g) == get[g].pc \in {"wait", "leave"} => get[g].job \in 1..jobs
InFlight(k) == inflight[k] # 0 => job[inflight[k]].key = k /\ job[inflight[k]].waiters > 0
Pins == (\A i \in 1..MaxJobs : Counted(i)) /\ (\A g \in Getters : Awaited(g)) /\ (\A k \in Fl!Keys : InFlight(k))

(* What is on disk was made from its version, and stays while it is awaited. *)
OnDisk ==
    /\ Fl!VersionHonest
    /\ \A i \in 1..MaxJobs : job[i].pc \in {"convert", "rename"} => job[i].ver = job[i].key[2]
    /\ \A i \in 1..MaxJobs : job[i].pc \in {"evict", "end", "gone"} /\ ~job[i].err /\ job[i].waiters > 0 /\ dir
                             => Fl!Cached(job[i].key)
    /\ ~dir => closed
    /\ Fl!CloseIsFinal

InSlots == Cardinality(Fl!Slots) <= flacMaxConversions

FlacInv == FlacTypes /\ Pins /\ OnDisk /\ InSlots

-----------------------------------------------------------------------------
(* Numbering a finite set of positions from the smallest on. *)
LEMMA Ranked ==
    ASSUME NEW s \in SUBSET Nat, IsFiniteSet(s)
    PROVE  /\ Cardinality(s) \in Nat
           /\ \A i \in s : Cardinality({x \in s : x <= i}) \in 1..Cardinality(s)
           /\ \A i, k \in s : Cardinality({x \in s : x <= i}) = Cardinality({x \in s : x <= k}) => i = k
           /\ \A j \in 1..Cardinality(s) : \E i \in s : Cardinality({x \in s : x <= i}) = j
<1> DEFINE upto(i) == {x \in s : x <= i}
           rank == [i \in s |-> Cardinality(upto(i))]
<1>1. Cardinality(s) \in Nat
  BY FS_CardinalityType
<1>0. /\ \A i \in s : upto(i) \in SUBSET s /\ i \in upto(i)
      /\ \A i, k \in s : i < k => upto(i) \in SUBSET upto(k) /\ k \notin upto(i)
  <2>1. \A i \in s : i \in Nat
    OBVIOUS
  <2>2. ASSUME NEW i \in s, NEW k \in s, i < k PROVE upto(i) \in SUBSET upto(k) /\ k \notin upto(i)
    <3>1. i \in Nat /\ k \in Nat /\ ~(k <= i)
      BY <2>1, <2>2
    <3>2. ASSUME NEW x \in s, x <= i PROVE x <= k
      BY <2>1, <2>2, <3>1, <3>2
    <3> QED BY <3>1, <3>2
  <2> QED BY <2>1, <2>2
<1> HIDE DEF upto
<1>2. ASSUME NEW i \in s PROVE IsFiniteSet(upto(i)) /\ Cardinality(upto(i)) \in 1..Cardinality(s)
  <2>1. IsFiniteSet(upto(i)) /\ Cardinality(upto(i)) <= Cardinality(s)
    BY <1>0, FS_Subset
  <2>2. Cardinality(upto(i)) \in Nat
    BY <2>1, FS_CardinalityType
  <2>3. Cardinality(upto(i)) # 0
    BY <1>0, <2>1, FS_EmptySet
  <2> QED BY <1>1, <2>1, <2>2, <2>3
<1>3. ASSUME NEW i \in s, NEW k \in s, i < k PROVE Cardinality(upto(i)) # Cardinality(upto(k))
  BY <1>0, <1>2, <1>3, FS_Subset
<1>4. ASSUME NEW i \in s, NEW k \in s, Cardinality(upto(i)) = Cardinality(upto(k)) PROVE i = k
  <2>1. i \in Nat /\ k \in Nat
    OBVIOUS
  <2> QED BY <1>3, <1>4, <2>1
<1>5. rank \in Injection(s, 1..Cardinality(s))
  <2>1. rank \in [s -> 1..Cardinality(s)]
    BY <1>2
  <2>2. \A i, k \in s : rank[i] = rank[k] => i = k
    BY <1>4
  <2> HIDE DEF rank
  <2> QED BY <2>1, <2>2 DEF Injection, IsInjective
<1>6. IsFiniteSet(1..Cardinality(s)) /\ Cardinality(1..Cardinality(s)) = Cardinality(s)
  BY <1>1, FS_Interval
<1>7. rank \in Surjection(s, 1..Cardinality(s))
  BY <1>5, <1>6, FS_Injection
<1>8. \A j \in 1..Cardinality(s) : \E i \in s : rank[i] = j
  BY <1>7 DEF Surjection
<1> USE DEF upto
<1> QED BY <1>1, <1>2, <1>4, <1>8

(* What is taken from the results is among them, and each of them is taken. *)
LEMMA Selected ==
    ASSUME out \in Seq(Results), NEW s \in SUBSET (DOMAIN out)
    PROVE  /\ Fl!ResultsAt(s) \in Seq(Results)
           /\ \A j \in DOMAIN Fl!ResultsAt(s) : \E i \in s : Fl!ResultsAt(s)[j] = out[i]
           /\ \A i \in s : \E j \in DOMAIN Fl!ResultsAt(s) : Fl!ResultsAt(s)[j] = out[i]
<1> DEFINE rank(i) == Fl!Cardinality({x \in s : x <= i})
           upto(i) == Cardinality({x \in s : x <= i})
           at(j) == CHOOSE i \in s : rank(i) = j
<1>1. Len(out) \in Nat /\ DOMAIN out = 1..Len(out)
  OBVIOUS
<1>2. IsFiniteSet(1..Len(out)) /\ s \in SUBSET Nat
  BY <1>1, FS_Interval
<1>3. IsFiniteSet(s)
  BY <1>1, <1>2, FS_Subset
<1>u. /\ Cardinality(s) \in Nat
      /\ \A i \in s : upto(i) \in 1..Cardinality(s)
      /\ \A i, k \in s : upto(i) = upto(k) => i = k
      /\ \A j \in 1..Cardinality(s) : \E i \in s : upto(i) = j
  BY <1>2, <1>3, Ranked
<1>r. \A i \in s : rank(i) = upto(i)
  BY FlSize
<1> HIDE DEF rank, upto
<1>4. /\ Cardinality(s) \in Nat
      /\ \A i \in s : rank(i) \in 1..Cardinality(s)
      /\ \A i, k \in s : rank(i) = rank(k) => i = k
      /\ \A j \in 1..Cardinality(s) : \E i \in s : rank(i) = j
  BY <1>u, <1>r
<1>5. \A j \in 1..Cardinality(s) : at(j) \in s /\ rank(at(j)) = j
  BY <1>4
<1>6. \A i \in s : at(rank(i)) = i
  BY <1>4, <1>5
<1>7. Fl!ResultsAt(s) = [j \in 1..Cardinality(s) |-> out[at(j)]]
  BY FlSize DEF Fl!ResultsAt, rank
<1> HIDE DEF at
<1>8. \A i \in s : out[i] \in Results
  OBVIOUS
<1>9. Fl!ResultsAt(s) \in [1..Cardinality(s) -> Results]
  BY <1>5, <1>7, <1>8
<1> QED BY <1>4, <1>5, <1>6, <1>7, <1>9

(* The results a sequence lists. *)
Lists(s, k) == \E j \in DOMAIN s : s[j].key = k
From(s) == \A j \in DOMAIN s : \E i \in DOMAIN out : s[j] = out[i]

LEMMA Reordered ==
    ASSUME FlacTypes, NEW k \in Fl!Keys
    PROVE  /\ Fl!Unlisted(k) \in Seq(Results) /\ From(Fl!Unlisted(k))
           /\ \A l \in Fl!Keys \ {k} : Fl!Cached(l) => Lists(Fl!Unlisted(k), l)
           /\ Fl!Touched(k) \in Seq(Results) /\ From(Fl!Touched(k))
           /\ \A l \in Fl!Keys : Fl!Cached(l) => Lists(Fl!Touched(k), l)
<1>1. out \in Seq(Results) /\ {i \in DOMAIN out : out[i].key # k} \in SUBSET (DOMAIN out)
  BY DEF FlacTypes
<1>2. Fl!Unlisted(k) \in Seq(Results) /\ From(Fl!Unlisted(k))
  BY <1>1, Selected DEF Fl!Unlisted, From
<1>3. ASSUME NEW l \in Fl!Keys \ {k}, Fl!Cached(l) PROVE Lists(Fl!Unlisted(k), l)
  <2>1. PICK i \in DOMAIN out : out[i].key = l
    BY <1>3 DEF Fl!Cached
  <2>2. \E j \in DOMAIN Fl!Unlisted(k) : Fl!Unlisted(k)[j] = out[i]
    BY <1>1, <2>1, Selected DEF Fl!Unlisted
  <2> QED BY <2>1, <2>2 DEF Lists
<1>4. CASE Fl!Cached(k)
  <2> DEFINE c == CHOOSE i \in DOMAIN out : out[i].key = k
             e == out[c]
  <2>0. c \in DOMAIN out /\ e.key = k
    BY <1>4 DEF Fl!Cached
  <2> HIDE DEF c
  <2>1. e \in Results /\ e.key = k /\ \E i \in DOMAIN out : e = out[i]
    BY <1>1, <2>0
  <2>2. Fl!Touched(k) = Append(Fl!Unlisted(k), e)
    BY <1>4 DEF Fl!Touched, c
  <2> HIDE DEF e
  <2>3. /\ Fl!Touched(k) \in Seq(Results) /\ DOMAIN Fl!Touched(k) = 1..(Len(Fl!Unlisted(k)) + 1)
        /\ DOMAIN Fl!Unlisted(k) = 1..Len(Fl!Unlisted(k)) /\ Len(Fl!Unlisted(k)) \in Nat
        /\ \A j \in 1..Len(Fl!Unlisted(k)) : Fl!Touched(k)[j] = Fl!Unlisted(k)[j]
        /\ Fl!Touched(k)[Len(Fl!Unlisted(k)) + 1] = e
    BY <1>2, <2>1, <2>2
  <2>4. From(Fl!Touched(k))
    BY <1>2, <2>1, <2>3 DEF From
  <2>5. \A l \in Fl!Keys : Fl!Cached(l) => Lists(Fl!Touched(k), l)
    BY <1>3, <2>1, <2>3 DEF Lists
  <2> QED BY <1>2, <1>3, <2>3, <2>4, <2>5
<1>5. CASE ~Fl!Cached(k)
  BY <1>1, <1>2, <1>3, <1>5 DEF Fl!Touched, From, Lists, Fl!Cached
<1> QED BY <1>4, <1>5

(* An eviction takes no result a job in flight pins. *)
LEMMA KeptResults ==
    ASSUME FlacTypes
    PROVE  /\ Fl!Kept \in Seq(Results) /\ From(Fl!Kept)
           /\ \A k \in Fl!Keys : Fl!Cached(k) /\ inflight[k] # 0 => Lists(Fl!Kept, k)
<1>1. out \in Seq(Results) /\ {i \in DOMAIN out : ~Fl!Gone(i)} \in SUBSET (DOMAIN out)
  BY DEF FlacTypes
<1>2. Fl!Kept \in Seq(Results) /\ From(Fl!Kept)
  BY <1>1, Selected DEF Fl!Kept, From
<1>3. ASSUME NEW k \in Fl!Keys, Fl!Cached(k), inflight[k] # 0 PROVE Lists(Fl!Kept, k)
  <2>1. PICK i \in DOMAIN out : out[i].key = k
    BY <1>3 DEF Fl!Cached
  <2>2. ~Fl!Gone(i)
    BY <1>3, <2>1 DEF Fl!Gone, Fl!Pinned
  <2>3. \E j \in DOMAIN Fl!Kept : Fl!Kept[j] = out[i]
    BY <1>1, <2>2, Selected DEF Fl!Kept
  <2> QED BY <2>1, <2>3 DEF Lists
<1> QED BY <1>2, <1>3

-----------------------------------------------------------------------------
(* The record nothing is known of. *)
LEMMA Blank ==
    ASSUME FlacConfigured
    PROVE  /\ Fl!NoJob \in Jobs /\ Fl!NoJob.pc = "none" /\ Fl!NoJob.waiters = 0 /\ ~Fl!NoJob.canceled
           /\ Fl!Idle \in Requests /\ Fl!Idle.pc = "idle"
<1>1. Fl!NoKey \in Fl!Keys
  BY DEF FlacConfigured, Fl!NoKey, Fl!Keys
<1> QED BY <1>1 DEF FlacConfigured, Fl!NoJob, Fl!Idle, Jobs, JobPCs, Requests

LEMMA HoldersCounted ==
    ASSUME FlacConfigured, NEW i
    PROVE  IsFiniteSet(Holders(i)) /\ Cardinality(Holders(i)) \in 0..Cardinality(Getters)
                                   /\ Cardinality(Getters) \in Nat
<1>1. Holders(i) \in SUBSET Getters
  BY DEF Holders
<1>2. IsFiniteSet(Holders(i)) /\ Cardinality(Holders(i)) <= Cardinality(Getters)
  BY <1>1, FS_Subset DEF FlacConfigured
<1> QED BY <1>2, FS_CardinalityType DEF FlacConfigured

(* A job that is waited for has a waiter to spare. *)
LEMMA Held ==
    ASSUME FlacConfigured, FlacTypes, Pins, NEW g \in Getters, get[g].pc \in {"wait", "leave"}
    PROVE  /\ get[g].job \in 1..jobs /\ get[g].job \in 1..MaxJobs
           /\ g \in Holders(get[g].job) /\ job[get[g].job].waiters \in Nat \ {0}
           /\ inflight[job[get[g].job].key] = get[g].job
<1> DEFINE i == get[g].job
<1>1. i \in 1..jobs /\ g \in Holders(i)
  BY DEF Pins, Counted, Awaited, InFlight, Holders
<1>2. i \in 1..MaxJobs
  BY <1>1 DEF FlacTypes, FlacConfigured
<1> HIDE DEF i
<1>3. job[i].waiters = Cardinality(Holders(i)) /\ Cardinality(Holders(i)) \in Nat /\ IsFiniteSet(Holders(i))
  BY <1>2, HoldersCounted DEF Pins, Counted
<1>4. Cardinality(Holders(i)) # 0
  BY <1>1, <1>3, FS_EmptySet
<1>5. job[i].waiters \in Nat \ {0}
  BY <1>3, <1>4
<1>6. inflight[job[i].key] = i
  BY <1>2, <1>5 DEF Pins, Counted, Awaited, InFlight
<1> QED BY <1>1, <1>2, <1>5, <1>6 DEF i

LEMMA FlacStarts == ASSUME FlacConfigured PROVE Fl!Init => FlacInv
<1> SUFFICES ASSUME Fl!Init PROVE FlacInv
  OBVIOUS
<1>1. FlacTypes
  <2>1. 1 \in Edition /\ 0 \in 0..MaxJobs /\ 0 \in 0..MaxGets /\ 0 \in 0..0
    BY DEF FlacConfigured, Edition
  <2>2. cur \in [Tracks -> Edition] /\ inflight \in [Fl!Keys -> 0..jobs] /\ jobs \in 0..MaxJobs /\ gets \in 0..MaxGets
    <3>1. inflight \in [Fl!Keys -> 0..0] /\ jobs = 0
      BY <2>1 DEF Fl!Init
    <3> QED BY <2>1, <3>1 DEF Fl!Init
  <2>3. job \in [1..MaxJobs -> Jobs] /\ get \in [Getters -> Requests]
    BY Blank DEF Fl!Init
  <2>4. out \in Seq(Results) /\ closed \in BOOLEAN /\ dir \in BOOLEAN
    BY EmptySeq DEF Fl!Init
  <2> QED BY <2>2, <2>3, <2>4 DEF FlacTypes
<1>2. \A g \in Getters : get[g].pc = "idle"
  BY Blank DEF Fl!Init
<1>3. \A i \in 1..MaxJobs : job[i] = Fl!NoJob /\ Holders(i) = {}
  BY <1>2 DEF Fl!Init, Holders
<1>4. Pins
  <2>1. \A i \in 1..MaxJobs : job[i].pc = "none" /\ job[i].waiters = 0 /\ Cardinality(Holders(i)) = 0
    BY <1>3, Blank, FS_EmptySet
  <2>2. \A k \in Fl!Keys : inflight[k] = 0
    BY DEF Fl!Init
  <2> QED BY <1>2, <2>1, <2>2 DEF Pins, Counted, Awaited, InFlight
<1>5. Fl!LiveJobs = {} /\ Fl!Slots = {}
  BY DEF Fl!Init, Fl!LiveJobs, Fl!Slots
<1>6. OnDisk
  BY <1>3, Blank DEF Fl!Init, OnDisk, Fl!VersionHonest, Fl!CloseIsFinal
<1> QED BY <1>1, <1>4, <1>5, <1>6, FS_EmptySet DEF FlacInv, InSlots, FlacConfigured

-----------------------------------------------------------------------------
(* The results after a step are honest, and those of the keys in flight     *)
(* are kept.                                                                 *)
Shelved ==
    /\ out' \in Seq(Results) /\ Fl!VersionHonest'
    /\ \A k \in Fl!Keys : Fl!Cached(k) /\ inflight[k] # 0 => Lists(out', k)

(* The requests that hold a job are the same, each still the same job. *)
SameHolders ==
    \A g \in Getters : /\ get'[g].pc \in {"wait", "leave"} <=> get[g].pc \in {"wait", "leave"}
                       /\ get[g].pc \in {"wait", "leave"} => get'[g].job = get[g].job

LEMMA ShelfKept == ASSUME FlacTypes, OnDisk, out' = out PROVE Shelved
BY DEF Shelved, FlacTypes, Fl!Cached, Lists, OnDisk, Fl!VersionHonest

LEMMA ShelfFrom ==
    ASSUME OnDisk, out' \in Seq(Results), From(out'), \A k \in Fl!Keys : Fl!Cached(k) /\ inflight[k] # 0 => Lists(out', k)
    PROVE  Shelved
BY DEF Shelved, OnDisk, Fl!VersionHonest, From, Lists, Fl!Cached

LEMMA HoldersKept == ASSUME SameHolders PROVE \A i : Holders(i)' = Holders(i)
BY DEF SameHolders, Holders

(* A request that moves on its own disturbs nothing. *)
LEMMA GetMoves ==
    ASSUME FlacConfigured, FlacInv, Shelved, SameHolders, get' \in [Getters -> Requests],
           gets' \in 0..MaxGets, UNCHANGED <<cur, inflight, job, jobs, closed, dir>>, dir \/ out' = out
    PROVE  FlacInv'
<1>1. FlacTypes'
  BY DEF FlacInv, FlacTypes, Shelved, Edition, Results, Fl!Keys, Jobs, JobPCs, Requests
<1>2. Pins'
  <2>1. \A i \in 1..MaxJobs : Cardinality(Holders(i))' = Cardinality(Holders(i))
    BY HoldersKept
  <2>2. \A g \in Getters : get'[g].pc \in {"wait", "leave"} => get'[g].job \in 1..jobs
    BY DEF FlacInv, Pins, Counted, Awaited, InFlight, SameHolders
  <2>3. ASSUME NEW j \in 1..MaxJobs PROVE Counted(j)'
    BY <2>1 DEF FlacInv, Pins, Counted
  <2>5. ASSUME NEW k \in Fl!Keys PROVE InFlight(k)'
    BY DEF FlacInv, Pins, InFlight
  <2>6. ASSUME NEW g \in Getters PROVE Awaited(g)'
    BY <2>2 DEF Awaited
  <2> QED BY <2>3, <2>5, <2>6 DEF Pins, Fl!Keys
<1>3. OnDisk'
  <2>1. Fl!VersionHonest'
    BY DEF Shelved
  <2>2. \A i \in 1..MaxJobs : job[i].waiters \in Nat /\ job[i].key \in Fl!Keys
    BY DEF FlacInv, FlacTypes, Jobs
  <2>3. \A i \in 1..MaxJobs : job[i].waiters > 0 => inflight[job[i].key] # 0
    BY <2>2 DEF FlacInv, Pins, Counted, Awaited, InFlight
  <2>4. \A i \in 1..MaxJobs : job[i].pc \in {"evict", "end", "gone"} /\ ~job[i].err /\ job[i].waiters > 0 /\ dir
                               => Lists(out', job[i].key)
    BY <2>2, <2>3 DEF FlacInv, OnDisk, Shelved
  <2>5. Fl!CloseIsFinal'
    BY DEF FlacInv, OnDisk, Fl!CloseIsFinal, Fl!LiveJobs
  <2> QED BY <2>1, <2>4, <2>5 DEF FlacInv, OnDisk, Fl!Cached, Lists
<1>4. InSlots'
  BY DEF FlacInv, InSlots, Fl!Slots
<1> QED BY <1>1, <1>2, <1>3, <1>4 DEF FlacInv

-----------------------------------------------------------------------------
SlotPCs == {"open", "convert", "rename", "evict", "end"}

(* A job moves on: it stays its requests' own, and is not taken back from   *)
(* its cancellation; a slot it takes is free.                                *)
JobMoved(i) ==
    /\ job' \in [1..MaxJobs -> Jobs] /\ \A j \in 1..MaxJobs \ {i} : job'[j] = job[j]
    /\ job'[i].key = job[i].key /\ job'[i].waiters = job[i].waiters
    /\ job[i].pc \notin {"none", "gone"} /\ job'[i].pc # "none"
    /\ job[i].canceled => job'[i].canceled \/ job'[i].pc = "gone"

LEMMA SlotsStay ==
    ASSUME FlacConfigured, FlacTypes, InSlots, NEW i \in 1..MaxJobs, JobMoved(i), jobs' = jobs,
           job'[i].pc \in SlotPCs /\ job[i].pc \notin SlotPCs => Cardinality(Fl!Slots) < flacMaxConversions
    PROVE  InSlots'
<1>1. Fl!Slots \in SUBSET (1..jobs) /\ IsFiniteSet(1..jobs) /\ jobs \in Nat
  BY FS_Interval DEF FlacTypes, FlacConfigured, Fl!Slots
<1>2. IsFiniteSet(Fl!Slots) /\ Cardinality(Fl!Slots) \in Nat
  BY <1>1, FS_Subset, FS_CardinalityType
<1>3. CASE job'[i].pc \in SlotPCs /\ job[i].pc \notin SlotPCs
  <2>1. Fl!Slots' \in SUBSET (Fl!Slots \cup {i}) /\ i \notin Fl!Slots
    BY <1>3 DEF Fl!Slots, SlotPCs, JobMoved, FlacTypes, FlacConfigured
  <2>2. IsFiniteSet(Fl!Slots \cup {i}) /\ Cardinality(Fl!Slots \cup {i}) = Cardinality(Fl!Slots) + 1
    BY <1>2, <2>1, FS_AddElement
  <2>3. Cardinality(Fl!Slots') <= Cardinality(Fl!Slots) + 1 /\ Cardinality(Fl!Slots') \in Nat
    BY <2>1, <2>2, FS_Subset, FS_CardinalityType
  <2>4. Cardinality(Fl!Slots) < flacMaxConversions
    BY <1>3
  <2> QED BY <1>2, <2>3, <2>4 DEF InSlots, FlacConfigured
<1>4. CASE ~(job'[i].pc \in SlotPCs /\ job[i].pc \notin SlotPCs)
  <2>1. Fl!Slots' \in SUBSET Fl!Slots
    BY <1>4 DEF Fl!Slots, SlotPCs, JobMoved, FlacTypes, FlacConfigured
  <2>2. Cardinality(Fl!Slots') <= Cardinality(Fl!Slots) /\ Cardinality(Fl!Slots') \in Nat
    BY <1>2, <2>1, FS_Subset, FS_CardinalityType
  <2> QED BY <1>2, <2>2 DEF InSlots, FlacConfigured
<1> QED BY <1>3, <1>4

LEMMA JobMoves ==
    ASSUME FlacConfigured, FlacInv, NEW i \in 1..MaxJobs, JobMoved(i), Shelved, InSlots',
           UNCHANGED <<cur, inflight, jobs, closed, dir, get, gets>>,
           job'[i].pc \in {"convert", "rename"} => job'[i].ver = job[i].key[2],
           job'[i].pc \in {"evict", "end", "gone"} /\ ~job'[i].err /\ job[i].waiters > 0 => Lists(out', job[i].key)
    PROVE  FlacInv'
<1>1. FlacTypes'
  BY DEF FlacInv, FlacTypes, Shelved, JobMoved, Edition, Results, Fl!Keys, Jobs, JobPCs, Requests
<1>2. i <= jobs /\ i \in Fl!LiveJobs /\ dir
  <2>1. i <= jobs
    <3>1. jobs \in Nat /\ i \in Nat
      BY DEF FlacInv, FlacTypes, FlacConfigured
    <3>2. i > jobs => job[i].pc = "none"
      BY DEF FlacInv, Pins, Counted
    <3> QED BY <3>1, <3>2 DEF JobMoved
  <2>2. i \in Fl!LiveJobs
    BY <2>1 DEF Fl!LiveJobs, JobMoved
  <2> QED BY <2>1, <2>2 DEF FlacInv, OnDisk, Fl!CloseIsFinal, FlacTypes
<1>3. Pins'
  <2>1. \A j \in 1..MaxJobs : Cardinality(Holders(j))' = Cardinality(Holders(j))
    BY DEF Holders
  <2>2. \A j \in 1..MaxJobs : /\ job'[j].waiters = job[j].waiters /\ job'[j].key = job[j].key
                              /\ job'[j].pc = "none" <=> job[j].pc = "none"
                              /\ job'[j].pc \notin {"none", "gone"} => job[j].pc \notin {"none", "gone"}
                              /\ job'[j].pc \notin {"none", "gone"} /\ job[j].canceled => job'[j].canceled
    BY DEF JobMoved
  <2>3. ASSUME NEW j \in 1..MaxJobs PROVE Counted(j)'
    BY <2>1, <2>2 DEF FlacInv, Pins, Counted
  <2>4. \A k \in Fl!Keys : inflight[k] # 0 => inflight[k] \in 1..MaxJobs
    BY DEF FlacInv, FlacTypes, FlacConfigured
  <2>5. ASSUME NEW k \in Fl!Keys PROVE InFlight(k)'
    BY <2>2, <2>4 DEF FlacInv, Pins, InFlight
  <2>6. ASSUME NEW g \in Getters PROVE Awaited(g)'
    BY DEF FlacInv, Pins, Awaited
  <2> QED BY <2>3, <2>5, <2>6 DEF Pins, Fl!Keys
<1>4. OnDisk'
  <2>2. \A j \in 1..MaxJobs : job[j].waiters \in Nat /\ job[j].key \in Fl!Keys
    BY DEF FlacInv, FlacTypes, Jobs
  <2>3. \A j \in 1..MaxJobs : job[j].waiters > 0 => inflight[job[j].key] # 0
    BY <2>2 DEF FlacInv, Pins, Counted, Awaited, InFlight
  <2>4. \A j \in 1..MaxJobs : job'[j].pc \in {"evict", "end", "gone"} /\ ~job'[j].err /\ job'[j].waiters > 0 /\ dir
                               => Lists(out', job[j].key)
    BY <2>2, <2>3 DEF FlacInv, OnDisk, Shelved, JobMoved
  <2>5. \A j \in 1..MaxJobs : job'[j].pc \in {"convert", "rename"} => job'[j].ver = job'[j].key[2]
    BY DEF FlacInv, OnDisk, JobMoved
  <2>6. Fl!CloseIsFinal'
    BY <1>2 DEF Fl!CloseIsFinal
  <2>7. \A j \in 1..MaxJobs : job'[j].key = job[j].key /\ job'[j].waiters = job[j].waiters
    BY DEF JobMoved
  <2>8. \A j \in 1..MaxJobs : (job[j].pc \in {"evict", "end", "gone"} /\ ~job[j].err /\ job[j].waiters > 0 /\ dir
                               => Fl!Cached(job[j].key))'
    BY <2>4, <2>7 DEF Lists, Fl!Cached
  <2>9. (~dir => closed)' /\ Fl!VersionHonest'
    BY <1>2 DEF Shelved
  <2> QED BY <2>5, <2>6, <2>8, <2>9 DEF OnDisk
<1> QED BY <1>1, <1>3, <1>4 DEF FlacInv

-----------------------------------------------------------------------------
LEMMA MoveIs ==
    ASSUME FlacTypes, NEW i \in 1..MaxJobs, NEW pc \in JobPCs \ {"none"}, Fl!Move(i, pc), job[i].pc \notin {"none", "gone"}
    PROVE  JobMoved(i) /\ job'[i].pc = pc /\ job'[i].err = job[i].err /\ job'[i].ver = job[i].ver
<1>1. job \in [1..MaxJobs -> Jobs] /\ job[i] \in Jobs
  BY DEF FlacTypes
<1> QED BY <1>1 DEF Fl!Move, JobMoved, Jobs

LEMMA FailIs ==
    ASSUME FlacTypes, NEW i \in 1..MaxJobs, Fl!Failed(i), job[i].pc \notin {"none", "gone"}
    PROVE  JobMoved(i) /\ job'[i].pc = "end" /\ job'[i].err
<1>1. job \in [1..MaxJobs -> Jobs] /\ job[i] \in Jobs
  BY DEF FlacTypes
<1> QED BY <1>1 DEF Fl!Failed, JobMoved, Jobs, JobPCs

(* Each step of a conversion is a move of its job. *)
LEMMA RunKeeps == ASSUME FlacConfigured, FlacInv, NEW i \in 1..MaxJobs, Fl!Run(i) PROVE FlacInv'
<1> USE DEF FlacInv
<1>1. /\ job \in [1..MaxJobs -> Jobs] /\ job[i] \in Jobs /\ cur \in [Tracks -> Edition]
      /\ job[i].key \in Fl!Keys /\ job[i].key[1] \in Tracks
  BY DEF FlacTypes, Jobs, Fl!Keys
<1>2. CASE Fl!TakeSlot(i)
  <2>0. Fl!Failed(i) \/ Fl!Move(i, "open")
    BY <1>2 DEF Fl!TakeSlot
  <2>1. JobMoved(i) /\ ((job'[i].pc = "end" /\ job'[i].err) \/ job'[i].pc = "open")
    BY <1>2, <2>0, MoveIs, FailIs DEF Fl!TakeSlot, JobPCs
  <2>2. Shelved
    BY <1>2, ShelfKept DEF Fl!TakeSlot
  <2>3. InSlots'
    BY <1>2, <2>1, SlotsStay, FlSize DEF Fl!TakeSlot
  <2>4. job'[i].pc \in {"open", "end"} /\ (job'[i].pc = "end" => job'[i].err)
    BY <2>1
  <2> QED BY <1>2, <2>1, <2>2, <2>3, <2>4, JobMoves DEF Fl!TakeSlot
<1>3. CASE Fl!QueueCanceled(i)
  <2>1. JobMoved(i)
    BY <1>1, <1>3 DEF Fl!QueueCanceled, JobMoved, Jobs, JobPCs
  <2>2. Shelved
    BY <1>3, ShelfKept DEF Fl!QueueCanceled
  <2>4. job'[i].pc = "gone" /\ job'[i].err
    BY <1>1, <1>3 DEF Fl!QueueCanceled, Jobs
  <2>3. InSlots'
    BY <1>3, <2>1, <2>4, SlotsStay DEF Fl!QueueCanceled, SlotPCs
  <2> QED BY <1>3, <2>1, <2>2, <2>3, <2>4, JobMoves DEF Fl!QueueCanceled
<1>4. CASE Fl!Open(i)
  <2>0. cur[job[i].key[1]] \in Edition
    BY <1>1
  <2>1. \/ JobMoved(i) /\ job'[i].pc = "end" /\ job'[i].err
        \/ JobMoved(i) /\ job'[i].pc = "convert" /\ job'[i].ver = cur[job[i].key[1]] /\ Fl!sameFlacSource(job[i].key)
    <3>1. CASE Fl!sameFlacSource(job[i].key)
      <4>1. job' = [job EXCEPT ![i].pc = "convert", ![i].ver = cur[job[i].key[1]]]
        BY <1>4, <3>1 DEF Fl!Open
      <4> QED BY <1>1, <1>4, <2>0, <3>1, <4>1 DEF Fl!Open, JobMoved, Jobs, JobPCs
    <3>2. CASE ~Fl!sameFlacSource(job[i].key)
      BY <1>4, <3>2, FailIs DEF Fl!Open
    <3> QED BY <3>1, <3>2
  <2>2. Shelved
    BY <1>4, ShelfKept DEF Fl!Open
  <2>3. InSlots'
    BY <1>4, <2>1, SlotsStay DEF Fl!Open, SlotPCs
  <2>4. \/ job'[i].pc = "convert" /\ job'[i].ver = job[i].key[2]
        \/ job'[i].pc = "end" /\ job'[i].err
    BY <2>1 DEF Fl!sameFlacSource
  <2> QED BY <1>4, <2>1, <2>2, <2>3, <2>4, JobMoves DEF Fl!Open
<1>5. CASE Fl!Convert(i)
  <2>1. /\ JobMoved(i)
        /\ \/ job'[i].pc = "end" /\ job'[i].err
           \/ job'[i].pc = "rename" /\ job'[i].ver = job[i].ver
    BY <1>5, MoveIs, FailIs DEF Fl!Convert, JobPCs
  <2>2. Shelved
    BY <1>5, ShelfKept DEF Fl!Convert
  <2>0. JobMoved(i) /\ job[i].pc = "convert" /\ jobs' = jobs
    BY <1>5, <2>1 DEF Fl!Convert
  <2>3. InSlots'
    BY <2>0, SlotsStay DEF SlotPCs
  <2>4. \/ job'[i].pc = "rename" /\ job'[i].ver = job[i].ver
        \/ job'[i].pc = "end" /\ job'[i].err
    BY <2>1
  <2>5. job[i].ver = job[i].key[2]
    BY <1>5 DEF OnDisk, Fl!Convert
  <2> QED BY <1>5, <2>1, <2>2, <2>3, <2>4, <2>5, JobMoves DEF Fl!Convert
<1>6. CASE Fl!Rename(i)
  <2> DEFINE k == job[i].key
             e == [key |-> k, ver |-> job[i].ver]
  <2>1. JobMoved(i)
    BY <1>1, <1>6 DEF Fl!Rename, Fl!Move, JobMoved, Jobs, JobPCs
  <2>a. job[i].ver = k[2] /\ k \in Fl!Keys
    BY <1>1, <1>6 DEF OnDisk, Fl!Rename
  <2>b. k[2] \in Edition
    BY <2>a DEF Fl!Keys, Edition
  <2>0. e \in Results /\ job[i].ver = k[2]
    BY <2>a, <2>b DEF Results
  <2>5. /\ Fl!Unlisted(k) \in Seq(Results) /\ From(Fl!Unlisted(k))
        /\ \A l \in Fl!Keys \ {k} : Fl!Cached(l) => Lists(Fl!Unlisted(k), l)
    BY <1>1, Reordered
  <2>6. out' = Append(Fl!Unlisted(k), e) /\ e.key = k /\ e.ver = k[2]
    BY <1>6, <2>0 DEF Fl!Rename
  <2> HIDE DEF e, k
  <2>7. /\ out' \in Seq(Results) /\ DOMAIN out' = 1..(Len(Fl!Unlisted(k)) + 1)
        /\ DOMAIN Fl!Unlisted(k) = 1..Len(Fl!Unlisted(k)) /\ Len(Fl!Unlisted(k)) \in Nat
        /\ \A j \in 1..Len(Fl!Unlisted(k)) : out'[j] = Fl!Unlisted(k)[j]
        /\ out'[Len(Fl!Unlisted(k)) + 1] = e
    BY <2>0, <2>5, <2>6
  <2>8. Lists(out', k) /\ \A l \in Fl!Keys \ {k} : Fl!Cached(l) => Lists(out', l)
    BY <2>5, <2>6, <2>7 DEF Lists
  <2>9. Fl!VersionHonest'
    BY <2>5, <2>6, <2>7 DEF Fl!VersionHonest, From, OnDisk
  <2>2. Shelved
    BY <2>7, <2>8, <2>9 DEF Shelved
  <2>3. InSlots'
    BY <1>6, <2>1, SlotsStay DEF Fl!Rename, SlotPCs
  <2>4. job'[i].pc = "evict"
    BY <1>1, <1>6 DEF Fl!Rename, Fl!Move, Jobs
  <2> QED BY <1>6, <2>1, <2>2, <2>3, <2>4, <2>8, JobMoves DEF Fl!Rename, k
<1>7. CASE Fl!Evict(i)
  <2>1. JobMoved(i)
    BY <1>1, <1>7 DEF Fl!Evict, Fl!Move, JobMoved, Jobs, JobPCs
  <2>2. Shelved
    BY <1>7, KeptResults, ShelfFrom DEF Fl!Evict
  <2>3. InSlots'
    BY <1>7, <2>1, SlotsStay DEF Fl!Evict, SlotPCs
  <2>4. job'[i].pc = "end" /\ (~job'[i].err => ~job[i].err)
    BY <1>1, <1>7 DEF Fl!Evict, Fl!Move, Jobs
  <2>5. dir /\ job[i].waiters \in Nat
    <3>1. i <= jobs
      BY <1>7 DEF Pins, Counted, FlacTypes, FlacConfigured, Fl!Evict
    <3>2. i \in Fl!LiveJobs
      BY <1>7, <3>1 DEF Fl!LiveJobs, Fl!Evict
    <3> QED BY <1>1, <3>2 DEF OnDisk, Fl!CloseIsFinal, Jobs
  <2>6. job[i].waiters > 0 => inflight[job[i].key] # 0
    BY <2>5 DEF Pins, Counted
  <2>7. ~job'[i].err /\ job[i].waiters > 0 => Lists(out', job[i].key)
    BY <1>1, <1>7, <2>2, <2>4, <2>5, <2>6 DEF Shelved, OnDisk, Fl!Evict
  <2> QED BY <1>7, <2>1, <2>2, <2>3, <2>4, <2>7, JobMoves DEF Fl!Evict
<1>8. CASE Fl!End(i)
  <2>1. JobMoved(i)
    BY <1>1, <1>8 DEF Fl!End, JobMoved, Jobs, JobPCs
  <2>2. Shelved
    BY <1>8, ShelfKept DEF Fl!End
  <2>3. InSlots'
    BY <1>8, <2>1, SlotsStay DEF Fl!End, SlotPCs
  <2>4. job'[i].pc = "gone" /\ (~job'[i].err => ~job[i].err)
    BY <1>1, <1>8 DEF Fl!End, Jobs
  <2>5. dir
    <3>1. i <= jobs
      BY <1>8 DEF Pins, Counted, FlacTypes, FlacConfigured, Fl!End
    <3>2. i \in Fl!LiveJobs
      BY <1>8, <3>1 DEF Fl!LiveJobs, Fl!End
    <3> QED BY <3>2 DEF OnDisk, Fl!CloseIsFinal
  <2>7. ~job'[i].err /\ job[i].waiters > 0 => Lists(out', job[i].key)
    BY <1>1, <1>8, <2>4, <2>5 DEF Lists, Fl!Cached, OnDisk, Fl!End
  <2> QED BY <1>8, <2>1, <2>2, <2>3, <2>4, <2>7, JobMoves DEF Fl!End
<1> QED BY <1>2, <1>3, <1>4, <1>5, <1>6, <1>7, <1>8 DEF Fl!Run

-----------------------------------------------------------------------------
(* What a request finds when it joins. *)
LEMMA InFlightIs ==
    ASSUME FlacConfigured, FlacTypes, Pins, NEW k \in Fl!Keys, inflight[k] # 0
    PROVE  /\ inflight[k] \in 1..jobs /\ inflight[k] \in 1..MaxJobs
           /\ job[inflight[k]].key = k /\ job[inflight[k]].waiters \in Nat \ {0}
<1>1. inflight[k] \in 1..jobs /\ inflight[k] \in 1..MaxJobs
  BY DEF FlacTypes, FlacConfigured
<1>2. job[inflight[k]].key = k /\ job[inflight[k]].waiters > 0
  BY DEF Pins, InFlight
<1>3. job[inflight[k]].waiters \in Nat
  BY <1>1 DEF FlacTypes, Jobs
<1> QED BY <1>1, <1>2, <1>3

(* A request joins the conversion in flight. *)
LEMMA JoinsOld ==
    ASSUME FlacConfigured, FlacInv, NEW g \in Getters, Fl!Join(g), inflight[get[g].key] # 0
    PROVE  FlacInv'
<1> USE DEF FlacInv
<1>0. get[g].key \in Fl!Keys
  BY DEF FlacTypes, Requests
<1>i. inflight[get[g].key] \in 1..MaxJobs
  BY <1>0, InFlightIs
<1> SUFFICES ASSUME NEW k \in Fl!Keys, k = get[g].key, NEW i \in 1..MaxJobs, i = inflight[k]
             PROVE  FlacInv'
  BY <1>0, <1>i
<1>1. get \in [Getters -> Requests] /\ job \in [1..MaxJobs -> Jobs] /\ inflight \in [Fl!Keys -> 0..jobs]
  BY DEF FlacTypes
<1>2. i \in 1..jobs /\ job[i].key = k /\ job[i].waiters \in Nat \ {0} /\ i # 0
  BY InFlightIs
<1>jobs. jobs \in Nat /\ ~(i > jobs)
  BY <1>2 DEF FlacTypes, FlacConfigured
<1>3. /\ job' = [job EXCEPT ![i].waiters = job[i].waiters + 1] /\ inflight' = [inflight EXCEPT ![k] = i]
      /\ get' = [get EXCEPT ![g].pc = "wait", ![g].job = i] /\ jobs' = jobs
      /\ UNCHANGED <<cur, out, closed, dir, gets>> /\ get[g].pc = "join"
  BY <1>2, <1>jobs DEF Fl!Join
<1>4. inflight' = inflight
  BY <1>1, <1>3
<1>5. /\ job' \in [1..MaxJobs -> Jobs] /\ \A j \in 1..MaxJobs \ {i} : job'[j] = job[j]
      /\ job'[i].key = k /\ job'[i].pc = job[i].pc /\ job'[i].err = job[i].err
      /\ job'[i].canceled = job[i].canceled /\ job'[i].ver = job[i].ver /\ job'[i].waiters = job[i].waiters + 1
  <2>1. job[i] \in Jobs /\ job[i].waiters + 1 \in Nat
    BY <1>1, <1>2
  <2> QED BY <1>1, <1>2, <1>3, <2>1 DEF Jobs
<1>6. /\ get' \in [Getters -> Requests] /\ \A h \in Getters \ {g} : get'[h] = get[h]
      /\ get'[g].pc = "wait" /\ get'[g].job = i
  <2>1. i \in 0..MaxJobs
    BY <1>2 DEF FlacConfigured
  <2> QED BY <1>1, <1>3, <2>1 DEF Requests
<1>7. FlacTypes'
  BY <1>3, <1>4, <1>5, <1>6 DEF FlacTypes, Edition, Results, Fl!Keys, Jobs, JobPCs, Requests
<1>8. Pins'
  <2>0. get[g].pc \notin {"wait", "leave"}
    BY <1>3
  <2>1. Holders(i)' = Holders(i) \cup {g} /\ g \notin Holders(i)
    <3>1. ASSUME NEW h \in Getters PROVE h \in Holders(i)' <=> h \in Holders(i) \/ h = g
      BY <1>6 DEF Holders
    <3>2. Holders(i)' \in SUBSET Getters /\ Holders(i) \in SUBSET Getters
      BY DEF Holders
    <3> QED BY <2>0, <3>1, <3>2 DEF Holders
  <2>2. ASSUME NEW j \in 1..MaxJobs \ {i} PROVE Holders(j)' = Holders(j)
    <3>1. ASSUME NEW h \in Getters PROVE h \in Holders(j)' <=> h \in Holders(j)
      BY <1>6, <2>0 DEF Holders
    <3>2. Holders(j)' \in SUBSET Getters /\ Holders(j) \in SUBSET Getters
      BY DEF Holders
    <3> QED BY <3>1, <3>2
  <2>3. Cardinality(Holders(i)') = Cardinality(Holders(i)) + 1
    <3> DEFINE H == Holders(i)
    <3>1. IsFiniteSet(H) /\ g \notin H
      BY <2>1, HoldersCounted
    <3> HIDE DEF H
    <3>2. Cardinality(H \cup {g}) = Cardinality(H) + 1
      BY <3>1, FS_AddElement
    <3> QED BY <2>1, <3>2 DEF H
  <2>4. ASSUME NEW j \in 1..MaxJobs PROVE Counted(j)'
    <3>1. CASE j = i
      <4>1. job[i].waiters = Cardinality(Holders(i)) /\ (i > jobs => job[i].pc = "none")
        BY <1>2 DEF Pins, Counted
      <4>2. inflight[k] = i
        OBVIOUS
      <4> QED BY <1>3, <1>4, <1>5, <2>3, <3>1, <4>1, <4>2 DEF Counted
    <3>2. CASE j # i
      <4>1. job'[j] = job[j] /\ Holders(j)' = Holders(j) /\ Counted(j)
        BY <1>5, <2>2, <3>2 DEF Pins
      <4> QED BY <1>3, <1>4, <4>1 DEF Counted
    <3> QED BY <3>1, <3>2
  <2>5. ASSUME NEW h \in Getters PROVE Awaited(h)'
    BY <1>2, <1>3, <1>6 DEF Awaited, Pins
  <2>6. ASSUME NEW l \in Fl!Keys PROVE InFlight(l)'
    <3>1. CASE inflight[l] = 0
      BY <1>4, <3>1 DEF InFlight
    <3>2. CASE inflight[l] # 0
      <4>1. inflight[l] \in 1..MaxJobs /\ job[inflight[l]].key = l /\ job[inflight[l]].waiters \in Nat \ {0}
        BY <3>2, InFlightIs
      <4>2. job'[inflight[l]].key = l /\ job'[inflight[l]].waiters > 0
        BY <1>2, <1>5, <4>1
      <4> QED BY <1>4, <4>2 DEF InFlight
    <3> QED BY <3>1, <3>2
  <2> QED BY <2>4, <2>5, <2>6 DEF Pins, Fl!Keys
<1>9. OnDisk'
  <2>1. Fl!VersionHonest' /\ (~dir => closed)'
    BY <1>3 DEF OnDisk, Fl!VersionHonest
  <2>2. (\A j \in 1..MaxJobs : job[j].pc \in {"convert", "rename"} => job[j].ver = job[j].key[2])'
    BY <1>2, <1>5 DEF OnDisk
  <2>3. (\A j \in 1..MaxJobs : job[j].pc \in {"evict", "end", "gone"} /\ ~job[j].err /\ job[j].waiters > 0 /\ dir
                               => Fl!Cached(job[j].key))'
    <3>1. \A j \in 1..MaxJobs : /\ job'[j].key = job[j].key /\ job'[j].pc = job[j].pc /\ job'[j].err = job[j].err
                                /\ job'[j].waiters > 0 => job[j].waiters > 0
      BY <1>2, <1>5
    <3> QED BY <1>3, <3>1 DEF OnDisk, Fl!Cached
  <2>4. Fl!CloseIsFinal'
    <3>1. \A j \in 1..jobs : j \in 1..MaxJobs
      BY DEF FlacTypes, FlacConfigured
    <3>2. \A j \in 1..MaxJobs : job'[j].pc = job[j].pc
      BY <1>5
    <3>3. Fl!LiveJobs' = Fl!LiveJobs
      BY <1>3, <3>1, <3>2 DEF Fl!LiveJobs
    <3> QED BY <1>3, <3>3 DEF OnDisk, Fl!CloseIsFinal
  <2> QED BY <2>1, <2>2, <2>3, <2>4 DEF OnDisk
<1>10. InSlots'
  <2>1. \A j \in 1..jobs : j \in 1..MaxJobs
    BY DEF FlacTypes, FlacConfigured
  <2>2. \A j \in 1..MaxJobs : job'[j].pc = job[j].pc
    BY <1>5
  <2>3. Fl!Slots' = Fl!Slots
    BY <1>3, <2>1, <2>2 DEF Fl!Slots
  <2> QED BY <2>3 DEF InSlots
<1> QED BY <1>7, <1>8, <1>9, <1>10

(* A request begins a conversion. *)
LEMMA JoinsNew ==
    ASSUME FlacConfigured, FlacInv, NEW g \in Getters, Fl!Join(g), inflight[get[g].key] = 0
    PROVE  FlacInv'
<1> USE DEF FlacInv
<1>0. get[g].key \in Fl!Keys /\ jobs \in 0..MaxJobs /\ MaxJobs \in Nat
  BY DEF FlacTypes, Requests, FlacConfigured
<1>i. jobs + 1 \in 1..MaxJobs
  BY <1>0 DEF Fl!Join
<1> SUFFICES ASSUME NEW k \in Fl!Keys, k = get[g].key, NEW i \in 1..MaxJobs, i = jobs + 1
             PROVE  FlacInv'
  BY <1>0, <1>i
<1>1. get \in [Getters -> Requests] /\ job \in [1..MaxJobs -> Jobs] /\ inflight \in [Fl!Keys -> 0..jobs]
  BY DEF FlacTypes
<1>2. i > jobs /\ jobs \in Nat /\ i \in Nat /\ inflight[k] = 0
  BY <1>0
<1>3. /\ job' = [job EXCEPT ![i] = [Fl!NoJob EXCEPT !.key = k, !.pc = "queued", !.waiters = 1]]
      /\ inflight' = [inflight EXCEPT ![k] = i]
      /\ get' = [get EXCEPT ![g].pc = "wait", ![g].job = i] /\ jobs' = i
      /\ UNCHANGED <<cur, out, closed, dir, gets>> /\ get[g].pc = "join" /\ ~closed
  BY <1>2 DEF Fl!Join, Fl!Admitted
<1>5. /\ job' \in [1..MaxJobs -> Jobs] /\ \A j \in 1..MaxJobs \ {i} : job'[j] = job[j]
      /\ job'[i].key = k /\ job'[i].pc = "queued" /\ job'[i].waiters = 1
  <2> DEFINE r == [Fl!NoJob EXCEPT !.key = k, !.pc = "queued", !.waiters = 1]
  <2>1. r \in Jobs /\ r.key = k /\ r.pc = "queued" /\ r.waiters = 1
    BY Blank DEF Jobs, JobPCs
  <2>2. job' = [job EXCEPT ![i] = r]
    BY <1>3
  <2> HIDE DEF r
  <2> QED BY <1>1, <2>1, <2>2
<1>6. /\ get' \in [Getters -> Requests] /\ \A h \in Getters \ {g} : get'[h] = get[h]
      /\ get'[g].pc = "wait" /\ get'[g].job = i
  <2>1. i \in 0..MaxJobs
    BY <1>2
  <2> QED BY <1>1, <1>3, <2>1 DEF Requests
<1>4. inflight' \in [Fl!Keys -> 0..i] /\ inflight'[k] = i /\ \A l \in Fl!Keys \ {k} : inflight'[l] = inflight[l]
  <2>1. inflight \in [Fl!Keys -> 0..i] /\ i \in 0..i
    BY <1>1, <1>2
  <2> QED BY <1>3, <2>1
<1>7. FlacTypes'
  <2>1. (cur \in [Tracks -> Edition] /\ gets \in 0..MaxGets /\ closed \in BOOLEAN /\ dir \in BOOLEAN)'
    BY <1>3 DEF FlacTypes, Edition
  <2>2. (out \in Seq(Results))'
    BY <1>3 DEF FlacTypes, Results, Edition, Fl!Keys
  <2>3. (jobs \in 0..MaxJobs /\ inflight \in [Fl!Keys -> 0..jobs])'
    BY <1>0, <1>3, <1>4 DEF Fl!Keys
  <2>4. (job \in [1..MaxJobs -> Jobs] /\ get \in [Getters -> Requests])'
    BY <1>5, <1>6 DEF Jobs, JobPCs, Requests, Fl!Keys, Edition
  <2> QED BY <2>1, <2>2, <2>3, <2>4 DEF FlacTypes
<1>8. Pins'
  <2>0. get[g].pc \notin {"wait", "leave"} /\ (\A h \in Getters : Awaited(h))
    BY <1>3 DEF Pins
  <2>1. Holders(i) = {}
    BY <1>2, <2>0 DEF Holders, Awaited
  <2>2. ASSUME NEW j \in 1..MaxJobs \ {i} PROVE Holders(j)' = Holders(j)
    <3>1. ASSUME NEW h \in Getters PROVE h \in Holders(j)' <=> h \in Holders(j)
      BY <1>6, <2>0 DEF Holders
    <3>2. Holders(j)' \in SUBSET Getters /\ Holders(j) \in SUBSET Getters
      BY DEF Holders
    <3> QED BY <3>1, <3>2
  <2>3. Holders(i)' = {g}
    <3>1. ASSUME NEW h \in Getters PROVE h \in Holders(i)' <=> h = g
      <4>1. h \notin Holders(i)
        BY <2>1
      <4> QED BY <1>6, <4>1 DEF Holders
    <3>2. Holders(i)' \in SUBSET Getters
      BY DEF Holders
    <3> QED BY <3>1, <3>2
  <2>c. Cardinality(Holders(i)') = 1
    BY <2>3, FS_Singleton
  <2>4. ASSUME NEW j \in 1..MaxJobs PROVE Counted(j)'
    <3>1. CASE j = i
      BY <1>3, <1>4, <1>5, <2>c, <3>1, <1>2 DEF Counted
    <3>2. CASE j # i
      <4>1. job'[j] = job[j] /\ Holders(j)' = Holders(j) /\ Counted(j) /\ job[j].key \in Fl!Keys
        BY <1>1, <1>5, <2>2, <3>2 DEF Pins, Jobs
      <4>2. CASE job[j].key = k
        <5>1. j # 0
          OBVIOUS
        <5>2. ~(job[j].waiters > 0) /\ ~(job[j].pc \notin {"none", "gone"} /\ ~job[j].canceled)
          BY <1>2, <4>1, <4>2, <5>1 DEF Counted
        <5>3. j > i => j > jobs
          BY <1>2
        <5> QED BY <1>3, <4>1, <5>2, <5>3 DEF Counted
      <4>3. CASE job[j].key # k
        <5>1. inflight'[job[j].key] = inflight[job[j].key]
          BY <1>4, <4>1, <4>3
        <5>3. j > i => j > jobs
          BY <1>2
        <5> QED BY <1>3, <4>1, <5>1, <5>3 DEF Counted
      <4> QED BY <4>2, <4>3
    <3> QED BY <3>1, <3>2
  <2>5. ASSUME NEW h \in Getters PROVE Awaited(h)'
    <3>1. CASE h = g
      BY <1>2, <1>3, <1>6, <3>1 DEF Awaited
    <3>2. CASE h # g
      BY <1>2, <1>3, <1>6, <2>0, <3>2 DEF Awaited
    <3> QED BY <3>1, <3>2
  <2>6. ASSUME NEW l \in Fl!Keys PROVE InFlight(l)'
    <3>1. CASE l = k
      BY <1>4, <1>5, <3>1 DEF InFlight
    <3>2. CASE l # k /\ inflight[l] # 0
      <4>1. inflight[l] \in 1..jobs /\ inflight[l] \in 1..MaxJobs /\ job[inflight[l]].key = l /\ job[inflight[l]].waiters \in Nat \ {0}
        BY <3>2, InFlightIs
      <4>2. inflight[l] # i
        BY <1>2, <4>1
      <4>3. job'[inflight[l]].key = l /\ job'[inflight[l]].waiters > 0 /\ inflight'[l] = inflight[l]
        BY <1>4, <1>5, <3>2, <4>1, <4>2
      <4> QED BY <4>3 DEF InFlight
    <3>3. CASE l # k /\ inflight[l] = 0
      BY <1>4, <3>3 DEF InFlight
    <3> QED BY <3>1, <3>2, <3>3
  <2> QED BY <2>4, <2>5, <2>6 DEF Pins, Fl!Keys
<1>9. OnDisk'
  <2>1. Fl!VersionHonest' /\ (~dir => closed)'
    BY <1>3 DEF OnDisk, Fl!VersionHonest
  <2>2. (\A j \in 1..MaxJobs : job[j].pc \in {"convert", "rename"} => job[j].ver = job[j].key[2])'
    BY <1>5 DEF OnDisk
  <2>3. (\A j \in 1..MaxJobs : job[j].pc \in {"evict", "end", "gone"} /\ ~job[j].err /\ job[j].waiters > 0 /\ dir
                               => Fl!Cached(job[j].key))'
    <3>1. \A j \in 1..MaxJobs : job'[j].pc = "queued" \/ job'[j] = job[j]
      BY <1>5
    <3> QED BY <1>3, <3>1 DEF OnDisk, Fl!Cached
  <2>4. Fl!CloseIsFinal'
    BY <1>3 DEF OnDisk, Fl!CloseIsFinal
  <2> QED BY <2>1, <2>2, <2>3, <2>4 DEF OnDisk
<1>10. InSlots'
  <2>1. \A j \in 1..jobs : j \in 1..MaxJobs \ {i}
    BY <1>0, <1>2
  <2>2. \A j \in 1..i : j = i \/ j \in 1..jobs
    BY <1>2
  <2>0. \A j \in 1..jobs : j \in 1..i
    BY <1>2
  <2>3. Fl!Slots' = Fl!Slots
    BY <1>3, <1>5, <2>0, <2>1, <2>2 DEF Fl!Slots
  <2> QED BY <2>3 DEF InSlots
<1> QED BY <1>7, <1>8, <1>9, <1>10

(* The last request to leave takes the job out of flight and cancels it. *)
LEMMA Leaves == ASSUME FlacConfigured, FlacInv, NEW g \in Getters, Fl!Leave(g) PROVE FlacInv'
<1> USE DEF FlacInv
<1>0. get[g].pc = "leave"
  BY DEF Fl!Leave
<1>i. /\ get[g].job \in 1..jobs /\ get[g].job \in 1..MaxJobs
      /\ g \in Holders(get[g].job) /\ job[get[g].job].waiters \in Nat \ {0}
      /\ inflight[job[get[g].job].key] = get[g].job
  BY <1>0, Held
<1> SUFFICES ASSUME NEW i \in 1..MaxJobs, i = get[g].job, NEW k \in Fl!Keys, k = job[i].key,
                    NEW c \in BOOLEAN, c = (job[i].canceled \/ Fl!LastWaiter(i))
             PROVE  FlacInv'
  <2>1. job[get[g].job].key \in Fl!Keys
    BY <1>i DEF FlacTypes, Jobs
  <2> DEFINE d == (job[get[g].job].canceled \/ Fl!LastWaiter(get[g].job))
  <2>2. d \in BOOLEAN
    OBVIOUS
  <2> QED BY <1>i, <2>1, <2>2
<1>1. get \in [Getters -> Requests] /\ job \in [1..MaxJobs -> Jobs] /\ inflight \in [Fl!Keys -> 0..jobs]
  BY DEF FlacTypes
<1>2. /\ i \in 1..jobs /\ g \in Holders(i) /\ job[i].waiters \in Nat \ {0} /\ inflight[k] = i
      /\ jobs \in Nat /\ i \in Nat \ {0} /\ 0 \in 0..jobs
  BY <1>i DEF FlacTypes, FlacConfigured
<1>3. /\ job' = [job EXCEPT ![i].waiters = job[i].waiters - 1, ![i].canceled = c]
      /\ get' = [get EXCEPT ![g] = Fl!Idle]
      /\ UNCHANGED <<cur, out, jobs, closed, dir, gets>>
      /\ inflight' = IF job[i].waiters = 1 THEN [inflight EXCEPT ![k] = 0] ELSE inflight
      /\ job[i].waiters = 1 => c
  BY DEF Fl!Leave, Fl!Return, Fl!Unpinned, Fl!LastWaiter
<1>4. /\ inflight' \in [Fl!Keys -> 0..jobs]
      /\ \A l \in Fl!Keys \ {k} : inflight'[l] = inflight[l]
      /\ inflight'[k] = IF job[i].waiters = 1 THEN 0 ELSE i
  <2>1. CASE job[i].waiters = 1
    BY <1>1, <1>2, <1>3, <2>1
  <2>2. CASE job[i].waiters # 1
    BY <1>1, <1>2, <1>3, <2>2
  <2> QED BY <2>1, <2>2
<1>5. /\ job' \in [1..MaxJobs -> Jobs] /\ \A j \in 1..MaxJobs \ {i} : job'[j] = job[j]
      /\ job'[i].key = k /\ job'[i].pc = job[i].pc /\ job'[i].err = job[i].err
      /\ job'[i].canceled = c /\ job'[i].ver = job[i].ver /\ job'[i].waiters = job[i].waiters - 1
  <2>1. job[i] \in Jobs /\ job[i].waiters - 1 \in Nat
    BY <1>1, <1>2
  <2> QED BY <1>1, <1>2, <1>3, <2>1 DEF Jobs
<1>6. /\ get' \in [Getters -> Requests] /\ \A h \in Getters \ {g} : get'[h] = get[h]
      /\ get'[g].pc = "idle"
  BY <1>1, <1>3, Blank
<1>w. /\ job[i].waiters = 1 => job'[i].waiters = 0
      /\ job[i].waiters # 1 => job'[i].waiters \in Nat \ {0}
      /\ job'[i].waiters > 0 => job[i].waiters > 0
  BY <1>2, <1>5
<1>7. FlacTypes'
  <2>1. (cur \in [Tracks -> Edition] /\ gets \in 0..MaxGets /\ closed \in BOOLEAN /\ dir \in BOOLEAN)'
    BY <1>3 DEF FlacTypes, Edition
  <2>2. (out \in Seq(Results))'
    BY <1>3 DEF FlacTypes, Results, Edition, Fl!Keys
  <2>3. (jobs \in 0..MaxJobs /\ inflight \in [Fl!Keys -> 0..jobs])'
    BY <1>3, <1>4 DEF FlacTypes, Fl!Keys
  <2>4. (job \in [1..MaxJobs -> Jobs] /\ get \in [Getters -> Requests])'
    BY <1>5, <1>6 DEF Jobs, JobPCs, Requests, Fl!Keys, Edition
  <2> QED BY <2>1, <2>2, <2>3, <2>4 DEF FlacTypes
<1>8. Pins'
  <2>0. \A h \in Getters : Awaited(h)
    BY DEF Pins
  <2>2. ASSUME NEW j \in 1..MaxJobs \ {i} PROVE Holders(j)' = Holders(j)
    <3>1. ASSUME NEW h \in Getters PROVE h \in Holders(j)' <=> h \in Holders(j)
      BY <1>6 DEF Holders
    <3>2. Holders(j)' \in SUBSET Getters /\ Holders(j) \in SUBSET Getters
      BY DEF Holders
    <3> QED BY <3>1, <3>2
  <2>3. Holders(i)' = Holders(i) \ {g}
    <3>1. ASSUME NEW h \in Getters PROVE h \in Holders(i)' <=> (h \in Holders(i) /\ h # g)
      BY <1>6 DEF Holders
    <3>2. Holders(i)' \in SUBSET Getters /\ Holders(i) \in SUBSET Getters
      BY DEF Holders
    <3> QED BY <3>1, <3>2
  <2>c. Cardinality(Holders(i)') = Cardinality(Holders(i)) - 1
    <3> DEFINE H == Holders(i)
    <3>1. IsFiniteSet(H) /\ g \in H
      BY <1>2, HoldersCounted
    <3> HIDE DEF H
    <3>2. Cardinality(H \ {g}) = Cardinality(H) - 1
      BY <3>1, FS_RemoveElement
    <3> QED BY <2>3, <3>2 DEF H
  <2>4. ASSUME NEW j \in 1..MaxJobs PROVE Counted(j)'
    <3>1. CASE j = i
      <4>1. job[i].waiters = Cardinality(Holders(i)) /\ ~(i > jobs)
            /\ (job[i].pc \notin {"none", "gone"} /\ ~job[i].canceled => inflight[k] = i)
        BY <1>2 DEF Pins, Counted
      <4>2. CASE job[i].waiters = 1
        <5>1. job'[i].waiters = 0 /\ Cardinality(Holders(i)') = 0 /\ jobs' = jobs
          BY <1>3, <1>w, <2>c, <4>1, <4>2
        <5>2. job'[i].canceled
          BY <1>3, <1>5, <4>2
        <5>3. ~(i > jobs')
          BY <4>1, <5>1
        <5> QED BY <3>1, <5>1, <5>2, <5>3 DEF Counted
      <4>3. CASE job[i].waiters # 1
        BY <1>3, <1>4, <1>5, <1>w, <2>c, <3>1, <4>1, <4>3 DEF Counted
      <4> QED BY <4>2, <4>3
    <3>2. CASE j # i
      <4>1. job'[j] = job[j] /\ Holders(j)' = Holders(j) /\ Counted(j) /\ job[j].key \in Fl!Keys
        BY <1>1, <1>5, <2>2, <3>2 DEF Pins, Jobs
      <4>2. CASE job[j].key = k
        <5>2. ~(job[j].waiters > 0) /\ ~(job[j].pc \notin {"none", "gone"} /\ ~job[j].canceled)
          BY <1>2, <3>2, <4>1, <4>2 DEF Counted
        <5> QED BY <1>3, <4>1, <5>2 DEF Counted
      <4>3. CASE job[j].key # k
        <5>1. inflight'[job[j].key] = inflight[job[j].key]
          BY <1>4, <4>1, <4>3
        <5> QED BY <1>3, <4>1, <5>1 DEF Counted
      <4> QED BY <4>2, <4>3
    <3> QED BY <3>1, <3>2
  <2>5. ASSUME NEW h \in Getters PROVE Awaited(h)'
    <3>1. CASE h = g
      BY <1>6, <3>1 DEF Awaited
    <3>2. CASE h # g
      BY <1>3, <1>6, <2>0, <3>2 DEF Awaited
    <3> QED BY <3>1, <3>2
  <2>6. ASSUME NEW l \in Fl!Keys PROVE InFlight(l)'
    <3>1. CASE l = k
      <4>1. CASE job[i].waiters = 1
        BY <1>4, <3>1, <4>1 DEF InFlight
      <4>2. CASE job[i].waiters # 1
        <5>1. inflight'[k] = i
          BY <1>4, <4>2
        <5>2. job'[i].key = k
          BY <1>5
        <5>3. job'[i].waiters > 0
          BY <1>w, <4>2
        <5> QED BY <3>1, <5>1, <5>2, <5>3 DEF InFlight
      <4> QED BY <4>1, <4>2
    <3>2. CASE l # k /\ inflight[l] # 0
      <4>1. inflight[l] \in 1..MaxJobs /\ job[inflight[l]].key = l /\ job[inflight[l]].waiters \in Nat \ {0}
        BY <3>2, InFlightIs
      <4>2. inflight[l] # i
        BY <3>2, <4>1
      <4>3. job'[inflight[l]].key = l /\ job'[inflight[l]].waiters > 0 /\ inflight'[l] = inflight[l]
        BY <1>4, <1>5, <3>2, <4>1, <4>2
      <4> QED BY <4>3 DEF InFlight
    <3>3. CASE l # k /\ inflight[l] = 0
      BY <1>4, <3>3 DEF InFlight
    <3> QED BY <3>1, <3>2, <3>3
  <2> QED BY <2>4, <2>5, <2>6 DEF Pins, Fl!Keys
<1>9. OnDisk'
  <2>1. Fl!VersionHonest' /\ (~dir => closed)'
    BY <1>3 DEF OnDisk, Fl!VersionHonest
  <2>2. (\A j \in 1..MaxJobs : job[j].pc \in {"convert", "rename"} => job[j].ver = job[j].key[2])'
    BY <1>5 DEF OnDisk
  <2>3. (\A j \in 1..MaxJobs : job[j].pc \in {"evict", "end", "gone"} /\ ~job[j].err /\ job[j].waiters > 0 /\ dir
                               => Fl!Cached(job[j].key))'
    <3>1. \A j \in 1..MaxJobs : /\ job'[j].key = job[j].key /\ job'[j].pc = job[j].pc /\ job'[j].err = job[j].err
                                /\ job'[j].waiters > 0 => job[j].waiters > 0
      <4>1. ASSUME NEW j \in 1..MaxJobs, j # i PROVE job'[j] = job[j]
        BY <1>5, <4>1
      <4>2. job'[i].key = job[i].key /\ job'[i].pc = job[i].pc /\ job'[i].err = job[i].err
        BY <1>5
      <4>3. job'[i].waiters > 0 => job[i].waiters > 0
        BY <1>w
      <4> QED BY <4>1, <4>2, <4>3
    <3>2. ASSUME NEW j \in 1..MaxJobs, job'[j].pc \in {"evict", "end", "gone"}, ~job'[j].err, job'[j].waiters > 0, dir'
          PROVE  Lists(out', job'[j].key)
      <4>1. job[j].pc \in {"evict", "end", "gone"} /\ ~job[j].err /\ job[j].waiters > 0 /\ dir
        BY <1>3, <3>1, <3>2
      <4>2. Fl!Cached(job[j].key)
        BY <4>1 DEF OnDisk
      <4>3. out' = out /\ job'[j].key = job[j].key
        BY <1>3, <3>1
      <4> QED BY <4>2, <4>3 DEF Fl!Cached, Lists
    <3> QED BY <3>2 DEF Fl!Cached, Lists
  <2>4. Fl!CloseIsFinal'
    <3>1. \A j \in 1..jobs : j \in 1..MaxJobs
      BY DEF FlacTypes, FlacConfigured
    <3>2. \A j \in 1..MaxJobs : job'[j].pc = job[j].pc
      BY <1>5
    <3>3. Fl!LiveJobs' = Fl!LiveJobs
      BY <1>3, <3>1, <3>2 DEF Fl!LiveJobs
    <3> QED BY <1>3, <3>3 DEF OnDisk, Fl!CloseIsFinal
  <2> QED BY <2>1, <2>2, <2>3, <2>4 DEF OnDisk
<1>10. InSlots'
  <2>1. \A j \in 1..jobs : j \in 1..MaxJobs
    BY DEF FlacTypes, FlacConfigured
  <2>2. \A j \in 1..MaxJobs : job'[j].pc = job[j].pc
    BY <1>5
  <2>3. Fl!Slots' = Fl!Slots
    BY <1>3, <2>1, <2>2 DEF Fl!Slots
  <2> QED BY <2>3 DEF InSlots
<1> QED BY <1>7, <1>8, <1>9, <1>10

-----------------------------------------------------------------------------
LEMMA RequestIs ==
    ASSUME FlacConfigured, FlacTypes, NEW g \in Getters
    PROVE  get \in [Getters -> Requests] /\ get[g] \in Requests /\ get[g].key \in Fl!Keys
BY DEF FlacTypes, Requests

(* The steps of a request that leave the jobs alone. *)
LEMMA GetKeeps ==
    ASSUME FlacConfigured, FlacInv, NEW g \in Getters,
           (\E t \in Tracks : Fl!Stat(g, t)) \/ Fl!Look(g) \/ Fl!Hit(g) \/ Fl!Refused(g) \/ Fl!WaitOver(g) \/ Fl!GiveUp(g)
    PROVE  FlacInv'
<1> USE DEF FlacInv
<1>1. get \in [Getters -> Requests] /\ get[g] \in Requests /\ get[g].key \in Fl!Keys /\ Fl!Idle \in Requests /\ Fl!Idle.pc = "idle"
  BY RequestIs, Blank
<1>2. CASE \E t \in Tracks : Fl!Stat(g, t)
  <2>1. PICK t \in Tracks : Fl!Stat(g, t)
    BY <1>2
  <2> DEFINE r == [pc |-> "look", key |-> <<t, cur[t]>>, job |-> 0]
  <2>2. r \in Requests /\ r.pc = "look"
    <3>1. cur[t] \in Edition
      BY DEF FlacTypes
    <3>2. <<t, cur[t]>> \in Fl!Keys /\ 0 \in 0..MaxJobs
      BY <3>1 DEF Fl!Keys, Edition, FlacConfigured
    <3> QED BY <3>2 DEF Requests
  <2>3. get' = [get EXCEPT ![g] = r] /\ get[g].pc = "idle"
    BY <2>1 DEF Fl!Stat
  <2> HIDE DEF r
  <2>4. SameHolders /\ get' \in [Getters -> Requests]
    BY <1>1, <2>2, <2>3 DEF SameHolders
  <2>5. gets' \in 0..MaxGets
    BY <2>1 DEF Fl!Stat, FlacTypes, FlacConfigured
  <2>6. Shelved
    BY <2>1, ShelfKept DEF Fl!Stat
  <2> QED BY <2>1, <2>4, <2>5, <2>6, GetMoves DEF Fl!Stat
<1>3. CASE Fl!Look(g) \/ Fl!WaitOver(g) \/ Fl!GiveUp(g)
  <2>1. \E pc \in {"hit", "join", "leave"} : Fl!To(g, pc) /\ (pc = "leave" <=> get[g].pc \in {"wait", "leave"})
    BY <1>3 DEF Fl!Look, Fl!WaitOver, Fl!GiveUp
  <2>2. SameHolders /\ get' \in [Getters -> Requests]
    BY <1>1, <2>1 DEF SameHolders, Fl!To, Requests
  <2>3. UNCHANGED <<cur, out, inflight, job, jobs, closed, dir, gets>>
    BY <1>3 DEF Fl!Look, Fl!WaitOver, Fl!GiveUp
  <2>4. Shelved /\ gets' \in 0..MaxGets
    BY <2>3, ShelfKept DEF FlacTypes
  <2> QED BY <2>2, <2>3, <2>4, GetMoves
<1>4. CASE Fl!Hit(g) \/ Fl!Refused(g)
  <2>1. get' = [get EXCEPT ![g] = Fl!Idle] /\ get[g].pc \in {"hit", "join"}
    BY <1>4 DEF Fl!Hit, Fl!Refused, Fl!Return
  <2>2. SameHolders /\ get' \in [Getters -> Requests]
    BY <1>1, <2>1 DEF SameHolders
  <2>3. UNCHANGED <<cur, inflight, job, jobs, closed, dir, gets>>
    BY <1>4 DEF Fl!Hit, Fl!Refused
  <2>4. gets' \in 0..MaxGets /\ dir \in BOOLEAN
    BY <2>3 DEF FlacTypes
  <2>5. out' = out \/ (out' = Fl!Touched(get[g].key) /\ ~closed)
    BY <1>4 DEF Fl!Hit, Fl!Refused
  <2>6. Shelved
    <3>1. CASE out' = out
      BY <3>1, ShelfKept
    <3>2. CASE out' = Fl!Touched(get[g].key)
      BY <1>1, <3>2, Reordered, ShelfFrom
    <3> QED BY <2>5, <3>1, <3>2
  <2>7. dir \/ out' = out
    BY <2>5 DEF OnDisk
  <2> QED BY <2>2, <2>3, <2>4, <2>6, <2>7, GetMoves
<1> QED BY <1>2, <1>3, <1>4

(* A close cancels every conversion in flight. *)
LEMMA CloseBegins == ASSUME FlacConfigured, FlacInv, Fl!CloseBegin PROVE FlacInv'
<1> USE DEF FlacInv
<1>1. /\ job' = [i \in 1..MaxJobs |-> IF \E k \in Fl!Keys : inflight[k] = i THEN [job[i] EXCEPT !.canceled = TRUE] ELSE job[i]]
      /\ closed' = TRUE /\ UNCHANGED <<cur, out, inflight, jobs, dir, get, gets>>
  BY DEF Fl!CloseBegin
<1>2. job \in [1..MaxJobs -> Jobs] /\ \A i \in 1..jobs : i \in 1..MaxJobs
  BY DEF FlacTypes, FlacConfigured
<1>3. ASSUME NEW i \in 1..MaxJobs
      PROVE  /\ job'[i] \in Jobs /\ job'[i].key = job[i].key /\ job'[i].pc = job[i].pc
             /\ job'[i].waiters = job[i].waiters /\ job'[i].ver = job[i].ver
             /\ job'[i].err = job[i].err
  <2>0. job[i] \in Jobs
    BY <1>2
  <2>1. job'[i] = [job[i] EXCEPT !.canceled = TRUE] \/ job'[i] = job[i]
    BY <1>1
  <2> QED BY <2>0, <2>1 DEF Jobs
<1>4. ASSUME NEW i \in 1..MaxJobs, job[i].canceled PROVE job'[i].canceled
  <2>0. job[i] \in Jobs
    BY <1>2
  <2>1. job'[i] = [job[i] EXCEPT !.canceled = TRUE] \/ job'[i] = job[i]
    BY <1>1
  <2> QED BY <1>4, <2>0, <2>1 DEF Jobs
<1>5. FlacTypes'
  <2>1. (cur \in [Tracks -> Edition] /\ gets \in 0..MaxGets /\ closed \in BOOLEAN /\ dir \in BOOLEAN)'
    BY <1>1 DEF FlacTypes, Edition
  <2>2. (out \in Seq(Results) /\ jobs \in 0..MaxJobs /\ inflight \in [Fl!Keys -> 0..jobs])'
    BY <1>1 DEF FlacTypes, Results, Edition, Fl!Keys
  <2>4. (job \in [1..MaxJobs -> Jobs] /\ get \in [Getters -> Requests])'
    BY <1>1, <1>3 DEF FlacTypes, Jobs, JobPCs, Requests, Fl!Keys, Edition
  <2> QED BY <2>1, <2>2, <2>4 DEF FlacTypes
<1>6. Pins'
  <2>1. ASSUME NEW j \in 1..MaxJobs PROVE Counted(j)'
    <3>1. Cardinality(Holders(j))' = Cardinality(Holders(j)) /\ Counted(j)
      BY <1>1 DEF Holders, Pins
    <3> QED BY <1>1, <1>3, <1>4, <3>1 DEF Counted
  <2>2. ASSUME NEW l \in Fl!Keys PROVE InFlight(l)'
    <3>1. CASE inflight[l] = 0
      BY <1>1, <3>1 DEF InFlight
    <3>2. CASE inflight[l] # 0
      <4>1. inflight[l] \in 1..MaxJobs
        BY <3>2, InFlightIs
      <4> QED BY <1>1, <1>3, <3>2, <4>1 DEF Pins, InFlight
    <3> QED BY <3>1, <3>2
  <2>3. ASSUME NEW h \in Getters PROVE Awaited(h)'
    BY <1>1 DEF Awaited, Pins
  <2> QED BY <2>1, <2>2, <2>3 DEF Pins, Fl!Keys
<1>7. OnDisk'
  <2>1. Fl!VersionHonest' /\ (~dir => closed)'
    BY <1>1 DEF OnDisk, Fl!VersionHonest
  <2>2. (\A j \in 1..MaxJobs : job[j].pc \in {"convert", "rename"} => job[j].ver = job[j].key[2])'
    BY <1>3 DEF OnDisk
  <2>3. (\A j \in 1..MaxJobs : job[j].pc \in {"evict", "end", "gone"} /\ ~job[j].err /\ job[j].waiters > 0 /\ dir
                               => Fl!Cached(job[j].key))'
    BY <1>1, <1>3 DEF OnDisk, Fl!Cached
  <2>4. Fl!LiveJobs' = Fl!LiveJobs
    BY <1>1, <1>2, <1>3 DEF Fl!LiveJobs
  <2>5. Fl!CloseIsFinal'
    BY <1>1, <2>4 DEF OnDisk, Fl!CloseIsFinal
  <2> QED BY <2>1, <2>2, <2>3, <2>5 DEF OnDisk
<1>8. InSlots'
  <2>1. Fl!Slots' = Fl!Slots
    BY <1>1, <1>2, <1>3 DEF Fl!Slots
  <2> QED BY <2>1 DEF InSlots
<1> QED BY <1>5, <1>6, <1>7, <1>8

(* Only the source changes, or only the directory goes, no conversion left. *)
LEMMA RestKeeps ==
    ASSUME FlacConfigured, FlacInv, Fl!CloseEnd \/ \E t \in Tracks : Fl!Replace(t)
    PROVE  FlacInv'
<1> USE DEF FlacInv
<1>1. /\ UNCHANGED <<inflight, job, jobs, closed, get, gets>>
      /\ (cur' = cur /\ out' = <<>> /\ dir' = FALSE /\ closed /\ Fl!LiveJobs = {}) \/ UNCHANGED <<out, dir>>
  BY DEF Fl!CloseEnd, Fl!Replace, Fl!RunsWaited
<1>2. cur' \in [Tracks -> Edition]
  <2>1. CASE Fl!CloseEnd
    BY <2>1 DEF Fl!CloseEnd, FlacTypes
  <2>2. ASSUME NEW t \in Tracks, Fl!Replace(t) PROVE cur' \in [Tracks -> Edition]
    <3>1. cur[t] + 1 \in Edition
      BY <2>2 DEF Fl!Replace, FlacTypes, Edition, FlacConfigured
    <3> QED BY <2>2, <3>1 DEF Fl!Replace, FlacTypes
  <2> QED BY <2>1, <2>2
<1>3. FlacTypes'
  <2>1. (cur \in [Tracks -> Edition] /\ gets \in 0..MaxGets /\ closed \in BOOLEAN /\ dir \in BOOLEAN)'
    BY <1>1, <1>2 DEF FlacTypes, Edition
  <2>2. (jobs \in 0..MaxJobs /\ inflight \in [Fl!Keys -> 0..jobs] /\ job \in [1..MaxJobs -> Jobs] /\ get \in [Getters -> Requests])'
    BY <1>1 DEF FlacTypes, Results, Edition, Fl!Keys, Jobs, JobPCs, Requests
  <2>3. (out \in Seq(Results))'
    <3>1. CASE out' = out
      BY <3>1 DEF FlacTypes, Results, Edition, Fl!Keys
    <3>2. CASE out' = <<>>
      BY <3>2, EmptySeq
    <3> QED BY <1>1, <3>1, <3>2
  <2> QED BY <2>1, <2>2, <2>3 DEF FlacTypes
<1>4. Pins'
  <2>1. ASSUME NEW j \in 1..MaxJobs PROVE Counted(j)'
    <3>1. Cardinality(Holders(j))' = Cardinality(Holders(j)) /\ Counted(j)
      BY <1>1 DEF Holders, Pins
    <3> QED BY <1>1, <3>1 DEF Counted
  <2>2. ASSUME NEW l \in Fl!Keys PROVE InFlight(l)'
    BY <1>1 DEF InFlight, Pins
  <2>3. ASSUME NEW h \in Getters PROVE Awaited(h)'
    BY <1>1 DEF Awaited, Pins
  <2> QED BY <2>1, <2>2, <2>3 DEF Pins, Fl!Keys
<1>5. Fl!LiveJobs' = Fl!LiveJobs /\ Fl!Slots' = Fl!Slots
  BY <1>1 DEF Fl!LiveJobs, Fl!Slots
<1>6. OnDisk'
  <2>1. CASE UNCHANGED <<out, dir>>
    BY <1>1, <1>5, <2>1 DEF OnDisk, Fl!VersionHonest, Fl!CloseIsFinal, Fl!Cached
  <2>2. CASE out' = <<>> /\ dir' = FALSE /\ closed /\ Fl!LiveJobs = {}
    BY <1>1, <1>5, <2>2 DEF OnDisk, Fl!VersionHonest, Fl!CloseIsFinal
  <2> QED BY <1>1, <2>1, <2>2
<1> QED BY <1>3, <1>4, <1>5, <1>6 DEF InSlots

LEMMA FlacStep == ASSUME FlacConfigured PROVE FlacInv /\ [Fl!Next]_Fl!vars => FlacInv'
<1> SUFFICES ASSUME FlacInv, [Fl!Next]_Fl!vars PROVE FlacInv'
  OBVIOUS
<1>1. CASE UNCHANGED Fl!vars
  BY <1>1 DEF Fl!vars, FlacInv, FlacTypes, Pins, Counted, Awaited, InFlight, OnDisk, InSlots, Holders, Fl!VersionHonest,
              Fl!CloseIsFinal, Fl!Cached, Fl!LiveJobs, Fl!Slots, Results, Edition, Fl!Keys, Jobs, JobPCs, Requests
<1>2. ASSUME NEW g \in Getters, Fl!Join(g) PROVE FlacInv'
  <2>1. CASE inflight[get[g].key] = 0
    BY <1>2, <2>1, JoinsNew
  <2>2. CASE inflight[get[g].key] # 0
    BY <1>2, <2>2, JoinsOld
  <2> QED BY <2>1, <2>2
<1>3. ASSUME NEW g \in Getters, (\E t \in Tracks : Fl!Stat(g, t)) \/ Fl!Serve(g) \/ Fl!GiveUp(g) PROVE FlacInv'
  BY <1>2, <1>3, GetKeeps, Leaves DEF Fl!Serve
<1> QED BY <1>1, <1>3, RunKeeps, CloseBegins, RestKeeps DEF Fl!Next

LEMMA FlacHolds == ASSUME FlacConfigured PROVE Fl!Spec => []FlacInv
BY FlacStarts, FlacStep, PTL DEF Fl!Spec

-----------------------------------------------------------------------------
(* The counters, queues and requests keep their types, and no more          *)
(* conversions run than there are slots.                                     *)
THEOREM FlacTypesHold == ASSUME FlacConfigured PROVE Fl!Spec => []Fl!TypeOK
<1>1. FlacInv => Fl!TypeOK
  <2> SUFFICES ASSUME FlacInv PROVE Fl!TypeOK
    OBVIOUS
  <2>1. \A i \in DOMAIN out : out[i].key \in Fl!Keys /\ out[i].ver \in 1..(MaxReplaced + 1)
    <3>1. out \in Seq(Results)
      BY DEF FlacInv, FlacTypes
    <3>2. \A i \in DOMAIN out : out[i] \in Results
      BY <3>1
    <3> QED BY <3>2 DEF Results, Edition
  <2>2. \A i \in 1..MaxJobs : job[i].waiters \in 0..Cardinality(Getters)
    <3> SUFFICES ASSUME NEW i \in 1..MaxJobs PROVE job[i].waiters \in 0..Cardinality(Getters)
      OBVIOUS
    <3>1. job[i].waiters = Cardinality(Holders(i))
      BY DEF FlacInv, Pins, Counted
    <3> QED BY <3>1, HoldersCounted
  <2>3. \A g \in Getters : get[g].pc \in {"idle", "look", "hit", "join", "wait", "leave"}
    BY DEF FlacInv, FlacTypes, Requests
  <2> QED BY <2>1, <2>2, <2>3, FlSize DEF Fl!TypeOK, FlacInv, FlacTypes, Edition, InSlots
<1> QED BY <1>1, FlacHolds, PTL

(* One version of a file is converted once at a time: two conversions of it *)
(* run together only after every request has left the first.                *)
THEOREM FlacConvertedOnce == ASSUME FlacConfigured PROVE Fl!Spec => []Fl!ConvertedOnce
<1>1. FlacInv => Fl!ConvertedOnce
  <2> SUFFICES ASSUME FlacInv, NEW i \in Fl!LiveJobs, NEW j \in Fl!LiveJobs, i # j, job[i].key = job[j].key,
                      ~job[i].canceled, ~job[j].canceled
               PROVE  FALSE
    BY DEF Fl!ConvertedOnce
  <2>1. i \in 1..MaxJobs /\ j \in 1..MaxJobs
    BY DEF FlacInv, FlacTypes, FlacConfigured, Fl!LiveJobs
  <2>2. inflight[job[i].key] = i /\ inflight[job[j].key] = j
    BY <2>1 DEF FlacInv, Pins, Counted, Fl!LiveJobs
  <2> QED BY <2>2
<1> QED BY <1>1, FlacHolds, PTL

(* A result whose requests have not all opened it is still there: no        *)
(* eviction takes it away while the cache is open.                           *)
THEOREM FlacResultStays == ASSUME FlacConfigured PROVE Fl!Spec => []Fl!ResultStays
<1>1. FlacInv => Fl!ResultStays
  <2>1. FlacInv => \A i \in 1..jobs : i \in 1..MaxJobs
    BY DEF FlacInv, FlacTypes, FlacConfigured
  <2>2. FlacInv => (~closed => dir)
    BY DEF FlacInv, OnDisk
  <2> QED BY <2>1, <2>2 DEF Fl!ResultStays, FlacInv, OnDisk
<1> QED BY <1>1, FlacHolds, PTL

(* What is served under a version's name was made from that version.        *)
THEOREM FlacVersionHonest == ASSUME FlacConfigured PROVE Fl!Spec => []Fl!VersionHonest
<1>1. FlacInv => Fl!VersionHonest
  BY DEF FlacInv, OnDisk
<1> QED BY <1>1, FlacHolds, PTL

(* Once the directory is gone, no conversion runs and nothing is in it.     *)
THEOREM FlacCloseIsFinal == ASSUME FlacConfigured PROVE Fl!Spec => []Fl!CloseIsFinal
<1>1. FlacInv => Fl!CloseIsFinal
  BY DEF FlacInv, OnDisk
<1> QED BY <1>1, FlacHolds, PTL

-----------------------------------------------------------------------------
(* Reports (Reports). *)

(* The mark of a recheck is no verdict, and no class a failure attaches says *)
(* that there is no message.                                                  *)
ReportsConfigured == "queued" \notin Wts /\ "none" \notin Classes /\ {"throttle", "other"} \subseteq Classes

Waiting(v) == v.status \in {"deferred", "failed"} \/ (v.status = "processing" /\ v.prev \in {"deferred", "failed"})
Filed(v) == (v.err = "blank" => v.cls = "none") /\ (v.err \notin {"", "blank"} => v.cls # "none")

(* What a statement leaves of a row before the triggers. *)
Fit(v) ==
    /\ v.err = "limit" <=> v.status = "unavailable"
    /\ v.err = "gone" => v.status = "done"
    /\ v.status = "done" /\ v.wts = "queued" => v.err = "gone"
    /\ v.upg => v.wts # "queued"
    /\ v.manual => v.status = "done" /\ v.out = "instrumental"
    /\ v.err = "gone" /\ v.mark => v.wts # "queued"
    /\ Waiting(v) => Filed(v)
    /\ v.status = "failed" \/ (v.status = "processing" /\ v.prev = "failed") => v.err # "" \/ v.tried

RowInv ==
    /\ line \in Rp!Row /\ Fit(line) /\ (line.err = "" => line.cls = Rp!NULL)
    /\ line.status \in {"done", "unavailable"} => ~line.upg

LEMMA StoredIs ==
    ASSUME NEW v \in Rp!Row
    PROVE  /\ Rp!Stored(v) \in Rp!Row
           /\ Rp!Stored(v).status = v.status /\ Rp!Stored(v).prev = v.prev /\ Rp!Stored(v).err = v.err
           /\ Rp!Stored(v).wts = v.wts /\ Rp!Stored(v).tried = v.tried /\ Rp!Stored(v).mark = v.mark
           /\ Rp!Stored(v).manual = v.manual /\ Rp!Stored(v).out = v.out
           /\ (Rp!Stored(v).upg => v.upg /\ v.status \notin {"done", "unavailable"})
           /\ Rp!Stored(v).cls = IF v.status \in {"pending", "done"} \/ v.err = "" THEN Rp!NULL ELSE v.cls
<1> DEFINE h == v.upg /\ v.status \notin {"done", "unavailable"}
           c == IF v.status \in {"pending", "done"} \/ v.err = "" THEN Rp!NULL ELSE v.cls
<1>1. h \in BOOLEAN /\ (h => v.upg /\ v.status \notin {"done", "unavailable"})
  OBVIOUS
<1>2. c \in {Rp!NULL, "none", "miss"} \cup Classes
  BY DEF Rp!Row
<1>3. Rp!Stored(v) = [v EXCEPT !.upg = h, !.cls = c]
  BY DEF Rp!Stored
<1> HIDE DEF h
<1>4. Rp!Stored(v) \in Rp!Row /\ Rp!Stored(v).upg = h /\ Rp!Stored(v).cls = c
  BY <1>1, <1>2, <1>3 DEF Rp!Row
<1>5. /\ Rp!Stored(v).status = v.status /\ Rp!Stored(v).prev = v.prev /\ Rp!Stored(v).err = v.err
      /\ Rp!Stored(v).wts = v.wts /\ Rp!Stored(v).tried = v.tried /\ Rp!Stored(v).mark = v.mark
      /\ Rp!Stored(v).manual = v.manual /\ Rp!Stored(v).out = v.out
  BY <1>3 DEF Rp!Row
<1> QED BY <1>1, <1>4, <1>5

LEMMA SetKeeps == ASSUME NEW v \in Rp!Row, Fit(v), Rp!Set(v) PROVE RowInv'
<1>1. line' = Rp!Stored(v)
  BY DEF Rp!Set
<1>2. line'.cls = v.cls \/ (line'.cls = Rp!NULL /\ (v.status \in {"pending", "done"} \/ v.err = ""))
  BY <1>1, StoredIs
<1>3. line' \in Rp!Row /\ Fit(line')
  BY <1>1, <1>2, StoredIs DEF Fit, Waiting, Filed, Rp!NULL
<1>4. (line'.err = "" => line'.cls = Rp!NULL) /\ (line'.status \in {"done", "unavailable"} => ~line'.upg)
  BY <1>1, StoredIs
<1> QED BY <1>3, <1>4 DEF RowInv

LEMMA UnqueuedIs ==
    ASSUME RowInv
    PROVE  /\ Rp!Unqueued(line) \in Rp!Row /\ (Rp!Unqueued(line).wts = IF line.wts = "queued" THEN Rp!NULL ELSE line.wts)
           /\ Rp!Unqueued(line).status = line.status /\ Rp!Unqueued(line).prev = line.prev /\ Rp!Unqueued(line).err = line.err
           /\ Rp!Unqueued(line).cls = line.cls /\ Rp!Unqueued(line).upg = line.upg /\ Rp!Unqueued(line).tried = line.tried
           /\ Rp!Unqueued(line).mark = line.mark /\ Rp!Unqueued(line).manual = line.manual /\ Rp!Unqueued(line).out = line.out
<1>1. CASE line.wts = "queued"
  BY <1>1 DEF RowInv, Rp!Row, Rp!Unqueued
<1>2. CASE line.wts # "queued"
  BY <1>2 DEF RowInv, Rp!Unqueued
<1> QED BY <1>1, <1>2

LEMMA RowStep == ASSUME ReportsConfigured PROVE RowInv /\ [Rp!Next]_line => RowInv'
<1> SUFFICES ASSUME RowInv, [Rp!Next]_line PROVE RowInv'
  OBVIOUS
<1>0. CASE UNCHANGED line
  BY <1>0 DEF RowInv
<1>1. ASSUME Rp!Dequeue PROVE RowInv'
  <2>1. ASSUME Rp!Set([line EXCEPT !.status = "processing", !.prev = line.status])
        PROVE  RowInv'
    <3> DEFINE v == [line EXCEPT !.status = "processing", !.prev = line.status]
    <3>1. v \in Rp!Row /\ v.status = "processing" /\ v.prev = line.status /\ v.err = line.err /\ v.cls = line.cls /\ v.wts = line.wts /\ v.upg = line.upg /\ v.tried = line.tried /\ v.mark = line.mark /\ v.manual = line.manual /\ v.out = line.out
      BY <1>1 DEF Rp!Dequeue, RowInv, Rp!Row, ReportsConfigured
    <3> HIDE DEF v
    <3>2. Fit(v)
      BY <1>1, <2>1, <3>1 DEF Rp!Dequeue, RowInv, Fit, Waiting, Filed, Rp!NULL, Rp!Held, Rp!Fetching, Rp!Rechecking, ReportsConfigured, Rp!HandProtected
    <3> QED BY <2>1, <3>1, <3>2, SetKeeps DEF v
  <2> QED BY <1>1, <2>1 DEF Rp!Dequeue
<1>2. ASSUME Rp!Release PROVE RowInv'
  <2> DEFINE e == IF line.prev = "pending" /\ line.err # "" THEN "text" ELSE line.err
             v == [line EXCEPT !.status = line.prev, !.err = e]
  <2>1. /\ line.status = "processing" /\ line.prev \in {"pending", "failed", "deferred"}
        /\ line.err \in {"", "blank", "text"}
    BY <1>2 DEF Rp!Release, Rp!Held, RowInv, Fit, Rp!Row
  <2>2. e \in {"", "blank", "text"} /\ (line.prev # "pending" => e = line.err)
    BY <2>1
  <2>3. Rp!Set(v)
    BY <1>2 DEF Rp!Release
  <2> HIDE DEF e
  <2>4. v \in Rp!Row
    BY <2>1, <2>2 DEF RowInv, Rp!Row
  <2>5. /\ v.status = line.prev /\ v.prev = line.prev /\ v.err = e /\ v.cls = line.cls /\ v.wts = line.wts
        /\ v.upg = line.upg /\ v.tried = line.tried /\ v.mark = line.mark
        /\ v.manual = line.manual /\ v.out = line.out
    BY DEF RowInv, Rp!Row
  <2> HIDE DEF v
  <2>6. Fit(v)
    BY <2>1, <2>2, <2>5 DEF RowInv, Fit, Waiting, Filed
  <2> QED BY <2>3, <2>4, <2>6, SetKeeps
<1>3. ASSUME Rp!SetOutcomeType PROVE RowInv'
  <2>1. ASSUME NEW o \in {"synced", "unsynced", "instrumental"}, Rp!Set([line EXCEPT !.out = o])
        PROVE  RowInv'
    <3> DEFINE v == [line EXCEPT !.out = o]
    <3>1. v \in Rp!Row /\ v.status = line.status /\ v.prev = line.prev /\ v.err = line.err /\ v.cls = line.cls /\ v.wts = line.wts /\ v.upg = line.upg /\ v.tried = line.tried /\ v.mark = line.mark /\ v.manual = line.manual /\ v.out = o
      BY <1>3 DEF Rp!SetOutcomeType, RowInv, Rp!Row, ReportsConfigured
    <3> HIDE DEF v
    <3>2. Fit(v)
      BY <1>3, <2>1, <3>1 DEF Rp!SetOutcomeType, RowInv, Fit, Waiting, Filed, Rp!NULL, Rp!Held, Rp!Fetching, Rp!Rechecking, ReportsConfigured, Rp!HandProtected
    <3> QED BY <2>1, <3>1, <3>2, SetKeeps DEF v
  <2> QED BY <1>3, <2>1 DEF Rp!SetOutcomeType
<1>4. ASSUME Rp!SetSyncTier PROVE RowInv'
  <2>1. ASSUME NEW t \in {Rp!NULL, "word", "line", "unsynced"}, Rp!Set([line EXCEPT !.tier = t])
        PROVE  RowInv'
    <3> DEFINE v == [line EXCEPT !.tier = t]
    <3>1. v \in Rp!Row /\ v.status = line.status /\ v.prev = line.prev /\ v.err = line.err /\ v.cls = line.cls /\ v.wts = line.wts /\ v.upg = line.upg /\ v.tried = line.tried /\ v.mark = line.mark /\ v.manual = line.manual /\ v.out = line.out
      BY <1>4 DEF Rp!SetSyncTier, RowInv, Rp!Row, ReportsConfigured
    <3> HIDE DEF v
    <3>2. Fit(v)
      BY <1>4, <2>1, <3>1 DEF Rp!SetSyncTier, RowInv, Fit, Waiting, Filed, Rp!NULL, Rp!Held, Rp!Fetching, Rp!Rechecking, ReportsConfigured, Rp!HandProtected
    <3> QED BY <2>1, <3>1, <3>2, SetKeeps DEF v
  <2> QED BY <1>4, <2>1 DEF Rp!SetSyncTier
<1>5. ASSUME Rp!SetTimingOutcome PROVE RowInv'
  <2>1. ASSUME NEW t \in Verdicts, Rp!Set([line EXCEPT !.tim = t])
        PROVE  RowInv'
    <3> DEFINE v == [line EXCEPT !.tim = t]
    <3>1. v \in Rp!Row /\ v.status = line.status /\ v.prev = line.prev /\ v.err = line.err /\ v.cls = line.cls /\ v.wts = line.wts /\ v.upg = line.upg /\ v.tried = line.tried /\ v.mark = line.mark /\ v.manual = line.manual /\ v.out = line.out
      BY <1>5 DEF Rp!SetTimingOutcome, RowInv, Rp!Row, ReportsConfigured
    <3> HIDE DEF v
    <3>2. Fit(v)
      BY <1>5, <2>1, <3>1 DEF Rp!SetTimingOutcome, RowInv, Fit, Waiting, Filed, Rp!NULL, Rp!Held, Rp!Fetching, Rp!Rechecking, ReportsConfigured, Rp!HandProtected
    <3> QED BY <2>1, <3>1, <3>2, SetKeeps DEF v
  <2> QED BY <1>5, <2>1 DEF Rp!SetTimingOutcome
<1>6. ASSUME Rp!SetWordTimingState PROVE RowInv'
  <2>1. ASSUME NEW s \in Wts, Rp!Set([line EXCEPT !.wts = s])
        PROVE  RowInv'
    <3> DEFINE v == [line EXCEPT !.wts = s]
    <3>1. v \in Rp!Row /\ v.status = line.status /\ v.prev = line.prev /\ v.err = line.err /\ v.cls = line.cls /\ v.wts = s /\ v.upg = line.upg /\ v.tried = line.tried /\ v.mark = line.mark /\ v.manual = line.manual /\ v.out = line.out
      BY <1>6 DEF Rp!SetWordTimingState, RowInv, Rp!Row, ReportsConfigured
    <3> HIDE DEF v
    <3>2. Fit(v)
      BY <1>6, <2>1, <3>1 DEF Rp!SetWordTimingState, RowInv, Fit, Waiting, Filed, Rp!NULL, Rp!Held, Rp!Fetching, Rp!Rechecking, ReportsConfigured, Rp!HandProtected
    <3> QED BY <2>1, <3>1, <3>2, SetKeeps DEF v
  <2> QED BY <1>6, <2>1 DEF Rp!SetWordTimingState
<1>7. ASSUME Rp!ClearWordTimingState PROVE RowInv'
  <2>1. ASSUME Rp!Set([line EXCEPT !.wts = Rp!NULL])
        PROVE  RowInv'
    <3> DEFINE v == [line EXCEPT !.wts = Rp!NULL]
    <3>1. v \in Rp!Row /\ v.status = line.status /\ v.prev = line.prev /\ v.err = line.err /\ v.cls = line.cls /\ v.wts = Rp!NULL /\ v.upg = line.upg /\ v.tried = line.tried /\ v.mark = line.mark /\ v.manual = line.manual /\ v.out = line.out
      BY <1>7 DEF Rp!ClearWordTimingState, RowInv, Rp!Row, ReportsConfigured
    <3> HIDE DEF v
    <3>2. Fit(v)
      BY <1>7, <2>1, <3>1 DEF Rp!ClearWordTimingState, RowInv, Fit, Waiting, Filed, Rp!NULL, Rp!Held, Rp!Fetching, Rp!Rechecking, ReportsConfigured, Rp!HandProtected
    <3> QED BY <2>1, <3>1, <3>2, SetKeeps DEF v
  <2> QED BY <1>7, <2>1 DEF Rp!ClearWordTimingState
<1>8. ASSUME Rp!Complete PROVE RowInv'
  <2>1. ASSUME Rp!Set([line EXCEPT !.status = "done", !.err = "", !.mark = FALSE])
        PROVE  RowInv'
    <3> DEFINE v == [line EXCEPT !.status = "done", !.err = "", !.mark = FALSE]
    <3>1. v \in Rp!Row /\ v.status = "done" /\ v.prev = line.prev /\ v.err = "" /\ v.cls = line.cls /\ v.wts = line.wts /\ v.upg = line.upg /\ v.tried = line.tried /\ v.mark = FALSE /\ v.manual = line.manual /\ v.out = line.out
      BY <1>8 DEF Rp!Complete, RowInv, Rp!Row, ReportsConfigured
    <3> HIDE DEF v
    <3>2. Fit(v)
      BY <1>8, <2>1, <3>1 DEF Rp!Complete, RowInv, Fit, Waiting, Filed, Rp!NULL, Rp!Held, Rp!Fetching, Rp!Rechecking, ReportsConfigured, Rp!HandProtected
    <3> QED BY <2>1, <3>1, <3>2, SetKeeps DEF v
  <2> QED BY <1>8, <2>1 DEF Rp!Complete
<1>9. ASSUME Rp!SettleInstrumental PROVE RowInv'
  <2>1. ASSUME Rp!Set([line EXCEPT !.status = "done", !.out = "instrumental", !.err = ""])
        PROVE  RowInv'
    <3> DEFINE v == [line EXCEPT !.status = "done", !.out = "instrumental", !.err = ""]
    <3>1. v \in Rp!Row /\ v.status = "done" /\ v.prev = line.prev /\ v.err = "" /\ v.cls = line.cls /\ v.wts = line.wts /\ v.upg = line.upg /\ v.tried = line.tried /\ v.mark = line.mark /\ v.manual = line.manual /\ v.out = "instrumental"
      BY <1>9 DEF Rp!SettleInstrumental, RowInv, Rp!Row, ReportsConfigured
    <3> HIDE DEF v
    <3>2. Fit(v)
      BY <1>9, <2>1, <3>1 DEF Rp!SettleInstrumental, RowInv, Fit, Waiting, Filed, Rp!NULL, Rp!Held, Rp!Fetching, Rp!Rechecking, ReportsConfigured, Rp!HandProtected
    <3> QED BY <2>1, <3>1, <3>2, SetKeeps DEF v
  <2> QED BY <1>9, <2>1 DEF Rp!SettleInstrumental
<1>10. ASSUME Rp!SettleGuardRejected PROVE RowInv'
  <2>1. ASSUME Rp!Set([line EXCEPT !.status = "done", !.out = "rejected", !.err = ""])
        PROVE  RowInv'
    <3> DEFINE v == [line EXCEPT !.status = "done", !.out = "rejected", !.err = ""]
    <3>1. v \in Rp!Row /\ v.status = "done" /\ v.prev = line.prev /\ v.err = "" /\ v.cls = line.cls /\ v.wts = line.wts /\ v.upg = line.upg /\ v.tried = line.tried /\ v.mark = line.mark /\ v.manual = line.manual /\ v.out = "rejected"
      BY <1>10 DEF Rp!SettleGuardRejected, RowInv, Rp!Row, ReportsConfigured
    <3> HIDE DEF v
    <3>2. Fit(v)
      BY <1>10, <2>1, <3>1 DEF Rp!SettleGuardRejected, RowInv, Fit, Waiting, Filed, Rp!NULL, Rp!Held, Rp!Fetching, Rp!Rechecking, ReportsConfigured, Rp!HandProtected
    <3> QED BY <2>1, <3>1, <3>2, SetKeeps DEF v
  <2> QED BY <1>10, <2>1 DEF Rp!SettleGuardRejected
<1>11. ASSUME Rp!SettleBlocked PROVE RowInv'
  <2>1. ASSUME Rp!Set([line EXCEPT !.status = "done", !.out = "blocked", !.err = "", !.tier = Rp!NULL, !.tim = Rp!NULL, !.wts = Rp!NULL])
        PROVE  RowInv'
    <3> DEFINE v == [line EXCEPT !.status = "done", !.out = "blocked", !.err = "", !.tier = Rp!NULL, !.tim = Rp!NULL, !.wts = Rp!NULL]
    <3>1. v \in Rp!Row /\ v.status = "done" /\ v.prev = line.prev /\ v.err = "" /\ v.cls = line.cls /\ v.wts = Rp!NULL /\ v.upg = line.upg /\ v.tried = line.tried /\ v.mark = line.mark /\ v.manual = line.manual /\ v.out = "blocked"
      BY <1>11 DEF Rp!SettleBlocked, RowInv, Rp!Row, ReportsConfigured
    <3> HIDE DEF v
    <3>2. Fit(v)
      BY <1>11, <2>1, <3>1 DEF Rp!SettleBlocked, RowInv, Fit, Waiting, Filed, Rp!NULL, Rp!Held, Rp!Fetching, Rp!Rechecking, ReportsConfigured, Rp!HandProtected
    <3> QED BY <2>1, <3>1, <3>2, SetKeeps DEF v
  <2> QED BY <1>11, <2>1 DEF Rp!SettleBlocked
<1>12. ASSUME Rp!Fail PROVE RowInv'
  <2>1. ASSUME NEW e \in {"", "blank", "text"}, NEW c \in Classes, Rp!Set([line EXCEPT !.status = "failed", !.tried = TRUE, !.err = e, !.cls = Rp!storedClass(e, c)])
        PROVE  RowInv'
    <3> DEFINE v == [line EXCEPT !.status = "failed", !.tried = TRUE, !.err = e, !.cls = Rp!storedClass(e, c)]
    <3>1. v \in Rp!Row /\ v.status = "failed" /\ v.prev = line.prev /\ v.err = e /\ v.cls = Rp!storedClass(e, c) /\ v.wts = line.wts /\ v.upg = line.upg /\ v.tried = TRUE /\ v.mark = line.mark /\ v.manual = line.manual /\ v.out = line.out
      BY <1>12 DEF Rp!Fail, RowInv, Rp!Row, ReportsConfigured, Rp!storedClass
    <3> HIDE DEF v
    <3>2. Fit(v)
      BY <1>12, <2>1, <3>1 DEF Rp!Fail, RowInv, Fit, Waiting, Filed, Rp!NULL, Rp!Held, Rp!Fetching, Rp!Rechecking, ReportsConfigured, Rp!HandProtected, Rp!Failed, Rp!storedClass
    <3> QED BY <2>1, <3>1, <3>2, SetKeeps DEF v
  <2> QED BY <1>12, <2>1 DEF Rp!Fail, Rp!Failed, Rp!storedClass
<1>13. ASSUME Rp!Defer PROVE RowInv'
  <2>1. ASSUME Rp!Set([line EXCEPT !.status = "deferred", !.err = "text", !.cls = Rp!storedClass("text", "miss")])
        PROVE  RowInv'
    <3> DEFINE v == [line EXCEPT !.status = "deferred", !.err = "text", !.cls = Rp!storedClass("text", "miss")]
    <3>1. v \in Rp!Row /\ v.status = "deferred" /\ v.prev = line.prev /\ v.err = "text" /\ v.cls = Rp!storedClass("text", "miss") /\ v.wts = line.wts /\ v.upg = line.upg /\ v.tried = line.tried /\ v.mark = line.mark /\ v.manual = line.manual /\ v.out = line.out
      BY <1>13 DEF Rp!Defer, RowInv, Rp!Row, ReportsConfigured, Rp!storedClass
    <3> HIDE DEF v
    <3>2. Fit(v)
      BY <1>13, <2>1, <3>1 DEF Rp!Defer, RowInv, Fit, Waiting, Filed, Rp!NULL, Rp!Held, Rp!Fetching, Rp!Rechecking, ReportsConfigured, Rp!HandProtected, Rp!storedClass
    <3> QED BY <2>1, <3>1, <3>2, SetKeeps DEF v
  <2> QED BY <1>13, <2>1 DEF Rp!Defer, Rp!storedClass
<1>14. ASSUME Rp!DeferRefused PROVE RowInv'
  <2>1. ASSUME Rp!Set([line EXCEPT !.status = "deferred", !.err = "text", !.cls = Rp!storedClass("text", "throttle")])
        PROVE  RowInv'
    <3> DEFINE v == [line EXCEPT !.status = "deferred", !.err = "text", !.cls = Rp!storedClass("text", "throttle")]
    <3>1. v \in Rp!Row /\ v.status = "deferred" /\ v.prev = line.prev /\ v.err = "text" /\ v.cls = Rp!storedClass("text", "throttle") /\ v.wts = line.wts /\ v.upg = line.upg /\ v.tried = line.tried /\ v.mark = line.mark /\ v.manual = line.manual /\ v.out = line.out
      BY <1>14 DEF Rp!DeferRefused, RowInv, Rp!Row, ReportsConfigured, Rp!storedClass
    <3> HIDE DEF v
    <3>2. Fit(v)
      BY <1>14, <2>1, <3>1 DEF Rp!DeferRefused, RowInv, Fit, Waiting, Filed, Rp!NULL, Rp!Held, Rp!Fetching, Rp!Rechecking, ReportsConfigured, Rp!HandProtected, Rp!storedClass
    <3> QED BY <2>1, <3>1, <3>2, SetKeeps DEF v
  <2> QED BY <1>14, <2>1 DEF Rp!DeferRefused, Rp!storedClass
<1>15. ASSUME Rp!RetireMiss PROVE RowInv'
  <2>1. ASSUME Rp!Set([line EXCEPT !.status = "unavailable", !.err = "limit", !.cls = "miss"])
        PROVE  RowInv'
    <3> DEFINE v == [line EXCEPT !.status = "unavailable", !.err = "limit", !.cls = "miss"]
    <3>1. v \in Rp!Row /\ v.status = "unavailable" /\ v.prev = line.prev /\ v.err = "limit" /\ v.cls = "miss" /\ v.wts = line.wts /\ v.upg = line.upg /\ v.tried = line.tried /\ v.mark = line.mark /\ v.manual = line.manual /\ v.out = line.out
      BY <1>15 DEF Rp!RetireMiss, RowInv, Rp!Row, ReportsConfigured
    <3> HIDE DEF v
    <3>2. Fit(v)
      BY <1>15, <2>1, <3>1 DEF Rp!RetireMiss, RowInv, Fit, Waiting, Filed, Rp!NULL, Rp!Held, Rp!Fetching, Rp!Rechecking, ReportsConfigured, Rp!HandProtected
    <3> QED BY <2>1, <3>1, <3>2, SetKeeps DEF v
  <2> QED BY <1>15, <2>1 DEF Rp!RetireMiss
<1>16. ASSUME Rp!MarkWordRecheckQueued PROVE RowInv'
  <2>1. ASSUME Rp!Set([line EXCEPT !.status = "deferred", !.err = "", !.wts = "queued", !.tried = FALSE])
        PROVE  RowInv'
    <3> DEFINE v == [line EXCEPT !.status = "deferred", !.err = "", !.wts = "queued", !.tried = FALSE]
    <3>1. v \in Rp!Row /\ v.status = "deferred" /\ v.prev = line.prev /\ v.err = "" /\ v.cls = line.cls /\ v.wts = "queued" /\ v.upg = line.upg /\ v.tried = FALSE /\ v.mark = line.mark /\ v.manual = line.manual /\ v.out = line.out
      BY <1>16 DEF Rp!MarkWordRecheckQueued, RowInv, Rp!Row, ReportsConfigured
    <3> HIDE DEF v
    <3>2. Fit(v)
      BY <1>16, <2>1, <3>1 DEF Rp!MarkWordRecheckQueued, RowInv, Fit, Waiting, Filed, Rp!NULL, Rp!Held, Rp!Fetching, Rp!Rechecking, ReportsConfigured, Rp!HandProtected
    <3> QED BY <2>1, <3>1, <3>2, SetKeeps DEF v
  <2> QED BY <1>16, <2>1 DEF Rp!MarkWordRecheckQueued
<1>17. ASSUME Rp!SettleWordRecheck PROVE RowInv'
  <2>1. ASSUME NEW s \in Wts, Rp!Set([line EXCEPT !.status = "done", !.err = "", !.wts = s])
        PROVE  RowInv'
    <3> DEFINE v == [line EXCEPT !.status = "done", !.err = "", !.wts = s]
    <3>1. v \in Rp!Row /\ v.status = "done" /\ v.prev = line.prev /\ v.err = "" /\ v.cls = line.cls /\ v.wts = s /\ v.upg = line.upg /\ v.tried = line.tried /\ v.mark = line.mark /\ v.manual = line.manual /\ v.out = line.out
      BY <1>17 DEF Rp!SettleWordRecheck, RowInv, Rp!Row, ReportsConfigured
    <3> HIDE DEF v
    <3>2. Fit(v)
      BY <1>17, <2>1, <3>1 DEF Rp!SettleWordRecheck, RowInv, Fit, Waiting, Filed, Rp!NULL, Rp!Held, Rp!Fetching, Rp!Rechecking, ReportsConfigured, Rp!HandProtected
    <3> QED BY <2>1, <3>1, <3>2, SetKeeps DEF v
  <2> QED BY <1>17, <2>1 DEF Rp!SettleWordRecheck
<1>18. ASSUME Rp!DeferWordRecheck PROVE RowInv'
  <2>1. ASSUME Rp!Set([line EXCEPT !.status = "done", !.err = "", !.wts = Rp!NULL])
        PROVE  RowInv'
    <3> DEFINE v == [line EXCEPT !.status = "done", !.err = "", !.wts = Rp!NULL]
    <3>1. v \in Rp!Row /\ v.status = "done" /\ v.prev = line.prev /\ v.err = "" /\ v.cls = line.cls /\ v.wts = Rp!NULL /\ v.upg = line.upg /\ v.tried = line.tried /\ v.mark = line.mark /\ v.manual = line.manual /\ v.out = line.out
      BY <1>18 DEF Rp!DeferWordRecheck, RowInv, Rp!Row, ReportsConfigured
    <3> HIDE DEF v
    <3>2. Fit(v)
      BY <1>18, <2>1, <3>1 DEF Rp!DeferWordRecheck, RowInv, Fit, Waiting, Filed, Rp!NULL, Rp!Held, Rp!Fetching, Rp!Rechecking, ReportsConfigured, Rp!HandProtected
    <3> QED BY <2>1, <3>1, <3>2, SetKeeps DEF v
  <2>2. ASSUME NEW c \in Classes, Rp!Set([line EXCEPT !.status = "deferred", !.err = "text", !.cls = c])
        PROVE  RowInv'
    <3> DEFINE v == [line EXCEPT !.status = "deferred", !.err = "text", !.cls = c]
    <3>1. v \in Rp!Row /\ v.status = "deferred" /\ v.prev = line.prev /\ v.err = "text" /\ v.cls = c /\ v.wts = line.wts /\ v.upg = line.upg /\ v.tried = line.tried /\ v.mark = line.mark /\ v.manual = line.manual /\ v.out = line.out
      BY <1>18 DEF Rp!DeferWordRecheck, RowInv, Rp!Row, ReportsConfigured
    <3> HIDE DEF v
    <3>2. Fit(v)
      BY <1>18, <2>2, <3>1 DEF Rp!DeferWordRecheck, RowInv, Fit, Waiting, Filed, Rp!NULL, Rp!Held, Rp!Fetching, Rp!Rechecking, ReportsConfigured, Rp!HandProtected
    <3> QED BY <2>2, <3>1, <3>2, SetKeeps DEF v
  <2> QED BY <1>18, <2>1, <2>2 DEF Rp!DeferWordRecheck
<1>19. ASSUME Rp!RetryWordRecheckWrite PROVE RowInv'
  <2>1. ASSUME Rp!Set([line EXCEPT !.status = "deferred", !.err = "text", !.cls = "other"])
        PROVE  RowInv'
    <3> DEFINE v == [line EXCEPT !.status = "deferred", !.err = "text", !.cls = "other"]
    <3>1. v \in Rp!Row /\ v.status = "deferred" /\ v.prev = line.prev /\ v.err = "text" /\ v.cls = "other" /\ v.wts = line.wts /\ v.upg = line.upg /\ v.tried = line.tried /\ v.mark = line.mark /\ v.manual = line.manual /\ v.out = line.out
      BY <1>19 DEF Rp!RetryWordRecheckWrite, RowInv, Rp!Row, ReportsConfigured
    <3> HIDE DEF v
    <3>2. Fit(v)
      BY <1>19, <2>1, <3>1 DEF Rp!RetryWordRecheckWrite, RowInv, Fit, Waiting, Filed, Rp!NULL, Rp!Held, Rp!Fetching, Rp!Rechecking, ReportsConfigured, Rp!HandProtected
    <3> QED BY <2>1, <3>1, <3>2, SetKeeps DEF v
  <2> QED BY <1>19, <2>1 DEF Rp!RetryWordRecheckWrite
<1>20. ASSUME Rp!MarkUpgradeQueued PROVE RowInv'
  <2>1. ASSUME Rp!Set([line EXCEPT !.status = "pending", !.err = "", !.upg = TRUE, !.tried = FALSE])
        PROVE  RowInv'
    <3> DEFINE v == [line EXCEPT !.status = "pending", !.err = "", !.upg = TRUE, !.tried = FALSE]
    <3>1. v \in Rp!Row /\ v.status = "pending" /\ v.prev = line.prev /\ v.err = "" /\ v.cls = line.cls /\ v.wts = line.wts /\ v.upg = TRUE /\ v.tried = FALSE /\ v.mark = line.mark /\ v.manual = line.manual /\ v.out = line.out
      BY <1>20 DEF Rp!MarkUpgradeQueued, RowInv, Rp!Row, ReportsConfigured
    <3> HIDE DEF v
    <3>2. Fit(v)
      BY <1>20, <2>1, <3>1 DEF Rp!MarkUpgradeQueued, RowInv, Fit, Waiting, Filed, Rp!NULL, Rp!Held, Rp!Fetching, Rp!Rechecking, ReportsConfigured, Rp!HandProtected
    <3> QED BY <2>1, <3>1, <3>2, SetKeeps DEF v
  <2> QED BY <1>20, <2>1 DEF Rp!MarkUpgradeQueued
<1>21. ASSUME Rp!SettleUpgradeTrip PROVE RowInv'
  <2>1. ASSUME Rp!Set([line EXCEPT !.status = "done", !.err = "", !.tried = FALSE])
        PROVE  RowInv'
    <3> DEFINE v == [line EXCEPT !.status = "done", !.err = "", !.tried = FALSE]
    <3>1. v \in Rp!Row /\ v.status = "done" /\ v.prev = line.prev /\ v.err = "" /\ v.cls = line.cls /\ v.wts = line.wts /\ v.upg = line.upg /\ v.tried = FALSE /\ v.mark = line.mark /\ v.manual = line.manual /\ v.out = line.out
      BY <1>21 DEF Rp!SettleUpgradeTrip, RowInv, Rp!Row, ReportsConfigured
    <3> HIDE DEF v
    <3>2. Fit(v)
      BY <1>21, <2>1, <3>1 DEF Rp!SettleUpgradeTrip, RowInv, Fit, Waiting, Filed, Rp!NULL, Rp!Held, Rp!Fetching, Rp!Rechecking, ReportsConfigured, Rp!HandProtected
    <3> QED BY <2>1, <3>1, <3>2, SetKeeps DEF v
  <2> QED BY <1>21, <2>1 DEF Rp!SettleUpgradeTrip
<1>22. ASSUME Rp!SettleGoneUpgradeTrip PROVE RowInv'
  <2>1. ASSUME Rp!Set([line EXCEPT !.status = "done", !.err = "gone", !.tried = FALSE])
        PROVE  RowInv'
    <3> DEFINE v == [line EXCEPT !.status = "done", !.err = "gone", !.tried = FALSE]
    <3>1. v \in Rp!Row /\ v.status = "done" /\ v.prev = line.prev /\ v.err = "gone" /\ v.cls = line.cls /\ v.wts = line.wts /\ v.upg = line.upg /\ v.tried = FALSE /\ v.mark = line.mark /\ v.manual = line.manual /\ v.out = line.out
      BY <1>22 DEF Rp!SettleGoneUpgradeTrip, RowInv, Rp!Row, ReportsConfigured
    <3> HIDE DEF v
    <3>2. Fit(v)
      BY <1>22, <2>1, <3>1 DEF Rp!SettleGoneUpgradeTrip, RowInv, Fit, Waiting, Filed, Rp!NULL, Rp!Held, Rp!Fetching, Rp!Rechecking, ReportsConfigured, Rp!HandProtected
    <3> QED BY <2>1, <3>1, <3>2, SetKeeps DEF v
  <2>2. ASSUME Rp!Set([line EXCEPT !.status = "done", !.err = "", !.mark = TRUE, !.tried = FALSE])
        PROVE  RowInv'
    <3> DEFINE v == [line EXCEPT !.status = "done", !.err = "", !.mark = TRUE, !.tried = FALSE]
    <3>1. v \in Rp!Row /\ v.status = "done" /\ v.prev = line.prev /\ v.err = "" /\ v.cls = line.cls /\ v.wts = line.wts /\ v.upg = line.upg /\ v.tried = FALSE /\ v.mark = TRUE /\ v.manual = line.manual /\ v.out = line.out
      BY <1>22 DEF Rp!SettleGoneUpgradeTrip, RowInv, Rp!Row, ReportsConfigured
    <3> HIDE DEF v
    <3>2. Fit(v)
      BY <1>22, <2>2, <3>1 DEF Rp!SettleGoneUpgradeTrip, RowInv, Fit, Waiting, Filed, Rp!NULL, Rp!Held, Rp!Fetching, Rp!Rechecking, ReportsConfigured, Rp!HandProtected
    <3> QED BY <2>2, <3>1, <3>2, SetKeeps DEF v
  <2> QED BY <1>22, <2>1, <2>2 DEF Rp!SettleGoneUpgradeTrip
<1>23. ASSUME Rp!retireUnresolvable PROVE RowInv'
  <2>1. ASSUME Rp!Set([line EXCEPT !.status = "done", !.err = "gone", !.mark = FALSE])
        PROVE  RowInv'
    <3> DEFINE v == [line EXCEPT !.status = "done", !.err = "gone", !.mark = FALSE]
    <3>1. v \in Rp!Row /\ v.status = "done" /\ v.prev = line.prev /\ v.err = "gone" /\ v.cls = line.cls /\ v.wts = line.wts /\ v.upg = line.upg /\ v.tried = line.tried /\ v.mark = FALSE /\ v.manual = line.manual /\ v.out = line.out
      BY <1>23 DEF Rp!retireUnresolvable, RowInv, Rp!Row, ReportsConfigured
    <3> HIDE DEF v
    <3>2. Fit(v)
      BY <1>23, <2>1, <3>1 DEF Rp!retireUnresolvable, RowInv, Fit, Waiting, Filed, Rp!NULL, Rp!Held, Rp!Fetching, Rp!Rechecking, ReportsConfigured, Rp!HandProtected
    <3> QED BY <2>1, <3>1, <3>2, SetKeeps DEF v
  <2> QED BY <1>23, <2>1 DEF Rp!retireUnresolvable
<1>24. ASSUME Rp!Resurrect PROVE RowInv'
  <2>1. ASSUME Rp!Set([Rp!Unqueued(line) EXCEPT !.status = "pending", !.err = "", !.out = Rp!NULL, !.tim = Rp!NULL, !.tried = FALSE])
        PROVE  RowInv'
    <3> DEFINE v == [Rp!Unqueued(line) EXCEPT !.status = "pending", !.err = "", !.out = Rp!NULL, !.tim = Rp!NULL, !.tried = FALSE]
    <3>1. v \in Rp!Row /\ v.status = "pending" /\ v.prev = Rp!Unqueued(line).prev /\ v.err = "" /\ v.cls = Rp!Unqueued(line).cls /\ v.wts = Rp!Unqueued(line).wts /\ v.upg = Rp!Unqueued(line).upg /\ v.tried = FALSE /\ v.mark = Rp!Unqueued(line).mark /\ v.manual = Rp!Unqueued(line).manual /\ v.out = Rp!NULL
      BY UnqueuedIs DEF Rp!Row, ReportsConfigured
    <3> HIDE DEF v
    <3>2. Fit(v)
      BY <1>24, <2>1, <3>1, UnqueuedIs DEF Rp!Resurrect, RowInv, Fit, Waiting, Filed, Rp!NULL, Rp!Held, Rp!Fetching, Rp!Rechecking, ReportsConfigured, Rp!HandProtected
    <3> QED BY <2>1, <3>1, <3>2, SetKeeps DEF v
  <2> QED BY <1>24, <2>1 DEF Rp!Resurrect
<1>25. ASSUME Rp!Unretire PROVE RowInv'
  <2>1. ASSUME Rp!Set([line EXCEPT !.err = "", !.mark = FALSE])
        PROVE  RowInv'
    <3> DEFINE v == [line EXCEPT !.err = "", !.mark = FALSE]
    <3>1. v \in Rp!Row /\ v.status = line.status /\ v.prev = line.prev /\ v.err = "" /\ v.cls = line.cls /\ v.wts = line.wts /\ v.upg = line.upg /\ v.tried = line.tried /\ v.mark = FALSE /\ v.manual = line.manual /\ v.out = line.out
      BY <1>25 DEF Rp!Unretire, RowInv, Rp!Row, ReportsConfigured
    <3> HIDE DEF v
    <3>2. Fit(v)
      BY <1>25, <2>1, <3>1 DEF Rp!Unretire, RowInv, Fit, Waiting, Filed, Rp!NULL, Rp!Held, Rp!Fetching, Rp!Rechecking, ReportsConfigured, Rp!HandProtected, Rp!Unretirable
    <3> QED BY <2>1, <3>1, <3>2, SetKeeps DEF v
  <2> QED BY <1>25, <2>1 DEF Rp!Unretire, Rp!Unretirable
<1>26. ASSUME Rp!SetTimingOutcomeIfIdle PROVE RowInv'
  <2>1. ASSUME NEW t \in Verdicts, Rp!Set([line EXCEPT !.tim = t])
        PROVE  RowInv'
    <3> DEFINE v == [line EXCEPT !.tim = t]
    <3>1. v \in Rp!Row /\ v.status = line.status /\ v.prev = line.prev /\ v.err = line.err /\ v.cls = line.cls /\ v.wts = line.wts /\ v.upg = line.upg /\ v.tried = line.tried /\ v.mark = line.mark /\ v.manual = line.manual /\ v.out = line.out
      BY <1>26 DEF Rp!SetTimingOutcomeIfIdle, RowInv, Rp!Row, ReportsConfigured
    <3> HIDE DEF v
    <3>2. Fit(v)
      BY <1>26, <2>1, <3>1 DEF Rp!SetTimingOutcomeIfIdle, RowInv, Fit, Waiting, Filed, Rp!NULL, Rp!Held, Rp!Fetching, Rp!Rechecking, ReportsConfigured, Rp!HandProtected
    <3> QED BY <2>1, <3>1, <3>2, SetKeeps DEF v
  <2>2. ASSUME NEW t \in Verdicts, NEW o \in {Rp!NULL, "unsynced"}, ~Rp!HandProtected, Rp!Set([line EXCEPT !.tim = t, !.out = o, !.tier = Rp!NULL])
        PROVE  RowInv'
    <3> DEFINE v == [line EXCEPT !.tim = t, !.out = o, !.tier = Rp!NULL]
    <3>1. v \in Rp!Row /\ v.status = line.status /\ v.prev = line.prev /\ v.err = line.err /\ v.cls = line.cls /\ v.wts = line.wts /\ v.upg = line.upg /\ v.tried = line.tried /\ v.mark = line.mark /\ v.manual = line.manual /\ v.out = o
      BY <1>26 DEF Rp!SetTimingOutcomeIfIdle, RowInv, Rp!Row, ReportsConfigured
    <3> HIDE DEF v
    <3>2. Fit(v)
      BY <1>26, <2>2, <3>1 DEF Rp!SetTimingOutcomeIfIdle, RowInv, Fit, Waiting, Filed, Rp!NULL, Rp!Held, Rp!Fetching, Rp!Rechecking, ReportsConfigured, Rp!HandProtected
    <3> QED BY <2>2, <3>1, <3>2, SetKeeps DEF v
  <2> QED BY <1>26, <2>1, <2>2 DEF Rp!SetTimingOutcomeIfIdle
<1>27. ASSUME Rp!SetSyncTierIfPending PROVE RowInv'
  <2>1. ASSUME NEW t \in {"word", "line", "unsynced"}, Rp!Set([line EXCEPT !.tier = t])
        PROVE  RowInv'
    <3> DEFINE v == [line EXCEPT !.tier = t]
    <3>1. v \in Rp!Row /\ v.status = line.status /\ v.prev = line.prev /\ v.err = line.err /\ v.cls = line.cls /\ v.wts = line.wts /\ v.upg = line.upg /\ v.tried = line.tried /\ v.mark = line.mark /\ v.manual = line.manual /\ v.out = line.out
      BY <1>27 DEF Rp!SetSyncTierIfPending, RowInv, Rp!Row, ReportsConfigured
    <3> HIDE DEF v
    <3>2. Fit(v)
      BY <1>27, <2>1, <3>1 DEF Rp!SetSyncTierIfPending, RowInv, Fit, Waiting, Filed, Rp!NULL, Rp!Held, Rp!Fetching, Rp!Rechecking, ReportsConfigured, Rp!HandProtected
    <3> QED BY <2>1, <3>1, <3>2, SetKeeps DEF v
  <2> QED BY <1>27, <2>1 DEF Rp!SetSyncTierIfPending
<1>28. ASSUME Rp!ApplyRemediated PROVE RowInv'
  <2>1. ASSUME line.err = "", Rp!Set([line EXCEPT !.status = "deferred", !.out = Rp!NULL, !.tier = Rp!NULL, !.wts = Rp!NULL, !.tim = Rp!NULL, !.tried = FALSE])
        PROVE  RowInv'
    <3> DEFINE v == [line EXCEPT !.status = "deferred", !.out = Rp!NULL, !.tier = Rp!NULL, !.wts = Rp!NULL, !.tim = Rp!NULL, !.tried = FALSE]
    <3>1. v \in Rp!Row /\ v.status = "deferred" /\ v.prev = line.prev /\ v.err = line.err /\ v.cls = line.cls /\ v.wts = Rp!NULL /\ v.upg = line.upg /\ v.tried = FALSE /\ v.mark = line.mark /\ v.manual = line.manual /\ v.out = Rp!NULL
      BY <1>28 DEF Rp!ApplyRemediated, RowInv, Rp!Row, ReportsConfigured
    <3> HIDE DEF v
    <3>2. Fit(v)
      BY <1>28, <2>1, <3>1 DEF Rp!ApplyRemediated, RowInv, Fit, Waiting, Filed, Rp!NULL, Rp!Held, Rp!Fetching, Rp!Rechecking, ReportsConfigured, Rp!HandProtected
    <3> QED BY <2>1, <3>1, <3>2, SetKeeps DEF v
  <2>2. ASSUME Rp!Set([line EXCEPT !.out = "unsynced", !.tier = Rp!NULL])
        PROVE  RowInv'
    <3> DEFINE v == [line EXCEPT !.out = "unsynced", !.tier = Rp!NULL]
    <3>1. v \in Rp!Row /\ v.status = line.status /\ v.prev = line.prev /\ v.err = line.err /\ v.cls = line.cls /\ v.wts = line.wts /\ v.upg = line.upg /\ v.tried = line.tried /\ v.mark = line.mark /\ v.manual = line.manual /\ v.out = "unsynced"
      BY <1>28 DEF Rp!ApplyRemediated, RowInv, Rp!Row, ReportsConfigured
    <3> HIDE DEF v
    <3>2. Fit(v)
      BY <1>28, <2>2, <3>1 DEF Rp!ApplyRemediated, RowInv, Fit, Waiting, Filed, Rp!NULL, Rp!Held, Rp!Fetching, Rp!Rechecking, ReportsConfigured, Rp!HandProtected
    <3> QED BY <2>2, <3>1, <3>2, SetKeeps DEF v
  <2>3. ASSUME NEW t \in {"word", "line"}, Rp!Set([line EXCEPT !.tier = t])
        PROVE  RowInv'
    <3> DEFINE v == [line EXCEPT !.tier = t]
    <3>1. v \in Rp!Row /\ v.status = line.status /\ v.prev = line.prev /\ v.err = line.err /\ v.cls = line.cls /\ v.wts = line.wts /\ v.upg = line.upg /\ v.tried = line.tried /\ v.mark = line.mark /\ v.manual = line.manual /\ v.out = line.out
      BY <1>28 DEF Rp!ApplyRemediated, RowInv, Rp!Row, ReportsConfigured
    <3> HIDE DEF v
    <3>2. Fit(v)
      BY <1>28, <2>3, <3>1 DEF Rp!ApplyRemediated, RowInv, Fit, Waiting, Filed, Rp!NULL, Rp!Held, Rp!Fetching, Rp!Rechecking, ReportsConfigured, Rp!HandProtected
    <3> QED BY <2>3, <3>1, <3>2, SetKeeps DEF v
  <2> QED BY <1>28, <2>1, <2>2, <2>3 DEF Rp!ApplyRemediated
<1>29. ASSUME Rp!MarkManualInstrumental PROVE RowInv'
  <2>1. ASSUME Rp!Set([line EXCEPT !.manual = TRUE, !.status = "done", !.out = "instrumental", !.tier = Rp!NULL, !.wts = Rp!NULL, !.tim = Rp!NULL, !.edited = FALSE, !.upg = FALSE, !.err = ""])
        PROVE  RowInv'
    <3> DEFINE v == [line EXCEPT !.manual = TRUE, !.status = "done", !.out = "instrumental", !.tier = Rp!NULL, !.wts = Rp!NULL, !.tim = Rp!NULL, !.edited = FALSE, !.upg = FALSE, !.err = ""]
    <3>1. v \in Rp!Row /\ v.status = "done" /\ v.prev = line.prev /\ v.err = "" /\ v.cls = line.cls /\ v.wts = Rp!NULL /\ v.upg = FALSE /\ v.tried = line.tried /\ v.mark = line.mark /\ v.manual = TRUE /\ v.out = "instrumental"
      BY <1>29 DEF Rp!MarkManualInstrumental, RowInv, Rp!Row, ReportsConfigured
    <3> HIDE DEF v
    <3>2. Fit(v)
      BY <1>29, <2>1, <3>1 DEF Rp!MarkManualInstrumental, RowInv, Fit, Waiting, Filed, Rp!NULL, Rp!Held, Rp!Fetching, Rp!Rechecking, ReportsConfigured, Rp!HandProtected
    <3> QED BY <2>1, <3>1, <3>2, SetKeeps DEF v
  <2> QED BY <1>29, <2>1 DEF Rp!MarkManualInstrumental
<1>30. ASSUME Rp!UnmarkManualInstrumental PROVE RowInv'
  <2>1. ASSUME Rp!Set([line EXCEPT !.manual = FALSE, !.status = "deferred", !.out = Rp!NULL, !.err = "", !.tried = FALSE])
        PROVE  RowInv'
    <3> DEFINE v == [line EXCEPT !.manual = FALSE, !.status = "deferred", !.out = Rp!NULL, !.err = "", !.tried = FALSE]
    <3>1. v \in Rp!Row /\ v.status = "deferred" /\ v.prev = line.prev /\ v.err = "" /\ v.cls = line.cls /\ v.wts = line.wts /\ v.upg = line.upg /\ v.tried = FALSE /\ v.mark = line.mark /\ v.manual = FALSE /\ v.out = Rp!NULL
      BY <1>30 DEF Rp!UnmarkManualInstrumental, RowInv, Rp!Row, ReportsConfigured
    <3> HIDE DEF v
    <3>2. Fit(v)
      BY <1>30, <2>1, <3>1 DEF Rp!UnmarkManualInstrumental, RowInv, Fit, Waiting, Filed, Rp!NULL, Rp!Held, Rp!Fetching, Rp!Rechecking, ReportsConfigured, Rp!HandProtected
    <3> QED BY <2>1, <3>1, <3>2, SetKeeps DEF v
  <2> QED BY <1>30, <2>1 DEF Rp!UnmarkManualInstrumental
<1>31. ASSUME Rp!SetLyricEdit PROVE RowInv'
  <2>1. ASSUME Rp!Set([line EXCEPT !.edited = TRUE])
        PROVE  RowInv'
    <3> DEFINE v == [line EXCEPT !.edited = TRUE]
    <3>1. v \in Rp!Row /\ v.status = line.status /\ v.prev = line.prev /\ v.err = line.err /\ v.cls = line.cls /\ v.wts = line.wts /\ v.upg = line.upg /\ v.tried = line.tried /\ v.mark = line.mark /\ v.manual = line.manual /\ v.out = line.out
      BY <1>31 DEF Rp!SetLyricEdit, RowInv, Rp!Row, ReportsConfigured
    <3> HIDE DEF v
    <3>2. Fit(v)
      BY <1>31, <2>1, <3>1 DEF Rp!SetLyricEdit, RowInv, Fit, Waiting, Filed, Rp!NULL, Rp!Held, Rp!Fetching, Rp!Rechecking, ReportsConfigured, Rp!HandProtected
    <3> QED BY <2>1, <3>1, <3>2, SetKeeps DEF v
  <2> QED BY <1>31, <2>1 DEF Rp!SetLyricEdit
<1>32. ASSUME Rp!ClearLyricEdit PROVE RowInv'
  <2>1. ASSUME Rp!Set([line EXCEPT !.edited = FALSE])
        PROVE  RowInv'
    <3> DEFINE v == [line EXCEPT !.edited = FALSE]
    <3>1. v \in Rp!Row /\ v.status = line.status /\ v.prev = line.prev /\ v.err = line.err /\ v.cls = line.cls /\ v.wts = line.wts /\ v.upg = line.upg /\ v.tried = line.tried /\ v.mark = line.mark /\ v.manual = line.manual /\ v.out = line.out
      BY <1>32 DEF Rp!ClearLyricEdit, RowInv, Rp!Row, ReportsConfigured
    <3> HIDE DEF v
    <3>2. Fit(v)
      BY <1>32, <2>1, <3>1 DEF Rp!ClearLyricEdit, RowInv, Fit, Waiting, Filed, Rp!NULL, Rp!Held, Rp!Fetching, Rp!Rechecking, ReportsConfigured, Rp!HandProtected
    <3> QED BY <2>1, <3>1, <3>2, SetKeeps DEF v
  <2> QED BY <1>32, <2>1 DEF Rp!ClearLyricEdit
<1>33. ASSUME Rp!Retry PROVE RowInv'
  <2>1. ASSUME Rp!Set([Rp!Unqueued(line) EXCEPT !.status = "pending", !.err = "", !.tried = FALSE])
        PROVE  RowInv'
    <3> DEFINE v == [Rp!Unqueued(line) EXCEPT !.status = "pending", !.err = "", !.tried = FALSE]
    <3>1. v \in Rp!Row /\ v.status = "pending" /\ v.prev = Rp!Unqueued(line).prev /\ v.err = "" /\ v.cls = Rp!Unqueued(line).cls /\ v.wts = Rp!Unqueued(line).wts /\ v.upg = Rp!Unqueued(line).upg /\ v.tried = FALSE /\ v.mark = Rp!Unqueued(line).mark /\ v.manual = Rp!Unqueued(line).manual /\ v.out = Rp!Unqueued(line).out
      BY UnqueuedIs DEF Rp!Row, ReportsConfigured
    <3> HIDE DEF v
    <3>2. Fit(v)
      BY <1>33, <2>1, <3>1, UnqueuedIs DEF Rp!Retry, RowInv, Fit, Waiting, Filed, Rp!NULL, Rp!Held, Rp!Fetching, Rp!Rechecking, ReportsConfigured, Rp!HandProtected
    <3> QED BY <2>1, <3>1, <3>2, SetKeeps DEF v
  <2> QED BY <1>33, <2>1 DEF Rp!Retry
<1>34. ASSUME Rp!RecheckRetired PROVE RowInv'
  <2>1. ASSUME Rp!Set([Rp!Unqueued(line) EXCEPT !.status = "deferred", !.err = ""])
        PROVE  RowInv'
    <3> DEFINE v == [Rp!Unqueued(line) EXCEPT !.status = "deferred", !.err = ""]
    <3>1. v \in Rp!Row /\ v.status = "deferred" /\ v.prev = Rp!Unqueued(line).prev /\ v.err = "" /\ v.cls = Rp!Unqueued(line).cls /\ v.wts = Rp!Unqueued(line).wts /\ v.upg = Rp!Unqueued(line).upg /\ v.tried = Rp!Unqueued(line).tried /\ v.mark = Rp!Unqueued(line).mark /\ v.manual = Rp!Unqueued(line).manual /\ v.out = Rp!Unqueued(line).out
      BY UnqueuedIs DEF Rp!Row, ReportsConfigured
    <3> HIDE DEF v
    <3>2. Fit(v)
      BY <1>34, <2>1, <3>1, UnqueuedIs DEF Rp!RecheckRetired, RowInv, Fit, Waiting, Filed, Rp!NULL, Rp!Held, Rp!Fetching, Rp!Rechecking, ReportsConfigured, Rp!HandProtected
    <3> QED BY <2>1, <3>1, <3>2, SetKeeps DEF v
  <2> QED BY <1>34, <2>1 DEF Rp!RecheckRetired
<1>35. ASSUME Rp!ResetInstrumental PROVE RowInv'
  <2>1. ASSUME Rp!Set([Rp!Unqueued(line) EXCEPT !.status = "deferred", !.out = Rp!NULL, !.err = ""])
        PROVE  RowInv'
    <3> DEFINE v == [Rp!Unqueued(line) EXCEPT !.status = "deferred", !.out = Rp!NULL, !.err = ""]
    <3>1. v \in Rp!Row /\ v.status = "deferred" /\ v.prev = Rp!Unqueued(line).prev /\ v.err = "" /\ v.cls = Rp!Unqueued(line).cls /\ v.wts = Rp!Unqueued(line).wts /\ v.upg = Rp!Unqueued(line).upg /\ v.tried = Rp!Unqueued(line).tried /\ v.mark = Rp!Unqueued(line).mark /\ v.manual = Rp!Unqueued(line).manual /\ v.out = Rp!NULL
      BY UnqueuedIs DEF Rp!Row, ReportsConfigured
    <3> HIDE DEF v
    <3>2. Fit(v)
      BY <1>35, <2>1, <3>1, UnqueuedIs DEF Rp!ResetInstrumental, RowInv, Fit, Waiting, Filed, Rp!NULL, Rp!Held, Rp!Fetching, Rp!Rechecking, ReportsConfigured, Rp!HandProtected
    <3> QED BY <2>1, <3>1, <3>2, SetKeeps DEF v
  <2> QED BY <1>35, <2>1 DEF Rp!ResetInstrumental
<1>36. ASSUME Rp!UnsettleInstrumental PROVE RowInv'
  <2>1. ASSUME Rp!Set([Rp!Unqueued(line) EXCEPT !.status = "deferred", !.out = Rp!NULL, !.err = "text", !.cls = "other"])
        PROVE  RowInv'
    <3> DEFINE v == [Rp!Unqueued(line) EXCEPT !.status = "deferred", !.out = Rp!NULL, !.err = "text", !.cls = "other"]
    <3>1. v \in Rp!Row /\ v.status = "deferred" /\ v.prev = Rp!Unqueued(line).prev /\ v.err = "text" /\ v.cls = "other" /\ v.wts = Rp!Unqueued(line).wts /\ v.upg = Rp!Unqueued(line).upg /\ v.tried = Rp!Unqueued(line).tried /\ v.mark = Rp!Unqueued(line).mark /\ v.manual = Rp!Unqueued(line).manual /\ v.out = Rp!NULL
      BY UnqueuedIs DEF Rp!Row, ReportsConfigured
    <3> HIDE DEF v
    <3>2. Fit(v)
      BY <1>36, <2>1, <3>1, UnqueuedIs DEF Rp!UnsettleInstrumental, RowInv, Fit, Waiting, Filed, Rp!NULL, Rp!Held, Rp!Fetching, Rp!Rechecking, ReportsConfigured, Rp!HandProtected
    <3> QED BY <2>1, <3>1, <3>2, SetKeeps DEF v
  <2> QED BY <1>36, <2>1 DEF Rp!UnsettleInstrumental
<1>37. ASSUME Rp!ReopenDoneRow PROVE RowInv'
  <2>1. ASSUME Rp!Set([Rp!Unqueued(line) EXCEPT !.status = "pending", !.err = "", !.out = Rp!NULL, !.tim = Rp!NULL, !.mark = FALSE, !.tried = FALSE])
        PROVE  RowInv'
    <3> DEFINE v == [Rp!Unqueued(line) EXCEPT !.status = "pending", !.err = "", !.out = Rp!NULL, !.tim = Rp!NULL, !.mark = FALSE, !.tried = FALSE]
    <3>1. v \in Rp!Row /\ v.status = "pending" /\ v.prev = Rp!Unqueued(line).prev /\ v.err = "" /\ v.cls = Rp!Unqueued(line).cls /\ v.wts = Rp!Unqueued(line).wts /\ v.upg = Rp!Unqueued(line).upg /\ v.tried = FALSE /\ v.mark = FALSE /\ v.manual = Rp!Unqueued(line).manual /\ v.out = Rp!NULL
      BY UnqueuedIs DEF Rp!Row, ReportsConfigured
    <3> HIDE DEF v
    <3>2. Fit(v)
      BY <1>37, <2>1, <3>1, UnqueuedIs DEF Rp!ReopenDoneRow, RowInv, Fit, Waiting, Filed, Rp!NULL, Rp!Held, Rp!Fetching, Rp!Rechecking, ReportsConfigured, Rp!HandProtected
    <3> QED BY <2>1, <3>1, <3>2, SetKeeps DEF v
  <2> QED BY <1>37, <2>1 DEF Rp!ReopenDoneRow
<1> QED BY <1>0, <1>1, <1>2, <1>3, <1>4, <1>5, <1>6, <1>7, <1>8, <1>9, <1>10, <1>11, <1>12, <1>13, <1>14, <1>15, <1>16, <1>17, <1>18, <1>19, <1>20, <1>21, <1>22, <1>23, <1>24, <1>25, <1>26, <1>27, <1>28, <1>29, <1>30, <1>31, <1>32, <1>33, <1>34, <1>35, <1>36, <1>37 DEF Rp!Next

LEMMA RowStarts == ASSUME ReportsConfigured PROVE Rp!Init => RowInv
<1> SUFFICES ASSUME Rp!Init PROVE RowInv
  OBVIOUS
<1>1. line \in Rp!Row
  BY DEF Rp!Init, Rp!Row, Rp!NULL
<1>2. /\ line.status = "pending" /\ line.err = "" /\ line.cls = Rp!NULL /\ line.wts = Rp!NULL /\ ~line.upg /\ ~line.mark /\ ~line.manual
      /\ line.prev = "pending"
  BY DEF Rp!Init
<1> QED BY <1>1, <1>2 DEF RowInv, Fit, Waiting, Filed, Rp!NULL

LEMMA RowHolds == ASSUME ReportsConfigured PROVE Rp!Spec => []RowInv
BY RowStarts, RowStep, PTL DEF Rp!Spec

-----------------------------------------------------------------------------
(* SQL conditions, what makes each of them keep a row. *)
SQL == {"T", "F", "N"}

LEMMA Logic ==
    /\ \A b \in BOOLEAN : Rp!Cond(b) \in SQL /\ (Rp!Listed(Rp!Cond(b)) <=> b)
    /\ \A x \in SQL : Rp!Not(x) \in SQL /\ Rp!OrZero(x) \in SQL
                      /\ (Rp!Listed(Rp!Not(x)) <=> x = "F") /\ (Rp!Listed(Rp!Not(Rp!OrZero(x))) <=> ~Rp!Listed(x))
    /\ \A x, y \in SQL : Rp!And(x, y) \in SQL /\ (Rp!Listed(Rp!And(x, y)) <=> Rp!Listed(x) /\ Rp!Listed(y))
    /\ \A x, y \in SQL : Rp!Or(x, y) \in SQL /\ (Rp!Listed(Rp!Or(x, y)) <=> Rp!Listed(x) \/ Rp!Listed(y))
BY DEF SQL, Rp!Cond, Rp!Listed, Rp!Not, Rp!OrZero, Rp!And, Rp!Or

LEMMA Compare ==
    /\ \A a, b : Rp!Eq(a, b) \in SQL /\ (Rp!Listed(Rp!Eq(a, b)) <=> (a # Rp!NULL /\ b # Rp!NULL /\ a = b))
    /\ \A a, S : Rp!In(a, S) \in SQL /\ (Rp!Listed(Rp!In(a, S)) <=> (a # Rp!NULL /\ a \in S))
    /\ \A a : Rp!IsNull(a) \in SQL /\ (Rp!Listed(Rp!IsNull(a)) <=> a = Rp!NULL)
BY DEF SQL, Rp!Cond, Rp!Listed, Rp!Eq, Rp!In, Rp!IsNull

LEMMA Predicates ==
    ASSUME RowInv
    PROVE  /\ Rp!retiredPredicate \in SQL /\ (Rp!Listed(Rp!retiredPredicate) <=> line.err = "gone")
           /\ Rp!Synced \in SQL /\ (Rp!Listed(Rp!Synced) <=> line.out = "synced")
           /\ \A t \in {"word", "line"} :
                 /\ Rp!TierPredicate(t) \in SQL
                 /\ Rp!Listed(Rp!TierPredicate(t)) <=> /\ line.tier = t /\ line.err # "gone" /\ line.wts # "queued"
                                                /\ line.tim \notin Rp!Flagged
           /\ Rp!TierUnknownPredicate \in SQL
           /\ Rp!Listed(Rp!TierUnknownPredicate) <=> \/ line.tier \notin {"word", "line"} \/ line.tim \in Rp!Flagged
                                              \/ line.wts = "queued"
<1>1. Rp!retiredPredicate \in SQL /\ (Rp!Listed(Rp!retiredPredicate) <=> line.err = "gone")
  BY Logic DEF Rp!retiredPredicate
<1>2. Rp!Synced \in SQL /\ (Rp!Listed(Rp!Synced) <=> line.out = "synced")
  BY Compare DEF Rp!Synced, Rp!NULL
<1>3. (Rp!OrEmpty(line.wts) # "queued" <=> line.wts # "queued") /\ (Rp!OrEmpty(line.tim) \in Rp!Flagged <=> line.tim \in Rp!Flagged)
  BY DEF Rp!OrEmpty, Rp!Flagged, Rp!NULL
<1>4. Rp!tierRecordedPredicate \in SQL /\ (Rp!Listed(Rp!tierRecordedPredicate) <=> line.err # "gone" /\ line.wts # "queued")
  <2>1. Rp!Not(Rp!retiredPredicate) \in SQL /\ (Rp!Listed(Rp!Not(Rp!retiredPredicate)) <=> line.err # "gone")
    BY DEF Rp!retiredPredicate, Rp!Cond, Rp!Not, Rp!Listed, SQL
  <2>2. Rp!Cond(Rp!OrEmpty(line.wts) # "queued") \in SQL /\ (Rp!Listed(Rp!Cond(Rp!OrEmpty(line.wts) # "queued")) <=> line.wts # "queued")
    BY <1>3, Logic
  <2> QED BY <2>1, <2>2, Logic DEF Rp!tierRecordedPredicate
<1>5. Rp!timingVerdictExclusion \in SQL /\ (Rp!Listed(Rp!timingVerdictExclusion) <=> line.tim \notin Rp!Flagged)
  BY <1>3 DEF Rp!timingVerdictExclusion, Rp!Cond, Rp!Listed, SQL
<1>6. ASSUME NEW t \in {"word", "line"}
      PROVE  /\ Rp!TierPredicate(t) \in SQL
             /\ Rp!Listed(Rp!TierPredicate(t)) <=> /\ line.tier = t /\ line.err # "gone" /\ line.wts # "queued"
                                            /\ line.tim \notin Rp!Flagged
  <2>1. Rp!Eq(line.tier, t) \in SQL /\ (Rp!Listed(Rp!Eq(line.tier, t)) <=> line.tier = t)
    BY Compare DEF Rp!NULL
  <2>2. Rp!TierFilePredicate(t) \in SQL /\ (Rp!Listed(Rp!TierFilePredicate(t)) <=> line.tier = t /\ line.err # "gone" /\ line.wts # "queued")
    BY <1>4, <2>1, Logic DEF Rp!TierFilePredicate
  <2> QED BY <1>5, <2>2, Logic DEF Rp!TierPredicate
<1>7. /\ Rp!TierUnknownPredicate \in SQL
      /\ Rp!Listed(Rp!TierUnknownPredicate) <=> \/ line.tier \notin {"word", "line"} \/ line.tim \in Rp!Flagged
                                         \/ line.wts = "queued"
  <2> DEFINE a == Rp!IsNull(line.tier)
             b == Rp!Not(Rp!In(line.tier, {"word", "line"}))
             c == Rp!Cond(Rp!OrEmpty(line.tim) \in Rp!Flagged)
             d == Rp!Eq(line.wts, "queued")
  <2>1. a \in SQL /\ (Rp!Listed(a) <=> line.tier = Rp!NULL)
    BY Compare
  <2>2. b \in SQL /\ (Rp!Listed(b) <=> line.tier # Rp!NULL /\ line.tier \notin {"word", "line"})
    BY DEF Rp!In, Rp!Not, Rp!Cond, Rp!Listed, SQL
  <2>3. c \in SQL /\ (Rp!Listed(c) <=> line.tim \in Rp!Flagged)
    BY <1>3 DEF Rp!Cond, Rp!Listed, SQL
  <2>4. d \in SQL /\ (Rp!Listed(d) <=> line.wts = "queued")
    BY Compare DEF Rp!NULL
  <2>5. Rp!TierUnknownPredicate = Rp!Or(a, Rp!Or(b, Rp!Or(c, d)))
    BY DEF Rp!TierUnknownPredicate
  <2> HIDE DEF a, b, c, d
  <2>6. Rp!Or(c, d) \in SQL /\ (Rp!Listed(Rp!Or(c, d)) <=> Rp!Listed(c) \/ Rp!Listed(d))
    BY <2>3, <2>4, Logic
  <2>7. Rp!Or(b, Rp!Or(c, d)) \in SQL /\ (Rp!Listed(Rp!Or(b, Rp!Or(c, d))) <=> Rp!Listed(b) \/ Rp!Listed(c) \/ Rp!Listed(d))
    BY <2>2, <2>6, Logic
  <2>8. Rp!Or(a, Rp!Or(b, Rp!Or(c, d))) \in SQL
        /\ (Rp!Listed(Rp!Or(a, Rp!Or(b, Rp!Or(c, d)))) <=> Rp!Listed(a) \/ Rp!Listed(b) \/ Rp!Listed(c) \/ Rp!Listed(d))
    BY <2>1, <2>7, Logic
  <2> QED BY <2>1, <2>2, <2>3, <2>4, <2>5, <2>8 DEF Rp!NULL
<1> QED BY <1>1, <1>2, <1>6, <1>7

(* A done row at the top of the ladder, or marked by hand. *)
AtTheTop(top) == line.manual \/ (line.out = "synced" /\ Rp!Listed(Rp!AtTop(top)))

LEMMA Pages ==
    ASSUME RowInv, NEW top \in Rp!TopRungs
    PROVE  /\ Rp!AtTop(top) \in SQL
           /\ Rp!Listed(Rp!AtTop(top)) <=> /\ line.tier = "word" \/ (top = "line" /\ line.tier = "line")
                                    /\ line.err # "gone" /\ line.wts # "queued" /\ line.tim \notin Rp!Flagged
           /\ \A b \in Rp!Buckets \cup {"blocked"} : Rp!bucketPredicate(b, top) \in SQL
           /\ Rp!Listed(Rp!bucketPredicate("finished", top)) <=> line.status = "done" /\ AtTheTop(top)
           /\ Rp!Listed(Rp!bucketPredicate("settled", top)) <=> line.status = "done" /\ ~AtTheTop(top)
           /\ Rp!Listed(Rp!bucketPredicate("blocked", top)) <=> line.status = "done" /\ line.out = "blocked" /\ line.err # "gone"
           /\ \A b \in Rp!Buckets \ {"finished", "settled"} : Rp!Listed(Rp!bucketPredicate(b, top)) <=> line.status = b
<1>1. /\ Rp!AtTop(top) \in SQL
      /\ Rp!Listed(Rp!AtTop(top)) <=> /\ line.tier = "word" \/ (top = "line" /\ line.tier = "line")
                               /\ line.err # "gone" /\ line.wts # "queued" /\ line.tim \notin Rp!Flagged
  <2>1. CASE top = "word"
    BY <2>1, Predicates DEF Rp!AtTop
  <2>2. CASE top = "line"
    <3> DEFINE wd == Rp!TierPredicate("word")
               ln == Rp!TierPredicate("line")
    <3>1. wd \in SQL /\ (Rp!Listed(wd) <=> line.tier = "word" /\ line.err # "gone" /\ line.wts # "queued" /\ line.tim \notin Rp!Flagged)
      BY Predicates
    <3>2. ln \in SQL /\ (Rp!Listed(ln) <=> line.tier = "line" /\ line.err # "gone" /\ line.wts # "queued" /\ line.tim \notin Rp!Flagged)
      BY Predicates
    <3>3. Rp!AtTop(top) = Rp!Or(wd, ln)
      BY <2>2 DEF Rp!AtTop
    <3> HIDE DEF wd, ln
    <3> QED BY <2>2, <3>1, <3>2, <3>3, Logic
  <2> QED BY <2>1, <2>2 DEF Rp!TopRungs
<1>2. \A b : b # Rp!NULL => Rp!Eq(line.status, b) \in SQL /\ (Rp!Listed(Rp!Eq(line.status, b)) <=> line.status = b)
  <2>1. line.status \in {"pending", "processing", "done", "failed", "deferred", "unavailable"}
    BY DEF RowInv, Rp!Row
  <2>2. line.status # Rp!NULL
    BY <2>1 DEF Rp!NULL
  <2> QED BY <2>2, Compare
<1>3. Rp!finishedPredicates(top) \in SQL /\ (Rp!Listed(Rp!finishedPredicates(top)) <=> line.status = "done" /\ AtTheTop(top))
  <2> DEFINE m == Rp!Cond(line.manual)
             s == Rp!And(Rp!Synced, Rp!AtTop(top))
  <2>1. m \in SQL /\ (Rp!Listed(m) <=> line.manual)
    BY Logic DEF RowInv, Rp!Row
  <2>2. s \in SQL /\ (Rp!Listed(s) <=> line.out = "synced" /\ Rp!Listed(Rp!AtTop(top)))
    BY <1>1, Predicates, Logic
  <2>3. Rp!finishedPredicates(top) = Rp!And(Rp!Eq(line.status, "done"), Rp!Or(m, s))
    BY DEF Rp!finishedPredicates
  <2> HIDE DEF m, s
  <2>4. Rp!Or(m, s) \in SQL /\ (Rp!Listed(Rp!Or(m, s)) <=> AtTheTop(top))
    BY <2>1, <2>2, Logic DEF AtTheTop
  <2> QED BY <1>2, <2>3, <2>4, Logic DEF Rp!NULL
<1>4. Rp!settledPredicate(top) \in SQL /\ (Rp!Listed(Rp!settledPredicate(top)) <=> line.status = "done" /\ ~AtTheTop(top))
  <2>1. /\ Rp!Not(Rp!OrZero(Rp!finishedPredicates(top))) \in SQL
        /\ Rp!Listed(Rp!Not(Rp!OrZero(Rp!finishedPredicates(top)))) <=> ~Rp!Listed(Rp!finishedPredicates(top))
    BY <1>3, Logic
  <2> QED BY <1>2, <1>3, <2>1, Logic DEF Rp!settledPredicate, Rp!NULL
<1>5. /\ Rp!bucketPredicate("blocked", top) \in SQL
      /\ Rp!Listed(Rp!bucketPredicate("blocked", top)) <=> line.status = "done" /\ line.out = "blocked" /\ line.err # "gone"
  <2>1. Rp!Eq(line.out, "blocked") \in SQL /\ (Rp!Listed(Rp!Eq(line.out, "blocked")) <=> line.out = "blocked")
    BY Compare DEF Rp!NULL
  <2>2. Rp!Not(Rp!retiredPredicate) \in SQL /\ (Rp!Listed(Rp!Not(Rp!retiredPredicate)) <=> line.err # "gone")
    BY DEF Rp!retiredPredicate, Rp!Cond, Rp!Not, Rp!Listed, SQL
  <2>3. Rp!And(Rp!Eq(line.out, "blocked"), Rp!Not(Rp!retiredPredicate)) \in SQL
        /\ (Rp!Listed(Rp!And(Rp!Eq(line.out, "blocked"), Rp!Not(Rp!retiredPredicate))) <=> line.out = "blocked" /\ line.err # "gone")
    BY <2>1, <2>2, Logic
  <2> QED BY <1>2, <2>3, Logic DEF Rp!bucketPredicate, Rp!NULL
<1>6. \A b \in Rp!Buckets \ {"finished", "settled"} :
          Rp!bucketPredicate(b, top) \in SQL /\ (Rp!Listed(Rp!bucketPredicate(b, top)) <=> line.status = b)
  <2>1. \A b \in Rp!Buckets \ {"finished", "settled"} : Rp!bucketPredicate(b, top) = Rp!Eq(line.status, b) /\ b # Rp!NULL
    BY DEF Rp!bucketPredicate, Rp!Buckets, Rp!NULL
  <2> QED BY <1>2, <2>1
<1>7. Rp!bucketPredicate("finished", top) = Rp!finishedPredicates(top) /\ Rp!bucketPredicate("settled", top) = Rp!settledPredicate(top)
  BY DEF Rp!bucketPredicate
<1> QED BY <1>1, <1>3, <1>4, <1>5, <1>6, <1>7

(* What a tile of a done row says. *)
LEMMA Tiles ==
    ASSUME RowInv
    PROVE  /\ Rp!resultBucket = "word" <=> line.out = "synced" /\ Rp!Listed(Rp!TierPredicate("word"))
           /\ Rp!resultBucket = "line" <=> line.out = "synced" /\ Rp!Listed(Rp!TierPredicate("line"))
           /\ Rp!resultBucket = "blocked" <=> line.out = "blocked" /\ line.err # "gone"
           /\ line.err # "gone" => Rp!resultBucket = Rp!recentResult \/ line.err = "limit"
<1> DEFINE wd == Rp!Listed(Rp!And(Rp!Synced, Rp!TierPredicate("word")))
           ln == Rp!Listed(Rp!And(Rp!Synced, Rp!TierPredicate("line")))
           un == Rp!Listed(Rp!And(Rp!Synced, Rp!TierUnknownPredicate))
           re == Rp!Listed(Rp!retiredPredicate)
<1>1. wd <=> line.out = "synced" /\ line.tier = "word" /\ line.err # "gone" /\ line.wts # "queued" /\ line.tim \notin Rp!Flagged
  BY Predicates, Logic
<1>2. ln <=> line.out = "synced" /\ line.tier = "line" /\ line.err # "gone" /\ line.wts # "queued" /\ line.tim \notin Rp!Flagged
  BY Predicates, Logic
<1>3. un <=> /\ line.out = "synced"
             /\ line.tier \notin {"word", "line"} \/ line.tim \in Rp!Flagged \/ line.wts = "queued"
  BY Predicates, Logic
<1>4. re <=> line.err = "gone"
  BY Predicates
<1>5. Rp!resultBucket = IF re THEN "other" ELSE IF wd THEN "word" ELSE IF ln THEN "line"
                     ELSE IF un THEN "tier_unknown"
                     ELSE IF line.out \in {"unsynced", "instrumental", "blocked"} THEN line.out ELSE "other"
  BY DEF Rp!resultBucket
<1>6. /\ Rp!Listed(Rp!TierPredicate("word")) <=> line.tier = "word" /\ line.err # "gone" /\ line.wts # "queued" /\ line.tim \notin Rp!Flagged
      /\ Rp!Listed(Rp!TierPredicate("line")) <=> line.tier = "line" /\ line.err # "gone" /\ line.wts # "queued" /\ line.tim \notin Rp!Flagged
  BY Predicates
<1>7. \A t \in {"word", "line"} : Rp!RecentTier(t) <=> line.tier = t /\ line.tim \notin Rp!Flagged /\ line.wts # "queued"
  BY DEF Rp!RecentTier, Rp!OrEmpty, Rp!Flagged, Rp!NULL
<1> HIDE DEF wd, ln, un, re
<1>8. CASE line.err = "gone"
  BY <1>1, <1>2, <1>4, <1>5, <1>6, <1>8
<1>9. CASE line.err # "gone" /\ line.out = "synced"
  BY <1>1, <1>2, <1>3, <1>4, <1>5, <1>6, <1>7, <1>9 DEF Rp!recentResult
<1>10. CASE line.err # "gone" /\ line.out # "synced"
  BY <1>1, <1>2, <1>3, <1>4, <1>5, <1>6, <1>7, <1>10 DEF Rp!recentResult
<1> QED BY <1>8, <1>9, <1>10

-----------------------------------------------------------------------------
(* The recorded columns keep their types. *)
THEOREM ReportsTypesHold == ASSUME ReportsConfigured PROVE Rp!Spec => []Rp!TypeOK
BY RowHolds, PTL DEF RowInv, Rp!TypeOK

(* Every row is on exactly one page of the Work Queue, whichever rung counts *)
(* as finished and whichever of its columns are NULL.                         *)
THEOREM ReportsPartition == ASSUME ReportsConfigured PROVE Rp!Spec => []Rp!BucketsPartition
<1>1. RowInv => Rp!BucketsPartition
  <2> SUFFICES ASSUME RowInv, NEW top \in Rp!TopRungs
               PROVE  \E b \in Rp!Buckets : /\ Rp!Listed(Rp!bucketPredicate(b, top))
                                            /\ \A c \in Rp!Buckets \ {b} : ~Rp!Listed(Rp!bucketPredicate(c, top))
    BY DEF Rp!BucketsPartition
  <2>0. line.status \in {"pending", "processing", "done", "failed", "deferred", "unavailable"}
    BY DEF RowInv, Rp!Row
  <2>1. \A c \in Rp!Buckets \ {"finished", "settled"} : Rp!Listed(Rp!bucketPredicate(c, top)) <=> line.status = c
    BY Pages
  <2>2. /\ Rp!Listed(Rp!bucketPredicate("finished", top)) <=> line.status = "done" /\ AtTheTop(top)
        /\ Rp!Listed(Rp!bucketPredicate("settled", top)) <=> line.status = "done" /\ ~AtTheTop(top)
    BY Pages
  <2>3. CASE line.status = "done" /\ AtTheTop(top)
    <3>1. "finished" \in Rp!Buckets /\ \A c \in Rp!Buckets \ {"finished"} : ~Rp!Listed(Rp!bucketPredicate(c, top))
      BY <2>1, <2>2, <2>3 DEF Rp!Buckets
    <3> QED BY <2>2, <2>3, <3>1
  <2>4. CASE line.status = "done" /\ ~AtTheTop(top)
    <3>1. "settled" \in Rp!Buckets /\ \A c \in Rp!Buckets \ {"settled"} : ~Rp!Listed(Rp!bucketPredicate(c, top))
      BY <2>1, <2>2, <2>4 DEF Rp!Buckets
    <3> QED BY <2>2, <2>4, <3>1
  <2>5. CASE line.status # "done"
    <3>1. line.status \in Rp!Buckets \ {"finished", "settled"}
      BY <2>0, <2>5 DEF Rp!Buckets
    <3>2. \A c \in Rp!Buckets \ {line.status} : ~Rp!Listed(Rp!bucketPredicate(c, top))
      BY <2>1, <2>2, <2>5
    <3> QED BY <2>1, <3>1, <3>2
  <2> QED BY <2>3, <2>4, <2>5
<1> QED BY <1>1, RowHolds, PTL

(* A tile that links to a page counts exactly the rows the page lists.       *)
THEOREM ReportsTilesAgree == ASSUME ReportsConfigured PROVE Rp!Spec => []Rp!TilesAgree
<1>1. RowInv => Rp!TilesAgree
  <2> SUFFICES ASSUME RowInv, NEW top \in Rp!TopRungs, NEW tile \in {"word", "line", "blocked"}
               PROVE  Rp!ListBucket(Rp!tileHref(tile, top)[1], Rp!tileHref(tile, top)[2], top)
                          <=> line.status = "done" /\ Rp!resultBucket = tile
    BY DEF Rp!TilesAgree
  <2>0. line.manual => line.out = "instrumental"
    BY DEF RowInv, Fit
  <2>1. /\ Rp!Listed(Rp!TierPredicate("word")) <=> line.tier = "word" /\ line.err # "gone" /\ line.wts # "queued" /\ line.tim \notin Rp!Flagged
        /\ Rp!Listed(Rp!TierPredicate("line")) <=> line.tier = "line" /\ line.err # "gone" /\ line.wts # "queued" /\ line.tim \notin Rp!Flagged
        /\ Rp!TierPredicate("word") \in SQL /\ Rp!TierPredicate("line") \in SQL /\ Rp!Synced \in SQL
        /\ Rp!Listed(Rp!Synced) <=> line.out = "synced"
    BY Predicates
  <2>2. /\ Rp!chipSQL("word") \in SQL /\ (Rp!Listed(Rp!chipSQL("word")) <=> line.out = "synced" /\ Rp!Listed(Rp!TierPredicate("word")))
        /\ Rp!chipSQL("line") \in SQL /\ (Rp!Listed(Rp!chipSQL("line")) <=> line.out = "synced" /\ Rp!Listed(Rp!TierPredicate("line")))
        /\ "T" \in SQL /\ Rp!Listed("T")
    BY <2>1, Logic DEF Rp!chipSQL, SQL, Rp!Listed
  <2>3. "finished" \in Rp!Buckets /\ "settled" \in Rp!Buckets
    BY DEF Rp!Buckets
  <2>4. /\ Rp!bucketPredicate("finished", top) \in SQL /\ Rp!bucketPredicate("settled", top) \in SQL
        /\ Rp!bucketPredicate("blocked", top) \in SQL
        /\ Rp!Listed(Rp!bucketPredicate("finished", top)) <=> line.status = "done" /\ AtTheTop(top)
        /\ Rp!Listed(Rp!bucketPredicate("settled", top)) <=> line.status = "done" /\ ~AtTheTop(top)
        /\ Rp!Listed(Rp!bucketPredicate("blocked", top)) <=> line.status = "done" /\ line.out = "blocked" /\ line.err # "gone"
        /\ Rp!Listed(Rp!AtTop(top)) <=> /\ line.tier = "word" \/ (top = "line" /\ line.tier = "line")
                                 /\ line.err # "gone" /\ line.wts # "queued" /\ line.tim \notin Rp!Flagged
    BY <2>3, Pages
  <2>5. CASE tile = "word"
    <3>1. Rp!ListBucket("finished", "word", top) <=> Rp!Listed(Rp!And(Rp!bucketPredicate("finished", top), Rp!chipSQL("word")))
      BY DEF Rp!ListBucket, Rp!chipsFor
    <3>2. Rp!ListBucket("finished", "word", top) <=> line.status = "done" /\ AtTheTop(top) /\ line.out = "synced" /\ Rp!Listed(Rp!TierPredicate("word"))
      BY <2>2, <2>4, <3>1, Logic
    <3>3. line.out = "synced" /\ Rp!Listed(Rp!TierPredicate("word")) => AtTheTop(top)
      BY <2>1, <2>4 DEF AtTheTop
    <3> QED BY <2>5, <3>2, <3>3, Tiles DEF Rp!tileHref
  <2>6. CASE tile = "line" /\ top = "line"
    <3>1. Rp!ListBucket("finished", "line", top) <=> Rp!Listed(Rp!And(Rp!bucketPredicate("finished", top), Rp!chipSQL("line")))
      BY <2>6 DEF Rp!ListBucket, Rp!chipsFor
    <3>2. Rp!ListBucket("finished", "line", top) <=> line.status = "done" /\ AtTheTop(top) /\ line.out = "synced" /\ Rp!Listed(Rp!TierPredicate("line"))
      BY <2>2, <2>4, <3>1, Logic
    <3>3. line.out = "synced" /\ Rp!Listed(Rp!TierPredicate("line")) => AtTheTop(top)
      BY <2>1, <2>4, <2>6 DEF AtTheTop
    <3> QED BY <2>6, <3>2, <3>3, Tiles DEF Rp!tileHref
  <2>7. CASE tile = "line" /\ top = "word"
    <3>1. Rp!ListBucket("settled", "line", top) <=> Rp!Listed(Rp!And(Rp!bucketPredicate("settled", top), Rp!chipSQL("line")))
      BY <2>7 DEF Rp!ListBucket, Rp!chipsFor
    <3>2. Rp!ListBucket("settled", "line", top) <=> line.status = "done" /\ ~AtTheTop(top) /\ line.out = "synced" /\ Rp!Listed(Rp!TierPredicate("line"))
      BY <2>2, <2>4, <3>1, Logic
    <3>3. line.out = "synced" /\ Rp!Listed(Rp!TierPredicate("line")) => ~AtTheTop(top)
      BY <2>0, <2>1, <2>4, <2>7 DEF AtTheTop
    <3> QED BY <2>7, <3>2, <3>3, Tiles DEF Rp!tileHref
  <2>8. CASE tile = "blocked"
    <3>1. Rp!ListBucket("blocked", "", top) <=> Rp!Listed(Rp!And(Rp!bucketPredicate("blocked", top), "T"))
      BY DEF Rp!ListBucket, Rp!chipsFor
    <3>2. Rp!ListBucket("blocked", "", top) <=> Rp!Listed(Rp!bucketPredicate("blocked", top))
      BY <2>2, <2>4, <3>1, Logic
    <3> QED BY <2>4, <2>8, <3>2, Tiles DEF Rp!tileHref
  <2> QED BY <2>5, <2>6, <2>7, <2>8 DEF Rp!TopRungs
<1> QED BY <1>1, RowHolds, PTL

(* The Recent outcomes table names a settled row as its tile does.           *)
THEOREM ReportsRecentAgrees == ASSUME ReportsConfigured PROVE Rp!Spec => []Rp!RecentAgrees
<1>1. RowInv => Rp!RecentAgrees
  <2> SUFFICES ASSUME RowInv, Rp!Listed(Rp!recentWhere)
               PROVE  Rp!recentResult = IF line.status = "unavailable" THEN "miss" ELSE Rp!resultBucket
    BY DEF Rp!RecentAgrees
  <2>1. Rp!Not(Rp!retiredPredicate) \in SQL /\ (Rp!Listed(Rp!Not(Rp!retiredPredicate)) <=> line.err # "gone")
    BY DEF Rp!retiredPredicate, Rp!Cond, Rp!Not, Rp!Listed, SQL
  <2>2. Rp!In(line.status, {"done", "unavailable"}) \in SQL
    BY Compare
  <2>3. line.err # "gone"
    BY <2>1, <2>2, Logic DEF Rp!recentWhere
  <2>4. line.err = "limit" <=> line.status = "unavailable"
    BY DEF RowInv, Fit
  <2>5. line.err = "limit" => Rp!recentResult = "miss"
    BY DEF Rp!recentResult
  <2> QED BY <2>3, <2>4, <2>5, Tiles
<1> QED BY <1>1, RowHolds, PTL

(* A done row still marked for a word recheck is one that prune retired.     *)
THEOREM ReportsQueuedMeansRetired == ASSUME ReportsConfigured PROVE Rp!Spec => []Rp!QueuedMeansRetired
<1>1. RowInv => Rp!QueuedMeansRetired
  BY DEF RowInv, Fit, Rp!QueuedMeansRetired
<1> QED BY <1>1, RowHolds, PTL

(* A waiting row is listed under "no reason recorded" exactly when it shows  *)
(* no message.                                                                 *)
THEOREM ReportsReasonMatches == ASSUME ReportsConfigured PROVE Rp!Spec => []Rp!ReasonMatchesMessage
<1>1. RowInv => Rp!ReasonMatchesMessage
  <2> SUFFICES ASSUME RowInv, line.status \in {"deferred", "failed"} PROVE Rp!reasonKey = "none" <=> line.err \in {"", "blank"}
    BY DEF Rp!ReasonMatchesMessage
  <2>1. Filed(line) /\ (line.err = "" => line.cls = Rp!NULL)
    BY DEF RowInv, Fit, Waiting
  <2> QED BY <2>1 DEF Filed, Rp!reasonKey, Rp!ReasonKeys, Rp!NULL
<1> QED BY <1>1, RowHolds, PTL

(* A failed row is never hidden by the guard against rows no fetch has tried. *)
THEOREM ReportsFailedIsShown == ASSUME ReportsConfigured PROVE Rp!Spec => []Rp!FailedIsShown
<1>1. RowInv => Rp!FailedIsShown
  <2> SUFFICES ASSUME RowInv, line.status = "failed" PROVE Rp!Listed(Rp!failureBaseFilter)
    BY DEF Rp!FailedIsShown
  <2>1. ~(line.err = "" /\ ~line.tried)
    BY DEF RowInv, Fit
  <2>2. Rp!Cond(line.err = "" /\ ~line.tried) = "F"
    BY <2>1 DEF Rp!Cond
  <2>3. Rp!Eq(line.status, "failed") = "T"
    BY DEF Rp!Eq, Rp!Cond, Rp!NULL
  <2> QED BY <2>2, <2>3 DEF Rp!failureBaseFilter, Rp!Listed, Rp!And, Rp!Not, Rp!Cond
<1> QED BY <1>1, RowHolds, PTL

-----------------------------------------------------------------------------
(* Walks of a Work Queue page (Paging). *)

LEMMA PgSize == \A S : Pg!Cardinality(S) = Cardinality(S)
BY DEF Cardinality, Pg!Cardinality, IsFiniteSet, Pg!IsFiniteSet

(* Row ids and sort values are positive, so that 0 stands for none; a page   *)
(* has room for a row.                                                       *)
PagingConfigured ==
    /\ IsFiniteSet(Ids)
    /\ \A i \in Ids : i \in Nat /\ i # 0
    /\ \A v \in Vals : v \in Nat /\ v # 0
    /\ PageSize \in Nat \ {0}
    /\ MaxChanges \in Nat

(* The rows a request may list, and how many of them come before a row.      *)
Matching == {i \in member : Pg!Keyset(i)}
Before(i) == {j \in Matching : Pg!OrderBy(j, i)}
Rank(i) == Cardinality(Before(i))

(* The walk has listed the steady rows up to its cursor and none beyond it.  *)
Seen(i) == /\ more = "yes" => times[i] = IF Pg!Keyset(i) THEN 0 ELSE 1
           /\ more = "cut" => times[i] \in {0, 1}
           /\ more = "no" => times[i] = 1
AtCursor == /\ cursor.id = 0 => cursor = Pg!Top
            /\ order = "id" => cursor.v = Pg!Null
            /\ cursor.v \in Vals \cup {Pg!Null}
WalkInv == Pg!TypeOK /\ AtCursor /\ \A i \in steady : Seen(i)

LEMMA LeastNatural ==
    ASSUME NEW T, T \subseteq Nat, T # {}
    PROVE  \E x \in T : \A y \in T : x <= y
<1> DEFINE R == {ss \in Nat \X Nat : ss[1] < ss[2]}
<1>1. IsWellFoundedOn(R, Nat)
  BY NatLessThanWellFounded DEF OpToRel
<1>2. \A x, y \in Nat : y < x => <<y, x>> \in R
  OBVIOUS
<1> HIDE DEF R
<1>3. PICK x \in T : \A y \in T : ~ (<<y, x>> \in R)
  BY <1>1, WFMin
<1>4. \A y \in T : ~(y < x)
  BY <1>2, <1>3, Zenon
<1>5. \A y \in T : x <= y
  BY <1>4
<1> QED BY <1>5

(* The order of the rows is a strict total order.                            *)
LEMMA Ordered ==
    ASSUME PagingConfigured, Pg!TypeOK
    PROVE  /\ \A i \in Ids : ~Pg!OrderBy(i, i)
           /\ \A i, j \in Ids : i = j \/ Pg!OrderBy(i, j) \/ Pg!OrderBy(j, i)
           /\ \A i, j, k \in Ids : Pg!OrderBy(i, j) /\ Pg!OrderBy(j, k) => Pg!OrderBy(i, k)
<1>1. \A i \in Ids : i \in Nat /\ val[i] \in Nat
  BY DEF PagingConfigured, Pg!TypeOK, Pg!Null
<1>2. CASE order = "asc"
  BY <1>1, <1>2 DEF Pg!OrderBy, Pg!Further, Pg!Null
<1>3. CASE order = "desc"
  BY <1>1, <1>3 DEF Pg!OrderBy, Pg!Further, Pg!Null
<1>4. CASE order = "id"
  BY <1>1, <1>4 DEF Pg!OrderBy
<1> QED BY <1>2, <1>3, <1>4 DEF Pg!TypeOK

(* What comes after a row that may be listed may be listed too.              *)
LEMMA KeysetUpward ==
    ASSUME PagingConfigured, WalkInv
    PROVE  \A i, j \in Ids : Pg!Keyset(i) /\ Pg!OrderBy(i, j) => Pg!Keyset(j)
<1>1. \A i \in Ids : i \in Nat /\ val[i] \in Nat
  BY DEF PagingConfigured, WalkInv, Pg!TypeOK, Pg!Null
<1>2. cursor.id \in Nat /\ cursor.v \in Nat
  <2>1. cursor.id \in Ids \cup {0} /\ cursor.v \in Vals \cup {Pg!Null}
    BY DEF WalkInv, Pg!TypeOK
  <2> QED BY <2>1 DEF PagingConfigured, Pg!Null
<1>3. CASE order = "asc"
  BY <1>1, <1>2, <1>3 DEF Pg!Keyset, Pg!OrderBy, Pg!Further, Pg!Null
<1>4. CASE order = "desc"
  BY <1>1, <1>2, <1>4 DEF Pg!Keyset, Pg!OrderBy, Pg!Further, Pg!Null
<1>5. CASE order = "id"
  BY <1>1, <1>2, <1>5 DEF Pg!Keyset, Pg!OrderBy
<1> QED BY <1>3, <1>4, <1>5 DEF WalkInv, Pg!TypeOK

LEMMA Ranks ==
    ASSUME PagingConfigured, WalkInv
    PROVE  /\ IsFiniteSet(Matching) /\ Matching \subseteq Ids
           /\ \A i \in Ids : Rank(i) \in Nat /\ IsFiniteSet(Before(i))
           /\ \A i, j \in Matching : Pg!OrderBy(i, j) => Rank(i) < Rank(j)
<1>1. IsFiniteSet(Matching) /\ Matching \subseteq Ids
  BY FS_Subset DEF PagingConfigured, WalkInv, Pg!TypeOK, Matching
<1>2. \A i \in Ids : Rank(i) \in Nat /\ IsFiniteSet(Before(i))
  <2> SUFFICES ASSUME NEW i \in Ids PROVE Rank(i) \in Nat /\ IsFiniteSet(Before(i))
    OBVIOUS
  <2>1. Before(i) \in SUBSET Matching
    BY DEF Before
  <2>2. IsFiniteSet(Before(i))
    BY <1>1, <2>1, FS_Subset
  <2> QED BY <2>2, FS_CardinalityType DEF Rank
<1>3. ASSUME NEW i \in Matching, NEW j \in Matching, Pg!OrderBy(i, j)
      PROVE  Rank(i) < Rank(j)
  <2>1. Before(i) \in SUBSET Before(j)
    BY <1>1, <1>3, Ordered DEF Before, WalkInv
  <2>2. i \in Before(j) /\ i \notin Before(i)
    BY <1>1, <1>3, Ordered DEF Before, WalkInv
  <2>3. Rank(i) <= Rank(j) /\ (Rank(i) = Rank(j) => Before(i) = Before(j))
    BY <1>1, <1>2, <2>1, FS_Subset DEF Rank
  <2>4. Rank(i) \in Nat /\ Rank(j) \in Nat
    BY <1>1, <1>2
  <2> QED BY <2>2, <2>3, <2>4
<1> QED BY <1>1, <1>2, <1>3

(* A page of a walk that has rows left is not empty, and has a last row.     *)
LEMMA PageHasLast ==
    ASSUME PagingConfigured, WalkInv, Matching # {}
    PROVE  LET P == Pg!Limit(PageSize)
           IN  /\ Pg!Last(P) \in P
               /\ \A j \in P \ {Pg!Last(P)} : Pg!OrderBy(j, Pg!Last(P))
<1> DEFINE P == Pg!Limit(PageSize)
<1>0. /\ Matching \subseteq Ids
      /\ \A i \in Matching : Rank(i) \in Nat
      /\ PageSize \in Nat \ {0}
      /\ P = {i \in Matching : Rank(i) < PageSize}
  BY Ranks, PgSize DEF Pg!Limit, Matching, Rank, Before, PagingConfigured
<1> HIDE DEF P
<1>1. P # {}
  <2> DEFINE T == {Rank(i) : i \in Matching}
  <2>1. T \subseteq Nat /\ T # {}
    BY <1>0
  <2>2. PICK x \in T : \A y \in T : x <= y
    BY <2>1, LeastNatural
  <2>3. PICK i \in Matching : Rank(i) = x
    OBVIOUS
  <2>4. Before(i) = {}
    <3> SUFFICES ASSUME NEW j \in Before(i) PROVE FALSE
      OBVIOUS
    <3>1. j \in Matching /\ Pg!OrderBy(j, i)
      BY DEF Before
    <3>2. Rank(j) < Rank(i) /\ Rank(j) \in T
      BY <3>1, Ranks
    <3> QED BY <1>0, <2>2, <2>3, <3>1, <3>2
  <2>5. Rank(i) = 0
    BY <2>4, FS_EmptySet DEF Rank
  <2> QED BY <1>0, <2>5
<1>2. PICK m \in P : \A j \in P \ {m} : Pg!OrderBy(j, m)
  <2> DEFINE T == {PageSize - Rank(i) : i \in P}
  <2>1. T \subseteq Nat /\ T # {}
    BY <1>0, <1>1
  <2>2. PICK x \in T : \A y \in T : x <= y
    BY <2>1, LeastNatural
  <2>3. PICK m \in P : PageSize - Rank(m) = x
    OBVIOUS
  <2>4. ASSUME NEW j \in P \ {m} PROVE Pg!OrderBy(j, m)
    <3>1. PageSize - Rank(m) <= PageSize - Rank(j)
      BY <2>2, <2>3
    <3>2. ~(Rank(m) < Rank(j))
      BY <1>0, <3>1
    <3>3. j \in Matching /\ m \in Matching
      BY <1>0
    <3>4. Pg!OrderBy(j, m) \/ Pg!OrderBy(m, j)
      BY <1>0, <3>3, Ordered DEF WalkInv
    <3> QED BY <3>2, <3>3, <3>4, Ranks
  <2> QED BY <2>4
<1> QED BY <1>2 DEF Pg!Last, P

(* A page that leaves no further row shows all that match.                   *)
LEMMA PageIsAll ==
    ASSUME PagingConfigured, WalkInv, ~(Cardinality(Pg!Limit(PageSize + 1)) > PageSize)
    PROVE  Pg!Limit(PageSize) = Matching
<1> DEFINE F == {i \in Matching : Rank(i) < PageSize + 1}
<1>0. /\ Matching \subseteq Ids
      /\ \A i \in Matching : Rank(i) \in Nat
      /\ PageSize \in Nat \ {0}
      /\ Pg!Limit(PageSize) = {i \in Matching : Rank(i) < PageSize}
      /\ Pg!Limit(PageSize + 1) = F
  BY Ranks, PgSize DEF Pg!Limit, Matching, Rank, Before, PagingConfigured
<1>1. IsFiniteSet(F) /\ Cardinality(F) \in Nat
  BY Ranks, FS_Subset, FS_CardinalityType
<1>2. Cardinality(F) <= PageSize
  BY <1>0, <1>1
<1> DEFINE C == {i \in Matching : ~(Rank(i) < PageSize)}
           T == {Rank(i) : i \in C}
<1>3. SUFFICES ASSUME C # {} PROVE FALSE
  BY <1>0
<1>4. T \subseteq Nat /\ T # {}
  BY <1>0, <1>3
<1>5. PICK x \in T : \A y \in T : x <= y
  BY <1>4, LeastNatural
<1>6. PICK i \in C : Rank(i) = x
  OBVIOUS
<1>7. \A j \in Before(i) : j \in Matching /\ Rank(j) < PageSize
  <2> SUFFICES ASSUME NEW j \in Before(i) PROVE j \in Matching /\ Rank(j) < PageSize
    OBVIOUS
  <2>1. j \in Matching /\ Rank(j) < Rank(i)
    BY Ranks DEF Before
  <2>2. ASSUME j \in C PROVE FALSE
    <3>1. Rank(j) \in T
      BY <2>2
    <3>2. Rank(i) <= Rank(j)
      BY <1>5, <1>6, <3>1
    <3> QED BY <1>0, <2>1, <3>2
  <2> QED BY <2>1, <2>2
<1>8. i \in Matching /\ Rank(i) \in Nat /\ ~(Rank(i) < PageSize)
  BY <1>0
<1>9. Before(i) \in SUBSET F
  BY <1>0, <1>7
<1>10. Rank(i) <= Cardinality(F)
  BY <1>1, <1>9, FS_Subset DEF Rank
<1>11. Rank(i) = PageSize
  BY <1>0, <1>1, <1>2, <1>8, <1>10
<1>12. i \in F
  BY <1>0, <1>8, <1>11
<1>13. i \notin Before(i)
  BY <1>0, <1>8, Ordered DEF Before, WalkInv
<1>14. Rank(i) = Cardinality(F) => Before(i) = F
  BY <1>1, <1>9, FS_Subset DEF Rank
<1> QED BY <1>0, <1>1, <1>2, <1>10, <1>11, <1>12, <1>13, <1>14

-----------------------------------------------------------------------------
LEMMA WalkStarts == ASSUME PagingConfigured, Pg!Init PROVE WalkInv
<1>1. 0 \in 0..MaxChanges
  BY DEF PagingConfigured
<1> QED BY <1>1 DEF Pg!Init, WalkInv, Pg!TypeOK, AtCursor, Seen, Pg!Keyset, Pg!Top, Pg!Null

LEMMA PageKeeps == ASSUME PagingConfigured, WalkInv, Pg!handleQueueBucket PROVE WalkInv'
<1> DEFINE P == Pg!Limit(PageSize)
           extra == Cardinality(Pg!Limit(PageSize + 1)) > PageSize
<1>1. /\ more = "yes" /\ UNCHANGED <<order, val, member, steady, changes>>
      /\ times' = [i \in Ids |-> times[i] + IF i \in P THEN 1 ELSE 0]
      /\ \/ /\ extra /\ Pg!SortVal(Pg!Last(P)) \notin TooLong
            /\ more' = "yes"
            /\ cursor' = [id |-> Pg!Last(P), v |-> Pg!SortVal(Pg!Last(P))]
         \/ more' = "cut" /\ extra /\ UNCHANGED cursor
         \/ more' = "no" /\ ~extra /\ UNCHANGED cursor
  BY PgSize DEF Pg!handleQueueBucket
<1>2. /\ P \subseteq Matching /\ Matching \subseteq Ids /\ Matching = {i \in member : Pg!Keyset(i)}
      /\ ~extra => P = Matching
      /\ extra => Matching # {}
  <2>1. P \subseteq Matching
    BY DEF Pg!Limit, Matching
  <2>2. ~extra => P = Matching
    BY PageIsAll
  <2>3. Pg!Limit(PageSize + 1) \subseteq Matching
    BY DEF Pg!Limit, Matching
  <2>4. Matching = {} => Cardinality(Pg!Limit(PageSize + 1)) = 0
    BY <2>3, FS_EmptySet
  <2>5. extra => Matching # {}
    BY <2>4 DEF PagingConfigured
  <2> QED BY <2>1, <2>2, <2>5, Ranks DEF Matching
<1>3. extra => Pg!Last(P) \in P /\ \A j \in P \ {Pg!Last(P)} : Pg!OrderBy(j, Pg!Last(P))
  BY <1>2, PageHasLast
<1>4. \A i \in Matching : i \in P \/ (\A j \in P : Pg!OrderBy(j, i))
  <2> SUFFICES ASSUME NEW i \in Matching, i \notin P, NEW j \in P PROVE Pg!OrderBy(j, i)
    OBVIOUS
  <2>1. j \in Matching /\ Rank(j) < PageSize /\ ~(Rank(i) < PageSize)
    BY PgSize DEF Pg!Limit, Matching, Rank, Before
  <2>2. Rank(i) \in Nat /\ Rank(j) \in Nat /\ PageSize \in Nat
    BY <1>2, <2>1, Ranks DEF PagingConfigured
  <2>3. ~(Rank(i) < Rank(j)) /\ i # j
    BY <2>1, <2>2
  <2> QED BY <1>2, <2>1, <2>3, Ranks, Ordered DEF WalkInv
<1>5. \A i \in Ids : times[i] \in Nat
  BY DEF WalkInv, Pg!TypeOK
<1>6. \A i \in steady : i \in member /\ i \in Ids /\ times[i] = IF Pg!Keyset(i) THEN 0 ELSE 1
  BY <1>1 DEF WalkInv, Pg!TypeOK, Seen
<1>t. times' \in [Ids -> Nat]
  BY <1>1, <1>5
<1>7. CASE more' = "yes"
  <2> DEFINE m == Pg!Last(P)
  <2>1. /\ m \in P /\ m \in Ids /\ extra /\ cursor' = [id |-> m, v |-> Pg!SortVal(m)]
        /\ \A j \in P \ {m} : Pg!OrderBy(j, m)
    BY <1>1, <1>2, <1>3, <1>7
  <2> HIDE DEF m, P, extra
  <2>2. Pg!SortVal(m) \in Vals \cup {Pg!Null} /\ (order = "id" => Pg!SortVal(m) = Pg!Null)
        /\ (order # "id" => Pg!SortVal(m) = val[m])
    BY <2>1 DEF WalkInv, Pg!TypeOK, Pg!SortVal
  <2>3. Pg!TypeOK'
    BY <1>1, <1>7, <1>t, <2>1, <2>2 DEF WalkInv, Pg!TypeOK
  <2>4. m # 0
    BY <2>1 DEF PagingConfigured
  <2>5. AtCursor'
    BY <1>1, <2>1, <2>2, <2>4 DEF AtCursor, Pg!Top
  <2>6. \A i \in Ids : Pg!Keyset(i)' <=> Pg!OrderBy(m, i)
    <3>1. \A i \in Ids : i \in Nat /\ val[i] \in Nat
      BY DEF PagingConfigured, WalkInv, Pg!TypeOK, Pg!Null
    <3>2. order \in {"asc", "desc", "id"}
      BY DEF WalkInv, Pg!TypeOK
    <3> QED BY <1>1, <2>1, <2>2, <2>4, <3>1, <3>2 DEF Pg!Keyset, Pg!OrderBy, Pg!Further, Pg!Null
  <2>7. ASSUME NEW i \in steady' PROVE Seen(i)'
    <3>1. /\ i \in member /\ i \in Ids /\ times[i] = IF Pg!Keyset(i) THEN 0 ELSE 1
          /\ times'[i] = times[i] + IF i \in P THEN 1 ELSE 0
      BY <1>1, <1>6
    <3>2. CASE i \in P
      <4>1. Pg!Keyset(i) /\ times'[i] = 1
        BY <1>2, <3>1, <3>2
      <4>2. ~Pg!OrderBy(m, i)
        BY <2>1, <3>1, <3>2, Ordered DEF WalkInv
      <4> QED BY <1>7, <2>6, <3>1, <4>1, <4>2 DEF Seen
    <3>3. CASE i \notin P /\ Pg!Keyset(i)
      <4>1. Pg!OrderBy(m, i)
        BY <1>2, <1>4, <2>1, <3>1, <3>3
      <4> QED BY <1>7, <2>6, <3>1, <3>3, <4>1 DEF Seen
    <3>4. CASE ~Pg!Keyset(i)
      <4>1. i \notin P
        BY <1>2, <3>4
      <4>2. Pg!Keyset(m)
        BY <1>2, <2>1
      <4>3. ~Pg!OrderBy(m, i)
        BY <2>1, <3>1, <3>4, <4>2, KeysetUpward
      <4> QED BY <1>7, <2>6, <3>1, <3>4, <4>1, <4>3 DEF Seen
    <3> QED BY <3>2, <3>3, <3>4
  <2> QED BY <2>3, <2>5, <2>7 DEF WalkInv
<1>8. CASE more' # "yes"
  <2>1. /\ UNCHANGED cursor /\ more' \in {"cut", "no"}
        /\ more' = "no" => P = Matching
    BY <1>1, <1>2, <1>8
  <2>2. \A i \in Ids : times'[i] = times[i] + IF i \in P THEN 1 ELSE 0
    BY <1>1
  <2> HIDE DEF P, extra
  <2>3. Pg!TypeOK' /\ AtCursor'
    BY <1>1, <1>t, <2>1 DEF WalkInv, Pg!TypeOK, AtCursor, Pg!Top
  <2>4. ASSUME NEW i \in steady' PROVE Seen(i)'
    <3>1. i \in steady
      BY <1>1
    <3> QED BY <1>2, <1>6, <2>1, <2>2, <3>1 DEF Seen
  <2> QED BY <2>3, <2>4 DEF WalkInv
<1> QED BY <1>7, <1>8

LEMMA ChangeKeeps ==
    ASSUME PagingConfigured, WalkInv, NEW i \in Ids, Pg!Change(i)
    PROVE  WalkInv'
<1>1. /\ UNCHANGED <<order, cursor, more, times>> /\ more = "yes"
      /\ val' \in [Ids -> Vals \cup {Pg!Null}] /\ member' \subseteq Ids
      /\ \A j \in Ids \ {i} : val'[j] = val[j] /\ (j \in member' <=> j \in member)
      /\ steady' \subseteq steady
      /\ i \in steady' => order = "id" /\ i \in member'
      /\ changes' = changes + 1 /\ changes < MaxChanges
  BY DEF Pg!Change, WalkInv, Pg!TypeOK
<1>2. Pg!TypeOK' /\ AtCursor'
  <2>1. changes' \in 0..MaxChanges
    BY <1>1 DEF PagingConfigured, WalkInv, Pg!TypeOK
  <2>2. steady' \subseteq member'
    BY <1>1 DEF WalkInv, Pg!TypeOK
  <2> QED BY <1>1, <2>1, <2>2 DEF WalkInv, Pg!TypeOK, AtCursor, Pg!Top
<1>3. ASSUME NEW j \in steady' PROVE Seen(j)'
  <2>1. j \in Ids /\ Seen(j)
    BY <1>1 DEF WalkInv, Pg!TypeOK
  <2>2. Pg!Keyset(j)' <=> Pg!Keyset(j)
    BY <1>1, <1>3, <2>1 DEF Pg!Keyset, Pg!Further
  <2> QED BY <1>1, <2>1, <2>2 DEF Seen
<1> QED BY <1>2, <1>3 DEF WalkInv

LEMMA RestartKeeps == ASSUME PagingConfigured, WalkInv, Pg!Restart PROVE WalkInv'
<1>1. changes' \in 0..MaxChanges
  BY DEF Pg!Restart, PagingConfigured, WalkInv, Pg!TypeOK
<1>2. Pg!TypeOK' /\ AtCursor'
  BY <1>1 DEF Pg!Restart, WalkInv, Pg!TypeOK, AtCursor, Pg!Top, Pg!Null
<1>3. ASSUME NEW j \in steady' PROVE Seen(j)'
  BY <1>3 DEF Pg!Restart, WalkInv, Pg!TypeOK, Seen, Pg!Keyset, Pg!Top
<1> QED BY <1>2, <1>3 DEF WalkInv

LEMMA WalkStep == ASSUME PagingConfigured, WalkInv, [Pg!Next]_Pg!vars PROVE WalkInv'
<1>1. CASE Pg!handleQueueBucket
  BY <1>1, PageKeeps
<1>2. ASSUME NEW i \in Ids, Pg!Change(i) PROVE WalkInv'
  BY <1>2, ChangeKeeps
<1>3. CASE Pg!Restart
  BY <1>3, RestartKeeps
<1>4. CASE UNCHANGED Pg!vars
  BY <1>4 DEF Pg!vars, WalkInv, Pg!TypeOK, AtCursor, Pg!Top, Seen, Pg!Keyset, Pg!Further
<1> QED BY <1>1, <1>2, <1>3, <1>4 DEF Pg!Next

LEMMA WalkHolds == ASSUME PagingConfigured PROVE Pg!Spec => []WalkInv
<1>1. Pg!Init => WalkInv
  BY WalkStarts
<1>2. WalkInv /\ [Pg!Next]_Pg!vars => WalkInv'
  BY WalkStep
<1> QED BY <1>1, <1>2, PTL DEF Pg!Spec

-----------------------------------------------------------------------------
(* The walk's state keeps its types. *)
THEOREM PagingTypesHold == ASSUME PagingConfigured PROVE Pg!Spec => []Pg!TypeOK
BY WalkHolds, PTL DEF WalkInv

(* A walk lists no steady row twice, and at its end has listed every one:    *)
(* for any number of rows, any values (NULLs and ties included), any page    *)
(* size and any changes of the other rows between two pages.                 *)
THEOREM PagingListsOnce == ASSUME PagingConfigured PROVE Pg!Spec => []Pg!SteadyListedOnce
<1>1. WalkInv => Pg!SteadyListedOnce
  BY DEF WalkInv, Pg!TypeOK, Seen, Pg!SteadyListedOnce
<1> QED BY <1>1, WalkHolds, PTL

-----------------------------------------------------------------------------
(* The lyric writer (Sidecars). *)

(* Every output starts from files nobody's call is in the middle of; there   *)
(* is an output to write to.                                                 *)
WriterConfigured ==
    /\ Outs # {} /\ MaxWrites \in Nat
    /\ FirstDisks \subseteq Sc!SidecarKinds
(* A companion found at first belongs to the lyric beside it, and one writer *)
(* has the files to itself.                                                  *)
Matched(d) == d.elrc.k = "owned" => d.lrc.k # "none" /\ d.lrc.v = d.elrc.v
OneWriter == /\ \A p, q \in Writers : p = q
             /\ \A d \in FirstDisks : Matched(d)

Files(d) == /\ d \in Sc!SidecarKinds
            /\ d.lrc.k \in {"none", "line", "word"} /\ d.lrc.v \in 0..MaxWrites
            /\ d.txt.k \in {"none", "marker", "text", "manual"} /\ d.txt.v \in 0..MaxWrites
            /\ d.elrc.k \in {"none", "owned", "foreign"} /\ d.elrc.v \in 0..MaxWrites

LEMMA FilesOf == \A d \in Sc!SidecarKinds : Files(d)
BY DEF Files, Sc!SidecarKinds


Call == [ph : Sc!Phases, out : Outs, song : Sc!Songs, opt : Sc!Opts, removes : BOOLEAN,
         cwrite : BOOLEAN, stale : BOOLEAN, v : 0..MaxWrites, had : 0..4, alone : BOOLEAN]

(* What a call of WriteLRC may rely on: it was not refused, so it writes no  *)
(* less than it found; and undisturbed it finds what it has put.             *)
Fits(r) == r.ph \notin {"idle", "failed"} =>
    /\ r.song # "manual"
    /\ r.cwrite => r.song = "word" /\ Companion
    /\ r.opt # "force" => /\ r.had <= Sc!candidateRung(r.song, r.cwrite)
                          /\ r.song = "mis" => r.had = 0
Placed(r, d) == r.alone =>
    /\ r.ph \in {"renamed", "checked", "cleared", "done"} => d[Sc!Target(r.song)].k = Sc!Written(r.song)
    /\ r.ph = "done" /\ r.cwrite => d.elrc.k = "owned"
WriterInv == Sc!WritersTypeOK /\ \A p \in Writers : Fits(wr[p]) /\ Placed(wr[p], disk[wr[p].out])

(* One writer keeps companion and lyric in step at every call.               *)
InStep(r, d) ==
    /\ r.ph = "planned" => (r.removes <=> d.elrc.k = "owned")
    /\ r.ph \in {"temp", "guarded", "unlinked", "renamed", "checked", "cleared"} => d.elrc.k # "owned"
    /\ r.cwrite /\ r.ph \notin {"idle", "failed"} => r.song = "word"
    /\ r.ph \in {"renamed", "checked", "cleared"} /\ r.song = "word" => d.lrc.k # "none" /\ d.lrc.v = r.v
CompanionInv == /\ \A o \in Outs : Matched(disk[o])
                /\ \A p \in Writers : InStep(wr[p], disk[wr[p].out])

LEMMA NoCallIdle == ASSUME WriterConfigured
                    PROVE  Sc!NoCall \in Call /\ Sc!NoCall.ph = "idle"
BY DEF WriterConfigured, Sc!NoCall, Call, Sc!Phases, Sc!Songs, Sc!Opts

(* A step moves one call on; a call on the same output is no longer alone.   *)
SameButPhase(r, s) == /\ s.out = r.out /\ s.song = r.song /\ s.opt = r.opt /\ s.removes = r.removes
                      /\ s.cwrite = r.cwrite /\ s.stale = r.stale /\ s.v = r.v /\ s.had = r.had
Moved(p, ph) ==
    /\ wr' \in [Writers -> Call] /\ begun' = begun
    /\ \A q \in Writers : SameButPhase(wr[q], wr'[q])
    /\ wr'[p].ph = ph /\ wr'[p].alone = wr[p].alone
    /\ \A q \in Writers \ {p} : wr'[q].ph = wr[q].ph /\ (wr'[q].alone => wr[q].alone)

LEMMA StayMoves ==
    ASSUME Sc!WritersTypeOK, NEW p \in Writers, NEW ph \in Sc!Phases, Sc!Stay(p, ph)
    PROVE  Moved(p, ph) /\ disk' = disk
<1>1. /\ wr' = [wr EXCEPT ![p].ph = ph] /\ UNCHANGED <<disk, begun>> /\ wr \in [Writers -> Call]
  BY DEF Sc!Stay, Sc!Step, Sc!WritersTypeOK, Call
<1> QED BY <1>1 DEF Moved, SameButPhase, Call

LEMMA Disturbed ==
    ASSUME NEW r \in Call
    PROVE  LET s == [r EXCEPT !.alone = FALSE]
           IN  s \in Call /\ SameButPhase(r, s) /\ s.ph = r.ph /\ ~s.alone
BY DEF Call, SameButPhase

LEMMA PutMoves ==
    ASSUME Sc!WritersTypeOK, NEW p \in Writers, NEW ph \in Sc!Phases, NEW f, NEW c, Sc!Put(p, f, c, ph)
    PROVE  /\ Moved(p, ph)
           /\ \A q \in Writers \ {p} : wr[q].out = wr[p].out /\ wr[q].ph # "idle" => ~wr'[q].alone
<1> DEFINE s == Sc!Step(p, ph)
<1>1. /\ s = [wr EXCEPT ![p].ph = ph] /\ wr \in [Writers -> Call] /\ begun' = begun
      /\ wr' = Sc!Disturb(s, p)
  BY DEF Sc!Put, Sc!Step, Sc!WritersTypeOK, Call
<1>2. /\ s \in [Writers -> Call]
      /\ \A q \in Writers : SameButPhase(wr[q], s[q]) /\ s[q].alone = wr[q].alone
      /\ s[p].ph = ph /\ \A q \in Writers \ {p} : s[q].ph = wr[q].ph
  BY <1>1 DEF SameButPhase, Call
<1> HIDE DEF s
<1>3. \A q \in Writers : wr'[q] = IF q # p /\ s[q].out = s[p].out /\ s[q].ph # "idle"
                                  THEN [s[q] EXCEPT !.alone = FALSE] ELSE s[q]
  BY <1>1, <1>2 DEF Sc!Disturb
<1>4. ASSUME NEW q \in Writers
      PROVE  /\ wr'[q] \in Call /\ SameButPhase(s[q], wr'[q]) /\ wr'[q].ph = s[q].ph
             /\ \/ wr'[q].alone = s[q].alone /\ ~(q # p /\ s[q].out = s[p].out /\ s[q].ph # "idle")
                \/ ~wr'[q].alone /\ q # p
  <2> DEFINE r == s[q]
  <2>1. r \in Call
    BY <1>2
  <2>2. CASE q # p /\ s[q].out = s[p].out /\ s[q].ph # "idle"
    <3>1. wr'[q] = [r EXCEPT !.alone = FALSE]
      BY <1>3, <2>2
    <3> HIDE DEF r
    <3>2. wr'[q] \in Call /\ SameButPhase(r, wr'[q]) /\ wr'[q].ph = r.ph /\ ~wr'[q].alone
      BY <2>1, <3>1, Disturbed
    <3> QED BY <2>2, <3>2 DEF r
  <2>3. CASE ~(q # p /\ s[q].out = s[p].out /\ s[q].ph # "idle")
    <3>1. wr'[q] = s[q]
      BY <1>3, <2>3
    <3> QED BY <2>1, <2>3, <3>1 DEF SameButPhase
  <2> QED BY <2>2, <2>3
<1>5. wr' \in [Writers -> Call]
  BY <1>1, <1>4 DEF Sc!Disturb
<1>6. ASSUME NEW q \in Writers
      PROVE  /\ SameButPhase(wr[q], wr'[q]) /\ wr'[q].ph = s[q].ph
             /\ q # p /\ wr'[q].alone => wr[q].alone
             /\ q # p /\ wr[q].out = wr[p].out /\ wr[q].ph # "idle" => ~wr'[q].alone
  <2>1. SameButPhase(wr[q], s[q]) /\ s[q].alone = wr[q].alone /\ SameButPhase(wr[p], s[p])
    BY <1>2
  <2>2. q # p => s[q].ph = wr[q].ph
    BY <1>2
  <2> QED BY <1>4, <2>1, <2>2 DEF SameButPhase
<1>7. wr'[p].alone = wr[p].alone
  BY <1>2, <1>4
<1> QED BY <1>1, <1>2, <1>5, <1>6, <1>7 DEF Moved

(* A file of a stem is replaced by one of its own kinds.                     *)
LEMMA PutFile ==
    ASSUME Sc!WritersTypeOK, NEW p \in Writers, NEW ph \in Sc!Phases, NEW f \in {"lrc", "txt", "elrc"},
           NEW c, Sc!Put(p, f, c, ph),
           c.v \in 0..MaxWrites, c = [k |-> c.k, v |-> c.v],
           f = "lrc" => c.k \in {"none", "line", "word"},
           f = "txt" => c.k \in {"none", "marker", "text", "manual"},
           f = "elrc" => c.k \in {"none", "owned", "foreign"}
    PROVE  /\ disk' \in [Outs -> Sc!SidecarKinds]
           /\ \A o \in Outs, g \in {"lrc", "txt", "elrc"} :
                 disk'[o][g] = IF o = wr[p].out /\ g = f THEN c ELSE disk[o][g]
<1> DEFINE o1 == wr[p].out
           d == disk[o1]
           d1 == [d EXCEPT ![f] = c]
<1>1. o1 \in Outs /\ disk \in [Outs -> Sc!SidecarKinds]
  BY DEF Sc!WritersTypeOK
<1>2. disk' = [disk EXCEPT ![o1] = d1]
  BY DEF Sc!Put
<1>3. /\ d1 \in Sc!SidecarKinds
      /\ \A g \in {"lrc", "txt", "elrc"} : d1[g] = IF g = f THEN c ELSE d[g]
  <2>1. d \in Sc!SidecarKinds
    BY <1>1
  <2> HIDE DEF d
  <2> QED BY <2>1 DEF Sc!SidecarKinds
<1> HIDE DEF o1, d1
<1>4. disk' \in [Outs -> Sc!SidecarKinds] /\ \A o \in Outs : disk'[o] = IF o = o1 THEN d1 ELSE disk[o]
  BY <1>1, <1>2, <1>3
<1> QED BY <1>3, <1>4 DEF o1

-----------------------------------------------------------------------------
(* What a call does when it only moves on.                                   *)
LEMMA StayKeeps ==
    ASSUME WriterInv, NEW p \in Writers, NEW ph \in Sc!Phases \ {"idle", "planned"}, Sc!Stay(p, ph),
           wr[p].ph \notin {"idle", "done", "failed"},
           ph = "renamed" => wr[p].ph = "renamed",
           ph \in {"checked", "cleared"} => wr[p].ph \in {"renamed", "checked"},
           ph = "done" => wr[p].ph = "cleared" /\ ~wr[p].cwrite
    PROVE  WriterInv'
<1>1. Moved(p, ph) /\ disk' = disk
  BY StayMoves DEF WriterInv
<1>2. Sc!WritersTypeOK'
  BY <1>1 DEF Moved, WriterInv, Sc!WritersTypeOK, Call
<1>3. ASSUME NEW q \in Writers PROVE (Fits(wr[q]) /\ Placed(wr[q], disk[wr[q].out]))'
  <2>1. SameButPhase(wr[q], wr'[q]) /\ Fits(wr[q]) /\ Placed(wr[q], disk[wr[q].out])
    BY <1>1 DEF Moved, WriterInv
  <2>2. CASE q = p
    BY <1>1, <2>1, <2>2 DEF Moved, SameButPhase, Fits, Placed
  <2>3. CASE q # p
    <3>1. wr'[q].ph = wr[q].ph /\ (wr'[q].alone => wr[q].alone)
      BY <1>1, <2>3 DEF Moved
    <3> QED BY <1>1, <2>1, <3>1 DEF SameButPhase, Fits, Placed
  <2> QED BY <2>2, <2>3
<1> QED BY <1>2, <1>3 DEF WriterInv

(* What a call does when it puts a file.                                     *)
LEMMA PutKeeps ==
    ASSUME WriterInv, NEW p \in Writers, NEW ph \in Sc!Phases \ {"idle", "planned", "failed"},
           NEW f \in {"lrc", "txt", "elrc"}, NEW c, Sc!Put(p, f, c, ph),
           c.v \in 0..MaxWrites, c = [k |-> c.k, v |-> c.v],
           f = "lrc" => c.k \in {"none", "line", "word"},
           f = "txt" => c.k \in {"none", "marker", "text", "manual"},
           f = "elrc" => c.k \in {"none", "owned", "foreign"},
           wr[p].ph \notin {"idle", "done", "failed"},
           ph = "renamed" => f = Sc!Target(wr[p].song) /\ c.k = Sc!Written(wr[p].song),
           ph \in {"checked", "cleared", "done"} =>
               wr[p].ph \in {"renamed", "checked", "cleared"} /\ f # Sc!Target(wr[p].song),
           ph = "done" => f = "elrc" /\ c.k = "owned"
    PROVE  WriterInv'
<1>1. /\ Moved(p, ph)
      /\ \A q \in Writers \ {p} : wr[q].out = wr[p].out /\ wr[q].ph # "idle" => ~wr'[q].alone
  BY PutMoves DEF WriterInv
<1>2. /\ disk' \in [Outs -> Sc!SidecarKinds]
      /\ \A o \in Outs, g \in {"lrc", "txt", "elrc"} :
            disk'[o][g] = IF o = wr[p].out /\ g = f THEN c ELSE disk[o][g]
  BY PutFile DEF WriterInv
<1>3. Sc!WritersTypeOK'
  BY <1>1, <1>2 DEF Moved, WriterInv, Sc!WritersTypeOK, Call
<1>4. ASSUME NEW q \in Writers PROVE (Fits(wr[q]) /\ Placed(wr[q], disk[wr[q].out]))'
  <2>1. /\ SameButPhase(wr[q], wr'[q]) /\ Fits(wr[q]) /\ Placed(wr[q], disk[wr[q].out])
        /\ wr[q].out \in Outs /\ wr'[q].out = wr[q].out
    BY <1>1 DEF Moved, WriterInv, Sc!WritersTypeOK, SameButPhase
  <2> DEFINE o == wr[q].out
  <2>2. Sc!Target(wr[q].song) \in {"lrc", "txt"}
    BY DEF Sc!Target
  <2>3. CASE q = p
    <3>1. /\ wr'[p].ph = ph /\ wr'[p].alone = wr[p].alone
      BY <1>1 DEF Moved
    <3>2. Fits(wr'[q])
      BY <2>1, <2>3, <3>1 DEF Fits, SameButPhase
    <3>3. \A g \in {"lrc", "txt", "elrc"} : disk'[o][g] = IF g = f THEN c ELSE disk[o][g]
      BY <1>2, <2>1, <2>3
    <3>4. Placed(wr'[q], disk'[o])
      <4>1. disk'[o]["elrc"] = IF f = "elrc" THEN c ELSE disk[o]["elrc"]
        BY <3>3
      <4>2. disk'[o][Sc!Target(wr[q].song)] = IF f = Sc!Target(wr[q].song) THEN c ELSE disk[o][Sc!Target(wr[q].song)]
        BY <2>2, <3>3
      <4> QED BY <2>1, <2>3, <3>1, <4>1, <4>2 DEF Placed, SameButPhase
    <3> QED BY <2>1, <3>2, <3>4
  <2>4. CASE q # p
    <3>1. wr'[q].ph = wr[q].ph /\ (wr'[q].alone => wr[q].alone)
      BY <1>1, <2>4 DEF Moved
    <3>2. Fits(wr'[q])
      BY <2>1, <3>1 DEF Fits, SameButPhase
    <3>3. Placed(wr'[q], disk'[o])
      <4>1. CASE wr[q].ph = "idle"
        BY <3>1, <4>1 DEF Placed
      <4>2. CASE wr[q].out = wr[p].out /\ wr[q].ph # "idle"
        BY <1>1, <2>4, <4>2 DEF Placed
      <4>3. CASE wr[q].out # wr[p].out
        <5>1. \A g \in {"lrc", "txt", "elrc"} : disk'[o][g] = disk[o][g]
          BY <1>2, <2>1, <4>3
        <5>2. disk'[o]["elrc"] = disk[o]["elrc"] /\ disk'[o][Sc!Target(wr[q].song)] = disk[o][Sc!Target(wr[q].song)]
          BY <2>2, <5>1
        <5> QED BY <2>1, <3>1, <5>2 DEF Placed, SameButPhase
      <4> QED BY <4>1, <4>2, <4>3
    <3> QED BY <2>1, <3>2, <3>3
  <2> QED BY <2>3, <2>4
<1> QED BY <1>3, <1>4 DEF WriterInv
LEMMA DiskRanks ==
    ASSUME NEW d \in Sc!SidecarKinds
    PROVE  /\ Sc!classifyOnDisk(d) \in 0..4
           /\ ~Sc!settledSidecar(d) => Sc!classifyOnDisk(d) = 0
<1>1. Files(d)
  BY FilesOf
<1> QED BY <1>1 DEF Files, Sc!classifyOnDisk, Sc!LrcRung, Sc!TxtRung, Sc!settledSidecar

(* What a started call has planned.                                          *)
LEMMA ProbeStarts ==
    ASSUME WriterConfigured, WriterInv, NEW p \in Writers, NEW o \in Outs,
           NEW s \in Sc!Songs \ {"manual"}, NEW opt \in Sc!Opts, Sc!Probe(p, o, s, opt)
    PROVE  /\ disk' = disk /\ Sc!WritersTypeOK'
           /\ \A q \in Writers \ {p} : wr'[q] = wr[q]
           /\ wr'[p].ph = "planned" /\ wr'[p].out = o /\ wr'[p].song = s
           /\ wr'[p].removes <=> disk[o].elrc.k = "owned"
           /\ Fits(wr'[p])
<1> DEFINE c == Sc!planCompanion(disk[o], s)
           st == disk[o][Sc!oppositeSidecar(Sc!Target(s))].k # "none"
           h == Sc!classifyOnDisk(disk[o])
<1>1. /\ disk' = disk /\ begun' = begun + 1 /\ begun' <= MaxWrites /\ ~Sc!Kept(disk[o], s, opt, c.write)
      /\ wr' = [wr EXCEPT ![p] =
                 [ph |-> "planned", out |-> o, song |-> s, opt |-> opt, removes |-> c.removes,
                  cwrite |-> c.write, stale |-> st, v |-> begun + 1, had |-> h, alone |-> TRUE]]
  BY DEF Sc!Probe
<1>2. disk \in [Outs -> Sc!SidecarKinds] /\ begun \in 0..MaxWrites /\ wr \in [Writers -> Call]
  BY DEF WriterInv, Sc!WritersTypeOK, Call
<1>3. h \in 0..4 /\ (~Sc!settledSidecar(disk[o]) => h = 0)
  BY <1>2, DiskRanks
<1>4. /\ c.removes \in BOOLEAN /\ c.write \in BOOLEAN
      /\ c.removes <=> disk[o].elrc.k = "owned"
      /\ c.write => s = "word" /\ Companion
  <2>1. c = [removes |-> disk[o].elrc.k = "owned",
             write |-> disk[o].elrc.k # "foreign" /\ s = "word" /\ Companion]
    BY DEF Sc!planCompanion
  <2> DEFINE b == disk[o].elrc.k # "foreign" /\ s = "word" /\ Companion
             a == disk[o].elrc.k = "owned"
  <2>2. a \in BOOLEAN /\ b \in BOOLEAN /\ (b => s = "word" /\ Companion)
    OBVIOUS
  <2> HIDE DEF a, b
  <2>3. c.removes = a /\ c.write = b
    BY <2>1 DEF a, b
  <2> QED BY <2>2, <2>3 DEF a
<1>5. opt # "force" => h <= Sc!candidateRung(s, c.write) /\ (s = "mis" => h = 0)
  <2>1. s = "mis" => ~Sc!settledSidecar(disk[o])
    BY <1>1 DEF Sc!Kept
  <2>2. opt # "force" => ~(Sc!candidateRung(s, c.write) < h)
    BY <1>1 DEF Sc!Kept
  <2>3. Sc!candidateRung(s, c.write) \in 0..4
    BY DEF Sc!candidateRung, Sc!RungOfSong
  <2> QED BY <1>3, <2>1, <2>2, <2>3
<1>6. st \in BOOLEAN
  OBVIOUS
<1> HIDE DEF c, st, h
<1>7. begun + 1 \in 0..MaxWrites /\ begun' \in 0..MaxWrites
  BY <1>1, <1>2 DEF WriterConfigured
<1>8. /\ wr' \in [Writers -> Call]
      /\ \A q \in Writers \ {p} : wr'[q] = wr[q]
      /\ wr'[p] = [ph |-> "planned", out |-> o, song |-> s, opt |-> opt, removes |-> c.removes,
                   cwrite |-> c.write, stale |-> st, v |-> begun + 1, had |-> h, alone |-> TRUE]
  BY <1>1, <1>2, <1>3, <1>4, <1>6, <1>7 DEF Call, Sc!Phases
<1>9. Sc!WritersTypeOK'
  BY <1>1, <1>2, <1>7, <1>8 DEF Sc!WritersTypeOK, Call
<1> QED BY <1>1, <1>4, <1>5, <1>8, <1>9 DEF Fits

LEMMA ProbeKeeps ==
    ASSUME WriterConfigured, WriterInv, NEW p \in Writers, NEW o \in Outs,
           NEW s \in Sc!Songs \ {"manual"}, NEW opt \in Sc!Opts, Sc!Probe(p, o, s, opt)
    PROVE  WriterInv'
BY ProbeStarts DEF WriterInv, Placed

LEMMA KilledKeeps == ASSUME WriterConfigured, WriterInv, Sc!Killed PROVE WriterInv'
<1>1. /\ UNCHANGED <<disk, begun>> /\ wr' \in [Writers -> Call]
      /\ \A p \in Writers : wr'[p] = Sc!NoCall
  BY NoCallIdle DEF Sc!Killed, Sc!Die
<1> QED BY <1>1, NoCallIdle DEF WriterInv, Sc!WritersTypeOK, Call, Fits, Placed

LEMMA StepsKeep ==
    ASSUME WriterConfigured, WriterInv, NEW p \in Writers, Sc!WriteSteps(p)
    PROVE  WriterInv'
<1> DEFINE r == wr[p]
<1>0. /\ r \in Call /\ Fits(r) /\ Sc!Target(r.song) \in {"lrc", "txt"}
      /\ Sc!oppositeSidecar(Sc!Target(r.song)) \in {"lrc", "txt"} \ {Sc!Target(r.song)}
      /\ Sc!Absent.v \in 0..MaxWrites /\ Sc!Absent = [k |-> Sc!Absent.k, v |-> Sc!Absent.v] /\ Sc!Absent.k = "none"
  BY DEF WriterInv, Sc!WritersTypeOK, Call, Sc!Target, Sc!oppositeSidecar, Sc!Absent, WriterConfigured
<1>f. ASSUME NEW t, Sc!Fail(p, t), r.ph \notin {"idle", "done", "failed"} PROVE WriterInv'
  BY <1>f, StayKeeps DEF Sc!Fail, Sc!Phases
<1>1. CASE Sc!RemoveCompanion(p)
  BY <1>0, <1>1, <1>f, StayKeeps, PutKeeps DEF Sc!RemoveCompanion, Sc!Phases
<1>2. CASE Sc!recheckManualMarker(p)
  BY <1>2, <1>f, StayKeeps DEF Sc!recheckManualMarker, Sc!Phases
<1>3. CASE Sc!Unlink(p)
  BY <1>0, <1>3, <1>f, PutKeeps DEF Sc!Unlink, Sc!Phases
<1>4. CASE Sc!Rename(p)
  <2>1. CASE Sc!Put(p, Sc!Target(r.song), [k |-> Sc!Written(r.song), v |-> r.v], "renamed") /\ r.ph = "unlinked"
    <3>1. /\ Sc!Target(r.song) = "lrc" => Sc!Written(r.song) \in {"none", "line", "word"}
          /\ Sc!Target(r.song) = "txt" => Sc!Written(r.song) \in {"none", "marker", "text", "manual"}
          /\ r.v \in 0..MaxWrites
      BY <1>0 DEF Call, Sc!Songs, Sc!Target, Sc!Written
    <3> QED BY <1>0, <2>1, <3>1, PutKeeps DEF Sc!Phases
  <2> QED BY <1>4, <1>f, <2>1 DEF Sc!Rename
<1>5. CASE Sc!StaleCheck(p)
  BY <1>5, StayKeeps DEF Sc!StaleCheck, Sc!Phases
<1>6. CASE Sc!StaleRemove(p)
  BY <1>0, <1>6, StayKeeps, PutKeeps DEF Sc!StaleRemove, Sc!Phases
<1>7. CASE Sc!WriteCompanion(p)
  <2>1. CASE r.ph = "cleared" /\ Sc!Put(p, "elrc", [k |-> "owned", v |-> r.v], "done")
    <3>1. r.v \in 0..MaxWrites
      BY <1>0 DEF Call
    <3> QED BY <1>0, <2>1, <3>1, PutKeeps DEF Sc!Phases
  <2> QED BY <1>7, <1>f, <2>1, StayKeeps DEF Sc!WriteCompanion, Sc!Phases
<1> QED BY <1>1, <1>2, <1>3, <1>4, <1>5, <1>6, <1>7 DEF Sc!WriteSteps

LEMMA WriterStep == ASSUME WriterConfigured, WriterInv, [Sc!WriterNext]_Sc!wvars PROVE WriterInv'
<1>1. CASE Sc!Killed
  BY <1>1, KilledKeeps
<1>2. ASSUME NEW p \in Writers, Sc!Writing(p) PROVE WriterInv'
  BY <1>2, ProbeKeeps, StepsKeep DEF Sc!Writing
<1>3. CASE UNCHANGED Sc!wvars
  BY <1>3 DEF Sc!wvars, WriterInv, Sc!WritersTypeOK
<1> QED BY <1>1, <1>2, <1>3 DEF Sc!WriterNext

LEMMA WriterStarts == ASSUME WriterConfigured, Sc!WritersInit PROVE WriterInv
<1>1. Sc!WritersTypeOK
  BY NoCallIdle DEF WriterConfigured, Sc!WritersInit, Sc!WritersTypeOK, Call
<1> QED BY <1>1, NoCallIdle DEF Sc!WritersInit, WriterInv, Fits, Placed

LEMMA WriterHolds == ASSUME WriterConfigured PROVE Sc!WriterSpec => []WriterInv
<1>1. Sc!WritersInit => WriterInv
  BY WriterStarts
<1>2. WriterInv /\ [Sc!WriterNext]_Sc!wvars => WriterInv'
  BY WriterStep
<1> QED BY <1>1, <1>2, PTL DEF Sc!WriterSpec

-----------------------------------------------------------------------------
(* The steps of the only writer, and the companions.                         *)
LEMMA OnlyWriter ==
    ASSUME OneWriter, WriterInv, CompanionInv, NEW p \in Writers, NEW d,
           d = disk'[wr'[p].out], wr'[p].out = wr[p].out,
           \A o \in Outs \ {wr[p].out} : disk'[o] = disk[o],
           Matched(d), InStep(wr'[p], d)
    PROVE  CompanionInv'
<1>1. \A q \in Writers : q = p
  BY DEF OneWriter
<1>2. \A o \in Outs : Matched(disk'[o])
  BY DEF CompanionInv
<1>3. \A q \in Writers : InStep(wr'[q], disk'[wr'[q].out])
  BY <1>1
<1> QED BY <1>2, <1>3 DEF CompanionInv

LEMMA StayInStep ==
    ASSUME OneWriter, WriterInv, CompanionInv, NEW p \in Writers,
           NEW ph \in Sc!Phases \ {"idle", "planned", "renamed"}, Sc!Stay(p, ph),
           wr[p].ph \notin {"idle", "done", "failed"},
           ph = "temp" => ~wr[p].removes,
           ph \in {"guarded", "unlinked"} => wr[p].ph = "temp",
           ph \in {"checked", "cleared"} => wr[p].ph \in {"renamed", "checked"}
    PROVE  CompanionInv'
<1> DEFINE d == disk[wr[p].out]
<1>1. Moved(p, ph) /\ disk' = disk
  BY StayMoves DEF WriterInv
<1>2. SameButPhase(wr[p], wr'[p]) /\ wr'[p].ph = ph
  BY <1>1 DEF Moved
<1>3. /\ wr[p].out \in Outs /\ wr[p].removes \in BOOLEAN
      /\ wr[p].ph \in Sc!Phases /\ Matched(d) /\ InStep(wr[p], d) /\ Fits(wr[p])
  BY DEF WriterInv, Sc!WritersTypeOK, CompanionInv
<1>4. d = disk'[wr'[p].out] /\ wr'[p].out = wr[p].out
  BY <1>1, <1>2 DEF SameButPhase
<1> HIDE DEF d
<1>5. InStep(wr'[p], d)
  BY <1>2, <1>3 DEF InStep, SameButPhase, Sc!Phases
<1> QED BY <1>1, <1>3, <1>4, <1>5, OnlyWriter

LEMMA PutInStep ==
    ASSUME OneWriter, WriterInv, CompanionInv, NEW p \in Writers,
           NEW ph \in Sc!Phases \ {"idle", "planned", "failed"},
           NEW f \in {"lrc", "txt", "elrc"}, NEW c, Sc!Put(p, f, c, ph),
           c.v \in 0..MaxWrites, c = [k |-> c.k, v |-> c.v],
           f = "lrc" => c.k \in {"none", "line", "word"},
           f = "txt" => c.k \in {"none", "marker", "text", "manual"},
           f = "elrc" => c.k \in {"none", "owned", "foreign"}
    PROVE  /\ wr'[p].out = wr[p].out
           /\ SameButPhase(wr[p], wr'[p]) /\ wr'[p].ph = ph
           /\ \A o \in Outs \ {wr[p].out} : disk'[o] = disk[o]
           /\ disk'[wr'[p].out].lrc = IF f = "lrc" THEN c ELSE disk[wr[p].out].lrc
           /\ disk'[wr'[p].out].elrc = IF f = "elrc" THEN c ELSE disk[wr[p].out].elrc
<1>1. Moved(p, ph)
  BY PutMoves DEF WriterInv
<1>2. SameButPhase(wr[p], wr'[p]) /\ wr'[p].ph = ph /\ wr[p].out \in Outs /\ wr'[p].out = wr[p].out
  BY <1>1 DEF Moved, WriterInv, Sc!WritersTypeOK, SameButPhase
<1>3. /\ disk' \in [Outs -> Sc!SidecarKinds]
      /\ \A o \in Outs, g \in {"lrc", "txt", "elrc"} :
            disk'[o][g] = IF o = wr[p].out /\ g = f THEN c ELSE disk[o][g]
  BY PutFile DEF WriterInv
<1>4. \A o \in Outs \ {wr[p].out} : disk'[o] = disk[o]
  BY DEF Sc!Put, WriterInv, Sc!WritersTypeOK
<1>5. disk'[wr[p].out] \in Sc!SidecarKinds
  BY <1>2, <1>3
<1>6. \A g \in {"lrc", "txt", "elrc"} : disk'[wr[p].out][g] = IF g = f THEN c ELSE disk[wr[p].out][g]
  BY <1>2, <1>3
<1>7. /\ disk'[wr[p].out]["lrc"] = IF f = "lrc" THEN c ELSE disk[wr[p].out]["lrc"]
      /\ disk'[wr[p].out]["elrc"] = IF f = "elrc" THEN c ELSE disk[wr[p].out]["elrc"]
  BY <1>6
<1> QED BY <1>2, <1>4, <1>5, <1>7

LEMMA StepsStayMatched ==
    ASSUME WriterConfigured, OneWriter, WriterInv, CompanionInv, NEW p \in Writers, Sc!WriteSteps(p)
    PROVE  CompanionInv'
<1> DEFINE r == wr[p]
           e == disk[r.out]
<1>0. /\ r \in Call /\ Fits(r) /\ Sc!Target(r.song) \in {"lrc", "txt"} /\ r.removes \in BOOLEAN
      /\ Sc!oppositeSidecar(Sc!Target(r.song)) \in {"lrc", "txt"} \ {Sc!Target(r.song)}
      /\ Sc!Absent.v \in 0..MaxWrites /\ Sc!Absent = [k |-> Sc!Absent.k, v |-> Sc!Absent.v] /\ Sc!Absent.k = "none"
      /\ r.song = "word" => Sc!Target(r.song) = "lrc" /\ Sc!Written(r.song) # "none"
      /\ Matched(e) /\ InStep(r, e)
  BY DEF WriterInv, Sc!WritersTypeOK, Call, Sc!Target, Sc!oppositeSidecar, Sc!Absent, WriterConfigured, Sc!Written,
         CompanionInv
<1>f. ASSUME NEW t, Sc!Fail(p, t), r.ph \notin {"idle", "done", "failed"} PROVE CompanionInv'
  BY <1>f, StayInStep DEF Sc!Fail, Sc!Phases
<1>1. CASE Sc!RemoveCompanion(p)
  <2>1. CASE r.ph = "planned" /\ Sc!Put(p, "elrc", Sc!Absent, "temp")
    <3> DEFINE d == disk'[wr'[p].out]
    <3>1. /\ wr'[p].out = wr[p].out
          /\ SameButPhase(wr[p], wr'[p]) /\ wr'[p].ph = "temp"
          /\ \A o \in Outs \ {wr[p].out} : disk'[o] = disk[o]
          /\ d.lrc = e.lrc /\ d.elrc = Sc!Absent
      BY <1>0, <2>1, PutInStep DEF Sc!Phases
    <3>2. Matched(d) /\ InStep(wr'[p], d)
      BY <1>0, <2>1, <3>1 DEF Matched, InStep, SameButPhase
    <3> QED BY <3>1, <3>2, OnlyWriter
  <2> QED BY <1>1, <1>f, <2>1, StayInStep DEF Sc!RemoveCompanion, Sc!Phases
<1>2. CASE Sc!recheckManualMarker(p)
  BY <1>2, <1>f, StayInStep DEF Sc!recheckManualMarker, Sc!Phases
<1>3. CASE Sc!Unlink(p)
  <2>1. CASE r.ph = "guarded" /\ Sc!Put(p, Sc!Target(r.song), Sc!Absent, "unlinked")
    <3> DEFINE d == disk'[wr'[p].out]
    <3>1. /\ wr'[p].out = wr[p].out
          /\ SameButPhase(wr[p], wr'[p]) /\ wr'[p].ph = "unlinked"
          /\ \A o \in Outs \ {wr[p].out} : disk'[o] = disk[o]
          /\ d.elrc = e.elrc
      BY <1>0, <2>1, PutInStep DEF Sc!Phases
    <3>2. Matched(d) /\ InStep(wr'[p], d)
      BY <1>0, <2>1, <3>1 DEF Matched, InStep, SameButPhase
    <3> QED BY <3>1, <3>2, OnlyWriter
  <2> QED BY <1>3, <1>f, <2>1 DEF Sc!Unlink
<1>4. CASE Sc!Rename(p)
  <2> DEFINE c == [k |-> Sc!Written(r.song), v |-> r.v]
  <2>1. CASE Sc!Put(p, Sc!Target(r.song), c, "renamed") /\ r.ph = "unlinked"
    <3>1. /\ Sc!Target(r.song) = "lrc" => Sc!Written(r.song) \in {"none", "line", "word"}
          /\ Sc!Target(r.song) = "txt" => Sc!Written(r.song) \in {"none", "marker", "text", "manual"}
          /\ r.v \in 0..MaxWrites
      BY <1>0 DEF Call, Sc!Songs, Sc!Target, Sc!Written
    <3>2. c.k = Sc!Written(r.song) /\ c.v = r.v /\ c = [k |-> c.k, v |-> c.v]
      OBVIOUS
    <3> HIDE DEF c
    <3>t. PICK f \in {"lrc", "txt"} : f = Sc!Target(r.song)
      BY <1>0
    <3>p. Sc!Put(p, f, c, "renamed")
      BY <2>1, <3>t
    <3>c. /\ c.v \in 0..MaxWrites /\ c = [k |-> c.k, v |-> c.v]
          /\ f = "lrc" => c.k \in {"none", "line", "word"}
          /\ f = "txt" => c.k \in {"none", "marker", "text", "manual"}
      BY <3>1, <3>2, <3>t
    <3> DEFINE d == disk'[wr'[p].out]
    <3>3. /\ wr'[p].out = wr[p].out
          /\ SameButPhase(wr[p], wr'[p]) /\ wr'[p].ph = "renamed"
          /\ \A o \in Outs \ {wr[p].out} : disk'[o] = disk[o]
          /\ d.lrc = IF f = "lrc" THEN c ELSE e.lrc
          /\ d.elrc = e.elrc
      <4>1. CASE f = "lrc"
        BY <3>c, <3>p, <4>1, PutInStep DEF Sc!Phases
      <4>2. CASE f = "txt"
        BY <3>c, <3>p, <4>2, PutInStep DEF Sc!Phases
      <4> QED BY <4>1, <4>2
    <3>4. Matched(d) /\ InStep(wr'[p], d)
      BY <1>0, <2>1, <3>2, <3>t, <3>3 DEF Matched, InStep, SameButPhase
    <3> QED BY <3>3, <3>4, OnlyWriter
  <2> QED BY <1>4, <1>f, <2>1 DEF Sc!Rename
<1>5. CASE Sc!StaleCheck(p)
  BY <1>5, StayInStep DEF Sc!StaleCheck, Sc!Phases
<1>6. CASE Sc!StaleRemove(p)
  <2>1. CASE r.ph = "checked" /\ Sc!Put(p, Sc!oppositeSidecar(Sc!Target(r.song)), Sc!Absent, "cleared")
    <3> DEFINE c == Sc!Absent
    <3>t. PICK f \in {"lrc", "txt"} : f = Sc!oppositeSidecar(Sc!Target(r.song))
      BY <1>0
    <3>p. Sc!Put(p, f, c, "cleared")
      BY <2>1, <3>t
    <3>c. c.v \in 0..MaxWrites /\ c = [k |-> c.k, v |-> c.v] /\ c.k = "none"
      BY <1>0
    <3> HIDE DEF c
    <3> DEFINE d == disk'[wr'[p].out]
    <3>1. /\ wr'[p].out = wr[p].out
          /\ SameButPhase(wr[p], wr'[p]) /\ wr'[p].ph = "cleared"
          /\ \A o \in Outs \ {wr[p].out} : disk'[o] = disk[o]
          /\ d.lrc = IF f = "lrc" THEN c ELSE e.lrc
          /\ d.elrc = e.elrc
      BY <3>c, <3>p, PutInStep DEF Sc!Phases
    <3>2. Matched(d) /\ InStep(wr'[p], d)
      BY <1>0, <2>1, <3>1, <3>t DEF Matched, InStep, SameButPhase
    <3> QED BY <3>1, <3>2, OnlyWriter
  <2> QED BY <1>6, <2>1, StayInStep DEF Sc!StaleRemove, Sc!Phases
<1>7. CASE Sc!WriteCompanion(p)
  <2> DEFINE c == [k |-> "owned", v |-> r.v]
  <2>1. CASE r.ph = "cleared" /\ r.cwrite /\ Sc!Put(p, "elrc", c, "done")
    <3>1. r.v \in 0..MaxWrites
      BY <1>0 DEF Call
    <3>2. c.k = "owned" /\ c.v = r.v /\ c = [k |-> c.k, v |-> c.v]
      OBVIOUS
    <3> HIDE DEF c
    <3> DEFINE d == disk'[wr'[p].out]
    <3>3. /\ wr'[p].out = wr[p].out
          /\ SameButPhase(wr[p], wr'[p]) /\ wr'[p].ph = "done"
          /\ \A o \in Outs \ {wr[p].out} : disk'[o] = disk[o]
          /\ d.lrc = e.lrc /\ d.elrc = c
      BY <1>0, <2>1, <3>1, <3>2, PutInStep DEF Sc!Phases
    <3>4. Matched(d) /\ InStep(wr'[p], d)
      BY <1>0, <2>1, <3>2, <3>3 DEF Matched, InStep, SameButPhase
    <3> QED BY <3>3, <3>4, OnlyWriter
  <2> QED BY <1>7, <1>f, <2>1, StayInStep DEF Sc!WriteCompanion, Sc!Phases
<1> QED BY <1>1, <1>2, <1>3, <1>4, <1>5, <1>6, <1>7 DEF Sc!WriteSteps

LEMMA MatchedStep ==
    ASSUME WriterConfigured, OneWriter, WriterInv, CompanionInv, [Sc!WriterNext]_Sc!wvars
    PROVE  CompanionInv'
<1>1. CASE Sc!Killed
  <2>1. disk' = disk /\ \A p \in Writers : wr'[p] = Sc!NoCall
    BY <1>1 DEF Sc!Killed, Sc!Die
  <2> QED BY <2>1, NoCallIdle DEF CompanionInv, InStep
<1>2. ASSUME NEW p \in Writers, NEW o \in Outs, NEW s \in Sc!Songs \ {"manual"}, NEW opt \in Sc!Opts,
             Sc!Probe(p, o, s, opt)
      PROVE  CompanionInv'
  <2>1. /\ disk' = disk /\ wr'[p].ph = "planned" /\ wr'[p].out = o /\ Fits(wr'[p])
        /\ wr'[p].removes <=> disk[o].elrc.k = "owned"
    BY <1>2, ProbeStarts
  <2>2. \A q \in Writers : q = p
    BY DEF OneWriter
  <2>3. InStep(wr'[p], disk'[o])
    BY <2>1 DEF InStep, Fits
  <2> QED BY <2>1, <2>2, <2>3 DEF CompanionInv
<1>3. ASSUME NEW p \in Writers, Sc!WriteSteps(p) PROVE CompanionInv'
  BY <1>3, StepsStayMatched
<1>4. CASE UNCHANGED Sc!wvars
  BY <1>4 DEF Sc!wvars, CompanionInv
<1> QED BY <1>1, <1>2, <1>3, <1>4 DEF Sc!WriterNext, Sc!Writing

LEMMA MatchedHolds ==
    ASSUME WriterConfigured, OneWriter
    PROVE  Sc!WriterSpec => []CompanionInv
<1>1. Sc!WritersInit => CompanionInv
  BY NoCallIdle DEF Sc!WritersInit, CompanionInv, InStep, OneWriter
<1>2. WriterInv /\ CompanionInv /\ [Sc!WriterNext]_Sc!wvars => CompanionInv'
  BY MatchedStep
<1> QED BY <1>1, <1>2, WriterHolds, PTL DEF Sc!WriterSpec

-----------------------------------------------------------------------------
(* Files and calls keep their types. *)
THEOREM WriterTypesHold == ASSUME WriterConfigured PROVE Sc!WriterSpec => []Sc!WritersTypeOK
BY WriterHolds, PTL DEF WriterInv

(* A write that reports success, unforced and undisturbed, leaves no worse   *)
(* lyrics than it found: for any number of writers and outputs, any files    *)
(* found and any failures.                                                   *)
THEOREM WriterNeverDowngrades == ASSUME WriterConfigured PROVE Sc!WriterSpec => []Sc!NeverDowngrades
<1>1. ASSUME WriterInv, NEW p \in Writers, wr[p].ph = "done", wr[p].alone, wr[p].opt # "force"
      PROVE  Sc!classifyOnDisk(disk[wr[p].out]) >= wr[p].had
  <2> DEFINE d == disk[wr[p].out]
             r == wr[p]
  <2>1. /\ d \in Sc!SidecarKinds /\ r \in Call
        /\ r.song # "manual" /\ (r.cwrite => r.song = "word" /\ Companion)
        /\ r.had <= Sc!candidateRung(r.song, r.cwrite) /\ (r.song = "mis" => r.had = 0)
        /\ d[Sc!Target(r.song)].k = Sc!Written(r.song) /\ (r.cwrite => d.elrc.k = "owned")
    BY <1>1 DEF WriterInv, Sc!WritersTypeOK, Call, Fits, Placed
  <2>2. Files(d) /\ r.song \in Sc!Songs /\ r.had \in 0..4 /\ r.cwrite \in BOOLEAN
    BY <2>1, FilesOf DEF Call
  <2> HIDE DEF d, r
  <2>3. Sc!classifyOnDisk(d) >= r.had
    <3>1. Sc!LrcRung(d) \in 0..4 /\ Sc!TxtRung(d) \in 0..4
      BY DEF Sc!LrcRung, Sc!TxtRung
    <3>2. CASE r.song = "inst"
      BY <2>1, <2>2, <3>1, <3>2 DEF Files, Sc!Target, Sc!Written, Sc!candidateRung, Sc!RungOfSong, Sc!classifyOnDisk, Sc!TxtRung
    <3>3. CASE r.song = "text"
      BY <2>1, <2>2, <3>1, <3>3 DEF Files, Sc!Target, Sc!Written, Sc!candidateRung, Sc!RungOfSong, Sc!classifyOnDisk, Sc!TxtRung
    <3>4. CASE r.song = "mis"
      BY <2>1, <2>2, <3>1, <3>4 DEF Sc!classifyOnDisk
    <3>5. CASE r.song = "line"
      BY <2>1, <2>2, <3>1, <3>5 DEF Files, Sc!Target, Sc!Written, Sc!candidateRung, Sc!RungOfSong, Sc!classifyOnDisk, Sc!LrcRung
    <3>6. CASE r.song = "word"
      BY <2>1, <2>2, <3>1, <3>6 DEF Files, Sc!Target, Sc!Written, Sc!candidateRung, Sc!RungOfSong, Sc!classifyOnDisk, Sc!LrcRung
    <3> QED BY <2>1, <2>2, <3>2, <3>3, <3>4, <3>5, <3>6 DEF Sc!Songs
  <2> QED BY <2>3 DEF d, r
<1>2. WriterInv => Sc!NeverDowngrades
  BY <1>1 DEF Sc!NeverDowngrades
<1> QED BY <1>2, WriterHolds, PTL

(* A companion never stays beside lyrics of another write: for the only      *)
(* writer of any number of outputs, whatever call fails and whenever the     *)
(* process dies.                                                             *)
THEOREM WriterCompanionsMatch == ASSUME WriterConfigured, OneWriter PROVE Sc!WriterSpec => []Sc!CompanionMatches
<1>1. CompanionInv => Sc!CompanionMatches
  BY DEF CompanionInv, Sc!CompanionMatches, Matched
<1> QED BY <1>1, MatchedHolds, PTL

-----------------------------------------------------------------------------
(* Repair runs (Runner). *)

(* The bound on runs is a number.                                           *)
RunnerConfigured == RepairRuns \in Nat

RunPCs == {"none", "work", "finish", "closing", "gone"}
RunEnds == {"none", "done", "failed", "canceled"}
Runs == [key : RepairKeys \cup {"none"}, pc : RunPCs, canceled : BOOLEAN, state : RunEnds]
Snapshots == [id : 0 .. RepairRuns, key : RepairKeys \cup {"none"},
              state : {"idle", "running", "done", "failed", "canceled"}]

RunnerTypes ==
    /\ shut \in BOOLEAN /\ live \in 0 .. RepairRuns /\ last \in 0 .. RepairRuns /\ lastID \in 0 .. RepairRuns
    /\ repair \in [Ru!Ids -> Runs] /\ shown \in Snapshots
    /\ closer \in {"no", "waiting", "returned", "timedOut"}

(* Only the live run, the latest, is before its last locked step.           *)
OneLive ==
    /\ live \in {0, lastID} /\ last = lastID
    /\ \A i \in Ru!Ids : /\ repair[i].pc = "none" <=> i > lastID
                         /\ repair[i].pc \in {"work", "finish"} <=> i = live
                         /\ repair[i].pc # "none" => repair[i].state # "none"

(* The snapshot is that of the latest run.                                  *)
ShownIsLatest ==
    /\ shown.id = lastID
    /\ shown.state = "idle" <=> lastID = 0
    /\ shown.state = "running" <=> live # 0
    /\ lastID # 0 => shown.key = repair[lastID].key
    /\ lastID # 0 /\ live = 0 => shown.state = repair[lastID].state

(* Close has shut the door before it waits.                                 *)
WaitedOut ==
    /\ closer # "no" => shut
    /\ closer = "returned" => live = 0 /\ (lastID # 0 => repair[lastID].pc = "gone")

RunnerInv == RunnerTypes /\ OneLive /\ ShownIsLatest /\ WaitedOut

LEMMA RunnerInit == ASSUME RunnerConfigured, Ru!Init PROVE RunnerInv
<1>1. [id |-> 0, key |-> "none", state |-> "idle"] \in Snapshots
  <2>1. \A S : 0 \in S => [id |-> 0, key |-> "none", state |-> "idle"] \in
               [id : S, key : RepairKeys \cup {"none"}, state : {"idle", "running", "done", "failed", "canceled"}]
    OBVIOUS
  <2> QED BY <2>1 DEF RunnerConfigured, Snapshots
<1>2. Ru!NoRun \in Runs /\ Ru!NoRun.pc = "none"
  BY DEF Ru!NoRun, Runs, RunPCs, RunEnds
<1>3. \A i \in Ru!Ids : i > 0 /\ repair[i] = Ru!NoRun
  BY DEF Ru!Init, Ru!Ids, RunnerConfigured
<1>4. RunnerTypes
  <2>1. repair \in [Ru!Ids -> Runs]
    BY <1>2 DEF Ru!Init
  <2>2. shown \in Snapshots
    BY <1>1 DEF Ru!Init
  <2>3. live = 0 /\ last = 0 /\ lastID = 0 /\ shut = FALSE /\ closer = "no" /\ 0 \in 0 .. RepairRuns
    BY DEF Ru!Init, RunnerConfigured
  <2> QED BY <2>1, <2>2, <2>3 DEF RunnerTypes
<1>5. OneLive
  <2>1. live = 0 /\ last = 0 /\ lastID = 0
    BY DEF Ru!Init
  <2>2. ASSUME NEW i \in Ru!Ids PROVE i > 0 /\ i # 0 /\ repair[i].pc = "none"
    BY <1>2, <1>3
  <2> QED BY <2>1, <2>2 DEF OneLive
<1>6. ShownIsLatest /\ WaitedOut
  BY DEF Ru!Init, ShownIsLatest, WaitedOut
<1> QED BY <1>4, <1>5, <1>6 DEF RunnerInv

(* A step that only moves a run on, without touching what it stands for.    *)
LEMMA RunnerStart == ASSUME RunnerConfigured, RunnerInv, NEW k \in RepairKeys, Ru!Start(k) PROVE RunnerInv'
<1> DEFINE j == lastID + 1
           r == [key |-> k, pc |-> "work", canceled |-> FALSE, state |-> "failed"]
           c == [id |-> j, key |-> k, state |-> "running"]
<1>1. /\ live = 0 /\ ~shut /\ lastID \in 0 .. RepairRuns /\ lastID < RepairRuns
      /\ lastID' = j /\ live' = j /\ last' = j /\ shut' = shut /\ closer' = closer
      /\ repair' = [repair EXCEPT ![j] = r] /\ shown' = c
  BY DEF Ru!Start, Ru!Admits, Ru!Begin, RunnerInv, RunnerTypes
<1>2. j \in Ru!Ids /\ j \in 0 .. RepairRuns /\ j # 0 /\ j > lastID
  BY <1>1 DEF RunnerConfigured, Ru!Ids
<1>3. r \in Runs /\ r.pc = "work" /\ r.state = "failed" /\ r.key = k
  BY DEF Runs, RunPCs, RunEnds
<1>4. c \in Snapshots /\ c.id = j /\ c.key = k /\ c.state = "running"
  <2>1. \A S : j \in S => [id |-> j, key |-> k, state |-> "running"] \in
               [id : S, key : RepairKeys \cup {"none"}, state : {"idle", "running", "done", "failed", "canceled"}]
    OBVIOUS
  <2> QED BY <1>2, <2>1 DEF Snapshots
<1> HIDE DEF r, c
<1>5. repair'[j] = r /\ \A i \in Ru!Ids \ {j} : repair'[i] = repair[i]
  BY <1>1, <1>2 DEF RunnerInv, RunnerTypes
<1>6. RunnerTypes'
  BY <1>1, <1>2, <1>3, <1>4 DEF RunnerInv, RunnerTypes, RunnerConfigured
<1>7. OneLive'
  <2> SUFFICES ASSUME NEW i \in Ru!Ids
               PROVE  /\ repair'[i].pc = "none" <=> i > j
                      /\ repair'[i].pc \in {"work", "finish"} <=> i = j
                      /\ repair'[i].pc # "none" => repair'[i].state # "none"
    BY <1>1 DEF OneLive
  <2>1. CASE i = j
    BY <2>1, <1>2, <1>3, <1>5
  <2>2. CASE i # j
    <3>1. repair'[i] = repair[i] /\ i \in Nat /\ lastID \in Nat /\ i # 0
      BY <2>2, <1>1, <1>5 DEF Ru!Ids
    <3> QED BY <2>2, <3>1, <1>1 DEF RunnerInv, OneLive
  <2> QED BY <2>1, <2>2
<1>8. ShownIsLatest'
  BY <1>1, <1>2, <1>3, <1>4, <1>5 DEF ShownIsLatest
<1>9. WaitedOut'
  BY <1>1 DEF RunnerInv, WaitedOut, RunnerTypes
<1> QED BY <1>6, <1>7, <1>8, <1>9 DEF RunnerInv

LEMMA RunnerReturn == ASSUME RunnerConfigured, RunnerInv, NEW i \in Ru!Ids, Ru!Return(i) PROVE RunnerInv'
<1>1. PICK s \in {"done", "failed", "canceled"} :
         /\ repair' = [repair EXCEPT ![i].pc = "finish", ![i].state = s] /\ repair[i].pc = "work"
         /\ UNCHANGED <<shut, live, last, shown, lastID, closer>>
  BY DEF Ru!Return
<1>2. /\ repair' \in [Ru!Ids -> Runs] /\ repair'[i].pc = "finish" /\ repair'[i].state = s /\ repair'[i].key = repair[i].key
      /\ \A m \in Ru!Ids \ {i} : repair'[m] = repair[m]
  BY <1>1 DEF RunnerInv, RunnerTypes, Runs, RunPCs, RunEnds
<1>3. i = live /\ live = lastID /\ live # 0
  BY <1>1 DEF RunnerInv, OneLive, Ru!Ids
<1>4. RunnerTypes'
  BY <1>1, <1>2 DEF RunnerInv, RunnerTypes
<1>5. OneLive'
  BY <1>1, <1>2, <1>3 DEF RunnerInv, OneLive
<1>6. ShownIsLatest' /\ WaitedOut'
  BY <1>1, <1>2, <1>3 DEF RunnerInv, ShownIsLatest, WaitedOut
<1> QED BY <1>4, <1>5, <1>6 DEF RunnerInv

LEMMA RunnerFinish == ASSUME RunnerConfigured, RunnerInv, NEW i \in Ru!Ids, Ru!Finish(i) PROVE RunnerInv'
<1>1. /\ repair[i].pc = "finish" /\ repair' = [repair EXCEPT ![i].pc = "closing"]
      /\ live' = (IF live = i THEN 0 ELSE live)
      /\ UNCHANGED <<shut, last, lastID, closer>>
  BY DEF Ru!Finish
<1>2. i = live /\ live = lastID /\ live # 0 /\ live' = 0
  BY <1>1 DEF RunnerInv, OneLive, Ru!Ids
<1> DEFINE c == [id |-> i, key |-> repair[i].key, state |-> repair[i].state]
<1>3. shown' = c
  BY <1>2 DEF Ru!Finish, Ru!Finished, RunnerInv, ShownIsLatest
<1>4. repair[i].key \in RepairKeys \cup {"none"} /\ repair[i].state \in {"done", "failed", "canceled"}
  BY <1>1 DEF RunnerInv, RunnerTypes, Runs, RunEnds, OneLive
<1>5. c \in Snapshots /\ c.id = i /\ c.key = repair[i].key /\ c.state = repair[i].state
  <2>1. i \in 0 .. RepairRuns
    BY DEF Ru!Ids
  <2> QED BY <1>4, <2>1 DEF Snapshots
<1> HIDE DEF c
<1>6. /\ repair' \in [Ru!Ids -> Runs] /\ repair'[i].pc = "closing" /\ repair'[i].state = repair[i].state /\ repair'[i].key = repair[i].key
      /\ \A m \in Ru!Ids \ {i} : repair'[m] = repair[m]
  BY <1>1 DEF RunnerInv, RunnerTypes, Runs, RunPCs
<1>7. RunnerTypes'
  BY <1>1, <1>2, <1>3, <1>5, <1>6 DEF RunnerInv, RunnerTypes, RunnerConfigured
<1>8. OneLive'
  BY <1>1, <1>2, <1>4, <1>6 DEF RunnerInv, OneLive, Ru!Ids
<1>9. ShownIsLatest'
  BY <1>1, <1>2, <1>3, <1>4, <1>5, <1>6 DEF RunnerInv, ShownIsLatest
<1>10. WaitedOut'
  BY <1>1, <1>2, <1>6 DEF RunnerInv, WaitedOut
<1> QED BY <1>7, <1>8, <1>9, <1>10 DEF RunnerInv

LEMMA RunnerCloseLive == ASSUME RunnerConfigured, RunnerInv, NEW i \in Ru!Ids, Ru!CloseLive(i) PROVE RunnerInv'
<1>1. /\ repair[i].pc = "closing" /\ repair' = [repair EXCEPT ![i].pc = "gone"]
      /\ UNCHANGED <<shut, live, last, shown, lastID, closer>>
  BY DEF Ru!CloseLive
<1>2. /\ repair' \in [Ru!Ids -> Runs] /\ repair'[i].pc = "gone" /\ repair'[i].state = repair[i].state /\ repair'[i].key = repair[i].key
      /\ \A m \in Ru!Ids \ {i} : repair'[m] = repair[m]
  BY <1>1 DEF RunnerInv, RunnerTypes, Runs, RunPCs
<1>3. RunnerTypes'
  BY <1>1, <1>2 DEF RunnerInv, RunnerTypes
<1>4. OneLive'
  BY <1>1, <1>2 DEF RunnerInv, OneLive
<1>5. lastID \in 0 .. RepairRuns /\ (lastID # 0 => lastID \in Ru!Ids)
  BY DEF RunnerInv, RunnerTypes, Ru!Ids
<1>6. ShownIsLatest' /\ WaitedOut'
  BY <1>1, <1>2, <1>5 DEF RunnerInv, ShownIsLatest, WaitedOut
<1> QED BY <1>3, <1>4, <1>6 DEF RunnerInv

(* Canceling tells the live run and changes nothing else.                   *)
LEMMA TellsLive ==
    ASSUME RunnerConfigured, RunnerInv, live # 0, repair' = [repair EXCEPT ![live].canceled = TRUE]
    PROVE  /\ repair' \in [Ru!Ids -> Runs]
           /\ \A m \in Ru!Ids : repair'[m].pc = repair[m].pc /\ repair'[m].state = repair[m].state /\ repair'[m].key = repair[m].key
<1>1. live \in Ru!Ids /\ repair \in [Ru!Ids -> Runs]
  BY DEF RunnerInv, RunnerTypes, Ru!Ids
<1> QED BY <1>1 DEF Runs

LEMMA SameRunsKeep ==
    ASSUME RunnerConfigured, RunnerInv, repair' \in [Ru!Ids -> Runs],
           \A m \in Ru!Ids : repair'[m].pc = repair[m].pc /\ repair'[m].state = repair[m].state /\ repair'[m].key = repair[m].key,
           UNCHANGED <<live, last, shown, lastID>>
    PROVE  OneLive' /\ ShownIsLatest' /\ (lastID' # 0 => repair'[lastID'].pc = repair[lastID].pc)
<1>1. lastID \in 0 .. RepairRuns /\ (lastID # 0 => lastID \in Ru!Ids)
  BY DEF RunnerInv, RunnerTypes, Ru!Ids
<1>2. OneLive'
  BY DEF RunnerInv, OneLive
<1>3. ShownIsLatest'
  BY <1>1 DEF RunnerInv, ShownIsLatest
<1> QED BY <1>1, <1>2, <1>3

LEMMA RunnerCancel == ASSUME RunnerConfigured, RunnerInv, NEW k \in RepairKeys, Ru!CancelKey(k) PROVE RunnerInv'
<1>1. live # 0 /\ repair' = [repair EXCEPT ![live].canceled = TRUE] /\ UNCHANGED <<shut, live, last, shown, lastID, closer>>
  BY DEF Ru!CancelKey
<1>2. repair' \in [Ru!Ids -> Runs] /\ OneLive' /\ ShownIsLatest' /\ (lastID' # 0 => repair'[lastID'].pc = repair[lastID].pc)
  BY <1>1, TellsLive, SameRunsKeep
<1> QED BY <1>1, <1>2 DEF RunnerInv, RunnerTypes, WaitedOut

LEMMA RunnerClose == ASSUME RunnerConfigured, RunnerInv, Ru!Close PROVE RunnerInv'
<1>1. /\ shut' = TRUE /\ UNCHANGED <<live, last, shown, lastID>>
      /\ closer' = (IF last = 0 THEN "returned" ELSE "waiting")
      /\ repair' = IF live = 0 THEN repair ELSE [repair EXCEPT ![live].canceled = TRUE]
  BY DEF Ru!Close, Ru!Awaited
<1>2. /\ repair' \in [Ru!Ids -> Runs]
      /\ \A m \in Ru!Ids : repair'[m].pc = repair[m].pc /\ repair'[m].state = repair[m].state /\ repair'[m].key = repair[m].key
  BY <1>1, TellsLive DEF RunnerInv, RunnerTypes
<1>3. OneLive' /\ ShownIsLatest'
  BY <1>1, <1>2, SameRunsKeep
<1>4. RunnerTypes'
  BY <1>1, <1>2 DEF RunnerInv, RunnerTypes
<1>5. WaitedOut'
  BY <1>1 DEF RunnerInv, OneLive, WaitedOut
<1> QED BY <1>3, <1>4, <1>5 DEF RunnerInv

LEMMA RunnerWaits == ASSUME RunnerConfigured, RunnerInv, Ru!CloseReturns \/ Ru!CloseTimesOut PROVE RunnerInv'
<1>1. /\ closer = "waiting" /\ UNCHANGED <<shut, live, last, repair, shown, lastID>>
      /\ \/ closer' = "returned" /\ (last # 0 => repair[last].pc = "gone")
         \/ closer' = "timedOut"
  BY DEF Ru!CloseReturns, Ru!CloseTimesOut, Ru!Awaited
<1>2. RunnerTypes' /\ OneLive' /\ ShownIsLatest'
  BY <1>1 DEF RunnerInv, RunnerTypes, OneLive, ShownIsLatest
<1>3. lastID \in 0 .. RepairRuns /\ (lastID # 0 => lastID \in Ru!Ids)
  BY DEF RunnerInv, RunnerTypes, Ru!Ids
<1>4. WaitedOut'
  BY <1>1, <1>3 DEF RunnerInv, OneLive, WaitedOut
<1> QED BY <1>2, <1>4 DEF RunnerInv

LEMMA RunnerStep == ASSUME RunnerConfigured, RunnerInv, [Ru!Next]_Ru!vars PROVE RunnerInv'
<1>1. CASE UNCHANGED Ru!vars
  BY <1>1 DEF Ru!vars, RunnerInv, RunnerTypes, OneLive, ShownIsLatest, WaitedOut
<1>2. CASE Ru!Next
  BY <1>2, RunnerStart, RunnerCancel, RunnerReturn, RunnerFinish, RunnerCloseLive, RunnerClose, RunnerWaits DEF Ru!Next
<1> QED BY <1>1, <1>2

LEMMA RunnerHolds == ASSUME RunnerConfigured PROVE Ru!Spec => []RunnerInv
BY RunnerInit, RunnerStep, PTL DEF Ru!Spec

-----------------------------------------------------------------------------
(* Ids, snapshots and phases keep their types, and the live run is the      *)
(* latest.                                                                  *)
THEOREM RunnerTypesHold == ASSUME RunnerConfigured PROVE Ru!Spec => []Ru!TypeOK
<1>1. RunnerInv => Ru!TypeOK
  BY DEF RunnerInv, RunnerTypes, OneLive, Ru!TypeOK, Runs, RunPCs, RunEnds, Snapshots
<1> QED BY <1>1, RunnerHolds, PTL

(* One repair at a time, and the page says "running" exactly while it is    *)
(* (runner.go, runstore.go): for any repairs and any number of runs.        *)
THEOREM RunnerRunsOne == ASSUME RunnerConfigured PROVE Ru!Spec => []Ru!OneRunAtATime
<1>1. RunnerInv => Ru!OneRunAtATime
  <2> SUFFICES ASSUME RunnerInv PROVE Ru!OneRunAtATime
    OBVIOUS
  <2>1. live # 0 => live \in Ru!Ids
    BY DEF RunnerInv, RunnerTypes, Ru!Ids
  <2> QED BY <2>1 DEF RunnerInv, OneLive, ShownIsLatest, Ru!OneRunAtATime
<1> QED BY <1>1, RunnerHolds, PTL

(* A Close that did not time out leaves no repair at work, nor the latest   *)
(* goroutine in any step (runner.go's Close).                               *)
THEOREM RunnerCloses == ASSUME RunnerConfigured PROVE Ru!Spec => []Ru!CloseLeavesNothing
<1>1. RunnerInv => Ru!CloseLeavesNothing
  <2> SUFFICES ASSUME RunnerInv, closer = "returned"
               PROVE  /\ \A i \in Ru!Ids : repair[i].pc \in {"none", "closing", "gone"}
                      /\ lastID # 0 => repair[lastID].pc = "gone"
    BY DEF Ru!CloseLeavesNothing
  <2>1. live = 0 /\ \A i \in Ru!Ids : i # 0
    BY DEF RunnerInv, WaitedOut, Ru!Ids
  <2> QED BY <2>1 DEF RunnerInv, RunnerTypes, OneLive, WaitedOut, Runs, RunPCs
<1> QED BY <1>1, RunnerHolds, PTL

(* What the page shows of a run that is over is how that run ended: a late  *)
(* Finish never overwrites a newer run's snapshot (runstore.go).            *)
THEOREM RunnerSnapshots == ASSUME RunnerConfigured PROVE Ru!Spec => []Ru!SnapshotIsItsRun
<1>1. RunnerInv => Ru!SnapshotIsItsRun
  BY DEF RunnerInv, ShownIsLatest, Ru!SnapshotIsItsRun
<1> QED BY <1>1, RunnerHolds, PTL

-----------------------------------------------------------------------------
(* Starting and stopping (Server). *)

HookPCs == {"none", "auth", "work", "done"}
RealignPCs == {"none", "refused", "gate", "check", "run", "dropped", "done"}
ServerTypes ==
    /\ main \in {"open", "build", "listen", "backfill", "start", "serve", "wait", "drain", "exit"}
    /\ drainer \in {"none", "wait", "shutdown", "close", "done"}
    /\ gate \in BOOLEAN /\ handlerClosed \in BOOLEAN /\ serveErr \in BOOLEAN
    /\ hook \in [Hooks -> HookPCs] /\ bg \in [Hooks -> RealignPCs]
    /\ task \in [ServeTasks -> {"off", "run", "done"}]
    /\ keys \in [KeyIds -> {"none", "live", "revoked"}]

(* The gate opens with the end of the backfill; past it, a realign was let  *)
(* through by the gate or by the shutdown.                                  *)
GateKept ==
    /\ gate => main \in {"start", "serve", "wait", "drain", "exit"}
    /\ \A h \in Hooks : /\ bg[h] = "check" => gate \/ handlerClosed
                        /\ bg[h] = "run" => gate

(* The drainer lives from the end of the wiring to the exit.                *)
DrainerLives ==
    /\ main \in {"open", "build"} => drainer = "none"
    /\ main = "exit" => drainer \in {"none", "done"}

(* Tasks run only between their start and the wait for them.                *)
TasksWaited == main \notin {"serve", "wait"} => \A t \in ServeTasks : task[t] # "run"

(* What each step of the drainer has made sure of.                          *)
Drains ==
    /\ drainer \in {"shutdown", "close", "done"} => serveErr
    /\ drainer \in {"close", "done"} => Sv!InFlight \subseteq late
    /\ drainer = "done" => handlerClosed /\ Sv!BgIdle

ServerInv == ServerTypes /\ GateKept /\ DrainerLives /\ TasksWaited /\ Drains

LEMMA ServerInit == ASSUME Sv!Init PROVE ServerInv
<1>1. ServerTypes
  BY DEF Sv!Init, ServerTypes, HookPCs, RealignPCs
<1>2. GateKept /\ DrainerLives /\ TasksWaited /\ Drains
  BY DEF Sv!Init, GateKept, DrainerLives, TasksWaited, Drains
<1> QED BY <1>1, <1>2 DEF ServerInv

(* Steps of runServe.                                                       *)
LEMMA ServeKeeps == ASSUME ServerInv, Sv!Main PROVE ServerInv'
<1>1. /\ UNCHANGED <<hook, bg, late>> /\ handlerClosed' = handlerClosed
      /\ serveErr' = serveErr /\ gate' \in BOOLEAN /\ (gate => gate')
  BY DEF Sv!Main, Sv!Open, Sv!Build, Sv!Listen, Sv!Backfill, Sv!StartTasks, Sv!ServeReturns, Sv!WgWait, Sv!CloseDB, Sv!http, ServerInv, ServerTypes
<1>2. ServerTypes'
  <2>1. /\ main' \in {"open", "build", "listen", "backfill", "start", "serve", "wait", "drain", "exit"}
        /\ drainer' \in {"none", "wait", "shutdown", "close", "done"}
    BY DEF Sv!Main, Sv!Open, Sv!Build, Sv!Listen, Sv!Backfill, Sv!StartTasks, Sv!ServeReturns, Sv!WgWait, Sv!CloseDB, ServerInv, ServerTypes
  <2>2. keys' \in [KeyIds -> {"none", "live", "revoked"}]
    BY DEF Sv!Main, Sv!Open, Sv!Build, Sv!Seeded, Sv!Listen, Sv!Backfill, Sv!StartTasks, Sv!ServeReturns, Sv!WgWait, Sv!CloseDB, ServerInv, ServerTypes
  <2>3. task' \in [ServeTasks -> {"off", "run", "done"}]
    BY DEF Sv!Main, Sv!Open, Sv!Build, Sv!Listen, Sv!Backfill, Sv!StartTasks, Sv!ServeReturns, Sv!WgWait, Sv!CloseDB, ServerInv, ServerTypes
  <2> QED BY <1>1, <2>1, <2>2, <2>3 DEF ServerInv, ServerTypes
<1>3. GateKept'
  <2>1. gate' => main' \in {"start", "serve", "wait", "drain", "exit"}
    BY DEF Sv!Main, Sv!Open, Sv!Build, Sv!Listen, Sv!Backfill, Sv!StartTasks, Sv!ServeReturns, Sv!WgWait, Sv!CloseDB, ServerInv, GateKept
  <2> QED BY <1>1, <2>1 DEF ServerInv, GateKept
<1>4. DrainerLives' /\ (drainer' = drainer \/ (drainer = "none" /\ drainer' \in {"none", "wait"}))
  BY DEF Sv!Main, Sv!Open, Sv!Build, Sv!Listen, Sv!Backfill, Sv!StartTasks, Sv!ServeReturns, Sv!WgWait, Sv!CloseDB, Sv!Drained, ServerInv, DrainerLives
<1>5. TasksWaited'
  <2>1. main' \notin {"serve", "wait"} => task' = task /\ (main \notin {"serve", "wait"} \/ \A t \in ServeTasks : task[t] # "run")
    BY DEF Sv!Main, Sv!Open, Sv!Build, Sv!Listen, Sv!Backfill, Sv!StartTasks, Sv!ServeReturns, Sv!WgWait, Sv!CloseDB
  <2> QED BY <2>1 DEF ServerInv, TasksWaited
<1>6. Drains'
  BY <1>1, <1>4 DEF ServerInv, Drains, Sv!InFlight, Sv!BgIdle
<1> QED BY <1>2, <1>3, <1>4, <1>5, <1>6 DEF ServerInv

LEMMA DrainerKeeps == ASSUME ServerInv, Sv!Drainer PROVE ServerInv'
<1>1. /\ UNCHANGED <<main, gate, hook, bg, task, keys>> /\ (handlerClosed => handlerClosed')
      /\ handlerClosed' \in BOOLEAN /\ serveErr' \in BOOLEAN
      /\ drainer' \in {"none", "wait", "shutdown", "close", "done"}
      /\ drainer \in {"wait", "shutdown", "close"}
  BY DEF Sv!Drainer, Sv!DrainStart, Sv!ShutdownReturns, Sv!CloseHandler, Sv!BgWait, Sv!http, ServerInv, ServerTypes
<1>2. ServerTypes' /\ GateKept' /\ DrainerLives' /\ TasksWaited'
  BY <1>1 DEF ServerInv, ServerTypes, GateKept, DrainerLives, TasksWaited
<1>3. Drains'
  <2>1. CASE Sv!DrainStart
    BY <2>1 DEF Sv!DrainStart, Drains
  <2>2. CASE Sv!ShutdownReturns
    BY <2>2 DEF Sv!ShutdownReturns, ServerInv, Drains, Sv!InFlight
  <2>3. CASE Sv!CloseHandler
    BY <2>3 DEF Sv!CloseHandler, ServerInv, Drains, Sv!InFlight, Sv!BgIdle, Sv!http
  <2>4. CASE Sv!BgWait
    BY <2>4 DEF Sv!BgWait, ServerInv, Drains, Sv!InFlight, Sv!BgIdle, Sv!http
  <2> QED BY <2>1, <2>2, <2>3, <2>4 DEF Sv!Drainer
<1> QED BY <1>2, <1>3 DEF ServerInv

(* A request or its realign moves on.                                       *)
LEMMA HookKeeps ==
    ASSUME ServerInv, NEW h \in Hooks,
           Sv!Background(h) \/ Sv!handleLidarr(h) \/ Sv!ValidateKey(h) \/ Sv!dispatchRealign(h) \/ Sv!Answered(h)
    PROVE  ServerInv'
<1>1. UNCHANGED <<main, signal, cancel, serveErr, gate, drainer, handlerClosed, task, db, keys, starts, late>>
  BY DEF Sv!Background, Sv!GateOpen, Sv!RecheckShutdown, Sv!reactiveRealign, Sv!handleLidarr, Sv!ValidateKey, Sv!dispatchRealign, Sv!Answered, Sv!idleMain
<1>2. /\ hook' \in [Hooks -> HookPCs] /\ \A g \in Hooks \ {h} : hook'[g] = hook[g]
      /\ hook'[h] \in {"auth", "work"} => hook[h] \in {"auth", "work"} \/ ~serveErr
  <2>1. CASE hook' = hook
    BY <2>1 DEF ServerInv, ServerTypes
  <2>2. CASE hook' # hook
    <3>1. \E v \in HookPCs : /\ hook' = [hook EXCEPT ![h] = v]
                             /\ v \in {"auth", "work"} => hook[h] \in {"auth", "work"} \/ ~serveErr
      BY <2>2 DEF Sv!Background, Sv!GateOpen, Sv!RecheckShutdown, Sv!reactiveRealign, Sv!handleLidarr, Sv!Listening, Sv!ValidateKey, Sv!dispatchRealign,
                  Sv!Answered, HookPCs
    <3> QED BY <3>1 DEF ServerInv, ServerTypes
  <2> QED BY <2>1, <2>2
<1>3. /\ bg' \in [Hooks -> RealignPCs] /\ \A g \in Hooks \ {h} : bg'[g] = bg[g]
      /\ bg'[h] = "gate" => bg[h] = "gate" \/ ~handlerClosed
      /\ bg'[h] = "check" => bg[h] = "check" \/ (bg[h] = "gate" /\ (gate \/ handlerClosed))
      /\ bg'[h] = "run" => bg[h] = "run" \/ (bg[h] = "check" /\ ~handlerClosed)
  <2>1. CASE bg' = bg
    BY <2>1 DEF ServerInv, ServerTypes
  <2>2. CASE bg' # bg
    <3>1. \E v \in RealignPCs : /\ bg' = [bg EXCEPT ![h] = v]
                                /\ v = "gate" => ~handlerClosed
                                /\ v = "check" => bg[h] = "gate" /\ (gate \/ handlerClosed)
                                /\ v = "run" => bg[h] = "check" /\ ~handlerClosed
      BY <2>2 DEF Sv!Background, Sv!GateOpen, Sv!Gated, Sv!RecheckShutdown, Sv!Checked, Sv!reactiveRealign, Sv!handleLidarr, Sv!ValidateKey,
                  Sv!dispatchRealign, Sv!Dispatched, Sv!Answered, RealignPCs
    <3> QED BY <3>1 DEF ServerInv, ServerTypes
  <2> QED BY <2>1, <2>2
<1>4. ServerTypes' /\ DrainerLives' /\ TasksWaited'
  BY <1>1, <1>2, <1>3 DEF ServerInv, ServerTypes, DrainerLives, TasksWaited
<1>5. GateKept'
  BY <1>1, <1>3 DEF ServerInv, GateKept
<1>6. Drains'
  <2>1. drainer' \in {"close", "done"} => Sv!InFlight' \subseteq late'
    BY <1>1, <1>2 DEF ServerInv, Drains, Sv!InFlight
  <2>2. drainer' = "done" => Sv!BgIdle'
    BY <1>1, <1>3 DEF ServerInv, Drains, Sv!BgIdle
  <2> QED BY <1>1, <2>1, <2>2 DEF ServerInv, Drains
<1> QED BY <1>4, <1>5, <1>6 DEF ServerInv

LEMMA OthersKeep ==
    ASSUME ServerInv, \/ Sv!ServeFails \/ Sv!Signal \/ Sv!Restart
                      \/ \E t \in ServeTasks : Sv!TaskEnds(t)
                      \/ \E k \in KeyIds : Sv!CreateKey(k) \/ Sv!RevokeKey(k)
    PROVE  ServerInv'
<1>1. CASE Sv!ServeFails \/ Sv!Signal
  <2>1. /\ UNCHANGED <<main, gate, drainer, handlerClosed, hook, bg, task, late, keys>>
        /\ serveErr' \in BOOLEAN /\ (serveErr => serveErr')
    BY <1>1 DEF Sv!ServeFails, Sv!Signal, Sv!http, ServerInv, ServerTypes
  <2>2. ServerTypes' /\ GateKept' /\ DrainerLives' /\ TasksWaited'
    BY <2>1 DEF ServerInv, ServerTypes, GateKept, DrainerLives, TasksWaited
  <2>3. Drains'
    BY <2>1 DEF ServerInv, Drains, Sv!InFlight, Sv!BgIdle
  <2> QED BY <2>2, <2>3 DEF ServerInv
<1>2. CASE Sv!Restart
  <2>1. ServerTypes'
    BY <1>2 DEF Sv!Restart, ServerInv, ServerTypes, HookPCs, RealignPCs
  <2> QED BY <1>2, <2>1 DEF Sv!Restart, ServerInv, GateKept, DrainerLives, TasksWaited, Drains
<1>3. ASSUME NEW t \in ServeTasks, Sv!TaskEnds(t) PROVE ServerInv'
  <2>1. ServerTypes' /\ TasksWaited'
    BY <1>3 DEF Sv!TaskEnds, Sv!http, ServerInv, ServerTypes, TasksWaited
  <2> QED BY <1>3, <2>1 DEF Sv!TaskEnds, Sv!http, ServerInv, GateKept, DrainerLives, Drains, Sv!InFlight, Sv!BgIdle
<1>4. ASSUME NEW k \in KeyIds, Sv!CreateKey(k) \/ Sv!RevokeKey(k) PROVE ServerInv'
  <2>1. ServerTypes'
    BY <1>4 DEF Sv!CreateKey, Sv!RevokeKey, Sv!http, ServerInv, ServerTypes
  <2> QED BY <1>4, <2>1 DEF Sv!CreateKey, Sv!RevokeKey, Sv!http, ServerInv, GateKept, DrainerLives, TasksWaited, Drains, Sv!InFlight, Sv!BgIdle
<1> QED BY <1>1, <1>2, <1>3, <1>4

LEMMA ServerStep == ASSUME ServerInv, [Sv!Next]_Sv!vars PROVE ServerInv'
<1>1. CASE UNCHANGED Sv!vars
  BY <1>1 DEF Sv!vars, ServerInv, ServerTypes, GateKept, DrainerLives, TasksWaited, Drains, Sv!InFlight, Sv!BgIdle
<1>2. CASE Sv!Next
  BY <1>2, ServeKeeps, DrainerKeeps, HookKeeps, OthersKeep DEF Sv!Next
<1> QED BY <1>1, <1>2

LEMMA ServerHolds == Sv!Spec => []ServerInv
BY ServerInit, ServerStep, PTL DEF Sv!Spec

-----------------------------------------------------------------------------
(* Phases keep their types, and the gate is open only past the backfill.    *)
THEOREM ServerTypesHold == Sv!Spec => []Sv!TypeOK
<1>1. ServerInv => Sv!TypeOK
  BY DEF ServerInv, ServerTypes, GateKept, Sv!TypeOK, HookPCs, RealignPCs
<1> QED BY <1>1, ServerHolds, PTL

(* No realign touches a file before the start-up backfill is through, not   *)
(* one that the shutdown wakes either (server.go), for any requests.        *)
THEOREM ServerGatesRealigns == Sv!Spec => []Sv!RealignAfterBackfill
<1>1. ServerInv => Sv!RealignAfterBackfill
  BY DEF ServerInv, GateKept, Sv!RealignAfterBackfill
<1> QED BY <1>1, ServerHolds, PTL

(* When the database is closed, every task, every realign and every request *)
(* but those that srv.Shutdown gave up on is over, for any number of each   *)
(* and wherever the shutdown came (commands.go, server.go).                 *)
THEOREM ServerClosesLast == Sv!Spec => []Sv!NothingOutlivesTheDatabase
<1>1. ServerInv => Sv!NothingOutlivesTheDatabase
  BY DEF ServerInv, DrainerLives, TasksWaited, Drains, Sv!NothingOutlivesTheDatabase
<1> QED BY <1>1, ServerHolds, PTL

(* Once Handler.Close has returned, no request starts a realign that nobody *)
(* waits for.                                                               *)
THEOREM ServerRefusesLate == Sv!Spec => [][Sv!NoRealignAfterClose]_Sv!vars
<1>1. ASSUME ServerInv, [Sv!Next]_Sv!vars PROVE Sv!NoRealignAfterClose
  <2> SUFFICES ASSUME NEW h \in Hooks, drainer = "done", drainer' = "done" PROVE bg'[h] \in {bg[h], "refused"}
    BY DEF Sv!NoRealignAfterClose
  <2>1. handlerClosed /\ bg[h] \notin {"gate", "check", "run"} /\ bg \in [Hooks -> RealignPCs]
    BY <1>1 DEF ServerInv, ServerTypes, Drains, Sv!BgIdle
  <2>2. CASE UNCHANGED bg
    BY <2>2
  <2>3. ASSUME NEW g \in Hooks, Sv!Background(g) \/ Sv!dispatchRealign(g) PROVE bg'[h] \in {bg[h], "refused"}
    <3>1. bg[g] \notin {"gate", "check", "run"}
      BY <1>1 DEF ServerInv, Drains, Sv!BgIdle
    <3>2. bg' = [bg EXCEPT ![g] = "refused"]
      BY <2>1, <2>3, <3>1 DEF Sv!Background, Sv!GateOpen, Sv!RecheckShutdown, Sv!reactiveRealign, Sv!dispatchRealign, Sv!Dispatched
    <3> QED BY <2>1, <3>2
  <2>4. ~Sv!Restart
    BY DEF Sv!Restart
  <2>5. Sv!Next => \/ UNCHANGED bg \/ Sv!Restart
                   \/ \E g \in Hooks : Sv!Background(g) \/ Sv!dispatchRealign(g)
    BY DEF Sv!Next, Sv!Main, Sv!Open, Sv!Build, Sv!Listen, Sv!Backfill, Sv!StartTasks, Sv!ServeReturns, Sv!WgWait, Sv!CloseDB, Sv!Drainer, Sv!DrainStart,
           Sv!ShutdownReturns, Sv!CloseHandler, Sv!BgWait, Sv!ServeFails, Sv!Signal, Sv!TaskEnds, Sv!handleLidarr, Sv!ValidateKey, Sv!Answered,
           Sv!CreateKey, Sv!RevokeKey, Sv!http
  <2> QED BY <1>1, <2>2, <2>3, <2>4, <2>5 DEF Sv!vars
<1> QED BY <1>1, ServerHolds, PTL DEF Sv!Spec

(* A revoked key stays revoked, through restarts that seed the configured   *)
(* keys again (auth/store.go's INSERT ... ON CONFLICT DO NOTHING).          *)
THEOREM ServerRevokesForGood == Sv!Spec => [][Sv!RevokedStaysRevoked]_Sv!vars
<1>1. ASSUME ServerInv, [Sv!Next]_Sv!vars PROVE Sv!RevokedStaysRevoked
  <2> SUFFICES ASSUME NEW k \in KeyIds, keys[k] = "revoked" PROVE keys'[k] = "revoked"
    BY DEF Sv!RevokedStaysRevoked
  <2>1. Sv!Next => \/ UNCHANGED keys \/ Sv!Build
                   \/ \E j \in KeyIds : Sv!CreateKey(j) \/ Sv!RevokeKey(j)
    BY DEF Sv!Next, Sv!Main, Sv!Open, Sv!Listen, Sv!Backfill, Sv!StartTasks, Sv!ServeReturns, Sv!WgWait, Sv!CloseDB, Sv!Drainer, Sv!DrainStart,
           Sv!ShutdownReturns, Sv!CloseHandler, Sv!BgWait, Sv!ServeFails, Sv!Signal, Sv!Restart, Sv!TaskEnds, Sv!Background, Sv!GateOpen, Sv!RecheckShutdown,
           Sv!reactiveRealign, Sv!dispatchRealign, Sv!handleLidarr, Sv!ValidateKey, Sv!Answered, Sv!idleMain
  <2>2. CASE Sv!Build
    BY <2>2 DEF Sv!Build, Sv!Seeded
  <2>3. ASSUME NEW j \in KeyIds, Sv!CreateKey(j) \/ Sv!RevokeKey(j) PROVE keys'[k] = "revoked"
    BY <1>1, <2>3 DEF Sv!CreateKey, Sv!RevokeKey, ServerInv, ServerTypes
  <2> QED BY <1>1, <2>1, <2>2, <2>3 DEF Sv!vars
<1> QED BY <1>1, ServerHolds, PTL DEF Sv!Spec

-----------------------------------------------------------------------------
(* Timing runs (AutoRuns). *)

LEMMA AuSize == \A S : Au!Cardinality(S) = Cardinality(S)
BY DEF Cardinality, Au!Cardinality, IsFiniteSet, Au!IsFiniteSet

(* The bounds are numbers and there is a row to align.                      *)
AutoConfigured == Rows # {} /\ maxConcurrent \in Nat /\ MaxAligned \in Nat /\ MaxResaved \in Nat

Times == 0 .. (MaxResaved + 1)
RunStates == {"none", "running", "done", "empty"}
Alignments == [row : Rows, mtime : Times, lines : Times, state : RunStates,
               live : BOOLEAN, canceled : BOOLEAN, seen : BOOLEAN]
PageStates == [pc : {"idle", "read", "begin", "stat"}, row : Rows, mtime : Times, lines : Times,
               run : 0 .. MaxAligned, state : RunStates]

(* A run is live while it is running, is made from the version it names,    *)
(* and none is begun beyond the last.                                       *)
RunOK(i) == /\ run[i] \in Alignments
            /\ run[i].live <=> run[i].state = "running"
            /\ run[i].live => i \in 1 .. aligned
            /\ i <= aligned => run[i].lines = run[i].mtime
RegOK(r) == reg[r] \in 0 .. aligned /\ (reg[r] # 0 => run[reg[r]].row = r)
RunsInv ==
    /\ aligned \in 0 .. MaxAligned /\ DOMAIN run = 1 .. MaxAligned /\ reg = [r \in Rows |-> reg[r]]
    /\ \A i \in 1 .. MaxAligned : RunOK(i)
    /\ \A r \in Rows : RegOK(r)

Counts == Au!SlotsCounted /\ Au!UnlistedIsCanceled

(* What a page carries from its first look to its last step.                *)
PageOK(p) == /\ page[p] \in PageStates
             /\ page[p].pc = "begin" => page[p].lines = page[p].mtime
             /\ page[p].pc = "stat" => page[p].run \in 1 .. aligned
PagesInv == /\ mt \in [Rows -> 1 .. (MaxResaved + 1)] /\ ended \in BOOLEAN
            /\ page = [p \in Browsers |-> page[p]]
            /\ \A p \in Browsers : PageOK(p)

AutoInv == RunsInv /\ Counts /\ PagesInv

-----------------------------------------------------------------------------
LEMMA LiveFinite == ASSUME AutoConfigured, RunsInv
                    PROVE  /\ IsFiniteSet(Au!Live) /\ Cardinality(Au!Live) \in Nat /\ Cardinality(Au!Live) <= MaxAligned
                           /\ Au!Live = {i \in 1 .. MaxAligned : run[i].live}
<1>1. aligned \in Nat /\ aligned <= MaxAligned /\ Au!Live \subseteq 1 .. MaxAligned
  BY DEF RunsInv, AutoConfigured, Au!Live
<1>2. IsFiniteSet(1 .. MaxAligned) /\ Cardinality(1 .. MaxAligned) = MaxAligned
  BY FS_Interval DEF AutoConfigured
<1>3. IsFiniteSet(Au!Live) /\ Cardinality(Au!Live) <= MaxAligned
  BY <1>1, <1>2, FS_Subset
<1>4. Cardinality(Au!Live) \in Nat
  BY <1>3, FS_CardinalityType
<1>5. Au!Live = {i \in 1 .. MaxAligned : run[i].live}
  BY <1>1 DEF Au!Live, RunsInv, RunOK
<1> QED BY <1>3, <1>4, <1>5

(* The rest of a run stays as it is while it is seen or told to stop.       *)
Touched(i) ==
    /\ run'[i] \in Alignments /\ run'[i].row = run[i].row /\ run'[i].mtime = run[i].mtime
    /\ run'[i].lines = run[i].lines /\ run'[i].state = run[i].state
    /\ run'[i].live = run[i].live /\ (run[i].canceled => run'[i].canceled)
(* A run is dropped only when it is told to stop.                           *)
DropsCanceled(r) ==
    \/ reg'[r] = reg[r]
    \/ reg'[r] = 0 /\ (reg[r] # 0 /\ run[reg[r]].live => run'[reg[r]].canceled)

LEMMA TouchKeeps ==
    ASSUME AutoConfigured, RunsInv, Counts, UNCHANGED <<aligned, active>>,
           DOMAIN run' = 1 .. MaxAligned, \A i \in 1 .. MaxAligned : Touched(i),
           reg' = [r \in Rows |-> reg'[r]], \A r \in Rows : DropsCanceled(r)
    PROVE  RunsInv' /\ Counts'
<1>0. aligned \in Nat /\ aligned <= MaxAligned /\ MaxAligned \in Nat
  BY DEF RunsInv, AutoConfigured
<1>1. \A i \in 1 .. MaxAligned : RunOK(i)'
  <2> SUFFICES ASSUME NEW i \in 1 .. MaxAligned PROVE RunOK(i)'
    OBVIOUS
  <2>1. RunOK(i) /\ Touched(i)
    BY DEF RunsInv
  <2> QED BY <2>1 DEF RunOK, Touched
<1>2. \A r \in Rows : RegOK(r)'
  <2> SUFFICES ASSUME NEW r \in Rows PROVE RegOK(r)'
    OBVIOUS
  <2>1. RegOK(r) /\ DropsCanceled(r) /\ reg'[r] \in {reg[r], 0}
    BY DEF RunsInv, DropsCanceled
  <2>2. reg'[r] # 0 => reg'[r] \in 1 .. MaxAligned
    BY <1>0, <2>1 DEF RegOK
  <2> QED BY <1>0, <2>1, <2>2 DEF RegOK, Touched
<1>3. RunsInv'
  BY <1>1, <1>2 DEF RunsInv
<1>4. Au!Live' = Au!Live
  <2>1. \A i \in 1 .. aligned : run'[i].live = run[i].live
    BY <1>0 DEF Touched
  <2> QED BY <2>1 DEF Au!Live
<1>5. Au!SlotsCounted'
  BY AuSize, <1>4 DEF Counts, Au!SlotsCounted
<1>6. Au!UnlistedIsCanceled'
  <2> SUFFICES ASSUME NEW i \in Au!Live, \A r \in Rows : reg'[r] # i PROVE run'[i].canceled
    BY <1>4 DEF Au!UnlistedIsCanceled
  <2>1. i \in 1 .. MaxAligned /\ i # 0 /\ run[i].live /\ Touched(i)
    BY <1>0 DEF Au!Live
  <2>2. CASE \A r \in Rows : reg[r] # i
    BY <2>1, <2>2 DEF Counts, Au!UnlistedIsCanceled, Touched
  <2>3. CASE \E r \in Rows : reg[r] = i
    BY <2>1, <2>3 DEF DropsCanceled
  <2> QED BY <2>2, <2>3
<1> QED BY <1>3, <1>5, <1>6 DEF Counts

(* Telling runs to stop, or that they are seen.                             *)
LEMMA TellTouches ==
    ASSUME RunsInv, NEW i \in 1 .. MaxAligned, NEW c \in BOOLEAN, NEW s \in BOOLEAN, run[i].canceled => c,
           run'[i] = [run[i] EXCEPT !.canceled = c, !.seen = s]
    PROVE  Touched(i) /\ run'[i].canceled = c /\ run'[i].seen = s
<1>1. run[i] \in Alignments
  BY DEF RunsInv, RunOK
<1> QED BY <1>1 DEF Touched, Alignments

LEMMA SameTouches ==
    ASSUME RunsInv, NEW i \in 1 .. MaxAligned, run'[i] = run[i] PROVE Touched(i)
BY DEF RunsInv, RunOK, Touched

(* One run at most is seen or told to stop.                                 *)
LEMMA SeenTouches ==
    ASSUME RunsInv, NEW j \in 1 .. MaxAligned, NEW s \in BOOLEAN, run' = [run EXCEPT ![j].seen = s]
    PROVE  DOMAIN run' = 1 .. MaxAligned /\ \A i \in 1 .. MaxAligned : Touched(i)
<1>1. run[j] \in Alignments /\ run[j].canceled \in BOOLEAN
  BY DEF RunsInv, RunOK, Alignments
<1>2. run'[j] = [run[j] EXCEPT !.seen = s] /\ \A i \in 1 .. MaxAligned \ {j} : run'[i] = run[i]
  BY DEF RunsInv
<1>3. Touched(j)
  BY <1>1, <1>2 DEF Touched, Alignments
<1> QED BY <1>2, <1>3, SameTouches DEF RunsInv

LEMMA StoppedIs ==
    ASSUME NEW a \in Alignments, NEW c \in BOOLEAN
    PROVE  LET b == [a EXCEPT !.canceled = c]
           IN  /\ b \in Alignments /\ b.row = a.row /\ b.mtime = a.mtime /\ b.lines = a.lines
               /\ b.state = a.state /\ b.live = a.live /\ b.canceled = c
BY DEF Alignments

LEMMA ShutIs ==
    ASSUME NEW a \in Alignments, NEW s \in RunStates, NEW l \in BOOLEAN, NEW c \in BOOLEAN
    PROVE  LET b == [a EXCEPT !.state = s, !.live = l, !.seen = c]
           IN  /\ b \in Alignments /\ b.row = a.row /\ b.mtime = a.mtime /\ b.lines = a.lines
               /\ b.state = s /\ b.live = l
BY DEF Alignments

LEMMA StopTouches ==
    ASSUME RunsInv, NEW j \in 1 .. MaxAligned, run' = [run EXCEPT ![j].canceled = TRUE]
    PROVE  DOMAIN run' = 1 .. MaxAligned /\ (\A i \in 1 .. MaxAligned : Touched(i)) /\ run'[j].canceled
<1>1. run[j] \in Alignments
  BY DEF RunsInv, RunOK
<1>2. run'[j] = [run[j] EXCEPT !.canceled = TRUE] /\ \A i \in 1 .. MaxAligned \ {j} : run'[i] = run[i]
  BY DEF RunsInv
<1>3. Touched(j) /\ run'[j].canceled
  <2> DEFINE b == [run[j] EXCEPT !.canceled = TRUE]
  <2>1. /\ b \in Alignments /\ b.row = run[j].row /\ b.mtime = run[j].mtime /\ b.lines = run[j].lines
        /\ b.state = run[j].state /\ b.live = run[j].live /\ b.canceled
    BY <1>1, StoppedIs, Zenon
  <2>2. run'[j] = b
    BY <1>2, Zenon
  <2> HIDE DEF b
  <2> QED BY <2>1, <2>2 DEF Touched
<1> QED BY <1>2, <1>3, SameTouches DEF RunsInv

LEMMA RegIndex == ASSUME AutoConfigured, RunsInv, NEW r \in Rows, reg[r] # 0
                  PROVE  reg[r] \in 1 .. MaxAligned /\ reg[r] \in 1 .. aligned
<1>1. reg[r] \in 0 .. aligned /\ aligned \in 0 .. MaxAligned
  BY DEF RunsInv, RegOK
<1> QED BY <1>1 DEF AutoConfigured

(* reaped tells the running runs of some rows to stop.                      *)
LEMMA ReapedTouches ==
    ASSUME AutoConfigured, RunsInv, NEW rs \in SUBSET Rows, run' = Au!reaped(reg, rs)
    PROVE  /\ DOMAIN run' = 1 .. MaxAligned /\ \A i \in 1 .. MaxAligned : Touched(i)
           /\ \A r \in rs : reg[r] # 0 /\ run[reg[r]].live => run'[reg[r]].canceled
<1>1. DOMAIN run' = 1 .. MaxAligned
  BY DEF Au!reaped
<1>2. ASSUME NEW i \in 1 .. MaxAligned
      PROVE  /\ Touched(i)
             /\ (\E r \in rs : reg[r] = i) /\ run[i].state = "running" => run'[i].canceled
  <2>1. run[i] \in Alignments
    BY DEF RunsInv, RunOK
  <2>2. CASE (\E r \in rs : reg[r] = i) /\ run[i].state = "running"
    <3>1. run'[i] = [run[i] EXCEPT !.canceled = TRUE]
      BY <2>2 DEF Au!reaped
    <3> QED BY <2>1, <3>1 DEF Touched, Alignments
  <2>3. CASE ~((\E r \in rs : reg[r] = i) /\ run[i].state = "running")
    <3>1. run'[i] = run[i]
      BY <2>3 DEF Au!reaped
    <3> QED BY <2>3, <3>1, SameTouches
  <2> QED BY <2>2, <2>3
<1>3. ASSUME NEW r \in rs, reg[r] # 0, run[reg[r]].live PROVE run'[reg[r]].canceled
  <2>0. r \in Rows
    OBVIOUS
  <2>1. reg[r] \in 1 .. MaxAligned
    BY <1>3, <2>0, RegIndex
  <2>2. run[reg[r]].state = "running"
    BY <1>3, <2>1 DEF RunsInv, RunOK
  <2> QED BY <1>2, <2>1, <2>2
<1> QED BY <1>1, <1>2, <1>3

-----------------------------------------------------------------------------
LEMMA NoRunOK == ASSUME AutoConfigured
                 PROVE  /\ Au!NoRun \in Alignments /\ ~Au!NoRun.live /\ Au!NoRun.state = "none" /\ Au!NoRun.lines = Au!NoRun.mtime
                        /\ Au!Idle \in PageStates /\ Au!Idle.pc = "idle"
<1>1. (CHOOSE r \in Rows : TRUE) \in Rows
  BY DEF AutoConfigured
<1> DEFINE q == CHOOSE r \in Rows : TRUE
<1>2. q \in Rows
  BY <1>1
<1> HIDE DEF q
<1>3. 0 \in Times /\ 0 \in 0 .. MaxAligned
  BY DEF Times, AutoConfigured
<1>4. \A S : 0 \in S => [row |-> q, mtime |-> 0, lines |-> 0, state |-> "none", live |-> FALSE, canceled |-> FALSE, seen |-> FALSE]
          \in [row : Rows, mtime : S, lines : S, state : RunStates, live : BOOLEAN, canceled : BOOLEAN, seen : BOOLEAN]
  BY <1>2 DEF RunStates
<1>5. \A S, T : 0 \in S /\ 0 \in T => [pc |-> "idle", row |-> q, mtime |-> 0, lines |-> 0, run |-> 0, state |-> "none"]
          \in [pc : {"idle", "read", "begin", "stat"}, row : Rows, mtime : S, lines : S, run : T, state : RunStates]
  BY <1>2 DEF RunStates
<1>6. Au!NoRun = [row |-> q, mtime |-> 0, lines |-> 0, state |-> "none", live |-> FALSE, canceled |-> FALSE, seen |-> FALSE]
  BY DEF Au!NoRun, q
<1>7. Au!Idle = [pc |-> "idle", row |-> q, mtime |-> 0, lines |-> 0, run |-> 0, state |-> "none"]
  BY DEF Au!Idle, q
<1> QED BY <1>3, <1>4, <1>5, <1>6, <1>7 DEF Alignments, PageStates

LEMMA AutoInit == ASSUME AutoConfigured, Au!Init PROVE AutoInv
<1>1. \A i \in 1 .. MaxAligned : run[i] = Au!NoRun /\ i > 0
  BY DEF Au!Init
<1>2. aligned = 0 /\ 0 \in 0 .. MaxAligned /\ 0 \in 0 .. aligned /\ MaxAligned \in Nat /\ active = 0 /\ \A r \in Rows : reg[r] = 0
  BY DEF Au!Init, AutoConfigured
<1>3. \A i \in 1 .. MaxAligned : RunOK(i)
  BY <1>1, <1>2, NoRunOK DEF RunOK
<1>4. RunsInv
  BY <1>2, <1>3 DEF RunsInv, RegOK, Au!Init
<1>5. Au!Live = {}
  BY <1>2 DEF Au!Live
<1>6. Counts
  BY AuSize, <1>2, <1>5, FS_EmptySet DEF Counts, Au!SlotsCounted, Au!UnlistedIsCanceled, AutoConfigured
<1>7. PagesInv
  <2>1. \A p \in Browsers : page[p] = Au!Idle
    BY DEF Au!Init
  <2>2. 1 \in 1 .. (MaxResaved + 1)
    BY DEF AutoConfigured
  <2>3. \A p \in Browsers : PageOK(p)
    BY <2>1, NoRunOK DEF PageOK
  <2> QED BY <2>2, <2>3 DEF Au!Init, PagesInv
<1> QED BY <1>4, <1>6, <1>7 DEF AutoInv

(* A page's answer, and a step it takes without changing the runs begun.    *)
LEMMA AnswerKeeps == ASSUME AutoConfigured, PagesInv, aligned \in Nat, aligned' \in Nat, aligned <= aligned', NEW p \in Browsers, Au!Answer(p), UNCHANGED <<mt, ended>>
                     PROVE  PagesInv'
<1>1. page' = [page EXCEPT ![p] = Au!Idle] /\ page = [q \in Browsers |-> page[q]]
  BY DEF Au!Answer, PagesInv
<1>2. page'[p] = Au!Idle /\ \A q \in Browsers \ {p} : page'[q] = page[q]
  BY <1>1
<1>3. \A q \in Browsers : PageOK(q)'
  BY <1>2, NoRunOK DEF PagesInv, PageOK
<1> QED BY <1>1, <1>3 DEF PagesInv

LEMMA PagesStand == ASSUME PagesInv, aligned \in Nat, aligned' \in Nat, aligned <= aligned', UNCHANGED page, ended' \in BOOLEAN, mt' \in [Rows -> 1 .. (MaxResaved + 1)]
                    PROVE  PagesInv'
<1>1. \A q \in Browsers : PageOK(q)'
  BY DEF PagesInv, PageOK
<1> QED BY <1>1 DEF PagesInv

LEMMA PageMoves ==
    ASSUME AutoConfigured, PagesInv, UNCHANGED <<aligned, mt, ended>>, NEW p \in Browsers, NEW v \in PageStates,
           page' = [page EXCEPT ![p] = v],
           v.pc = "begin" => v.lines = v.mtime, v.pc = "stat" => v.run \in 1 .. aligned
    PROVE  PagesInv'
<1>1. page'[p] = v /\ \A q \in Browsers \ {p} : page'[q] = page[q]
  BY DEF PagesInv
<1>2. \A q \in Browsers : PageOK(q)'
  BY <1>1 DEF PagesInv, PageOK
<1> QED BY <1>2 DEF PagesInv

LEMMA RunsStand == ASSUME AutoConfigured, AutoInv, UNCHANGED <<reg, run, aligned, active>> PROVE RunsInv' /\ Counts'
BY AuSize DEF AutoInv, RunsInv, RunOK, RegOK, Counts, Au!SlotsCounted, Au!UnlistedIsCanceled, Au!Live

LEMMA Bounded == ASSUME AutoInv, AutoConfigured PROVE aligned \in Nat /\ aligned <= MaxAligned /\ MaxAligned \in Nat
BY DEF AutoInv, RunsInv, AutoConfigured

(* A look, a read and the answers of a poll.                                *)
LEMMA StartGetKeeps ==
    ASSUME AutoConfigured, AutoInv, NEW p \in Browsers, NEW r \in Rows, NEW m \in 1 .. (MaxResaved + 1), Au!StartGet(p, r, m)
    PROVE  AutoInv'
<1>1. UNCHANGED <<mt, reg, aligned, active, ended>>
  BY DEF Au!StartGet
<1>2. CASE Au!Running(r) /\ run[reg[r]].mtime = m
  <2>1. run' = [run EXCEPT ![reg[r]].seen = TRUE] /\ Au!Answer(p) /\ reg[r] # 0
    BY <1>2 DEF Au!StartGet, Au!Running
  <2>2. RunsInv' /\ Counts'
    BY <1>1, <2>1, RegIndex, SeenTouches, TouchKeeps DEF AutoInv, RunsInv, DropsCanceled
  <2>3. PagesInv'
    BY <1>1, <2>1, AnswerKeeps, Bounded DEF AutoInv
  <2> QED BY <2>2, <2>3 DEF AutoInv
<1>3. CASE ~(Au!Running(r) /\ run[reg[r]].mtime = m)
  <2> DEFINE v == [Au!Idle EXCEPT !.pc = "read", !.row = r, !.mtime = m]
  <2>1. page' = [page EXCEPT ![p] = v] /\ run' = run
    BY <1>3 DEF Au!StartGet
  <2>2. m \in Times
    BY DEF Times, AutoConfigured
  <2>3. v \in PageStates /\ v.pc = "read"
    BY <2>2, NoRunOK DEF PageStates
  <2> HIDE DEF v
  <2>4. PagesInv'
    BY <1>1, <2>1, <2>3, PageMoves DEF AutoInv
  <2> QED BY <1>1, <2>1, <2>4, RunsStand DEF AutoInv
<1> QED BY <1>2, <1>3

LEMMA StartReadKeeps == ASSUME AutoConfigured, AutoInv, NEW p \in Browsers, Au!StartRead(p) PROVE AutoInv'
<1>1. UNCHANGED <<mt, reg, run, aligned, active, ended>>
  BY DEF Au!StartRead
<1>2. PagesInv'
  <2>1. CASE Au!Answer(p)
    BY <1>1, <2>1, AnswerKeeps, Bounded DEF AutoInv
  <2>2. CASE ~Au!Answer(p)
    <3> DEFINE r == page[p].row
               v == [page[p] EXCEPT !.pc = "begin", !.lines = mt[r]]
    <3>1. page' = [page EXCEPT ![p] = v] /\ mt[r] = page[p].mtime
      BY <2>2 DEF Au!StartRead, Au!SameVersion
    <3>2. page[p] \in PageStates /\ mt[r] \in Times
      BY DEF AutoInv, PagesInv, PageOK, PageStates, Times, AutoConfigured
    <3>3. v \in PageStates /\ v.pc = "begin" /\ v.lines = mt[r] /\ v.mtime = page[p].mtime
      BY <3>2 DEF PageStates
    <3> HIDE DEF v
    <3> QED BY <1>1, <3>1, <3>3, PageMoves DEF AutoInv
  <2> QED BY <2>1, <2>2
<1> QED BY <1>1, <1>2, RunsStand DEF AutoInv

LEMMA PollGetKeeps == ASSUME AutoConfigured, AutoInv, NEW p \in Browsers, NEW r \in Rows, Au!PollGet(p, r) PROVE AutoInv'
<1> DEFINE i == reg[r]
           stale == {q \in Rows : Au!Stale(q)} \ (IF Au!Running(r) THEN {r} ELSE {})
           mid == Au!reaped(reg, stale)
<1>0. /\ reg[r] # 0 /\ UNCHANGED <<mt, aligned, active, ended>>
      /\ run' = [mid EXCEPT ![i].seen = @ \/ Au!Running(r)]
      /\ reg' = [q \in Rows |-> IF q \in stale THEN 0 ELSE reg[q]]
      /\ page' = IF r \in stale THEN page
                 ELSE [page EXCEPT ![p] = [Au!Idle EXCEPT !.pc = "stat", !.row = r, !.run = i, !.state = run[i].state]]
  BY DEF Au!PollGet
<1>1. i \in 1 .. MaxAligned /\ i \in 1 .. aligned /\ stale \in SUBSET Rows
  BY <1>0, RegIndex DEF AutoInv
<1>2. ASSUME NEW j \in 1 .. MaxAligned
      PROVE  /\ mid[j] \in Alignments /\ mid[j].row = run[j].row /\ mid[j].mtime = run[j].mtime
             /\ mid[j].lines = run[j].lines /\ mid[j].state = run[j].state
             /\ mid[j].live = run[j].live /\ (run[j].canceled => mid[j].canceled)
             /\ (\E q \in stale : reg[q] = j) /\ run[j].live => mid[j].canceled
  <2>1. run[j] \in Alignments /\ (run[j].live => run[j].state = "running")
    BY DEF AutoInv, RunsInv, RunOK
  <2>2. CASE (\E q \in stale : reg[q] = j) /\ run[j].state = "running"
    <3>1. mid[j] = [run[j] EXCEPT !.canceled = TRUE]
      BY <2>2 DEF Au!reaped
    <3> QED BY <2>1, <3>1 DEF Alignments
  <2>3. CASE ~((\E q \in stale : reg[q] = j) /\ run[j].state = "running")
    <3>1. mid[j] = run[j]
      BY <2>3 DEF Au!reaped
    <3> QED BY <2>1, <2>3, <3>1
  <2> QED BY <2>2, <2>3
<1>3. DOMAIN mid = 1 .. MaxAligned
  BY DEF Au!reaped
<1> HIDE DEF mid
<1> DEFINE b == mid[i].seen \/ Au!Running(r)
<1>4. b \in BOOLEAN
  OBVIOUS
<1>5. run'[i] = [mid[i] EXCEPT !.seen = b] /\ DOMAIN run' = 1 .. MaxAligned /\ \A j \in 1 .. MaxAligned \ {i} : run'[j] = mid[j]
  BY <1>0, <1>1, <1>3
<1> HIDE DEF b
<1>6. ASSUME NEW j \in 1 .. MaxAligned PROVE Touched(j) /\ ((\E q \in stale : reg[q] = j) /\ run[j].live => run'[j].canceled)
  <2>1. CASE j = i
    BY <1>2, <1>4, <1>5, <2>1 DEF Touched, Alignments
  <2>2. CASE j # i
    BY <1>2, <1>5, <2>2 DEF Touched
  <2> QED BY <2>1, <2>2
<1>7. ASSUME NEW q \in Rows PROVE DropsCanceled(q)
  <2>1. CASE q \in stale
    <3>1. reg[q] # 0 => reg[q] \in 1 .. MaxAligned
      BY RegIndex DEF AutoInv
    <3> QED BY <1>0, <1>6, <2>1, <3>1 DEF DropsCanceled
  <2>2. CASE q \notin stale
    BY <1>0, <2>2 DEF DropsCanceled
  <2> QED BY <2>1, <2>2
<1> HIDE DEF stale
<1>8. RunsInv' /\ Counts'
  <2>1. reg' = [q \in Rows |-> reg'[q]]
    BY <1>0
  <2> QED BY <1>0, <1>5, <1>6, <1>7, <2>1, TouchKeeps DEF AutoInv
<1>9. PagesInv'
  <2>1. CASE r \in stale
    BY <1>0, <2>1, PagesStand, Bounded DEF AutoInv, PagesInv
  <2>2. CASE r \notin stale
    <3> DEFINE v == [Au!Idle EXCEPT !.pc = "stat", !.row = r, !.run = i, !.state = run[i].state]
    <3>1. page' = [page EXCEPT ![p] = v]
      BY <1>0, <2>2
    <3>2. run[i].state \in RunStates /\ i \in 0 .. MaxAligned
      BY <1>1 DEF AutoInv, RunsInv, RunOK, Alignments
    <3>3. v \in PageStates /\ v.pc = "stat" /\ v.run = i
      BY <3>2, NoRunOK DEF PageStates
    <3> HIDE DEF v
    <3> QED BY <1>0, <1>1, <3>1, <3>3, PageMoves DEF AutoInv
  <2> QED BY <2>1, <2>2
<1> QED BY <1>8, <1>9 DEF AutoInv

LEMMA PollChangedKeeps == ASSUME AutoConfigured, AutoInv, NEW p \in Browsers, Au!PollChanged(p) PROVE AutoInv'
<1> DEFINE j == page[p].run
           r == page[p].row
<1>1. /\ UNCHANGED <<mt, aligned, active, ended>> /\ Au!Answer(p) /\ page[p].pc = "stat"
      /\ reg' = IF reg[r] = j THEN [reg EXCEPT ![r] = 0] ELSE reg
      /\ run' = [run EXCEPT ![j].canceled = TRUE]
  BY DEF Au!PollChanged, Au!Drop
<1>2. j \in 1 .. aligned /\ r \in Rows
  BY <1>1 DEF AutoInv, PagesInv, PageOK, PageStates
<1>3. j \in 1 .. MaxAligned
  BY <1>2, Bounded
<1>4. DOMAIN run' = 1 .. MaxAligned /\ (\A i \in 1 .. MaxAligned : Touched(i)) /\ run'[j].canceled
  BY <1>1, <1>3, StopTouches DEF AutoInv
<1>5. reg' = [q \in Rows |-> reg'[q]] /\ \A q \in Rows : DropsCanceled(q)
  <2>1. reg = [q \in Rows |-> reg[q]]
    BY DEF AutoInv, RunsInv
  <2>2. CASE reg[r] = j
    <3>1. reg' = [reg EXCEPT ![r] = 0]
      BY <1>1, <2>2
    <3>2. reg'[r] = 0 /\ \A q \in Rows \ {r} : reg'[q] = reg[q]
      BY <1>2, <2>1, <3>1
    <3>3. reg' = [q \in Rows |-> reg'[q]]
      BY <2>1, <3>1
    <3> HIDE DEF j, r
    <3> QED BY <1>4, <2>2, <3>2, <3>3 DEF DropsCanceled
  <2>3. CASE reg[r] # j
    BY <1>1, <2>1, <2>3 DEF DropsCanceled
  <2> QED BY <2>2, <2>3
<1> HIDE DEF j, r
<1>6. RunsInv' /\ Counts'
  BY <1>1, <1>4, <1>5, TouchKeeps DEF AutoInv
<1>7. PagesInv'
  BY <1>1, AnswerKeeps, Bounded DEF AutoInv
<1> QED BY <1>6, <1>7 DEF AutoInv

LEMMA PollAnswerKeeps == ASSUME AutoConfigured, AutoInv, NEW p \in Browsers, Au!PollAnswer(p) PROVE AutoInv'
<1>1. PagesInv'
  BY AnswerKeeps, Bounded DEF AutoInv, Au!PollAnswer
<1> QED BY <1>1, RunsStand DEF Au!PollAnswer, AutoInv

(* Steps that leave the pages alone.                                        *)
LEMMA AgeKeeps == ASSUME AutoConfigured, AutoInv, NEW r \in Rows, Au!Age(r) PROVE AutoInv'
<1>1. reg[r] # 0 /\ run' = [run EXCEPT ![reg[r]].seen = FALSE] /\ UNCHANGED <<mt, reg, aligned, active, ended, page>>
  BY DEF Au!Age
<1>2. RunsInv' /\ Counts'
  BY <1>1, RegIndex, SeenTouches, TouchKeeps DEF AutoInv, RunsInv, DropsCanceled
<1> QED BY <1>1, <1>2, PagesStand, Bounded DEF AutoInv, PagesInv

LEMMA CancelKeeps == ASSUME AutoConfigured, AutoInv, NEW r \in Rows, Au!Cancel(r) PROVE AutoInv'
<1>1. /\ reg[r] # 0 /\ reg' = [reg EXCEPT ![r] = 0] /\ run' = [run EXCEPT ![reg[r]].canceled = TRUE]
      /\ UNCHANGED <<mt, aligned, active, ended, page>>
  BY DEF Au!Cancel
<1>2. DOMAIN run' = 1 .. MaxAligned /\ (\A i \in 1 .. MaxAligned : Touched(i)) /\ run'[reg[r]].canceled
  BY <1>1, RegIndex, StopTouches DEF AutoInv
<1>3. reg' = [q \in Rows |-> reg'[q]] /\ \A q \in Rows : DropsCanceled(q)
  <2>1. reg = [q \in Rows |-> reg[q]]
    BY DEF AutoInv, RunsInv
  <2>2. reg'[r] = 0 /\ \A q \in Rows \ {r} : reg'[q] = reg[q]
    BY <1>1, <2>1
  <2>3. reg' = [q \in Rows |-> reg'[q]]
    BY <1>1, <2>1
  <2> QED BY <1>2, <2>2, <2>3 DEF DropsCanceled
<1>4. RunsInv' /\ Counts'
  BY <1>1, <1>2, <1>3, TouchKeeps DEF AutoInv
<1> QED BY <1>1, <1>4, PagesStand, Bounded DEF AutoInv, PagesInv

LEMMA ReapKeeps == ASSUME AutoConfigured, AutoInv, Au!Reap PROVE AutoInv'
<1> DEFINE stale == {r \in Rows : Au!Stale(r)}
<1>1. /\ run' = Au!reaped(reg, stale) /\ reg' = [r \in Rows |-> IF Au!Stale(r) THEN 0 ELSE reg[r]]
      /\ UNCHANGED <<mt, aligned, active, ended, page>>
  BY DEF Au!Reap
<1>2. /\ DOMAIN run' = 1 .. MaxAligned /\ \A i \in 1 .. MaxAligned : Touched(i)
      /\ \A r \in stale : reg[r] # 0 /\ run[reg[r]].live => run'[reg[r]].canceled
  BY <1>1, ReapedTouches DEF AutoInv
<1>3. reg' = [q \in Rows |-> reg'[q]] /\ \A q \in Rows : DropsCanceled(q)
  BY <1>1, <1>2 DEF DropsCanceled
<1>4. RunsInv' /\ Counts'
  BY <1>1, <1>2, <1>3, TouchKeeps DEF AutoInv
<1> QED BY <1>1, <1>4, PagesStand, Bounded DEF AutoInv, PagesInv

LEMMA CloseKeeps == ASSUME AutoConfigured, AutoInv, Au!Close PROVE AutoInv'
<1>1. /\ reg' = [r \in Rows |-> 0] /\ UNCHANGED <<mt, aligned, active, page>> /\ ended' = TRUE
      /\ run' = [i \in 1 .. MaxAligned |-> IF \E r \in Rows : reg[r] = i THEN [run[i] EXCEPT !.canceled = TRUE] ELSE run[i]]
  BY DEF Au!Close
<1>2. ASSUME NEW i \in 1 .. MaxAligned
      PROVE  Touched(i) /\ ((\E r \in Rows : reg[r] = i) => run'[i].canceled)
  <2>1. run[i] \in Alignments
    BY DEF AutoInv, RunsInv, RunOK
  <2>2. CASE \E r \in Rows : reg[r] = i
    <3> DEFINE b == [run[i] EXCEPT !.canceled = TRUE]
    <3>1. run'[i] = b
      BY <1>1, <2>2
    <3>2. /\ b \in Alignments /\ b.row = run[i].row /\ b.mtime = run[i].mtime /\ b.lines = run[i].lines
          /\ b.state = run[i].state /\ b.live = run[i].live /\ b.canceled
      BY <2>1, StoppedIs, Zenon
    <3> HIDE DEF b
    <3> QED BY <3>1, <3>2 DEF Touched
  <2>3. CASE ~\E r \in Rows : reg[r] = i
    <3>1. run'[i] = run[i]
      BY <1>1, <2>3
    <3> QED BY <2>3, <3>1, SameTouches DEF AutoInv
  <2> QED BY <2>2, <2>3
<1>3. ASSUME NEW q \in Rows PROVE DropsCanceled(q)
  <2>1. reg[q] # 0 => reg[q] \in 1 .. MaxAligned
    BY RegIndex DEF AutoInv
  <2> QED BY <1>1, <1>2, <2>1 DEF DropsCanceled
<1>4. DOMAIN run' = 1 .. MaxAligned /\ reg' = [q \in Rows |-> reg'[q]]
  BY <1>1
<1>5. RunsInv' /\ Counts'
  BY <1>1, <1>2, <1>3, <1>4, TouchKeeps DEF AutoInv
<1> QED BY <1>1, <1>5, PagesStand, Bounded DEF AutoInv, PagesInv

LEMMA EditKeeps == ASSUME AutoConfigured, AutoInv, NEW r \in Rows, Au!Edit(r) PROVE AutoInv'
<1>1. mt[r] <= MaxResaved /\ mt' = [mt EXCEPT ![r] = @ + 1] /\ UNCHANGED <<reg, run, aligned, active, ended, page>>
  BY DEF Au!Edit
<1>2. mt' \in [Rows -> 1 .. (MaxResaved + 1)]
  <2>1. mt \in [Rows -> 1 .. (MaxResaved + 1)] /\ MaxResaved \in Nat
    BY DEF AutoInv, PagesInv, AutoConfigured
  <2>2. mt[r] + 1 \in 1 .. (MaxResaved + 1)
    BY <1>1, <2>1
  <2> QED BY <1>1, <2>1, <2>2
<1> QED BY <1>1, <1>2, RunsStand, PagesStand, Bounded DEF AutoInv, PagesInv

(* A run ends: one goroutine less.                                          *)
LEMMA FinishKeeps == ASSUME AutoConfigured, AutoInv, NEW i \in 1 .. MaxAligned, Au!Finish(i) PROVE AutoInv'
<1>1. PICK s \in {"done", "empty"} : run' = [run EXCEPT ![i].state = s, ![i].live = FALSE, ![i].seen = TRUE]
  BY DEF Au!Finish
<1>2. i \in Au!Live /\ active' = active - 1 /\ UNCHANGED <<mt, reg, aligned, ended, page>>
  BY DEF Au!Finish
<1>3. /\ run'[i] \in Alignments /\ run'[i].row = run[i].row /\ run'[i].mtime = run[i].mtime
      /\ run'[i].lines = run[i].lines /\ run'[i].state = s /\ ~run'[i].live
  <2>1. run[i] \in Alignments /\ s \in RunStates
    BY DEF AutoInv, RunsInv, RunOK, RunStates
  <2>2. run'[i] = [run[i] EXCEPT !.state = s, !.live = FALSE, !.seen = TRUE]
    BY <1>1 DEF AutoInv, RunsInv
  <2> DEFINE b == [run[i] EXCEPT !.state = s, !.live = FALSE, !.seen = TRUE]
  <2>3. /\ b \in Alignments /\ b.row = run[i].row /\ b.mtime = run[i].mtime
        /\ b.lines = run[i].lines /\ b.state = s /\ b.live = FALSE
    <3>1. TRUE \in BOOLEAN /\ FALSE \in BOOLEAN
      OBVIOUS
    <3> QED BY <2>1, <3>1, ShutIs, ZenonT(60)
  <2>4. run'[i] = b
    BY <2>2, Zenon
  <2> HIDE DEF b
  <2> QED BY <2>3, <2>4
<1>4. \A j \in 1 .. MaxAligned \ {i} : run'[j] = run[j]
  BY <1>1 DEF AutoInv, RunsInv
<1>5. DOMAIN run' = 1 .. MaxAligned
  BY <1>1 DEF AutoInv, RunsInv
<1>6. \A j \in 1 .. MaxAligned : RunOK(j)'
  BY <1>2, <1>3, <1>4 DEF AutoInv, RunsInv, RunOK
<1>7. \A r \in Rows : RegOK(r)'
  <2> SUFFICES ASSUME NEW r \in Rows PROVE RegOK(r)'
    OBVIOUS
  <2>1. RegOK(r) /\ (reg[r] # 0 => reg[r] \in 1 .. MaxAligned)
    BY RegIndex DEF AutoInv, RunsInv
  <2> QED BY <1>2, <1>3, <1>4, <2>1 DEF RegOK
<1>8. RunsInv'
  BY <1>2, <1>5, <1>6, <1>7 DEF AutoInv, RunsInv
<1>9. Au!Live' = Au!Live \ {i}
  <2>1. Au!Live = {j \in 1 .. MaxAligned : run[j].live}
    BY LiveFinite DEF AutoInv
  <2>2. Au!Live' = {j \in 1 .. MaxAligned : run'[j].live}
    <3>1. 1 .. aligned' \subseteq 1 .. MaxAligned
      BY <1>2, Bounded
    <3> QED BY <1>8, <3>1 DEF Au!Live, RunsInv, RunOK
  <2> QED BY <1>3, <1>4, <2>1, <2>2
<1>10. Cardinality(Au!Live') = Cardinality(Au!Live) - 1
  BY <1>2, <1>9, LiveFinite, FS_RemoveElement DEF AutoInv
<1>11. Au!SlotsCounted'
  <2>1. active = Cardinality(Au!Live) /\ active <= maxConcurrent /\ active \in Nat /\ maxConcurrent \in Nat
    BY AuSize, LiveFinite DEF AutoInv, Counts, Au!SlotsCounted, AutoConfigured
  <2> QED BY AuSize, <1>2, <1>10, <2>1 DEF Au!SlotsCounted
<1>12. Au!UnlistedIsCanceled'
  <2> SUFFICES ASSUME NEW j \in Au!Live', \A r \in Rows : reg'[r] # j PROVE run'[j].canceled
    BY DEF Au!UnlistedIsCanceled
  <2>1. j \in Au!Live /\ j # i /\ j \in 1 .. MaxAligned
    BY <1>9, LiveFinite DEF AutoInv
  <2> QED BY <1>2, <1>4, <2>1 DEF AutoInv, Counts, Au!UnlistedIsCanceled
<1> QED BY <1>2, <1>8, <1>11, <1>12, PagesStand, Bounded DEF AutoInv, Counts, PagesInv

(* begin: a run of this version is joined; else the one there is told to    *)
(* stop and, where a slot is free, a new one takes its place.               *)
LEMMA SupersededTouches ==
    ASSUME AutoConfigured, RunsInv, NEW r \in Rows, NEW i \in 1 .. MaxAligned
    PROVE  LET b == Au!Superseded(r)[i]
           IN  /\ DOMAIN Au!Superseded(r) = 1 .. MaxAligned /\ b \in Alignments
               /\ b.row = run[i].row /\ b.mtime = run[i].mtime /\ b.lines = run[i].lines /\ b.state = run[i].state
               /\ b.live = run[i].live /\ (run[i].canceled => b.canceled)
               /\ reg[r] = i /\ run[i].live => b.canceled
<1>1. run[i] \in Alignments /\ (run[i].live <=> run[i].state = "running") /\ DOMAIN run = 1 .. MaxAligned /\ i # 0
  BY DEF RunsInv, RunOK
<1>2. CASE Au!Running(r) /\ reg[r] = i
  <2> DEFINE b == [run[i] EXCEPT !.canceled = TRUE]
  <2>1. Au!Superseded(r)[i] = b /\ DOMAIN Au!Superseded(r) = 1 .. MaxAligned
    BY <1>1, <1>2 DEF Au!Superseded
  <2>2. /\ b \in Alignments /\ b.row = run[i].row /\ b.mtime = run[i].mtime /\ b.lines = run[i].lines
        /\ b.state = run[i].state /\ b.live = run[i].live /\ b.canceled
    BY <1>1, StoppedIs, Zenon
  <2> HIDE DEF b
  <2> QED BY <2>1, <2>2
<1>3. CASE ~(Au!Running(r) /\ reg[r] = i)
  <2>1. Au!Superseded(r)[i] = run[i] /\ DOMAIN Au!Superseded(r) = 1 .. MaxAligned
    BY <1>1, <1>3 DEF Au!Superseded
  <2>2. ~(reg[r] = i /\ run[i].live)
    BY <1>1, <1>3 DEF Au!Running
  <2> QED BY <1>1, <2>1, <2>2
<1> QED BY <1>2, <1>3

LEMMA BeginKeeps == ASSUME AutoConfigured, AutoInv, NEW p \in Browsers, Au!Begin(p) PROVE AutoInv'
<1> DEFINE r == page[p].row
           m == page[p].mtime
<1>1. UNCHANGED <<mt, ended>> /\ Au!Answer(p) /\ aligned < MaxAligned /\ page[p].pc = "begin"
  BY DEF Au!Begin
<1>2. r \in Rows /\ m \in Times /\ page[p].lines = m
  BY <1>1 DEF AutoInv, PagesInv, PageOK, PageStates
<1>3. ASSUME aligned' \in {aligned, aligned + 1} PROVE PagesInv'
  BY <1>1, <1>3, AnswerKeeps, Bounded DEF AutoInv
<1>4. CASE UNCHANGED <<reg, run, aligned, active>>
  BY <1>3, <1>4, RunsStand DEF AutoInv
<1>5. CASE Au!Running(r) /\ run' = [run EXCEPT ![reg[r]].seen = TRUE] /\ UNCHANGED <<reg, aligned, active>>
  <2>1. reg[r] # 0
    BY <1>5 DEF Au!Running
  <2>2. RunsInv' /\ Counts'
    BY <1>2, <1>5, <2>1, RegIndex, SeenTouches, TouchKeeps DEF AutoInv, RunsInv, DropsCanceled
  <2> QED BY <1>3, <1>5, <2>2 DEF AutoInv
<1>6. CASE run' = Au!Superseded(r) /\ UNCHANGED <<reg, aligned, active>>
  <2>0. DOMAIN run' = 1 .. MaxAligned
    BY <1>6 DEF AutoInv, RunsInv, Au!Superseded
  <2>1. \A i \in 1 .. MaxAligned : Touched(i)
    BY <1>2, <1>6, SupersededTouches DEF AutoInv, Touched
  <2>2. RunsInv' /\ Counts'
    BY <1>6, <2>0, <2>1, TouchKeeps DEF AutoInv, RunsInv, DropsCanceled
  <2> QED BY <1>3, <1>6, <2>2 DEF AutoInv
<1>7. CASE /\ Au!FreeSlot /\ aligned' = aligned + 1 /\ active' = active + 1 /\ reg' = [reg EXCEPT ![r] = aligned + 1]
           /\ run' = [Au!Superseded(r) EXCEPT ![aligned + 1] =
                [row |-> r, mtime |-> m, lines |-> page[p].lines, state |-> "running",
                 live |-> TRUE, canceled |-> FALSE, seen |-> TRUE]]
  <2> DEFINE k == aligned + 1
             a == [row |-> r, mtime |-> m, lines |-> page[p].lines, state |-> "running",
                   live |-> TRUE, canceled |-> FALSE, seen |-> TRUE]
             old == Au!Superseded(r)
  <2>0. Au!FreeSlot /\ aligned' = k /\ active' = active + 1
    BY <1>7, Zenon
  <2>1. k \in 1 .. MaxAligned /\ k \in Nat /\ aligned \in Nat /\ k \notin 1 .. aligned /\ MaxAligned \in Nat
    BY <1>1, Bounded DEF AutoConfigured
  <2>2. a \in Alignments /\ a.row = r /\ a.mtime = m /\ a.lines = m /\ a.state = "running" /\ a.live
    BY <1>2 DEF Alignments, RunStates
  <2> HIDE DEF a
  <2>3. run'[k] = a /\ DOMAIN run' = 1 .. MaxAligned
    BY <1>2, <1>7, <2>1, SupersededTouches DEF AutoInv, a
  <2>4. ASSUME NEW i \in 1 .. MaxAligned, i # k PROVE Touched(i) /\ (reg[r] = i /\ run[i].live => run'[i].canceled)
    <3>1. run'[i] = old[i]
      BY <1>2, <1>7, <2>1, <2>4, SupersededTouches DEF AutoInv, a
    <3> QED BY <1>2, <3>1, SupersededTouches DEF AutoInv, Touched
  <2>5. ASSUME NEW i \in 1 .. MaxAligned PROVE RunOK(i)'
    <3>0. RunOK(i)
      BY DEF AutoInv, RunsInv
    <3>1. CASE i = k
      <4>1. run'[i] = a /\ i \in 1 .. aligned'
        BY <2>0, <2>1, <2>3, <3>1
      <4>2. a.lines = a.mtime /\ (a.live <=> a.state = "running")
        BY <2>2
      <4> QED BY <2>2, <4>1, <4>2 DEF RunOK
    <3>2. CASE i # k
      <4>1. i <= aligned' => i <= aligned
        BY <1>7, <2>1, <3>2
      <4>2. i \in 1 .. aligned => i \in 1 .. aligned'
        BY <1>7, <2>1
      <4> QED BY <2>4, <3>0, <3>2, <4>1, <4>2 DEF RunOK, Touched
    <3> QED BY <3>1, <3>2
  <2>6. /\ reg'[r] = k /\ \A q \in Rows \ {r} : reg'[q] = reg[q]
        /\ reg' = [q \in Rows |-> reg'[q]]
    <3>1. reg = [q \in Rows |-> reg[q]]
      BY DEF AutoInv, RunsInv
    <3>2. reg'[r] = k /\ \A q \in Rows \ {r} : reg'[q] = reg[q]
      BY <1>2, <1>7, <3>1
    <3>3. reg' = [q \in Rows |-> reg'[q]]
      BY <1>7, <3>1
    <3> QED BY <3>2, <3>3
  <2>7. ASSUME NEW q \in Rows PROVE RegOK(q)'
    <3>1. CASE q = r
      BY <1>7, <2>1, <2>2, <2>3, <2>6, <3>1 DEF RegOK
    <3>2. CASE q # r
      <4>1. RegOK(q) /\ (reg[q] # 0 => reg[q] \in 1 .. MaxAligned /\ reg[q] \in 1 .. aligned)
        BY RegIndex DEF AutoInv, RunsInv
      <4>2. reg[q] \in 0 .. aligned'
        BY <1>7, <2>1, <4>1
      <4>3. reg[q] # 0 => run'[reg[q]].row = q
        <5>1. reg[q] # 0 => reg[q] \in 1 .. MaxAligned /\ reg[q] # k
          BY <2>1, <4>1
        <5> QED BY <2>4, <4>1, <5>1 DEF RegOK, Touched
      <4> QED BY <2>6, <3>2, <4>2, <4>3 DEF RegOK
    <3> QED BY <3>1, <3>2
  <2>8. RunsInv'
    <3>1. aligned' \in 0 .. MaxAligned
      BY <1>7, <2>1
    <3> QED BY <2>3, <2>5, <2>6, <2>7, <3>1 DEF RunsInv
  <2>9. Au!Live = {i \in 1 .. MaxAligned : run[i].live} /\ Au!Live' = {i \in 1 .. MaxAligned : run'[i].live}
    <3>1. 1 .. aligned' \subseteq 1 .. MaxAligned
      BY <2>0, <2>1
    <3>2. Au!Live' = {i \in 1 .. MaxAligned : run'[i].live}
      BY <2>8, <3>1 DEF Au!Live, RunsInv, RunOK
    <3> QED BY <3>2, LiveFinite DEF AutoInv
  <2>10. Au!Live' = Au!Live \cup {k} /\ k \notin Au!Live
    <3>1. \A i \in 1 .. MaxAligned : i # k => run'[i].live = run[i].live
      BY <2>4 DEF Touched
    <3>2. k \notin Au!Live
      BY <2>1 DEF Au!Live
    <3> QED BY <2>1, <2>2, <2>3, <2>9, <3>1, <3>2
  <2>11. Cardinality(Au!Live') = Cardinality(Au!Live) + 1
    BY <2>10, LiveFinite, FS_AddElement DEF AutoInv
  <2>12. Au!SlotsCounted'
    <3>1. active = Cardinality(Au!Live) /\ active \in Nat /\ maxConcurrent \in Nat /\ active < maxConcurrent
      BY AuSize, <1>7, LiveFinite DEF AutoInv, Counts, Au!SlotsCounted, AutoConfigured, Au!FreeSlot
    <3> QED BY AuSize, <1>7, <2>11, <3>1 DEF Au!SlotsCounted
  <2>13. Au!UnlistedIsCanceled'
    <3> SUFFICES ASSUME NEW i \in Au!Live', \A q \in Rows : reg'[q] # i PROVE run'[i].canceled
      BY DEF Au!UnlistedIsCanceled
    <3>1. i # k /\ i \in Au!Live /\ i \in 1 .. MaxAligned
      BY <1>2, <2>6, <2>10, <2>9
    <3>2. CASE reg[r] = i
      BY <2>4, <2>9, <3>1, <3>2
    <3>3. CASE reg[r] # i
      <4>1. \A q \in Rows : reg[q] # i
        BY <2>6, <3>3
      <4>2. run[i].canceled
        BY <3>1, <4>1 DEF AutoInv, Counts, Au!UnlistedIsCanceled
      <4> QED BY <2>4, <3>1, <4>2 DEF Touched
    <3> QED BY <3>2, <3>3
  <2> QED BY <1>3, <1>7, <2>8, <2>12, <2>13 DEF AutoInv, Counts
<1> QED BY <1>4, <1>5, <1>6, <1>7 DEF Au!Begin

LEMMA AutoStep == ASSUME AutoConfigured, AutoInv, [Au!Next]_Au!vars PROVE AutoInv'
<1>1. CASE UNCHANGED Au!vars
  BY <1>1, RunsStand, PagesStand, Bounded DEF Au!vars, AutoInv, PagesInv
<1>2. CASE Au!Next
  BY <1>2, PollGetKeeps, StartGetKeeps, StartReadKeeps, BeginKeeps, PollChangedKeeps, PollAnswerKeeps, FinishKeeps,
     AgeKeeps, CancelKeeps, EditKeeps, ReapKeeps, CloseKeeps DEF Au!Next
<1> QED BY <1>1, <1>2

LEMMA AutoHolds == ASSUME AutoConfigured PROVE Au!Spec => []AutoInv
BY AutoInit, AutoStep, PTL DEF Au!Spec

-----------------------------------------------------------------------------
(* Versions, runs and pages keep their types and a row's run is its own.    *)
THEOREM AutoTypesHold == ASSUME AutoConfigured PROVE Au!Spec => []Au!TypeOK
<1>1. AutoInv => Au!TypeOK
  <2> SUFFICES ASSUME AutoInv PROVE Au!TypeOK
    OBVIOUS
  <2>1. reg \in [Rows -> 0 .. MaxAligned] /\ \A r \in Rows : reg[r] # 0 => run[reg[r]].row = r
    <3>1. \A r \in Rows : reg[r] \in 0 .. MaxAligned /\ (reg[r] # 0 => run[reg[r]].row = r)
      BY Bounded DEF AutoInv, RunsInv, RegOK
    <3>2. reg = [r \in Rows |-> reg[r]]
      BY DEF AutoInv, RunsInv
    <3> QED BY <3>1, <3>2
  <2>2. active \in 0 .. MaxAligned
    BY AuSize, LiveFinite, Bounded DEF AutoInv, Counts, Au!SlotsCounted
  <2>3. \A i \in 1 .. MaxAligned : run[i].state \in RunStates
    BY DEF AutoInv, RunsInv, RunOK, Alignments
  <2>4. \A p \in Browsers : page[p].pc \in {"idle", "read", "begin", "stat"}
    BY DEF AutoInv, PagesInv, PageOK, PageStates
  <2> QED BY <2>1, <2>2, <2>3, <2>4 DEF AutoInv, RunsInv, PagesInv, Au!TypeOK, RunStates
<1> QED BY <1>1, AutoHolds, PTL

(* The count the limit is taken from is that of the goroutines alive, those *)
(* of dropped and replaced runs included (auto_run.go's begin and finish).  *)
THEOREM AutoSlotsCounted == ASSUME AutoConfigured PROVE Au!Spec => []Au!SlotsCounted
<1>1. AutoInv => Au!SlotsCounted
  BY DEF AutoInv, Counts
<1> QED BY <1>1, AutoHolds, PTL

(* No alignment goes on that no page can reach and nobody told to stop: for *)
(* any rows, pages and slots, through replacement, reaping and Close.       *)
THEOREM AutoUnlistedStops == ASSUME AutoConfigured PROVE Au!Spec => []Au!UnlistedIsCanceled
<1>1. AutoInv => Au!UnlistedIsCanceled
  BY DEF AutoInv, Counts
<1> QED BY <1>1, AutoHolds, PTL

(* A suggestion a poll answers with was made from the text that was on disk *)
(* when the poll looked.                                                    *)
THEOREM AutoSuggestsCurrent == ASSUME AutoConfigured PROVE Au!Spec => [][Au!SuggestionCurrent]_Au!vars
<1>1. ASSUME AutoConfigured, AutoInv, [Au!Next]_Au!vars PROVE Au!SuggestionCurrent
  <2> SUFFICES ASSUME NEW p \in Browsers, page[p].pc = "stat", page'[p].pc = "idle", ~run'[page[p].run].canceled
               PROVE  run[page[p].run].lines = mt[page[p].row]
    BY DEF Au!SuggestionCurrent
  <2>1. page[p].run \in 1 .. MaxAligned /\ page[p].run <= aligned /\ page = [q \in Browsers |-> page[q]]
    BY <1>1, Bounded DEF AutoInv, PagesInv, PageOK
  <2>2. run[page[p].run].lines = run[page[p].run].mtime
    BY <1>1, <2>1 DEF AutoInv, RunsInv, RunOK
  <2>3. ASSUME Au!PollChanged(p) PROVE FALSE
    BY <1>1, <2>1, <2>3, StopTouches DEF Au!PollChanged, Au!Drop, AutoInv
  <2>4. Au!PollChanged(p) \/ Au!PollAnswer(p)
    <3>1. ASSUME NEW q \in Browsers, q # p, Au!Answer(q) PROVE FALSE
      BY <2>1, <3>1 DEF Au!Answer
    <3>2. ASSUME NEW q \in Browsers, NEW r \in Rows, Au!PollGet(q, r) PROVE FALSE
      <4>1. \E v : page' = page \/ (page' = [page EXCEPT ![q] = v] /\ v.pc = "stat")
        <5> DEFINE w == [Au!Idle EXCEPT !.pc = "stat", !.row = r, !.run = reg[r], !.state = run[reg[r]].state]
        <5>1. page' = page \/ page' = [page EXCEPT ![q] = w]
          BY <3>2 DEF Au!PollGet
        <5>2. w.pc = "stat"
          BY NoRunOK, <1>1 DEF PageStates
        <5> QED BY <5>1, <5>2
      <4> QED BY <2>1, <4>1
    <3>3. ASSUME NEW q \in Browsers, NEW r \in Rows, NEW m \in 1 .. (MaxResaved + 1), Au!StartGet(q, r, m) PROVE FALSE
      <4>1. q # p
        BY <3>3 DEF Au!StartGet
      <4>2. \E v : page' = [page EXCEPT ![q] = v]
        BY <3>3 DEF Au!StartGet, Au!Answer
      <4> QED BY <2>1, <4>1, <4>2
    <3>4. ASSUME NEW q \in Browsers, Au!StartRead(q) \/ Au!Begin(q) PROVE FALSE
      <4>1. q # p
        BY <3>4 DEF Au!StartRead, Au!Begin
      <4>2. \E v : page' = [page EXCEPT ![q] = v]
        <5>1. CASE Au!Answer(q)
          BY <5>1 DEF Au!Answer
        <5>2. CASE ~Au!Answer(q)
          <6>1. page' = [page EXCEPT ![q].pc = "begin", ![q].lines = mt[page[q].row]]
            BY <3>4, <5>2 DEF Au!StartRead, Au!Begin
          <6>2. page' = [page EXCEPT ![q] = [page[q] EXCEPT !.pc = "begin", !.lines = mt[page[q].row]]]
            BY <6>1
          <6> QED BY <6>2
        <5> QED BY <5>1, <5>2
      <4> QED BY <2>1, <4>1, <4>2
    <3>5. ASSUME NEW q \in Browsers, Au!PollChanged(q) \/ Au!PollAnswer(q) PROVE q = p
      BY <3>1, <3>5 DEF Au!PollChanged, Au!PollAnswer
    <3>6. page' # page
      OBVIOUS
    <3> QED BY <1>1, <3>2, <3>3, <3>4, <3>5, <3>6 DEF Au!Next, Au!vars, Au!Finish, Au!Age, Au!Cancel, Au!Edit, Au!Reap, Au!Close
  <2> QED BY <2>2, <2>3, <2>4 DEF Au!PollAnswer, Au!StatAgrees
<1> QED BY <1>1, AutoHolds, PTL DEF Au!Spec

(* A poll never costs a row the run that is watched and of the version on   *)
(* disk: the late answer to a poll of a replaced run drops its own only.    *)
THEOREM AutoWatchedStays == ASSUME AutoConfigured PROVE Au!Spec => [][Au!WatchedRunKept]_Au!vars
<1>1. ASSUME AutoConfigured, AutoInv, [Au!Next]_Au!vars PROVE Au!WatchedRunKept
  <2> SUFFICES ASSUME NEW r \in Rows, NEW p \in Browsers, Au!Running(r), run[reg[r]].seen, run[reg[r]].mtime = mt[r],
                      page'[p] # page[p], page[p].pc # "begin"
               PROVE  reg'[r] = reg[r]
    BY DEF Au!WatchedRunKept
  <2>1. page = [q \in Browsers |-> page[q]] /\ reg = [q \in Rows |-> reg[q]]
    BY <1>1 DEF AutoInv, PagesInv, RunsInv
  <2>2. ASSUME NEW q \in Browsers, NEW s \in Rows, Au!PollGet(q, s) PROVE reg'[r] = reg[r]
    BY <2>2 DEF Au!PollGet, Au!Stale
  <2>3. ASSUME NEW q \in Browsers, Au!PollChanged(q) PROVE reg'[r] = reg[r]
    <3>1. page[q].row = r => reg[r] # page[q].run
      BY <2>3 DEF Au!PollChanged, Au!StatAgrees
    <3> QED BY <2>1, <2>3, <3>1 DEF Au!PollChanged, Au!Drop
  <2>4. ASSUME NEW q \in Browsers, Au!Begin(q) PROVE FALSE
    BY <2>1, <2>4 DEF Au!Begin, Au!Answer
  <2> QED BY <1>1, <2>2, <2>3, <2>4 DEF Au!Next, Au!vars, Au!StartGet, Au!StartRead, Au!PollAnswer, Au!Finish, Au!Age, Au!Cancel, Au!Edit, Au!Reap, Au!Close
<1> QED BY <1>1, AutoHolds, PTL DEF Au!Spec

-----------------------------------------------------------------------------
(* Hand edits (HandEdit). *)

(* The names of the locks' other holders are no editors, a stat after the   *)
(* rename does not fail (the code takes such an edit for undone), and the   *)
(* bounds are numbers.                                                      *)
EditConfigured ==
    /\ He!Free \notin Editors /\ "sweep" \notin Editors /\ "tags" \notin Editors
    /\ "stat" \notin EditFaults
    /\ MaxWrites \in Nat \ {0} /\ maxDegradedAttempts \in Nat \ {0}

Marks == {"no", "offset", "retime"}
Away == {"idle", "load"}
Holding == {"mark", "recheck", "check", "backup", "publish", "clear", "restore"}
Sure == {"check", "backup", "publish", "clear"}
EditPCs == Away \cup {"lock"} \cup Holding
Lyrics == [gen : 0 .. MaxWrites, hand : BOOLEAN, tag : BOOLEAN, stamp : 0 .. MaxWrites]
EditRequests == [pc : EditPCs, op : {"none", "offset", "retime", "revert"}, page : 0 .. MaxWrites,
                 prior : Marks, src : Lyrics]

EditTypes ==
    /\ row \in [st : {"done", "open", "processing"}, edit : Marks]
    /\ lrc \in Lyrics /\ orig \in Lyrics /\ writes \in 1 .. MaxWrites /\ lrc.stamp \in 0 .. writes
    /\ ed \in [Editors -> EditRequests]
    /\ rowLock \in Editors \cup {He!Free} /\ pathLock \in Editors \cup {He!Free, "sweep", "tags"}
    /\ filled \in [done : BOOLEAN, attempts : 0 .. (maxDegradedAttempts - 1)]

(* An editor past its look at the row holds the row's lock, and the path's  *)
(* from its mark on.                                                        *)
EdLocks(e) == /\ ed[e].pc \notin Away <=> rowLock = e
              /\ ed[e].pc \in Holding <=> pathLock = e

(* It has marked the row, or found it marked, before it looks again; what   *)
(* it would restore covers an edited file; past the second look no trip is  *)
(* admitted and the file stays the one its page showed.                     *)
EdMarks(e) ==
    /\ ed[e].pc # "idle" => ed[e].op \in {"offset", "retime", "revert"}
    /\ ed[e].pc = "mark" => ed[e].op # "revert"
    /\ ed[e].pc \notin Away /\ ed[e].op = "revert" => row.edit # "no"
    /\ ed[e].pc \in {"recheck", "check", "backup", "publish"} => row.edit # "no"
    /\ ed[e].pc \notin Away \cup {"clear"} /\ lrc.hand => ed[e].prior # "no"
    /\ ed[e].pc = "clear" => ed[e].op = "revert" /\ ~lrc.hand
EdFile(e) ==
    /\ ed[e].pc \in Sure => row.st = "done"
    /\ ed[e].pc \in {"backup", "publish"} => lrc # He!None /\ lrc.stamp = ed[e].page
    /\ ed[e].pc = "publish" => orig # He!None
EdOK(e) == EdLocks(e) /\ EdMarks(e) /\ EdFile(e)

(* Nobody but an editor is at a file edited by hand.                        *)
Quiet ==
    /\ row.st # "done" => ~lrc.hand
    /\ wk # "idle" <=> row.st = "processing"
    /\ sweep \in {"locked", "move"} <=> pathLock = "sweep"
    /\ tags \in {"locked", "rewrite"} <=> pathLock = "tags"
    /\ sweep = "move" => ~lrc.hand
    /\ tags = "rewrite" => ~lrc.hand

Fetched == He!EditIsMarked /\ ~orig.hand

EditInv == EditTypes /\ (\A e \in Editors : EdOK(e)) /\ Quiet /\ Fetched

-----------------------------------------------------------------------------
LEMMA NoneIs == ASSUME EditConfigured
                PROVE  He!None \in Lyrics /\ ~He!None.hand /\ He!None.stamp = 0
<1>1. \A S : 0 \in S => [gen |-> 0, hand |-> FALSE, tag |-> FALSE, stamp |-> 0] \in
                          [gen : S, hand : BOOLEAN, tag : BOOLEAN, stamp : S]
  OBVIOUS
<1>2. 0 \in 0 .. MaxWrites
  BY DEF EditConfigured
<1> QED BY <1>1, <1>2 DEF He!None, Lyrics

LEMMA MadeIs ==
    ASSUME NEW g \in 0 .. MaxWrites, NEW h \in BOOLEAN, NEW t \in BOOLEAN, NEW s \in 0 .. MaxWrites
    PROVE  LET b == [gen |-> g, hand |-> h, tag |-> t, stamp |-> s]
           IN  b \in Lyrics /\ b.hand = h /\ b.stamp = s
BY DEF Lyrics

LEMMA TaggedIs ==
    ASSUME NEW a \in Lyrics, NEW s \in 0 .. MaxWrites, NEW t \in BOOLEAN
    PROVE  LET b == [a EXCEPT !.tag = t, !.stamp = s]
           IN  b \in Lyrics /\ b.hand = a.hand /\ b.stamp = s
BY DEF Lyrics

LEMMA NoRequestIs == ASSUME EditConfigured
                     PROVE  He!NoRequest \in EditRequests /\ He!NoRequest.pc = "idle"
<1>1. \A S, L : \A v \in L : 0 \in S =>
         [pc |-> "idle", op |-> "none", page |-> 0, prior |-> "no", src |-> v] \in
         [pc : EditPCs, op : {"none", "offset", "retime", "revert"}, page : S, prior : Marks, src : L]
  BY DEF EditPCs, Away, Marks
<1>2. 0 \in 0 .. MaxWrites /\ He!None \in Lyrics
  BY NoneIs DEF EditConfigured
<1> QED BY <1>1, <1>2 DEF He!NoRequest, EditRequests

LEMMA GotoIs ==
    ASSUME EditTypes, NEW e \in Editors, NEW p \in EditPCs, He!Goto(e, p)
    PROVE  /\ ed' \in [Editors -> EditRequests] /\ \A q \in Editors \ {e} : ed'[q] = ed[q]
           /\ ed'[e].pc = p /\ ed'[e].op = ed[e].op /\ ed'[e].page = ed[e].page
           /\ ed'[e].prior = ed[e].prior /\ ed'[e].src = ed[e].src
BY DEF EditTypes, EditRequests, He!Goto

LEMMA ReturnIs ==
    ASSUME EditConfigured, EditTypes, NEW e \in Editors, EdLocks(e), He!Return(e)
    PROVE  /\ ed' \in [Editors -> EditRequests] /\ \A q \in Editors \ {e} : ed'[q] = ed[q]
           /\ ed'[e].pc = "idle" /\ rowLock' # e /\ pathLock' # e
           /\ rowLock' \in {rowLock, He!Free} /\ pathLock' \in {pathLock, He!Free}
           /\ (rowLock # e => rowLock' = rowLock) /\ (pathLock # e => pathLock' = pathLock)
BY NoRequestIs DEF EditConfigured, EditTypes, He!Return

LEMMA EditInit == ASSUME EditConfigured, He!Init PROVE EditInv
<1>1. lrc \in Lyrics /\ ~lrc.hand /\ lrc.stamp = 1
  <2>1. 1 \in 0 .. MaxWrites /\ FALSE \in BOOLEAN
    BY DEF EditConfigured
  <2> DEFINE b == [gen |-> 1, hand |-> FALSE, tag |-> FALSE, stamp |-> 1]
  <2>2. b \in Lyrics /\ b.hand = FALSE /\ b.stamp = 1
    BY <2>1, MadeIs, Zenon
  <2>3. lrc = b
    BY Zenon DEF He!Init
  <2> HIDE DEF b
  <2> QED BY <2>2, <2>3
<1>2. orig \in Lyrics /\ ~orig.hand
  BY NoneIs DEF He!Init
<1>3. \A e \in Editors : ed[e] = He!NoRequest
  BY DEF He!Init
<1>4. EditTypes
  <2>1. row \in [st : {"done", "open", "processing"}, edit : Marks]
    BY DEF He!Init, Marks
  <2>2. ed \in [Editors -> EditRequests]
    BY NoRequestIs DEF He!Init
  <2>3. writes = 1 /\ rowLock = He!Free /\ pathLock = He!Free
    BY DEF He!Init
  <2>4. filled \in [done : BOOLEAN, attempts : 0 .. (maxDegradedAttempts - 1)]
    <3>1. \A S : 0 \in S => [done |-> FALSE, attempts |-> 0] \in [done : BOOLEAN, attempts : S]
      OBVIOUS
    <3>2. 0 \in 0 .. (maxDegradedAttempts - 1)
      BY DEF EditConfigured
    <3> QED BY <3>1, <3>2 DEF He!Init
  <2> QED BY <1>1, <1>2, <2>1, <2>2, <2>3, <2>4 DEF EditTypes, EditConfigured
<1>5. \A e \in Editors : EdOK(e)
  <2>1. rowLock = He!Free /\ pathLock = He!Free
    BY DEF He!Init
  <2> QED BY <1>3, <2>1, NoRequestIs DEF EdOK, EdLocks, EdMarks, EdFile, Away, Holding, Sure, EditConfigured
<1>6. Quiet /\ Fetched
  <2>1. /\ row.st = "done" /\ wk = "idle" /\ sweep = "idle" /\ tags = "idle" /\ pathLock = He!Free
    BY DEF He!Init
  <2> QED BY <1>1, <1>2, <2>1 DEF Quiet, Fetched, He!EditIsMarked, He!Free
<1> QED BY <1>4, <1>5, <1>6 DEF EditInv

(* What is not an editor's step leaves the editors as they are.             *)
LEMMA EditorsStand ==
    ASSUME EditInv, UNCHANGED <<ed, rowLock, orig>>,
           \A e \in Editors : pathLock' = e <=> pathLock = e,
           row'.edit = row.edit, lrc'.hand => lrc.hand,
           \A e \in Editors : ed[e].pc \in Sure => row'.st = "done" /\ lrc' = lrc
    PROVE  \A e \in Editors : EdOK(e)'
BY DEF EditInv, EdOK, EdLocks, EdMarks, EdFile, Sure

(* While an editor takes a step that needs the row's lock, the others have  *)
(* not looked at the row.                                                   *)
LEMMA OthersStand ==
    ASSUME EditConfigured, EditInv, NEW e \in Editors, \A q \in Editors \ {e} : ed'[q] = ed[q],
           rowLock \in {e, He!Free}, rowLock' \in {e, He!Free}, pathLock' \in {pathLock, e, He!Free}
    PROVE  \A q \in Editors \ {e} : EdOK(q)'
<1> SUFFICES ASSUME NEW q \in Editors, q # e PROVE EdOK(q)'
  OBVIOUS
<1>1. ed[q].pc \in Away /\ rowLock' # q /\ pathLock # q /\ pathLock' # q
  BY DEF EditConfigured, EditInv, EdOK, EdLocks, Away, Holding
<1>2. ed'[q] = ed[q] /\ EdMarks(q)
  BY DEF EditInv, EdOK
<1> QED BY <1>1, <1>2 DEF EdOK, EdLocks, EdMarks, EdFile, Away, Holding, Sure

LEMMA QuietStands ==
    ASSUME EditConfigured, EditInv, NEW e \in Editors, UNCHANGED <<wk, sweep, tags, lrc>>, row'.st = row.st,
           pathLock' = pathLock \/ (pathLock \in {e, He!Free} /\ pathLock' \in {e, He!Free})
    PROVE  Quiet'
BY DEF EditConfigured, EditInv, Quiet, He!Free

(* A step of an editor that keeps the file and the row's status, and backs  *)
(* the file up at most.                                                     *)
LEMMA EditorStepKeeps ==
    ASSUME EditConfigured, EditInv, NEW e \in Editors, UNCHANGED <<wk, sweep, tags, lrc, filled, writes>>,
           orig' = orig \/ (orig = He!None /\ orig' = lrc),
           row'.st = row.st, row' \in [st : {"done", "open", "processing"}, edit : Marks],
           ed' \in [Editors -> EditRequests], \A q \in Editors \ {e} : ed'[q] = ed[q],
           rowLock \in {e, He!Free}, rowLock' \in {e, He!Free},
           pathLock' = pathLock \/ (pathLock \in {e, He!Free} /\ pathLock' \in {e, He!Free}),
           EdOK(e)', lrc.hand => row'.edit # "no"
    PROVE  EditInv'
<1>1. EditTypes'
  BY DEF EditConfigured, EditInv, EditTypes
<1>2. \A q \in Editors : EdOK(q)'
  <2>1. pathLock' \in {pathLock, e, He!Free}
    OBVIOUS
  <2> QED BY <2>1, OthersStand
<1>3. Quiet'
  BY QuietStands
<1>4. Fetched'
  BY DEF EditInv, Fetched, He!EditIsMarked
<1> QED BY <1>1, <1>2, <1>3, <1>4 DEF EditInv

LEMMA RequestKeeps == ASSUME EditConfigured, EditInv, NEW e \in Editors, He!Request(e) PROVE EditInv'
<1>1. PICK op \in {"offset", "retime", "revert"}, pg \in 1 .. writes :
         ed' = [ed EXCEPT ![e] = [He!NoRequest EXCEPT !.pc = "load", !.op = op, !.page = pg]]
  BY DEF He!Request
<1>2. He!At(e, "idle") /\ UNCHANGED <<row, lrc, orig, rowLock, pathLock, wk, sweep, tags, filled, writes>>
  BY DEF He!Request, He!files, He!locks
<1>3. ed' \in [Editors -> EditRequests] /\ ed'[e].pc = "load" /\ ed'[e].op = op
      /\ \A q \in Editors \ {e} : ed'[q] = ed[q]
  <2> DEFINE b == [He!NoRequest EXCEPT !.pc = "load", !.op = op, !.page = pg]
  <2>1. pg \in 0 .. MaxWrites
    BY DEF EditInv, EditTypes, EditConfigured
  <2>2. b \in EditRequests /\ b.pc = "load" /\ b.op = op
    BY <2>1, NoRequestIs DEF EditRequests, EditPCs, Away
  <2>3. ed' = [ed EXCEPT ![e] = b]
    BY <1>1, Zenon
  <2> HIDE DEF b
  <2> QED BY <2>2, <2>3 DEF EditInv, EditTypes
<1>4. \A q \in Editors : EdOK(q)'
  BY <1>2, <1>3 DEF EditInv, EdOK, EdLocks, EdMarks, EdFile, He!At, Away, Holding, Sure
<1>5. EditTypes'
  BY <1>2, <1>3 DEF EditInv, EditTypes
<1>6. Quiet' /\ Fetched'
  BY <1>2 DEF EditInv, Quiet, Fetched, He!EditIsMarked
<1> QED BY <1>4, <1>5, <1>6 DEF EditInv

LEMMA LoadKeeps == ASSUME EditConfigured, EditInv, NEW e \in Editors, He!Load(e) PROVE EditInv'
<1>1. He!At(e, "load") /\ rowLock = He!Free /\ UNCHANGED <<row, lrc, orig, wk, sweep, tags, filled, writes>>
  BY DEF He!Load, He!files
<1>2. EdOK(e) /\ EditTypes /\ row \in [st : {"done", "open", "processing"}, edit : Marks] /\ row.edit \in Marks
      /\ (lrc.hand => row.edit # "no")
  BY DEF EditInv, EditTypes, Fetched, He!EditIsMarked
<1>3. CASE /\ He!LineEditable /\ (ed[e].op = "revert" => row.edit # "no") /\ rowLock' = e /\ UNCHANGED pathLock
           /\ ed' = [ed EXCEPT ![e].pc = "lock", ![e].prior = row.edit]
  <2>1. /\ ed' \in [Editors -> EditRequests] /\ \A q \in Editors \ {e} : ed'[q] = ed[q]
        /\ ed'[e].pc = "lock" /\ ed'[e].op = ed[e].op /\ ed'[e].prior = row.edit
    BY <1>2, <1>3 DEF EditTypes, EditRequests, EditPCs
  <2>2. EdOK(e)'
    BY <1>1, <1>2, <1>3, <2>1 DEF EdOK, EdLocks, EdMarks, EdFile, He!At, Away, Holding, Sure
  <2> QED BY <1>1, <1>2, <1>3, <2>1, <2>2, EditorStepKeeps
<1>4. CASE He!Return(e)
  <2>1. /\ ed' \in [Editors -> EditRequests] /\ \A q \in Editors \ {e} : ed'[q] = ed[q]
        /\ ed'[e].pc = "idle" /\ rowLock' # e /\ pathLock' # e
        /\ rowLock' = He!Free /\ pathLock' = pathLock
    BY <1>1, <1>2, <1>4, ReturnIs DEF EdOK, EdLocks, He!At, Away, Holding
  <2>2. EdOK(e)'
    BY <2>1 DEF EdOK, EdLocks, EdMarks, EdFile, Away, Holding, Sure
  <2> QED BY <1>1, <1>2, <2>1, <2>2, EditorStepKeeps
<1> QED BY <1>3, <1>4 DEF He!Load

(* What is known of an editor that holds both locks.                        *)
LEMMA AtWork ==
    ASSUME EditConfigured, EditInv, NEW e \in Editors, ed[e].pc \in Holding
    PROVE  /\ rowLock = e /\ pathLock = e /\ EdOK(e) /\ EditTypes /\ sweep \notin {"locked", "move"}
           /\ tags \notin {"locked", "rewrite"} /\ e \notin {He!Free, "sweep", "tags"}
           /\ row \in [st : {"done", "open", "processing"}, edit : Marks] /\ (lrc.hand => row.edit # "no")
BY DEF EditConfigured, EditInv, EdOK, EdLocks, EditTypes, Quiet, Fetched, He!EditIsMarked, Holding, Away

(* One step that only moves on.                                             *)
LEMMA GotoKeeps ==
    ASSUME EditConfigured, EditInv, NEW e \in Editors, NEW p \in Holding, ed[e].pc \in Holding, He!Goto(e, p),
           UNCHANGED <<rowLock, pathLock, wk, sweep, tags, lrc, filled, writes>>,
           orig' = orig \/ (orig = He!None /\ orig' = lrc),
           row'.st = row.st, row' \in [st : {"done", "open", "processing"}, edit : Marks],
           lrc.hand => row'.edit # "no",
           (EdMarks(e) /\ EdFile(e))'
    PROVE  EditInv'
<1>1. rowLock = e /\ pathLock = e /\ EditTypes
  BY AtWork
<1>2. p \in EditPCs
  BY DEF EditPCs
<1>3. ed' \in [Editors -> EditRequests] /\ (\A q \in Editors \ {e} : ed'[q] = ed[q]) /\ ed'[e].pc = p
  BY <1>1, <1>2, GotoIs
<1>4. EdOK(e)'
  BY <1>1, <1>3 DEF EdOK, EdLocks, Away, Holding
<1> QED BY <1>1, <1>3, <1>4, EditorStepKeeps

(* An editor that returns from holding both locks.                          *)
LEMMA ReturnKeeps ==
    ASSUME EditConfigured, EditInv, NEW e \in Editors, ed[e].pc \in Holding, He!Return(e),
           UNCHANGED <<wk, sweep, tags, lrc, orig, filled, writes>>,
           row'.st = row.st, row' \in [st : {"done", "open", "processing"}, edit : Marks],
           lrc.hand => row'.edit # "no"
    PROVE  EditInv'
<1>1. rowLock = e /\ pathLock = e /\ EditTypes /\ EdLocks(e)
  BY AtWork DEF EdOK
<1>2. /\ ed' \in [Editors -> EditRequests] /\ \A q \in Editors \ {e} : ed'[q] = ed[q]
      /\ ed'[e].pc = "idle" /\ rowLock' = He!Free /\ pathLock' = He!Free
  BY <1>1, ReturnIs
<1>3. EdOK(e)'
  BY <1>2 DEF EdOK, EdLocks, EdMarks, EdFile, Away, Holding, Sure, EditConfigured
<1> QED BY <1>1, <1>2, <1>3, EditorStepKeeps

LEMMA LockKeeps == ASSUME EditConfigured, EditInv, NEW e \in Editors, He!LockEditPath(e) PROVE EditInv'
<1>1. /\ He!At(e, "lock") /\ pathLock = He!Free /\ pathLock' = e
      /\ UNCHANGED <<row, lrc, orig, rowLock, wk, sweep, tags, filled, writes>>
      /\ He!Goto(e, IF ed[e].op = "revert" THEN "recheck" ELSE "mark")
  BY DEF He!LockEditPath, He!files
<1>2. /\ EdOK(e) /\ EditTypes /\ row \in [st : {"done", "open", "processing"}, edit : Marks]
      /\ rowLock = e /\ (lrc.hand => row.edit # "no")
  BY <1>1 DEF EditInv, EditTypes, EdOK, EdLocks, He!At, Away, Fetched, He!EditIsMarked
<1>3. PICK p \in {"recheck", "mark"} : He!Goto(e, p) /\ (p = "recheck" <=> ed[e].op = "revert")
  BY <1>1
<1>4. p \in EditPCs
  BY DEF EditPCs, Holding
<1>5. /\ ed' \in [Editors -> EditRequests] /\ \A q \in Editors \ {e} : ed'[q] = ed[q]
      /\ ed'[e].pc = p /\ ed'[e].op = ed[e].op /\ ed'[e].prior = ed[e].prior
  BY <1>2, <1>3, <1>4, GotoIs
<1>6. EdOK(e)'
  BY <1>1, <1>2, <1>3, <1>5 DEF EdOK, EdLocks, EdMarks, EdFile, He!At, Away, Holding, Sure
<1> QED BY <1>1, <1>2, <1>5, <1>6, EditorStepKeeps

LEMMA MarkKeeps == ASSUME EditConfigured, EditInv, NEW e \in Editors, He!SetLyricEdit(e) PROVE EditInv'
<1>1. He!At(e, "mark") /\ ed[e].pc \in Holding /\ UNCHANGED <<lrc, orig, wk, sweep, tags, filled, writes>>
  BY DEF He!SetLyricEdit, He!files, He!At, Holding
<1>2. EdOK(e) /\ EditTypes /\ row \in [st : {"done", "open", "processing"}, edit : Marks] /\ (lrc.hand => row.edit # "no")
  BY <1>1, AtWork
<1>3. CASE row' = He!Marked(ed[e].op) /\ He!Goto(e, "recheck") /\ UNCHANGED <<rowLock, pathLock>>
  <2>1. "recheck" \in Holding /\ "recheck" \in EditPCs
    BY DEF Holding, EditPCs
  <2>2. ed'[e].pc = "recheck" /\ ed'[e].op = ed[e].op /\ ed'[e].prior = ed[e].prior
    BY <1>2, <1>3, <2>1, GotoIs
  <2>3. ed[e].op \in {"offset", "retime"}
    BY <1>1, <1>2 DEF EdOK, EdMarks, He!At
  <2>4. row'.st = row.st /\ row'.edit = ed[e].op /\ row' \in [st : {"done", "open", "processing"}, edit : Marks]
    BY <1>2, <1>3, <2>3 DEF He!Marked, Marks
  <2>5. (EdMarks(e) /\ EdFile(e))'
    BY <1>1, <1>2, <2>2, <2>3, <2>4 DEF EdOK, EdMarks, EdFile, He!At, Away, Sure
  <2> QED BY <1>1, <1>3, <2>1, <2>3, <2>4, <2>5, GotoKeeps
<1>4. CASE He!Return(e) /\ UNCHANGED row
  BY <1>1, <1>2, <1>4, ReturnKeeps
<1> QED BY <1>3, <1>4 DEF He!SetLyricEdit, He!locks

LEMMA RestoreKeeps == ASSUME EditConfigured, EditInv, NEW e \in Editors, He!restoreLyricEdit(e) PROVE EditInv'
<1>1. He!At(e, "restore") /\ ed[e].pc \in Holding /\ He!Return(e) /\ UNCHANGED <<lrc, orig, wk, sweep, tags, filled, writes>>
  BY DEF He!restoreLyricEdit, He!files, He!At, Holding
<1>2. EdOK(e) /\ EditTypes /\ row \in [st : {"done", "open", "processing"}, edit : Marks] /\ (lrc.hand => row.edit # "no")
  BY <1>1, AtWork
<1>3. row' = row \/ row' = [row EXCEPT !.edit = ed[e].prior]
  BY DEF He!restoreLyricEdit
<1>4. ed[e].prior \in Marks /\ (lrc.hand => ed[e].prior # "no")
  BY <1>1, <1>2 DEF EdOK, EdMarks, EditTypes, EditRequests, He!At, Away
<1>5. /\ row'.st = row.st /\ row' \in [st : {"done", "open", "processing"}, edit : Marks]
      /\ (lrc.hand => row'.edit # "no")
  BY <1>2, <1>3, <1>4
<1> QED BY <1>1, <1>5, ReturnKeeps

(* Giving up goes to the restore.                                           *)
LEMMA GiveUpKeeps ==
    ASSUME EditConfigured, EditInv, NEW e \in Editors, ed[e].pc \in Holding \ {"clear"}, He!GiveUp(e),
           UNCHANGED <<row, rowLock, pathLock, wk, sweep, tags, lrc, orig, filled, writes>>
    PROVE  EditInv'
<1>1. EdOK(e) /\ EditTypes /\ row \in [st : {"done", "open", "processing"}, edit : Marks] /\ (lrc.hand => row.edit # "no")
  BY AtWork
<1>2. "restore" \in Holding /\ "restore" \in EditPCs
  BY DEF Holding, EditPCs
<1>3. ed'[e].pc = "restore" /\ ed'[e].op = ed[e].op /\ ed'[e].prior = ed[e].prior
  BY <1>1, <1>2, GotoIs DEF He!GiveUp
<1>4. (EdMarks(e) /\ EdFile(e))'
  BY <1>1, <1>3 DEF EdOK, EdMarks, EdFile, Away, Sure, Holding
<1> QED BY <1>1, <1>2, <1>4, GotoKeeps DEF He!GiveUp

LEMMA RecheckKeeps == ASSUME EditConfigured, EditInv, NEW e \in Editors, He!Recheck(e) PROVE EditInv'
<1>1. /\ He!At(e, "recheck") /\ ed[e].pc \in Holding \ {"clear"}
      /\ UNCHANGED <<row, rowLock, pathLock, lrc, orig, wk, sweep, tags, filled, writes>>
  BY DEF He!Recheck, He!files, He!locks, He!At, Holding
<1>2. EdOK(e) /\ EditTypes /\ row \in [st : {"done", "open", "processing"}, edit : Marks] /\ (lrc.hand => row.edit # "no")
  BY <1>1, AtWork
<1>3. CASE He!StillEditable /\ He!Goto(e, "check")
  <2>1. "check" \in Holding /\ "check" \in EditPCs
    BY DEF Holding, EditPCs
  <2>2. ed'[e].pc = "check" /\ ed'[e].op = ed[e].op /\ ed'[e].prior = ed[e].prior
    BY <1>2, <1>3, <2>1, GotoIs
  <2>3. (EdMarks(e) /\ EdFile(e))'
    BY <1>1, <1>2, <1>3, <2>2 DEF EdOK, EdMarks, EdFile, He!At, Away, Sure, He!StillEditable, He!LineEditable
  <2> QED BY <1>1, <1>2, <1>3, <2>1, <2>3, GotoKeeps
<1>4. CASE He!GiveUp(e)
  BY <1>1, <1>4, GiveUpKeeps
<1> QED BY <1>3, <1>4 DEF He!Recheck

LEMMA CheckKeeps == ASSUME EditConfigured, EditInv, NEW e \in Editors, He!CheckEdit(e) PROVE EditInv'
<1>1. /\ He!At(e, "check") /\ ed[e].pc \in Holding \ {"clear"}
      /\ UNCHANGED <<row, rowLock, pathLock, lrc, orig, wk, sweep, tags, filled, writes>>
  BY DEF He!CheckEdit, He!files, He!locks, He!At, Holding
<1>2. /\ EdOK(e) /\ EditTypes /\ row \in [st : {"done", "open", "processing"}, edit : Marks]
      /\ (lrc.hand => row.edit # "no") /\ rowLock = e /\ pathLock = e
  BY <1>1, AtWork
<1>3. CASE He!Shown(e) /\ ed' = [ed EXCEPT ![e].pc = "backup", ![e].src = IF He!FromOrig(e) THEN orig ELSE lrc]
  <2> DEFINE src == IF He!FromOrig(e) THEN orig ELSE lrc
  <2>1. src \in Lyrics
    BY <1>2 DEF EditTypes
  <2> HIDE DEF src
  <2>2. /\ ed' \in [Editors -> EditRequests] /\ \A q \in Editors \ {e} : ed'[q] = ed[q]
        /\ ed'[e].pc = "backup" /\ ed'[e].op = ed[e].op /\ ed'[e].prior = ed[e].prior /\ ed'[e].page = ed[e].page
    <3>1. ed' = [ed EXCEPT ![e].pc = "backup", ![e].src = src]
      BY <1>3 DEF src
    <3> QED BY <1>2, <2>1, <3>1 DEF EditTypes, EditRequests, EditPCs, Holding
  <2>3. EdOK(e)'
    BY <1>1, <1>2, <1>3, <2>2 DEF EdOK, EdLocks, EdMarks, EdFile, He!At, Away, Holding, Sure, He!Shown
  <2> QED BY <1>1, <1>2, <2>2, <2>3, EditorStepKeeps
<1>4. CASE He!GiveUp(e)
  BY <1>1, <1>4, GiveUpKeeps
<1> QED BY <1>3, <1>4 DEF He!CheckEdit

LEMMA BackupKeeps == ASSUME EditConfigured, EditInv, NEW e \in Editors, He!Backup(e) PROVE EditInv'
<1>1. /\ He!At(e, "backup") /\ ed[e].pc \in Holding \ {"clear"}
      /\ UNCHANGED <<row, rowLock, pathLock, lrc, wk, sweep, tags, filled, writes>>
  BY DEF He!Backup, He!locks, He!At, Holding
<1>2. EdOK(e) /\ EditTypes /\ row \in [st : {"done", "open", "processing"}, edit : Marks] /\ (lrc.hand => row.edit # "no")
  BY <1>1, AtWork
<1>3. CASE He!Goto(e, "publish") /\ ((~He!NoBackup /\ orig' = orig) \/ (He!NoBackup /\ He!Shown(e) /\ orig' = lrc))
  <2>1. "publish" \in Holding /\ "publish" \in EditPCs
    BY DEF Holding, EditPCs
  <2>2. ed'[e].pc = "publish" /\ ed'[e].op = ed[e].op /\ ed'[e].prior = ed[e].prior /\ ed'[e].page = ed[e].page
    BY <1>2, <1>3, <2>1, GotoIs
  <2>3. orig' # He!None /\ (orig' = orig \/ (orig = He!None /\ orig' = lrc))
    BY <1>3 DEF He!NoBackup, He!Shown
  <2>4. (EdMarks(e) /\ EdFile(e))'
    BY <1>1, <1>2, <1>3, <2>2, <2>3 DEF EdOK, EdMarks, EdFile, He!At, Away, Sure
  <2> QED BY <1>1, <1>2, <1>3, <2>1, <2>3, <2>4, GotoKeeps
<1>4. CASE He!GiveUp(e) /\ UNCHANGED orig
  BY <1>1, <1>4, GiveUpKeeps
<1> QED BY <1>3, <1>4 DEF He!Backup

(* What the rename puts in place.                                           *)
LEMMA EditedIs ==
    ASSUME EditConfigured, EditTypes, NEW e \in Editors, writes < MaxWrites
    PROVE  He!Edited(e) \in Lyrics /\ He!Edited(e).hand = (ed[e].op # "revert") /\ He!Edited(e).stamp = writes + 1
<1>1. /\ ed[e].src.gen \in 0 .. MaxWrites /\ ed[e].src.tag \in BOOLEAN
      /\ (ed[e].op # "revert") \in BOOLEAN
  BY DEF EditTypes, EditRequests, Lyrics
<1>2. writes + 1 \in 0 .. MaxWrites
  BY DEF EditConfigured, EditTypes
<1> QED BY <1>1, <1>2, MadeIs, Zenon DEF He!Edited

LEMMA PublishKeeps == ASSUME EditConfigured, EditInv, NEW e \in Editors, He!Publish(e) PROVE EditInv'
<1>1. /\ He!At(e, "publish") /\ ed[e].pc \in Holding \ {"clear"}
      /\ UNCHANGED <<row, orig, wk, sweep, tags, filled>>
  BY DEF He!Publish, He!At, Holding
<1>2. /\ EdOK(e) /\ EditTypes /\ row \in [st : {"done", "open", "processing"}, edit : Marks]
      /\ (lrc.hand => row.edit # "no") /\ rowLock = e /\ pathLock = e /\ e \notin {He!Free, "sweep", "tags"}
      /\ sweep \notin {"locked", "move"} /\ tags \notin {"locked", "rewrite"}
  BY <1>1, AtWork
<1>3. ASSUME writes < MaxWrites, writes' = writes + 1, lrc' = He!Edited(e),
             \/ ed[e].op = "revert" /\ He!Goto(e, "clear") /\ UNCHANGED <<rowLock, pathLock>>
             \/ ed[e].op # "revert" /\ He!Return(e)
      PROVE  EditInv'
  <2>1. lrc' \in Lyrics /\ lrc'.stamp = writes + 1 /\ (lrc'.hand => ed[e].op # "revert")
    <3>1. lrc' \in Lyrics /\ lrc'.hand = (ed[e].op # "revert") /\ lrc'.stamp = writes + 1
      BY <1>2, <1>3, EditedIs, Zenon
    <3> QED BY <3>1, Zenon
  <2>2. row.st = "done" /\ row.edit # "no" /\ orig # He!None
    BY <1>1, <1>2 DEF EdOK, EdMarks, EdFile, He!At, Sure
  <2>3. /\ ed' \in [Editors -> EditRequests] /\ \A q \in Editors \ {e} : ed'[q] = ed[q]
        /\ \/ /\ ed'[e].pc = "clear" /\ ed'[e].op = "revert" /\ ed[e].op = "revert"
              /\ rowLock' = e /\ pathLock' = e
           \/ ed'[e].pc = "idle" /\ rowLock' = He!Free /\ pathLock' = He!Free
    <3>1. CASE ed[e].op = "revert" /\ He!Goto(e, "clear") /\ UNCHANGED <<rowLock, pathLock>>
      <4>1. "clear" \in EditPCs
        BY DEF Holding, EditPCs
      <4> QED BY <1>2, <3>1, <4>1, GotoIs
    <3>2. CASE He!Return(e)
      BY <1>2, <3>2, ReturnIs DEF EdOK
    <3> QED BY <1>3, <3>1, <3>2
  <2>4. EdOK(e)'
    BY <1>1, <1>2, <2>1, <2>2, <2>3 DEF EdOK, EdLocks, EdMarks, EdFile, Away, Holding, Sure
  <2>5. \A q \in Editors : EdOK(q)'
    <3>1. rowLock' \in {e, He!Free} /\ pathLock' \in {pathLock, e, He!Free}
      BY <1>2, <2>3
    <3> QED BY <1>2, <2>3, <2>4, <3>1, OthersStand
  <2>6. EditTypes'
    BY <1>1, <1>2, <1>3, <2>1, <2>3 DEF EditConfigured, EditTypes
  <2>7. Quiet'
    BY <1>1, <1>2, <2>2, <2>3 DEF EditInv, Quiet, He!Free
  <2>8. Fetched'
    BY <1>1, <2>2 DEF EditInv, Fetched, He!EditIsMarked
  <2> QED BY <2>5, <2>6, <2>7, <2>8 DEF EditInv
<1>4. CASE He!GiveUp(e) /\ UNCHANGED <<lrc, rowLock, pathLock, writes>>
  BY <1>1, <1>4, GiveUpKeeps
<1> QED BY <1>3, <1>4 DEF He!Publish, He!locks, He!Fails, EditConfigured

LEMMA ClearKeeps == ASSUME EditConfigured, EditInv, NEW e \in Editors, He!ClearLyricEdit(e) PROVE EditInv'
<1>1. /\ He!At(e, "clear") /\ ed[e].pc \in Holding /\ He!Return(e)
      /\ UNCHANGED <<lrc, orig, wk, sweep, tags, filled, writes>>
  BY DEF He!ClearLyricEdit, He!files, He!At, Holding
<1>2. EdOK(e) /\ row \in [st : {"done", "open", "processing"}, edit : Marks]
  BY <1>1, AtWork
<1>3. row' = row \/ row' = [row EXCEPT !.edit = "no"]
  BY DEF He!ClearLyricEdit
<1>4. /\ ~lrc.hand /\ row'.st = row.st /\ row' \in [st : {"done", "open", "processing"}, edit : Marks]
  BY <1>1, <1>2, <1>3 DEF EdOK, EdMarks, He!At, Marks
<1> QED BY <1>1, <1>4, ReturnKeeps
-----------------------------------------------------------------------------
(* Trips: what the row's status alone decides.                              *)
LEMMA StatusKeeps ==
    ASSUME EditConfigured, EditInv, UNCHANGED <<ed, rowLock, pathLock, orig, lrc, sweep, tags, filled, writes>>,
           row'.edit = row.edit, row' \in [st : {"done", "open", "processing"}, edit : Marks],
           wk' # "idle" <=> row'.st = "processing",
           row'.st = "done" \/ (~lrc.hand /\ \A e \in Editors : ed[e].pc \notin Sure)
    PROVE  EditInv'
<1>1. \A e \in Editors : EdOK(e)'
  BY EditorsStand
<1>2. EditTypes'
  BY DEF EditInv, EditTypes
<1>3. Quiet' /\ Fetched'
  BY DEF EditInv, Quiet, Fetched, He!EditIsMarked
<1> QED BY <1>1, <1>2, <1>3 DEF EditInv

(* A row at work, or unmarked, has no editor past the second look.          *)
LEMMA NoneSure ==
    ASSUME EditInv, row.st # "done" \/ (row.edit = "no" /\ ~lrc.hand)
    PROVE  ~lrc.hand /\ \A e \in Editors : ed[e].pc \notin Sure
BY DEF EditInv, EdOK, EdMarks, EdFile, Quiet, Sure, Away

LEMMA AdmitKeeps == ASSUME EditConfigured, EditInv, He!Admit PROVE EditInv'
<1>1. row.st = "done" /\ row.edit = "no" /\ row' = [row EXCEPT !.st = "open"]
      /\ UNCHANGED <<ed, rowLock, pathLock, orig, lrc, wk, sweep, tags, filled, writes>>
  BY DEF He!Admit, He!Admittable, He!files, He!locks
<1>2. ~lrc.hand /\ row \in [st : {"done", "open", "processing"}, edit : Marks] /\ wk = "idle"
  BY <1>1 DEF EditInv, EditTypes, Fetched, He!EditIsMarked, Quiet
<1>3. \A e \in Editors : ed[e].pc \notin Sure
  BY <1>1, <1>2, NoneSure
<1>4. row'.st = "open" /\ row'.edit = row.edit /\ row' \in [st : {"done", "open", "processing"}, edit : Marks]
  BY <1>1, <1>2
<1> QED BY <1>1, <1>2, <1>3, <1>4, StatusKeeps

LEMMA ClaimKeeps == ASSUME EditConfigured, EditInv, He!Claim PROVE EditInv'
<1>1. row.st = "open" /\ row' = [row EXCEPT !.st = "processing"] /\ wk' = "trip"
      /\ UNCHANGED <<ed, rowLock, pathLock, orig, lrc, sweep, tags, filled, writes>>
  BY DEF He!Claim, He!files, He!locks
<1>2. row \in [st : {"done", "open", "processing"}, edit : Marks]
  BY DEF EditInv, EditTypes
<1>3. ~lrc.hand /\ \A e \in Editors : ed[e].pc \notin Sure
  BY <1>1, NoneSure
<1>4. row'.st = "processing" /\ row'.edit = row.edit /\ row' \in [st : {"done", "open", "processing"}, edit : Marks]
  BY <1>1, <1>2
<1> QED BY <1>1, <1>3, <1>4, StatusKeeps

LEMMA SettleKeeps == ASSUME EditConfigured, EditInv, He!Settle PROVE EditInv'
<1>1. row' = [row EXCEPT !.st = "done"] /\ wk' = "idle"
      /\ UNCHANGED <<ed, rowLock, pathLock, orig, lrc, sweep, tags, filled, writes>>
  BY DEF He!Settle, He!files, He!locks
<1>2. row \in [st : {"done", "open", "processing"}, edit : Marks]
  BY DEF EditInv, EditTypes
<1>3. row'.st = "done" /\ row'.edit = row.edit /\ row' \in [st : {"done", "open", "processing"}, edit : Marks]
  BY <1>1, <1>2
<1> QED BY <1>1, <1>3, StatusKeeps

(* A trip, a sweep or the backfill replaces a file no hand has edited and   *)
(* no editor is sure of.                                                    *)
LEMMA ReplaceKeeps ==
    ASSUME EditConfigured, EditInv, UNCHANGED <<row, ed, rowLock, orig, filled>>,
           \A e \in Editors : pathLock' = e <=> pathLock = e,
           pathLock' \in Editors \cup {He!Free, "sweep", "tags"},
           lrc' = lrc \/ (lrc' \in Lyrics /\ ~lrc.hand /\ ~lrc'.hand /\ lrc'.stamp \in 0 .. writes'
                         /\ \A e \in Editors : ed[e].pc \notin Sure),
           writes' \in writes .. MaxWrites,
           wk' # "idle" <=> row.st = "processing",
           sweep' \in {"locked", "move"} <=> pathLock' = "sweep",
           tags' \in {"locked", "rewrite"} <=> pathLock' = "tags",
           sweep' = "move" => ~lrc'.hand, tags' = "rewrite" => ~lrc'.hand
    PROVE  EditInv'
<1>1. lrc'.hand => lrc.hand
  OBVIOUS
<1>2. \A e \in Editors : ed[e].pc \in Sure => row'.st = "done" /\ lrc' = lrc
  BY DEF EditInv, EdOK, EdFile
<1>3. \A e \in Editors : EdOK(e)'
  BY <1>1, <1>2, EditorsStand
<1>4. EditTypes'
  BY DEF EditInv, EditTypes, EditConfigured
<1>5. Quiet' /\ Fetched'
  BY <1>1 DEF EditInv, Quiet, Fetched, He!EditIsMarked
<1> QED BY <1>3, <1>4, <1>5 DEF EditInv

LEMMA RemoveKeeps == ASSUME EditConfigured, EditInv, He!WorkerRemove PROVE EditInv'
<1>1. /\ wk = "trip" /\ lrc' = He!None /\ wk' = "rename"
      /\ UNCHANGED <<row, ed, rowLock, pathLock, orig, sweep, tags, filled, writes>>
  BY DEF He!WorkerRemove, He!locks
<1>2. row.st = "processing" /\ EditTypes /\ Quiet
  BY <1>1 DEF EditInv, Quiet
<1>3. ~lrc.hand /\ \A e \in Editors : ed[e].pc \notin Sure
  BY <1>2, NoneSure
<1>4. lrc' \in Lyrics /\ ~lrc'.hand /\ lrc'.stamp \in 0 .. writes'
  BY <1>1, <1>2, NoneIs DEF EditTypes
<1>5. pathLock' \in Editors \cup {He!Free, "sweep", "tags"} /\ writes' \in writes .. MaxWrites
  BY <1>1, <1>2 DEF EditTypes
<1> QED BY <1>1, <1>2, <1>3, <1>4, <1>5, ReplaceKeeps DEF Quiet

LEMMA RenameKeeps == ASSUME EditConfigured, EditInv, He!WorkerRename PROVE EditInv'
<1>1. /\ wk = "rename" /\ wk' = "settle" /\ writes < MaxWrites /\ writes' = writes + 1
      /\ UNCHANGED <<row, ed, rowLock, pathLock, orig, sweep, tags, filled>>
  BY DEF He!WorkerRename, He!locks
<1>2. row.st = "processing" /\ EditTypes /\ Quiet
  BY <1>1 DEF EditInv, Quiet
<1>3. ~lrc.hand /\ \A e \in Editors : ed[e].pc \notin Sure
  BY <1>2, NoneSure
<1>4. writes + 1 \in 0 .. MaxWrites /\ writes' \in writes .. MaxWrites /\ writes + 1 \in 0 .. writes'
  BY <1>1, <1>2 DEF EditTypes, EditConfigured
<1>5. lrc' \in Lyrics /\ lrc'.hand = FALSE /\ lrc'.stamp = writes + 1
  <2> DEFINE b == [gen |-> writes + 1, hand |-> FALSE, tag |-> TRUE, stamp |-> writes + 1]
  <2>1. FALSE \in BOOLEAN /\ TRUE \in BOOLEAN
    OBVIOUS
  <2>2. b \in Lyrics /\ b.hand = FALSE /\ b.stamp = writes + 1
    BY <1>4, <2>1, MadeIs, Zenon
  <2>3. lrc' = b
    BY Zenon DEF He!WorkerRename
  <2> HIDE DEF b
  <2> QED BY <2>2, <2>3, Zenon
<1>6. pathLock' \in Editors \cup {He!Free, "sweep", "tags"}
  BY <1>1, <1>2 DEF EditTypes
<1> QED BY <1>1, <1>2, <1>3, <1>4, <1>5, <1>6, ReplaceKeeps DEF Quiet
-----------------------------------------------------------------------------
(* While the sweep or the backfill holds the path lock no editor is past    *)
(* its mark.                                                                *)
LEMMA PathTaken ==
    ASSUME EditConfigured, EditInv, pathLock \in {"sweep", "tags"}
    PROVE  \A e \in Editors : ed[e].pc \notin Holding /\ ed[e].pc \notin Sure /\ pathLock # e
BY DEF EditConfigured, EditInv, EdOK, EdLocks, Holding, Sure

LEMMA SweepKeeps == ASSUME EditConfigured, EditInv, He!SweepPlan \/ He!SweepStep PROVE EditInv'
<1>0. EditTypes /\ Quiet /\ Fetched /\ writes \in writes .. MaxWrites
  BY DEF EditInv, EditTypes
<1>1. CASE He!SweepPlan
  <2>1. /\ sweep = "idle" /\ sweep' = "lock"
        /\ UNCHANGED <<row, lrc, writes, ed, rowLock, pathLock, orig, wk, tags, filled>>
    BY <1>1 DEF He!SweepPlan, He!files, He!locks
  <2>2. pathLock' \in Editors \cup {He!Free, "sweep", "tags"} /\ writes' \in writes .. MaxWrites
    BY <1>0, <2>1 DEF EditTypes
  <2> QED BY <1>0, <2>1, <2>2, ReplaceKeeps DEF Quiet
<1>2. CASE He!SweepLock
  <2>1. /\ sweep = "lock" /\ sweep' = "locked" /\ pathLock = He!Free /\ pathLock' = "sweep"
        /\ UNCHANGED <<row, lrc, writes, ed, rowLock, orig, wk, tags, filled>>
    BY <1>2 DEF He!SweepLock, He!files
  <2>2. pathLock' \in Editors \cup {He!Free, "sweep", "tags"} /\ writes' \in writes .. MaxWrites
        /\ \A e \in Editors : pathLock' = e <=> pathLock = e
    BY <1>0, <2>1 DEF EditTypes, EditConfigured
  <2> QED BY <1>0, <2>1, <2>2, ReplaceKeeps DEF Quiet, He!Free
<1>3. CASE He!SweepRead
  <2>1. /\ sweep = "locked" /\ UNCHANGED <<row, lrc, writes, ed, rowLock, orig, wk, tags, filled>>
        /\ \/ row.edit = "no" /\ sweep' = "move" /\ pathLock' = pathLock
           \/ sweep' = "idle" /\ pathLock' = He!Free
    BY <1>3 DEF He!SweepRead, He!files, He!sidecarEdited
  <2>2. pathLock = "sweep"
    BY <1>0, <2>1 DEF Quiet
  <2>3. pathLock' \in Editors \cup {He!Free, "sweep", "tags"} /\ writes' \in writes .. MaxWrites
        /\ \A e \in Editors : pathLock' = e <=> pathLock = e
    BY <1>0, <2>1, <2>2 DEF EditTypes, EditConfigured
  <2>4. row.edit = "no" => ~lrc.hand
    BY <1>0 DEF Fetched, He!EditIsMarked
  <2> QED BY <1>0, <2>1, <2>2, <2>3, <2>4, ReplaceKeeps DEF Quiet, He!Free
<1>4. CASE He!applyOne
  <2>1. /\ sweep = "move" /\ sweep' = "idle" /\ pathLock' = He!Free /\ (lrc' = He!None \/ lrc' = lrc)
        /\ UNCHANGED <<row, writes, ed, rowLock, orig, wk, tags, filled>>
    BY <1>4 DEF He!applyOne
  <2>2. pathLock = "sweep" /\ ~lrc.hand
    BY <1>0, <2>1 DEF Quiet
  <2>3. pathLock' \in Editors \cup {He!Free, "sweep", "tags"} /\ writes' \in writes .. MaxWrites
        /\ \A e \in Editors : pathLock' = e <=> pathLock = e
    BY <1>0, <2>1, <2>2 DEF EditTypes, EditConfigured
  <2>4. \A e \in Editors : ed[e].pc \notin Sure
    BY <2>2, PathTaken
  <2>5. lrc' = lrc \/ (lrc' \in Lyrics /\ ~lrc'.hand /\ lrc'.stamp \in 0 .. writes')
    BY <1>0, <2>1, NoneIs DEF EditTypes
  <2> QED BY <1>0, <2>1, <2>2, <2>3, <2>4, <2>5, ReplaceKeeps DEF Quiet, He!Free
<1> QED BY <1>1, <1>2, <1>3, <1>4 DEF He!SweepStep

LEMMA TagKeeps == ASSUME EditConfigured, EditInv, He!TagLock \/ He!TagRead \/ He!InjectEditorTag PROVE EditInv'
<1>0. EditTypes /\ Quiet /\ Fetched /\ writes \in writes .. MaxWrites
  BY DEF EditInv, EditTypes
<1>1. CASE He!TagLock
  <2>1. /\ tags = "idle" /\ tags' = "locked" /\ pathLock = He!Free /\ pathLock' = "tags"
        /\ UNCHANGED <<row, lrc, writes, ed, rowLock, orig, wk, sweep, filled>>
    BY <1>1 DEF He!TagLock, He!files
  <2>2. pathLock' \in Editors \cup {He!Free, "sweep", "tags"} /\ writes' \in writes .. MaxWrites
        /\ \A e \in Editors : pathLock' = e <=> pathLock = e
    BY <1>0, <2>1 DEF EditTypes, EditConfigured
  <2> QED BY <1>0, <2>1, <2>2, ReplaceKeeps DEF Quiet, He!Free
<1>2. CASE He!TagRead
  <2>1. /\ tags = "locked" /\ UNCHANGED <<row, lrc, writes, ed, rowLock, orig, wk, sweep, filled>>
        /\ \/ row.edit = "no" /\ tags' = "rewrite" /\ pathLock' = pathLock
           \/ tags' \in {"clean", "degraded"} /\ pathLock' = He!Free
    BY <1>2 DEF He!TagRead, He!files, He!sidecarHandEdited
  <2>2. pathLock = "tags"
    BY <1>0, <2>1 DEF Quiet
  <2>3. pathLock' \in Editors \cup {He!Free, "sweep", "tags"} /\ writes' \in writes .. MaxWrites
        /\ \A e \in Editors : pathLock' = e <=> pathLock = e
    BY <1>0, <2>1, <2>2 DEF EditTypes, EditConfigured
  <2>4. row.edit = "no" => ~lrc.hand
    BY <1>0 DEF Fetched, He!EditIsMarked
  <2> QED BY <1>0, <2>1, <2>2, <2>3, <2>4, ReplaceKeeps DEF Quiet, He!Free
<1>3. CASE He!InjectEditorTag
  <2>1. /\ tags = "rewrite" /\ pathLock' = He!Free /\ tags' \in {"clean", "degraded"}
        /\ UNCHANGED <<row, ed, rowLock, orig, wk, sweep, filled>>
    BY <1>3 DEF He!InjectEditorTag
  <2>2. pathLock = "tags" /\ ~lrc.hand
    BY <1>0, <2>1 DEF Quiet
  <2>3. /\ pathLock' \in Editors \cup {He!Free, "sweep", "tags"}
        /\ \A e \in Editors : pathLock' = e <=> pathLock = e
    BY <1>0, <2>1, <2>2 DEF EditTypes, EditConfigured
  <2>4. \A e \in Editors : ed[e].pc \notin Sure
    BY <2>2, PathTaken
  <2>5. /\ writes' \in writes .. MaxWrites
        /\ lrc' = lrc \/ (lrc' \in Lyrics /\ ~lrc'.hand /\ lrc'.stamp \in 0 .. writes')
    <3>1. CASE lrc' = [lrc EXCEPT !.tag = TRUE, !.stamp = writes + 1] /\ writes < MaxWrites /\ writes' = writes + 1
      <4>1. lrc \in Lyrics /\ TRUE \in BOOLEAN /\ writes + 1 \in 0 .. MaxWrites
        BY <1>0, <3>1 DEF EditTypes, EditConfigured
      <4> DEFINE b == [lrc EXCEPT !.tag = TRUE, !.stamp = writes + 1]
      <4>2. b \in Lyrics /\ b.hand = lrc.hand /\ b.stamp = writes + 1
        BY <4>1, TaggedIs, Zenon
      <4>3. lrc' = b /\ writes < MaxWrites /\ writes' = writes + 1
        BY <3>1, Zenon
      <4> HIDE DEF b
      <4> QED BY <1>0, <2>2, <4>2, <4>3 DEF EditTypes, EditConfigured
    <3>2. CASE lrc' = lrc /\ writes' = writes
      BY <1>0, <3>2
    <3> QED BY <1>3, <3>1, <3>2, Zenon DEF He!InjectEditorTag
  <2> QED BY <1>0, <2>1, <2>2, <2>3, <2>4, <2>5, ReplaceKeeps DEF Quiet, He!Free
<1> QED BY <1>1, <1>2, <1>3

LEMMA CountedIs ==
    ASSUME EditConfigured, NEW f \in [done : BOOLEAN, attempts : 0 .. (maxDegradedAttempts - 1)],
           NEW k \in 0 .. (maxDegradedAttempts - 1)
    PROVE  /\ [f EXCEPT !.attempts = k] \in [done : BOOLEAN, attempts : 0 .. (maxDegradedAttempts - 1)]
           /\ \A S, b : 0 \in S /\ b \in BOOLEAN => [done |-> b, attempts |-> 0] \in [done : BOOLEAN, attempts : S]
OBVIOUS

LEMMA FilledIs ==
    ASSUME EditConfigured, EditTypes, He!markEditorTagBackfillDone
    PROVE  filled' \in [done : BOOLEAN, attempts : 0 .. (maxDegradedAttempts - 1)]
<1> DEFINE F == [done : BOOLEAN, attempts : 0 .. (maxDegradedAttempts - 1)]
<1>1. filled \in F /\ filled.attempts \in 0 .. (maxDegradedAttempts - 1) /\ 0 \in 0 .. (maxDegradedAttempts - 1)
  BY DEF EditTypes, EditConfigured
<1>2. [done |-> TRUE, attempts |-> 0] \in F
  BY <1>1, CountedIs
<1>3. CASE filled' = [filled EXCEPT !.attempts = filled.attempts + 1] /\ filled.attempts + 1 < maxDegradedAttempts
  <2> DEFINE k == filled.attempts + 1
  <2>1. k \in 0 .. (maxDegradedAttempts - 1)
    BY <1>1, <1>3 DEF EditConfigured
  <2>2. filled' = [filled EXCEPT !.attempts = k]
    BY <1>3, Zenon
  <2> HIDE DEF k
  <2> QED BY <1>1, <2>1, <2>2, CountedIs
<1>4. \/ filled' = [done |-> TRUE, attempts |-> 0]
      \/ filled' = [filled EXCEPT !.attempts = filled.attempts + 1] /\ filled.attempts + 1 < maxDegradedAttempts
  BY Zenon DEF He!markEditorTagBackfillDone
<1>5. CASE filled' = [done |-> TRUE, attempts |-> 0]
  BY <1>2, <1>5, Zenon
<1> QED BY <1>3, <1>4, <1>5, Zenon

LEMMA FillKeeps == ASSUME EditConfigured, EditInv, He!markEditorTagBackfillDone PROVE EditInv'
<1>1. /\ tags \in {"clean", "degraded"} /\ tags' = "over"
      /\ UNCHANGED <<row, lrc, orig, writes, ed, rowLock, pathLock, wk, sweep>>
  BY DEF He!markEditorTagBackfillDone, He!files, He!locks
<1>2. filled' \in [done : BOOLEAN, attempts : 0 .. (maxDegradedAttempts - 1)]
  BY FilledIs DEF EditInv, EditTypes
<1>3. \A e \in Editors : EdOK(e)'
  <2>1. \A e \in Editors : ed[e].pc \in Sure => row'.st = "done" /\ lrc' = lrc
    BY <1>1 DEF EditInv, EdOK, EdFile
  <2> QED BY <1>1, <2>1, EditorsStand
<1>4. EditTypes'
  BY <1>1, <1>2 DEF EditInv, EditTypes
<1>5. Quiet' /\ Fetched'
  BY <1>1 DEF EditInv, Quiet, Fetched, He!EditIsMarked
<1> QED BY <1>3, <1>4, <1>5 DEF EditInv

LEMMA CrashKeeps == ASSUME EditConfigured, EditInv, He!Crash PROVE EditInv'
<1>1. /\ rowLock' = He!Free /\ pathLock' = He!Free /\ wk' = "idle" /\ sweep' = "idle" /\ tags' = "idle"
      /\ UNCHANGED <<lrc, orig, filled, writes>>
  BY DEF He!Crash, He!files
<1>2. ed' \in [Editors -> EditRequests] /\ \A e \in Editors : ed'[e].pc = "idle"
  BY NoRequestIs DEF He!Crash
<1>3. /\ row' \in [st : {"done", "open"}, edit : Marks] /\ row'.edit = row.edit
      /\ (row'.st # "done" => row.st # "done")
  <2>1. row \in [st : {"done", "open", "processing"}, edit : Marks]
    BY DEF EditInv, EditTypes
  <2> QED BY <2>1 DEF He!Crash
<1>4. \A e \in Editors : EdOK(e)'
  BY <1>1, <1>2 DEF EdOK, EdLocks, EdMarks, EdFile, Away, Holding, Sure, EditConfigured
<1>5. EditTypes'
  BY <1>1, <1>2, <1>3 DEF EditInv, EditTypes
<1>6. Quiet' /\ Fetched'
  BY <1>1, <1>3 DEF EditInv, Quiet, Fetched, He!EditIsMarked, He!Free
<1> QED BY <1>4, <1>5, <1>6 DEF EditInv

LEMMA EditStill == ASSUME EditInv, UNCHANGED He!vars PROVE EditInv'
BY DEF EditInv, EditTypes, EdOK, EdLocks, EdMarks, EdFile, Quiet, Fetched, He!EditIsMarked, He!vars

LEMMA EditKept == ASSUME EditConfigured, EditInv, [He!Next]_He!vars PROVE EditInv'
<1>1. CASE \E e \in Editors : He!Request(e) \/ He!EditStep(e)
  BY <1>1, RequestKeeps, LoadKeeps, LockKeeps, MarkKeeps, RestoreKeeps, RecheckKeeps, CheckKeeps,
     BackupKeeps, PublishKeeps, ClearKeeps, Zenon DEF He!EditStep
<1>2. CASE He!Admit \/ He!Trip \/ He!Crash
  BY <1>2, AdmitKeeps, ClaimKeeps, RemoveKeeps, RenameKeeps, SettleKeeps, CrashKeeps, Zenon DEF He!Trip
<1>3. CASE He!SweepPlan \/ He!SweepStep
  BY <1>3, SweepKeeps
<1>4. CASE He!TagStep
  BY <1>4, TagKeeps, FillKeeps, Zenon DEF He!TagStep
<1>5. CASE UNCHANGED He!vars
  BY <1>5, EditStill
<1> QED BY <1>1, <1>2, <1>3, <1>4, <1>5, Zenon DEF He!Next

LEMMA EditHolds == ASSUME EditConfigured PROVE He!Spec => []EditInv
<1>1. He!Init => EditInv
  BY EditInit
<1>2. EditInv /\ [He!Next]_He!vars => EditInv'
  BY EditKept
<1> QED BY <1>1, <1>2, PTL DEF He!Spec

(* The row, the files, the locks and the backfill's count have their types,  *)
(* and an editor without a request holds no lock.                            *)
THEOREM EditTypesHold == ASSUME EditConfigured PROVE He!Spec => []He!TypeOK
<1>1. EditInv => He!TypeOK
  <2> SUFFICES ASSUME EditInv PROVE He!TypeOK
    OBVIOUS
  <2>1. /\ row.st \in {"done", "open", "processing"} /\ row.edit \in {"no", "offset", "retime"}
        /\ lrc.gen \in 0 .. MaxWrites /\ lrc.stamp \in 0 .. writes
        /\ rowLock \in Editors \cup {He!Free} /\ pathLock \in Editors \cup {He!Free, "sweep", "tags"}
    BY DEF EditInv, EditTypes, Marks, Lyrics
  <2>2. \A e \in Editors : ed[e].pc = "idle" => rowLock # e /\ pathLock # e
    BY DEF EditInv, EdOK, EdLocks, Away, Holding
  <2>3. filled.attempts < maxDegradedAttempts
    BY DEF EditInv, EditTypes, EditConfigured
  <2> QED BY <2>1, <2>2, <2>3 DEF He!TypeOK
<1> QED BY <1>1, EditHolds, PTL

(* A lyric edited by hand always has a marked row and a backup, between any  *)
(* two steps of an edit, a crash or a failed call included                   *)
(* (preview_edit.go, lyrics/edit.go).                                        *)
THEOREM EditsAreMarked == ASSUME EditConfigured PROVE He!Spec => []He!EditIsMarked
<1>1. EditInv => He!EditIsMarked
  BY DEF EditInv, Fetched
<1> QED BY <1>1, EditHolds, PTL

(* No trip, sweep or backfill touches an edited file, whenever it was        *)
(* admitted and whatever it read: only an editor replaces it.                *)
THEOREM EditsAreKept == ASSUME EditConfigured PROVE He!Spec => [][He!HandEditKept]_He!vars
<1>1. EditInv /\ [He!Next]_He!vars => [He!HandEditKept]_He!vars
  <2> SUFFICES ASSUME EditInv, He!Next, lrc.hand, lrc' # lrc PROVE \E e \in Editors : He!Publishing(e)
    BY DEF He!HandEditKept, He!vars
  <2>1. row.st = "done" /\ wk = "idle" /\ sweep # "move" /\ tags # "rewrite"
    BY DEF EditInv, Quiet
  <2>2. PICK e \in Editors : He!Publish(e)
    BY <2>1 DEF He!Next, He!Request, He!EditStep, He!Load, He!LockEditPath, He!SetLyricEdit, He!restoreLyricEdit, He!Recheck, He!CheckEdit,
       He!Backup, He!ClearLyricEdit, He!Admit, He!Trip, He!Claim, He!WorkerRemove, He!WorkerRename, He!Settle, He!SweepPlan, He!SweepStep,
       He!SweepLock, He!SweepRead, He!applyOne, He!TagStep, He!TagLock, He!TagRead, He!InjectEditorTag, He!markEditorTagBackfillDone,
       He!Crash, He!files
  <2> QED BY <2>2 DEF He!Publish, He!Publishing
<1> QED BY <1>1, EditHolds, PTL DEF He!Spec

(* An edit replaces the version its page showed: what CheckEdit compared is  *)
(* still there at the rename, the row marked and both locks held meanwhile.  *)
THEOREM EditsReplaceTheShown == ASSUME EditConfigured PROVE He!Spec => [][He!EditReplacesWhatWasShown]_He!vars
<1>1. EditInv => He!EditReplacesWhatWasShown
  BY DEF EditInv, EdOK, EdFile, He!EditReplacesWhatWasShown, He!Publishing, He!At
<1>2. EditInv /\ [He!Next]_He!vars => [He!EditReplacesWhatWasShown]_He!vars
  BY <1>1
<1> QED BY <1>2, EditHolds, PTL DEF He!Spec

(* The backup is the lyric as fetched: no edit gets into it and no edit      *)
(* replaces it (the exclusive link of ApplyEdit).                            *)
THEOREM EditsKeepTheOriginal == ASSUME EditConfigured PROVE He!Spec => [][He!OriginalKept]_He!vars
<1>1. EditInv /\ EditInv' /\ [He!Next]_He!vars => [He!OriginalKept]_He!vars
  <2> SUFFICES ASSUME EditInv, EditInv', He!Next PROVE He!OriginalKept
    OBVIOUS
  <2>1. ~orig'.hand
    BY DEF EditInv, Fetched
  <2>2. orig # He!None => orig' = orig
    BY DEF He!Next, He!Request, He!EditStep, He!Load, He!LockEditPath, He!SetLyricEdit, He!restoreLyricEdit, He!Recheck, He!CheckEdit,
       He!Backup, He!NoBackup, He!Publish, He!ClearLyricEdit, He!Admit, He!Trip, He!Claim, He!WorkerRemove, He!WorkerRename, He!Settle, He!SweepPlan,
       He!SweepStep, He!SweepLock, He!SweepRead, He!applyOne, He!TagStep, He!TagLock, He!TagRead, He!InjectEditorTag,
       He!markEditorTagBackfillDone, He!Crash, He!files
  <2> QED BY <2>1, <2>2 DEF He!OriginalKept
<1> QED BY <1>1, EditHolds, PTL DEF He!Spec
=============================================================================
