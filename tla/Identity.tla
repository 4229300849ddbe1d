------------------------------ MODULE Identity ------------------------------
(***************************************************************************)
(* The identity repairs (internal/identityrepair, the split of             *)
(* internal/titlerepair): files of one title whose artist tag changes, the *)
(* scan results that follow the tag, and the queue rows, one per artist    *)
(* key and edition, that must follow the results.  RepairDivergence works  *)
(* from the database alone after a scan; Run re-reads every file against a *)
(* snapshot of the results; Split gives an instrumental release a row of   *)
(* its own.  Each repairs one row per transaction, beside the scanner, the *)
(* enqueuer, the worker and the operator.  Scoped runs (one library, one   *)
(* subtree) and dry runs are left out.                                     *)
(***************************************************************************)
EXTENDS Naturals, FiniteSets

CONSTANTS
    Files,       \* the audio files
    Inst,        \* those on an instrumental release
    Keys,        \* artist keys
    First,       \* the key all files had when they were first scanned
    Ids,         \* row ids
    Outs,        \* the output lists the legacy row may have
    MaxRetags,   \* bound on the changes of tags
    MaxHands,    \* bound on the hand marks
    MaxForced    \* bound on the forced scans

VARIABLES
    tag,             \* the artist key each file's tags give
    res,             \* scan_results: key and status
    rows,            \* work_queue
    links,           \* work_queue_scan_results
    blocked,         \* the keys with a lyric block
    snap, todo,      \* Run's snapshot and the files it has still to visit
    got,             \* the file Run has in hand, as a set, and the key it read
    retags, hands, forced

env == <<tag, retags, hands, forced>>
run == <<snap, todo, got>>
vars == <<tag, res, rows, links, blocked, snap, todo, got, retags, hands, forced>>

Editions == {"", "inst"}
Nothing == [f |-> {}, key |-> First]
NoRow == [live |-> FALSE, key |-> First, ed |-> "", inst |-> FALSE, st |-> "done", hand |-> FALSE,
          outs |-> {}]
RowType == [live : BOOLEAN, key : Keys, ed : Editions, inst : BOOLEAN,
            st : {"pending", "processing", "done"}, hand : BOOLEAN, outs : SUBSET Files]

TypeOK ==
    /\ tag \in [Files -> Keys]
    /\ res \in [Files -> [key : Keys, st : {"pending", "processing", "done"}]]
    /\ rows \in [Ids -> RowType]
    /\ links \subseteq {i \in Ids : rows[i].live} \X Files
    /\ blocked \subseteq Keys
    /\ snap \in [Files -> Keys] /\ todo \subseteq Files
    /\ got \in [f : SUBSET Files, key : Keys] /\ Cardinality(got.f) <= 1
    /\ retags \in 0..MaxRetags /\ hands \in 0..MaxHands /\ forced \in 0..MaxForced

Live == {i \in Ids : rows[i].live}
Members(i) == {f \in Files : <<i, f>> \in links}
Linked(f) == \E i \in Live : <<i, f>> \in links
edition(f) == IF f \in Inst THEN "inst" ELSE ""

(* A legacy row: made before editions, it links every copy. *)
Init ==
    /\ tag = [f \in Files |-> First]
    /\ res = [f \in Files |-> [key |-> First, st |-> "done"]]
    /\ \E i \in Ids, inst \in BOOLEAN, o \in Outs :
        /\ \A j \in Ids : i <= j
        /\ inst => Inst # {}
        /\ rows = [j \in Ids |-> IF j = i THEN [NoRow EXCEPT !.live = TRUE, !.inst = inst, !.outs = o]
                                          ELSE NoRow]
        /\ links = {i} \X Files
    /\ blocked \in SUBSET {First}
    /\ snap = tag /\ todo = {} /\ got = Nothing /\ retags = 0 /\ hands = 0 /\ forced = 0

-----------------------------------------------------------------------------
(* The user, the scanner, the enqueuer, the worker and the operator. *)

Retag(f, k) ==
    /\ retags < MaxRetags /\ tag[f] # k
    /\ tag' = [tag EXCEPT ![f] = k] /\ retags' = retags + 1
    /\ UNCHANGED <<res, rows, links, blocked, run, hands, forced>>

(* baseUpsert follows the tag and keeps the status; nothing tells the row. *)
Index(f) ==
    /\ res[f].key # tag[f]
    /\ res' = [res EXCEPT ![f].key = tag[f]]
    /\ UNCHANGED <<rows, links, blocked, run, env>>

Force(f) ==
    /\ forced < MaxForced /\ res[f].st = "done"
    /\ res' = [res EXCEPT ![f].st = "pending"] /\ forced' = forced + 1
    /\ UNCHANGED <<rows, links, blocked, run, tag, retags, hands>>

At(k, e) == {i \in Live : rows[i].key = k /\ rows[i].ed = e}
Free == {i \in Ids : ~rows[i].live /\ \A j \in Ids : ~rows[j].live => i <= j}

NewRow(f, st) == [NoRow EXCEPT !.live = TRUE, !.key = res[f].key, !.ed = edition(f), !.inst = f \in Inst,
                               !.st = st, !.outs = {f}]

Enqueue(f) ==
    /\ res[f].st = "pending"
    /\ \E i \in Ids :
        /\ \/ /\ i \in At(res[f].key, edition(f))
              /\ rows' = [rows EXCEPT ![i].outs = @ \cup {f},
                                      ![i].st = IF @ = "done" /\ ~rows[i].hand THEN "pending" ELSE @]
           \/ /\ At(res[f].key, edition(f)) = {} /\ i \in Free
              /\ rows' = [rows EXCEPT ![i] = NewRow(f, "pending")]
        /\ links' = links \cup {<<i, f>>}
        /\ res' = [res EXCEPT ![f].st = IF rows'[i].st = "done" THEN "done" ELSE "processing"]
    /\ UNCHANGED <<blocked, run, env>>

(* Adopt: a settled result without a row gets one (see Adopt). *)
AdoptSettled(f) ==
    /\ res[f].st = "done" /\ ~Linked(f)
    /\ \E i \in Ids :
        /\ \/ i \in At(res[f].key, edition(f)) /\ UNCHANGED rows
           \/ /\ At(res[f].key, edition(f)) = {} /\ i \in Free
              /\ rows' = [rows EXCEPT ![i] = NewRow(f, "done")]
        /\ links' = links \cup {<<i, f>>}
    /\ UNCHANGED <<res, blocked, run, env>>

Claim(i) ==
    /\ i \in Live /\ rows[i].st = "pending"
    /\ rows' = [rows EXCEPT ![i].st = "processing"]
    /\ UNCHANGED <<res, links, blocked, run, env>>

Complete(i) ==
    /\ i \in Live /\ rows[i].st = "processing"
    /\ rows' = [rows EXCEPT ![i].st = "done"]
    /\ res' = [f \in Files |-> IF f \in Members(i) THEN [res[f] EXCEPT !.st = "done"] ELSE res[f]]
    /\ UNCHANGED <<links, blocked, run, env>>

Hand(i) ==
    /\ hands < MaxHands /\ i \in Live /\ rows[i].st = "done" /\ ~rows[i].hand
    /\ rows' = [rows EXCEPT ![i].hand = TRUE] /\ hands' = hands + 1
    /\ UNCHANGED <<res, links, blocked, run, tag, retags, forced>>

-----------------------------------------------------------------------------
(* reconcileQueue. *)

(* queueRowAt: the row of the same edition at the corrected key. *)
queueRowAtAny(i, k) == {j \in Live \ {i} : rows[j].key = k /\ j = i}
queueRowAt(i, k) == {j \in Live \ {i} : rows[j].key = k /\ rows[j].ed = rows[i].ed}

(* probeQueueConflict: in flight at either end, or a merge that would     *)
(* collapse a hand-marked row.                                            *)
neverSkip(i, k) == FALSE
skip(i, k) == rows[i].st = "processing" \/ \E j \in queueRowAt(i, k) : rows[j].st = "processing"
editSkip(i, k) == \E j \in queueRowAt(i, k) : rows[i].hand \/ rows[j].hand

(* The sung row stays at the old key: its blocks stay with it. *)
noTwin(i) == FALSE
oldTwin(i) == \E j \in Live \ {i} : rows[j].key = rows[i].key /\ rows[j].ed = ""

(* lyricblock.Rekey moves every block of the identity. *)
Moved(old, new, move) ==
    IF move /\ old \in blocked THEN (blocked \ {old}) \cup {new} ELSE blocked

(* ReopenDoneRowTx, but for a row whose file a person edited. *)
ReopenedAny(r) == [r EXCEPT !.st = "pending"]
Reopened(r) == IF r.st = "done" /\ ~r.hand THEN [r EXCEPT !.st = "pending"] ELSE r

keepOutputPaths(keep, drop) == rows[keep].outs
unionOutputPaths(keep, drop) == rows[keep].outs \cup rows[drop].outs

RekeyInPlace(i, k) ==
    /\ rows' = [rows EXCEPT ![i] = Reopened([@ EXCEPT !.key = k])]
    /\ links' = links

mergeQueueRows(drop, keep, f) ==
    /\ rows' = [rows EXCEPT ![drop] = NoRow,
                            ![keep] = Reopened([@ EXCEPT !.outs = unionOutputPaths(keep, drop)])]
    /\ links' = {l \in links : l[1] # drop} \cup ({keep} \X (Members(drop) \cup {f}))

(* f is the result the change is about. *)
reconcileQueue(i, k, f, moveOK) ==
    /\ \/ queueRowAt(i, k) = {} /\ RekeyInPlace(i, k)
       \/ \E j \in queueRowAt(i, k) : mergeQueueRows(i, j, f)
    /\ blocked' = Moved(rows[i].key, k, moveOK /\ ~oldTwin(i))

-----------------------------------------------------------------------------
(* RepairDivergence, one row.  All members agree on another key: the row   *)
(* follows.  They disagree: those that left are detached, and a row none   *)
(* is left of is deleted.                                                  *)

MemberKeys(i) == {res[f].key : f \in Members(i)}
DivergentUnsettled(i) == i \in Live /\ rows[i].st = "pending" /\ \E k \in MemberKeys(i) : k # rows[i].key
Divergent(i) == i \in Live /\ rows[i].st # "processing" /\ \E k \in MemberKeys(i) : k # rows[i].key

Follow(i) ==
    /\ Divergent(i)
    /\ \E k \in Keys : \E f \in Members(i) :
        /\ MemberKeys(i) = {k}
        /\ ~skip(i, k) /\ ~editSkip(i, k)
        /\ reconcileQueue(i, k, f, TRUE)
    /\ UNCHANGED <<res, run, env>>

DetachedAsIs(st) == st
Detached(st) == "pending"
Gone(i) == {f \in Members(i) : res[f].key # rows[i].key}

Detach(i) ==
    /\ Divergent(i) /\ Cardinality(MemberKeys(i)) > 1 /\ ~rows[i].hand
    /\ links' = links \ ({i} \X Gone(i))
    /\ res' = [f \in Files |-> IF f \in Gone(i) THEN [res[f] EXCEPT !.st = Detached(@)] ELSE res[f]]
    /\ rows' = IF Gone(i) = Members(i) THEN [rows EXCEPT ![i] = NoRow] ELSE rows
    /\ UNCHANGED <<blocked, run, env>>

-----------------------------------------------------------------------------
(* Run: load once, then a file at a time: read its tags, then correct the  *)
(* result and its row in one transaction, from the key that was read and   *)
(* the snapshot's, whatever the file says by then.                         *)

Load ==
    /\ todo = {} /\ got.f = {} /\ \E f \in Files : tag[f] # res[f].key
    /\ snap' = [f \in Files |-> res[f].key] /\ todo' = Files
    /\ UNCHANGED <<got, res, rows, links, blocked, env>>

Read(f) ==
    /\ f \in todo /\ got.f = {}
    /\ got' = [f |-> {f}, key |-> tag[f]]
    /\ todo' = todo \ {f} /\ UNCHANGED <<snap, env, res, rows, links, blocked>>

Visited(f) == f \in got.f /\ got' = Nothing /\ UNCHANGED <<snap, todo, env>>
Leave == UNCHANGED <<res, rows, links, blocked>>

(* The row the change speaks for: the linked one, else the sung one. *)
oldQueueRow(f) ==
    LET at == {i \in Live : rows[i].key = snap[f]}
        lk == {i \in at : <<i, f>> \in links}
        plain(s) == {i \in s : rows[i].ed = ""}
    IN  IF lk # {} THEN (IF plain(lk) # {} THEN plain(lk) ELSE lk) ELSE plain(at)

(* Siblings still at the old key are read from disk. *)
membersIgnored(i, f) == TRUE
membersAgree(i, f) ==
    \A g \in Members(i) \ {f} : (IF res[g].key = snap[f] THEN tag[g] ELSE res[g].key) = got.key

(* Already correct, unreadable, or given up (processing, hand-marked). *)
Pass(f) == Visited(f) /\ Leave

Correct(f) ==
    /\ Visited(f) /\ got.key # snap[f] /\ oldQueueRow(f) = {}
    /\ res' = [res EXCEPT ![f].key = got.key]
    /\ links' = links \ {<<i, f>> : i \in {j \in Live : rows[j].key # got.key}}
    /\ UNCHANGED <<rows, blocked>>

Apply(f) ==
    /\ Visited(f) /\ got.key # snap[f]
    /\ \E i \in oldQueueRow(f) :
        /\ \A j \in oldQueueRow(f) : i <= j
        /\ ~skip(i, got.key) /\ ~editSkip(i, got.key)
        /\ reconcileQueue(i, got.key, f, membersAgree(i, f))
    /\ res' = [res EXCEPT ![f].key = got.key]

-----------------------------------------------------------------------------
(* Split: a row that describes the release copy takes the edition's key,   *)
(* and the other edition's results go back to pending.  Not while in       *)
(* flight, nor when the row writes into a twin's folder, nor onto a row    *)
(* that has the key.                                                       *)

twins(i) == {f \in Members(i) : (f \in Inst) # rows[i].inst}
NeverCollides(i) == FALSE
Collides(i) == rows[i].inst /\ At(rows[i].key, "inst") # {}

applySplit(i) ==
    /\ i \in Live /\ rows[i].ed = "" /\ (rows[i].inst \/ twins(i) # {})
    /\ rows[i].st # "processing"
    /\ rows[i].outs \cap twins(i) = {}
    /\ ~Collides(i)
    /\ rows' = [rows EXCEPT ![i].ed = IF rows[i].inst THEN "inst" ELSE ""]
    /\ links' = links \ ({i} \X twins(i))
    /\ res' = [f \in Files |-> IF f \in twins(i) /\ ~\E j \in Live \ {i} : <<j, f>> \in links
                                  THEN [res[f] EXCEPT !.st = "pending"] ELSE res[f]]
    /\ UNCHANGED <<blocked, run, env>>

RepairDivergence == \E i \in Ids : Follow(i) \/ Detach(i)
Repair ==
    \/ RepairDivergence \/ \E i \in Ids : applySplit(i)
    \/ \E f \in Files : Correct(f) \/ Apply(f)

Next ==
    \/ Repair \/ Load
    \/ \E f \in Files : Index(f) \/ Force(f) \/ Enqueue(f) \/ AdoptSettled(f) \/ Read(f) \/ Pass(f)
    \/ \E f \in Files, k \in Keys : Retag(f, k)
    \/ \E i \in Ids : Claim(i) \/ Complete(i) \/ Hand(i)

Spec == Init /\ [][Next]_vars

(* Scans keep running, each followed by RepairDivergence and the enqueuer; *)
(* the worker keeps working.                                               *)
Fairness ==
    /\ \A f \in Files : WF_vars(Index(f)) /\ WF_vars(Enqueue(f)) /\ WF_vars(AdoptSettled(f))
                        /\ WF_vars(Read(f)) /\ WF_vars(Pass(f))
    /\ \A i \in Ids : SF_vars(Follow(i)) /\ SF_vars(Detach(i)) /\ WF_vars(Claim(i)) /\ WF_vars(Complete(i))
LiveSpec == Spec /\ Fairness

-----------------------------------------------------------------------------
(* UNIQUE (artist_key, title_key, edition): no repair re-keys a row onto   *)
(* one that has the key; it merges or refuses.                             *)
KeysUnique ==
    \A i, j \in Live : i # j => rows[i].key # rows[j].key \/ rows[i].ed # rows[j].ed

(* No repair touches a row in flight: its key, outputs and existence are   *)
(* what the worker that claimed it saw, and it keeps the results of its    *)
(* key (the link of a result of another key Run drops all the same).       *)
InFlightSpared ==
       (\E i \in Live :
         /\ rows[i].st = "processing"
         /\ \/ rows'[i] # rows[i]
            \/ \E f \in Members(i) : <<i, f>> \notin links' /\ res'[f].key = rows[i].key) => ~Repair

(* A hand-marked row is never deleted, merged or reopened.  It keeps every *)
(* result RepairDivergence finds on it; Run and Split take only a result   *)
(* that has another key, or belongs to the other edition.                  *)
HandRowKept ==
    /\ (\E i \in Live :
           /\ rows[i].hand
           /\ \/ ~rows'[i].live
              \/ ~rows'[i].hand
              \/ rows'[i].st # rows[i].st
              \/ \E f \in Members(i) : /\ <<i, f>> \notin links'
                                      /\ res'[f].key = rows'[i].key
                                      /\ edition(f) = rows'[i].ed) => ~Repair
    /\ (\E i \in Live : rows[i].hand /\ \E f \in Members(i) : <<i, f>> \notin links')
          => ~RepairDivergence

(* "so the sung row is never re-fetched without its blocks": a repair      *)
(* takes the blocks of a sung row neither from the row, unless it re-keys  *)
(* it away from members that did not move, nor from a member that stays at *)
(* the old key.  What the file in hand says is what Run read of it: tags   *)
(* changed back since then take the blocks along until the next scan.      *)
Says(g) == IF g \in got.f THEN got.key ELSE tag[g]
SungKeepsBlocks ==
       (\E i \in Live :
         /\ rows[i].ed = "" /\ rows[i].key \in blocked
         /\ \/ /\ rows'[i].live /\ rows'[i].ed = "" /\ rows'[i].key \notin blocked'
               /\ rows'[i].key # rows[i].key => \A g \in Members(i) : rows'[i].key \in {Says(g), res[g].key}
            \/ /\ rows[i].key \notin blocked'
               /\ \E g \in Members(i) : Says(g) = rows[i].key /\ res[g].key = rows[i].key)
       => ~Repair

(* What a dropped row wrote is not forgotten: another row writes it, or    *)
(* its result is pending again.                                            *)
OutputsKept ==
       \A i \in Live : ~rows'[i].live =>
         \A f \in rows[i].outs \cap Members(i) :
            res'[f].st = "pending" \/ \E j \in Ids : rows'[j].live /\ f \in rows'[j].outs

(* A detached result is offered again: it is pending, or another row has   *)
(* it.  (A link Run drops leaves the result to the adoption.)              *)
DetachedIsOffered ==
       (\E f \in Files :
         Linked(f) /\ res'[f].st # "pending" /\ ~\E i \in Ids : <<i, f>> \in links') => got' # got

(* Once the tags rest, every link ends at a row of the file's own key.     *)
KeysAgree == \A l \in links : rows[l[1]].key = tag[l[2]]
KeysConverge == <>[]KeysAgree
=============================================================================
