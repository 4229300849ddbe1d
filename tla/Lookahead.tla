------------------------------ MODULE Lookahead ------------------------------
(***************************************************************************)
(* The worker's lookahead buffer (work_queue.batch_seq): randomised, but   *)
(* batched, dequeue.  Rows stamped with a batch_seq are served in stamp    *)
(* order; every dequeue first tops the buffer up to batchSize with due     *)
(* rows drawn at random within their priority, and a webhook drops every   *)
(* stamp so that its row is served next.                                   *)
(*                                                                         *)
(* Only the order of the stamps is ever read, so buf holds the buffered    *)
(* rows in that order.  Each operation is one transaction on the single    *)
(* writer connection.                                                      *)
(***************************************************************************)
EXTENDS Naturals, FiniteSets, Sequences, SequencesExt

CONSTANTS Rows, BatchSize

(* The queue is a finite table; a batch size below 1 turns the buffer off.   *)
ASSUME RowsAssumption == IsFiniteSet(Rows)
ASSUME BatchSizeAssumption == BatchSize \in Nat \ {0}

VARIABLES status, due,
          high,    \* row -> webhook priority
          buf,     \* the rows with a batch_seq, in batch_seq order
          fresh,   \* webhook rows not yet claimed or put off since their enqueue
          empty    \* what the last dequeue answered: "the queue is empty"

vars == <<status, due, high, buf, fresh, empty>>

Eligible(r) == status[r] = "queued" /\ due[r]

Init ==
    /\ status = [r \in Rows |-> "none"] /\ due = [r \in Rows |-> FALSE]
    /\ high = [r \in Rows |-> FALSE]
    /\ buf = <<>> /\ fresh = {} /\ empty = FALSE

(* Enqueue: new work, or new interest in a row there is.  A webhook makes a *)
(* waiting row due and raises its priority whatever its status, and it      *)
(* clears the whole buffer; a scan shortens no wait of a failed or deferred *)
(* row.                                                                     *)
Enqueue(r, webhook) ==
    /\ status' = [status EXCEPT ![r] = IF @ = "none" THEN "queued" ELSE @]
    /\ due' = [due EXCEPT ![r] = status[r] = "none" \/ @ \/ (status[r] = "queued" /\ webhook)]
    /\ high' = [high EXCEPT ![r] = (@ /\ status[r] # "none") \/ webhook]
    /\ buf' = IF webhook THEN <<>> ELSE buf
    /\ fresh' = IF webhook /\ status[r] \in {"none", "queued"} THEN fresh \cup {r} ELSE fresh
    /\ empty' = FALSE

(* The rows of K in the order of their stamps. *)
Cut(b, K) ==
    {s \in UNION {[1..n -> K] : n \in 0..Len(b)} :
        /\ Range(s) = K
        /\ \A i, j \in DOMAIN s : i < j =>
              \E k, l \in DOMAIN b : k < l /\ b[k] = s[i] /\ b[l] = s[j]}

(* clearStaleBatchSeqSQL: the stamps of rows no longer due are dropped. *)
ClearStale(b) == Cut(b, {r \in Range(b) : Eligible(r)})

(* The slip: the draw reads the status and not next_attempt_at. *)
FreeUndue(b) == {r \in Rows : status[r] = "queued" /\ r \notin Range(b)}

(* refillBufferSQL: up to limit due rows without a stamp, by priority, at   *)
(* random within a priority, after those already buffered.                  *)
Free(b) == {r \in Rows : Eligible(r) /\ r \notin Range(b)}

Draws(b) ==
    LET free == Free(b)
        limit == IF BatchSize > Len(b) THEN BatchSize - Len(b) ELSE 0
        n == IF Cardinality(free) < limit THEN Cardinality(free) ELSE limit
    IN  {s \in [1..n -> free] :
            /\ \A i, j \in 1..n : i # j => s[i] # s[j]
            /\ \A i \in 1..n, r \in free : high[r] /\ ~high[s[i]] =>
                  \E j \in 1..n : j < i /\ s[j] = r}

Refilled(b) == UNION {{c \o s : s \in Draws(c)} : c \in ClearStale(b)}

(* dequeueBatched: refill, then claim the lowest stamp that is due; its     *)
(* stamp goes with the claim.  The refill is kept when nothing is due.      *)
Dequeue ==
    \E b \in Refilled(buf) :
        LET ready == {i \in 1..Len(b) : Eligible(b[i])} IN
        IF ready = {}
        THEN buf' = b /\ empty' = TRUE /\ UNCHANGED <<status, due, high, fresh>>
        ELSE LET i == CHOOSE i \in ready : \A j \in ready : i <= j IN
             /\ status' = [status EXCEPT ![b[i]] = "processing"]
             /\ buf' = RemoveAt(b, i)
             /\ fresh' = fresh \ {b[i]}
             /\ empty' = FALSE
             /\ UNCHANGED <<due, high>>

(* The worker records the outcome: done or unavailable, or put off until a  *)
(* later time, a miss (Defer) at low priority.                              *)
Settle(r) ==
    /\ status[r] = "processing"
    /\ \/ status' = [status EXCEPT ![r] = "settled"] /\ UNCHANGED <<due, high>>
       \/ /\ status' = [status EXCEPT ![r] = "queued"] /\ due' = [due EXCEPT ![r] = FALSE]
          /\ \E miss \in BOOLEAN : high' = [high EXCEPT ![r] = @ /\ ~miss]
    /\ empty' = FALSE
    /\ UNCHANGED <<buf, fresh>>

(* An operator or a sweep reaches a queued row, buffered or not: deletes it *)
(* (its stamp goes with it), or settles it or puts it off (the stamp stays).*)
Outside(r) ==
    /\ status[r] = "queued"
    /\ \/ /\ status' = [status EXCEPT ![r] = "none"] /\ due' = [due EXCEPT ![r] = FALSE]
          /\ buf' \in Cut(buf, Range(buf) \ {r})
       \/ status' = [status EXCEPT ![r] = "settled"] /\ UNCHANGED <<due, buf>>
       \/ due' = [due EXCEPT ![r] = FALSE] /\ UNCHANGED <<status, buf>>
    /\ fresh' = fresh \ {r}
    /\ empty' = FALSE
    /\ UNCHANGED high

(* A settled row is reopened; a wait is over. *)
Reopen(r) ==
    /\ status[r] = "settled"
    /\ status' = [status EXCEPT ![r] = "queued"] /\ due' = [due EXCEPT ![r] = TRUE]
    /\ empty' = FALSE
    /\ UNCHANGED <<high, buf, fresh>>

TimePasses(r) ==
    /\ status[r] = "queued" /\ ~due[r]
    /\ due' = [due EXCEPT ![r] = TRUE]
    /\ empty' = FALSE
    /\ UNCHANGED <<status, high, buf, fresh>>

Next == \/ Dequeue
        \/ \E r \in Rows : \/ \E w \in BOOLEAN : Enqueue(r, w)
                           \/ Settle(r) \/ Outside(r) \/ Reopen(r) \/ TimePasses(r)

(* The worker's loop claims again and again. *)
Spec == Init /\ [][Next]_vars /\ WF_vars(Dequeue)

-----------------------------------------------------------------------------
(* The rows' types; the buffer never outgrows batchSize, and no row carries *)
(* two stamps.                                                              *)
TypeOK ==
    /\ status \in [Rows -> {"none", "queued", "processing", "settled"}]
    /\ due \in [Rows -> BOOLEAN] /\ high \in [Rows -> BOOLEAN]
    /\ buf \in Seq(Rows) /\ Len(buf) <= BatchSize /\ IsInjective(buf)
    /\ fresh \subseteq Rows /\ empty \in BOOLEAN

(* The claims are those of the queue without a buffer: the order is all     *)
(* that batching decides.  In particular the worker is told the queue is    *)
(* empty only when no row is due, whatever stamps there are of rows that    *)
(* stopped being due.                                                       *)
Abstract == INSTANCE Claims
ImplementsClaims == Abstract!Spec

(* A row a webhook has just asked for is claimed before any scan row,       *)
(* however full of scan rows the buffer was.                                *)
WebhookServedNext ==
    [][\A r \in Rows : status[r] = "queued" /\ status'[r] = "processing" /\ ~high[r] =>
          \A f \in fresh : ~Eligible(f)]_vars

(* A buffered row does not stay buffered for ever: it is claimed or its     *)
(* stamp is dropped, even though the buffer is topped up before each claim. *)
Buffered(r) == r \in Range(buf)
BufferedServed == \A r \in Rows : Buffered(r) ~> ~Buffered(r)
=============================================================================
