------------------------------- MODULE Claims -------------------------------
(***************************************************************************)
(* What the worker is promised by Dequeue, whatever order the queue serves *)
(* rows in: a claim takes one row that is due, and "the queue is empty" is *)
(* answered only when no row is due.                                       *)
(***************************************************************************)
CONSTANT Rows

VARIABLES status,  \* row -> "none", "queued", "processing", "settled"
          due,     \* row -> next_attempt_at has passed
          empty    \* the last dequeue answered that no row is due

vars == <<status, due, empty>>

Eligible(r) == status[r] = "queued" /\ due[r]

Init == status = [r \in Rows |-> "none"] /\ due = [r \in Rows |-> FALSE]
        /\ empty = FALSE

Claim(r) ==
    /\ Eligible(r)
    /\ status' = [status EXCEPT ![r] = "processing"] /\ UNCHANGED due
    /\ empty' = FALSE

NothingDue ==
    /\ \A r \in Rows : ~Eligible(r)
    /\ empty' = TRUE /\ UNCHANGED <<status, due>>

(* Anything else only happens to rows that are not being claimed: new work, *)
(* an outcome recorded, a wait set or over, an operator's change.           *)
Change(r) ==
    /\ \E s \in {"none", "queued", "settled", status[r]}, t \in BOOLEAN :
          /\ status' = [status EXCEPT ![r] = s]
          /\ due' = [due EXCEPT ![r] = t]
    /\ empty' = FALSE

Next == NothingDue \/ \E r \in Rows : Claim(r) \/ Change(r)

Spec == Init /\ [][Next]_vars
=============================================================================
