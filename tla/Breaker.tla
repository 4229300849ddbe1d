------------------------------ MODULE Breaker ------------------------------
(***************************************************************************)
(* What one circuit breaker promises, whoever calls it and in whatever     *)
(* order: the specification every lane's breaker implements in Lanes.      *)
(***************************************************************************)
EXTENDS Circuit

VARIABLE b

Init == b = NewBreaker

Allow == b' = Allowed(b)
Trip == b' = Tripped(b)
TripRenewal == b' = TrippedForRenewal(b)
Record == b' = Recovered(b)
New == b' = NewBreaker        \* the next process
Elapse == b.open = "live" /\ b' = WindowOver(b)

Next == Allow \/ Trip \/ TripRenewal \/ Record \/ New \/ Elapse

Spec == Init /\ [][Next]_b

(* The fields' types, and probing only while no window is set. *)
TypeOK ==
    /\ b.open \in {"no", "live", "past"}
    /\ b.probing \in BOOLEAN
    /\ b.trips \in 0..MaxTrips
    /\ b.win \in 0..Cap
    /\ b.probing => b.open = "no"

(* A lane that reads closed has recovered: no caller can be let through at *)
(* full rate while the trips of an outage still stand, so the next trip of *)
(* an unbroken outage always opens a longer window.                        *)
ClosedMeansRecovered == AllowState(b) = "closed" => b.trips = 0

(* The doubling window in unbounded arithmetic. *)
Doubled(n) == IF Base * 2^(n - 1) > Cap THEN Cap ELSE Base * 2^(n - 1)

(* A trip opens the window min(Base * 2^(trips-1), Cap), however many trips *)
(* came before: the doubling never wraps in the width of a Duration.        *)
WindowExact == b'.trips > b.trips => b'.win = Doubled(b'.trips)
=============================================================================
