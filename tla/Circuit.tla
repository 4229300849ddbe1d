------------------------------ MODULE Circuit ------------------------------
(***************************************************************************)
(* The circuit breaker of one provider lane (internal/circuit) and the     *)
(* doubling window it opens for (internal/backoff), as operations on the   *)
(* breaker's fields.  Every operation holds the breaker's mutex from start *)
(* to end, so each is one atomic step.                                     *)
(*                                                                         *)
(* A breaker is a record                                                   *)
(*   open     openUntil: "no" (the zero time), "live" (in the future) or   *)
(*            "past" (set, and already over)                               *)
(*   probing  a half-open probe is out                                     *)
(*   trips    consecutiveTrips                                             *)
(*   win      the window of the last trip, in ticks                        *)
(* everProviderSuccess only picks log wording and a pacer hint and is left *)
(* out.                                                                    *)
(***************************************************************************)
EXTENDS Integers

CONSTANTS Base,     \* backoffBase, in ticks
          Cap,      \* openDuration, in ticks
          Width,    \* bits of a time.Duration
          MaxTrips  \* consecutiveTrips saturates here: the window is at Cap by then

(* Two's complement: what a Duration holds after a multiplication. *)
Wrap(n) == ((n + 2^(Width - 1)) % 2^Width) - 2^(Width - 1)

(* The doubling guarded by the cap alone: the slip that overflows. *)
GeometricUnguarded(attempts, base, max) ==
    LET n == IF attempts < 1 THEN 1 ELSE attempts
        delay[i \in 1..n] == IF i = 1 THEN base
                             ELSE IF delay[i-1] >= max THEN max
                             ELSE Wrap(2 * delay[i-1])
    IN  IF delay[n] > max THEN max ELSE delay[n]

(* The loop's early return of max is a fixed point of its own body. *)
Geometric(attempts, base, max) ==
    LET n == IF attempts < 1 THEN 1 ELSE attempts
        delay[i \in 1..n] ==
            IF i = 1 THEN base
            ELSE IF delay[i-1] >= max \/ delay[i-1] > max \div 2
                 THEN max
                 ELSE Wrap(2 * delay[i-1])
    IN  IF base <= 0 \/ max <= 0 THEN 0
        ELSE IF delay[n] > max THEN max ELSE delay[n]

NewBreaker == [open |-> "no", probing |-> FALSE, trips |-> 0, win |-> 0]

(* Allow: the state a caller is told, and the move to half-open it makes. *)
AllowState(b) ==
    IF b.open = "live" THEN "open"
    ELSE IF b.open = "past" \/ b.probing THEN "half-open" ELSE "closed"

Allowed(b) ==
    IF b.open = "past" THEN [b EXCEPT !.open = "no", !.probing = TRUE] ELSE b

NextTrips(n) == IF n < MaxTrips THEN n + 1 ELSE n

Tripped(b) ==
    [open |-> "live", probing |-> FALSE, trips |-> NextTrips(b.trips),
     win |-> Geometric(NextTrips(b.trips), Base, Cap)]

TrippedForRenewal(b) ==
    [b EXCEPT !.open = "live", !.probing = FALSE, !.win = Cap]

(* RecordSuccess and RecordBenignMiss: the provider is alive.  An open      *)
(* window already running is left to run.                                   *)
Recovered(b) == [b EXCEPT !.trips = 0, !.probing = FALSE]

(* Time passes the end of the window. *)
WindowOver(b) == [b EXCEPT !.open = "past"]

(* Snapshot: the same reading without Allow's side effect. *)
SnapshotState(b) == AllowState(b)
=============================================================================
