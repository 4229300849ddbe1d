------------------------------ MODULE Schedule ------------------------------
(***************************************************************************)
(* When the periodic library scan runs: Schedule.NextFire                  *)
(* (internal/schedule/schedule.go) and the loop that waits for it          *)
(* (Scheduler.Run, internal/scan/scheduler.go).  The zone changes its      *)
(* offset once, so a wall-clock time may be missing or come twice; which   *)
(* of the two instants time.Date then returns is not specified.            *)
(***************************************************************************)
EXTENDS Integers, FiniteSets

CONSTANTS
    HourLen,      \* ticks of an hour
    DayHours,     \* code: 24
    WeekDays,     \* code: 7
    Changes,      \* instants at which a zone's offset may change
    Shifts,       \* by how many ticks
    Cadences,     \* schedules: [freq, at, day, every, onStart]
    MaxNow, MaxSuspends   \* bounds

VARIABLES
    sch,       \* the schedule of this run
    zone,      \* when and by how much the zone changes
    early,     \* whether time.Date resolves an odd wall-clock time with the later offset
    now,
    pc,        \* "begin", "scan", "sleep" or "ended"
    armed,     \* when the timer was set
    next,      \* what it was set for
    left,      \* the time left on it; it stands still while the machine is suspended
    occ,       \* the occurrence it was set for
    ran,       \* the last occurrence that ran
    slept      \* suspensions so far

vars == <<sch, zone, early, now, pc, armed, next, left, occ, ran, slept>>

DayLen == HourLen * DayHours
Abs(n) == IF n < 0 THEN -n ELSE n

(* time.Time and time.Date in a zone that changes once.                    *)
Local(t) == IF t < zone.change THEN t ELSE t + zone.shift
DateAhead(w) ==
    LET ok == {t \in {w, w - zone.shift} : Local(t) = w /\ t > now}
    IN  IF ok = {} THEN w ELSE CHOOSE t \in ok : \A u \in ok : t <= u
Date(w) ==
    LET before == w
        after == w - zone.shift
        ok == {t \in {before, after} : Local(t) = w}
    IN  IF Cardinality(ok) = 1 THEN CHOOSE t \in ok : TRUE
        ELSE IF early THEN after ELSE before

Day(t) == Local(t) \div DayLen
Hour(t) == (Local(t) % DayLen) \div HourLen
Weekday(t) == Day(t) % WeekDays

(* advanceUntilAfter, as the first offset among 0, 1 and 2 periods whose   *)
(* instant is after t; the third is returned whatever it is.               *)
advanceOnce(t, b) == IF b[0] > t THEN 0 ELSE 1
advanceUntilAfter(t, b) == IF b[0] > t THEN 0 ELSE IF b[1] > t THEN 1 ELSE 2

(* The candidates of a frequency: the unit an occurrence is counted in and *)
(* the instant at each of the three offsets.                               *)
SlotTomorrow(t) == IF sch.freq = "hourly" THEN Day(t) * DayHours + Hour(t) + 1 ELSE Day(t) + 1
Slot(t) ==
    CASE sch.freq = "hourly" -> Day(t) * DayHours + Hour(t) + 1
      [] sch.freq = "daily" -> Day(t)
      [] sch.freq = "weekly" -> Day(t) + ((sch.day - Weekday(t) + WeekDays) % WeekDays)
Period == IF sch.freq = "weekly" THEN WeekDays ELSE 1
At(slot) == IF sch.freq = "hourly" THEN Date(slot * HourLen) ELSE Date(slot * DayLen + sch.at)

(* NextFire: the occurrence and the instant, if there is one.              *)
None == [some |-> FALSE, at |-> 0, slot |-> 0]
NextFire(t) ==
    CASE sch.freq = "off" -> None
      [] sch.freq = "interval" /\ sch.every <= 0 -> None
      [] sch.freq = "interval" -> [some |-> TRUE, at |-> t + sch.every, slot |-> t + sch.every]
      [] OTHER ->
           LET i == advanceUntilAfter(t, [j \in 0..2 |-> At(Slot(t) + j * Period)])
               s == Slot(t) + i * Period
           IN  [some |-> TRUE, at |-> At(s), slot |-> s]

(* ResolveScanSchedule: without a frequency the interval of old, which     *)
(* always scans at start.                                                  *)
ResolveScanSchedule(c) ==
    IF c.freq = "" THEN [c EXCEPT !.freq = "interval", !.onStart = TRUE] ELSE c

-----------------------------------------------------------------------------
TypeOK ==
    /\ sch.freq \in {"off", "interval", "hourly", "daily", "weekly"}
    /\ zone \in [change : Changes, shift : Shifts] /\ early \in BOOLEAN
    /\ now \in 0..MaxNow /\ armed \in 0..MaxNow /\ next \in Int /\ left \in Nat
    /\ pc \in {"begin", "scan", "sleep", "ended"}
    /\ occ \in Int /\ ran \in Int /\ slept \in 0..MaxSuspends

Init ==
    /\ sch \in {ResolveScanSchedule(c) : c \in Cadences}
    /\ zone \in [change : Changes, shift : Shifts] /\ early \in BOOLEAN
    /\ now \in 0..(DayLen - 1) /\ armed = 0 /\ next = 0 /\ left = 0
    /\ pc = "begin" /\ occ = -1 /\ ran = -1 /\ slept = 0

(* NextFire and the timer: time.Until below zero is zero.                  *)
Arm ==
    /\ LET n == NextFire(now)
       IN  IF n.some
           THEN /\ next' = n.at /\ occ' = n.slot /\ armed' = now
                /\ left' = IF n.at < now THEN 0 ELSE n.at - now
                /\ pc' = "sleep"
           ELSE pc' = "ended" /\ UNCHANGED <<next, occ, armed, left>>
    /\ UNCHANGED <<sch, zone, early, now, ran, slept>>

Begin ==
    /\ pc = "begin" /\ ~sch.onStart /\ Arm

ScanOnStart ==
    /\ pc = "begin" /\ sch.onStart /\ pc' = "scan"
    /\ UNCHANGED <<sch, zone, early, now, armed, next, left, occ, ran, slept>>

Scanned == pc = "scan" /\ Arm

(* The timer runs out and RunOnce begins.                                  *)
Fire ==
    /\ pc = "sleep" /\ left = 0 /\ pc' = "scan" /\ ran' = occ
    /\ UNCHANGED <<sch, zone, early, now, armed, next, left, occ, slept>>

(* The context ends, or RunOnce fails.                                     *)
End ==
    /\ pc \in {"sleep", "scan"} /\ pc' = "ended"
    /\ UNCHANGED <<sch, zone, early, now, armed, next, left, occ, ran, slept>>

Tick ==
    /\ pc \in {"scan", "sleep"} /\ now < MaxNow /\ now' = now + 1
    /\ pc = "sleep" => left > 0
    /\ left' = IF pc = "sleep" THEN left - 1 ELSE left
    /\ UNCHANGED <<sch, zone, early, pc, armed, next, occ, ran, slept>>

(* The machine sleeps: the clock goes on, the timer does not.              *)
Suspend ==
    /\ slept < MaxSuspends /\ slept' = slept + 1 /\ pc \in {"scan", "sleep"}
    /\ now' \in {t \in (now + 1)..(now + DayLen) : t <= MaxNow}
    /\ UNCHANGED <<sch, zone, early, pc, armed, next, left, occ, ran>>

Next == Begin \/ ScanOnStart \/ Scanned \/ Fire \/ End \/ Tick \/ Suspend
Spec == Init /\ [][Next]_vars

-----------------------------------------------------------------------------
(* The next run is always ahead of the clock, across a change of the       *)
(* zone too: the loop never fires again at once.                           *)
StrictlyAhead == pc = "sleep" => next > armed

(* An occurrence (an hour, a day, a week's day) runs at most once, also    *)
(* one whose wall-clock time comes twice.                                  *)
OccurrenceOnce == pc = "sleep" /\ pc' = "scan" => ran' > ran

(* Arming never passes over an occurrence: the wait is at most one period  *)
(* and the change of the zone.                                             *)
NoneSkipped ==
    pc = "sleep" /\ sch.freq \in {"hourly", "daily", "weekly"} =>
        next - armed <= Abs(zone.shift) + (IF sch.freq = "hourly" THEN HourLen ELSE Period * DayLen)

(* What NextFire's comment says of a machine asleep through its window: it *)
(* waits for the next one, a run is never late.                            *)
NeverLate == [][pc = "sleep" /\ pc' = "scan" => now < next + HourLen]_vars
=============================================================================
