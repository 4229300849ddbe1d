------------------------------- MODULE Pacer -------------------------------
(***************************************************************************)
(* The request pacers of the provider clients.  Musixmatch                 *)
(* (internal/musixmatch/client.go) reserves a slot under the lock and      *)
(* sleeps until it, at an interval that doubles with each throttle and     *)
(* eases with a streak of successes or with time; a cancelled caller gives *)
(* its slot back when nobody reserved after it.  Petit Lyrics              *)
(* (internal/petitlyrics/client.go) and InnerTube (internal/innertube/     *)
(* pacer.go) sleep and look again.  Time is a number of ticks and a        *)
(* duration wraps at Width bits.                                           *)
(***************************************************************************)
EXTENDS Naturals

CONSTANTS
    Callers,                  \* concurrent requests
    Bases,                    \* the configured minimum intervals
    Width,                    \* 2^Width - 1 is the longest duration
    adaptiveMaxLevel,         \* code: 3
    adaptiveSuccessThreshold, \* code: 5
    adaptiveDecayInterval,    \* code: 20 minutes
    MaxNow, MaxSlot, MaxThrottles   \* bounds on the clock, the slots and the throttles

VARIABLES
    kind,        \* "slots" or "loop"
    base,        \* minInterval
    now,         \* the clock
    last,        \* lastRequest
    level, streak, changed,   \* adaptiveLevel, consecutiveSuccesses, lastLevelChange (0: never)
    caller,      \* each caller: idle or sleeping, its slot and the slot before
    taken,       \* the slots reserved and not given back
    throttled,   \* lastThrottle, 0 for never
    throttles

vars == <<kind, base, now, last, level, streak, changed, caller, taken, throttled, throttles>>

MaxDur == 2^Width - 1
NoWait == [pc |-> "idle", slot |-> 0, prev |-> 0]

TypeOK ==
    /\ kind \in {"slots", "loop"} /\ base \in Bases
    /\ level \in 0..adaptiveMaxLevel /\ streak \in 0..(adaptiveSuccessThreshold - 1)
    /\ changed \in 0..MaxNow /\ throttled \in 0..MaxNow
    /\ now \in 1..MaxNow
    /\ \A c \in Callers : caller[c].pc \in {"idle", "sleeping"} /\ caller[c].slot >= caller[c].prev

Init ==
    /\ kind \in {"slots", "loop"} /\ base \in Bases
    /\ now = 1 /\ last = 0 /\ level = 0 /\ streak = 0 /\ changed = 0
    /\ caller = [c \in Callers |-> NoWait] /\ taken = {} /\ throttled = 0 /\ throttles = 0

(* effectiveInterval: the shift saturates instead of wrapping.             *)
effectiveIntervalWrapped(d, l) == (d * 2^l) % 2^Width
effectiveInterval(d, l) ==
    IF d > MaxDur \div 2^l THEN MaxDur ELSE d * 2^l

(* decayedLevel: one level per full quiet interval since the last change.  *)
decaySteps == IF changed = 0 THEN 0
              ELSE LET n == (now - changed) \div adaptiveDecayInterval
                   IN  IF n < level THEN n ELSE level
decayedLevel == [level |-> level - decaySteps, changed |-> changed + decaySteps * adaptiveDecayInterval]

decayLocked ==
    /\ level' = decayedLevel.level /\ changed' = decayedLevel.changed
    /\ streak' = IF decayedLevel.level # level THEN 0 ELSE streak

(* pace, the reserving part: the next free slot, held before the sleep.    *)
Larger(a, b) == IF a < b THEN b ELSE a
NextSlot == Larger(last + effectiveInterval(base, decayedLevel.level), now)

Reserve(c) ==
    /\ kind = "slots" /\ caller[c].pc = "idle" /\ NextSlot <= MaxSlot
    /\ decayLocked
    /\ last' = NextSlot /\ taken' = taken \cup {NextSlot}
    /\ caller' = [caller EXCEPT ![c] = IF NextSlot > now
                                       THEN [pc |-> "sleeping", slot |-> NextSlot, prev |-> last] ELSE NoWait]
    /\ UNCHANGED <<kind, base, now, throttled, throttles>>

(* The sleep ends.                                                         *)
Wake(c) ==
    /\ kind = "slots" /\ caller[c].pc = "sleeping" /\ now >= caller[c].slot
    /\ caller' = [caller EXCEPT ![c] = NoWait]
    /\ UNCHANGED <<kind, base, now, last, level, streak, changed, taken, throttled, throttles>>

(* The context is cancelled during the sleep: the slot goes back only when *)
(* it is still the last one.                                               *)
RestoredAlways(c) == caller[c].prev
Restored(c) == IF last = caller[c].slot THEN caller[c].prev ELSE last

Cancel(c) ==
    /\ kind = "slots" /\ caller[c].pc = "sleeping"
    /\ last' = Restored(c) /\ taken' = taken \ {caller[c].slot}
    /\ caller' = [caller EXCEPT ![c] = NoWait]
    /\ UNCHANGED <<kind, base, now, level, streak, changed, throttled, throttles>>

(* The other two pacers: granted when the interval has passed, and only    *)
(* then is the request recorded.                                           *)
GrantLoop(c) ==
    /\ kind = "loop" /\ now - last >= base
    /\ last' = now /\ taken' = taken \cup {now}
    /\ UNCHANGED <<kind, base, now, level, streak, changed, caller, throttled, throttles>>

(* OnThrottle and OnSuccess, called for an answer that came back.          *)
ThrottleClockOnChange == changed' = IF level < adaptiveMaxLevel THEN now ELSE changed
ThrottleClock == changed' = now

OnThrottle ==
    /\ kind = "slots" /\ throttles < MaxThrottles /\ throttles' = throttles + 1
    /\ level' = IF level < adaptiveMaxLevel THEN level + 1 ELSE level
    /\ streak' = 0 /\ ThrottleClock /\ throttled' = now
    /\ UNCHANGED <<kind, base, now, last, caller, taken>>

OnSuccess ==
    /\ kind = "slots" /\ throttles > 0
    /\ streak' = (streak + 1) % adaptiveSuccessThreshold
    /\ IF streak + 1 = adaptiveSuccessThreshold /\ level > 0
       THEN level' = level - 1 /\ changed' = now
       ELSE UNCHANGED <<level, changed>>
    /\ UNCHANGED <<kind, base, now, last, caller, taken, throttled, throttles>>

Tick ==
    /\ now < MaxNow /\ now' = now + 1
    /\ UNCHANGED <<kind, base, last, level, streak, changed, caller, taken, throttled, throttles>>

Next ==
    \/ Tick \/ OnThrottle \/ OnSuccess
    \/ \E c \in Callers : Reserve(c) \/ Wake(c) \/ Cancel(c) \/ GrantLoop(c)

Spec == Init /\ [][Next]_vars
----------------------------------------------------------------------------
(* No two requests hold slots closer than the configured interval, however *)
(* callers cancel around each other, whatever the adaptive level was at    *)
(* each reservation, and also when doubling would overflow.                *)
SlotsSpaced ==
    \A a, b \in taken : a < b => b - a >= base

(* The pacer speeds up by itself only after a full quiet interval: a level *)
(* lost without a success streak means no throttle for that long.          *)
EasesOnlyInQuiet ==
    level' < level /\ last' # last => now - throttled >= adaptiveDecayInterval
=============================================================================
