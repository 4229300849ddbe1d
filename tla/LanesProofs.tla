---------------------------- MODULE LanesProofs -----------------------------
(***************************************************************************)
(* Each lane of the orchestrator is a Breaker, for any lanes, dispatch     *)
(* modes, answers and window (LaneIsBreaker), and so no lane is let        *)
(* through at full rate while the trips of an outage stand                 *)
(* (LanesRecover).                                                         *)
(*                                                                         *)
(* Whatever an action does to the dispatch, it does one of five things to  *)
(* the lanes (Moves); what these do to one lane's breaker is then a matter *)
(* of the breaker alone.                                                   *)
(*                                                                         *)
(* What a dispatch answers is the second half: a refusal comes last        *)
(* (LanesRefuseOnlyTried), no better lyric is thrown away                  *)
(* (LanesServeTheBest), no word timing is unanimous                        *)
(* (LanesAbsentIsUnanimous), a miss is some provider's answer              *)
(* (LanesMissIsAnAnswer).  Each has an invariant of its own, kept by one   *)
(* lemma per way of taking an answer and of ending a dispatch.             *)
(*                                                                         *)
(* Last come the types (LanesTypesHold), from the lanes' breakers and the  *)
(* word answers of the dispatch, and that every step keeps each lane a     *)
(* breaker (LanesStayBreakers), which is what a run checks.                *)
(***************************************************************************)
EXTENDS Lanes, FiniteSetTheorems, TLAPS

(* What an action may do to the lanes: nothing, one lane is asked, one lane *)
(* has returned an answer, a window is over, or the process is a new one.   *)
Moves ==
    \/ lane' = lane
    \/ \E l : lane' = Ask(l)
    \/ \E l, a : lane' = [lane EXCEPT ![l] = Returned(l, a)]
    \/ \E l : lane[l].b.open = "live" /\ lane' = [lane EXCEPT ![l].b = WindowOver(@)]
    \/ lane' = [l \in Lanes |-> NewLane]

LEMMA EveryStepMoves == [Next]_vars => Moves
<1> SUFFICES ASSUME [Next]_vars PROVE Moves
  OBVIOUS
<1>1. CASE GateShut \/ OrderedSkip \/ OrderedEnd \/ RaceGivesUp \/ Shutdown \/ UNCHANGED vars
  BY <1>1 DEF GateShut, OrderedSkip, OrderedEnd, RaceGivesUp, Shutdown, vars, Moves
<1>2. ASSUME NEW k, FindLyrics(k) PROVE Moves
  BY <1>2 DEF FindLyrics, Ask, Moves
<1>3. CASE OrderedAsk
  <2>1. \E l : lane' = Ask(l)
    BY <1>3 DEF OrderedAsk
  <2> QED BY <2>1 DEF Moves
<1>4. CASE StagedAsk
  BY <1>4 DEF StagedAsk, Moves
<1>5. ASSUME NEW l, RaceStart(l) \/ StaleStart(l) PROVE Moves
  BY <1>5 DEF RaceStart, StaleStart, Moves
<1>6. ASSUME NEW l, NEW a, LaneReturns(l, a) PROVE Moves
  BY <1>6 DEF LaneReturns, Moves
<1>7. ASSUME NEW l, OrderedAnswer(l) \/ RaceAnswer(l) \/ StaleReturn(l) PROVE Moves
  BY <1>6, <1>7 DEF OrderedAnswer, RaceAnswer, StaleReturn
<1>8. CASE StagedAnswer
  BY <1>6, <1>8 DEF StagedAnswer
<1>9. ASSUME NEW l, Elapse(l) PROVE Moves
  BY <1>9 DEF Elapse, Moves
<1>10. CASE Restart
  BY <1>10 DEF Restart, Fresh, Moves
<1> QED BY <1>1, <1>2, <1>3, <1>4, <1>5, <1>7, <1>8, <1>9, <1>10 DEF Next, Step

-----------------------------------------------------------------------------
(* The lanes are records; B stands for the breakers, whatever they hold. *)
LanesOf(B) == [Lanes -> [b : B, refused : BOOLEAN]]
AreLanes == \E B : lane \in LanesOf(B)

(* A lane is changed in its breaker alone, or whole. *)
Sets(k, x) == lane' = [lane EXCEPT ![k].b = x]
SetsLane(k, y) == lane' = [lane EXCEPT ![k] = y]

LEMMA BreakerSet ==
    ASSUME AreLanes, NEW k, NEW x, Sets(k, x)
    PROVE  AreLanes' /\ \A l \in Lanes : lane'[l].b = IF l = k THEN x ELSE lane[l].b
<1>1. PICK B : lane \in LanesOf(B)
  BY DEF AreLanes
<1>2. ASSUME NEW l \in Lanes
      PROVE  /\ lane'[l] \in [b : B \cup {x}, refused : BOOLEAN]
             /\ lane'[l].b = IF l = k THEN x ELSE lane[l].b
  <2>1. lane[l] \in [b : B, refused : BOOLEAN]
    BY <1>1 DEF LanesOf, Sets
  <2>2. CASE l = k
    <3>1. lane'[l] = [lane[l] EXCEPT !.b = x]
      BY <1>1, <2>2 DEF LanesOf, Sets
    <3>2. [lane[l] EXCEPT !.b = x] \in [b : B \cup {x}, refused : BOOLEAN]
      BY <2>1
    <3>3. [lane[l] EXCEPT !.b = x].b = x
      BY <2>1
    <3> QED BY <2>2, <3>1, <3>2, <3>3
  <2>3. CASE l # k
    <3>1. lane'[l] = lane[l]
      BY <1>1, <2>3 DEF LanesOf, Sets
    <3>2. lane[l] \in [b : B \cup {x}, refused : BOOLEAN]
      BY <2>1
    <3> QED BY <2>3, <3>1, <3>2
  <2> QED BY <2>2, <2>3
<1>3. lane' = [l \in Lanes |-> lane'[l]]
  BY <1>1 DEF LanesOf, Sets
<1>4. lane' \in LanesOf(B \cup {x})
  BY <1>2, <1>3 DEF LanesOf, Sets
<1> QED BY <1>2, <1>4 DEF AreLanes

LEMMA LaneSet ==
    ASSUME AreLanes, NEW k, NEW y, NEW x, y \in [b : {x}, refused : BOOLEAN],
           SetsLane(k, y)
    PROVE  AreLanes' /\ \A l \in Lanes : lane'[l].b = IF l = k THEN x ELSE lane[l].b
<1>1. PICK B : lane \in LanesOf(B)
  BY DEF AreLanes
<1>2. /\ lane' \in LanesOf(B \cup {x})
      /\ \A l \in Lanes : lane'[l].b = IF l = k THEN x ELSE lane[l].b
  BY <1>1 DEF LanesOf, SetsLane
<1> QED BY <1>2 DEF AreLanes

-----------------------------------------------------------------------------
(* What a breaker's operation makes of it. *)
After(b, c) ==
    \/ c \in {b, Allowed(b), Tripped(b), TrippedForRenewal(b), Recovered(b), NewBreaker}
    \/ b.open = "live" /\ c = WindowOver(b)

LEMMA AfterIsStep ==
    ASSUME NEW l, After(lane[l].b, lane'[l].b)
    PROVE  [Brk(l)!Next]_(lane[l].b)
<1>1. CASE lane'[l].b = lane[l].b
  BY <1>1
<1>2. CASE lane'[l].b = Allowed(lane[l].b)
  <2>1. Brk(l)!Allow
    BY <1>2 DEF Brk!Allow, Brk!Allowed, Allowed
  <2> QED BY <2>1 DEF Brk!Next
<1>3. CASE lane'[l].b = Tripped(lane[l].b)
  <2>1. Brk(l)!Trip
    BY <1>3 DEF Brk!Trip, Brk!Tripped, Tripped, Brk!NextTrips, NextTrips,
                Brk!Geometric, Geometric, Brk!Wrap, Wrap
  <2> QED BY <2>1 DEF Brk!Next
<1>4. CASE lane'[l].b = TrippedForRenewal(lane[l].b)
  <2>1. Brk(l)!TripRenewal
    BY <1>4 DEF Brk!TripRenewal, Brk!TrippedForRenewal, TrippedForRenewal
  <2> QED BY <2>1 DEF Brk!Next
<1>5. CASE lane'[l].b = Recovered(lane[l].b)
  <2>1. Brk(l)!Record
    BY <1>5 DEF Brk!Record, Brk!Recovered, Recovered
  <2> QED BY <2>1 DEF Brk!Next
<1>6. CASE lane'[l].b = NewBreaker
  <2>1. Brk(l)!New
    BY <1>6 DEF Brk!New, Brk!NewBreaker, NewBreaker
  <2> QED BY <2>1 DEF Brk!Next
<1>7. CASE lane[l].b.open = "live" /\ lane'[l].b = WindowOver(lane[l].b)
  <2>1. Brk(l)!Elapse
    BY <1>7 DEF Brk!Elapse, Brk!WindowOver, WindowOver
  <2> QED BY <2>1 DEF Brk!Next
<1> QED BY <1>1, <1>2, <1>3, <1>4, <1>5, <1>6, <1>7 DEF After

(* A move is an operation of each lane's breaker, and leaves records. *)
LEMMA MoveIsAfter ==
    ASSUME AreLanes, Moves
    PROVE  AreLanes' /\ \A l \in Lanes : After(lane[l].b, lane'[l].b)
<1>0. PICK B : lane \in LanesOf(B)
  BY DEF AreLanes
<1>1. CASE lane' = lane
  BY <1>1 DEF After, AreLanes
<1>2. ASSUME NEW k, NEW x, Sets(k, x), After(lane[k].b, x)
      PROVE  AreLanes' /\ \A l \in Lanes : After(lane[l].b, lane'[l].b)
  <2>1. AreLanes' /\ \A l \in Lanes : lane'[l].b = IF l = k THEN x ELSE lane[l].b
    BY <1>2, BreakerSet
  <2>2. \A b : After(b, b)
    BY DEF After
  <2> QED BY <1>2, <2>1, <2>2
<1>3. ASSUME NEW k, lane' = Ask(k)
      PROVE  AreLanes' /\ \A l \in Lanes : After(lane[l].b, lane'[l].b)
  BY <1>2, <1>3 DEF Ask, After, Sets
<1>4. ASSUME NEW k, lane[k].b.open = "live", lane' = [lane EXCEPT ![k].b = WindowOver(@)]
      PROVE  AreLanes' /\ \A l \in Lanes : After(lane[l].b, lane'[l].b)
  BY <1>2, <1>4 DEF After, Sets
<1>5. ASSUME NEW k, NEW a, lane' = [lane EXCEPT ![k] = Returned(k, a)]
      PROVE  AreLanes' /\ \A l \in Lanes : After(lane[l].b, lane'[l].b)
  <2> DEFINE x == ClassifyErr(lane[k].b, a)
  <2>1. After(lane[k].b, x)
    BY DEF ClassifyErr, After
  <2>2. CASE k \in Lanes
    <3>1. lane[k] \in [b : B, refused : BOOLEAN]
      BY <1>0, <2>2 DEF LanesOf
    <3>2. Returned(k, a) \in [b : {x}, refused : BOOLEAN]
      BY <3>1 DEF Returned, IsRefusal
    <3> HIDE DEF x
    <3>3. AreLanes' /\ \A l \in Lanes : lane'[l].b = IF l = k THEN x ELSE lane[l].b
      <4>1. SetsLane(k, Returned(k, a))
        BY <1>5 DEF SetsLane
      <4> QED BY <3>2, <4>1, LaneSet
    <3>4. \A b : After(b, b)
      BY DEF After
    <3> QED BY <2>1, <3>3, <3>4
  <2>3. CASE k \notin Lanes
    <3>1. lane' = lane
      BY <1>0, <1>5, <2>3 DEF LanesOf
    <3> QED BY <1>1, <3>1
  <2> QED BY <2>2, <2>3
<1>6. CASE lane' = [l \in Lanes |-> NewLane]
  <2>1. lane' \in LanesOf({NewBreaker})
    BY <1>6 DEF LanesOf, NewLane
  <2>2. \A l \in Lanes : lane'[l].b = NewBreaker
    BY <1>6 DEF NewLane
  <2> QED BY <2>1, <2>2 DEF After, AreLanes
<1> QED BY <1>1, <1>3, <1>4, <1>5, <1>6 DEF Moves

-----------------------------------------------------------------------------
LEMMA LanesStart == Init => AreLanes
<1>1. Init => lane \in LanesOf({NewBreaker})
  BY DEF Init, LanesOf, NewLane
<1> QED BY <1>1 DEF AreLanes

(* Every lane's breaker, driven by ordered and parallel dispatches, word    *)
(* rechecks, the worker's gate, restarts and the late returns of cancelled  *)
(* calls, is a Breaker (Lane.FindLyrics, Breaker.Allow).                      *)
THEOREM LaneIsBreaker == ASSUME NEW l \in Lanes PROVE Spec => Brk(l)!Spec
<1>1. Init => Brk(l)!Init
  <2>1. Init => lane[l].b = NewBreaker
    BY DEF Init, NewLane
  <2> QED BY <2>1 DEF Brk!Init, Brk!NewBreaker, NewBreaker
<1>2. AreLanes /\ [Next]_vars => AreLanes' /\ [Brk(l)!Next]_(lane[l].b)
  BY EveryStepMoves, MoveIsAfter, AfterIsStep
<1> QED BY <1>1, <1>2, LanesStart, PTL DEF Spec, Brk!Spec

-----------------------------------------------------------------------------
(* A set window excludes a probe; trips stand only while a window is set or *)
(* a probe is out.                                                          *)
Recovering(b) ==
    /\ \E T, W : b \in [open : {"no", "live", "past"}, probing : BOOLEAN, trips : T, win : W]
    /\ b.probing => b.open = "no"
    /\ b.open = "no" /\ ~b.probing => b.trips = 0

LEMMA AfterRecovering ==
    ASSUME NEW b, NEW c, Recovering(b), After(b, c)
    PROVE  Recovering(c)
<1>0. PICK T, W : b \in [open : {"no", "live", "past"}, probing : BOOLEAN, trips : T, win : W]
  BY DEF Recovering
<1>1. CASE c = b
  BY <1>1
<1>2. CASE c = Allowed(b)
  BY <1>0, <1>2 DEF Allowed, Recovering
<1>3. CASE c = Tripped(b)
  <2> DEFINE t == NextTrips(b.trips)
             w == Geometric(t, Base, Cap)
  <2>1. c = [open |-> "live", probing |-> FALSE, trips |-> t, win |-> w]
    BY <1>3 DEF Tripped
  <2> HIDE DEF t, w
  <2>2. c \in [open : {"no", "live", "past"}, probing : BOOLEAN, trips : {t}, win : {w}]
    BY <2>1
  <2> QED BY <2>1, <2>2 DEF Recovering
<1>4. CASE c = TrippedForRenewal(b)
  <2>1. c \in [open : {"no", "live", "past"}, probing : BOOLEAN, trips : T, win : W \cup {Cap}]
    BY <1>0, <1>4 DEF TrippedForRenewal
  <2>2. c.open = "live" /\ c.probing = FALSE
    BY <1>0, <1>4 DEF TrippedForRenewal
  <2> QED BY <2>1, <2>2 DEF Recovering
<1>5. CASE c = Recovered(b)
  <2>1. c \in [open : {"no", "live", "past"}, probing : BOOLEAN, trips : T \cup {0}, win : W]
    BY <1>0, <1>5 DEF Recovered
  <2>2. c.trips = 0 /\ c.probing = FALSE
    BY <1>0, <1>5 DEF Recovered
  <2> QED BY <2>1, <2>2 DEF Recovering
<1>6. CASE c = NewBreaker
  <2>1. c \in [open : {"no", "live", "past"}, probing : BOOLEAN, trips : {0}, win : {0}]
    BY <1>6 DEF NewBreaker
  <2>2. c.trips = 0 /\ c.probing = FALSE
    BY <1>6 DEF NewBreaker
  <2> QED BY <2>1, <2>2 DEF Recovering
<1>7. CASE b.open = "live" /\ c = WindowOver(b)
  BY <1>0, <1>7 DEF WindowOver, Recovering
<1> QED BY <1>1, <1>2, <1>3, <1>4, <1>5, <1>6, <1>7 DEF After

(* No lane is let through at full rate while an outage's trips stand, so    *)
(* that the next trip of an unbroken outage opens a longer window           *)
(* (Breaker.Allow).                                                         *)
THEOREM LanesRecover == Spec => []LanesClosedMeansRecovered
<1> DEFINE Inv == AreLanes /\ \A l \in Lanes : Recovering(lane[l].b)
<1>1. Init => Inv
  <2>1. Init => \A l \in Lanes : lane[l].b = NewBreaker
    BY DEF Init, NewLane
  <2>2. NewBreaker \in [open : {"no", "live", "past"}, probing : BOOLEAN, trips : {0}, win : {0}]
    BY DEF NewBreaker
  <2>3. Recovering(NewBreaker)
    BY <2>2 DEF NewBreaker, Recovering
  <2> QED BY <2>1, <2>3, LanesStart
<1>2. Inv /\ [Next]_vars => Inv'
  BY EveryStepMoves, MoveIsAfter, AfterRecovering
<1>3. Inv => LanesClosedMeansRecovered
  BY DEF LanesClosedMeansRecovered, Recovering, Brk!ClosedMeansRecovered, Brk!AllowState
<1> QED BY <1>1, <1>2, <1>3, PTL DEF Spec

-----------------------------------------------------------------------------
(* The shape of a dispatch. *)
Maybe(S) == S \cup {"none"}
Cands == [lane : Maybe(Lanes), ans : Maybe(Answers)]
Results == [best : Cands, held : Cands, gated : Cands, top : Maybe(Answers),
            hollow : BOOLEAN, consulted : Int, asked : BOOLEAN, skipped : BOOLEAN,
            word : Int, answered : BOOLEAN, blocked : BOOLEAN, unbounded : BOOLEAN,
            untried : BOOLEAN, failed : Maybe(Answers), att : SUBSET Lanes]
Outs == [kind : {"none", "song", "refuseduntried", "err"}, lane : Maybe(Lanes),
         ans : Maybe(Answers) \cup {"ctx", "allblocked", "blockeduntried", "partial"},
         word : {"served", "absent", "unknown"}]
Dispatches == [phase : {"idle", "shut", "ordered", "pre", "race", "post", "done"},
               kind : {"main", "word"}, i : Int, r : Results,
               got : [Lanes -> Maybe(Answers)], held : Cands, out : Outs]

(* Every provider that did not answer is remembered until the end, and      *)
(* nothing refused is ever held or gated.                                   *)
Untried(a) == ClassifyOutcome(a) \in {"unavailable", "auth", "notready"}

Remembered(r, got) == \A l \in Lanes \ {Detector} : Untried(got[l]) => r.untried
Unrefused(r, held) == "refused" \notin {r.gated.ans, r.held.ans, held.ans}

RefusedInv ==
    /\ cfg \in Configs
    /\ d \in Dispatches
    /\ Dispatching => Remembered(d.r, d.got) /\ Unrefused(d.r, d.held)
    /\ RefusedOnlyWhenAllTried

LEMMA HeardKeeps ==
    ASSUME d.r \in Results, NEW l, NEW a \in Answers
    PROVE  /\ Heard(l, a) \in Results
           /\ Heard(l, a).held = d.r.held
           /\ Heard(l, a).gated = d.r.gated
           /\ Heard(l, a).untried = (d.r.untried \/ (l # Detector /\ Untried(a)))
           /\ Heard(l, a).word = d.r.word + (IF answersWord(l, a) THEN 1 ELSE 0)
<1> DEFINE n == noteUntried(d.r, l, a)
<1>1. /\ n \in Results
      /\ n.held = d.r.held
      /\ n.gated = d.r.gated
      /\ n.untried = (d.r.untried \/ (l # Detector /\ Untried(a)))
      /\ n.word = d.r.word
  <2> HIDE DEF Cands, Answers
  <2>1. CASE l = Detector
    BY <2>1 DEF noteUntried, Results
  <2>2. CASE l # Detector
    <3>1. n = [d.r EXCEPT !.answered = n.answered, !.skipped = n.skipped,
                          !.untried = n.untried, !.failed = n.failed]
      BY <2>2 DEF noteUntried, Results
    <3>2. /\ n.answered \in BOOLEAN
          /\ n.skipped \in BOOLEAN
          /\ n.untried = (d.r.untried \/ Untried(a))
          /\ n.failed \in Maybe(Answers)
      BY <2>2 DEF noteUntried, Results, Maybe, Untried
    <3>3. n.untried \in BOOLEAN
      BY <3>2 DEF Results
    <3> HIDE DEF n
    <3> QED BY <2>2, <3>1, <3>2, <3>3 DEF Results
  <2> QED BY <2>1, <2>2
<1> HIDE DEF n
<1>2. Heard(l, a) = [n EXCEPT !.word = @ + (IF answersWord(l, a) THEN 1 ELSE 0)]
  BY DEF Heard, n
<1> QED BY <1>1, <1>2 DEF Results

LEMMA ConsultKeeps ==
    ASSUME NEW r \in Results, NEW l \in Lanes
    PROVE  /\ consult(r, l) \in Results
           /\ consult(r, l).held = r.held
           /\ consult(r, l).gated = r.gated
           /\ consult(r, l).untried = r.untried
           /\ consult(r, l).word = r.word
<1> DEFINE q == consult(r, l)
<1>1. q = [r EXCEPT !.consulted = q.consulted, !.asked = q.asked, !.att = q.att]
  BY DEF consult, Results
<1>2. q.consulted \in Int /\ q.asked \in BOOLEAN /\ q.att = r.att \cup {l}
  BY DEF consult, Results
<1>3. q.att \in SUBSET Lanes
  BY <1>2 DEF Results
<1> HIDE DEF q
<1>4. /\ q \in Results
      /\ q.held = r.held /\ q.gated = r.gated /\ q.untried = r.untried
      /\ q.word = r.word
  BY <1>1, <1>2, <1>3 DEF Results
<1> QED BY <1>4 DEF q

LEMMA AbsorbedKeeps ==
    ASSUME NEW r \in Results, NEW l \in Lanes, NEW a \in Answers, NEW o \in BOOLEAN
    PROVE  /\ Absorbed(r, l, a, o) \in Results
           /\ Absorbed(r, l, a, o).held = r.held
           /\ Absorbed(r, l, a, o).gated = r.gated
           /\ Absorbed(r, l, a, o).untried = r.untried
           /\ Absorbed(r, l, a, o).word
                = r.word - (IF a = "blocked" /\ answersWord(l, a) THEN 1 ELSE 0)
<1> DEFINE Keeps(q) == /\ q \in Results
                       /\ q.held = r.held
                       /\ q.gated = r.gated
                       /\ q.untried = r.untried
<1>1. Keeps(r)
  OBVIOUS
<1>2. Keeps(Blocked(r, l, a))
  <2> DEFINE q == Blocked(r, l, a)
  <2>1. q = [r EXCEPT !.blocked = TRUE, !.att = q.att, !.word = q.word]
    BY DEF Blocked, Results
  <2>2. q.word \in Int /\ q.att = r.att \ {l}
    BY DEF Blocked, Results
  <2>3. q.att \in SUBSET Lanes
    BY <2>2 DEF Results
  <2> HIDE DEF q
  <2>4. Keeps(q)
    BY <2>1, <2>2, <2>3 DEF Results
  <2> QED BY <2>4 DEF q
<1>2a. Blocked(r, l, a).word = r.word - (IF answersWord(l, a) THEN 1 ELSE 0)
  BY DEF Blocked, Results
<1>3. Keeps(retainCandidate(r, l, a)) /\ retainCandidate(r, l, a).word = r.word
  <2>1. [lane |-> l, ans |-> a] \in Cands
    BY DEF Cands, Maybe
  <2> QED BY <2>1 DEF retainCandidate, Results
<1>4. ASSUME a \notin Songs
      PROVE  LET p == rankErr(noteTransport(r, a, o), a) IN Keeps(p) /\ p.word = r.word
  <2> DEFINE q == noteTransport(r, a, o)
  <2>1. Keeps(q) /\ q.word = r.word
    BY DEF noteTransport, Results
  <2> HIDE DEF q
  <2> DEFINE p == rankErr(q, a)
  <2>2. p = [q EXCEPT !.hollow = p.hollow, !.top = p.top]
    BY <2>1 DEF rankErr, Results
  <2>3. p.hollow \in BOOLEAN
    BY <2>1 DEF rankErr, Results
  <2>4. p.top \in Maybe(Answers)
    <3>1. q.top \in Maybe(Answers) /\ a \in Maybe(Answers) /\ "hollow" \in Maybe(Answers)
      BY <2>1 DEF Results, Maybe, Answers, Errors
    <3>2. p.top \in {q.top, a, "hollow"}
      BY <2>1 DEF rankErr, Results
    <3> QED BY <3>1, <3>2
  <2> HIDE DEF p
  <2>5. Keeps(p) /\ p.word = r.word
    BY <2>1, <2>2, <2>3, <2>4 DEF Results
  <2> QED BY <2>5 DEF p, q
<1>5. classifyCandidate(a) = "blocked" <=> a = "blocked"
  BY DEF classifyCandidate
<1>6. "blocked" \in Songs /\ r.word \in Int
  BY DEF Songs, Results
<1>7. CASE a \notin Songs
  BY <1>4, <1>6, <1>7 DEF Absorbed
<1>8. CASE a = "blocked"
  BY <1>2, <1>2a, <1>5, <1>6, <1>8 DEF Absorbed
<1>9. CASE a \in Songs /\ a # "blocked"
  BY <1>1, <1>3, <1>5, <1>6, <1>9 DEF Absorbed
<1> QED BY <1>7, <1>8, <1>9

(* The answers that count towards "no word timing". *)
Counts(l, a) == answersWord(l, a) /\ a # "blocked"

(* What an ordered dispatch that goes on makes of an answer. *)
LEMMA OrderedNextKeeps ==
    ASSUME d.r \in Results, NEW l \in Lanes, NEW a \in Answers, NEW o \in BOOLEAN
    PROVE  LET q == OrderedNext(l, a, o)
               c == [lane |-> l, ans |-> a]
           IN  /\ q \in Results
               /\ q.untried = (d.r.untried \/ (l # Detector /\ Untried(a)))
               /\ q.held = IF a = "demoted" /\ d.r.held = NoCand THEN c ELSE d.r.held
               /\ q.gated = IF /\ OrderedCommits(d.r, a)
                               /\ \/ d.r.gated = NoCand
                                  \/ landedQuality(a) > landedQuality(d.r.gated.ans)
                            THEN c ELSE d.r.gated
               /\ q.word = d.r.word + (IF Counts(l, a) THEN 1 ELSE 0)
<1> DEFINE h == Heard(l, a)
           c == consult(h, l)
           w == [lane |-> l, ans |-> a]
<1>1. /\ h \in Results /\ h.held = d.r.held /\ h.gated = d.r.gated
      /\ h.untried = (d.r.untried \/ (l # Detector /\ Untried(a)))
      /\ h.word = d.r.word + (IF answersWord(l, a) THEN 1 ELSE 0)
      /\ d.r.word \in Int
  BY HeardKeeps DEF Results
<1> HIDE DEF h
<1>2. /\ c \in Results /\ c.held = d.r.held /\ c.gated = d.r.gated
      /\ c.untried = h.untried /\ c.word = h.word
  BY <1>1, ConsultKeeps
<1> HIDE DEF c
<1>3. w \in Cands
  BY DEF Cands, Maybe
<1>4. OrderedCommits(h, a) = OrderedCommits(d.r, a)
  BY <1>1 DEF OrderedCommits
<1>5. CASE a = "unavailable"
  <2>1. OrderedNext(l, a, o) = h
    BY <1>5 DEF OrderedNext, h
  <2>2. ~OrderedCommits(d.r, a) /\ ~answersWord(l, a)
    BY <1>5 DEF OrderedCommits, Songs, answersWord
  <2> QED BY <1>1, <1>5, <2>1, <2>2 DEF Counts
<1>6. CASE a # "unavailable" /\ OrderedCommits(h, a)
  <2>1. a # "demoted" /\ a # "blocked"
    BY <1>6 DEF OrderedCommits, classifyCandidate
  <2>2. OrderedNext(l, a, o) = gate(c, l, a)
    BY <1>6, <2>1 DEF OrderedNext, h, c
  <2> HIDE DEF w
  <2>3. gate(c, l, a) = IF c.gated = NoCand \/ landedQuality(a) > landedQuality(c.gated.ans)
                        THEN [c EXCEPT !.gated = w] ELSE c
    BY DEF gate, w
  <2>4. /\ [c EXCEPT !.gated = w] \in Results
        /\ [c EXCEPT !.gated = w].gated = w
        /\ [c EXCEPT !.gated = w].held = c.held
        /\ [c EXCEPT !.gated = w].untried = c.untried
        /\ [c EXCEPT !.gated = w].word = c.word
    BY <1>2, <1>3 DEF Results
  <2> QED BY <1>1, <1>2, <1>4, <1>6, <2>1, <2>2, <2>3, <2>4 DEF w, Counts
<1>7. CASE a = "demoted"
  <2>1. ~OrderedCommits(h, a) /\ ~OrderedCommits(d.r, a)
    BY <1>7 DEF OrderedCommits, classifyCandidate
  <2>2. OrderedNext(l, a, o) = hold(c, l, a)
    BY <1>7, <2>1 DEF OrderedNext, h, c
  <2> HIDE DEF w
  <2>3. hold(c, l, a) = IF c.held = NoCand THEN [c EXCEPT !.held = w] ELSE c
    BY DEF hold, w
  <2>4. /\ [c EXCEPT !.held = w] \in Results
        /\ [c EXCEPT !.held = w].held = w
        /\ [c EXCEPT !.held = w].gated = c.gated
        /\ [c EXCEPT !.held = w].untried = c.untried
        /\ [c EXCEPT !.held = w].word = c.word
    BY <1>2, <1>3 DEF Results
  <2> QED BY <1>1, <1>2, <1>7, <2>1, <2>2, <2>3, <2>4 DEF w, Counts
<1>8. CASE a # "unavailable" /\ ~OrderedCommits(h, a) /\ a # "demoted"
  <2>1. OrderedNext(l, a, o) = Absorbed(c, l, a, o)
    BY <1>8 DEF OrderedNext, h, c
  <2>2. /\ Absorbed(c, l, a, o) \in Results
        /\ Absorbed(c, l, a, o).held = c.held
        /\ Absorbed(c, l, a, o).gated = c.gated
        /\ Absorbed(c, l, a, o).untried = c.untried
        /\ Absorbed(c, l, a, o).word
             = c.word - (IF a = "blocked" /\ answersWord(l, a) THEN 1 ELSE 0)
    BY <1>2, AbsorbedKeeps
  <2> QED BY <1>1, <1>2, <1>4, <1>8, <2>1, <2>2 DEF Counts
<1> QED BY <1>5, <1>6, <1>7, <1>8

(* What a dispatch that nobody won comes to: what it gated, held or kept. *)
LEMMA ResolveGives ==
    ASSUME NEW r \in Results
    PROVE  /\ resolve(r) \in Outs
           /\ resolve(r).kind = "song" =>
                \/ resolve(r).ans \in {r.gated.ans, r.held.ans}
                \/ resolve(r).ans = "refused" => ~r.untried
           /\ r.gated # NoCand /\ (r.held = NoCand \/ landedQuality(r.gated.ans) >= 2) =>
                resolve(r).kind = "song" /\ resolve(r).ans = r.gated.ans
           /\ ~(r.gated # NoCand /\ (r.held = NoCand \/ landedQuality(r.gated.ans) >= 2))
              /\ r.held # NoCand =>
                resolve(r).kind = "song" /\ resolve(r).ans = r.held.ans
<1>1. ASSUME NEW c \in Cands, NEW w \in {"served", "absent", "unknown"}
      PROVE  Song(c, w) \in Outs /\ Song(c, w).kind = "song" /\ Song(c, w).ans = c.ans
  BY <1>1 DEF Song, Outs, Cands
<1>2. \A a : WordAnswerOf(a) \in {"served", "absent", "unknown"}
  BY DEF WordAnswerOf
<1>3. ASSUME NEW a \in Maybe(Answers) \cup {"ctx", "allblocked", "blockeduntried", "partial"}
      PROVE  Err(a) \in Outs /\ Err(a).kind = "err"
  BY <1>3 DEF Err, NoOut, Outs, Maybe
<1>4. r.gated \in Cands /\ r.held \in Cands /\ r.best \in Cands
      /\ r.top \in Maybe(Answers) /\ r.failed \in Maybe(Answers)
  BY DEF Results
<1>5. "unavailable" \in Maybe(Answers)
  BY DEF Maybe, Answers, Errors
<1>6. CASE r.gated # NoCand /\ (r.held = NoCand \/ landedQuality(r.gated.ans) >= 2)
  BY <1>1, <1>2, <1>4, <1>6 DEF resolve
<1>7. CASE ~(r.gated # NoCand /\ (r.held = NoCand \/ landedQuality(r.gated.ans) >= 2))
  <2>1. CASE r.held # NoCand
    BY <1>1, <1>2, <1>4, <1>7, <2>1 DEF resolve
  <2>2. CASE r.held = NoCand /\ r.best # NoCand
    <3> DEFINE s == Song(r.best, WordAnswerOf(r.best.ans))
    <3>1. resolve(r) = [s EXCEPT !.kind = IF r.best.ans = "refused" /\ r.untried
                                         THEN "refuseduntried" ELSE "song"]
      BY <1>7, <2>2 DEF resolve
    <3>2. s \in Outs /\ s.ans = r.best.ans
      BY <1>1, <1>2, <1>4
    <3> HIDE DEF s
    <3>3. /\ resolve(r) \in Outs
          /\ resolve(r).ans = r.best.ans
          /\ resolve(r).kind = IF r.best.ans = "refused" /\ r.untried
                               THEN "refuseduntried" ELSE "song"
      BY <3>1, <3>2 DEF Outs
    <3> QED BY <1>7, <2>2, <3>3
  <2>3. CASE r.held = NoCand /\ r.best = NoCand
    <3>1. \E a \in Maybe(Answers) \cup {"ctx", "allblocked", "blockeduntried", "partial"} :
            resolve(r) = Err(a)
      BY <1>4, <1>5, <1>7, <2>3 DEF resolve
    <3> QED BY <1>3, <1>7, <2>3, <3>1
  <2> QED BY <2>1, <2>2, <2>3
<1> QED BY <1>6, <1>7

-----------------------------------------------------------------------------
(* A dispatch that ends, and one that goes on. *)
LEMMA DoneIs ==
    ASSUME d \in Dispatches, NEW r \in Results, NEW got \in [Lanes -> Maybe(Answers)],
           NEW out \in Outs, d' = Done(r, got, out)
    PROVE  /\ d' \in Dispatches
           /\ d'.phase = "done" /\ d'.r = r /\ d'.got = got /\ d'.out = out
<1> HIDE DEF Outs, Results
<1> QED BY DEF Done, Dispatches

LEMMA GotTyped ==
    ASSUME d \in Dispatches, NEW l, NEW a \in Answers
    PROVE  /\ [d.got EXCEPT ![l] = a] \in [Lanes -> Maybe(Answers)]
           /\ \A m \in Lanes : [d.got EXCEPT ![l] = a][m] = IF m = l THEN a ELSE d.got[m]
BY DEF Dispatches, Maybe

LEMMA AnswerTyped ==
    ASSUME WellConfigured, cfg \in Configs, NEW l \in Lanes, NEW c, NEW raw \in Possible(l, c)
    PROVE  LET a == AnswerOf(l, raw)
           IN  /\ a \in Answers
               /\ l # Detector => a \notin {"inst", "vocal", "notready", "outage", "unavailable"}
               /\ l = Detector => a \in {"inst", "vocal", "notready", "outage", "canceled"}
               /\ a \in Songs /\ l = Detector => a = "inst"
               /\ a = "canceled" => c
<1>1. (raw = "canceled" /\ c) \/ raw \in cfg.ans[l]
  BY DEF Possible
<1>2. CASE l = Detector
  <2>1. raw \in {"inst", "vocal", "notready", "outage"} \/ (raw = "canceled" /\ c)
    BY <1>1, <1>2 DEF WellConfigured
  <2> QED BY <1>2, <2>1 DEF AnswerOf, DetectorAnswer, Answers, Errors, Songs
<1>3. CASE l # Detector
  <2>1. \/ raw \in Answers \ {"inst", "vocal", "notready", "outage", "unavailable", "canceled"}
        \/ raw = "canceled" /\ c
    BY <1>1, <1>3 DEF WellConfigured
  <2> QED BY <1>3, <2>1 DEF AnswerOf, Answers, Errors
<1> QED BY <1>2, <1>3

LEMMA OrderedTakeRefused ==
    ASSUME RefusedInv, WellConfigured, UNCHANGED cfg, d.phase = "ordered",
           NEW l, NEW a \in Answers, l \in Lanes \/ a = "unavailable", OrderedTake(l, a)
    PROVE  RefusedInv'
<1> DEFINE got == [d.got EXCEPT ![l] = a]
           q == OrderedNext(l, a, LaneOpen(l))
<1>1. /\ got \in [Lanes -> Maybe(Answers)]
      /\ \A m \in Lanes : got[m] = IF m = l THEN a ELSE d.got[m]
  BY GotTyped DEF RefusedInv
<1>2. d \in Dispatches /\ d.r \in Results /\ d.i \in Int /\ d.held \in Cands
      /\ Remembered(d.r, d.got) /\ Unrefused(d.r, d.held)
  BY DEF RefusedInv, Dispatches, Dispatching
<1>3. LaneOpen(l) \in BOOLEAN
  BY DEF LaneOpen
<1>4. CASE OrderedCommits(d.r, a) /\ QualityOf(a) >= MinCommit
  <2>1. a \in Songs /\ a # "refused" /\ l \in Lanes
    BY <1>4 DEF OrderedCommits, classifyCandidate, Songs
  <2> DEFINE h == Heard(l, a)
             c == consult(h, l)
             out == Song([lane |-> l, ans |-> a], CommitWord(h.word, WordAnswerOf(a)))
  <2>2. d' = Done(c, got, out)
    BY <1>4 DEF OrderedTake
  <2>3. c \in Results
    BY <1>2, <2>1, HeardKeeps, ConsultKeeps
  <2>4. out \in Outs /\ out.ans = a
    <3>1. CommitWord(h.word, WordAnswerOf(a)) \in {"served", "absent", "unknown"}
      BY DEF CommitWord, ungatedWordAnswer, wordAnswerFor, WordAnswerOf
    <3> QED BY <2>1, <3>1 DEF Song, Outs, Maybe
  <2> HIDE DEF c, got, out
  <2>5. d' \in Dispatches /\ d'.phase = "done" /\ d'.out = out
    BY <1>1, <1>2, <2>2, <2>3, <2>4, DoneIs
  <2> QED BY <2>1, <2>4, <2>5 DEF RefusedInv, Dispatching, RefusedOnlyWhenAllTried
<1>5. CASE ~(OrderedCommits(d.r, a) /\ QualityOf(a) >= MinCommit)
  <2>1. d' = [d EXCEPT !.r = q, !.got = got, !.i = @ + 1]
    BY <1>5 DEF OrderedTake
  <2>2. /\ q \in Results
        /\ q.untried = (d.r.untried \/ (l # Detector /\ Untried(a)))
        /\ q.held.ans # "refused" /\ q.gated.ans # "refused"
    <3>1. CASE l \in Lanes
      <4> DEFINE c == [lane |-> l, ans |-> a]
      <4>1. /\ q \in Results
            /\ q.untried = (d.r.untried \/ (l # Detector /\ Untried(a)))
            /\ q.held = d.r.held \/ (a = "demoted" /\ q.held = c)
            /\ q.gated = d.r.gated \/ (OrderedCommits(d.r, a) /\ q.gated = c)
        BY <1>2, <1>3, <3>1, OrderedNextKeeps
      <4>2. c.ans = a /\ (OrderedCommits(d.r, a) => a # "refused")
        BY DEF OrderedCommits, classifyCandidate
      <4> HIDE DEF q, c
      <4> QED BY <1>2, <4>1, <4>2 DEF Unrefused
    <3>2. CASE a = "unavailable"
      <4>1. q = Heard(l, a)
        BY <3>2 DEF OrderedNext
      <4> QED BY <1>2, <4>1, HeardKeeps DEF Unrefused
    <3> QED BY <3>1, <3>2
  <2> HIDE DEF q, got
  <2>3. d' \in Dispatches /\ d'.phase = "ordered" /\ d'.r = q /\ d'.got = got
        /\ d'.held = d.held
    <3> HIDE DEF Results, Cands, Outs
    <3>1. d.i + 1 \in Int
      BY <1>2
    <3> QED BY <1>1, <1>2, <2>1, <2>2, <3>1 DEF Dispatches
  <2>4. Remembered(q, got)
    BY <1>1, <1>2, <2>2 DEF Remembered
  <2>5. Unrefused(q, d.held)
    BY <1>2, <2>2 DEF Unrefused
  <2> QED BY <2>3, <2>4, <2>5 DEF RefusedInv, Dispatching, RefusedOnlyWhenAllTried, Ended
<1> QED BY <1>4, <1>5

LEMMA FinishRefused ==
    ASSUME RefusedInv, WellConfigured, UNCHANGED cfg, NEW r \in Results,
           NEW got \in [Lanes -> Maybe(Answers)], NEW out \in Outs,
           Remembered(r, got), d' = Done(r, got, out),
           out.kind = "song" /\ out.ans = "refused" => ~r.untried
    PROVE  RefusedInv'
<1>1. d' \in Dispatches /\ d'.phase = "done" /\ d'.got = got /\ d'.out = out
  BY DoneIs DEF RefusedInv
<1>2. out.kind = "song" /\ out.ans = "refused" => \A l \in Range(Providers) : ~Untried(got[l])
  BY DEF Remembered, WellConfigured, Lanes
<1> QED BY <1>1, <1>2 DEF RefusedInv, Dispatching, RefusedOnlyWhenAllTried, Untried

(* The outcome of a dispatch nobody won, its word answer adjusted. *)
LEMMA ResolvedOut ==
    ASSUME NEW r \in Results, NEW w \in {"served", "absent", "unknown"}
    PROVE  LET o == [resolve(r) EXCEPT !.word = w]
           IN  o \in Outs /\ o.kind = resolve(r).kind /\ o.ans = resolve(r).ans
<1>1. resolve(r) \in Outs
  BY ResolveGives
<1> QED BY <1>1 DEF Outs

LEMMA WordTyped ==
    ASSUME NEW w \in {"served", "absent", "unknown"}, NEW n
    PROVE  ungatedWordAnswer(w, n) \in {"served", "absent", "unknown"}
BY DEF ungatedWordAnswer, wordAnswerFor

LEMMA FinishParallelRefused ==
    ASSUME RefusedInv, WellConfigured, UNCHANGED cfg, NEW r \in Results,
           NEW got \in [Lanes -> Maybe(Answers)], Remembered(r, got),
           "refused" \notin {r.gated.ans, r.held.ans}, d' = finishParallel(r, got)
    PROVE  RefusedInv'
<1> DEFINE w == ungatedWordAnswer(resolve(r).word, r.word)
           o == [resolve(r) EXCEPT !.word = w]
<1>1. resolve(r) \in Outs /\ resolve(r).word \in {"served", "absent", "unknown"}
  BY ResolveGives DEF Outs
<1>2. w \in {"served", "absent", "unknown"}
  BY <1>1, WordTyped
<1> HIDE DEF w
<1>3. o \in Outs /\ o.kind = resolve(r).kind /\ o.ans = resolve(r).ans
  BY <1>2, ResolvedOut
<1>4. d' = Done(r, got, o)
  BY DEF finishParallel, w
<1> HIDE DEF o
<1>5. o.kind = "song" /\ o.ans = "refused" => ~r.untried
  BY <1>3, ResolveGives
<1> QED BY <1>3, <1>4, <1>5, FinishRefused

LEMMA StagedTakeRefused ==
    ASSUME RefusedInv, WellConfigured, UNCHANGED cfg, d.phase \in {"pre", "post"},
           NEW a \in Answers, a \in Songs => a = "inst", StagedTake(a)
    PROVE  RefusedInv'
<1> DEFINE got == [d.got EXCEPT ![Detector] = a]
           h == Heard(Detector, a)
           r == IF a = "unavailable" THEN h
                ELSE Absorbed(consult(h, Detector), Detector, a, LaneOpen(Detector))
<1>1. /\ got \in [Lanes -> Maybe(Answers)]
      /\ \A m \in Lanes : got[m] = IF m = Detector THEN a ELSE d.got[m]
  BY GotTyped DEF RefusedInv
<1>2. d \in Dispatches /\ d.r \in Results /\ d.held \in Cands
      /\ Remembered(d.r, d.got) /\ Unrefused(d.r, d.held)
  BY DEF RefusedInv, Dispatches, Dispatching
<1>3. Detector \in Lanes
  BY DEF Lanes
<1>4. h \in Results /\ h.held = d.r.held /\ h.gated = d.r.gated /\ h.untried = d.r.untried
  BY <1>2, HeardKeeps DEF Results
<1>5. r \in Results /\ r.held = d.r.held /\ r.gated = d.r.gated /\ r.untried = d.r.untried
  <2> HIDE DEF h
  <2>1. LET c == consult(h, Detector)
        IN c \in Results /\ c.held = h.held /\ c.gated = h.gated /\ c.untried = h.untried
    BY <1>3, <1>4, ConsultKeeps
  <2>2. LaneOpen(Detector) \in BOOLEAN
    BY DEF LaneOpen
  <2> QED BY <1>3, <1>4, <2>1, <2>2, AbsorbedKeeps
<1>6. Remembered(r, got) /\ "refused" \notin {r.gated.ans, r.held.ans}
  BY <1>1, <1>2, <1>5 DEF Remembered, Unrefused
<1>7. StagedTake(a) =
        IF ctx THEN d' = Done(r, got, Err("ctx")) /\ call' = [l \in Lanes |-> "none"]
        ELSE IF a \in Songs /\ classifyCandidate(a) = "commit"
        THEN /\ d' = Done(r, got, Song([lane |-> Detector, ans |-> a], WordAnswerOf(a)))
             /\ call' = [l \in Lanes |-> "none"]
        ELSE IF d.phase = "pre"
        THEN /\ d' = [d EXCEPT !.phase = "race", !.r = r, !.got = got, !.i = r.consulted]
             /\ call' = Spawned
        ELSE d' = finishParallel(r, got) /\ call' = [l \in Lanes |-> "none"]
  BY DEF StagedTake
<1> HIDE DEF r, got, h
<1>8. CASE ctx
  <2>1. Err("ctx") \in Outs /\ Err("ctx").kind = "err"
    BY DEF Err, NoOut, Outs, Maybe
  <2> QED BY <1>1, <1>5, <1>6, <1>7, <1>8, <2>1, FinishRefused
<1>9. CASE ~ctx /\ a \in Songs /\ classifyCandidate(a) = "commit"
  <2> DEFINE out == Song([lane |-> Detector, ans |-> a], WordAnswerOf(a))
  <2>1. out \in Outs /\ out.ans = a
    BY <1>3 DEF Song, Outs, Maybe, WordAnswerOf
  <2>2. d' = Done(r, got, out)
    BY <1>7, <1>9
  <2> HIDE DEF out
  <2> QED BY <1>1, <1>5, <1>6, <1>9, <2>1, <2>2, FinishRefused
<1>10. CASE ~ctx /\ ~(a \in Songs /\ classifyCandidate(a) = "commit") /\ d.phase = "pre"
  <2>1. d' = [d EXCEPT !.phase = "race", !.r = r, !.got = got, !.i = r.consulted]
    BY <1>7, <1>10
  <2>2. r.consulted \in Int
    BY <1>5 DEF Results
  <2>3. /\ d' \in Dispatches /\ d'.phase = "race" /\ d'.r = r /\ d'.got = got
        /\ d'.held = d.held
    BY <1>1, <1>2, <1>5, <2>1, <2>2 DEF Dispatches
  <2> QED BY <1>2, <1>6, <2>3 DEF RefusedInv, Dispatching, RefusedOnlyWhenAllTried, Ended, Unrefused
<1>11. CASE ~ctx /\ ~(a \in Songs /\ classifyCandidate(a) = "commit") /\ d.phase # "pre"
  BY <1>1, <1>5, <1>6, <1>7, <1>11, FinishParallelRefused
<1> QED BY <1>8, <1>9, <1>10, <1>11

(* A held answer as the outcome of a race. *)
LEMMA HeldOut ==
    ASSUME NEW c \in Cands, NEW r
    PROVE  HeldSong(c, r) \in Outs /\ HeldSong(c, r).kind = "song" /\ HeldSong(c, r).ans = c.ans
<1>1. WordAnswerOf(c.ans) \in {"served", "absent", "unknown"}
  BY DEF WordAnswerOf
<1>2. ungatedWordAnswer(WordAnswerOf(c.ans), r.word) \in {"served", "absent", "unknown"}
  BY <1>1, WordTyped
<1> QED BY <1>2 DEF HeldSong, Song, Outs, Cands

LEMMA RaceTakeRefused ==
    ASSUME RefusedInv, WellConfigured, UNCHANGED cfg, d.phase = "race",
           NEW l \in Lanes, NEW a \in Answers, RaceTake(l, a)
    PROVE  RefusedInv'
<1> DEFINE pending == {m \in Lanes : call[m] # "none"} \ {l}
           got == [d.got EXCEPT ![l] = a]
           h == Heard(l, a)
           c == consult(h, l)
           holds == a \in Songs /\ classifyCandidate(a) \in {"commit", "hold"}
           held == IF holds /\ d.held = NoCand THEN [lane |-> l, ans |-> a] ELSE d.held
           r == IF a \in {"unavailable", "canceled"} THEN h
                ELSE Absorbed(c, l, a, LaneOpen(l))
           out == Song([lane |-> l, ans |-> a], ungatedWordAnswer(WordAnswerOf(a), c.word))
<1>1. /\ got \in [Lanes -> Maybe(Answers)]
      /\ \A m \in Lanes : got[m] = IF m = l THEN a ELSE d.got[m]
  BY GotTyped DEF RefusedInv
<1>2. d \in Dispatches /\ d.r \in Results /\ d.held \in Cands
      /\ Remembered(d.r, d.got) /\ Unrefused(d.r, d.held)
  BY DEF RefusedInv, Dispatches, Dispatching
<1>3. /\ h \in Results /\ h.held = d.r.held /\ h.gated = d.r.gated
      /\ h.untried = (d.r.untried \/ (l # Detector /\ Untried(a)))
  BY <1>2, HeardKeeps
<1>4. c \in Results /\ c.held = h.held /\ c.gated = h.gated /\ c.untried = h.untried
  <2> HIDE DEF h
  <2> QED BY <1>3, ConsultKeeps
<1>5. r \in Results /\ r.held = d.r.held /\ r.gated = d.r.gated /\ r.untried = h.untried
  <2> HIDE DEF h, c
  <2>1. LaneOpen(l) \in BOOLEAN
    BY DEF LaneOpen
  <2> QED BY <1>3, <1>4, <2>1, AbsorbedKeeps
<1>6. Remembered(r, got) /\ Remembered(c, got) /\ Unrefused(r, d.held)
  <2> HIDE DEF h, c, r, got
  <2> QED BY <1>1, <1>2, <1>3, <1>4, <1>5 DEF Remembered, Unrefused
<1>7. held \in Cands /\ held.ans # "refused"
  BY <1>2 DEF Unrefused, Cands, Maybe, classifyCandidate
<1>8. a \in Songs => out \in Outs /\ out.ans = a
  <2> DEFINE w == ungatedWordAnswer(WordAnswerOf(a), c.word)
  <2>1. w \in {"served", "absent", "unknown"}
    BY WordTyped DEF WordAnswerOf
  <2> HIDE DEF w
  <2> QED BY <2>1 DEF Song, Outs, Maybe, w
<1>9. IF a \in Songs /\ RaceCommits(a)
      THEN d' = Done(c, got, out)
      ELSE d' = IF pending = {} THEN EndRace(r, got, held)
                ELSE [d EXCEPT !.r = r, !.got = got, !.held = held]
  BY DEF RaceTake
<1> HIDE DEF pending, got, h, c, holds, held, r, out
<1>10. CASE a \in Songs /\ RaceCommits(a)
  <2>1. a # "refused"
    BY <1>10 DEF RaceCommits, classifyCandidate
  <2> QED BY <1>1, <1>4, <1>6, <1>8, <1>9, <1>10, <2>1, FinishRefused
<1>11. CASE ~(a \in Songs /\ RaceCommits(a)) /\ pending = {}
  <2>1. d' = EndRace(r, got, held)
    BY <1>9, <1>11
  <2>2. CASE ctx
    <3>1. Err("ctx") \in Outs /\ Err("ctx").kind = "err"
      BY DEF Err, NoOut, Outs, Maybe
    <3> QED BY <1>1, <1>5, <1>6, <2>1, <2>2, <3>1, FinishRefused DEF EndRace
  <2>3. CASE ~ctx /\ held # NoCand
    <3>1. d' = Done(r, got, HeldSong(held, r))
      BY <2>1, <2>3 DEF EndRace
    <3>2. HeldSong(held, r) \in Outs /\ HeldSong(held, r).ans # "refused"
      BY <1>7, HeldOut
    <3> QED BY <1>1, <1>5, <1>6, <3>1, <3>2, FinishRefused
  <2>4. CASE ~ctx /\ held = NoCand /\ cfg.det = "back" /\ r.consulted # d.i
    <3>1. d' = [d EXCEPT !.phase = "post", !.r = r, !.got = got]
      BY <2>1, <2>4 DEF EndRace
    <3>2. /\ d' \in Dispatches /\ d'.phase = "post" /\ d'.r = r /\ d'.got = got
          /\ d'.held = d.held
      BY <1>1, <1>2, <1>5, <3>1 DEF Dispatches
    <3> QED BY <1>6, <3>2 DEF RefusedInv, Dispatching, RefusedOnlyWhenAllTried, Ended
  <2>5. CASE ~ctx /\ held = NoCand /\ ~(cfg.det = "back" /\ r.consulted # d.i)
    <3>1. d' = finishParallel(r, got)
      BY <2>1, <2>5 DEF EndRace
    <3> QED BY <1>1, <1>5, <1>6, <3>1, FinishParallelRefused DEF Unrefused
  <2> QED BY <2>2, <2>3, <2>4, <2>5
<1>12. CASE ~(a \in Songs /\ RaceCommits(a)) /\ pending # {}
  <2>1. d' = [d EXCEPT !.r = r, !.got = got, !.held = held]
    BY <1>9, <1>12
  <2>2. /\ d' \in Dispatches /\ d'.phase = "race" /\ d'.r = r /\ d'.got = got
        /\ d'.held = held
    BY <1>1, <1>2, <1>5, <1>7, <2>1 DEF Dispatches
  <2> QED BY <1>6, <1>7, <2>2 DEF RefusedInv, Dispatching, RefusedOnlyWhenAllTried, Ended, Unrefused
<1> QED BY <1>10, <1>11, <1>12

LEMMA OrderedEndRefused ==
    ASSUME RefusedInv, WellConfigured, OrderedEnd
    PROVE  RefusedInv'
<1>1. d \in Dispatches /\ d.r \in Results /\ d.got \in [Lanes -> Maybe(Answers)]
      /\ Remembered(d.r, d.got) /\ Unrefused(d.r, d.held) /\ UNCHANGED cfg
  BY DEF RefusedInv, Dispatches, Dispatching, OrderedEnd, AtHead
<1>2. CASE d' = Done(d.r, d.got, Err("ctx"))
  <2>1. Err("ctx") \in Outs /\ Err("ctx").kind = "err"
    BY DEF Err, NoOut, Outs, Maybe
  <2> QED BY <1>1, <1>2, <2>1, FinishRefused
<1>3. CASE d' # Done(d.r, d.got, Err("ctx"))
  <2> DEFINE o == resolve(d.r)
             w == IF MinCommit > 0 THEN wordAnswerFor(d.r.word) ELSE o.word
             u == ungatedWordAnswer(w, d.r.word)
  <2>1. w \in {"served", "absent", "unknown"}
    BY <1>1, ResolveGives DEF Outs, wordAnswerFor
  <2>2. d' = Done(d.r, d.got, [resolve(d.r) EXCEPT !.word = u])
    BY <1>3 DEF OrderedEnd
  <2> HIDE DEF w
  <2>3. u \in {"served", "absent", "unknown"}
    BY <2>1, WordTyped
  <2> HIDE DEF u
  <2> DEFINE p == [resolve(d.r) EXCEPT !.word = u]
  <2>4. p \in Outs /\ p.kind = resolve(d.r).kind /\ p.ans = resolve(d.r).ans
    BY <1>1, <2>3, ResolvedOut
  <2>5. p.kind = "song" /\ p.ans = "refused" => ~d.r.untried
    <3> HIDE DEF p
    <3> QED BY <1>1, <2>4, ResolveGives DEF Unrefused
  <2> HIDE DEF p
  <2> QED BY <1>1, <2>2, <2>4, <2>5, FinishRefused DEF p
<1> QED BY <1>2, <1>3

(* A dispatch begins with nothing heard. *)
Place(p) == IF p = "ordered" THEN 1 ELSE 0
NewOf(k, p) == [phase |-> p, kind |-> k, i |-> Place(p), r |-> NewResult,
                got |-> [l \in Lanes |-> "none"], held |-> NoCand, out |-> NoOut]

(* The forms in which the actions write it. *)
LEMMA NewIsOne ==
    ASSUME NEW p, NEW k
    PROVE  /\ [NewDispatch EXCEPT !.kind = k, !.phase = p, !.i = Place(p)] = NewOf(k, p)
           /\ p # "ordered" => [NewDispatch EXCEPT !.phase = p] = NewOf("main", p)
           /\ NewDispatch = NewOf("main", "idle")
<1> DEFINE g == [l \in Lanes |-> "none"]
           N(j, q, i) == [phase |-> q, kind |-> j, i |-> i, r |-> NewResult,
                          got |-> g, held |-> NoCand, out |-> NoOut]
<1>1. NewDispatch = N("main", "idle", 0) /\ \A j, q : NewOf(j, q) = N(j, q, Place(q))
  BY DEF NewDispatch, NewOf
<1>2. Place("idle") = 0 /\ (p # "ordered" => Place(p) = 0)
  BY DEF Place
<1> HIDE DEF g, NewResult, NoCand, NoOut, Place
<1>3. [N("main", "idle", 0) EXCEPT !.phase = p] = N("main", p, 0)
  OBVIOUS
<1>4. [N("main", "idle", 0) EXCEPT !.kind = k] = N(k, "idle", 0)
  OBVIOUS
<1>5. [N(k, "idle", 0) EXCEPT !.phase = p] = N(k, p, 0)
  OBVIOUS
<1>6. [N(k, p, 0) EXCEPT !.i = Place(p)] = N(k, p, Place(p))
  OBVIOUS
<1>7. [N("main", "idle", 0) EXCEPT !.kind = k, !.phase = p, !.i = Place(p)]
      = [[[N("main", "idle", 0) EXCEPT !.kind = k] EXCEPT !.phase = p] EXCEPT !.i = Place(p)]
  <2> HIDE DEF N
  <2> QED OBVIOUS
<1> HIDE DEF N
<1> QED BY <1>1, <1>2, <1>3, <1>4, <1>5, <1>6, <1>7

(* FindLyrics begins one. *)
LEMMA BeginsNew ==
    ASSUME NEW k, FindLyrics(k)
    PROVE  d' = NewOf(k, Begins(k)) /\ Begins(k) \in {"ordered", "pre", "race"}
<1>1. d' = [NewDispatch EXCEPT !.kind = k, !.phase = Begins(k), !.i = Place(Begins(k))]
  BY DEF FindLyrics, Place
<1> QED BY <1>1, NewIsOne DEF Begins

LEMMA NewIsDispatch ==
    ASSUME NEW k \in {"main", "word"},
           NEW p \in {"idle", "shut", "ordered", "pre", "race", "post"}
    PROVE  LET n == NewOf(k, p)
           IN  /\ n \in Dispatches /\ n.phase = p /\ n.kind = k
               /\ NoCand = n.r.gated /\ NoCand = n.r.held /\ NoCand = n.held
               /\ n.i = Place(p) /\ n.r = NewResult
               /\ \A l \in Lanes : n.got[l] = "none"
<1>1. NoCand \in Cands
  BY DEF NoCand, Cands, Maybe
<1>2. NoOut \in Outs
  BY DEF NoOut, Outs, Maybe
<1>3. NewResult \in Results /\ NewResult.gated = NoCand /\ NewResult.held = NoCand
  <2> HIDE DEF NoCand
  <2> QED BY <1>1 DEF NewResult, Results, Maybe
<1> DEFINE g == [l \in Lanes |-> "none"]
           m == [phase |-> p, kind |-> k, i |-> Place(p), r |-> NewResult, got |-> g,
                 held |-> NoCand, out |-> NoOut]
<1>4. \A l \in Lanes : g[l] = "none"
  OBVIOUS
<1>5. g \in [Lanes -> Maybe(Answers)]
  BY DEF Maybe
<1>6. NewOf(k, p) = m
  BY DEF NewOf
<1>9. Place(p) \in Int
  BY DEF Place
<1> HIDE DEF g, NewResult, NoCand, NoOut, Place
<1>7. m \in Dispatches
  BY <1>1, <1>2, <1>3, <1>5, <1>9 DEF Dispatches
<1>8. /\ m.phase = p /\ m.kind = k /\ m.r = NewResult /\ m.held = NoCand /\ m.got = g
      /\ m.i = Place(p)
  OBVIOUS
<1> HIDE DEF m
<1> QED BY <1>3, <1>4, <1>6, <1>7, <1>8

LEMMA NewIsRefused ==
    ASSUME NEW k \in {"main", "word"},
           NEW p \in {"idle", "shut", "ordered", "pre", "race", "post"}
    PROVE  LET n == NewOf(k, p)
           IN  /\ n \in Dispatches /\ n.phase = p
               /\ Remembered(n.r, n.got) /\ Unrefused(n.r, n.held)
<1> DEFINE n == NewOf(k, p)
<1>1. ~Untried("none") /\ NoCand.ans # "refused"
  BY DEF Untried, ClassifyOutcome, Songs, NoCand
<1>2. /\ n \in Dispatches /\ n.phase = p
      /\ NoCand = n.r.gated /\ NoCand = n.r.held /\ NoCand = n.held
      /\ \A l \in Lanes : n.got[l] = "none"
  BY NewIsDispatch
<1> HIDE DEF n
<1>3. Remembered(n.r, n.got)
  BY <1>1, <1>2 DEF Remembered
<1>4. Unrefused(n.r, n.held)
  BY <1>1, <1>2 DEF Unrefused
<1> QED BY <1>2, <1>3, <1>4 DEF n

LEMMA RefusedStep == ASSUME RefusedInv, WellConfigured, [Next]_vars PROVE RefusedInv'
<1>1. CASE UNCHANGED <<cfg, d>>
  BY <1>1 DEF RefusedInv, Dispatching, RefusedOnlyWhenAllTried, Ended
<1>2. CASE GateShut
  <2>1. d' = NewOf("main", "shut") /\ UNCHANGED cfg
    BY <1>2, NewIsOne DEF GateShut
  <2> QED BY <2>1, NewIsRefused DEF RefusedInv, RefusedOnlyWhenAllTried, Ended
<1>3. ASSUME NEW k \in {"main", "word"}, FindLyrics(k) PROVE RefusedInv'
  <2> DEFINE p == Begins(k)
  <2>1. UNCHANGED cfg
    BY <1>3 DEF FindLyrics
  <2>2. d' = NewOf(k, p) /\ p \in {"ordered", "pre", "race"}
    BY <1>3, BeginsNew
  <2> HIDE DEF p
  <2>4. /\ d' \in Dispatches /\ d'.phase = p
        /\ Remembered(d'.r, d'.got) /\ Unrefused(d'.r, d'.held)
    BY <2>2, NewIsRefused
  <2>5. cfg' \in Configs /\ d'.phase # "done"
    BY <2>1, <2>2, <2>4 DEF RefusedInv
  <2> QED BY <2>4, <2>5 DEF RefusedInv, RefusedOnlyWhenAllTried, Ended
<1>4. CASE Restart
  <2>1. d' = NewOf("main", "idle")
    BY <1>4, NewIsOne DEF Restart, Fresh
  <2> QED BY <1>4, <2>1, NewIsRefused DEF Restart, RefusedInv, RefusedOnlyWhenAllTried, Ended
<1>5. CASE OrderedAsk
  <2>1. UNCHANGED cfg /\ d.phase = "ordered"
    BY <1>5 DEF OrderedAsk, AtHead
  <2>2. UNCHANGED d \/ \E l : OrderedTake(l, "unavailable")
    BY <1>5 DEF OrderedAsk
  <2>3. "unavailable" \in Answers
    BY DEF Answers, Errors
  <2> QED BY <1>1, <2>1, <2>2, <2>3, OrderedTakeRefused
<1>6. CASE OrderedSkip
  <2>1. d' = [d EXCEPT !.i = @ + 1] /\ UNCHANGED cfg
    BY <1>6 DEF OrderedSkip
  <2>2. /\ d' \in Dispatches /\ d'.phase = d.phase /\ d'.r = d.r /\ d'.got = d.got
        /\ d'.held = d.held /\ d'.out = d.out
    BY <2>1 DEF RefusedInv, Dispatches
  <2> QED BY <2>1, <2>2 DEF RefusedInv, Dispatching, RefusedOnlyWhenAllTried, Ended
<1>7. CASE OrderedEnd
  BY <1>7, OrderedEndRefused
<1>8. CASE StagedAsk
  <2>1. UNCHANGED cfg /\ d.phase \in {"pre", "post"}
    BY <1>8 DEF StagedAsk
  <2>2. UNCHANGED d \/ StagedTake("unavailable")
    BY <1>8 DEF StagedAsk
  <2>3. "unavailable" \in Answers /\ "unavailable" \notin Songs
    BY DEF Answers, Errors, Songs
  <2> QED BY <1>1, <2>1, <2>2, <2>3, StagedTakeRefused
<1>9. CASE StagedAnswer
  <2>1. PICK raw \in Possible(Detector, ctx) : StagedTake(AnswerOf(Detector, raw))
    BY <1>9 DEF StagedAnswer
  <2>2. /\ AnswerOf(Detector, raw) \in Answers
        /\ AnswerOf(Detector, raw) \in Songs => AnswerOf(Detector, raw) = "inst"
    BY AnswerTyped DEF RefusedInv, Lanes
  <2> QED BY <1>9, <2>1, <2>2, StagedTakeRefused DEF StagedAnswer
<1>10. CASE RaceGivesUp
  <2>1. d \in Dispatches /\ d.r \in Results /\ d.got \in [Lanes -> Maybe(Answers)]
        /\ d.held \in Cands /\ Remembered(d.r, d.got) /\ Unrefused(d.r, d.held)
        /\ UNCHANGED cfg
    BY <1>10 DEF RefusedInv, Dispatches, Dispatching, RaceGivesUp
  <2>2. CASE ctx
    <3>1. Err("ctx") \in Outs /\ Err("ctx").kind = "err"
      BY DEF Err, NoOut, Outs, Maybe
    <3> QED BY <1>10, <2>1, <2>2, <3>1, FinishRefused DEF RaceGivesUp
  <2>3. CASE ~ctx
    <3>1. d' = Done(d.r, d.got, HeldSong(d.held, d.r))
      BY <1>10, <2>3 DEF RaceGivesUp
    <3>2. HeldSong(d.held, d.r) \in Outs /\ HeldSong(d.held, d.r).ans # "refused"
      BY <2>1, HeldOut DEF Unrefused
    <3> QED BY <2>1, <3>1, <3>2, FinishRefused
  <2> QED BY <2>2, <2>3
<1>11. ASSUME NEW l \in Lanes, OrderedAnswer(l) PROVE RefusedInv'
  <2>1. PICK raw \in Possible(l, ctx) : OrderedTake(l, AnswerOf(l, raw))
    BY <1>11 DEF OrderedAnswer
  <2>2. AnswerOf(l, raw) \in Answers
    BY AnswerTyped DEF RefusedInv
  <2> QED BY <1>11, <2>1, <2>2, OrderedTakeRefused DEF OrderedAnswer
<1>12. ASSUME NEW l \in Lanes, RaceStart(l) PROVE RefusedInv'
  <2>1. "unavailable" \in Answers
    BY DEF Answers, Errors
  <2>2. UNCHANGED d \/ RaceTake(l, "unavailable")
    BY <1>12 DEF RaceStart
  <2> QED BY <1>1, <1>12, <2>1, <2>2, RaceTakeRefused DEF RaceStart
<1>13. ASSUME NEW l \in Lanes, RaceAnswer(l) PROVE RefusedInv'
  <2>1. PICK raw \in Possible(l, ctx) : RaceTake(l, AnswerOf(l, raw))
    BY <1>13 DEF RaceAnswer
  <2>2. AnswerOf(l, raw) \in Answers
    BY AnswerTyped DEF RefusedInv
  <2> QED BY <1>13, <2>1, <2>2, RaceTakeRefused DEF RaceAnswer
<1>14. ASSUME NEW l \in Lanes, StaleStart(l) \/ StaleReturn(l) \/ Elapse(l) PROVE RefusedInv'
  BY <1>1, <1>14 DEF StaleStart, StaleReturn, Elapse
<1>15. CASE Shutdown
  BY <1>1, <1>15 DEF Shutdown
<1>16. CASE UNCHANGED vars
  BY <1>1, <1>16 DEF vars
<1> QED BY <1>2, <1>3, <1>4, <1>5, <1>6, <1>7, <1>8, <1>9, <1>10, <1>11, <1>12, <1>13,
           <1>14, <1>15, <1>16 DEF Next, Step

(* A lyric refused for its timing settles a row only when no provider was   *)
(* left untried (resolve, noteUntried), whatever lanes, answers and modes.  *)
THEOREM LanesRefuseOnlyTried ==
    ASSUME WellConfigured PROVE Spec => []RefusedOnlyWhenAllTried
<1>1. Init => RefusedInv
  <2> SUFFICES ASSUME Init PROVE RefusedInv
    OBVIOUS
  <2>1. d = NewOf("main", "idle") /\ cfg \in Configs
    BY NewIsOne DEF Init
  <2> QED BY <2>1, NewIsRefused DEF RefusedInv, RefusedOnlyWhenAllTried, Ended, Dispatching
<1>2. RefusedInv /\ [Next]_vars => RefusedInv'
  BY RefusedStep
<1>3. RefusedInv => RefusedOnlyWhenAllTried
  BY DEF RefusedInv
<1> QED BY <1>1, <1>2, <1>3, PTL DEF Spec

-----------------------------------------------------------------------------
(* A usable answer is never lost.  An ordered dispatch keeps it, or a       *)
(* better one, gated (only a word recheck gates) or held (a demotable       *)
(* lyric, which lands unsynced); a race holds one that lands unsynced, and  *)
(* the detector is staged and holds nothing.                                *)
Lands(a, c) == c # NoCand /\ c.ans \in Songs /\ landedQuality(c.ans) >= landedQuality(a)
Kept(a) ==
    CASE d.phase = "ordered" -> Lands(a, d.r.gated) \/ Lands(a, d.r.held)
      [] d.phase = "race" -> Lands(a, d.held)
      [] OTHER -> FALSE

Ordering ==
    d.phase = "ordered" =>
       /\ d.r.held = NoCand \/ d.r.held.ans = "demoted"
       /\ d.r.gated = NoCand \/ Usable(d.r.gated.ans)
       /\ d.kind = "main" => d.r.gated = NoCand
Racing ==
    d.phase = "race" => /\ d.held = NoCand \/ d.held.ans \in {"plain", "demoted"}
                        /\ call[Detector] = "none"
Staging == d.phase \in {"pre", "post"} => d.held = NoCand

BestInv ==
    /\ cfg \in Configs
    /\ d \in Dispatches
    /\ call \in [Lanes -> {"none", "spawned", "out"}]
    /\ Dispatching => \A l \in Lanes : Usable(d.got[l]) => Kept(d.got[l])
    /\ Ordering /\ Racing /\ Staging
    /\ BestReceivedWins

LEMMA Landing ==
    ASSUME NEW a
    PROVE  /\ landedQuality(a) \in 0..4
           /\ Usable(a) <=> a \in {"word", "line", "plain", "flagged", "inst", "demoted"}
           /\ QualityOf(a) >= 4 => a = "word"
           /\ a \in Songs /\ classifyCandidate(a) = "commit"
                 => a \in {"word", "line", "plain", "flagged", "inst"}
           /\ a = "word" => landedQuality(a) = 4
           /\ a = "line" => landedQuality(a) = 3
           /\ a \in {"plain", "demoted"} => landedQuality(a) = 2
           /\ a \in {"flagged", "inst"} => landedQuality(a) = 1
           /\ a \in {"word", "line", "flagged"} => QualityOf(a) >= 3
           /\ a \in {"plain", "inst"} => ~(QualityOf(a) >= 3)
           /\ QualityOf(a) >= 0
BY DEF landedQuality, retainQuality, QualityOf, Usable, classifyCandidate, Songs

(* The outcome of a dispatch, judged by what it received. *)
Best(got, out) ==
    out.ans # "ctx" => \A l \in Lanes : Usable(got[l]) =>
        out.kind = "song" /\ landedQuality(out.ans) >= landedQuality(got[l])

LEMMA FinishBest ==
    ASSUME BestInv, UNCHANGED cfg, NEW r \in Results, NEW got \in [Lanes -> Maybe(Answers)],
           NEW out \in Outs, Best(got, out), d' = Done(r, got, out),
           call' \in [Lanes -> {"none", "spawned", "out"}]
    PROVE  BestInv'
<1>1. d' \in Dispatches /\ d'.phase = "done" /\ d'.got = got /\ d'.out = out
  BY DoneIs DEF BestInv
<1>2. BestReceivedWins'
  BY <1>1 DEF BestReceivedWins, Best, Ended
<1> QED BY <1>1, <1>2 DEF BestInv, Dispatching, Ordering, Racing, Staging

LEMMA CtxIsBest ==
    ASSUME NEW got
    PROVE  Err("ctx") \in Outs /\ Best(got, Err("ctx"))
BY DEF Err, NoOut, Outs, Maybe, Best

LEMMA OrderedTakeBest ==
    ASSUME BestInv, UNCHANGED cfg, d.phase = "ordered",
           NEW l, NEW a \in Answers, l \in Lanes \/ a = "unavailable", OrderedTake(l, a),
           call' \in [Lanes -> {"none", "spawned", "out"}]
    PROVE  BestInv'
<1> DEFINE got == [d.got EXCEPT ![l] = a]
           q == OrderedNext(l, a, LaneOpen(l))
           c == [lane |-> l, ans |-> a]
<1>1. /\ got \in [Lanes -> Maybe(Answers)]
      /\ \A m \in Lanes : got[m] = IF m = l THEN a ELSE d.got[m]
  BY GotTyped DEF BestInv
<1>2. d \in Dispatches /\ d.r \in Results /\ d.i \in Int /\ d.kind \in {"main", "word"}
      /\ Ordering
      /\ \A m \in Lanes : Usable(d.got[m]) =>
            Lands(d.got[m], d.r.gated) \/ Lands(d.got[m], d.r.held)
  BY DEF BestInv, Dispatches, Dispatching, Kept
<1>3. LaneOpen(l) \in BOOLEAN
  BY DEF LaneOpen
<1>4. MinCommit = IF d.kind = "word" THEN 4 ELSE 0
  BY DEF MinCommit
<1>5. CASE OrderedCommits(d.r, a) /\ QualityOf(a) >= MinCommit
  <2>1. /\ a \in Songs /\ l \in Lanes /\ Usable(a)
        /\ d.r.held = NoCand \/ landedQuality(a) > 2
        /\ d.kind = "word" => a = "word"
    <3>1. a \in Songs /\ classifyCandidate(a) = "commit"
      BY <1>5 DEF OrderedCommits
    <3>2. Usable(a)
      BY <3>1, Landing
    <3> QED BY <1>4, <1>5, <3>1, <3>2, Landing DEF OrderedCommits, Songs
  <2> DEFINE h == Heard(l, a)
             b == consult(h, l)
             out == Song(c, CommitWord(h.word, WordAnswerOf(a)))
  <2>2. d' = Done(b, got, out)
    BY <1>5 DEF OrderedTake
  <2>3. b \in Results
    BY <1>2, <2>1, HeardKeeps, ConsultKeeps
  <2>4. out \in Outs /\ out.ans = a /\ out.kind = "song"
    <3>1. CommitWord(h.word, WordAnswerOf(a)) \in {"served", "absent", "unknown"}
      BY DEF CommitWord, ungatedWordAnswer, wordAnswerFor, WordAnswerOf
    <3> QED BY <2>1, <3>1 DEF Song, Outs, Maybe
  <2>5. ASSUME NEW m \in Lanes, Usable(got[m])
        PROVE  landedQuality(a) >= landedQuality(got[m])
    <3>1. CASE m = l
      BY <1>1, <3>1, Landing
    <3>2. CASE m # l /\ Lands(d.got[m], d.r.gated)
      <4>1. d.kind = "word"
        BY <1>2, <3>2 DEF Ordering, Lands
      <4>2. landedQuality(a) = 4 /\ landedQuality(got[m]) \in 0..4
        BY <2>1, <4>1, Landing
      <4> QED BY <4>2
    <3>3. CASE m # l /\ Lands(d.got[m], d.r.held)
      <4>1. landedQuality(d.r.held.ans) = 2 /\ landedQuality(a) > 2
        BY <1>2, <2>1, <3>3, Landing DEF Ordering, Lands
      <4>2. landedQuality(got[m]) \in 0..4 /\ landedQuality(a) \in 0..4
        BY Landing
      <4> QED BY <1>1, <3>3, <4>1, <4>2 DEF Lands
    <3> QED BY <1>1, <1>2, <2>5, <3>1, <3>2, <3>3
  <2> HIDE DEF b, got, out
  <2>6. Best(got, out)
    BY <2>4, <2>5 DEF Best
  <2> QED BY <1>1, <2>2, <2>3, <2>4, <2>6, FinishBest
<1>6. CASE ~(OrderedCommits(d.r, a) /\ QualityOf(a) >= MinCommit)
  <2>1. d' = [d EXCEPT !.r = q, !.got = got, !.i = @ + 1]
    BY <1>6 DEF OrderedTake
  <2>2. /\ q \in Results
        /\ q.held = IF a = "demoted" /\ d.r.held = NoCand THEN c ELSE d.r.held
        /\ q.gated = IF /\ OrderedCommits(d.r, a)
                        /\ \/ d.r.gated = NoCand
                           \/ landedQuality(a) > landedQuality(d.r.gated.ans)
                     THEN c ELSE d.r.gated
    <3>1. CASE l \in Lanes
      BY <1>2, <1>3, <3>1, OrderedNextKeeps
    <3>2. CASE a = "unavailable"
      <4>1. q = Heard(l, a)
        BY <3>2 DEF OrderedNext
      <4>2. ~OrderedCommits(d.r, a)
        BY <3>2 DEF OrderedCommits, Songs
      <4> QED BY <1>2, <3>2, <4>1, <4>2, HeardKeeps
    <3> QED BY <3>1, <3>2
  <2>3. c.ans = a /\ c # NoCand
    BY DEF NoCand, Answers, Songs, Errors
  <2>4. OrderedCommits(d.r, a) => Usable(a) /\ a # "demoted" /\ a \in Songs
    BY Landing DEF OrderedCommits, Usable, classifyCandidate
  <2>5. d.kind = "main" => ~OrderedCommits(d.r, a)
    BY <1>4, <1>6, Landing
  <2>6. a \in Songs /\ Usable(a) /\ ~OrderedCommits(d.r, a) =>
          a = "demoted" \/ (d.r.held # NoCand /\ landedQuality(a) <= 2)
    <3>1. landedQuality(a) \in 0..4
      BY Landing
    <3> QED BY <3>1 DEF OrderedCommits, Usable, classifyCandidate, Songs
  <2>7. Usable(a) => a \in Songs
    BY DEF Usable
  <2> HIDE DEF q, got, c
  <2>8. d' \in Dispatches /\ d'.phase = "ordered" /\ d'.r = q /\ d'.got = got
        /\ d'.kind = d.kind
    <3> HIDE DEF Results, Cands, Outs
    <3>1. d.i + 1 \in Int
      BY <1>2
    <3> QED BY <1>1, <1>2, <2>1, <2>2, <3>1 DEF Dispatches
  <2>9. Ordering'
    BY <1>2, <2>2, <2>3, <2>4, <2>5, <2>8 DEF Ordering
  <2>10. ASSUME NEW m \in Lanes, Usable(got[m])
         PROVE  Lands(got[m], q.gated) \/ Lands(got[m], q.held)
    <3>0. /\ landedQuality(a) \in 0..4 /\ landedQuality(got[m]) \in 0..4
          /\ landedQuality(d.r.gated.ans) \in 0..4 /\ landedQuality(d.r.held.ans) \in 0..4
          /\ landedQuality("demoted") = 2
      BY Landing
    <3>1. CASE m = l /\ OrderedCommits(d.r, a)
      <4>1. d.r.gated # NoCand => d.r.gated.ans \in Songs
        BY <1>2 DEF Ordering, Usable
      <4> QED BY <1>1, <2>2, <2>3, <2>4, <3>0, <3>1, <4>1 DEF Lands
    <3>2. CASE m = l /\ ~OrderedCommits(d.r, a)
      <4>1. "demoted" \in Songs
        BY DEF Songs
      <4>2. a = "demoted" \/ (d.r.held # NoCand /\ landedQuality(a) <= 2)
        BY <1>1, <2>6, <2>7, <2>10, <3>2
      <4>3. q.held # NoCand /\ q.held.ans = "demoted"
        BY <1>2, <2>2, <2>3, <4>2 DEF Ordering
      <4> QED BY <1>1, <3>0, <3>2, <4>1, <4>2, <4>3 DEF Lands
    <3>3. CASE m # l
      <4>1. got[m] = d.got[m]
        BY <1>1, <3>3
      <4>2. CASE Lands(got[m], d.r.gated)
        BY <2>2, <2>3, <2>4, <3>0, <4>2 DEF Lands
      <4>3. CASE Lands(got[m], d.r.held)
        BY <2>2, <4>3 DEF Lands
      <4> QED BY <1>2, <2>10, <4>1, <4>2, <4>3
    <3> QED BY <3>1, <3>2, <3>3
  <2>11. (\A m \in Lanes : Usable(d.got[m]) => Kept(d.got[m]))'
    BY <2>8, <2>10 DEF Kept, Lands
  <2> QED BY <2>8, <2>9, <2>11 DEF BestInv, Dispatching, Racing, Staging, BestReceivedWins, Ended
<1> QED BY <1>5, <1>6

LEMMA FinishParallelBest ==
    ASSUME BestInv, UNCHANGED cfg, NEW r \in Results, NEW got \in [Lanes -> Maybe(Answers)],
           \A m \in Lanes : ~Usable(got[m]), d' = finishParallel(r, got),
           call' \in [Lanes -> {"none", "spawned", "out"}]
    PROVE  BestInv'
<1> DEFINE w == ungatedWordAnswer(resolve(r).word, r.word)
           o == [resolve(r) EXCEPT !.word = w]
<1>1. resolve(r).word \in {"served", "absent", "unknown"}
  BY ResolveGives DEF Outs
<1>2. w \in {"served", "absent", "unknown"}
  BY <1>1, WordTyped
<1>3. d' = Done(r, got, o)
  BY DEF finishParallel
<1> HIDE DEF w
<1>4. o \in Outs
  BY <1>2, ResolvedOut
<1>5. Best(got, o)
  BY DEF Best
<1> HIDE DEF o
<1> QED BY <1>3, <1>4, <1>5, FinishBest

LEMMA StagedTakeBest ==
    ASSUME BestInv, UNCHANGED cfg, d.phase \in {"pre", "post"},
           NEW a \in Answers, a \in Songs => a = "inst", StagedTake(a)
    PROVE  BestInv'
<1> DEFINE got == [d.got EXCEPT ![Detector] = a]
           h == Heard(Detector, a)
           r == IF a = "unavailable" THEN h
                ELSE Absorbed(consult(h, Detector), Detector, a, LaneOpen(Detector))
<1>1. /\ got \in [Lanes -> Maybe(Answers)]
      /\ \A m \in Lanes : got[m] = IF m = Detector THEN a ELSE d.got[m]
  BY GotTyped DEF BestInv
<1>2. d \in Dispatches /\ d.r \in Results /\ d.held = NoCand
      /\ \A m \in Lanes : ~Usable(d.got[m])
  BY DEF BestInv, Dispatches, Dispatching, Kept, Staging
<1>3. Detector \in Lanes
  BY DEF Lanes
<1>4. h \in Results
  BY <1>2, HeardKeeps
<1>5. r \in Results
  <2> HIDE DEF h
  <2>1. consult(h, Detector) \in Results
    BY <1>3, <1>4, ConsultKeeps
  <2>2. LaneOpen(Detector) \in BOOLEAN
    BY DEF LaneOpen
  <2> QED BY <1>3, <1>4, <2>1, <2>2, AbsorbedKeeps
<1>6. StagedTake(a) =
        IF ctx THEN d' = Done(r, got, Err("ctx")) /\ call' = [l \in Lanes |-> "none"]
        ELSE IF a \in Songs /\ classifyCandidate(a) = "commit"
        THEN /\ d' = Done(r, got, Song([lane |-> Detector, ans |-> a], WordAnswerOf(a)))
             /\ call' = [l \in Lanes |-> "none"]
        ELSE IF d.phase = "pre"
        THEN /\ d' = [d EXCEPT !.phase = "race", !.r = r, !.got = got, !.i = r.consulted]
             /\ call' = Spawned
        ELSE d' = finishParallel(r, got) /\ call' = [l \in Lanes |-> "none"]
  BY DEF StagedTake
<1>7. Usable(a) => a = "inst" /\ classifyCandidate(a) = "commit" /\ a \in Songs
  BY DEF Usable, classifyCandidate
<1> HIDE DEF r, got, h
<1>8. call' = [l \in Lanes |-> "none"] => call' \in [Lanes -> {"none", "spawned", "out"}]
  OBVIOUS
<1>9. CASE ctx
  BY <1>1, <1>5, <1>6, <1>8, <1>9, CtxIsBest, FinishBest
<1>10. CASE ~ctx /\ a \in Songs /\ classifyCandidate(a) = "commit"
  <2> DEFINE out == Song([lane |-> Detector, ans |-> a], WordAnswerOf(a))
  <2>1. out \in Outs /\ out.ans = a /\ out.kind = "song"
    BY <1>3 DEF Song, Outs, Maybe, WordAnswerOf
  <2>2. d' = Done(r, got, out)
    BY <1>6, <1>10
  <2> HIDE DEF out
  <2>3. Best(got, out)
    BY <1>1, <1>2, <2>1, Landing DEF Best
  <2> QED BY <1>1, <1>5, <1>6, <1>8, <1>10, <2>1, <2>2, <2>3, FinishBest
<1>11. CASE ~ctx /\ ~(a \in Songs /\ classifyCandidate(a) = "commit") /\ d.phase = "pre"
  <2>1. d' = [d EXCEPT !.phase = "race", !.r = r, !.got = got, !.i = r.consulted]
        /\ call' = Spawned
    BY <1>6, <1>11
  <2>2. r.consulted \in Int
    BY <1>5 DEF Results
  <2>3. /\ d' \in Dispatches /\ d'.phase = "race" /\ d'.got = got /\ d'.held = d.held
    BY <1>1, <1>2, <1>5, <2>1, <2>2 DEF Dispatches
  <2>4. \A m \in Lanes : ~Usable(got[m])
    BY <1>1, <1>2, <1>7, <1>11
  <2>5. call' \in [Lanes -> {"none", "spawned", "out"}] /\ call'[Detector] = "none"
    BY <1>3, <2>1 DEF Spawned
  <2>6. (\A m \in Lanes : Usable(d.got[m]) => Kept(d.got[m]))'
    BY <2>3, <2>4
  <2>7. Racing' /\ Staging' /\ Ordering'
    BY <1>2, <2>3, <2>5 DEF Racing, Staging, Ordering
  <2> QED BY <2>3, <2>5, <2>6, <2>7 DEF BestInv, Dispatching, BestReceivedWins, Ended
<1>12. CASE ~ctx /\ ~(a \in Songs /\ classifyCandidate(a) = "commit") /\ d.phase # "pre"
  <2>1. \A m \in Lanes : ~Usable(got[m])
    BY <1>1, <1>2, <1>7, <1>12
  <2> QED BY <1>1, <1>5, <1>6, <1>8, <1>12, <2>1, FinishParallelBest
<1> QED BY <1>9, <1>10, <1>11, <1>12

LEMMA RaceTakeBest ==
    ASSUME BestInv, UNCHANGED cfg, d.phase = "race",
           NEW l \in Lanes, call[l] # "none", NEW a \in Answers, a # "inst", RaceTake(l, a)
    PROVE  BestInv'
<1> DEFINE pending == {m \in Lanes : call[m] # "none"} \ {l}
           got == [d.got EXCEPT ![l] = a]
           h == Heard(l, a)
           c == consult(h, l)
           w == [lane |-> l, ans |-> a]
           holds == a \in Songs /\ classifyCandidate(a) \in {"commit", "hold"}
           held == IF holds /\ d.held = NoCand THEN w ELSE d.held
           r == IF a \in {"unavailable", "canceled"} THEN h
                ELSE Absorbed(c, l, a, LaneOpen(l))
           out == Song(w, ungatedWordAnswer(WordAnswerOf(a), c.word))
<1>1. /\ got \in [Lanes -> Maybe(Answers)]
      /\ \A m \in Lanes : got[m] = IF m = l THEN a ELSE d.got[m]
  BY GotTyped DEF BestInv
<1>2. /\ d \in Dispatches /\ d.r \in Results /\ d.held \in Cands
      /\ d.held = NoCand \/ d.held.ans \in {"plain", "demoted"}
      /\ call[Detector] = "none" /\ call \in [Lanes -> {"none", "spawned", "out"}]
      /\ \A m \in Lanes : Usable(d.got[m]) => Lands(d.got[m], d.held)
  BY DEF BestInv, Dispatches, Dispatching, Kept, Racing
<1>3. l # Detector /\ Detector \in Lanes
  BY <1>2 DEF Lanes
<1>4. h \in Results
  BY <1>2, HeardKeeps
<1>5. c \in Results
  <2> HIDE DEF h
  <2> QED BY <1>4, ConsultKeeps
<1>6. r \in Results
  <2> HIDE DEF h, c
  <2>1. LaneOpen(l) \in BOOLEAN
    BY DEF LaneOpen
  <2> QED BY <1>4, <1>5, <2>1, AbsorbedKeeps
<1>7. a \in Songs => out \in Outs /\ out.ans = a /\ out.kind = "song"
  <2> DEFINE v == ungatedWordAnswer(WordAnswerOf(a), c.word)
  <2>1. v \in {"served", "absent", "unknown"}
    BY WordTyped DEF WordAnswerOf
  <2> HIDE DEF v
  <2> QED BY <2>1 DEF Song, Outs, Maybe, v
<1>8. /\ IF a \in Songs /\ RaceCommits(a)
         THEN d' = Done(c, got, out)
         ELSE d' = IF pending = {} THEN EndRace(r, got, held)
                   ELSE [d EXCEPT !.r = r, !.got = got, !.held = held]
      /\ \/ call' = [m \in Lanes |-> "none"]
         \/ call' = [call EXCEPT ![l] = "none"]
  BY DEF RaceTake, Abandon
<1>9. call' \in [Lanes -> {"none", "spawned", "out"}] /\ call'[Detector] = "none"
  BY <1>2, <1>3, <1>8
<1>10. w.ans = a /\ w # NoCand /\ w \in Cands
  BY DEF NoCand, Answers, Songs, Errors, Cands, Maybe
<1>11. holds = Usable(a)
  BY DEF Usable
<1>12. ~(a \in Songs /\ RaceCommits(a)) =>
          /\ held \in Cands
          /\ held = NoCand \/ held.ans \in {"plain", "demoted"}
          /\ Usable(a) => held # NoCand /\ landedQuality(a) <= 2
  <2> SUFFICES ASSUME ~(a \in Songs /\ RaceCommits(a)) PROVE
          /\ held \in Cands
          /\ held = NoCand \/ held.ans \in {"plain", "demoted"}
          /\ Usable(a) => held # NoCand /\ landedQuality(a) <= 2
    OBVIOUS
  <2>1. landedQuality(a) \in 0..4
    BY Landing
  <2>2. CASE ~Usable(a)
    BY <1>2, <1>11, <2>2
  <2>3. CASE Usable(a) /\ d.held = NoCand
    <3>1. a \in {"plain", "demoted"}
      BY <2>3, Landing DEF RaceCommits, classifyCandidate, Songs
    <3>2. landedQuality(a) = 2
      BY <3>1, Landing
    <3>3. held = w
      BY <1>11, <2>3
    <3> HIDE DEF held, w
    <3> QED BY <1>10, <3>1, <3>2, <3>3
  <2>4. CASE Usable(a) /\ d.held # NoCand
    <3>1. landedQuality(a) <= 2
      BY <2>1, <2>4, Landing DEF RaceCommits, classifyCandidate, Songs
    <3> QED BY <1>2, <2>4, <3>1
  <2> QED BY <2>2, <2>3, <2>4
<1> HIDE DEF pending, got, h, c, w, holds, held, r, out
<1>13. ~(a \in Songs /\ RaceCommits(a)) =>
          \A m \in Lanes : Usable(got[m]) => Lands(got[m], held)
  <2> SUFFICES ASSUME ~(a \in Songs /\ RaceCommits(a)), NEW m \in Lanes, Usable(got[m])
               PROVE  Lands(got[m], held)
    OBVIOUS
  <2>0. landedQuality("plain") = 2 /\ landedQuality("demoted") = 2
        /\ "plain" \in Songs /\ "demoted" \in Songs
    BY Landing DEF Songs
  <2>1. CASE m = l
    BY <1>1, <1>12, <2>0, <2>1 DEF Lands
  <2>2. CASE m # l
    <3>1. Lands(got[m], d.held)
      BY <1>1, <1>2, <2>2
    <3>2. held = d.held
      BY <3>1 DEF Lands, held
    <3> QED BY <3>1, <3>2
  <2> QED BY <2>1, <2>2
<1>14. CASE a \in Songs /\ RaceCommits(a)
  <2>1. ASSUME NEW m \in Lanes, Usable(got[m])
        PROVE  landedQuality(a) >= landedQuality(got[m])
    <3>0. landedQuality(a) \in 0..4 /\ landedQuality("plain") = 2 /\ landedQuality("demoted") = 2
          /\ landedQuality(got[m]) \in 0..4
      BY Landing
    <3>1. CASE m = l
      BY <1>1, <3>0, <3>1
    <3>2. CASE m # l
      <4>1. Lands(got[m], d.held)
        BY <1>1, <1>2, <2>1, <3>2
      <4>2. landedQuality(a) > 2
        BY <1>14, <4>1 DEF RaceCommits, Lands
      <4> QED BY <1>2, <3>0, <4>1, <4>2 DEF Lands
    <3> QED BY <3>1, <3>2
  <2>2. Best(got, out)
    BY <1>7, <1>14, <2>1 DEF Best
  <2> QED BY <1>1, <1>5, <1>7, <1>8, <1>9, <1>14, <2>2, FinishBest
<1>15. CASE ~(a \in Songs /\ RaceCommits(a)) /\ pending = {}
  <2>1. d' = EndRace(r, got, held)
    BY <1>8, <1>15
  <2>2. CASE ctx
    BY <1>1, <1>6, <1>9, <2>1, <2>2, CtxIsBest, FinishBest DEF EndRace
  <2>3. CASE ~ctx /\ held # NoCand
    <3>1. d' = Done(r, got, HeldSong(held, r))
      BY <2>1, <2>3 DEF EndRace
    <3>2. /\ HeldSong(held, r) \in Outs /\ HeldSong(held, r).ans = held.ans
          /\ HeldSong(held, r).kind = "song"
      BY <1>12, <1>15, HeldOut
    <3>3. Best(got, HeldSong(held, r))
      BY <1>13, <1>15, <3>2 DEF Best, Lands
    <3> QED BY <1>1, <1>6, <1>9, <3>1, <3>2, <3>3, FinishBest
  <2>4. held = NoCand => \A m \in Lanes : ~Usable(got[m])
    BY <1>13, <1>15 DEF Lands
  <2>5. CASE ~ctx /\ held = NoCand /\ cfg.det = "back" /\ r.consulted # d.i
    <3>1. d' = [d EXCEPT !.phase = "post", !.r = r, !.got = got]
      BY <2>1, <2>5 DEF EndRace
    <3>2. d' \in Dispatches /\ d'.phase = "post" /\ d'.got = got /\ d'.held = d.held
      BY <1>1, <1>2, <1>6, <3>1 DEF Dispatches
    <3>3. d.held = NoCand
      BY <1>10, <2>5 DEF held
    <3>4. (\A m \in Lanes : Usable(d.got[m]) => Kept(d.got[m]))'
      BY <2>4, <2>5, <3>2
    <3>5. Racing' /\ Staging' /\ Ordering'
      BY <3>2, <3>3 DEF Racing, Staging, Ordering
    <3> QED BY <1>9, <3>2, <3>4, <3>5 DEF BestInv, Dispatching, BestReceivedWins, Ended
  <2>6. CASE ~ctx /\ held = NoCand /\ ~(cfg.det = "back" /\ r.consulted # d.i)
    <3>1. d' = finishParallel(r, got)
      BY <2>1, <2>6 DEF EndRace
    <3> QED BY <1>1, <1>6, <1>9, <2>4, <2>6, <3>1, FinishParallelBest
  <2> QED BY <2>2, <2>3, <2>5, <2>6
<1>16. CASE ~(a \in Songs /\ RaceCommits(a)) /\ pending # {}
  <2>1. d' = [d EXCEPT !.r = r, !.got = got, !.held = held]
    BY <1>8, <1>16
  <2>2. d' \in Dispatches /\ d'.phase = "race" /\ d'.got = got /\ d'.held = held
    BY <1>1, <1>2, <1>6, <1>12, <1>16, <2>1 DEF Dispatches
  <2>3. (\A m \in Lanes : Usable(d.got[m]) => Kept(d.got[m]))'
    BY <1>13, <1>16, <2>2 DEF Kept, Lands
  <2>4. Racing' /\ Staging' /\ Ordering'
    BY <1>9, <1>12, <1>16, <2>2 DEF Racing, Staging, Ordering
  <2> QED BY <1>9, <2>2, <2>3, <2>4 DEF BestInv, Dispatching, BestReceivedWins, Ended
<1> QED BY <1>14, <1>15, <1>16

LEMMA OrderedEndBest ==
    ASSUME BestInv, OrderedEnd
    PROVE  BestInv'
<1>1. /\ d \in Dispatches /\ d.r \in Results /\ d.got \in [Lanes -> Maybe(Answers)]
      /\ Ordering /\ d.phase = "ordered" /\ UNCHANGED <<cfg, call>>
      /\ call' \in [Lanes -> {"none", "spawned", "out"}]
      /\ \A m \in Lanes : Usable(d.got[m]) =>
            Lands(d.got[m], d.r.gated) \/ Lands(d.got[m], d.r.held)
  BY DEF BestInv, Dispatches, Dispatching, OrderedEnd, AtHead, Kept
<1>2. CASE d' = Done(d.r, d.got, Err("ctx"))
  BY <1>1, <1>2, CtxIsBest, FinishBest
<1>3. CASE d' # Done(d.r, d.got, Err("ctx"))
  <2> DEFINE o == resolve(d.r)
             w == IF MinCommit > 0 THEN wordAnswerFor(d.r.word) ELSE o.word
             u == ungatedWordAnswer(w, d.r.word)
             p == [resolve(d.r) EXCEPT !.word = u]
  <2>1. w \in {"served", "absent", "unknown"}
    BY <1>1, ResolveGives DEF Outs, wordAnswerFor
  <2>2. d' = Done(d.r, d.got, p)
    BY <1>3 DEF OrderedEnd
  <2> HIDE DEF w
  <2>3. u \in {"served", "absent", "unknown"}
    BY <2>1, WordTyped
  <2> HIDE DEF u
  <2>4. p \in Outs /\ p.kind = resolve(d.r).kind /\ p.ans = resolve(d.r).ans
    BY <1>1, <2>3, ResolvedOut
  <2> HIDE DEF p
  <2>5. ASSUME NEW m \in Lanes, Usable(d.got[m])
        PROVE  p.kind = "song" /\ landedQuality(p.ans) >= landedQuality(d.got[m])
    <3> DEFINE g == d.r.gated
               hd == d.r.held
    <3>1. /\ landedQuality(g.ans) \in 0..4 /\ landedQuality(hd.ans) \in 0..4
          /\ landedQuality(d.got[m]) \in 0..4 /\ landedQuality("demoted") = 2
      BY Landing
    <3>2. hd # NoCand => landedQuality(hd.ans) = 2
      BY <1>1, <3>1 DEF Ordering
    <3>3. Lands(d.got[m], g) \/ Lands(d.got[m], hd)
      BY <1>1, <2>5
    <3>4. /\ g # NoCand /\ (hd = NoCand \/ landedQuality(g.ans) >= 2) =>
                p.kind = "song" /\ p.ans = g.ans
          /\ ~(g # NoCand /\ (hd = NoCand \/ landedQuality(g.ans) >= 2)) /\ hd # NoCand =>
                p.kind = "song" /\ p.ans = hd.ans
      BY <1>1, <2>4, ResolveGives
    <3> HIDE DEF g, hd
    <3> QED BY <3>1, <3>2, <3>3, <3>4 DEF Lands
  <2>6. Best(d.got, p)
    BY <2>5 DEF Best
  <2> QED BY <1>1, <2>2, <2>4, <2>6, FinishBest
<1> QED BY <1>2, <1>3

LEMMA NewIsBest ==
    ASSUME cfg' \in Configs, NEW k \in {"main", "word"},
           NEW p \in {"idle", "shut", "ordered", "pre", "race", "post"}, d' = NewOf(k, p),
           call' \in [Lanes -> {"none", "spawned", "out"}], call'[Detector] = "none"
    PROVE  BestInv'
<1>1. /\ d' \in Dispatches /\ d'.phase = p
      /\ d'.r.gated = NoCand /\ d'.r.held = NoCand /\ d'.held = NoCand
      /\ \A l \in Lanes : d'.got[l] = "none"
  BY NewIsDispatch
<1>2. ~Usable("none")
  BY DEF Usable, Songs
<1>3. (\A m \in Lanes : Usable(d.got[m]) => Kept(d.got[m]))'
  BY <1>1, <1>2
<1>4. Racing' /\ Staging' /\ Ordering'
  BY <1>1 DEF Racing, Staging, Ordering
<1> QED BY <1>1, <1>3, <1>4 DEF BestInv, BestReceivedWins, Ended

LEMMA BestStep == ASSUME BestInv, WellConfigured, [Next]_vars PROVE BestInv'
<1>1. ASSUME UNCHANGED <<cfg, d>>, call' \in [Lanes -> {"none", "spawned", "out"}],
             d.phase = "race" => call'[Detector] = "none"
      PROVE  BestInv'
  <2>1. (\A m \in Lanes : Usable(d.got[m]) => Kept(d.got[m]))' <=>
        (\A m \in Lanes : Usable(d.got[m]) => Kept(d.got[m]))
    BY <1>1 DEF Kept, Lands
  <2>2. Racing' /\ Staging' /\ Ordering'
    BY <1>1 DEF BestInv, Racing, Staging, Ordering
  <2> QED BY <1>1, <2>1, <2>2 DEF BestInv, Dispatching, BestReceivedWins, Ended
<1>2. Detector \in Lanes /\ call \in [Lanes -> {"none", "spawned", "out"}]
      /\ (d.phase = "race" => call[Detector] = "none") /\ cfg \in Configs
  BY DEF Lanes, BestInv, Racing
<1>3. ASSUME UNCHANGED <<cfg, d, call>> PROVE BestInv'
  BY <1>1, <1>2, <1>3
<1>4. CASE GateShut
  <2>1. d' = NewOf("main", "shut") /\ UNCHANGED <<cfg, call>> /\ d.phase # "race"
    BY <1>4, NewIsOne DEF GateShut
  <2>2. d' \in Dispatches /\ d'.phase = "shut" /\ \A l \in Lanes : d'.got[l] = "none"
    BY <2>1, NewIsDispatch
  <2>3. Racing' /\ Staging' /\ Ordering'
    BY <2>2 DEF Racing, Staging, Ordering
  <2> QED BY <1>2, <2>1, <2>2, <2>3 DEF BestInv, Dispatching, BestReceivedWins, Ended
<1>5. ASSUME NEW k \in {"main", "word"}, FindLyrics(k) PROVE BestInv'
  <2> DEFINE p == Begins(k)
  <2>1. UNCHANGED cfg
    BY <1>5 DEF FindLyrics
  <2>2. d' = NewOf(k, p) /\ p \in {"ordered", "pre", "race"}
    BY <1>5, BeginsNew
  <2>3. call' = [l \in Lanes |-> IF d'.phase = "race" /\ l # Detector THEN "spawned" ELSE "none"]
    BY <1>5 DEF FindLyrics
  <2>4. call' \in [Lanes -> {"none", "spawned", "out"}] /\ call'[Detector] = "none"
    BY <1>2, <2>3
  <2> HIDE DEF p
  <2> QED BY <1>2, <2>1, <2>2, <2>4, NewIsBest
<1>6. CASE Restart
  <2>1. d' = NewOf("main", "idle") /\ UNCHANGED cfg /\ call' = [l \in Lanes |-> "none"]
    BY <1>6, NewIsOne DEF Restart, Fresh
  <2> QED BY <1>2, <2>1, NewIsBest
<1>7. CASE OrderedAsk
  <2>1. UNCHANGED cfg /\ d.phase = "ordered"
    BY <1>7 DEF OrderedAsk, AtHead
  <2>2. \/ UNCHANGED d /\ \E l : call' = [call EXCEPT ![l] = "out"]
        \/ UNCHANGED call /\ \E l : OrderedTake(l, "unavailable")
    BY <1>7 DEF OrderedAsk
  <2>3. "unavailable" \in Answers
    BY DEF Answers, Errors
  <2>4. call' \in [Lanes -> {"none", "spawned", "out"}]
    BY <1>2, <2>2
  <2> QED BY <1>1, <2>1, <2>2, <2>3, <2>4, OrderedTakeBest
<1>8. CASE OrderedSkip
  <2>1. d' = [d EXCEPT !.i = @ + 1] /\ UNCHANGED <<cfg, call>>
    BY <1>8 DEF OrderedSkip
  <2>2. /\ d' \in Dispatches /\ d'.phase = d.phase /\ d'.r = d.r /\ d'.got = d.got
        /\ d'.held = d.held /\ d'.out = d.out /\ d'.kind = d.kind
    BY <2>1 DEF BestInv, Dispatches
  <2>3. (\A m \in Lanes : Usable(d.got[m]) => Kept(d.got[m]))' <=>
        (\A m \in Lanes : Usable(d.got[m]) => Kept(d.got[m]))
    BY <2>2 DEF Kept, Lands
  <2>4. Racing' /\ Staging' /\ Ordering'
    BY <2>1, <2>2 DEF BestInv, Racing, Staging, Ordering
  <2> QED BY <2>1, <2>2, <2>3, <2>4 DEF BestInv, Dispatching, BestReceivedWins, Ended
<1>9. CASE OrderedEnd
  BY <1>9, OrderedEndBest
<1>10. CASE StagedAsk
  <2>1. UNCHANGED cfg /\ d.phase \in {"pre", "post"}
    BY <1>10 DEF StagedAsk
  <2>2. \/ UNCHANGED d /\ call' = [call EXCEPT ![Detector] = "out"]
        \/ StagedTake("unavailable")
    BY <1>10 DEF StagedAsk
  <2>3. "unavailable" \in Answers /\ "unavailable" \notin Songs
    BY DEF Answers, Errors, Songs
  <2> QED BY <1>1, <1>2, <2>1, <2>2, <2>3, StagedTakeBest
<1>11. CASE StagedAnswer
  <2>1. PICK raw \in Possible(Detector, ctx) : StagedTake(AnswerOf(Detector, raw))
    BY <1>11 DEF StagedAnswer
  <2>2. /\ AnswerOf(Detector, raw) \in Answers
        /\ AnswerOf(Detector, raw) \in Songs => AnswerOf(Detector, raw) = "inst"
    BY <1>2, AnswerTyped
  <2> QED BY <1>11, <2>1, <2>2, StagedTakeBest DEF StagedAnswer
<1>12. CASE RaceGivesUp
  <2>1. /\ d.r \in Results /\ d.got \in [Lanes -> Maybe(Answers)] /\ d.held \in Cands
        /\ \A m \in Lanes : Usable(d.got[m]) => Lands(d.got[m], d.held)
        /\ UNCHANGED cfg /\ call' = [l \in Lanes |-> "none"]
    BY <1>12 DEF BestInv, Dispatches, Dispatching, RaceGivesUp, Kept, Abandon
  <2>2. call' \in [Lanes -> {"none", "spawned", "out"}]
    BY <2>1
  <2>3. CASE ctx
    BY <1>12, <2>1, <2>2, <2>3, CtxIsBest, FinishBest DEF RaceGivesUp
  <2>4. CASE ~ctx
    <3>1. d' = Done(d.r, d.got, HeldSong(d.held, d.r))
      BY <1>12, <2>4 DEF RaceGivesUp
    <3>2. /\ HeldSong(d.held, d.r) \in Outs /\ HeldSong(d.held, d.r).ans = d.held.ans
          /\ HeldSong(d.held, d.r).kind = "song"
      BY <2>1, HeldOut
    <3>3. Best(d.got, HeldSong(d.held, d.r))
      BY <2>1, <3>2 DEF Best, Lands
    <3> QED BY <2>1, <2>2, <3>1, <3>2, <3>3, FinishBest
  <2> QED BY <2>3, <2>4
<1>13. ASSUME NEW l \in Lanes, OrderedAnswer(l) PROVE BestInv'
  <2>1. PICK raw \in Possible(l, ctx) : OrderedTake(l, AnswerOf(l, raw))
    BY <1>13 DEF OrderedAnswer
  <2>2. AnswerOf(l, raw) \in Answers
    BY <1>2, AnswerTyped
  <2>3. call' \in [Lanes -> {"none", "spawned", "out"}]
    BY <1>2, <1>13 DEF OrderedAnswer
  <2> QED BY <1>13, <2>1, <2>2, <2>3, OrderedTakeBest DEF OrderedAnswer
<1>14. ASSUME NEW l \in Lanes, RaceStart(l) PROVE BestInv'
  <2>1. "unavailable" \in Answers
    BY DEF Answers, Errors
  <2>2. /\ d.phase = "race" /\ call[l] = "spawned" /\ UNCHANGED cfg
        /\ RaceTake(l, "unavailable") \/ (UNCHANGED d /\ call' = [call EXCEPT ![l] = "out"])
    BY <1>14 DEF RaceStart
  <2>3. call' = [call EXCEPT ![l] = "out"] =>
          call' \in [Lanes -> {"none", "spawned", "out"}] /\ call'[Detector] = "none"
    BY <1>2, <2>2
  <2> QED BY <1>1, <2>1, <2>2, <2>3, RaceTakeBest
<1>15. ASSUME NEW l \in Lanes, RaceAnswer(l) PROVE BestInv'
  <2>1. PICK raw \in Possible(l, ctx) : RaceTake(l, AnswerOf(l, raw))
    BY <1>15 DEF RaceAnswer
  <2>2. d.phase = "race" /\ call[l] = "out" /\ l # Detector /\ UNCHANGED cfg
    BY <1>2, <1>15 DEF RaceAnswer
  <2>3. AnswerOf(l, raw) \in Answers /\ AnswerOf(l, raw) # "inst"
    BY <1>2, <2>2, AnswerTyped
  <2> QED BY <2>1, <2>2, <2>3, RaceTakeBest
<1>16. ASSUME NEW l \in Lanes, StaleStart(l) \/ StaleReturn(l) \/ Elapse(l) PROVE BestInv'
  BY <1>3, <1>16 DEF StaleStart, StaleReturn, Elapse
<1>17. CASE Shutdown
  BY <1>3, <1>17 DEF Shutdown
<1>18. CASE UNCHANGED vars
  BY <1>3, <1>18 DEF vars
<1> QED BY <1>4, <1>5, <1>6, <1>7, <1>8, <1>9, <1>10, <1>11, <1>12, <1>13, <1>14, <1>15,
           <1>16, <1>17, <1>18 DEF Next, Step

(* No dispatch throws away a better lyric it had received, in whatever      *)
(* order its lanes answered: what it serves lands at least as well as every *)
(* usable answer that came in (findOrdered, findParallel, resolve).         *)
THEOREM LanesServeTheBest ==
    ASSUME WellConfigured PROVE Spec => []BestReceivedWins
<1>1. Init => BestInv
  <2> SUFFICES ASSUME Init PROVE BestInv
    OBVIOUS
  <2>1. d = NewOf("main", "idle") /\ cfg \in Configs /\ call = [l \in Lanes |-> "none"]
    BY NewIsOne DEF Init
  <2>2. /\ d \in Dispatches /\ d.phase = "idle" /\ \A l \in Lanes : d.got[l] = "none"
    BY <2>1, NewIsDispatch
  <2>3. call \in [Lanes -> {"none", "spawned", "out"}]
    BY <2>1
  <2>4. Racing /\ Staging /\ Ordering
    BY <2>2 DEF Racing, Staging, Ordering
  <2> QED BY <2>1, <2>2, <2>3, <2>4 DEF BestInv, Dispatching, BestReceivedWins, Ended
<1>2. BestInv /\ [Next]_vars => BestInv'
  BY BestStep
<1>3. BestInv => BestReceivedWins
  BY DEF BestInv
<1> QED BY <1>1, <1>2, <1>3, PTL DEF Spec

-----------------------------------------------------------------------------
(* What a dispatch counts towards "no word timing", and that no lane is     *)
(* asked twice: an ordered dispatch goes through its sequence, a race       *)
(* starts every provider once.                                              *)
Said(got) == {l \in WordLanes : Counts(l, got[l])}

Turns ==
    d.phase = "ordered" =>
       /\ d.i >= 1
       /\ \A l \in Lanes : \A j \in 1..Len(Sequence) :
             j >= d.i /\ Sequence[j] = l => d.got[l] = "none"
       /\ \A l \in Lanes : call[l] # "none" =>
             \E j \in 1..Len(Sequence) : j = d.i /\ Sequence[j] = l
Spawns ==
    /\ d.phase = "race" => \A l \in Lanes : call[l] # "none" =>
          l # Detector /\ d.got[l] = "none"
    /\ d.phase = "pre" => \A l \in Lanes \ {Detector} : d.got[l] = "none"

(* The count is never above the lanes that gave such an answer.             *)
WordStart(r, got) == r.word >= 0 /\ r.word <= Cardinality(Said(got))

WordInv ==
    /\ cfg \in Configs
    /\ d \in Dispatches
    /\ call \in [Lanes -> {"none", "spawned", "out"}]
    /\ WordStart(d.r, d.got)
    /\ Turns /\ Spawns
    /\ WordAbsentIsUnanimous

LEMMA SaidGrows ==
    ASSUME InstalledOnce, NEW got \in [Lanes -> Maybe(Answers)], NEW l \in Lanes,
           got[l] = "none", NEW a \in Answers
    PROVE  Cardinality(Said([got EXCEPT ![l] = a]))
             = Cardinality(Said(got)) + (IF Counts(l, a) THEN 1 ELSE 0)
<1> DEFINE now == [got EXCEPT ![l] = a]
<1>1. WordLanes \subseteq Lanes /\ IsFiniteSet(WordLanes)
  BY DEF InstalledOnce, Lanes
<1>2. \A m \in Lanes : now[m] = IF m = l THEN a ELSE got[m]
  OBVIOUS
<1>3. ~Counts(l, "none")
  BY DEF Counts, answersWord, Songs
<1>4. Counts(l, a) => l \in WordLanes
  BY DEF Counts, answersWord
<1> HIDE DEF now
<1>5. Said(now) = IF Counts(l, a) THEN Said(got) \cup {l} ELSE Said(got)
  <2> HIDE DEF Counts
  <2> QED BY <1>1, <1>2, <1>3, <1>4 DEF Said
<1>6. l \notin Said(got) /\ Said(got) \subseteq WordLanes
  BY <1>3 DEF Said
<1>7. IsFiniteSet(Said(got))
  BY <1>1, <1>6, FS_Subset
<1>8. Cardinality(Said(got) \cup {l}) = Cardinality(Said(got)) + 1
  BY <1>6, <1>7, FS_AddElement
<1>9. Cardinality(Said(got)) \in Nat
  BY <1>7, FS_CardinalityType
<1> QED BY <1>5, <1>8, <1>9 DEF now

(* A word answer that comes out "absent" counted every word-capable lane. *)
LEMMA AbsentCounts ==
    ASSUME NEW w, NEW n, ungatedWordAnswer(w, n) = "absent"
    PROVE  n = Cardinality(WordLanes)
BY DEF ungatedWordAnswer, wordAnswerFor

LEMMA AllSaid ==
    ASSUME InstalledOnce, NEW got, NEW n, n = Cardinality(WordLanes),
           n <= Cardinality(Said(got))
    PROVE  \A l \in WordLanes : Counts(l, got[l])
<1>1. Said(got) \subseteq WordLanes /\ IsFiniteSet(WordLanes)
  BY DEF Said, InstalledOnce
<1>2. /\ Cardinality(Said(got)) <= Cardinality(WordLanes)
      /\ Cardinality(Said(got)) = Cardinality(WordLanes) => Said(got) = WordLanes
      /\ IsFiniteSet(Said(got))
  BY <1>1, FS_Subset
<1>3. Cardinality(Said(got)) \in Nat /\ Cardinality(WordLanes) \in Nat
  BY <1>1, <1>2, FS_CardinalityType
<1>4. Said(got) = WordLanes
  BY <1>2, <1>3
<1> QED BY <1>4 DEF Said

LEMMA SequenceOnce ==
    ASSUME InstalledOnce, WellConfigured
    PROVE  /\ Sequence \in Seq(Lanes) /\ Len(Sequence) \in Nat
           /\ \A j \in 1..Len(Sequence) : Sequence[j] \in Lanes
           /\ \A i, j \in 1..Len(Sequence) : Sequence[i] = Sequence[j] => i = j
<1>1. WordLanes \subseteq Lanes /\ Detector \in Lanes
  BY DEF InstalledOnce, Lanes
<1>2. WordOrder \in Seq(Lanes) /\ Once(WordOrder)
  BY <1>1 DEF InstalledOnce
<1>3. Providers \in Seq(Lanes) /\ Once(Providers)
  BY DEF InstalledOnce
<1>4. \A j \in 1..Len(Providers) : Providers[j] # Detector
  BY <1>3 DEF WellConfigured, Range
<1>5. Dets = <<>> \/ Dets = <<Detector>>
  BY DEF Dets
<1>6. Order \in Seq(Lanes) /\ Once(Order)
  <2>1. CASE Order = <<>> \o Providers \/ Order = Providers \o <<>>
    BY <1>3, <2>1
  <2>2. CASE Order = <<Detector>> \o Providers
    BY <1>1, <1>3, <1>4, <2>2 DEF Once
  <2>3. CASE Order = Providers \o <<Detector>>
    BY <1>1, <1>3, <1>4, <2>3 DEF Once
  <2> QED BY <1>5, <2>1, <2>2, <2>3 DEF Order
<1> HIDE DEF Order, WordOrder
<1>7. Sequence \in Seq(Lanes) /\ Once(Sequence)
  BY <1>2, <1>6 DEF Sequence
<1> HIDE DEF Sequence
<1> QED BY <1>7 DEF Once

LEMMA FinishWord ==
    ASSUME WordInv, InstalledOnce, UNCHANGED cfg, NEW r \in Results,
           NEW got \in [Lanes -> Maybe(Answers)], NEW out \in Outs, d' = Done(r, got, out),
           call' \in [Lanes -> {"none", "spawned", "out"}], WordStart(r, got),
           out.word = "absent" => Cardinality(WordLanes) <= Cardinality(Said(got))
    PROVE  WordInv'
<1>1. d' \in Dispatches /\ d'.phase = "done" /\ d'.r = r /\ d'.got = got /\ d'.out = out
  BY DoneIs DEF WordInv
<1>2. out.word = "absent" => \A l \in WordLanes : Counts(l, got[l])
  BY AllSaid
<1>3. WordAbsentIsUnanimous'
  BY <1>1, <1>2 DEF WordAbsentIsUnanimous, Counts
<1> QED BY <1>1, <1>3 DEF WordInv, Turns, Spawns

LEMMA CountKeeps ==
    ASSUME InstalledOnce, d \in Dispatches, WordStart(d.r, d.got), NEW l \in Lanes,
           d.got[l] = "none", NEW a \in Answers, NEW r \in Results,
           r.word = d.r.word + (IF Counts(l, a) THEN 1 ELSE 0)
    PROVE  WordStart(r, [d.got EXCEPT ![l] = a])
<1>1. d.got \in [Lanes -> Maybe(Answers)] /\ d.r.word \in Int
  BY DEF Dispatches, Results
<1>2. Cardinality(Said([d.got EXCEPT ![l] = a]))
        = Cardinality(Said(d.got)) + (IF Counts(l, a) THEN 1 ELSE 0)
  BY <1>1, SaidGrows
<1>3. Cardinality(Said(d.got)) \in Nat
  <2>1. Said(d.got) \subseteq WordLanes /\ IsFiniteSet(WordLanes)
    BY DEF Said, InstalledOnce
  <2> QED BY <2>1, FS_Subset, FS_CardinalityType
<1> QED BY <1>1, <1>2, <1>3 DEF WordStart

LEMMA OrderedTakeWord ==
    ASSUME WordInv, WellConfigured, InstalledOnce, UNCHANGED cfg, d.phase = "ordered",
           d.i \in 1..Len(Sequence), NEW l, l = Sequence[d.i], NEW a \in Answers,
           OrderedTake(l, a), call' \in [Lanes -> {"none", "spawned", "out"}],
           \A m \in Lanes : call'[m] = "none"
    PROVE  WordInv'
<1> DEFINE got == [d.got EXCEPT ![l] = a]
           q == OrderedNext(l, a, LaneOpen(l))
<1>0. /\ \A j \in 1..Len(Sequence) : Sequence[j] \in Lanes
      /\ \A i, j \in 1..Len(Sequence) : Sequence[i] = Sequence[j] => i = j
      /\ Len(Sequence) \in Nat
  BY SequenceOnce
<1>1. /\ got \in [Lanes -> Maybe(Answers)]
      /\ \A m \in Lanes : got[m] = IF m = l THEN a ELSE d.got[m]
  BY GotTyped DEF WordInv
<1>2. /\ d \in Dispatches /\ d.r \in Results /\ d.i \in Int /\ d.kind \in {"main", "word"}
      /\ WordStart(d.r, d.got) /\ Turns /\ l \in Lanes /\ d.got[l] = "none"
  BY <1>0 DEF WordInv, Dispatches, Turns
<1>3. LaneOpen(l) \in BOOLEAN
  BY DEF LaneOpen
<1>4. CASE OrderedCommits(d.r, a) /\ QualityOf(a) >= MinCommit
  <2> DEFINE h == Heard(l, a)
             b == consult(h, l)
             c == [lane |-> l, ans |-> a]
             v == IF MinCommit > 0 /\ WordAnswerOf(a) # "served" THEN wordAnswerFor(h.word)
                  ELSE WordAnswerOf(a)
             out == Song(c, ungatedWordAnswer(v, h.word))
  <2>1. a \in Songs /\ a # "blocked"
    BY <1>4 DEF OrderedCommits, classifyCandidate
  <2>2. d' = Done(b, got, out)
    BY <1>4 DEF OrderedTake, CommitWord
  <2>3. h \in Results /\ h.word = d.r.word + (IF Counts(l, a) THEN 1 ELSE 0)
    BY <1>2, <2>1, HeardKeeps DEF Counts
  <2>4. b \in Results /\ b.word = h.word
    BY <1>2, <2>3, ConsultKeeps
  <2>5. WordStart(h, got)
    BY <1>2, <2>3, CountKeeps
  <2>6. v \in {"served", "absent", "unknown"}
    BY DEF wordAnswerFor, WordAnswerOf
  <2> HIDE DEF v, h, got, b
  <2>7. out \in Outs /\ out.word = ungatedWordAnswer(v, h.word)
    <3>1. ungatedWordAnswer(v, h.word) \in {"served", "absent", "unknown"}
      BY <2>6, WordTyped
    <3> QED BY <1>2, <3>1 DEF Song, Outs, Maybe
  <2> HIDE DEF out
  <2>8. out.word = "absent" => Cardinality(WordLanes) <= Cardinality(Said(got))
    BY <2>5, <2>7, AbsentCounts DEF WordStart
  <2>9. WordStart(b, got)
    BY <2>4, <2>5 DEF WordStart
  <2> QED BY <1>1, <2>2, <2>4, <2>7, <2>8, <2>9, FinishWord
<1>5. CASE ~(OrderedCommits(d.r, a) /\ QualityOf(a) >= MinCommit)
  <2>1. d' = [d EXCEPT !.r = q, !.got = got, !.i = @ + 1]
    BY <1>5 DEF OrderedTake
  <2>2. q \in Results /\ q.word = d.r.word + (IF Counts(l, a) THEN 1 ELSE 0)
    BY <1>2, <1>3, OrderedNextKeeps
  <2>3. WordStart(q, got)
    BY <1>2, <2>2, CountKeeps
  <2> HIDE DEF q, got
  <2>4. d' \in Dispatches /\ d'.phase = "ordered" /\ d'.r = q /\ d'.got = got
        /\ d'.kind = d.kind /\ d'.i = d.i + 1
    <3> HIDE DEF Results, Cands, Outs
    <3>1. d.i + 1 \in Int
      BY <1>2
    <3> QED BY <1>1, <1>2, <2>1, <2>2, <3>1 DEF Dispatches
  <2>5. Sequence' = Sequence
    BY <2>4 DEF Sequence, Order, Dets
  <2>6. ASSUME NEW m \in Lanes, NEW j \in 1..Len(Sequence), j >= d.i + 1, Sequence[j] = m
        PROVE  got[m] = "none"
    <3>1. j >= d.i /\ j # d.i
      BY <1>0, <1>2, <2>6
    <3>2. m # l /\ d.got[m] = "none"
      BY <1>0, <1>2, <2>6, <3>1 DEF Turns
    <3> QED BY <1>1, <3>2
  <2>7. Turns'
    BY <1>2, <2>4, <2>5, <2>6 DEF Turns
  <2>8. WordStart(d'.r, d'.got)
    BY <2>3, <2>4
  <2>9. Spawns' /\ WordAbsentIsUnanimous'
    BY <2>4 DEF Spawns, WordAbsentIsUnanimous, Ended
  <2> QED BY <2>4, <2>7, <2>8, <2>9 DEF WordInv
<1> QED BY <1>4, <1>5

LEMMA FinishParallelWord ==
    ASSUME WordInv, InstalledOnce, UNCHANGED cfg, NEW r \in Results,
           NEW got \in [Lanes -> Maybe(Answers)], WordStart(r, got),
           d' = finishParallel(r, got), call' \in [Lanes -> {"none", "spawned", "out"}]
    PROVE  WordInv'
<1> DEFINE w == ungatedWordAnswer(resolve(r).word, r.word)
           o == [resolve(r) EXCEPT !.word = w]
<1>1. resolve(r) \in Outs /\ resolve(r).word \in {"served", "absent", "unknown"}
  BY ResolveGives DEF Outs
<1>2. w \in {"served", "absent", "unknown"}
  BY <1>1, WordTyped
<1>3. w = "absent" => Cardinality(WordLanes) <= Cardinality(Said(got))
  BY AbsentCounts DEF WordStart
<1>4. d' = Done(r, got, o)
  BY DEF finishParallel
<1> HIDE DEF w
<1>5. o \in Outs /\ o.word = w
  BY <1>1, <1>2 DEF Outs
<1> HIDE DEF o
<1> QED BY <1>3, <1>4, <1>5, FinishWord

LEMMA CtxIsNoWord == Err("ctx") \in Outs /\ Err("ctx").word = "unknown"
BY DEF Err, NoOut, Outs, Maybe

LEMMA StagedTakeWord ==
    ASSUME WordInv, WellConfigured, InstalledOnce, UNCHANGED cfg, d.phase \in {"pre", "post"},
           NEW a \in Answers, a \in Songs => a = "inst", StagedTake(a)
    PROVE  WordInv'
<1> DEFINE got == [d.got EXCEPT ![Detector] = a]
           h == Heard(Detector, a)
           r == IF a = "unavailable" THEN h
                ELSE Absorbed(consult(h, Detector), Detector, a, LaneOpen(Detector))
<1>1. /\ got \in [Lanes -> Maybe(Answers)]
      /\ \A m \in Lanes : got[m] = IF m = Detector THEN a ELSE d.got[m]
  BY GotTyped DEF WordInv
<1>2. d \in Dispatches /\ d.r \in Results /\ d.r.word \in Int /\ WordStart(d.r, d.got)
  BY DEF WordInv, Dispatches, Results
<1>3. Detector \in Lanes /\ Detector \notin WordLanes
  BY DEF Lanes, InstalledOnce, WellConfigured
<1>4. ~answersWord(Detector, a)
  BY <1>3 DEF answersWord
<1>5. h \in Results /\ h.word = d.r.word
  BY <1>2, <1>4, HeardKeeps
<1>6. r \in Results /\ r.word = d.r.word
  <2> HIDE DEF h
  <2>1. LET c == consult(h, Detector) IN c \in Results /\ c.word = h.word
    BY <1>3, <1>5, ConsultKeeps
  <2>2. LaneOpen(Detector) \in BOOLEAN
    BY DEF LaneOpen
  <2> QED BY <1>2, <1>3, <1>4, <1>5, <2>1, <2>2, AbsorbedKeeps
<1>7. StagedTake(a) =
        IF ctx THEN d' = Done(r, got, Err("ctx")) /\ call' = [l \in Lanes |-> "none"]
        ELSE IF a \in Songs /\ classifyCandidate(a) = "commit"
        THEN /\ d' = Done(r, got, Song([lane |-> Detector, ans |-> a], WordAnswerOf(a)))
             /\ call' = [l \in Lanes |-> "none"]
        ELSE IF d.phase = "pre"
        THEN /\ d' = [d EXCEPT !.phase = "race", !.r = r, !.got = got, !.i = r.consulted]
             /\ call' = Spawned
        ELSE d' = finishParallel(r, got) /\ call' = [l \in Lanes |-> "none"]
  BY DEF StagedTake
<1> HIDE DEF r, got, h
<1>8. Said(got) = Said(d.got)
  <2>1. \A m \in WordLanes : got[m] = d.got[m]
    BY <1>1, <1>3 DEF InstalledOnce, Lanes
  <2> QED BY <2>1 DEF Said
<1>9. WordStart(r, got)
  BY <1>2, <1>6, <1>8 DEF WordStart
<1>10. call' = [l \in Lanes |-> "none"] => call' \in [Lanes -> {"none", "spawned", "out"}]
  OBVIOUS
<1>11. CASE ctx
  BY <1>1, <1>6, <1>7, <1>9, <1>10, <1>11, CtxIsNoWord, FinishWord
<1>12. CASE ~ctx /\ a \in Songs /\ classifyCandidate(a) = "commit"
  <2> DEFINE out == Song([lane |-> Detector, ans |-> a], WordAnswerOf(a))
  <2>1. WordAnswerOf(a) = "unknown"
    BY <1>12 DEF WordAnswerOf
  <2>2. out \in Outs /\ out.word = "unknown"
    BY <1>3, <2>1 DEF Song, Outs, Maybe
  <2>3. d' = Done(r, got, out)
    BY <1>7, <1>12
  <2> HIDE DEF out
  <2> QED BY <1>1, <1>6, <1>7, <1>9, <1>10, <1>12, <2>2, <2>3, FinishWord
<1>13. CASE ~ctx /\ ~(a \in Songs /\ classifyCandidate(a) = "commit") /\ d.phase = "pre"
  <2>1. d' = [d EXCEPT !.phase = "race", !.r = r, !.got = got, !.i = r.consulted]
        /\ call' = Spawned
    BY <1>7, <1>13
  <2>2. r.consulted \in Int
    BY <1>6 DEF Results
  <2>3. d' \in Dispatches /\ d'.phase = "race" /\ d'.r = r /\ d'.got = got
    BY <1>1, <1>2, <1>6, <2>1, <2>2 DEF Dispatches
  <2>4. call' \in [Lanes -> {"none", "spawned", "out"}]
    BY <2>1 DEF Spawned
  <2>5. \A l \in Lanes : call'[l] # "none" => l # Detector /\ got[l] = "none"
    BY <1>1, <1>13, <2>1 DEF Spawned, WordInv, Spawns
  <2>6. Spawns' /\ Turns' /\ WordAbsentIsUnanimous'
    BY <2>3, <2>5 DEF Spawns, Turns, WordAbsentIsUnanimous, Ended
  <2>7. WordStart(d'.r, d'.got)
    BY <1>9, <2>3
  <2> QED BY <2>3, <2>4, <2>6, <2>7 DEF WordInv
<1>14. CASE ~ctx /\ ~(a \in Songs /\ classifyCandidate(a) = "commit") /\ d.phase # "pre"
  BY <1>1, <1>6, <1>7, <1>9, <1>10, <1>14, FinishParallelWord
<1> QED BY <1>11, <1>12, <1>13, <1>14

LEMMA RaceTakeWord ==
    ASSUME WordInv, WellConfigured, InstalledOnce, UNCHANGED cfg, d.phase = "race",
           NEW l \in Lanes, call[l] # "none", NEW a \in Answers, RaceTake(l, a)
    PROVE  WordInv'
<1> DEFINE pending == {m \in Lanes : call[m] # "none"} \ {l}
           got == [d.got EXCEPT ![l] = a]
           h == Heard(l, a)
           c == consult(h, l)
           w == [lane |-> l, ans |-> a]
           holds == a \in Songs /\ classifyCandidate(a) \in {"commit", "hold"}
           held == IF holds /\ d.held = NoCand THEN w ELSE d.held
           r == IF a \in {"unavailable", "canceled"} THEN h
                ELSE Absorbed(c, l, a, LaneOpen(l))
           out == Song(w, ungatedWordAnswer(WordAnswerOf(a), c.word))
<1>1. /\ got \in [Lanes -> Maybe(Answers)]
      /\ \A m \in Lanes : got[m] = IF m = l THEN a ELSE d.got[m]
  BY GotTyped DEF WordInv
<1>2. /\ d \in Dispatches /\ d.r \in Results /\ d.held \in Cands /\ d.r.word \in Int
      /\ call \in [Lanes -> {"none", "spawned", "out"}]
      /\ WordStart(d.r, d.got) /\ Spawns /\ d.got[l] = "none"
  BY DEF WordInv, Dispatches, Results, Spawns
<1>3. h \in Results /\ h.word = d.r.word + (IF answersWord(l, a) THEN 1 ELSE 0)
  BY <1>2, HeardKeeps
<1>4. c \in Results /\ c.word = h.word
  <2> HIDE DEF h
  <2> QED BY <1>3, ConsultKeeps
<1>5. r \in Results /\ r.word = d.r.word + (IF Counts(l, a) THEN 1 ELSE 0)
  <2> HIDE DEF h, c
  <2>1. LaneOpen(l) \in BOOLEAN
    BY DEF LaneOpen
  <2>2. a \in {"unavailable", "canceled"} => ~answersWord(l, a)
    BY DEF answersWord, Songs
  <2>3. CASE a \in {"unavailable", "canceled"}
    BY <1>2, <1>3, <2>2, <2>3 DEF Counts
  <2>4. CASE a \notin {"unavailable", "canceled"}
    <3>1. /\ Absorbed(c, l, a, LaneOpen(l)) \in Results
          /\ Absorbed(c, l, a, LaneOpen(l)).word
               = c.word - (IF a = "blocked" /\ answersWord(l, a) THEN 1 ELSE 0)
      BY <1>4, <2>1, AbsorbedKeeps
    <3> QED BY <1>2, <1>3, <1>4, <2>4, <3>1 DEF Counts
  <2> QED BY <2>3, <2>4
<1>6. WordStart(r, got)
  <2> HIDE DEF r
  <2> QED BY <1>2, <1>5, CountKeeps
<1>7. held \in Cands
  BY <1>2 DEF Cands, Maybe
<1>8. /\ IF a \in Songs /\ RaceCommits(a)
         THEN d' = Done(c, got, out)
         ELSE d' = IF pending = {} THEN EndRace(r, got, held)
                   ELSE [d EXCEPT !.r = r, !.got = got, !.held = held]
      /\ \/ call' = [m \in Lanes |-> "none"]
         \/ call' = [call EXCEPT ![l] = "none"]
  BY DEF RaceTake, Abandon
<1>9. /\ call' \in [Lanes -> {"none", "spawned", "out"}]
      /\ \A m \in Lanes : call'[m] # "none" => m # l /\ call[m] # "none"
  BY <1>2, <1>8
<1>10. CASE a \in Songs /\ RaceCommits(a)
  <2>1. a # "blocked"
    BY <1>10 DEF RaceCommits, classifyCandidate
  <2>2. c.word = d.r.word + (IF Counts(l, a) THEN 1 ELSE 0)
    BY <1>3, <1>4, <2>1 DEF Counts
  <2>3. WordStart(c, got)
    <3> HIDE DEF c
    <3> QED BY <1>2, <1>4, <2>2, CountKeeps
  <2> DEFINE v == ungatedWordAnswer(WordAnswerOf(a), c.word)
  <2>4. v \in {"served", "absent", "unknown"}
    BY WordTyped DEF WordAnswerOf
  <2>5. v = "absent" => Cardinality(WordLanes) <= Cardinality(Said(got))
    BY <2>3, AbsentCounts DEF WordStart
  <2>6. out = Song(w, v)
    OBVIOUS
  <2> HIDE DEF v
  <2>7. Song(w, v) \in Outs /\ Song(w, v).word = v
    BY <1>10, <2>4 DEF Song, Outs, Maybe
  <2> HIDE DEF out, c, got, w
  <2> QED BY <1>1, <1>4, <1>8, <1>9, <1>10, <2>3, <2>5, <2>6, <2>7, FinishWord
<1> HIDE DEF pending, got, h, c, w, holds, held, r, out
<1>11. CASE ~(a \in Songs /\ RaceCommits(a)) /\ pending = {}
  <2>1. d' = EndRace(r, got, held)
    BY <1>8, <1>11
  <2>2. CASE ctx
    BY <1>1, <1>5, <1>6, <1>9, <2>1, <2>2, CtxIsNoWord, FinishWord DEF EndRace
  <2>3. CASE ~ctx /\ held # NoCand
    <3> DEFINE v == ungatedWordAnswer(WordAnswerOf(held.ans), r.word)
    <3>1. d' = Done(r, got, Song(held, v))
      BY <2>1, <2>3 DEF EndRace, HeldSong
    <3>2. v \in {"served", "absent", "unknown"}
      BY WordTyped DEF WordAnswerOf
    <3>3. v = "absent" => Cardinality(WordLanes) <= Cardinality(Said(got))
      BY <1>6, AbsentCounts DEF WordStart
    <3> HIDE DEF v
    <3>4. Song(held, v) \in Outs /\ Song(held, v).word = v
      BY <1>7, <3>2 DEF Song, Outs, Cands
    <3> QED BY <1>1, <1>5, <1>6, <1>9, <3>1, <3>3, <3>4, FinishWord
  <2>4. CASE ~ctx /\ held = NoCand /\ cfg.det = "back" /\ r.consulted # d.i
    <3>1. d' = [d EXCEPT !.phase = "post", !.r = r, !.got = got]
      BY <2>1, <2>4 DEF EndRace
    <3>2. d' \in Dispatches /\ d'.phase = "post" /\ d'.r = r /\ d'.got = got
      BY <1>1, <1>2, <1>5, <3>1 DEF Dispatches
    <3>3. Spawns' /\ Turns' /\ WordAbsentIsUnanimous'
      BY <3>2 DEF Spawns, Turns, WordAbsentIsUnanimous, Ended
    <3>4. WordStart(d'.r, d'.got)
      BY <1>6, <3>2
    <3> QED BY <1>9, <3>2, <3>3, <3>4 DEF WordInv
  <2>5. CASE ~ctx /\ held = NoCand /\ ~(cfg.det = "back" /\ r.consulted # d.i)
    <3>1. d' = finishParallel(r, got)
      BY <2>1, <2>5 DEF EndRace
    <3> QED BY <1>1, <1>5, <1>6, <1>9, <3>1, FinishParallelWord
  <2> QED BY <2>2, <2>3, <2>4, <2>5
<1>12. CASE ~(a \in Songs /\ RaceCommits(a)) /\ pending # {}
  <2>1. d' = [d EXCEPT !.r = r, !.got = got, !.held = held]
    BY <1>8, <1>12
  <2>2. d' \in Dispatches /\ d'.phase = "race" /\ d'.r = r /\ d'.got = got
    BY <1>1, <1>2, <1>5, <1>7, <2>1 DEF Dispatches
  <2>3. \A m \in Lanes : call'[m] # "none" => m # Detector /\ got[m] = "none"
    BY <1>1, <1>2, <1>9 DEF Spawns
  <2>4. Spawns' /\ Turns' /\ WordAbsentIsUnanimous'
    BY <2>2, <2>3 DEF Spawns, Turns, WordAbsentIsUnanimous, Ended
  <2>5. WordStart(d'.r, d'.got)
    BY <1>6, <2>2
  <2> QED BY <1>9, <2>2, <2>4, <2>5 DEF WordInv
<1> QED BY <1>10, <1>11, <1>12

LEMMA OrderedEndWord ==
    ASSUME WordInv, InstalledOnce, OrderedEnd
    PROVE  WordInv'
<1>1. /\ d \in Dispatches /\ d.r \in Results /\ d.got \in [Lanes -> Maybe(Answers)]
      /\ WordStart(d.r, d.got) /\ UNCHANGED <<cfg, call>>
      /\ call' \in [Lanes -> {"none", "spawned", "out"}]
  BY DEF WordInv, Dispatches, OrderedEnd
<1>2. CASE d' = Done(d.r, d.got, Err("ctx"))
  BY <1>1, <1>2, CtxIsNoWord, FinishWord
<1>3. CASE d' # Done(d.r, d.got, Err("ctx"))
  <2> DEFINE o == resolve(d.r)
             w == IF MinCommit > 0 THEN wordAnswerFor(d.r.word) ELSE o.word
             u == ungatedWordAnswer(w, d.r.word)
             p == [resolve(d.r) EXCEPT !.word = u]
  <2>1. resolve(d.r) \in Outs /\ w \in {"served", "absent", "unknown"}
    BY <1>1, ResolveGives DEF Outs, wordAnswerFor
  <2>2. d' = Done(d.r, d.got, p)
    BY <1>3 DEF OrderedEnd
  <2> HIDE DEF w
  <2>3. u \in {"served", "absent", "unknown"}
    BY <2>1, WordTyped
  <2>4. u = "absent" => Cardinality(WordLanes) <= Cardinality(Said(d.got))
    BY <1>1, AbsentCounts DEF WordStart
  <2> HIDE DEF u
  <2>5. p \in Outs /\ p.word = u
    BY <2>1, <2>3 DEF Outs
  <2> HIDE DEF p
  <2> QED BY <1>1, <2>2, <2>4, <2>5, FinishWord
<1> QED BY <1>2, <1>3

LEMMA NewIsWord ==
    ASSUME InstalledOnce, cfg' \in Configs, NEW k \in {"main", "word"},
           NEW p \in {"idle", "shut", "ordered", "pre", "race", "post"}, d' = NewOf(k, p),
           call' \in [Lanes -> {"none", "spawned", "out"}],
           p = "ordered" => \A l \in Lanes : call'[l] = "none",
           p = "race" => call'[Detector] = "none"
    PROVE  WordInv'
<1>1. /\ d' \in Dispatches /\ d'.phase = p /\ d'.i = Place(p) /\ d'.r = NewResult
      /\ \A l \in Lanes : d'.got[l] = "none"
  BY NewIsDispatch
<1>2. d'.r.word = 0
  BY <1>1 DEF NewResult
<1>3. Cardinality(Said(d'.got)) \in Nat
  <2>1. Said(d'.got) \subseteq WordLanes /\ IsFiniteSet(WordLanes)
    BY DEF Said, InstalledOnce
  <2> QED BY <2>1, FS_Subset, FS_CardinalityType
<1>4. WordStart(d'.r, d'.got)
  BY <1>2, <1>3 DEF WordStart
<1>5. Turns'
  BY <1>1 DEF Turns, Place
<1>6. Spawns' /\ WordAbsentIsUnanimous'
  BY <1>1 DEF Spawns, WordAbsentIsUnanimous, Ended
<1> QED BY <1>1, <1>4, <1>5, <1>6 DEF WordInv

LEMMA FirstIsWord ==
    ASSUME InstalledOnce, cfg \in Configs, d = NewOf("main", "idle"),
           call = [l \in Lanes |-> "none"]
    PROVE  WordInv
<1>1. d \in Dispatches /\ d.phase = "idle" /\ d.r = NewResult
  BY NewIsDispatch
<1>2. Cardinality(Said(d.got)) \in Nat
  <2>1. Said(d.got) \subseteq WordLanes /\ IsFiniteSet(WordLanes)
    BY DEF Said, InstalledOnce
  <2> QED BY <2>1, FS_Subset, FS_CardinalityType
<1>3. WordStart(d.r, d.got)
  <2>1. NewResult.word = 0
    BY DEF NewResult
  <2> QED BY <1>1, <1>2, <2>1 DEF WordStart
<1>4. call \in [Lanes -> {"none", "spawned", "out"}]
  OBVIOUS
<1> QED BY <1>1, <1>3, <1>4 DEF WordInv, Turns, Spawns, WordAbsentIsUnanimous, Ended

LEMMA WordStep ==
    ASSUME WordInv, WellConfigured, InstalledOnce, [Next]_vars PROVE WordInv'
<1>1. ASSUME UNCHANGED <<cfg, d>>, call' \in [Lanes -> {"none", "spawned", "out"}],
             Turns', d.phase = "race" => \A l \in Lanes : call'[l] # "none" => call[l] # "none"
      PROVE  WordInv'
  BY <1>1 DEF WordInv, Dispatching, Spawns, WordAbsentIsUnanimous, Ended
<1>2. /\ Detector \in Lanes /\ call \in [Lanes -> {"none", "spawned", "out"}]
      /\ cfg \in Configs /\ d \in Dispatches /\ Turns /\ d.i \in Int
  BY DEF Lanes, WordInv, Dispatches
<1>3. ASSUME UNCHANGED <<cfg, d, call>> PROVE WordInv'
  <2>1. Turns'
    BY <1>2, <1>3 DEF Turns, Sequence, Order, Dets
  <2> QED BY <1>1, <1>2, <1>3, <2>1
<1>4. CASE GateShut
  <2>1. d' = NewOf("main", "shut") /\ UNCHANGED <<cfg, call>>
    BY <1>4, NewIsOne DEF GateShut
  <2> QED BY <1>2, <2>1, NewIsWord
<1>5. ASSUME NEW k \in {"main", "word"}, FindLyrics(k) PROVE WordInv'
  <2> DEFINE p == Begins(k)
  <2>1. UNCHANGED cfg
    BY <1>5 DEF FindLyrics
  <2>2. d' = NewOf(k, p) /\ p \in {"ordered", "pre", "race"}
    BY <1>5, BeginsNew
  <2>3. call' = [l \in Lanes |-> IF d'.phase = "race" /\ l # Detector THEN "spawned" ELSE "none"]
    BY <1>5 DEF FindLyrics
  <2>4. call' \in [Lanes -> {"none", "spawned", "out"}] /\ call'[Detector] = "none"
    BY <1>2, <2>3
  <2> HIDE DEF p
  <2>6. d'.phase = p
    BY <2>2, NewIsDispatch
  <2>7. p = "ordered" => \A l \in Lanes : call'[l] = "none"
    BY <2>3, <2>6
  <2> QED BY <1>2, <2>1, <2>2, <2>4, <2>7, NewIsWord
<1>6. CASE Restart
  <2>1. d' = NewOf("main", "idle") /\ UNCHANGED cfg /\ call' = [l \in Lanes |-> "none"]
    BY <1>6, NewIsOne DEF Restart, Fresh
  <2> QED BY <1>2, <2>1, NewIsWord
<1>7. CASE OrderedAsk
  <2> DEFINE l == Sequence[d.i]
  <2>1. /\ UNCHANGED cfg /\ d.phase = "ordered" /\ \A m \in Lanes : call[m] = "none"
        /\ d.i \in 1..Len(Sequence) /\ l \in Lanes
    BY <1>2, <1>7, SequenceOnce DEF OrderedAsk, AtHead, Turns
  <2>2. \/ UNCHANGED d /\ call' = [call EXCEPT ![l] = "out"]
        \/ UNCHANGED call /\ OrderedTake(l, "unavailable")
    BY <1>7 DEF OrderedAsk
  <2>3. "unavailable" \in Answers
    BY DEF Answers, Errors
  <2>4. CASE UNCHANGED d /\ call' = [call EXCEPT ![l] = "out"]
    <3>1. call' \in [Lanes -> {"none", "spawned", "out"}] /\ Sequence' = Sequence
      BY <1>2, <2>1, <2>4 DEF Sequence, Order, Dets
    <3>2. \A m \in Lanes : call'[m] # "none" => m = l
      BY <1>2, <2>1, <2>4
    <3>3. Turns'
      BY <1>2, <2>1, <2>4, <3>1, <3>2 DEF Turns
    <3> QED BY <1>1, <2>1, <2>4, <3>1, <3>3
  <2>5. CASE UNCHANGED call /\ OrderedTake(l, "unavailable")
    BY <1>2, <2>1, <2>3, <2>5, OrderedTakeWord
  <2> QED BY <2>2, <2>4, <2>5
<1>8. CASE OrderedSkip
  <2>1. d' = [d EXCEPT !.i = @ + 1] /\ UNCHANGED <<cfg, call>> /\ d.phase = "ordered"
        /\ \A m \in Lanes : call[m] = "none"
    BY <1>8 DEF OrderedSkip, AtHead
  <2>2. /\ d' \in Dispatches /\ d'.phase = d.phase /\ d'.r = d.r /\ d'.got = d.got
        /\ d'.out = d.out /\ d'.kind = d.kind /\ d'.i = d.i + 1
    BY <1>2, <2>1 DEF Dispatches
  <2>3. Sequence' = Sequence /\ Len(Sequence) \in Nat
    BY <2>1, <2>2, SequenceOnce DEF Sequence, Order, Dets
  <2>4. Turns'
    BY <1>2, <2>1, <2>2, <2>3 DEF Turns
  <2>5. Spawns' /\ WordAbsentIsUnanimous'
    BY <2>1, <2>2 DEF Spawns, WordAbsentIsUnanimous, Ended
  <2> QED BY <1>2, <2>1, <2>2, <2>4, <2>5 DEF WordInv, Dispatching
<1>9. CASE OrderedEnd
  BY <1>9, OrderedEndWord
<1>10. CASE StagedAsk
  <2>1. UNCHANGED cfg /\ d.phase \in {"pre", "post"}
    BY <1>10 DEF StagedAsk
  <2>2. \/ UNCHANGED d /\ call' = [call EXCEPT ![Detector] = "out"]
        \/ StagedTake("unavailable")
    BY <1>10 DEF StagedAsk
  <2>3. "unavailable" \in Answers /\ "unavailable" \notin Songs
    BY DEF Answers, Errors, Songs
  <2>4. UNCHANGED d => Turns'
    BY <2>1 DEF Turns
  <2> QED BY <1>1, <1>2, <2>1, <2>2, <2>3, <2>4, StagedTakeWord
<1>11. CASE StagedAnswer
  <2>1. PICK raw \in Possible(Detector, ctx) : StagedTake(AnswerOf(Detector, raw))
    BY <1>11 DEF StagedAnswer
  <2>2. /\ AnswerOf(Detector, raw) \in Answers
        /\ AnswerOf(Detector, raw) \in Songs => AnswerOf(Detector, raw) = "inst"
    BY <1>2, AnswerTyped
  <2> QED BY <1>11, <2>1, <2>2, StagedTakeWord DEF StagedAnswer
<1>12. CASE RaceGivesUp
  <2>1. /\ d.r \in Results /\ d.got \in [Lanes -> Maybe(Answers)] /\ d.held \in Cands
        /\ WordStart(d.r, d.got)
        /\ UNCHANGED cfg /\ call' = [l \in Lanes |-> "none"]
    BY <1>12 DEF WordInv, Dispatches, RaceGivesUp, Abandon
  <2>2. call' \in [Lanes -> {"none", "spawned", "out"}]
    BY <2>1
  <2>3. CASE ctx
    BY <1>12, <2>1, <2>2, <2>3, CtxIsNoWord, FinishWord DEF RaceGivesUp
  <2>4. CASE ~ctx
    <3> DEFINE v == ungatedWordAnswer(WordAnswerOf(d.held.ans), d.r.word)
    <3>1. d' = Done(d.r, d.got, Song(d.held, v))
      BY <1>12, <2>4 DEF RaceGivesUp, HeldSong
    <3>2. v \in {"served", "absent", "unknown"}
      BY WordTyped DEF WordAnswerOf
    <3>3. v = "absent" => Cardinality(WordLanes) <= Cardinality(Said(d.got))
      BY <2>1, AbsentCounts DEF WordStart
    <3> HIDE DEF v
    <3>4. Song(d.held, v) \in Outs /\ Song(d.held, v).word = v
      BY <2>1, <3>2 DEF Song, Outs, Cands
    <3> QED BY <2>1, <2>2, <3>1, <3>3, <3>4, FinishWord
  <2> QED BY <2>3, <2>4
<1>13. ASSUME NEW l \in Lanes, OrderedAnswer(l) PROVE WordInv'
  <2>1. PICK raw \in Possible(l, ctx) : OrderedTake(l, AnswerOf(l, raw))
    BY <1>13 DEF OrderedAnswer
  <2>2. AnswerOf(l, raw) \in Answers
    BY <1>2, AnswerTyped
  <2>3. /\ UNCHANGED cfg /\ d.phase = "ordered" /\ call[l] # "none"
        /\ call' = [call EXCEPT ![l] = "none"]
    BY <1>13 DEF OrderedAnswer
  <2>4. call' \in [Lanes -> {"none", "spawned", "out"}]
    BY <1>2, <2>3
  <2>5. d.i \in 1..Len(Sequence) /\ l = Sequence[d.i]
    BY <1>2, <2>3 DEF Turns
  <2>6. \A m \in Lanes : call'[m] = "none"
    BY <1>2, <2>3, <2>5 DEF Turns
  <2> QED BY <2>1, <2>2, <2>3, <2>4, <2>5, <2>6, OrderedTakeWord
<1>14. ASSUME NEW l \in Lanes, RaceStart(l) PROVE WordInv'
  <2>1. "unavailable" \in Answers
    BY DEF Answers, Errors
  <2>2. /\ d.phase = "race" /\ call[l] = "spawned" /\ UNCHANGED cfg
        /\ RaceTake(l, "unavailable") \/ (UNCHANGED d /\ call' = [call EXCEPT ![l] = "out"])
    BY <1>14 DEF RaceStart
  <2>3. call' = [call EXCEPT ![l] = "out"] =>
          /\ call' \in [Lanes -> {"none", "spawned", "out"}]
          /\ \A m \in Lanes : call'[m] # "none" => call[m] # "none"
    BY <1>2, <2>2
  <2>4. UNCHANGED d => Turns'
    BY <2>2 DEF Turns
  <2> QED BY <1>1, <2>1, <2>2, <2>3, <2>4, RaceTakeWord
<1>15. ASSUME NEW l \in Lanes, RaceAnswer(l) PROVE WordInv'
  <2>1. PICK raw \in Possible(l, ctx) : RaceTake(l, AnswerOf(l, raw))
    BY <1>15 DEF RaceAnswer
  <2>2. d.phase = "race" /\ call[l] = "out" /\ UNCHANGED cfg
    BY <1>15 DEF RaceAnswer
  <2>3. AnswerOf(l, raw) \in Answers
    BY <1>2, AnswerTyped
  <2> QED BY <2>1, <2>2, <2>3, RaceTakeWord
<1>16. ASSUME NEW l \in Lanes, StaleStart(l) \/ StaleReturn(l) \/ Elapse(l) PROVE WordInv'
  BY <1>3, <1>16 DEF StaleStart, StaleReturn, Elapse
<1>17. CASE Shutdown
  BY <1>3, <1>17 DEF Shutdown
<1>18. CASE UNCHANGED vars
  BY <1>3, <1>18 DEF vars
<1> QED BY <1>4, <1>5, <1>6, <1>7, <1>8, <1>9, <1>10, <1>11, <1>12, <1>13, <1>14, <1>15,
           <1>16, <1>17, <1>18 DEF Next, Step

(* "No word timing exists" is recorded only when every word-capable lane    *)
(* said so in this dispatch (ungatedWordAnswer, wordAnswerFor): the count   *)
(* of the answers is never above the lanes that gave one, since no lane is  *)
(* asked twice and a blocked lyric is taken back out of it.                 *)
THEOREM LanesAbsentIsUnanimous ==
    ASSUME WellConfigured, InstalledOnce PROVE Spec => []WordAbsentIsUnanimous
<1>1. Init => WordInv
  <2> SUFFICES ASSUME Init PROVE WordInv
    OBVIOUS
  <2>1. d = NewOf("main", "idle") /\ cfg \in Configs /\ call = [l \in Lanes |-> "none"]
    BY NewIsOne DEF Init
  <2> QED BY <2>1, FirstIsWord
<1>2. WordInv /\ [Next]_vars => WordInv'
  BY WordStep
<1>3. WordInv => WordAbsentIsUnanimous
  BY DEF WordInv
<1> QED BY <1>1, <1>2, <1>3, PTL DEF Spec

-----------------------------------------------------------------------------
(* A recorded miss is a provider's answer.  A dispatch that asked a         *)
(* provider and has no such answer keeps a song, or an error that outranks  *)
(* the detector's word; one that asked none skipped one, so that it comes   *)
(* to "unavailable" and not to the detector's word.                         *)
Answered(got) == \E l \in Range(Providers) : got[l] \in {"nomatch", "hollow", "blocked"}
Outranks(a) == a # "none" /\ precedence(ClassifyOutcome(a)) >= 3
Keeping(r) == \/ NoCand # r.best \/ NoCand # r.held \/ NoCand # r.gated
              \/ Outranks(r.top)
Grounded(r, got) ==
    /\ r.blocked \/ r.hollow \/ r.top \in {"nomatch", "hollow"} => Answered(got)
    /\ ClassifyOutcome(r.failed) = "transport"

MissInv ==
    /\ Dispatching =>
         /\ Grounded(d.r, d.got)
         /\ d.r.asked => \/ Answered(d.got) \/ Keeping(d.r)
                         \/ d.phase = "race" /\ NoCand # d.held
         /\ \/ ctx /\ d.phase = "race"
            \/ \A l \in Range(Providers) : d.got[l] # "none" => d.r.asked \/ d.r.skipped
    /\ d.phase = "ordered" =>
         /\ d.kind = "word" => d.r.top # "vocal"
         /\ \A j \in 1..Len(Sequence) :
               j < d.i => Sequence[j] = Detector \/ d.got[Sequence[j]] # "none"
    /\ d.phase = "race" =>
         /\ \A l \in Range(Providers) : call[l] # "none" \/ d.got[l] # "none"
         /\ d.r.asked \/ d.r.consulted = d.i
    /\ d.phase = "post" => d.r.asked
    /\ MissIsAnAnswer

(* What noting, consulting and absorbing an answer leave of the result. *)
LEMMA HeardNotes ==
    ASSUME d.r \in Results, NEW l, NEW a \in Answers
    PROVE  LET h == Heard(l, a)
           IN  /\ h.best = d.r.best /\ h.held = d.r.held /\ h.gated = d.r.gated
               /\ h.top = d.r.top /\ h.hollow = d.r.hollow /\ h.blocked = d.r.blocked
               /\ h.asked = d.r.asked /\ h.consulted = d.r.consulted
               /\ h.skipped = (d.r.skipped \/ (l # Detector /\ a = "unavailable"))
               /\ ClassifyOutcome(d.r.failed) = "transport" =>
                    ClassifyOutcome(h.failed) = "transport"
<1> DEFINE n == noteUntried(d.r, l, a)
           S(q) == /\ q.best = d.r.best /\ q.held = d.r.held /\ q.gated = d.r.gated
                   /\ q.top = d.r.top /\ q.hollow = d.r.hollow /\ q.blocked = d.r.blocked
                   /\ q.asked = d.r.asked /\ q.consulted = d.r.consulted
                   /\ q.skipped = (d.r.skipped \/ (l # Detector /\ a = "unavailable"))
                   /\ ClassifyOutcome(d.r.failed) = "transport" =>
                        ClassifyOutcome(q.failed) = "transport"
<1>1. ClassifyOutcome(a) = "unavailable" <=> a = "unavailable"
  BY DEF ClassifyOutcome, Songs
<1>2. S(n) /\ n \in Results
  <2>1. n \in Results
    <3>1. CASE l = Detector
      BY <3>1 DEF noteUntried
    <3>2. CASE l # Detector
      <4>1. n = [d.r EXCEPT !.answered = n.answered, !.skipped = n.skipped,
                            !.untried = n.untried, !.failed = n.failed]
        BY <3>2 DEF noteUntried, Results
      <4>2. /\ n.answered \in BOOLEAN /\ n.skipped \in BOOLEAN
            /\ n.untried \in BOOLEAN /\ n.failed \in Maybe(Answers)
        BY <3>2 DEF noteUntried, Results, Maybe
      <4> HIDE DEF n
      <4> QED BY <4>1, <4>2 DEF Results
    <3> QED BY <3>1, <3>2
  <2>2. CASE l = Detector
    BY <2>2 DEF noteUntried, Results
  <2>3. CASE l # Detector
    <3>1. n = [d.r EXCEPT !.answered = n.answered, !.skipped = n.skipped,
                          !.untried = n.untried, !.failed = n.failed]
      BY <2>3 DEF noteUntried, Results
    <3>2. /\ n.skipped = (d.r.skipped \/ a = "unavailable")
          /\ n.failed = d.r.failed \/ (n.failed = a /\ ClassifyOutcome(a) = "transport")
      BY <1>1, <2>3 DEF noteUntried, Results
    <3> HIDE DEF n
    <3>3. /\ n.best = d.r.best /\ n.held = d.r.held /\ n.gated = d.r.gated
          /\ n.top = d.r.top /\ n.hollow = d.r.hollow /\ n.blocked = d.r.blocked
          /\ n.asked = d.r.asked /\ n.consulted = d.r.consulted
      BY <3>1 DEF Results
    <3> QED BY <2>1, <2>3, <3>2, <3>3
  <2> QED BY <2>1, <2>2, <2>3
<1> HIDE DEF n
<1>3. Heard(l, a) = [n EXCEPT !.word = @ + (IF answersWord(l, a) THEN 1 ELSE 0)]
  BY DEF Heard, n
<1>4. S(Heard(l, a))
  BY <1>2, <1>3 DEF Results
<1> QED BY <1>4

LEMMA ConsultNotes ==
    ASSUME NEW r \in Results, NEW l
    PROVE  LET c == consult(r, l)
           IN  /\ c.best = r.best /\ c.held = r.held /\ c.gated = r.gated
               /\ c.top = r.top /\ c.hollow = r.hollow /\ c.blocked = r.blocked
               /\ c.failed = r.failed /\ c.skipped = r.skipped
               /\ c.consulted = r.consulted + 1
               /\ c.asked = (r.asked \/ l # Detector)
BY DEF consult, Results

LEMMA ErrorRanked ==
    ASSUME NEW r \in Results, NEW a \in Errors
    PROVE  LET q == rankErr(r, a)
           IN  /\ q.best = r.best /\ q.held = r.held /\ q.gated = r.gated
               /\ q.blocked = r.blocked /\ q.failed = r.failed
               /\ q.skipped = r.skipped /\ q.asked = r.asked /\ q.consulted = r.consulted
               /\ q.hollow = (r.hollow \/ a = "hollow")
               /\ q.top \in {r.top, a} \/ (q.top = "hollow" /\ q.hollow)
               /\ Outranks(r.top) \/ Outranks(a) => Outranks(q.top)
<1> DEFINE hollow == r.hollow \/ a = "hollow"
           c == ClassifyOutcome(a)
           k == ClassifyOutcome(r.top)
           top == IF \/ r.top = "none" \/ precedence(c) > precedence(k)
                     \/ a = "hollow" /\ k = "miss"
                  THEN a ELSE r.top
           new == IF hollow /\ precedence(ClassifyOutcome(top)) = 2 THEN "hollow" ELSE top
           q == rankErr(r, a)
<1>1. q = [r EXCEPT !.hollow = hollow, !.top = new]
  BY DEF rankErr
<1>2. \A x : precedence(x) \in 0..4
  BY DEF precedence
<1>3. a # "none"
  BY DEF Errors
<1>4. precedence("miss") = 1
  BY DEF precedence
<1>5. new \in {r.top, a} \/ (new = "hollow" /\ hollow)
  OBVIOUS
<1>6. Outranks(r.top) \/ Outranks(a) => Outranks(new)
  <2>1. a = "hollow" /\ k = "miss" => ~Outranks(r.top) /\ ~Outranks(a)
    BY <1>4 DEF Outranks, ClassifyOutcome, Songs
  <2>2. Outranks(r.top) \/ Outranks(a) => Outranks(top)
    <3> HIDE DEF c, k
    <3>1. Outranks(a) <=> precedence(c) >= 3
      BY <1>3 DEF Outranks, c
    <3>2. Outranks(r.top) <=> r.top # "none" /\ precedence(k) >= 3
      BY DEF Outranks, k
    <3>3. precedence(c) \in 0..4 /\ precedence(k) \in 0..4
      BY <1>2
    <3> QED BY <2>1, <3>1, <3>2, <3>3
  <2>3. Outranks(top) => new = top
    BY DEF Outranks
  <2> QED BY <2>2, <2>3
<1> HIDE DEF new, hollow, q
<1>7. /\ q.best = r.best /\ q.held = r.held /\ q.gated = r.gated
      /\ q.blocked = r.blocked /\ q.failed = r.failed
      /\ q.skipped = r.skipped /\ q.asked = r.asked /\ q.consulted = r.consulted
      /\ q.hollow = hollow /\ q.top = new
  BY <1>1 DEF Results
<1> QED BY <1>5, <1>6, <1>7 DEF q, hollow

LEMMA AbsorbedNotes ==
    ASSUME NEW r \in Results, NEW l, NEW a \in Answers, NEW o \in BOOLEAN
    PROVE  LET q == Absorbed(r, l, a, o)
           IN  /\ q.failed = r.failed /\ q.skipped = r.skipped /\ q.asked = r.asked
               /\ q.consulted = r.consulted
               /\ q.blocked => r.blocked \/ a = "blocked"
               /\ q.hollow => r.hollow \/ a = "hollow"
               /\ \/ q.top = r.top \/ q.top = a
                  \/ q.top = "hollow" /\ (r.hollow \/ a = "hollow")
               /\ Keeping(r) => Keeping(q)
               /\ a \in Songs /\ classifyCandidate(a) \in {"retain", "refuse"} => Keeping(q)
               /\ a \notin Songs /\ Outranks(a) => Keeping(q)
<1> DEFINE S(q) == /\ q.failed = r.failed /\ q.skipped = r.skipped /\ q.asked = r.asked
                   /\ q.consulted = r.consulted
                   /\ q.blocked => r.blocked \/ a = "blocked"
                   /\ q.hollow => r.hollow \/ a = "hollow"
                   /\ \/ q.top = r.top \/ q.top = a
                      \/ q.top = "hollow" /\ (r.hollow \/ a = "hollow")
                   /\ Keeping(r) => Keeping(q)
<1>1. S(r)
  OBVIOUS
<1>2. CASE a \notin Songs
  <2> DEFINE n == noteTransport(r, a, o)
             q == rankErr(n, a)
  <2>1. /\ n.best = r.best /\ n.held = r.held /\ n.gated = r.gated /\ n.top = r.top
        /\ n.hollow = r.hollow /\ n.blocked = r.blocked /\ n.failed = r.failed
        /\ n.skipped = r.skipped /\ n.asked = r.asked /\ n.consulted = r.consulted
        /\ n \in Results
    <3>1. /\ n = [r EXCEPT !.unbounded = n.unbounded] /\ n.unbounded \in BOOLEAN
      BY DEF noteTransport, Results
    <3> HIDE DEF n
    <3> QED BY <3>1 DEF Results
  <2> HIDE DEF n
  <2>2. a \in Errors
    BY <1>2 DEF Answers
  <2>3. /\ q.best = n.best /\ q.held = n.held /\ q.gated = n.gated
        /\ q.blocked = n.blocked /\ q.failed = n.failed
        /\ q.skipped = n.skipped /\ q.asked = n.asked /\ q.consulted = n.consulted
        /\ q.hollow = (n.hollow \/ a = "hollow")
        /\ q.top \in {n.top, a} \/ (q.top = "hollow" /\ q.hollow)
        /\ Outranks(n.top) \/ Outranks(a) => Outranks(q.top)
    BY <2>1, <2>2, ErrorRanked
  <2> HIDE DEF q
  <2>4. S(q) /\ (Outranks(a) => Keeping(q))
    BY <2>1, <2>3 DEF Keeping
  <2>5. Absorbed(r, l, a, o) = q
    BY <1>2 DEF Absorbed, q, n
  <2> QED BY <1>2, <2>4, <2>5
<1>3. CASE a \in Songs /\ classifyCandidate(a) = "blocked"
  <2> DEFINE q == Blocked(r, l, a)
  <2>1. q = [r EXCEPT !.blocked = TRUE, !.att = q.att, !.word = q.word]
    BY DEF Blocked, Results
  <2> HIDE DEF q
  <2>2. /\ q.best = r.best /\ q.held = r.held /\ q.gated = r.gated /\ q.top = r.top
        /\ q.hollow = r.hollow /\ q.failed = r.failed
        /\ q.skipped = r.skipped /\ q.asked = r.asked /\ q.consulted = r.consulted
    BY <2>1 DEF Results
  <2>3. a = "blocked"
    BY <1>3 DEF classifyCandidate
  <2>4. S(q)
    BY <2>2, <2>3 DEF Keeping
  <2>5. Absorbed(r, l, a, o) = q
    BY <1>3 DEF Absorbed, q
  <2> QED BY <1>3, <2>4, <2>5
<1>4. CASE a \in Songs /\ classifyCandidate(a) \in {"retain", "refuse"}
  <2> DEFINE q == retainCandidate(r, l, a)
             c == [lane |-> l, ans |-> a]
  <2>1. NoCand # c
    <3>1. NoCand.ans = "none" /\ c.ans = a /\ a # "none"
      BY DEF NoCand, Answers, Songs, Errors
    <3> QED BY <3>1
  <2>2. (q = r /\ NoCand # r.best) \/ q = [r EXCEPT !.best = c]
    BY DEF retainCandidate
  <2> HIDE DEF q, c
  <2>3. /\ q.held = r.held /\ q.gated = r.gated /\ q.top = r.top
        /\ q.hollow = r.hollow /\ q.failed = r.failed /\ q.blocked = r.blocked
        /\ q.skipped = r.skipped /\ q.asked = r.asked /\ q.consulted = r.consulted
        /\ NoCand # q.best
    BY <2>1, <2>2 DEF Results
  <2>4. S(q) /\ Keeping(q)
    BY <2>3 DEF Keeping
  <2>5. Absorbed(r, l, a, o) = q
    BY <1>4 DEF Absorbed, q
  <2> QED BY <1>4, <2>4, <2>5
<1>5. CASE a \in Songs /\ classifyCandidate(a) \notin {"blocked", "retain", "refuse"}
  <2>1. Absorbed(r, l, a, o) = r
    BY <1>5 DEF Absorbed
  <2> QED BY <1>1, <1>5, <2>1
<1> QED BY <1>2, <1>3, <1>4, <1>5

(* What taking in lane l's answer makes of the founding of the result: the  *)
(* part both modes share.                                                   *)
Takes(q, l, a) ==
    /\ q.skipped = (d.r.skipped \/ (l # Detector /\ a = "unavailable"))
    /\ ClassifyOutcome(d.r.failed) = "transport" => ClassifyOutcome(q.failed) = "transport"
    /\ q.blocked => d.r.blocked \/ a = "blocked"
    /\ q.hollow => d.r.hollow \/ a = "hollow"
    /\ \/ q.top = d.r.top \/ q.top = a
       \/ q.top = "hollow" /\ (d.r.hollow \/ a = "hollow")
    /\ Keeping(d.r) => Keeping(q)

(* The answers of a provider that are no misses.                            *)
LEMMA NoMiss ==
    ASSUME NEW a \in Answers \ {"nomatch", "hollow", "blocked", "vocal", "notready", "outage"}
    PROVE  \/ a \in Songs /\ classifyCandidate(a) \in {"retain", "refuse", "commit", "hold"}
           \/ a \notin Songs /\ Outranks(a)
<1>1. CASE a \in Songs
  BY <1>1 DEF classifyCandidate
<1>2. CASE a \notin Songs
  BY <1>2 DEF Answers, Errors, Outranks, ClassifyOutcome, precedence, Songs
<1> QED BY <1>1, <1>2

LEMMA TakenIsGrounded ==
    ASSUME WellConfigured, d \in Dispatches, NEW l \in Lanes, NEW a \in Answers, NEW q,
           Grounded(d.r, d.got), Takes(q, l, a),
           IF l = Detector THEN a \notin {"nomatch", "hollow", "blocked"}
           ELSE d.got[l] = "none"
    PROVE  LET got == [d.got EXCEPT ![l] = a]
           IN  /\ Grounded(q, got)
               /\ Answered(d.got) => Answered(got)
               /\ l # Detector /\ a \in {"nomatch", "hollow", "blocked"} => Answered(got)
<1> DEFINE got == [d.got EXCEPT ![l] = a]
<1>1. \A m \in Lanes : got[m] = IF m = l THEN a ELSE d.got[m]
  BY GotTyped
<1>2. Range(Providers) \subseteq Lanes /\ Detector \notin Range(Providers)
      /\ (l # Detector => l \in Range(Providers))
  BY DEF Lanes, WellConfigured
<1> HIDE DEF got
<1>3. Answered(d.got) => Answered(got)
  BY <1>1, <1>2 DEF Answered
<1>4. l # Detector /\ a \in {"nomatch", "hollow", "blocked"} => Answered(got)
  BY <1>1, <1>2 DEF Answered
<1>5. Grounded(q, got)
  BY <1>3, <1>4 DEF Grounded, Takes
<1> QED BY <1>3, <1>4, <1>5 DEF got

LEMMA HeardTakes ==
    ASSUME d.r \in Results, NEW l, NEW a \in Answers
    PROVE  LET h == Heard(l, a)
           IN  /\ h \in Results /\ Takes(h, l, a)
               /\ h.asked = d.r.asked /\ h.consulted = d.r.consulted
<1> DEFINE h == Heard(l, a)
<1>1. h \in Results
  BY HeardKeeps
<1>2. /\ h.best = d.r.best /\ h.held = d.r.held /\ h.gated = d.r.gated
      /\ h.top = d.r.top /\ h.hollow = d.r.hollow /\ h.blocked = d.r.blocked
      /\ h.asked = d.r.asked /\ h.consulted = d.r.consulted
      /\ h.skipped = (d.r.skipped \/ (l # Detector /\ a = "unavailable"))
      /\ ClassifyOutcome(d.r.failed) = "transport" => ClassifyOutcome(h.failed) = "transport"
  BY HeardNotes
<1> HIDE DEF h
<1>3. Takes(h, l, a)
  BY <1>2 DEF Takes, Keeping
<1> QED BY <1>1, <1>2, <1>3 DEF h

LEMMA ConsultTakes ==
    ASSUME NEW r \in Results, NEW l \in Lanes, NEW a, Takes(r, l, a)
    PROVE  LET c == consult(r, l)
           IN  c \in Results /\ Takes(c, l, a) /\ c.asked = (r.asked \/ l # Detector)
<1> DEFINE c == consult(r, l)
<1>1. c \in Results
  BY ConsultKeeps
<1>2. /\ c.best = r.best /\ c.held = r.held /\ c.gated = r.gated
      /\ c.top = r.top /\ c.hollow = r.hollow /\ c.blocked = r.blocked
      /\ c.failed = r.failed /\ c.skipped = r.skipped
      /\ c.asked = (r.asked \/ l # Detector)
  BY ConsultNotes
<1> HIDE DEF c
<1>3. Takes(c, l, a)
  BY <1>2 DEF Takes, Keeping
<1> QED BY <1>1, <1>2, <1>3 DEF c

LEMMA AbsorbedTakes ==
    ASSUME NEW r \in Results, NEW l \in Lanes, NEW a \in Answers, NEW o \in BOOLEAN,
           Takes(r, l, a)
    PROVE  LET q == Absorbed(r, l, a, o)
           IN  /\ q \in Results /\ Takes(q, l, a) /\ q.asked = r.asked
               /\ Keeping(r) => Keeping(q)
               /\ a \in Songs /\ classifyCandidate(a) \in {"retain", "refuse"} => Keeping(q)
               /\ a \notin Songs /\ Outranks(a) => Keeping(q)
<1> DEFINE q == Absorbed(r, l, a, o)
<1>1. q \in Results
  BY AbsorbedKeeps
<1>2. /\ q.failed = r.failed /\ q.skipped = r.skipped /\ q.asked = r.asked
      /\ q.blocked => r.blocked \/ a = "blocked"
      /\ q.hollow => r.hollow \/ a = "hollow"
      /\ \/ q.top = r.top \/ q.top = a
         \/ q.top = "hollow" /\ (r.hollow \/ a = "hollow")
      /\ Keeping(r) => Keeping(q)
      /\ a \in Songs /\ classifyCandidate(a) \in {"retain", "refuse"} => Keeping(q)
      /\ a \notin Songs /\ Outranks(a) => Keeping(q)
  BY AbsorbedNotes
<1> HIDE DEF q
<1>3. Takes(q, l, a)
  BY <1>2 DEF Takes
<1> QED BY <1>1, <1>2, <1>3 DEF q

LEMMA OrderedNextTakes ==
    ASSUME d.r \in Results, NEW l \in Lanes, NEW a \in Answers, NEW o \in BOOLEAN
    PROVE  LET q == OrderedNext(l, a, o)
           IN  /\ Takes(q, l, a)
               /\ q.asked = (d.r.asked \/ (l # Detector /\ a # "unavailable"))
               /\ a \notin {"nomatch", "hollow", "blocked", "vocal", "notready", "outage",
                            "unavailable"} => Keeping(q)
<1> DEFINE h == Heard(l, a)
           c == consult(h, l)
           q == OrderedNext(l, a, o)
           w == [lane |-> l, ans |-> a]
           S(x) == /\ Takes(x, l, a)
                   /\ x.asked = (d.r.asked \/ (l # Detector /\ a # "unavailable"))
                   /\ a \notin {"nomatch", "hollow", "blocked", "vocal", "notready", "outage",
                                "unavailable"} => Keeping(x)
<1>1. h \in Results /\ Takes(h, l, a) /\ h.asked = d.r.asked /\ d.r.asked \in BOOLEAN
  BY HeardTakes DEF Results
<1>2. q = IF a = "unavailable" THEN h
          ELSE CASE OrderedCommits(h, a) -> gate(c, l, a)
                 [] a = "demoted" -> hold(c, l, a)
                 [] OTHER -> Absorbed(c, l, a, o)
  BY DEF OrderedNext
<1> HIDE DEF h, q
<1>3. /\ c \in Results /\ Takes(c, l, a) /\ c.asked = (d.r.asked \/ l # Detector)
      /\ c.held = h.held
  BY <1>1, ConsultTakes, ConsultNotes
<1> HIDE DEF c
<1>4. NoCand # w
  <2>1. NoCand.ans = "none" /\ w.ans = a /\ a # "none"
    BY DEF NoCand, Answers, Songs, Errors
  <2> HIDE DEF w
  <2> QED BY <2>1
<1>5. ASSUME a = "unavailable" PROVE S(q)
  BY <1>1, <1>2, <1>5
<1>6. ASSUME a # "unavailable", OrderedCommits(h, a) PROVE S(q)
  <2>1. q = gate(c, l, a)
    <3>1. a # "demoted"
      BY <1>6 DEF OrderedCommits, classifyCandidate
    <3> QED BY <1>2, <1>6, <3>1
  <2>2. (q = c /\ NoCand # c.gated) \/ q = [c EXCEPT !.gated = w]
    BY <2>1 DEF gate
  <2> HIDE DEF w, S
  <2>3. /\ q.top = c.top /\ q.hollow = c.hollow /\ q.failed = c.failed
        /\ q.blocked = c.blocked /\ q.skipped = c.skipped /\ q.asked = c.asked
        /\ NoCand # q.gated
    BY <1>3, <1>4, <2>2 DEF Results
  <2> QED BY <1>3, <1>6, <2>3 DEF S, Takes, Keeping
<1>7. ASSUME a # "unavailable", ~OrderedCommits(h, a), a = "demoted" PROVE S(q)
  <2>1. q = hold(c, l, a)
    BY <1>2, <1>7
  <2>2. (q = c /\ NoCand # c.held) \/ q = [c EXCEPT !.held = w]
    BY <2>1 DEF hold
  <2> HIDE DEF w, S
  <2>3. /\ q.top = c.top /\ q.hollow = c.hollow /\ q.failed = c.failed
        /\ q.blocked = c.blocked /\ q.skipped = c.skipped /\ q.asked = c.asked
        /\ NoCand # q.held
    BY <1>3, <1>4, <2>2 DEF Results
  <2> QED BY <1>3, <1>7, <2>3 DEF S, Takes, Keeping
<1>8. ASSUME a # "unavailable", ~OrderedCommits(h, a), a # "demoted" PROVE S(q)
  <2>1. q = Absorbed(c, l, a, o)
    BY <1>2, <1>8
  <2>2. /\ q.asked = c.asked /\ Takes(q, l, a)
        /\ Keeping(c) => Keeping(q)
        /\ a \in Songs /\ classifyCandidate(a) \in {"retain", "refuse"} => Keeping(q)
        /\ a \notin Songs /\ Outranks(a) => Keeping(q)
    BY <1>3, <2>1, AbsorbedTakes
  <2>4. classifyCandidate(a) # "hold"
    BY <1>8 DEF classifyCandidate
  <2>5. a \in Songs /\ classifyCandidate(a) = "commit" => NoCand # c.held
    BY <1>3, <1>8 DEF OrderedCommits
  <2>6. ASSUME a \notin {"nomatch", "hollow", "blocked", "vocal", "notready", "outage",
                         "unavailable"}
        PROVE  Keeping(q)
    <3>1. \/ a \in Songs /\ classifyCandidate(a) \in {"retain", "refuse", "commit"}
          \/ a \notin Songs /\ Outranks(a)
      BY <2>4, <2>6, NoMiss
    <3>2. NoCand # c.held => Keeping(c)
      BY DEF Keeping
    <3> QED BY <2>2, <2>5, <3>1, <3>2
  <2> QED BY <1>3, <1>8, <2>2, <2>6
<1> HIDE DEF S
<1>9. S(q)
  BY <1>5, <1>6, <1>7, <1>8
<1> QED BY <1>9 DEF S, q

(* What a dispatch that nobody won comes to is a miss only on an answer.    *)
LEMMA ResolveMiss ==
    ASSUME NEW r \in Results, NEW got, Grounded(r, got),
           r.asked => Answered(got) \/ Keeping(r),
           ~r.asked => r.skipped \/ r.top # "vocal",
           resolve(r).kind = "err", ClassifyOutcome(resolve(r).ans) = "miss"
    PROVE  Answered(got)
<1> SUFFICES ASSUME ~Answered(got) PROVE FALSE
  OBVIOUS
<1>1. /\ ~r.blocked /\ ~r.hollow /\ r.top \notin {"nomatch", "hollow"}
      /\ r.asked => Keeping(r)
  BY DEF Grounded
<1>2. NoCand = r.gated /\ NoCand = r.held /\ NoCand = r.best
  <2>1. \A c, w : Song(c, w).kind = "song"
    BY DEF Song
  <2>2. CASE NoCand # r.gated /\ (NoCand = r.held \/ landedQuality(r.gated.ans) >= 2)
    <3>1. resolve(r) = Song(r.gated, WordAnswerOf(r.gated.ans))
      BY <2>2 DEF resolve
    <3> QED BY <2>1, <3>1
  <2>3. CASE ~(NoCand # r.gated /\ (NoCand = r.held \/ landedQuality(r.gated.ans) >= 2))
    <3>1. CASE NoCand # r.held
      <4>1. resolve(r) = Song(r.held, WordAnswerOf(r.held.ans))
        BY <2>3, <3>1 DEF resolve
      <4> QED BY <2>1, <4>1
    <3>2. CASE NoCand = r.held /\ NoCand # r.best
      <4>1. resolve(r).kind \in {"song", "refuseduntried"}
        BY <2>3, <3>2 DEF resolve, Song
      <4> QED BY <4>1
    <3> QED BY <2>3, <3>1, <3>2
  <2> QED BY <2>2, <2>3
<1>3. \A a : Err(a).ans = a
  BY DEF Err, NoOut
<1>4. ClassifyOutcome("ctx") # "miss" /\ ClassifyOutcome("unavailable") # "miss"
      /\ ClassifyOutcome("partial") # "miss"
  BY DEF ClassifyOutcome, Songs
<1>5. ~noProviderAsked(r)
  <2> SUFFICES ASSUME noProviderAsked(r) PROVE FALSE
    OBVIOUS
  <2>1. resolve(r) = Err(IF ctx THEN "ctx" ELSE "unavailable")
    BY <1>2 DEF resolve
  <2> QED BY <1>3, <1>4, <2>1
<1>6. resolve(r) \in {Err("unavailable"), Err("partial"), Err(r.top)}
  <2>1. resolve(r) = IF r.top = "none" THEN Err("unavailable")
                     ELSE IF ClassifyOutcome(r.top) = "transport" /\ r.answered /\ ~r.unbounded
                       THEN Err("partial")
                     ELSE Err(r.top)
    BY <1>1, <1>2, <1>5 DEF resolve
  <2> QED BY <2>1
<1>7. ClassifyOutcome(r.top) = "miss"
  BY <1>1, <1>3, <1>4, <1>6
<1>8. r.asked \/ ~r.skipped
  BY <1>5 DEF noProviderAsked
<1>9. r.asked => Outranks(r.top)
  BY <1>1, <1>2 DEF Keeping
<1>10. ~Outranks(r.top)
  BY <1>7 DEF Outranks, precedence
<1>11. r.top # "allblocked"
  BY DEF Results, Maybe, Answers, Songs, Errors
<1>12. r.top = "vocal"
  BY <1>1, <1>7, <1>11 DEF ClassifyOutcome, Songs
<1> QED BY <1>8, <1>9, <1>10, <1>12

(* Who asks what. *)
LEMMA WhoIsAsked ==
    ASSUME WellConfigured, InstalledOnce, d \in Dispatches
    PROVE  /\ Range(Providers) = Lanes \ {Detector} /\ Detector \in Lanes
           /\ d.kind = "word" => \A j \in 1..Len(Sequence) : Sequence[j] # Detector
           /\ d.kind = "main" =>
                \E j \in 1..Len(Sequence) : Sequence[j] \in Range(Providers)
<1>1. Range(Providers) = Lanes \ {Detector} /\ Detector \in Lanes
  BY DEF Lanes, WellConfigured
<1>2. ASSUME d.kind = "word", NEW j \in 1..Len(Sequence) PROVE Sequence[j] # Detector
  <2>1. Sequence = WordOrder /\ WordOrder \in Seq(WordLanes)
    BY <1>2 DEF Sequence, InstalledOnce
  <2> HIDE DEF WordOrder
  <2>2. Sequence[j] \in WordLanes
    BY <2>1
  <2> QED BY <1>1, <2>2 DEF InstalledOnce
<1>3. ASSUME d.kind = "main"
      PROVE  \E j \in 1..Len(Sequence) : Sequence[j] \in Range(Providers)
  <2>1. Sequence = Order
    BY <1>3 DEF Sequence
  <2>2. Providers \in Seq(Lanes) /\ Len(Providers) \in Nat \ {0}
    BY DEF InstalledOnce, WellConfigured
  <2>3. Providers[1] \in Range(Providers)
    BY <2>2 DEF Range
  <2>4. Dets = <<>> \/ Dets = <<Detector>>
    BY DEF Dets
  <2>5. CASE Order = <<>> \o Providers \/ Order = Providers \o <<>>
    <3>1. Order = Providers
      BY <2>2, <2>5
    <3>2. 1 \in 1..Len(Sequence) /\ Sequence[1] = Providers[1]
      BY <2>1, <2>2, <3>1
    <3> QED BY <2>3, <3>2
  <2>6. CASE Order = Providers \o <<Detector>>
    <3>1. 1 \in 1..Len(Sequence) /\ Sequence[1] = Providers[1]
      BY <1>1, <2>1, <2>2, <2>6
    <3> QED BY <2>3, <3>1
  <2>7. CASE Order = <<Detector>> \o Providers
    <3>1. 2 \in 1..Len(Sequence) /\ Sequence[2] = Providers[1]
      BY <1>1, <2>1, <2>2, <2>7
    <3> QED BY <2>3, <3>1
  <2> QED BY <2>4, <2>5, <2>6, <2>7 DEF Order
<1> QED BY <1>1, <1>2, <1>3

LEMMA FinishMiss ==
    ASSUME d \in Dispatches, NEW r \in Results,
           NEW got \in [Lanes -> Maybe(Answers)], NEW out \in Outs, d' = Done(r, got, out),
           out.kind = "err" /\ ClassifyOutcome(out.ans) = "miss" => Answered(got)
    PROVE  MissInv'
<1>1. d'.phase = "done" /\ d'.got = got /\ d'.out = out
  BY DoneIs
<1>2. MissIsAnAnswer'
  BY <1>1 DEF MissIsAnAnswer, Answered
<1> QED BY <1>1, <1>2 DEF MissInv, Dispatching

LEMMA CtxIsNoMiss ==
    /\ Err("ctx") \in Outs
    /\ ~(Err("ctx").kind = "err" /\ ClassifyOutcome(Err("ctx").ans) = "miss")
BY DEF Err, NoOut, Outs, Maybe, ClassifyOutcome, Songs

LEMMA SongIsNoMiss ==
    ASSUME NEW l \in Lanes, NEW a \in Songs, NEW w \in {"served", "absent", "unknown"}
    PROVE  LET s == Song([lane |-> l, ans |-> a], w) IN s \in Outs /\ s.kind # "err"
BY DEF Song, Outs, Maybe, Answers

LEMMA OrderedTakeMiss ==
    ASSUME WordInv, MissInv, WellConfigured, InstalledOnce, UNCHANGED cfg,
           d.phase = "ordered", d.i \in 1..Len(Sequence), NEW l, l = Sequence[d.i],
           NEW a \in Answers, OrderedTake(l, a),
           IF l = Detector THEN a \notin {"nomatch", "hollow", "blocked"}
           ELSE a \notin {"vocal", "notready", "outage"}
    PROVE  MissInv'
<1> DEFINE got == [d.got EXCEPT ![l] = a]
           q == OrderedNext(l, a, LaneOpen(l))
<1>0. /\ \A j \in 1..Len(Sequence) : Sequence[j] \in Lanes
      /\ \A i, j \in 1..Len(Sequence) : Sequence[i] = Sequence[j] => i = j
      /\ Len(Sequence) \in Nat
  BY SequenceOnce
<1>1. /\ got \in [Lanes -> Maybe(Answers)]
      /\ \A m \in Lanes : got[m] = IF m = l THEN a ELSE d.got[m]
  BY GotTyped DEF WordInv
<1>2. /\ d \in Dispatches /\ d.r \in Results /\ d.i \in Int /\ d.kind \in {"main", "word"}
      /\ l \in Lanes /\ d.got[l] = "none" /\ LaneOpen(l) \in BOOLEAN
      /\ d.r.asked \in BOOLEAN /\ d.r.skipped \in BOOLEAN
  BY <1>0 DEF WordInv, Dispatches, Turns, LaneOpen, Results
<1>3. /\ Grounded(d.r, d.got)
      /\ d.r.asked => Answered(d.got) \/ Keeping(d.r)
      /\ \A m \in Range(Providers) : d.got[m] # "none" => d.r.asked \/ d.r.skipped
      /\ d.kind = "word" => d.r.top # "vocal"
      /\ \A j \in 1..Len(Sequence) :
            j < d.i => Sequence[j] = Detector \/ d.got[Sequence[j]] # "none"
  BY DEF MissInv, Dispatching
<1>4. CASE OrderedCommits(d.r, a) /\ QualityOf(a) >= MinCommit
  <2> DEFINE h == Heard(l, a)
             b == consult(h, l)
             v == IF MinCommit > 0 /\ WordAnswerOf(a) # "served" THEN wordAnswerFor(h.word)
                  ELSE WordAnswerOf(a)
             u == ungatedWordAnswer(v, h.word)
             out == Song([lane |-> l, ans |-> a], u)
  <2>1. a \in Songs
    BY <1>4 DEF OrderedCommits
  <2>2. d' = Done(b, got, out)
    BY <1>4 DEF OrderedTake, CommitWord
  <2>3. h \in Results
    BY <1>2, HeardKeeps
  <2>4. b \in Results
    BY <1>2, <2>3, ConsultKeeps
  <2>5. v \in {"served", "absent", "unknown"}
    BY DEF wordAnswerFor, WordAnswerOf
  <2> HIDE DEF v, h, got, b
  <2>6. u \in {"served", "absent", "unknown"}
    BY <2>5, WordTyped
  <2> HIDE DEF u
  <2>7. out \in Outs /\ out.kind # "err"
    BY <1>2, <2>1, <2>6, SongIsNoMiss
  <2> HIDE DEF out
  <2> QED BY <1>1, <1>2, <2>2, <2>4, <2>7, FinishMiss
<1>5. CASE ~(OrderedCommits(d.r, a) /\ QualityOf(a) >= MinCommit)
  <2>1. d' = [d EXCEPT !.r = q, !.got = got, !.i = @ + 1]
    BY <1>5 DEF OrderedTake
  <2>2. /\ q \in Results /\ Takes(q, l, a)
        /\ q.asked = (d.r.asked \/ (l # Detector /\ a # "unavailable"))
        /\ a \notin {"nomatch", "hollow", "blocked", "vocal", "notready", "outage",
                     "unavailable"} => Keeping(q)
    BY <1>2, OrderedNextKeeps, OrderedNextTakes
  <2>3. /\ Grounded(q, got)
        /\ Answered(d.got) => Answered(got)
        /\ l # Detector /\ a \in {"nomatch", "hollow", "blocked"} => Answered(got)
    BY <1>2, <1>3, <2>2, TakenIsGrounded
  <2> HIDE DEF q, got
  <2>4. d'.phase = "ordered" /\ d'.r = q /\ d'.got = got /\ d'.kind = d.kind /\ d'.i = d.i + 1
    BY <1>1, <1>2, <2>1, <2>2 DEF Dispatches
  <2>5. Sequence' = Sequence
    BY <2>4 DEF Sequence, Order, Dets
  <2>6. q.asked => Answered(got) \/ Keeping(q)
    <3>1. CASE d.r.asked
      BY <1>3, <2>2, <2>3, <3>1 DEF Takes
    <3>2. CASE ~d.r.asked
      BY <2>2, <2>3, <3>2
    <3> QED BY <3>1, <3>2
  <2>7. ASSUME NEW m \in Range(Providers), got[m] # "none" PROVE q.asked \/ q.skipped
    <3>1. m \in Lanes \ {Detector}
      BY <1>2, WhoIsAsked
    <3>2. q.skipped = (d.r.skipped \/ (l # Detector /\ a = "unavailable"))
      BY <2>2 DEF Takes
    <3>3. CASE m = l
      BY <2>2, <3>1, <3>2, <3>3
    <3>4. CASE m # l
      <4>1. d.r.asked \/ d.r.skipped
        BY <1>1, <1>3, <2>7, <3>1, <3>4
      <4> QED BY <2>2, <3>2, <4>1
    <3> QED BY <3>3, <3>4
  <2>8. d.kind = "word" => q.top # "vocal"
    <3> SUFFICES ASSUME d.kind = "word" PROVE q.top # "vocal"
      OBVIOUS
    <3>1. l # Detector
      BY <1>2, WhoIsAsked
    <3> QED BY <1>3, <2>2, <3>1 DEF Takes
  <2>9. ASSUME NEW j \in 1..Len(Sequence), j < d.i + 1
        PROVE  Sequence[j] = Detector \/ got[Sequence[j]] # "none"
    <3>1. CASE j = d.i
      <4>1. a # "none"
        BY DEF Answers, Songs, Errors
      <4> QED BY <1>1, <1>2, <3>1, <4>1
    <3>2. CASE j < d.i
      <4>1. Sequence[j] \in Lanes /\ Sequence[j] # l
        BY <1>0, <3>2
      <4> QED BY <1>1, <1>3, <3>2, <4>1
    <3> QED BY <1>0, <1>2, <2>9, <3>1, <3>2
  <2> QED BY <2>3, <2>4, <2>5, <2>6, <2>7, <2>8, <2>9
         DEF MissInv, Dispatching, MissIsAnAnswer, Ended
<1> QED BY <1>4, <1>5

LEMMA FinishParallelMiss ==
    ASSUME d \in Dispatches, NEW r \in Results, NEW got \in [Lanes -> Maybe(Answers)],
           Grounded(r, got), r.asked => Answered(got) \/ Keeping(r), r.asked \/ r.skipped,
           d' = finishParallel(r, got)
    PROVE  MissInv'
<1> DEFINE w == ungatedWordAnswer(resolve(r).word, r.word)
           o == [resolve(r) EXCEPT !.word = w]
<1>1. resolve(r) \in Outs /\ resolve(r).word \in {"served", "absent", "unknown"}
  BY ResolveGives DEF Outs
<1>2. w \in {"served", "absent", "unknown"}
  BY <1>1, WordTyped
<1>3. d' = Done(r, got, o)
  BY DEF finishParallel
<1> HIDE DEF w
<1>4. o \in Outs /\ o.kind = resolve(r).kind /\ o.ans = resolve(r).ans
  BY <1>2, ResolvedOut
<1> HIDE DEF o
<1>5. o.kind = "err" /\ ClassifyOutcome(o.ans) = "miss" => Answered(got)
  BY <1>4, ResolveMiss
<1> QED BY <1>3, <1>4, <1>5, FinishMiss

LEMMA StagedTakeMiss ==
    ASSUME WordInv, MissInv, WellConfigured, InstalledOnce, UNCHANGED cfg,
           d.phase \in {"pre", "post"}, NEW a \in Answers, a \in Songs => a = "inst",
           a \notin {"nomatch", "hollow", "blocked"}, StagedTake(a)
    PROVE  MissInv'
<1> DEFINE got == [d.got EXCEPT ![Detector] = a]
           h == Heard(Detector, a)
           c == consult(h, Detector)
           r == IF a = "unavailable" THEN h ELSE Absorbed(c, Detector, a, LaneOpen(Detector))
<1>1. /\ got \in [Lanes -> Maybe(Answers)]
      /\ \A m \in Lanes : got[m] = IF m = Detector THEN a ELSE d.got[m]
  BY GotTyped DEF WordInv
<1>2. /\ d \in Dispatches /\ d.r \in Results /\ LaneOpen(Detector) \in BOOLEAN
      /\ d.r.asked \in BOOLEAN
      /\ Range(Providers) = Lanes \ {Detector} /\ Detector \in Lanes
      /\ Grounded(d.r, d.got)
      /\ d.r.asked => Answered(d.got) \/ Keeping(d.r)
  BY WhoIsAsked DEF WordInv, MissInv, Dispatches, Dispatching, LaneOpen, Results
<1>3. h \in Results /\ Takes(h, Detector, a) /\ h.asked = d.r.asked
  BY <1>2, HeardTakes
<1> HIDE DEF h
<1>4. c \in Results /\ Takes(c, Detector, a) /\ c.asked = d.r.asked
  BY <1>2, <1>3, ConsultTakes
<1> HIDE DEF c
<1>5. r \in Results /\ Takes(r, Detector, a) /\ r.asked = d.r.asked
  <2>1. CASE a = "unavailable"
    BY <1>3, <2>1
  <2>2. CASE a # "unavailable"
    <3>1. r = Absorbed(c, Detector, a, LaneOpen(Detector))
      BY <2>2
    <3> HIDE DEF r
    <3> QED BY <1>2, <1>4, <3>1, AbsorbedTakes
  <2> QED BY <2>1, <2>2
<1>6. StagedTake(a) =
        IF ctx THEN d' = Done(r, got, Err("ctx")) /\ call' = [l \in Lanes |-> "none"]
        ELSE IF a \in Songs /\ classifyCandidate(a) = "commit"
        THEN /\ d' = Done(r, got, Song([lane |-> Detector, ans |-> a], WordAnswerOf(a)))
             /\ call' = [l \in Lanes |-> "none"]
        ELSE IF d.phase = "pre"
        THEN /\ d' = [d EXCEPT !.phase = "race", !.r = r, !.got = got, !.i = r.consulted]
             /\ call' = Spawned
        ELSE d' = finishParallel(r, got) /\ call' = [l \in Lanes |-> "none"]
  BY DEF StagedTake, r, c, h
<1> HIDE DEF r, got
<1>7. Grounded(r, got) /\ (Answered(d.got) => Answered(got))
  BY <1>2, <1>5, TakenIsGrounded DEF got
<1>8. r.asked => Answered(got) \/ Keeping(r)
  BY <1>2, <1>5, <1>7 DEF Takes
<1>9. CASE ctx
  BY <1>1, <1>2, <1>5, <1>6, <1>9, CtxIsNoMiss, FinishMiss
<1>10. CASE ~ctx /\ a \in Songs /\ classifyCandidate(a) = "commit"
  <2> DEFINE out == Song([lane |-> Detector, ans |-> a], WordAnswerOf(a))
  <2>1. WordAnswerOf(a) \in {"served", "absent", "unknown"}
    BY DEF WordAnswerOf
  <2>2. out \in Outs /\ out.kind # "err"
    BY <1>2, <1>10, <2>1, SongIsNoMiss
  <2>3. d' = Done(r, got, out)
    BY <1>6, <1>10
  <2> HIDE DEF out
  <2> QED BY <1>1, <1>2, <1>5, <2>2, <2>3, FinishMiss
<1>11. CASE ~ctx /\ ~(a \in Songs /\ classifyCandidate(a) = "commit") /\ d.phase = "pre"
  <2>1. d' = [d EXCEPT !.phase = "race", !.r = r, !.got = got, !.i = r.consulted]
        /\ call' = Spawned
    BY <1>6, <1>11
  <2>2. d'.phase = "race" /\ d'.r = r /\ d'.got = got /\ d'.i = r.consulted
    BY <1>1, <1>2, <1>5, <2>1 DEF Dispatches
  <2>3. \A m \in Range(Providers) : got[m] = "none" /\ call'[m] # "none"
    BY <1>1, <1>2, <1>11, <2>1 DEF Spawned, WordInv, Spawns
  <2> QED BY <1>7, <1>8, <2>2, <2>3 DEF MissInv, Dispatching, MissIsAnAnswer, Ended
<1>12. CASE ~ctx /\ ~(a \in Songs /\ classifyCandidate(a) = "commit") /\ d.phase # "pre"
  <2>1. d' = finishParallel(r, got) /\ d.phase = "post"
    BY <1>6, <1>12
  <2>2. r.asked
    BY <1>5, <2>1 DEF MissInv
  <2> QED BY <1>1, <1>2, <1>5, <1>7, <1>8, <2>1, <2>2, FinishParallelMiss
<1> QED BY <1>9, <1>10, <1>11, <1>12

LEMMA RaceTakeMiss ==
    ASSUME WordInv, MissInv, WellConfigured, InstalledOnce, UNCHANGED <<cfg, ctx>>,
           d.phase = "race", NEW l \in Lanes, call[l] # "none",
           NEW a \in Answers, a \notin {"vocal", "notready", "outage"}, a = "canceled" => ctx,
           RaceTake(l, a)
    PROVE  MissInv'
<1> DEFINE pending == {m \in Lanes : call[m] # "none"} \ {l}
           got == [d.got EXCEPT ![l] = a]
           h == Heard(l, a)
           c == consult(h, l)
           w == [lane |-> l, ans |-> a]
           holds == a \in Songs /\ classifyCandidate(a) \in {"commit", "hold"}
           held == IF holds /\ d.held = NoCand THEN w ELSE d.held
           r == IF a \in {"unavailable", "canceled"} THEN h
                ELSE Absorbed(c, l, a, LaneOpen(l))
           v == ungatedWordAnswer(WordAnswerOf(a), c.word)
           out == Song(w, v)
<1>1. /\ got \in [Lanes -> Maybe(Answers)]
      /\ \A m \in Lanes : got[m] = IF m = l THEN a ELSE d.got[m]
  BY GotTyped DEF WordInv
<1>2. /\ d \in Dispatches /\ d.r \in Results /\ d.held \in Cands /\ LaneOpen(l) \in BOOLEAN
      /\ d.r.asked \in BOOLEAN
      /\ call \in [Lanes -> {"none", "spawned", "out"}]
      /\ l # Detector /\ d.got[l] = "none"
      /\ Range(Providers) = Lanes \ {Detector}
  BY WhoIsAsked DEF WordInv, Dispatches, Spawns, LaneOpen, Results
<1>3. /\ Grounded(d.r, d.got)
      /\ d.r.asked => Answered(d.got) \/ Keeping(d.r) \/ NoCand # d.held
      /\ ctx \/ \A m \in Range(Providers) : d.got[m] # "none" => d.r.asked \/ d.r.skipped
      /\ \A m \in Range(Providers) : call[m] # "none" \/ d.got[m] # "none"
      /\ d.r.asked \/ d.r.consulted = d.i
  BY DEF MissInv, Dispatching
<1>4. h \in Results /\ Takes(h, l, a) /\ h.asked = d.r.asked /\ h.consulted = d.r.consulted
  BY <1>2, HeardTakes
<1> HIDE DEF h
<1>5. c \in Results /\ Takes(c, l, a) /\ c.asked
  BY <1>2, <1>4, ConsultTakes
<1>6. NoCand # w
  <2>1. NoCand.ans = "none" /\ w.ans = a /\ a # "none"
    BY DEF NoCand, Answers, Songs, Errors
  <2> QED BY <2>1
<1>7. /\ IF a \in Songs /\ RaceCommits(a)
         THEN d' = Done(c, got, out)
         ELSE d' = IF pending = {} THEN EndRace(r, got, held)
                   ELSE [d EXCEPT !.r = r, !.got = got, !.held = held]
      /\ ~(a \in Songs /\ RaceCommits(a)) => call' = [call EXCEPT ![l] = "none"]
  BY DEF RaceTake, h
<1>8. held \in Cands /\ (NoCand # d.held \/ holds => NoCand # held)
  BY <1>2, <1>6 DEF Cands, Maybe
<1>9. v \in {"served", "absent", "unknown"}
  BY WordTyped DEF WordAnswerOf
<1> HIDE DEF v, c
<1>10. /\ r \in Results /\ Takes(r, l, a)
       /\ r.asked = (d.r.asked \/ a \notin {"unavailable", "canceled"})
       /\ ~r.asked => r.consulted = d.r.consulted
       /\ a \notin {"nomatch", "hollow", "blocked", "unavailable", "canceled"} =>
            Keeping(r) \/ holds
  <2>1. CASE a \in {"unavailable", "canceled"}
    <3>1. r = h
      BY <2>1
    <3> HIDE DEF r, holds
    <3> QED BY <1>2, <1>4, <2>1, <3>1
  <2>2. CASE a \notin {"unavailable", "canceled"}
    <3>1. r = Absorbed(c, l, a, LaneOpen(l))
      BY <2>2
    <3> HIDE DEF r
    <3>2. /\ r \in Results /\ Takes(r, l, a) /\ r.asked
          /\ a \in Songs /\ classifyCandidate(a) \in {"retain", "refuse"} => Keeping(r)
          /\ a \notin Songs /\ Outranks(a) => Keeping(r)
      BY <1>2, <1>5, <3>1, AbsorbedTakes
    <3>3. a \notin {"nomatch", "hollow", "blocked"} => Keeping(r) \/ holds
      BY <3>2, NoMiss
    <3> HIDE DEF holds
    <3> QED BY <2>2, <3>2, <3>3
  <2> QED BY <2>1, <2>2
<1> HIDE DEF r, w, holds, held
<1>11. /\ Grounded(r, got)
       /\ Answered(d.got) => Answered(got)
       /\ a \in {"nomatch", "hollow", "blocked"} => Answered(got)
  BY <1>2, <1>3, <1>10, TakenIsGrounded
<1> HIDE DEF got
<1>12. r.asked => Answered(got) \/ Keeping(r) \/ NoCand # held
  BY <1>3, <1>8, <1>10, <1>11 DEF Takes
<1>13. ~ctx => r.asked \/ r.skipped
  BY <1>2, <1>10 DEF Takes
<1>14. ctx \/ \A m \in Range(Providers) : got[m] # "none" => r.asked \/ r.skipped
  BY <1>13
<1>15. CASE a \in Songs /\ RaceCommits(a)
  <2>1. out \in Outs /\ out.kind # "err"
    BY <1>9, <1>15, SongIsNoMiss DEF w
  <2>2. d' = Done(c, got, out)
    BY <1>7, <1>15
  <2> HIDE DEF out
  <2> QED BY <1>1, <1>2, <1>5, <2>1, <2>2, FinishMiss
<1>16. CASE ~(a \in Songs /\ RaceCommits(a)) /\ pending = {}
  <2>1. d' = EndRace(r, got, held)
    BY <1>7, <1>16
  <2>2. CASE ctx
    BY <1>1, <1>2, <1>10, <2>1, <2>2, CtxIsNoMiss, FinishMiss DEF EndRace
  <2>3. CASE ~ctx /\ NoCand # held
    <3> DEFINE u == ungatedWordAnswer(WordAnswerOf(held.ans), r.word)
    <3>1. d' = Done(r, got, Song(held, u))
      BY <2>1, <2>3 DEF EndRace, HeldSong
    <3>2. u \in {"served", "absent", "unknown"}
      BY WordTyped DEF WordAnswerOf
    <3> HIDE DEF u
    <3>3. Song(held, u) \in Outs /\ Song(held, u).kind # "err"
      BY <1>8, <3>2 DEF Song, Outs, Cands
    <3> QED BY <1>1, <1>2, <1>10, <3>1, <3>3, FinishMiss
  <2>4. CASE ~ctx /\ NoCand = held /\ cfg.det = "back" /\ r.consulted # d.i
    <3>1. d' = [d EXCEPT !.phase = "post", !.r = r, !.got = got]
      BY <2>1, <2>4 DEF EndRace
    <3>2. d'.phase = "post" /\ d'.r = r /\ d'.got = got
      BY <1>1, <1>2, <1>10, <3>1 DEF Dispatches
    <3>3. r.asked
      BY <1>3, <1>10, <2>4 DEF Takes
    <3> QED BY <1>11, <1>12, <2>4, <3>2, <3>3 DEF MissInv, Dispatching, MissIsAnAnswer, Ended
  <2>5. CASE ~ctx /\ NoCand = held /\ ~(cfg.det = "back" /\ r.consulted # d.i)
    <3>1. d' = finishParallel(r, got)
      BY <2>1, <2>5 DEF EndRace
    <3> QED BY <1>1, <1>2, <1>10, <1>11, <1>12, <1>13, <2>5, <3>1, FinishParallelMiss
  <2> QED BY <2>2, <2>3, <2>4, <2>5
<1>17. CASE ~(a \in Songs /\ RaceCommits(a)) /\ pending # {}
  <2>1. d' = [d EXCEPT !.r = r, !.got = got, !.held = held]
    BY <1>7, <1>17
  <2>2. d'.phase = "race" /\ d'.r = r /\ d'.got = got /\ d'.held = held /\ d'.i = d.i
    BY <1>1, <1>2, <1>8, <1>10, <2>1 DEF Dispatches
  <2>3. \A m \in Range(Providers) : call'[m] # "none" \/ got[m] # "none"
    <3>1. a # "none"
      BY DEF Answers, Songs, Errors
    <3> QED BY <1>1, <1>2, <1>3, <1>7, <1>17, <3>1
  <2>4. r.asked \/ r.consulted = d.i
    BY <1>3, <1>10
  <2> QED BY <1>11, <1>12, <1>14, <2>2, <2>3, <2>4
         DEF MissInv, Dispatching, MissIsAnAnswer, Ended
<1> QED BY <1>15, <1>16, <1>17

LEMMA OrderedEndMiss ==
    ASSUME WordInv, MissInv, WellConfigured, InstalledOnce, OrderedEnd
    PROVE  MissInv'
<1>1. /\ d \in Dispatches /\ d.r \in Results /\ d.got \in [Lanes -> Maybe(Answers)]
      /\ d.phase = "ordered" /\ d.i \in Int /\ d.kind \in {"main", "word"}
      /\ Grounded(d.r, d.got)
      /\ d.r.asked => Answered(d.got) \/ Keeping(d.r)
      /\ \A m \in Range(Providers) : d.got[m] # "none" => d.r.asked \/ d.r.skipped
      /\ d.kind = "word" => d.r.top # "vocal"
      /\ \A j \in 1..Len(Sequence) :
            j < d.i => Sequence[j] = Detector \/ d.got[Sequence[j]] # "none"
  BY DEF WordInv, MissInv, Dispatches, Dispatching, OrderedEnd, AtHead
<1>2. CASE d' = Done(d.r, d.got, Err("ctx"))
  BY <1>1, <1>2, CtxIsNoMiss, FinishMiss
<1>3. CASE d' # Done(d.r, d.got, Err("ctx"))
  <2> DEFINE o == resolve(d.r)
             w == IF MinCommit > 0 THEN wordAnswerFor(d.r.word) ELSE o.word
             u == ungatedWordAnswer(w, d.r.word)
             p == [resolve(d.r) EXCEPT !.word = u]
  <2>1. w \in {"served", "absent", "unknown"}
    BY <1>1, ResolveGives DEF Outs, wordAnswerFor
  <2>2. d' = Done(d.r, d.got, p) /\ d.i > Len(Sequence)
    BY <1>3 DEF OrderedEnd
  <2> HIDE DEF w
  <2>3. u \in {"served", "absent", "unknown"}
    BY <2>1, WordTyped
  <2> HIDE DEF u
  <2>4. p \in Outs /\ p.kind = resolve(d.r).kind /\ p.ans = resolve(d.r).ans
    BY <1>1, <2>3, ResolvedOut
  <2> HIDE DEF p
  <2>5. d.r.asked \/ d.r.skipped \/ d.r.top # "vocal"
    <3>1. CASE d.kind = "word"
      BY <1>1, <3>1
    <3>2. CASE d.kind = "main"
      <4>1. PICK j \in 1..Len(Sequence) : Sequence[j] \in Range(Providers)
        BY <1>1, <3>2, WhoIsAsked
      <4>2. Sequence[j] # Detector /\ j < d.i
        BY <1>1, <2>2, <4>1, SequenceOnce DEF WellConfigured
      <4> QED BY <1>1, <4>1, <4>2
    <3> QED BY <1>1, <3>1, <3>2
  <2>6. p.kind = "err" /\ ClassifyOutcome(p.ans) = "miss" => Answered(d.got)
    BY <1>1, <2>4, <2>5, ResolveMiss
  <2> QED BY <1>1, <2>2, <2>4, <2>6, FinishMiss
<1> QED BY <1>2, <1>3

LEMMA NewIsMiss ==
    ASSUME WellConfigured, InstalledOnce, NEW k \in {"main", "word"},
           NEW p \in {"idle", "shut", "ordered", "pre", "race"}, d' = NewOf(k, p),
           p = "race" => \A l \in Lanes \ {Detector} : call'[l] # "none"
    PROVE  MissInv'
<1>1. /\ d'.phase = p /\ d'.i = Place(p) /\ d'.r = NewResult
      /\ \A l \in Lanes : d'.got[l] = "none"
  BY NewIsDispatch
<1>2. /\ ~NewResult.blocked /\ ~NewResult.hollow /\ NewResult.top = "none"
      /\ NewResult.failed = "none" /\ ~NewResult.asked /\ NewResult.consulted = 0
  BY DEF NewResult
<1>3. ClassifyOutcome("none") = "transport"
  BY DEF ClassifyOutcome, Songs
<1>4. Grounded(d'.r, d'.got)
  BY <1>1, <1>2, <1>3 DEF Grounded
<1>5. Range(Providers) = Lanes \ {Detector}
  BY DEF Lanes, WellConfigured
<1>6. p = "ordered" => d'.i = 1
  BY <1>1 DEF Place
<1>7. p = "race" => d'.i = 0
  BY <1>1 DEF Place
<1>8. \A j \in 1..Len(Sequence') : ~(j < 1)
  OBVIOUS
<1> QED BY <1>1, <1>2, <1>4, <1>5, <1>6, <1>7, <1>8
       DEF MissInv, Dispatching, MissIsAnAnswer, Ended

LEMMA MissStep ==
    ASSUME WordInv, MissInv, WellConfigured, InstalledOnce, [Next]_vars PROVE MissInv'
<1>1. /\ Detector \in Lanes /\ call \in [Lanes -> {"none", "spawned", "out"}]
      /\ cfg \in Configs /\ d \in Dispatches /\ Turns /\ d.i \in Int
      /\ Range(Providers) = Lanes \ {Detector}
  BY WhoIsAsked DEF Lanes, WordInv, Dispatches
<1>2. ASSUME UNCHANGED <<cfg, d>>, d.phase = "race" => (ctx => ctx'),
             d.phase = "race" => \A l \in Lanes : call[l] # "none" => call'[l] # "none"
      PROVE  MissInv'
  <2>1. Sequence' = Sequence
    BY <1>2 DEF Sequence, Order, Dets
  <2> QED BY <1>1, <1>2, <2>1 DEF MissInv, Dispatching, MissIsAnAnswer, Ended
<1>3. CASE GateShut
  <2>1. d' = NewOf("main", "shut")
    BY <1>3, NewIsOne DEF GateShut
  <2> QED BY <2>1, NewIsMiss
<1>4. ASSUME NEW k \in {"main", "word"}, FindLyrics(k) PROVE MissInv'
  <2> DEFINE p == Begins(k)
  <2>1. d' = NewOf(k, p) /\ p \in {"ordered", "pre", "race"}
    BY <1>4, BeginsNew
  <2> HIDE DEF p
  <2>2. call' = [l \in Lanes |-> IF d'.phase = "race" /\ l # Detector THEN "spawned" ELSE "none"]
    BY <1>4 DEF FindLyrics
  <2>3. d'.phase = p
    BY <2>1, NewIsDispatch
  <2>4. p = "race" => \A l \in Lanes \ {Detector} : call'[l] # "none"
    BY <2>2, <2>3
  <2> QED BY <2>1, <2>4, NewIsMiss
<1>5. CASE Restart
  <2>1. d' = NewOf("main", "idle")
    BY <1>5, NewIsOne DEF Restart, Fresh
  <2> QED BY <2>1, NewIsMiss
<1>6. CASE OrderedAsk
  <2> DEFINE l == Sequence[d.i]
  <2>1. /\ UNCHANGED <<cfg, ctx>> /\ d.phase = "ordered" /\ d.i \in 1..Len(Sequence)
    BY <1>1, <1>6, SequenceOnce DEF OrderedAsk, AtHead, Turns
  <2>2. UNCHANGED d \/ OrderedTake(l, "unavailable")
    BY <1>6 DEF OrderedAsk
  <2>3. "unavailable" \in Answers
    BY DEF Answers, Errors
  <2> QED BY <1>2, <2>1, <2>2, <2>3, OrderedTakeMiss
<1>7. CASE OrderedSkip
  <2>1. d' = [d EXCEPT !.i = @ + 1] /\ UNCHANGED cfg /\ d.phase = "ordered"
        /\ d.i <= Len(Sequence) /\ Sequence[d.i] = Detector
    BY <1>7 DEF OrderedSkip, AtHead, DetectorMoot
  <2>2. /\ d'.phase = d.phase /\ d'.r = d.r /\ d'.got = d.got
        /\ d'.out = d.out /\ d'.kind = d.kind /\ d'.i = d.i + 1
    BY <1>1, <2>1 DEF Dispatches
  <2>3. Sequence' = Sequence /\ Len(Sequence) \in Nat
    BY <2>1, <2>2, SequenceOnce DEF Sequence, Order, Dets
  <2>4. ASSUME NEW j \in 1..Len(Sequence), j < d.i + 1
        PROVE  Sequence[j] = Detector \/ d.got[Sequence[j]] # "none"
    <3>1. j = d.i \/ j < d.i
      BY <1>1, <2>3, <2>4
    <3> QED BY <2>1, <3>1 DEF MissInv
  <2> QED BY <2>1, <2>2, <2>3, <2>4 DEF MissInv, Dispatching, MissIsAnAnswer, Ended
<1>8. CASE OrderedEnd
  BY <1>8, OrderedEndMiss
<1>9. CASE StagedAsk
  <2>1. UNCHANGED cfg /\ d.phase \in {"pre", "post"}
    BY <1>9 DEF StagedAsk
  <2>2. UNCHANGED d \/ StagedTake("unavailable")
    BY <1>9 DEF StagedAsk
  <2>3. "unavailable" \in Answers /\ "unavailable" \notin Songs
    BY DEF Answers, Errors, Songs
  <2> QED BY <1>2, <2>1, <2>2, <2>3, StagedTakeMiss
<1>10. CASE StagedAnswer
  <2>1. PICK raw \in Possible(Detector, ctx) : StagedTake(AnswerOf(Detector, raw))
    BY <1>10 DEF StagedAnswer
  <2> DEFINE a == AnswerOf(Detector, raw)
  <2>2. /\ a \in Answers /\ (a \in Songs => a = "inst")
        /\ a \in {"inst", "vocal", "notready", "outage", "canceled"}
    BY <1>1, AnswerTyped
  <2> HIDE DEF a
  <2> QED BY <1>10, <2>1, <2>2, StagedTakeMiss DEF StagedAnswer, a
<1>11. CASE RaceGivesUp
  <2>1. /\ d.r \in Results /\ d.got \in [Lanes -> Maybe(Answers)] /\ d.held \in Cands
    BY <1>1 DEF Dispatches
  <2>2. CASE ctx
    BY <1>1, <1>11, <2>1, <2>2, CtxIsNoMiss, FinishMiss DEF RaceGivesUp
  <2>3. CASE ~ctx
    <3> DEFINE v == ungatedWordAnswer(WordAnswerOf(d.held.ans), d.r.word)
    <3>1. d' = Done(d.r, d.got, Song(d.held, v))
      BY <1>11, <2>3 DEF RaceGivesUp, HeldSong
    <3>2. v \in {"served", "absent", "unknown"}
      BY WordTyped DEF WordAnswerOf
    <3> HIDE DEF v
    <3>3. Song(d.held, v) \in Outs /\ Song(d.held, v).kind # "err"
      BY <2>1, <3>2 DEF Song, Outs, Cands
    <3> QED BY <1>1, <2>1, <3>1, <3>3, FinishMiss
  <2> QED BY <2>2, <2>3
<1>12. ASSUME NEW l \in Lanes, OrderedAnswer(l) PROVE MissInv'
  <2>1. PICK raw \in Possible(l, ctx) : OrderedTake(l, AnswerOf(l, raw))
    BY <1>12 DEF OrderedAnswer
  <2> DEFINE a == AnswerOf(l, raw)
  <2>2. /\ a \in Answers
        /\ l # Detector => a \notin {"vocal", "notready", "outage"}
        /\ l = Detector => a \in {"inst", "vocal", "notready", "outage", "canceled"}
    BY <1>1, AnswerTyped
  <2>3. UNCHANGED cfg /\ d.phase = "ordered" /\ call[l] # "none"
    BY <1>12 DEF OrderedAnswer
  <2>4. d.i \in 1..Len(Sequence) /\ l = Sequence[d.i]
    BY <1>1, <2>3 DEF Turns
  <2>5. IF l = Detector THEN a \notin {"nomatch", "hollow", "blocked"}
        ELSE a \notin {"vocal", "notready", "outage"}
    BY <2>2
  <2> HIDE DEF a
  <2> QED BY <2>1, <2>2, <2>3, <2>4, <2>5, OrderedTakeMiss DEF a
<1>13. ASSUME NEW l \in Lanes, RaceStart(l) PROVE MissInv'
  <2>1. "unavailable" \in Answers
    BY DEF Answers, Errors
  <2>2. /\ d.phase = "race" /\ call[l] = "spawned" /\ UNCHANGED <<cfg, ctx>>
        /\ RaceTake(l, "unavailable") \/ (UNCHANGED d /\ call' = [call EXCEPT ![l] = "out"])
    BY <1>13 DEF RaceStart
  <2>3. call' = [call EXCEPT ![l] = "out"] =>
          \A m \in Lanes : call[m] # "none" => call'[m] # "none"
    BY <1>1
  <2> QED BY <1>2, <2>1, <2>2, <2>3, RaceTakeMiss
<1>14. ASSUME NEW l \in Lanes, RaceAnswer(l) PROVE MissInv'
  <2>1. PICK raw \in Possible(l, ctx) : RaceTake(l, AnswerOf(l, raw))
    BY <1>14 DEF RaceAnswer
  <2>2. d.phase = "race" /\ call[l] = "out" /\ UNCHANGED <<cfg, ctx>> /\ l # Detector
    BY <1>14 DEF RaceAnswer, WordInv, Spawns
  <2> DEFINE a == AnswerOf(l, raw)
  <2>3. a \in Answers /\ a \notin {"vocal", "notready", "outage"} /\ (a = "canceled" => ctx)
    BY <1>1, <2>2, AnswerTyped
  <2> HIDE DEF a
  <2> QED BY <2>1, <2>2, <2>3, RaceTakeMiss DEF a
<1>15. ASSUME NEW l \in Lanes, StaleStart(l) \/ StaleReturn(l) \/ Elapse(l) PROVE MissInv'
  BY <1>2, <1>15 DEF StaleStart, StaleReturn, Elapse
<1>16. CASE Shutdown
  BY <1>2, <1>16 DEF Shutdown
<1>17. CASE UNCHANGED vars
  BY <1>2, <1>17 DEF vars
<1> QED BY <1>3, <1>4, <1>5, <1>6, <1>7, <1>8, <1>9, <1>10, <1>11, <1>12, <1>13, <1>14, <1>15,
           <1>16, <1>17 DEF Next, Step

(* A dispatch comes to a miss, which counts against the row's budget, only  *)
(* when a provider answered in it (resolve, noProviderAsked, noteUntried,   *)
(* rankErr): never on the detector's word while every provider was skipped. *)
THEOREM LanesMissIsAnAnswer ==
    ASSUME WellConfigured, InstalledOnce PROVE Spec => []MissIsAnAnswer
<1>1. Init => WordInv /\ MissInv
  <2> SUFFICES ASSUME Init PROVE WordInv /\ MissInv
    OBVIOUS
  <2>1. d = NewOf("main", "idle") /\ cfg \in Configs /\ call = [l \in Lanes |-> "none"]
    BY NewIsOne DEF Init
  <2>2. d \in Dispatches /\ d.phase = "idle"
    BY <2>1, NewIsDispatch
  <2>3. WordInv
    BY <2>1, FirstIsWord
  <2>4. MissInv
    BY <2>2 DEF MissInv, MissIsAnAnswer, Ended, Dispatching
  <2> QED BY <2>3, <2>4
<1>2. WordInv /\ MissInv /\ [Next]_vars => (WordInv /\ MissInv)'
  BY WordStep, MissStep
<1>3. MissInv => MissIsAnAnswer
  BY DEF MissInv
<1> QED BY <1>1, <1>2, <1>3, PTL DEF Spec

-----------------------------------------------------------------------------
(* Every part of the state keeps its type. *)
Counted(b) ==
    \E P, W : b \in [open : {"no", "live", "past"}, probing : P, trips : 0..MaxTrips, win : W]

LEMMA AfterCounted ==
    ASSUME MaxTrips \in Nat, NEW b, NEW c, Counted(b), After(b, c)
    PROVE  Counted(c)
<1>0. PICK P, W : b \in [open : {"no", "live", "past"}, probing : P, trips : 0..MaxTrips, win : W]
  BY DEF Counted
<1> DEFINE B(Q, V) == [open : {"no", "live", "past"}, probing : Q, trips : 0..MaxTrips, win : V]
<1>1. CASE c = b
  BY <1>1
<1>2. CASE c = Allowed(b)
  <2>1. c \in B(P \cup {TRUE}, W)
    BY <1>0, <1>2 DEF Allowed
  <2> QED BY <2>1 DEF Counted
<1>3. CASE c = Tripped(b)
  <2> DEFINE t == NextTrips(b.trips)
             w == Geometric(t, Base, Cap)
  <2>1. c = [open |-> "live", probing |-> FALSE, trips |-> t, win |-> w]
    BY <1>3 DEF Tripped
  <2>2. t \in 0..MaxTrips
    BY <1>0 DEF NextTrips
  <2> HIDE DEF t, w
  <2>3. c \in B({FALSE}, {w})
    BY <2>1, <2>2
  <2> QED BY <2>3 DEF Counted
<1>4. CASE c = TrippedForRenewal(b)
  <2>1. c \in B(P \cup {FALSE}, W \cup {Cap})
    BY <1>0, <1>4 DEF TrippedForRenewal
  <2> QED BY <2>1 DEF Counted
<1>5. CASE c = Recovered(b)
  <2>1. [open : {"no", "live", "past"}, probing : P \cup {FALSE},
         trips : (0..MaxTrips) \cup {0}, win : W] = B(P \cup {FALSE}, W)
    <3>1. (0..MaxTrips) \cup {0} = 0..MaxTrips
      OBVIOUS
    <3> QED BY <3>1
  <2>2. c \in B(P \cup {FALSE}, W)
    <3>1. c \in [open : {"no", "live", "past"}, probing : P \cup {FALSE},
                trips : (0..MaxTrips) \cup {0}, win : W]
      BY <1>0, <1>5 DEF Recovered
    <3> QED BY <2>1, <3>1
  <2> QED BY <2>2 DEF Counted
<1>6. CASE c = NewBreaker
  <2>1. c \in B({FALSE}, {0})
    BY <1>6 DEF NewBreaker
  <2> QED BY <2>1 DEF Counted
<1>7. CASE b.open = "live" /\ c = WindowOver(b)
  <2>1. c \in B(P, W)
    BY <1>0, <1>7 DEF WindowOver
  <2> QED BY <2>1 DEF Counted
<1> QED BY <1>1, <1>2, <1>3, <1>4, <1>5, <1>6, <1>7 DEF After

(* The detector's streak stands at its bound when "not ready" turns into an *)
(* outage, and only a return of a call moves it.                            *)
Streaks == det \in [reached : BOOLEAN, streak : 0..NotReadyBound]
Phases == {"none", "spawned", "out"}

LEMMA NoStreak ==
    ASSUME NotReadyBound \in Nat, NEW b \in BOOLEAN
    PROVE  [reached |-> b, streak |-> 0] \in [reached : BOOLEAN, streak : 0..NotReadyBound]
<1>1. \A S : 0 \in S => [reached |-> b, streak |-> 0] \in [reached : BOOLEAN, streak : S]
  OBVIOUS
<1>2. 0 \in 0..NotReadyBound
  OBVIOUS
<1> QED BY <1>1, <1>2

LEMMA ReturnKeepsStreaks ==
    ASSUME Streaks, NotReadyBound \in Nat, NEW l, NEW a, LaneReturns(l, a)
    PROVE  Streaks'
<1>1. det' = det \/ det' = DetectorAfter(a)
  BY DEF LaneReturns
<1>2. DetectorAfter(a) \in [reached : BOOLEAN, streak : 0..NotReadyBound]
  <2>1. CASE a \in {"inst", "vocal"}
    <3>1. DetectorAfter(a) = [reached |-> TRUE, streak |-> 0]
      <4> DEFINE n == [reached |-> TRUE, streak |-> 0]
      <4>1. DetectorAnswer(a) # "notready"
        BY <2>1 DEF DetectorAnswer
      <4>2. DetectorAfter(a) = n
        BY <2>1, <4>1 DEF DetectorAfter
      <4> QED BY <4>2
    <3> QED BY <3>1, NoStreak
  <2>2. CASE a \notin {"inst", "vocal"} /\ DetectorAnswer(a) = "notready"
    <3>1. det.streak < NotReadyBound /\ det.streak \in Nat
      BY <2>2 DEF DetectorAnswer, Streaks
    <3>2. DetectorAfter(a) = [det EXCEPT !.streak = @ + 1]
      BY <2>2 DEF DetectorAfter
    <3> QED BY <3>1, <3>2 DEF Streaks
  <2>3. CASE a \notin {"inst", "vocal"} /\ DetectorAnswer(a) # "notready"
    <3>1. DetectorAfter(a) = det
      BY <2>3 DEF DetectorAfter
    <3> QED BY <3>1 DEF Streaks
  <2> QED BY <2>1, <2>2, <2>3
<1> QED BY <1>1, <1>2 DEF Streaks

(* What the other actions keep: the answers of the detector, the calls an   *)
(* earlier race left out, and the context.                                  *)
LeftOut == stale \in [Lanes -> Phases] /\ ctx \in BOOLEAN

LEMMA AbandonKeeps ==
    ASSUME WordInv, LeftOut, NEW p, Abandon(p) PROVE stale' \in [Lanes -> Phases]
BY DEF WordInv, LeftOut, Abandon, Phases

LEMMA RaceTakeKeeps ==
    ASSUME WordInv, LeftOut, NEW l, NEW a, RaceTake(l, a) PROVE stale' \in [Lanes -> Phases]
<1> DEFINE pending == {m \in Lanes : call[m] # "none"} \ {l}
<1>1. Abandon(pending) \/ UNCHANGED stale
  BY DEF RaceTake
<1> HIDE DEF pending
<1> QED BY <1>1, AbandonKeeps DEF LeftOut

LEMMA StepKeepsTypes ==
    ASSUME WordInv, Streaks, LeftOut, NotReadyBound \in Nat, [Next]_vars
    PROVE  Streaks' /\ LeftOut'
<1>1. ASSUME UNCHANGED <<det, stale, ctx>> PROVE Streaks' /\ LeftOut'
  BY <1>1 DEF Streaks, LeftOut
<1>2. CASE GateShut \/ OrderedAsk \/ OrderedSkip \/ OrderedEnd \/ StagedAsk \/ UNCHANGED vars
  BY <1>1, <1>2 DEF GateShut, OrderedAsk, OrderedSkip, OrderedEnd, StagedAsk, vars
<1>3. ASSUME NEW k, FindLyrics(k) PROVE Streaks' /\ LeftOut'
  BY <1>1, <1>3 DEF FindLyrics
<1>4. CASE StagedAnswer
  <2>1. Streaks' /\ UNCHANGED <<stale, ctx>>
    BY <1>4, ReturnKeepsStreaks DEF StagedAnswer
  <2> QED BY <2>1 DEF LeftOut
<1>5. CASE RaceGivesUp
  <2>1. UNCHANGED <<det, ctx>> /\ stale' \in [Lanes -> Phases]
    BY <1>5, AbandonKeeps DEF RaceGivesUp
  <2> QED BY <2>1 DEF Streaks, LeftOut
<1>6. ASSUME NEW l \in Lanes, OrderedAnswer(l) PROVE Streaks' /\ LeftOut'
  <2>1. Streaks' /\ UNCHANGED <<stale, ctx>>
    BY <1>6, ReturnKeepsStreaks DEF OrderedAnswer
  <2> QED BY <2>1 DEF LeftOut
<1>7. ASSUME NEW l \in Lanes, RaceStart(l) PROVE Streaks' /\ LeftOut'
  <2>1. UNCHANGED <<det, ctx>> /\ (RaceTake(l, "unavailable") \/ UNCHANGED stale)
    BY <1>7 DEF RaceStart
  <2>2. stale' \in [Lanes -> Phases]
    BY <2>1, RaceTakeKeeps DEF LeftOut
  <2> QED BY <2>1, <2>2 DEF Streaks, LeftOut
<1>8. ASSUME NEW l \in Lanes, RaceAnswer(l) PROVE Streaks' /\ LeftOut'
  <2>1. PICK raw \in Possible(l, ctx) : LaneReturns(l, raw) /\ RaceTake(l, AnswerOf(l, raw))
    BY <1>8 DEF RaceAnswer
  <2>2. Streaks' /\ UNCHANGED ctx /\ stale' \in [Lanes -> Phases]
    BY <1>8, <2>1, ReturnKeepsStreaks, RaceTakeKeeps DEF RaceAnswer
  <2> QED BY <2>2 DEF LeftOut
<1>9. ASSUME NEW l \in Lanes, StaleStart(l) PROVE Streaks' /\ LeftOut'
  BY <1>9 DEF StaleStart, Streaks, LeftOut, Phases
<1>10. ASSUME NEW l \in Lanes, StaleReturn(l) PROVE Streaks' /\ LeftOut'
  <2>1. Streaks' /\ UNCHANGED ctx /\ stale' = [stale EXCEPT ![l] = "none"]
    BY <1>10, ReturnKeepsStreaks DEF StaleReturn
  <2> QED BY <2>1 DEF LeftOut, Phases
<1>11. ASSUME NEW l \in Lanes, Elapse(l) PROVE Streaks' /\ LeftOut'
  BY <1>1, <1>11 DEF Elapse
<1>12. CASE Shutdown
  BY <1>12 DEF Shutdown, Streaks, LeftOut
<1>13. CASE Restart
  <2>1. /\ det' = [reached |-> FALSE, streak |-> 0] /\ ctx' = FALSE
        /\ stale' = [l \in Lanes |-> "none"]
    BY <1>13 DEF Restart, Fresh
  <2>2. Streaks'
    BY <2>1, NoStreak DEF Streaks
  <2> QED BY <2>1, <2>2 DEF LeftOut, Phases
<1> QED BY <1>2, <1>3, <1>4, <1>5, <1>6, <1>7, <1>8, <1>9, <1>10, <1>11, <1>12, <1>13
        DEF Next, Step

(* The state of the dispatch keeps its shape; the count of word answers     *)
(* stays within the word-capable lanes and the detector's streak within its *)
(* bound (detectorClassifier, ungatedWordAnswer).                           *)
THEOREM LanesTypesHold ==
    ASSUME WellConfigured, InstalledOnce, MaxTrips \in Nat, NotReadyBound \in Nat
    PROVE  Spec => []TypeOK
<1> DEFINE Inv == /\ WordInv /\ Streaks /\ LeftOut
                  /\ AreLanes /\ \A l \in Lanes : Counted(lane[l].b)
<1>1. Init => Inv
  <2> SUFFICES ASSUME Init PROVE Inv
    OBVIOUS
  <2>1. d = NewOf("main", "idle") /\ cfg \in Configs /\ call = [l \in Lanes |-> "none"]
    BY NewIsOne DEF Init
  <2>2. Streaks /\ LeftOut
    <3>1. Streaks
      BY NoStreak DEF Init, Streaks
    <3> QED BY <3>1 DEF Init, LeftOut, Phases
  <2>3. \A l \in Lanes : lane[l].b = NewBreaker
    BY DEF Init, NewLane
  <2>4. NewBreaker \in [open : {"no", "live", "past"}, probing : {FALSE},
                        trips : 0..MaxTrips, win : {0}]
    BY DEF NewBreaker
  <2>5. Counted(NewBreaker)
    BY <2>4 DEF Counted
  <2> QED BY <2>1, <2>2, <2>3, <2>5, FirstIsWord, LanesStart
<1>2. Inv /\ [Next]_vars => Inv'
  <2> SUFFICES ASSUME Inv, [Next]_vars PROVE Inv'
    OBVIOUS
  <2>1. WordInv'
    BY WordStep
  <2>2. Streaks' /\ LeftOut'
    BY StepKeepsTypes
  <2>3. AreLanes' /\ \A l \in Lanes : Counted(lane'[l].b)
    BY EveryStepMoves, MoveIsAfter, AfterCounted
  <2> QED BY <2>1, <2>2, <2>3
<1>3. Inv => TypeOK
  <2> SUFFICES ASSUME Inv PROVE TypeOK
    OBVIOUS
  <2>1. cfg \in Configs /\ ctx \in BOOLEAN /\ det.streak \in 0..NotReadyBound
    BY DEF WordInv, Streaks, LeftOut
  <2>2. \A l \in Lanes : call[l] \in Phases /\ stale[l] \in Phases /\ d.got[l] \in Maybe(Answers)
    BY DEF WordInv, LeftOut, Dispatches, Phases
  <2>3. \A l \in Lanes : lane[l].b.trips \in 0..MaxTrips
    BY DEF Counted
  <2>4. d.phase \in {"idle", "shut", "ordered", "pre", "race", "post", "done"}
    BY DEF WordInv, Dispatches
  <2>5. d.r.word \in 0..Cardinality(WordLanes)
    <3>1. Said(d.got) \subseteq WordLanes /\ IsFiniteSet(WordLanes)
      BY DEF Said, InstalledOnce
    <3>2. /\ Cardinality(Said(d.got)) <= Cardinality(WordLanes)
          /\ Cardinality(Said(d.got)) \in Nat /\ Cardinality(WordLanes) \in Nat
      BY <3>1, FS_Subset, FS_CardinalityType
    <3>3. d.r.word \in Int /\ WordStart(d.r, d.got)
      BY DEF WordInv, Dispatches, Results
    <3> QED BY <3>2, <3>3 DEF WordStart
  <2> QED BY <2>1, <2>2, <2>3, <2>4, <2>5 DEF TypeOK, Maybe, Phases
<1> QED BY <1>1, <1>2, <1>3, PTL DEF Spec

(* Every step of a dispatch moves each lane's breaker as a Breaker moves    *)
(* (Lane.FindLyrics, Breaker.Allow): the action property the runs check.    *)
THEOREM LanesStayBreakers == Spec => [][LanesKeepBreakers]_vars
<1>1. AreLanes /\ [Next]_vars => AreLanes' /\ LanesKeepBreakers
  BY EveryStepMoves, MoveIsAfter, AfterIsStep DEF LanesKeepBreakers
<1> QED BY <1>1, LanesStart, PTL DEF Spec
=============================================================================
