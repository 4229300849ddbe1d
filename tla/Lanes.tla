-------------------------------- MODULE Lanes --------------------------------
(***************************************************************************)
(* The orchestrator (internal/orchestrator): one lyric lookup dispatched   *)
(* over the provider lanes and the local detector lane, each behind its    *)
(* own circuit breaker, in ordered mode (one lane after the other, first   *)
(* suitable answer wins) or in parallel mode (providers race, a plain      *)
(* answer is held for raceWait while a synced one may still come, the      *)
(* detector is staged before or after the race).  A word recheck runs an   *)
(* ordered dispatch of its own over the word-capable lanes, on the SAME    *)
(* breakers, with a minimum quality to commit.                             *)
(*                                                                         *)
(* The losers of a decided race are cancelled, not joined: their calls     *)
(* return later, during the next dispatch, and still move the breaker.     *)
(***************************************************************************)
EXTENDS Circuit, Sequences, FiniteSets, SequencesExt

CONSTANTS Providers,     \* sequence of the configured provider lanes
          WordLanes,     \* the word-capable ones of them
          Configs,       \* [mode, det, ans]: dispatch mode, detector placement, answers
          NotReadyBound, \* notReadyBound of the detector lane, a natural number
          Detector       \* the detector lane, none of Providers

VARIABLES cfg,    \* the worker's configuration
          lane,   \* lane -> [b: breaker, refused: last answer was a refusal]
          det,    \* the detector lane's everReached and notReadyStreak
          call,   \* lane -> call of the running dispatch: "none", "spawned", "out"
          stale,  \* lane -> cancelled call of an earlier race not yet returned
          d,      \* the running dispatch
          ctx     \* the worker's context is cancelled

vars == <<cfg, lane, det, call, stale, d, ctx>>

Lanes == Range(Providers) \cup {Detector}

-----------------------------------------------------------------------------
(* Answers.  A song is told apart by what the suitability checks read of   *)
(* it: its quality, the timing decision, the script guard, the block list  *)
(* and the word answer it carries.                                         *)

Songs == {"word", "line", "plain", "flagged", "demoted", "refused", "unfit",
          "blocked", "inst"}
Errors == {"nomatch", "hollow", "unavailable", "rate", "renewal", "forbidden",
           "latched", "transport", "canceled", "vocal", "notready", "outage"}
Answers == Songs \cup Errors

QualityOf(a) == CASE a = "word" -> 4
                  [] a \in {"line", "flagged", "demoted", "refused", "blocked"} -> 3
                  [] a = "plain" -> 2
                  [] OTHER -> 1       \* "unfit" and the detector's "inst"

(* classifyCandidate: block list, then suitability, then timing. *)
classifyCandidate(a) == CASE a = "blocked" -> "blocked"
                          [] a = "unfit" -> "retain"
                          [] a = "demoted" -> "hold"
                          [] a = "refused" -> "refuse"
                          [] OTHER -> "commit"

retainQuality(a) == CASE a = "refused" -> 0
                      [] a = "demoted" -> 2
                      [] OTHER -> QualityOf(a)

(* A provider's own instrumental flag makes the lines land as a marker. *)
landedQuality(a) == IF a \in {"flagged", "inst", "unfit"} THEN 1 ELSE retainQuality(a)

WordAnswerOf(a) == CASE a = "word" -> "served"
                     [] a \in {"line", "blocked"} -> "absent"
                     [] OTHER -> "unknown"

ClassifyOutcome(a) ==
    CASE a \in Songs -> "success"
      [] a = "unavailable" -> "unavailable"
      [] a \in {"rate", "renewal", "latched"} -> "auth"
      [] a \in {"nomatch", "hollow", "vocal", "allblocked"} -> "miss"
      [] a = "notready" -> "notready"
      [] a = "outage" -> "outage"
      [] OTHER -> "transport"

precedence(c) == CASE c \in {"unavailable", "auth"} -> 4
                   [] c = "transport" -> 3
                   [] c \in {"outage", "notready"} -> 2
                   [] c = "miss" -> 1
                   [] OTHER -> 0

answersWord(l, a) ==
    /\ l \in WordLanes
    /\ a = "nomatch" \/ (a \in Songs /\ WordAnswerOf(a) # "unknown")

IsRefusal(a) == a = "forbidden"

-----------------------------------------------------------------------------
(* The dispatch result that both modes accumulate. *)

NoCand == [lane |-> "none", ans |-> "none"]
NoOut == [kind |-> "none", lane |-> "none", ans |-> "none", word |-> "unknown"]

NewResult ==
    [best |-> NoCand, held |-> NoCand, gated |-> NoCand, top |-> "none",
     hollow |-> FALSE, consulted |-> 0, asked |-> FALSE, skipped |-> FALSE,
     word |-> 0, answered |-> FALSE, blocked |-> FALSE, unbounded |-> FALSE,
     untried |-> FALSE, failed |-> "none", att |-> {}]

consult(r, l) ==
    [r EXCEPT !.consulted = @ + 1, !.asked = @ \/ l # Detector, !.att = @ \cup {l}]

noteUntried(r, l, a) ==
    LET c == ClassifyOutcome(a) IN
    IF l = Detector THEN r
    ELSE [r EXCEPT !.answered = @ \/ (c = "miss" /\ a # "hollow"),
                   !.skipped = @ \/ c = "unavailable",
                   !.untried = @ \/ c \in {"unavailable", "auth", "notready"},
                   !.failed = IF @ = "none" /\ c = "transport" /\ a # "canceled"
                              THEN a ELSE @]

noteTransport(r, a, open) ==
    [r EXCEPT !.unbounded = @ \/ (ClassifyOutcome(a) = "transport" /\ ~open)]

retainCandidate(r, l, a) ==
    IF r.best = NoCand \/ retainQuality(a) > retainQuality(r.best.ans)
    THEN [r EXCEPT !.best = [lane |-> l, ans |-> a]] ELSE r

hold(r, l, a) == IF r.held = NoCand
                 THEN [r EXCEPT !.held = [lane |-> l, ans |-> a]] ELSE r

gate(r, l, a) ==
    IF r.gated = NoCand \/ landedQuality(a) > landedQuality(r.gated.ans)
    THEN [r EXCEPT !.gated = [lane |-> l, ans |-> a]] ELSE r

(* A hollow miss outranks a plain miss, and takes the place of a lane       *)
(* outage: the provider's answer is what the row is judged by.              *)
rankErr(r, a) ==
    LET hollow == r.hollow \/ a = "hollow"
        c == ClassifyOutcome(a)
        top == IF \/ r.top = "none"
                  \/ precedence(c) > precedence(ClassifyOutcome(r.top))
                  \/ a = "hollow" /\ ClassifyOutcome(r.top) = "miss"
               THEN a ELSE r.top
    IN [r EXCEPT !.hollow = hollow,
                 !.top = IF hollow /\ precedence(ClassifyOutcome(top)) = 2
                         THEN "hollow" ELSE top]

noProviderAsked(r) == r.consulted = 0 \/ (~r.asked /\ r.skipped)

(* "absent" only when every word-capable lane of the dispatch answered. *)
wordAnswerFor(n) ==
    IF WordLanes # {} /\ n = Cardinality(WordLanes) THEN "absent" ELSE "unknown"

ungatedWordAnswer(w, n) == IF w = "absent" THEN wordAnswerFor(n) ELSE w

Song(c, w) == [kind |-> "song", lane |-> c.lane, ans |-> c.ans, word |-> w]
Err(a) == [NoOut EXCEPT !.kind = "err", !.ans = a]

(* resolve: what a dispatch that nobody won comes to. *)
resolve(r) ==
    IF r.gated # NoCand /\ (r.held = NoCand \/ landedQuality(r.gated.ans) >= 2)
      THEN Song(r.gated, WordAnswerOf(r.gated.ans))
    ELSE IF r.held # NoCand THEN Song(r.held, WordAnswerOf(r.held.ans))
    ELSE IF r.best # NoCand
      THEN [Song(r.best, WordAnswerOf(r.best.ans))
              EXCEPT !.kind = IF r.best.ans = "refused" /\ r.untried
                              THEN "refuseduntried" ELSE "song"]
    ELSE IF noProviderAsked(r)
      THEN Err(IF ctx THEN "ctx" ELSE "unavailable")
    ELSE LET top == IF r.blocked /\ r.failed # "none" THEN r.failed ELSE r.top
         IN  IF r.blocked /\ r.failed = "none" /\ r.untried
               THEN Err("blockeduntried")
             ELSE IF /\ r.blocked /\ r.failed = "none" /\ ~r.hollow
                     /\ top = "none" \/ ClassifyOutcome(top) \in {"miss", "outage"}
               THEN Err("allblocked")
             ELSE IF top = "none" THEN Err("unavailable")
             ELSE IF ClassifyOutcome(top) = "transport" /\ r.answered /\ ~r.unbounded
               THEN Err("partial")
             ELSE Err(top)

-----------------------------------------------------------------------------
(* Lanes and their breakers. *)

Dets == IF cfg.det = "none" THEN <<>> ELSE <<Detector>>
Order == IF cfg.det = "front" THEN Dets \o Providers ELSE Providers \o Dets
WordOrder == SelectSeq(Providers, LAMBDA l : l \in WordLanes)

NewLane == [b |-> NewBreaker, refused |-> FALSE]
NewDispatch == [phase |-> "idle", kind |-> "main", i |-> 0, r |-> NewResult,
                got |-> [l \in Lanes |-> "none"], held |-> NoCand, out |-> NoOut]

(* What a returned answer does to the lane: providerClassifier,             *)
(* detectorClassifier and the success path of FindLyrics.                   *)
Breaking(a) == a \in {"rate", "forbidden", "outage"}

(* The breaker left alone by an authentication refusal that asks for a new  *)
(* token: the lane is asked again at full rate.                             *)
ClassifyErrMisread(b, a) == IF a = "renewal" THEN [b EXCEPT !.open = "no", !.trips = @ + 1]
                            ELSE CASE Breaking(a) -> Tripped(b) [] OTHER -> Recovered(b)

ClassifyErr(b, a) == CASE Breaking(a) -> Tripped(b)
                       [] a = "renewal" -> TrippedForRenewal(b)
                       [] a \in Songs \cup {"nomatch", "hollow", "vocal"} -> Recovered(b)
                       [] OTHER -> b      \* transport, latched, canceled, notready

Returned(l, a) ==
    [lane[l] EXCEPT !.b = ClassifyErr(@, a),
                    !.refused = IF a = "canceled" THEN @ ELSE IsRefusal(a)]

(* The detector lane turns "not ready" into an outage once it has been      *)
(* reached, or after NotReadyBound in a row.                                *)
DetectorAnswer(a) ==
    IF a = "notready" /\ (det.reached \/ det.streak >= NotReadyBound)
    THEN "outage" ELSE a

DetectorAfter(a) ==
    CASE a \in {"inst", "vocal"} -> [reached |-> TRUE, streak |-> 0]
      [] DetectorAnswer(a) = "notready" -> [det EXCEPT !.streak = @ + 1]
      [] OTHER -> det

(* The answers a call can come back with: "canceled" only to a call whose   *)
(* context is cancelled.                                                    *)
Possible(l, cancelled) == cfg.ans[l] \cup (IF cancelled THEN {"canceled"} ELSE {})

Ask(l) == [lane EXCEPT ![l].b = Allowed(@)]
Refused(l) == AllowState(lane[l].b) = "open"
LaneOpen(l) == SnapshotState(lane'[l].b) = "open"

-----------------------------------------------------------------------------
(* A dispatch returns: the deferred cancel leaves the calls still out to    *)
(* return on their own.  Bound: one such call per lane at a time.           *)
Done(r, got, out) ==
    [d EXCEPT !.phase = "done", !.r = r, !.got = got, !.out = out]

Abandon(pending) ==
    /\ \A l \in pending : stale[l] = "none"
    /\ stale' = [l \in Lanes |-> IF l \in pending THEN call[l] ELSE stale[l]]
    /\ call' = [l \in Lanes |-> "none"]

(* allLanesUnavailable: the gate before a claim.  It asks breakers in turn  *)
(* until one is not open, moving every elapsed one it asks to half-open.    *)
(* A staged detector does not count.                                        *)
GateOrder ==
    IF cfg.mode = "parallel" /\ cfg.det # "front" THEN Providers ELSE Dets \o Providers

FirstUp == LET up == {i \in 1..Len(GateOrder) : ~Refused(GateOrder[i])}
           IN  IF up = {} THEN 0 ELSE CHOOSE i \in up : \A j \in up : i <= j

allLanesUnavailable == FirstUp = 0

GateShut ==
    /\ d.phase \in {"idle", "done"} /\ ~ctx
    /\ allLanesUnavailable
    /\ d' = [NewDispatch EXCEPT !.phase = "shut"]
    /\ UNCHANGED <<cfg, lane, det, call, stale, ctx>>

Begins(kind) == IF kind = "word" \/ cfg.mode = "ordered" THEN "ordered"
                ELSE IF cfg.det = "front" THEN "pre" ELSE "race"

(* i: the place in the sequence of an ordered dispatch; of a race, the lanes *)
(* consulted before it (preConsulted).                                       *)
FindLyrics(kind) ==
    /\ d.phase \in {"idle", "done", "shut"} /\ ~ctx
    /\ ~allLanesUnavailable
    /\ kind = "word" => WordLanes # {}
    /\ lane' = [lane EXCEPT ![GateOrder[FirstUp]].b = Allowed(@)]
    /\ d' = [NewDispatch EXCEPT !.kind = kind, !.phase = Begins(kind),
                                !.i = IF Begins(kind) = "ordered" THEN 1 ELSE 0]
    /\ call' = [l \in Lanes |->
                  IF d'.phase = "race" /\ l # Detector THEN "spawned" ELSE "none"]
    /\ UNCHANGED <<cfg, det, stale, ctx>>

-----------------------------------------------------------------------------
(* One answer taken in, the part both modes share: note, consult, block,    *)
(* retain or rank.                                                          *)
Heard(l, a) ==
    LET r == noteUntried(d.r, l, a)
    IN  [r EXCEPT !.word = @ + (IF answersWord(l, a) THEN 1 ELSE 0)]

Blocked(r, l, a) ==
    [r EXCEPT !.blocked = TRUE, !.att = @ \ {l},
              !.word = @ - (IF answersWord(l, a) THEN 1 ELSE 0)]

Absorbed(r, l, a, open) ==
    IF a \notin Songs THEN rankErr(noteTransport(r, a, open), a)
    ELSE CASE classifyCandidate(a) = "blocked" -> Blocked(r, l, a)
           [] classifyCandidate(a) \in {"retain", "refuse"} -> retainCandidate(r, l, a)
           [] OTHER -> r

-----------------------------------------------------------------------------
(* Ordered dispatch. *)

MinCommit == IF d.kind = "word" THEN 4 ELSE 0
Sequence == IF d.kind = "word" THEN WordOrder ELSE Order
AtHead == d.phase = "ordered" /\ \A l \in Lanes : call[l] = "none"

OrderedCommits(r, a) ==
    /\ a \in Songs /\ classifyCandidate(a) = "commit"
    /\ r.held = NoCand \/ landedQuality(a) > 2

OrderedNext(l, a, open) ==
    LET r == Heard(l, a) IN
    IF a = "unavailable" THEN r
    ELSE LET c == consult(r, l) IN
         CASE OrderedCommits(r, a) -> gate(c, l, a)
           [] a = "demoted" -> hold(c, l, a)
           [] OTHER -> Absorbed(c, l, a, open)

CommitWord(n, w) ==
    ungatedWordAnswer(IF MinCommit > 0 /\ w # "served" THEN wordAnswerFor(n) ELSE w, n)

OrderedTake(l, a) ==
    LET got == [d.got EXCEPT ![l] = a]
        r == OrderedNext(l, a, LaneOpen(l))
        wins == OrderedCommits(d.r, a) /\ QualityOf(a) >= MinCommit
    IN  d' = IF wins
             THEN Done(consult(Heard(l, a), l), got,
                       Song([lane |-> l, ans |-> a],
                            CommitWord(Heard(l, a).word, WordAnswerOf(a))))
             ELSE [d EXCEPT !.r = r, !.got = got, !.i = @ + 1]

(* With an answer held or gated, the detector's verdict is not needed. *)
DetectorMoot ==
    Sequence[d.i] = Detector /\ (d.r.held # NoCand \/ d.r.gated # NoCand)

OrderedAsk ==
    /\ AtHead /\ d.i <= Len(Sequence) /\ ~ctx
    /\ ~DetectorMoot
    /\ LET l == Sequence[d.i] IN
       /\ lane' = Ask(l)
       /\ IF Refused(l)
          THEN OrderedTake(l, "unavailable") /\ UNCHANGED call
          ELSE call' = [call EXCEPT ![l] = "out"] /\ UNCHANGED d
    /\ UNCHANGED <<cfg, det, stale, ctx>>

OrderedSkip ==
    /\ AtHead /\ d.i <= Len(Sequence) /\ ~ctx
    /\ DetectorMoot
    /\ d' = [d EXCEPT !.i = @ + 1]
    /\ UNCHANGED <<cfg, lane, det, call, stale, ctx>>

(* The answer as FindLyrics of the lane returns it, and what it leaves. *)
AnswerOf(l, raw) == IF l = Detector THEN DetectorAnswer(raw) ELSE raw

LaneReturns(l, raw) ==
    /\ lane' = [lane EXCEPT ![l] = Returned(l, AnswerOf(l, raw))]
    /\ det' = IF l = Detector THEN DetectorAfter(raw) ELSE det

OrderedAnswer(l) ==
    /\ d.phase = "ordered" /\ call[l] = "out"
    /\ \E raw \in Possible(l, ctx) :
          LaneReturns(l, raw) /\ OrderedTake(l, AnswerOf(l, raw))
    /\ call' = [call EXCEPT ![l] = "none"]
    /\ UNCHANGED <<cfg, stale, ctx>>

OrderedEnd ==
    /\ AtHead
    /\ \/ /\ ctx /\ d.i <= Len(Sequence)
          /\ d' = Done(d.r, d.got, Err("ctx"))
       \/ /\ d.i > Len(Sequence)
          /\ LET o == resolve(d.r)
                 w == IF MinCommit > 0 THEN wordAnswerFor(d.r.word) ELSE o.word
             IN  d' = Done(d.r, d.got, [o EXCEPT !.word = ungatedWordAnswer(w, d.r.word)])
    /\ UNCHANGED <<cfg, lane, det, call, stale, ctx>>

-----------------------------------------------------------------------------
(* Parallel dispatch. *)

Spawned == [l \in Lanes |-> IF l # Detector THEN "spawned" ELSE "none"]

finishParallel(r, got) ==
    LET o == resolve(r)
    IN  Done(r, got, [o EXCEPT !.word = ungatedWordAnswer(o.word, r.word)])

(* runStaged: the detector alone, before the race (a commit ends the        *)
(* dispatch) or after it.                                                   *)
StagedTake(a) ==
    LET got == [d.got EXCEPT ![Detector] = a]
        h == Heard(Detector, a)
        r == IF a = "unavailable" THEN h
             ELSE Absorbed(consult(h, Detector), Detector, a, LaneOpen(Detector))
    IN  IF ctx THEN d' = Done(r, got, Err("ctx")) /\ call' = [l \in Lanes |-> "none"]
        ELSE IF a \in Songs /\ classifyCandidate(a) = "commit"
        THEN /\ d' = Done(r, got, Song([lane |-> Detector, ans |-> a], WordAnswerOf(a)))
             /\ call' = [l \in Lanes |-> "none"]
        ELSE IF d.phase = "pre"
        THEN /\ d' = [d EXCEPT !.phase = "race", !.r = r, !.got = got, !.i = r.consulted]
             /\ call' = Spawned
        ELSE d' = finishParallel(r, got) /\ call' = [l \in Lanes |-> "none"]

StagedAsk ==
    /\ d.phase \in {"pre", "post"} /\ call[Detector] = "none"
    /\ lane' = Ask(Detector)
    /\ IF Refused(Detector) THEN StagedTake("unavailable")
       ELSE call' = [call EXCEPT ![Detector] = "out"] /\ UNCHANGED d
    /\ UNCHANGED <<cfg, det, stale, ctx>>

StagedAnswer ==
    /\ d.phase \in {"pre", "post"} /\ call[Detector] = "out"
    /\ \E raw \in Possible(Detector, ctx) :
          LaneReturns(Detector, raw) /\ StagedTake(AnswerOf(Detector, raw))
    /\ UNCHANGED <<cfg, stale, ctx>>

RaceCommits(a) ==
    /\ classifyCandidate(a) = "commit" /\ QualityOf(a) >= 3
    /\ d.held = NoCand \/ landedQuality(a) > 2

HeldSong(held, r) == Song(held, ungatedWordAnswer(WordAnswerOf(held.ans), r.word))

(* Every race lane has reported: a held answer wins, else the detector      *)
(* staged after the race runs, unless no provider was consulted.            *)
EndRace(r, got, held) ==
    IF ctx THEN Done(r, got, Err("ctx"))
    ELSE IF held # NoCand THEN Done(r, got, HeldSong(held, r))
    ELSE IF cfg.det = "back" /\ r.consulted # d.i
    THEN [d EXCEPT !.phase = "post", !.r = r, !.got = got]
    ELSE finishParallel(r, got)

(* One result taken from the channel.  The lane's own part and the receive  *)
(* are one step: nothing reads the breakers between them but stale calls.   *)
RaceTake(l, a) ==
    LET pending == {m \in Lanes : call[m] # "none"} \ {l}
        got == [d.got EXCEPT ![l] = a]
        h == Heard(l, a)
        c == consult(h, l)
        holds == a \in Songs /\ classifyCandidate(a) \in {"commit", "hold"}
        held == IF holds /\ d.held = NoCand THEN [lane |-> l, ans |-> a] ELSE d.held
        r == IF a \in {"unavailable", "canceled"} THEN h
             ELSE Absorbed(c, l, a, LaneOpen(l))
    IN  IF a \in Songs /\ RaceCommits(a)
        THEN /\ d' = Done(c, got, Song([lane |-> l, ans |-> a],
                                       ungatedWordAnswer(WordAnswerOf(a), c.word)))
             /\ Abandon(pending)
        ELSE /\ d' = IF pending = {} THEN EndRace(r, got, held)
                     ELSE [d EXCEPT !.r = r, !.got = got, !.held = held]
             /\ call' = [call EXCEPT ![l] = "none"]
             /\ UNCHANGED stale

RaceStart(l) ==
    /\ d.phase = "race" /\ call[l] = "spawned"
    /\ lane' = Ask(l)
    /\ IF Refused(l) THEN RaceTake(l, "unavailable")
       ELSE call' = [call EXCEPT ![l] = "out"] /\ UNCHANGED <<d, stale>>
    /\ UNCHANGED <<cfg, det, ctx>>

RaceAnswer(l) ==
    /\ d.phase = "race" /\ call[l] = "out"
    /\ \E raw \in Possible(l, ctx) :
          LaneReturns(l, raw) /\ RaceTake(l, AnswerOf(l, raw))
    /\ UNCHANGED <<cfg, ctx>>

(* The select's other cases: the context is done, or the upgrade timer      *)
(* armed by a held answer fires.                                            *)
RaceGivesUp ==
    /\ d.phase = "race"
    /\ ctx \/ d.held # NoCand
    /\ d' = Done(d.r, d.got, IF ctx THEN Err("ctx") ELSE HeldSong(d.held, d.r))
    /\ Abandon({l \in Lanes : call[l] # "none"})
    /\ UNCHANGED <<cfg, lane, det, ctx>>

(* A cancelled call of an earlier race goes on: it may still have to ask    *)
(* the breaker, and its answer moves it like any other.                     *)
StaleStart(l) ==
    /\ stale[l] = "spawned"
    /\ lane' = Ask(l)
    /\ stale' = [stale EXCEPT ![l] = IF Refused(l) THEN "none" ELSE "out"]
    /\ UNCHANGED <<cfg, det, call, d, ctx>>

StaleReturn(l) ==
    /\ stale[l] = "out"
    /\ \E raw \in Possible(l, TRUE) : LaneReturns(l, raw)
    /\ stale' = [stale EXCEPT ![l] = "none"]
    /\ UNCHANGED <<cfg, call, d, ctx>>

-----------------------------------------------------------------------------
Elapse(l) ==
    /\ lane[l].b.open = "live"
    /\ lane' = [lane EXCEPT ![l].b = WindowOver(@)]
    /\ UNCHANGED <<cfg, det, call, stale, d, ctx>>

Shutdown ==
    /\ ~ctx /\ ctx' = TRUE
    /\ UNCHANGED <<cfg, lane, det, call, stale, d>>

(* The next process starts with new breakers and no call out. *)
Fresh ==
    /\ lane' = [l \in Lanes |-> NewLane]
    /\ det' = [reached |-> FALSE, streak |-> 0]
    /\ call' = [l \in Lanes |-> "none"] /\ stale' = [l \in Lanes |-> "none"]
    /\ d' = NewDispatch /\ ctx' = FALSE

Restart ==
    /\ ctx /\ d.phase \in {"idle", "done", "shut"}
    /\ Fresh /\ UNCHANGED cfg

Init ==
    /\ cfg \in Configs
    /\ lane = [l \in Lanes |-> NewLane]
    /\ det = [reached |-> FALSE, streak |-> 0]
    /\ call = [l \in Lanes |-> "none"] /\ stale = [l \in Lanes |-> "none"]
    /\ d = NewDispatch /\ ctx = FALSE

Step == \/ GateShut \/ \E k \in {"main", "word"} : FindLyrics(k)
        \/ OrderedAsk \/ OrderedSkip \/ OrderedEnd
        \/ StagedAsk \/ StagedAnswer \/ RaceGivesUp
        \/ \E l \in Lanes : OrderedAnswer(l) \/ RaceStart(l) \/ RaceAnswer(l)

Next == \/ Step
        \/ \E l \in Lanes : StaleStart(l) \/ StaleReturn(l) \/ Elapse(l)
        \/ Shutdown \/ Restart

(* Go schedules the dispatch's goroutines and the provider clients carry    *)
(* request timeouts, so a started call returns; windows are wall-clock.     *)
Fairness ==
    /\ WF_vars(Step)
    /\ \A l \in Lanes : WF_vars(Elapse(l)) /\ WF_vars(StaleStart(l) \/ StaleReturn(l))

Spec == Init /\ [][Next]_vars
LiveSpec == Spec /\ Fairness

-----------------------------------------------------------------------------
(* What the worker configures: at least one provider, the detector no       *)
(* provider; a provider's client never answers for the breaker or the       *)
(* detector, and the detector answers an instrumental marker, that it hears *)
(* a voice, or that it cannot tell.                                         *)
WellConfigured ==
    /\ Providers # <<>> /\ Detector \notin Range(Providers)
    /\ \A c \in Configs : \A l \in Lanes :
          c.ans[l] \subseteq
             IF l = Detector THEN {"inst", "vocal", "notready", "outage"}
             ELSE Answers \ {"inst", "vocal", "notready", "outage", "unavailable", "canceled"}

(* No lane is installed twice, and the word-capable lanes are providers.    *)
Once(s) == \A i, j \in 1..Len(s) : s[i] = s[j] => i = j
InstalledOnce ==
    /\ Providers \in Seq(Lanes) /\ Once(Providers)
    /\ WordLanes \subseteq Range(Providers) /\ IsFiniteSet(WordLanes)
    /\ WordOrder \in Seq(WordLanes) /\ Once(WordOrder)

(* Shape of the dispatch state; a lane's breaker obeys Breaker!TypeOK. *)
TypeOK ==
    /\ cfg \in Configs /\ ctx \in BOOLEAN
    /\ \A l \in Lanes : /\ lane[l].b.trips \in 0..MaxTrips
                        /\ call[l] \in {"none", "spawned", "out"}
                        /\ stale[l] \in {"none", "spawned", "out"}
                        /\ d.got[l] \in Answers \cup {"none"}
    /\ d.phase \in {"idle", "shut", "ordered", "pre", "race", "post", "done"}
    /\ det.streak \in 0..NotReadyBound
    /\ d.r.word \in 0..Cardinality(WordLanes)

Ended == d.phase = "done" /\ d.out.ans # "ctx"
Usable(a) == a \in Songs /\ classifyCandidate(a) \in {"commit", "hold"}

(* No dispatch throws away a better lyric it had received: whichever order  *)
(* the lanes answered in, gated, held or raced, the outcome lands at least  *)
(* as well as every usable answer that came in before it was decided.       *)
BestReceivedWins ==
    Ended => \A l \in Lanes : Usable(d.got[l]) =>
        d.out.kind = "song" /\ landedQuality(d.out.ans) >= landedQuality(d.got[l])

(* "No word timing exists" is recorded only when every word-capable lane    *)
(* answered that question in this dispatch, and none by a blocked lyric.    *)
(* A lane skipped, cancelled, throttled or failed leaves it unknown.        *)
WordAbsentIsUnanimous ==
    Ended /\ d.out.word = "absent" =>
        \A l \in WordLanes : answersWord(l, d.got[l]) /\ d.got[l] # "blocked"

(* A dispatch counts against the row's miss budget only if some provider    *)
(* really answered: never on the detector's word alone while every          *)
(* provider was skipped or throttled.                                       *)
MissIsAnAnswer ==
    Ended /\ d.out.kind = "err" /\ ClassifyOutcome(d.out.ans) = "miss" =>
        \E l \in Range(Providers) :
            d.got[l] \in {"nomatch", "hollow", "blocked"}

(* A timing-refused lyric is settled on only when no provider was left      *)
(* untried: otherwise the row must come back for the untried lane.          *)
RefusedOnlyWhenAllTried ==
    Ended /\ d.out.kind = "song" /\ d.out.ans = "refused" =>
        \A l \in Range(Providers) :
            ClassifyOutcome(d.got[l]) \notin {"unavailable", "auth", "notready"}

(* Every lane's breaker, driven by dispatches, rechecks, the gate and the   *)
(* late returns of cancelled calls, is still a Breaker.                     *)
Brk(l) == INSTANCE Breaker WITH b <- lane[l].b

LanesKeepBreakers ==
    \A l \in Lanes : [Brk(l)!Next]_(lane[l].b)

(* No lane of the running configuration is let through at full rate while   *)
(* an outage's trips stand.                                                 *)
LanesClosedMeansRecovered == \A l \in Lanes : Brk(l)!ClosedMeansRecovered

(* A dispatch always ends, whatever its lanes do, and a gate that found     *)
(* every breaker open lets a dispatch through again (or the worker stops).  *)
Dispatching == d.phase \notin {"idle", "shut", "done"}
Served == d.phase = "done"
Held == d.phase = "shut"
GateLeft == d.phase # "shut" \/ ctx
DispatchEnds == (Dispatching ~> Served) /\ (Held ~> GateLeft)
=============================================================================
