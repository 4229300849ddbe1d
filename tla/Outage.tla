------------------------------- MODULE Outage ------------------------------
(***************************************************************************)
(* How the Petit Lyrics client decides that its application id no longer   *)
(* works (internal/petitlyrics/client.go): a run of answers without songs  *)
(* is only a suspicion, settled by fetching a control track the provider   *)
(* once had.  Lookups run at once, and the lock is given up between the    *)
(* count, the check, the probe and the verdict.                            *)
(***************************************************************************)
EXTENDS Naturals, FiniteSets

CONSTANTS
    Lookups,               \* lookups that may run at once
    ZeroResultThreshold,   \* code: 20
    MaxFails               \* bound on the failed probes

VARIABLES
    alive,          \* the application id works (upstream)
    zero,           \* consecutiveZero
    latched,        \* zeroReported
    control,        \* "none", "seeded" or "earned"
    probing,        \* probeInFlight
    lk,             \* each lookup: its phase and what it read
    misses,         \* the zero answers since the last songs (bounded)
    fails

vars == <<alive, zero, latched, control, probing, lk, misses, fails>>

Idle == [pc |-> "idle", seeded |-> FALSE, probed |-> FALSE]
MaxRun == ZeroResultThreshold + Cardinality(Lookups)
Counted(n) == IF n < MaxRun THEN n + 1 ELSE n

TypeOK ==
    /\ alive \in BOOLEAN /\ latched \in BOOLEAN /\ probing \in BOOLEAN
    /\ zero \in 0..MaxRun /\ misses \in 0..MaxRun /\ fails \in 0..MaxFails
    /\ control \in {"none", "seeded", "earned"}
    /\ lk \in [Lookups -> [pc : {"idle", "asked", "suspects", "probes", "missed", "verdict", "clearing"},
                          seeded : BOOLEAN, probed : BOOLEAN]]

(* SeedKnownGood may have installed a control from the database.           *)
Init ==
    /\ alive \in BOOLEAN /\ zero = 0 /\ latched = FALSE
    /\ control \in {"none", "seeded"} /\ probing = FALSE
    /\ lk = [l \in Lookups |-> Idle] /\ misses = 0 /\ fails = 0

Ask(l) ==
    /\ lk[l].pc = "idle" /\ lk' = [lk EXCEPT ![l].pc = "asked"]
    /\ UNCHANGED <<alive, zero, latched, control, probing, misses, fails>>

(* recordSuccess: songs end the run and the outage; a track with a title   *)
(* and an artist becomes the control.                                      *)
recordSuccess(usable) ==
    /\ zero' = 0 /\ latched' = FALSE /\ misses' = 0
    /\ control' = IF usable THEN "earned" ELSE control

Songs(l) ==
    /\ lk[l].pc = "asked" /\ alive
    /\ \E usable \in BOOLEAN : recordSuccess(usable)
    /\ lk' = [lk EXCEPT ![l] = Idle]
    /\ UNCHANGED <<alive, probing, fails>>

(* A transport or status failure says nothing about the id.                *)
RequestFails(l) ==
    /\ lk[l].pc = "asked" /\ lk' = [lk EXCEPT ![l] = Idle]
    /\ UNCHANGED <<alive, zero, latched, control, probing, misses, fails>>

(* recordZeroResult: no songs, for want of material or of a working id.    *)
recordZeroResult(l) ==
    /\ lk[l].pc = "asked"
    /\ zero' = Counted(zero) /\ misses' = Counted(misses)
    /\ lk' = [lk EXCEPT ![l].pc = IF zero' >= ZeroResultThreshold THEN "suspects" ELSE "idle"]
    /\ UNCHANGED <<alive, latched, control, probing, fails>>

(* confirmOutage: the run is looked at again; without a control the count  *)
(* decides, and one probe answers for every lookup.                        *)
ConfirmedUnguarded(l) ==
    IF zero < ZeroResultThreshold THEN Idle
    ELSE IF control = "none" THEN [Idle EXCEPT !.pc = "verdict"]
    ELSE [Idle EXCEPT !.pc = "probes", !.seeded = (control = "seeded")]

Confirmed(l) ==
    IF zero < ZeroResultThreshold \/ (control # "none" /\ probing) THEN Idle
    ELSE IF control = "none" THEN [Idle EXCEPT !.pc = "verdict"]
    ELSE [Idle EXCEPT !.pc = "probes", !.seeded = (control = "seeded")]

confirmOutage(l) ==
    /\ lk[l].pc = "suspects"
    /\ lk' = [lk EXCEPT ![l] = Confirmed(l)]
    /\ probing' = (probing \/ Confirmed(l).pc = "probes")
    /\ UNCHANGED <<alive, zero, latched, control, misses, fails>>

(* The probe cannot be made: the run is halved so that the next one waits. *)
backOffProbe(l) ==
    /\ lk[l].pc = "probes" /\ fails < MaxFails /\ fails' = fails + 1
    /\ zero' = zero \div 2 /\ lk' = [lk EXCEPT ![l].pc = "clearing"]
    /\ UNCHANGED <<alive, latched, control, probing, misses>>

(* The provider still has the control: the misses were material.           *)
ProbeHits(l) ==
    /\ lk[l].pc = "probes" /\ alive
    /\ recordSuccess(TRUE)
    /\ lk' = [lk EXCEPT ![l].pc = "clearing"]
    /\ UNCHANGED <<alive, probing, fails>>

(* An earned control is found while the id works; a seeded one may be a    *)
(* track this provider never had.                                          *)
ProbeMisses(l) ==
    /\ lk[l].pc = "probes" /\ (~alive \/ lk[l].seeded)
    /\ lk' = [lk EXCEPT ![l].pc = "missed"]
    /\ UNCHANGED <<alive, zero, latched, control, probing, misses, fails>>

(* dropSeededControl: an unverified control is dropped, unless a success   *)
(* has replaced it, and the count decides.                                 *)
dropSeededControl(l) ==
    /\ lk[l].pc = "missed"
    /\ control' = IF lk[l].seeded /\ control = "seeded" THEN "none" ELSE control
    /\ lk' = [lk EXCEPT ![l].pc = "verdict", ![l].probed = ~(lk[l].seeded /\ control = "seeded")]
    /\ UNCHANGED <<alive, zero, latched, probing, misses, fails>>

(* reportConfirmedOutage: latched only if the run still stands; a verdict  *)
(* without a probe starts the count again.                                 *)
StandsOnceChecked == TRUE
Stands == zero >= ZeroResultThreshold

reportConfirmedOutage(l) ==
    /\ lk[l].pc = "verdict"
    /\ latched' = (latched \/ Stands)
    /\ zero' = IF Stands /\ ~lk[l].probed THEN 0 ELSE zero
    /\ lk' = [lk EXCEPT ![l] = IF lk[l].probed \/ lk[l].seeded THEN [lk[l] EXCEPT !.pc = "clearing"] ELSE Idle]
    /\ UNCHANGED <<alive, control, probing, misses, fails>>

(* The deferred reset of probeInFlight.                                    *)
ProbeOverKept == UNCHANGED probing
ProbeOver == probing' = FALSE

ProbeEnds(l) ==
    /\ lk[l].pc = "clearing" /\ ProbeOver
    /\ lk' = [lk EXCEPT ![l] = Idle]
    /\ UNCHANGED <<alive, zero, latched, control, misses, fails>>

(* Upstream retires the id, or honours it again.                           *)
Upstream ==
    /\ alive' = ~alive
    /\ UNCHANGED <<zero, latched, control, probing, lk, misses, fails>>

Step(l) ==
    \/ recordZeroResult(l) \/ confirmOutage(l) \/ ProbeHits(l) \/ ProbeMisses(l)
    \/ dropSeededControl(l) \/ reportConfirmedOutage(l) \/ ProbeEnds(l)

Next ==
    \/ \E l \in Lookups : Ask(l) \/ Songs(l) \/ RequestFails(l) \/ Step(l) \/ backOffProbe(l)
    \/ Upstream

(* Lookups keep coming and answers without songs among them, and a lookup  *)
(* once answered runs on.                                                  *)
Fairness == \A l \in Lookups : WF_vars(Ask(l)) /\ SF_vars(recordZeroResult(l)) /\ WF_vars(Step(l))

Spec == Init /\ [][Next]_vars
LiveSpec == Spec /\ Fairness
----------------------------------------------------------------------------
(* An outage is declared only on a run that still stands: no songs arrived *)
(* among the last threshold answers, also not while the lookup that        *)
(* declares it was between its check and its verdict.                      *)
OutageNeedsRun ==
    ~latched /\ latched' => misses >= ZeroResultThreshold

(* A burst of misses makes one probe: never two at once.                   *)
OneProbe ==
    Cardinality({l \in Lookups : lk[l].pc = "probes"}) <= 1

(* Once the id works again for good, a client with a control notices,      *)
(* although every track it is asked for is one the provider lacks.         *)
Noticed == ~latched \/ ~alive \/ control = "none"
RecoveryNoticed == []<>Noticed
=============================================================================
