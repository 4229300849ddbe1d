---------------------------- MODULE SourceProofs ----------------------------
(***************************************************************************)
(* What holds of the components that bring tracks and answers in, one      *)
(* after the other: the scanner (Scan), and of the provider clients the    *)
(* token (Token), the pacers (Pacer) and the outage probe (Outage).  Each  *)
(* part has its own constants and variables; FetchProofs applies the       *)
(* theorems to the parts of MCFetch.                                       *)
(***************************************************************************)
EXTENDS Integers, Sequences, FiniteSets, FiniteSetTheorems, TLAPS

CONSTANTS Scans, ScanOptions, Embedded, ScanEdits, ScanFaults, MaxEdits,
          MaxSides, MaxFaults, TokenLookups, TokenFaults, MaxMints, MaxSaves,
          MaxStarts, MaxExpired, Callers, Bases, Width, adaptiveMaxLevel,
          adaptiveSuccessThreshold, adaptiveDecayInterval, MaxNow, MaxSlot,
          MaxThrottles, Probers, ZeroResultThreshold, MaxFails

VARIABLES truth, path, holds, edits, side, sides, ids, durs, fails, row,
          scan, faults, store, owner, sv, lk, renewMu, dead, mints, saves,
          starts, writes, kind, base, now, last, level, streak, changed,
          caller, taken, throttled, throttles, alive, zero, latched, control,
          probing, pr, misses, unmade

Sn == INSTANCE Scan WITH Options <- ScanOptions, Edits <- ScanEdits, Faults <- ScanFaults
To == INSTANCE Token WITH Lookups <- TokenLookups, Faults <- TokenFaults
Pa == INSTANCE Pacer
Ou == INSTANCE Outage WITH Lookups <- Probers, lk <- pr, fails <- unmade

-----------------------------------------------------------------------------
(* The scanner (Scan). *)

(* The bounds are numbers and a scan has some options to start with. *)
ScanConfigured == MaxEdits \in Nat /\ ScanOptions # {}

Stamps == 0..(edits + 1)
ScanPCs == {"idle", "lrc", "txt", "bank", "bankprobe", "bankrecord", "index", "indexread", "stat",
            "open", "link", "probe", "record", "reread", "facts", "upsert"}
ScanStates == [pc : ScanPCs, opt : ScanOptions, lrc : BOOLEAN, stamp : Sn!Versions \cup {Sn!None},
               miss : Sn!Versions \cup {Sn!None}, ino : Sn!Versions, tags : Sn!Tags,
               dur : Sn!Versions \cup {Sn!None}, bad : BOOLEAN,
               res : {"none", "done", "pending"}, held : BOOLEAN]

ScanTypes ==
    /\ edits \in 0..MaxEdits
    /\ truth \in [Sn!Versions -> [tags : Sn!Versions, dur : Sn!Versions, ok : BOOLEAN]]
    /\ path \in Sn!Versions /\ holds \in [Sn!Versions -> Sn!Versions]
    /\ ids \in [stamp : Sn!Versions \cup {Sn!None}, tags : Sn!Tags, dur : Sn!Versions \cup {Sn!None}]
    /\ durs \in [stamp : Sn!Versions \cup {Sn!None}, dur : Sn!Versions \cup {Sn!None}]
    /\ fails \in Sn!Versions \cup {Sn!None}
    /\ row \in Sn!Rows
    /\ side \in [lrc : BOOLEAN, txt : Sn!Texts, fresh : BOOLEAN]
    /\ scan \in [Scans -> ScanStates]

(* The path names the youngest version, and no stamp is younger. *)
Youngest ==
    /\ holds[path] = edits + 1 /\ path <= edits + 1
    /\ \A i \in Sn!Versions : holds[i] <= edits + 1
    /\ ids.stamp <= edits + 1 /\ durs.stamp <= edits + 1 /\ fails <= edits + 1
    /\ \A s \in Scans : scan[s].stamp <= edits + 1 /\ scan[s].miss <= edits + 1 /\ scan[s].ino <= edits + 1

-----------------------------------------------------------------------------
LEMMA Blank ==
    ASSUME ScanConfigured, NEW o \in ScanOptions
    PROVE  /\ Sn!NoScan(o) \in ScanStates
           /\ Sn!NoScan(o).pc = "idle" /\ Sn!NoScan(o).stamp = Sn!None /\ Sn!NoScan(o).miss = Sn!None
           /\ Sn!NoScan(o).ino = 1 /\ Sn!NoScan(o).res = "none" /\ Sn!NoScan(o).held = FALSE
           /\ Sn!NoScan(o).lrc = FALSE
<1>1. 1 \in Sn!Versions /\ MaxEdits \in Nat
  BY DEF ScanConfigured, Sn!Versions
<1>2. Sn!NoScan(o) \in ScanStates
  BY <1>1 DEF Sn!NoScan, ScanStates, ScanPCs, Sn!Tags, Sn!None
<1> QED BY <1>2 DEF Sn!NoScan

LEMMA IdleBlank == ASSUME ScanConfigured PROVE \E o \in ScanOptions : Sn!Idle = Sn!NoScan(o)
<1>1. (CHOOSE o \in ScanOptions : TRUE) \in ScanOptions
  BY DEF ScanConfigured
<1> QED BY <1>1 DEF Sn!Idle

LEMMA VersionsNat == ASSUME ScanConfigured PROVE Sn!Versions \subseteq Nat \ {0} /\ MaxEdits \in Nat
BY DEF ScanConfigured, Sn!Versions

LEMMA ScanTypesInit == ASSUME ScanConfigured PROVE Sn!Init => ScanTypes /\ Youngest
<1> SUFFICES ASSUME Sn!Init PROVE ScanTypes /\ Youngest
  OBVIOUS
<1>1. PICK o \in ScanOptions : Sn!Idle = Sn!NoScan(o)
  BY IdleBlank
<1>2. Sn!Idle \in ScanStates /\ Sn!Idle.stamp = 0 /\ Sn!Idle.miss = 0 /\ Sn!Idle.ino = 1
  BY <1>1, Blank DEF Sn!None
<1>3. 1 \in Sn!Versions /\ MaxEdits \in Nat
  BY DEF ScanConfigured, Sn!Versions
<1>4. edits \in 0..MaxEdits /\ path \in Sn!Versions /\ holds \in [Sn!Versions -> Sn!Versions]
  BY <1>3 DEF Sn!Init
<1>5. truth \in [Sn!Versions -> [tags : Sn!Versions, dur : Sn!Versions, ok : BOOLEAN]]
  BY <1>3 DEF Sn!Init
<1>6. /\ ids \in [stamp : Sn!Versions \cup {Sn!None}, tags : Sn!Tags, dur : Sn!Versions \cup {Sn!None}]
      /\ durs \in [stamp : Sn!Versions \cup {Sn!None}, dur : Sn!Versions \cup {Sn!None}]
      /\ fails \in Sn!Versions \cup {Sn!None} /\ row \in Sn!Rows
  BY DEF Sn!Init, Sn!Tags, Sn!Rows
<1>7. side \in [lrc : BOOLEAN, txt : Sn!Texts, fresh : BOOLEAN]
  BY DEF Sn!Init
<1>8. scan \in [Scans -> ScanStates]
  BY <1>2 DEF Sn!Init
<1>9. ScanTypes
  BY <1>4, <1>5, <1>6, <1>7, <1>8 DEF ScanTypes
<1>10. Youngest
  BY <1>2, <1>3 DEF Sn!Init, Youngest, Sn!None
<1> QED BY <1>9, <1>10

-----------------------------------------------------------------------------
(* The types, action by action. *)
LEMMA StepTypes ==
    ASSUME ScanConfigured, ScanTypes, NEW s \in Scans, Sn!Step(s)
    PROVE  ScanTypes'
<1> USE VersionsNat
<1>1. holds[path] \in Sn!Versions /\ scan[s] \in ScanStates /\ holds[scan[s].ino] \in Sn!Versions
  BY DEF ScanTypes, ScanStates
<1>2. truth[Sn!Stamp].dur \in Sn!Versions /\ truth[Sn!HandleStamp(s)].dur \in Sn!Versions
      /\ truth[Sn!Stamp].tags \in Sn!Versions /\ truth[Sn!HandleStamp(s)].tags \in Sn!Versions
  BY <1>1 DEF ScanTypes, Sn!Stamp, Sn!HandleStamp
<1>3. CASE Sn!SeeLrc(s)
  BY <1>1, <1>3 DEF Sn!SeeLrc, ScanTypes, ScanStates, ScanPCs, Sn!stores, Sn!files, Sn!At
<1>4. CASE Sn!SeeTxt(s)
  BY <1>1, <1>4 DEF Sn!SeeTxt, ScanTypes, ScanStates, ScanPCs, Sn!stores, Sn!files, Sn!At, Sn!Goto
<1>5. CASE Sn!BankLookup(s)
  BY <1>1, <1>5 DEF Sn!BankLookup, ScanTypes, ScanStates, ScanPCs, Sn!stores, Sn!files, Sn!At, Sn!Goto
<1>6. CASE Sn!BankProbe(s)
  BY <1>1, <1>2, <1>6 DEF Sn!BankProbe, ScanTypes, ScanStates, ScanPCs, Sn!stores, Sn!files, Sn!At, Sn!Goto
<1>7. CASE Sn!BankRecord(s)
  BY <1>1, <1>2, <1>7 DEF Sn!BankRecord, ScanTypes, ScanStates, ScanPCs, Sn!stores, Sn!files, Sn!At, Sn!Goto, Sn!RecordDuration, Sn!HandleStamp, Sn!None
<1>8. CASE Sn!IndexLookup(s)
  BY <1>1, <1>8 DEF Sn!IndexLookup, ScanTypes, ScanStates, ScanPCs, Sn!stores, Sn!files, Sn!At, Sn!Goto, Sn!Stamp
<1>9. CASE Sn!IndexRead(s)
  BY <1>1, <1>9 DEF Sn!IndexRead, ScanTypes, ScanStates, ScanPCs, Sn!stores, Sn!files, Sn!At, Sn!Goto
<1>10. CASE Sn!StatHit(s)
  BY <1>1, <1>10 DEF Sn!StatHit, ScanTypes, ScanStates, ScanPCs, Sn!stores, Sn!files, Sn!At, Sn!Goto, Sn!RecordDuration, Sn!Stamp
<1>11. CASE Sn!StatMiss(s)
  BY <1>1, <1>11 DEF Sn!StatMiss, ScanTypes, ScanStates, ScanPCs, Sn!stores, Sn!files, Sn!At, Sn!Goto, Sn!Stamp
<1>12. CASE Sn!OpenRead(s)
  BY <1>1, <1>2, <1>12 DEF Sn!OpenRead, ScanTypes, ScanStates, ScanPCs, Sn!stores, Sn!files, Sn!At, Sn!Goto, Sn!Tags
<1>13. CASE Sn!Link(s)
  <2>1. Sn!Linked \in [lrc : BOOLEAN, txt : Sn!Texts, fresh : BOOLEAN]
    BY DEF ScanTypes, Sn!Linked, Sn!Texts
  <2>2. side' \in [lrc : BOOLEAN, txt : Sn!Texts, fresh : BOOLEAN]
    BY <1>13, <2>1 DEF Sn!Link, ScanTypes
  <2>3. scan' \in [Scans -> ScanStates]
    <3> DEFINE h(t) == scan[t].held /\ ~side'.lrc
    <3>1. ASSUME NEW t \in Scans, NEW c \in ScanPCs
          PROVE  [scan[t] EXCEPT !.held = h(t), !.pc = c] \in ScanStates
      <4>1. scan[t] \in ScanStates /\ h(t) \in BOOLEAN
        BY DEF ScanTypes
      <4> HIDE DEF h
      <4> QED BY <3>1, <4>1 DEF ScanStates
    <3>2. CASE scan' = [scan EXCEPT ![s].pc = "probe"] \/ scan' = [scan EXCEPT ![s].pc = "reread"]
      BY <1>1, <3>2 DEF ScanTypes, ScanStates, ScanPCs
    <3>3. ASSUME NEW d \in ScanPCs,
                 scan' = [t \in Scans |-> [scan[t] EXCEPT !.held = @ /\ ~side'.lrc, !.pc = IF t # s THEN @ ELSE d]]
          PROVE  scan' \in [Scans -> ScanStates]
      <4>1. ASSUME NEW t \in Scans
            PROVE  [scan[t] EXCEPT !.held = @ /\ ~side'.lrc, !.pc = IF t # s THEN @ ELSE d] \in ScanStates
        <5>1. scan[t].pc \in ScanPCs
          BY DEF ScanTypes, ScanStates
        <5> QED BY <3>1, <5>1
      <4> QED BY <3>3, <4>1
    <3> QED BY <1>13, <3>2, <3>3 DEF Sn!Link, Sn!Goto, ScanPCs
  <2> QED BY <1>13, <2>2, <2>3 DEF Sn!Link, ScanTypes, Sn!stores, Sn!files
<1>14. CASE Sn!Probe(s)
  BY <1>1, <1>2, <1>14 DEF Sn!Probe, ScanTypes, ScanStates, ScanPCs, Sn!stores, Sn!files, Sn!At
<1>15. CASE Sn!Record(s)
  BY <1>1, <1>2, <1>15 DEF Sn!Record, ScanTypes, ScanStates, ScanPCs, Sn!stores, Sn!files, Sn!At, Sn!Goto, Sn!RecordDuration, Sn!HandleStamp
<1>16. CASE Sn!Reread(s)
  BY <1>1, <1>2, <1>16 DEF Sn!Reread, ScanTypes, ScanStates, ScanPCs, Sn!stores, Sn!files, Sn!At, Sn!Goto, Sn!Tags
<1>17. CASE Sn!BankFacts(s)
  <2>1. ids' \in [stamp : Sn!Versions \cup {Sn!None}, tags : Sn!Tags, dur : Sn!Versions \cup {Sn!None}]
    <3>1. scan[s].tags \in Sn!Tags /\ scan[s].dur \in Sn!Versions \cup {Sn!None}
      BY <1>1 DEF ScanStates
    <3> QED BY <1>1, <1>17, <3>1 DEF Sn!BankFacts, ScanTypes, Sn!HandleStamp
  <2>2. scan' \in [Scans -> ScanStates]
    BY <1>1, <1>17 DEF Sn!BankFacts, ScanTypes, ScanStates, ScanPCs
  <2> QED BY <1>17, <2>1, <2>2 DEF Sn!BankFacts, ScanTypes, Sn!files
<1>18. CASE Sn!Upsert(s)
  <2>1. Sn!Idle \in ScanStates
    BY IdleBlank, Blank
  <2>2. scan' \in [Scans -> ScanStates]
    BY <1>18, <2>1 DEF Sn!Upsert, ScanTypes
  <2>3. row' \in Sn!Rows
    BY <1>1, <1>18 DEF Sn!Upsert, Sn!Upserted, ScanTypes, ScanStates, Sn!Rows
  <2> QED BY <1>18, <2>2, <2>3 DEF Sn!Upsert, ScanTypes, Sn!files
<1> QED BY <1>3, <1>4, <1>5, <1>6, <1>7, <1>8, <1>9, <1>10, <1>11, <1>12, <1>13, <1>14, <1>15, <1>16, <1>17, <1>18 DEF Sn!Step

(* An edit makes the next version: nothing recorded names it yet. *)
LEMMA EditMakesNext ==
    ASSUME ScanConfigured, ScanTypes, Youngest, NEW how \in ScanEdits, NEW ok \in BOOLEAN, Sn!Edit(how, ok)
    PROVE  /\ edits + 2 \in Sn!Versions /\ edits' = edits + 1 /\ path' \in {path, edits + 2}
           /\ holds' = [holds EXCEPT ![path'] = edits + 2]
           /\ \A v \in Sn!Versions : v <= edits + 1 => truth'[v] = truth[v]
           /\ UNCHANGED <<ids, durs, fails, row, scan, side>>
           /\ ScanTypes' /\ Youngest'
<1> USE VersionsNat
<1>1. edits + 2 \in Sn!Versions /\ edits' = edits + 1 /\ edits' \in 0..MaxEdits /\ edits \in Nat
  BY DEF Sn!Edit, ScanTypes, Sn!Versions
<1>2. path' \in {path, edits + 2} /\ path' \in Sn!Versions
  BY <1>1 DEF Sn!Edit, ScanTypes
<1>3. holds' = [holds EXCEPT ![path'] = edits + 2]
  BY DEF Sn!Edit
<1>4. Sn!Stamp \in Sn!Versions /\ truth[Sn!Stamp].dur \in Sn!Versions
  BY DEF ScanTypes, Sn!Stamp
<1>5. truth' \in [Sn!Versions -> [tags : Sn!Versions, dur : Sn!Versions, ok : BOOLEAN]]
  BY <1>1, <1>4 DEF Sn!Edit, ScanTypes
<1>6. \A v \in Sn!Versions : v <= edits + 1 => truth'[v] = truth[v]
  BY <1>1 DEF Sn!Edit, ScanTypes
<1>7. UNCHANGED <<ids, durs, fails, row, scan, side>>
  BY DEF Sn!Edit
<1>8. ScanTypes'
  BY <1>1, <1>2, <1>3, <1>5, <1>7 DEF ScanTypes
<1>9. holds'[path'] = edits' + 1 /\ path' <= edits' + 1 /\ \A i \in Sn!Versions : holds'[i] <= edits' + 1
  BY <1>1, <1>2, <1>3 DEF ScanTypes, Youngest
<1>10. ids'.stamp <= edits' + 1 /\ durs'.stamp <= edits' + 1 /\ fails' <= edits' + 1
  BY <1>1, <1>7 DEF ScanTypes, Youngest, Sn!None
<1>11. ASSUME NEW s \in Scans
       PROVE  scan'[s].stamp <= edits' + 1 /\ scan'[s].miss <= edits' + 1 /\ scan'[s].ino <= edits' + 1
  <2>1. scan[s].stamp \in Nat /\ scan[s].miss \in Nat /\ scan[s].ino \in Nat
    BY DEF ScanTypes, ScanStates, Sn!None
  <2> QED BY <1>1, <1>7, <2>1 DEF Youngest
<1>12. Youngest'
  BY <1>9, <1>10, <1>11 DEF Youngest
<1> QED BY <1>1, <1>2, <1>3, <1>6, <1>7, <1>8, <1>12

(* Other writers touch the sidecars only, and the record of which scans    *)
(* have met a marked track.                                                *)
Reheld(s) == \E h \in BOOLEAN : /\ scan'[s] = [scan[s] EXCEPT !.held = h]
                                /\ h => scan[s].held /\ side'.txt = "manual" /\ ~side'.lrc

LEMMA SidecarsTypes ==
    ASSUME ScanConfigured, ScanTypes, Sn!Sidecars
    PROVE  /\ ScanTypes' /\ UNCHANGED <<truth, path, holds, edits, ids, durs, fails, row>>
           /\ \A s \in Scans : Reheld(s)
<1> DEFINE Wrote(l, t) == side' = [lrc |-> l, txt |-> t, fresh |-> TRUE] /\ (l => t = "none")
           Kept == /\ side' \in [lrc : BOOLEAN, txt : Sn!Texts, fresh : BOOLEAN]
                   /\ side'.txt = "manual" => ~side'.lrc
<1>0. \E l \in BOOLEAN, t \in Sn!Texts : Wrote(l, t)
  BY DEF Sn!Sidecars, Sn!Texts
<1>1. ASSUME NEW l \in BOOLEAN, NEW t \in Sn!Texts, Wrote(l, t)
      PROVE  Kept
  <2>1. side'.lrc = l /\ side'.txt = t
    BY <1>1
  <2>2. [lrc |-> l, txt |-> t, fresh |-> TRUE] \in [lrc : BOOLEAN, txt : Sn!Texts, fresh : BOOLEAN]
    BY <1>1
  <2> QED BY <1>1, <2>1, <2>2
<1> HIDE DEF Wrote, Kept
<1>2. Kept
  BY <1>0, <1>1
<1> USE DEF Kept
<1>3. ASSUME NEW s \in Scans
      PROVE  /\ [scan[s] EXCEPT !.held = @ /\ side'.txt = "manual"] \in ScanStates
             /\ Reheld(s)
  <2> DEFINE h == scan[s].held /\ side'.txt = "manual"
  <2>1. h \in BOOLEAN /\ scan'[s] = [scan[s] EXCEPT !.held = h]
    BY DEF Sn!Sidecars
  <2>2. h => scan[s].held /\ side'.txt = "manual" /\ ~side'.lrc
    BY <1>2
  <2>3. scan[s] \in ScanStates
    BY DEF ScanTypes
  <2> HIDE DEF h
  <2>4. [scan[s] EXCEPT !.held = h] \in ScanStates
    BY <2>1, <2>3 DEF ScanStates
  <2>5. Reheld(s)
    BY <2>1, <2>2 DEF Reheld
  <2> QED BY <2>4, <2>5 DEF h
<1>4. scan' \in [Scans -> ScanStates]
  BY <1>3 DEF Sn!Sidecars
<1> QED BY <1>2, <1>3, <1>4 DEF Sn!Sidecars, ScanTypes, Sn!files, Sn!stores

LEMMA BeginTypes ==
    ASSUME ScanConfigured, ScanTypes, NEW s \in Scans, NEW o \in ScanOptions, Sn!Begin(s, o)
    PROVE  /\ ScanTypes' /\ UNCHANGED <<truth, path, holds, edits, ids, durs, fails, row, side>>
           /\ \A t \in Scans \ {s} : scan'[t] = scan[t]
           /\ scan'[s].pc = "lrc" /\ scan'[s].stamp = Sn!None /\ scan'[s].miss = Sn!None /\ scan'[s].ino = 1
           /\ scan'[s].lrc = FALSE /\ scan'[s].res = "none"
           /\ scan'[s].held => side.txt = "manual" /\ ~side.lrc
<1> DEFINE h == side.txt = "manual" /\ ~side.lrc
           r == [Sn!NoScan(o) EXCEPT !.pc = "lrc", !.held = h]
<1>1. Sn!NoScan(o) \in ScanStates /\ h \in BOOLEAN
  BY Blank
<1>2. scan' = [scan EXCEPT ![s] = r]
  BY DEF Sn!Begin
<1> HIDE DEF h
<1>3. r \in ScanStates
  BY <1>1 DEF ScanStates, ScanPCs
<1>4. /\ r.pc = "lrc" /\ r.stamp = Sn!None /\ r.miss = Sn!None /\ r.ino = 1
      /\ r.lrc = FALSE /\ r.res = "none" /\ r.held = h
  BY <1>1, Blank DEF ScanStates
<1> HIDE DEF r
<1>5. scan' \in [Scans -> ScanStates] /\ scan'[s] = r /\ \A t \in Scans \ {s} : scan'[t] = scan[t]
  BY <1>2, <1>3 DEF ScanTypes
<1>6. UNCHANGED <<truth, path, holds, edits, ids, durs, fails, row, side>>
  BY DEF Sn!Begin, Sn!files, Sn!stores
<1>7. ScanTypes'
  BY <1>5, <1>6 DEF ScanTypes
<1> QED BY <1>4, <1>5, <1>6, <1>7 DEF h

(* A scan that is over, or was cancelled, is blank again. *)
Blanked(r) == /\ r.pc = "idle" /\ r.stamp = Sn!None /\ r.miss = Sn!None /\ r.ino = 1
              /\ r.res = "none" /\ ~r.held

LEMMA CancelTypes ==
    ASSUME ScanConfigured, ScanTypes, NEW s \in Scans, Sn!Cancel(s)
    PROVE  /\ ScanTypes' /\ UNCHANGED <<truth, path, holds, edits, ids, durs, fails, row, side>>
           /\ \A t \in Scans \ {s} : scan'[t] = scan[t]
           /\ Blanked(scan'[s])
<1>1. Sn!Idle \in ScanStates /\ Blanked(Sn!Idle)
  BY IdleBlank, Blank DEF Blanked
<1>2. scan' \in [Scans -> ScanStates] /\ scan'[s] = Sn!Idle /\ \A t \in Scans \ {s} : scan'[t] = scan[t]
  BY <1>1 DEF Sn!Cancel, ScanTypes
<1> QED BY <1>1, <1>2 DEF Sn!Cancel, ScanTypes, Sn!files, Sn!stores

(* A step moves its own scan; whatever stamp or inode it takes is the       *)
(* path's of that moment.                                                   *)
LEMMA StepMoves ==
    ASSUME ScanConfigured, ScanTypes, NEW s \in Scans, Sn!Step(s)
    PROVE  /\ UNCHANGED <<truth, path, holds, edits>>
           /\ scan'[s].stamp \in {scan[s].stamp, Sn!Stamp, Sn!None}
           /\ scan'[s].miss \in {scan[s].miss, Sn!Stamp, Sn!None}
           /\ scan'[s].ino \in {scan[s].ino, path, 1}
           /\ \A t \in Scans \ {s} : \E h \in BOOLEAN : /\ scan'[t] = [scan[t] EXCEPT !.held = h]
                                                        /\ h => scan[t].held /\ (side' = side \/ ~side'.lrc)
           /\ side' \in {side, Sn!Linked}
<1>1. scan[s] \in ScanStates /\ \A t \in Scans : scan[t] = [scan[t] EXCEPT !.held = scan[t].held] /\ scan[t].held \in BOOLEAN
  BY DEF ScanTypes, ScanStates
<1>2. UNCHANGED <<truth, path, holds, edits>>
  BY DEF Sn!Step, Sn!files, Sn!SeeLrc, Sn!SeeTxt, Sn!BankLookup, Sn!BankProbe, Sn!BankRecord, Sn!IndexLookup, Sn!IndexRead, Sn!StatHit,
         Sn!StatMiss, Sn!OpenRead, Sn!Link, Sn!Probe, Sn!Record, Sn!Reread, Sn!BankFacts, Sn!Upsert
<1>3. CASE ~Sn!Link(s)
  <2>0. UNCHANGED side
    BY <1>3 DEF Sn!Step, Sn!SeeLrc, Sn!SeeTxt, Sn!BankLookup, Sn!BankProbe, Sn!BankRecord, Sn!IndexLookup, Sn!IndexRead, Sn!StatHit,
         Sn!StatMiss, Sn!OpenRead, Sn!Probe, Sn!Record, Sn!Reread, Sn!BankFacts, Sn!Upsert
  <2>1. ASSUME NEW t \in Scans \ {s} PROVE scan'[t] = scan[t]
    BY <1>3 DEF Sn!Step, Sn!SeeLrc, Sn!SeeTxt, Sn!BankLookup, Sn!BankProbe, Sn!BankRecord, Sn!IndexLookup, Sn!IndexRead, Sn!StatHit,
         Sn!StatMiss, Sn!OpenRead, Sn!Probe, Sn!Record, Sn!Reread, Sn!BankFacts, Sn!Upsert, Sn!Goto, ScanTypes
  <2>2. CASE Sn!Upsert(s)
    <3>1. scan'[s] = Sn!Idle
      BY <2>2 DEF Sn!Upsert, ScanTypes
    <3>2. Sn!Idle.stamp = Sn!None /\ Sn!Idle.miss = Sn!None /\ Sn!Idle.ino = 1
      BY IdleBlank, Blank
    <3> QED BY <1>1, <1>2, <2>0, <2>1, <3>1, <3>2
  <2>3. CASE Sn!SeeLrc(s) \/ Sn!SeeTxt(s) \/ Sn!BankLookup(s) \/ Sn!BankProbe(s) \/ Sn!BankRecord(s) \/ Sn!IndexLookup(s) \/ Sn!IndexRead(s)
    <3>1. /\ scan'[s].stamp \in {scan[s].stamp, Sn!Stamp, Sn!None}
          /\ scan'[s].miss \in {scan[s].miss, Sn!Stamp, Sn!None}
          /\ scan'[s].ino \in {scan[s].ino, path, 1}
      BY <1>1, <2>3 DEF Sn!SeeLrc, Sn!SeeTxt, Sn!BankLookup, Sn!BankProbe, Sn!BankRecord, Sn!IndexLookup, Sn!IndexRead, Sn!Goto, ScanTypes, ScanStates
    <3> QED BY <1>1, <1>2, <2>0, <2>1, <3>1
  <2>4. CASE Sn!StatHit(s) \/ Sn!StatMiss(s) \/ Sn!OpenRead(s)
    <3>1. /\ scan'[s].stamp \in {scan[s].stamp, Sn!Stamp, Sn!None}
          /\ scan'[s].miss \in {scan[s].miss, Sn!Stamp, Sn!None}
          /\ scan'[s].ino \in {scan[s].ino, path, 1}
      BY <1>1, <2>4 DEF Sn!StatHit, Sn!StatMiss, Sn!OpenRead, Sn!Goto, ScanTypes, ScanStates
    <3> QED BY <1>1, <1>2, <2>0, <2>1, <3>1
  <2>5. CASE Sn!Probe(s) \/ Sn!Record(s) \/ Sn!Reread(s) \/ Sn!BankFacts(s)
    <3>1. /\ scan'[s].stamp = scan[s].stamp /\ scan'[s].miss = scan[s].miss /\ scan'[s].ino = scan[s].ino
      BY <1>1, <2>5 DEF Sn!Probe, Sn!Record, Sn!Reread, Sn!BankFacts, Sn!Goto, ScanTypes, ScanStates
    <3> QED BY <1>1, <1>2, <2>0, <2>1, <3>1
  <2> QED BY <1>3, <2>2, <2>3, <2>4, <2>5 DEF Sn!Step
<1>4. CASE Sn!Link(s)
  <2>1. CASE UNCHANGED side /\ \E d \in ScanPCs : scan' = [scan EXCEPT ![s].pc = d]
    BY <1>1, <1>2, <2>1 DEF ScanTypes, ScanStates
  <2>2. ASSUME NEW d \in ScanPCs,
               scan' = [t \in Scans |-> [scan[t] EXCEPT !.held = @ /\ ~side'.lrc, !.pc = IF t # s THEN @ ELSE d]]
        PROVE  /\ scan'[s].stamp = scan[s].stamp /\ scan'[s].miss = scan[s].miss /\ scan'[s].ino = scan[s].ino
               /\ \A t \in Scans \ {s} : \E h \in BOOLEAN : /\ scan'[t] = [scan[t] EXCEPT !.held = h]
                                                            /\ h => scan[t].held /\ ~side'.lrc
    <3> DEFINE h(t) == scan[t].held /\ ~side'.lrc
    <3>1. scan'[s] = [scan[s] EXCEPT !.held = h(s), !.pc = d]
      BY <2>2
    <3>2. ASSUME NEW t \in Scans \ {s} PROVE scan'[t] = [scan[t] EXCEPT !.held = h(t)]
      <4>1. scan[t] \in ScanStates
        BY DEF ScanTypes
      <4>2. scan'[t] = [scan[t] EXCEPT !.held = h(t), !.pc = scan[t].pc]
        BY <2>2, <3>2
      <4> HIDE DEF h
      <4> QED BY <4>1, <4>2 DEF ScanStates
    <3>3. \A t \in Scans : h(t) \in BOOLEAN /\ (h(t) => scan[t].held /\ ~side'.lrc)
      OBVIOUS
    <3> HIDE DEF h
    <3>4. scan'[s].stamp = scan[s].stamp /\ scan'[s].miss = scan[s].miss /\ scan'[s].ino = scan[s].ino
      BY <1>1, <3>1 DEF ScanStates
    <3> QED BY <3>2, <3>3, <3>4
  <2> QED BY <1>2, <1>4, <2>1, <2>2 DEF Sn!Link, Sn!Goto, ScanPCs
<1> QED BY <1>3, <1>4

LEMMA YoungestStep ==
    ASSUME ScanConfigured, ScanTypes, Youngest, NEW s \in Scans, Sn!Step(s), ScanTypes'
    PROVE  Youngest'
<1> USE VersionsNat
<1>1. Sn!Stamp = edits + 1 /\ path <= edits + 1 /\ edits \in Nat /\ 1 <= edits + 1
  BY DEF Youngest, Sn!Stamp, ScanTypes
<1>2. \A t \in Scans : scan[t].stamp \in Nat /\ scan[t].miss \in Nat /\ scan[t].ino \in Nat
  BY DEF ScanTypes, ScanStates, Sn!None
<1>3. ASSUME NEW t \in Scans
      PROVE  scan'[t].stamp <= edits + 1 /\ scan'[t].miss <= edits + 1 /\ scan'[t].ino <= edits + 1
  <2>1. CASE t = s
    BY <1>1, <1>2, <2>1, StepMoves DEF Youngest, Sn!None, ScanTypes
  <2>2. CASE t # s
    <3>1. PICK h \in BOOLEAN : scan'[t] = [scan[t] EXCEPT !.held = h]
      BY <2>2, StepMoves
    <3>2. scan'[t].stamp = scan[t].stamp /\ scan'[t].miss = scan[t].miss /\ scan'[t].ino = scan[t].ino
      BY <3>1 DEF ScanTypes, ScanStates
    <3> QED BY <3>2 DEF Youngest
  <2> QED BY <2>1, <2>2
<1>4. ids'.stamp \in {ids.stamp} \cup {holds[i] : i \in Sn!Versions}
  <2>1. CASE Sn!BankFacts(s)
    <3>1. scan[s].ino \in Sn!Versions
      BY DEF ScanTypes, ScanStates
    <3> QED BY <2>1, <3>1 DEF Sn!BankFacts, Sn!HandleStamp
  <2>2. CASE ~Sn!BankFacts(s)
    BY <2>2 DEF Sn!Step, Sn!stores, Sn!SeeLrc, Sn!SeeTxt, Sn!BankLookup, Sn!BankProbe, Sn!BankRecord, Sn!IndexLookup, Sn!IndexRead, Sn!StatHit,
         Sn!StatMiss, Sn!OpenRead, Sn!Link, Sn!Probe, Sn!Record, Sn!Reread, Sn!Upsert
  <2> QED BY <2>1, <2>2
<1>5. durs'.stamp \in {durs.stamp} \cup {holds[i] : i \in Sn!Versions}
  <2>1. scan[s].ino \in Sn!Versions /\ path \in Sn!Versions
    BY DEF ScanTypes, ScanStates
  <2>2. CASE Sn!BankRecord(s) \/ Sn!Record(s) \/ Sn!StatHit(s)
    BY <2>1, <2>2 DEF Sn!BankRecord, Sn!Record, Sn!StatHit, Sn!RecordDuration, Sn!HandleStamp, Sn!Stamp
  <2>3. CASE ~(Sn!BankRecord(s) \/ Sn!Record(s) \/ Sn!StatHit(s))
    BY <2>3 DEF Sn!Step, Sn!stores, Sn!SeeLrc, Sn!SeeTxt, Sn!BankLookup, Sn!BankProbe, Sn!IndexLookup, Sn!IndexRead,
         Sn!StatMiss, Sn!OpenRead, Sn!Link, Sn!Probe, Sn!Reread, Sn!BankFacts, Sn!Upsert
  <2> QED BY <2>2, <2>3
<1>6. fails' \in {fails, scan[s].stamp}
  BY DEF Sn!Step, Sn!stores, Sn!SeeLrc, Sn!SeeTxt, Sn!BankLookup, Sn!BankProbe, Sn!BankRecord, Sn!IndexLookup, Sn!IndexRead, Sn!StatHit,
         Sn!StatMiss, Sn!OpenRead, Sn!Link, Sn!Probe, Sn!Record, Sn!Reread, Sn!BankFacts, Sn!Upsert
<1>7. ids'.stamp <= edits + 1 /\ durs'.stamp <= edits + 1 /\ fails' <= edits + 1
  BY <1>4, <1>5, <1>6 DEF Youngest
<1> QED BY <1>3, <1>7, StepMoves DEF Youngest

-----------------------------------------------------------------------------
(* Where the version of the open handle is still the one whose stamp missed *)
(* the cache, everything read through the handle is of that version.        *)
Opened == {"link", "probe", "record", "reread", "facts"}
OneVersion(r) ==
    r.pc \in Opened =>
        /\ r.miss <= holds[r.ino]
        /\ r.miss = holds[r.ino] => /\ r.tags = {truth[r.miss].tags}
                                    /\ r.pc \in {"record", "reread", "facts"} /\ r.opt.enrich /\ ~r.bad
                                          => r.dur = truth[r.miss].dur
HonestInv == Sn!IdentityHonest /\ \A s \in Scans : OneVersion(scan[s])

(* What lies below the youngest version does not change. *)
LEMMA HonestEdit ==
    ASSUME ScanConfigured, ScanTypes, Youngest, HonestInv, NEW how \in ScanEdits, NEW ok \in BOOLEAN, Sn!Edit(how, ok)
    PROVE  HonestInv'
<1> USE VersionsNat
<1>1. ids.stamp # Sn!None => ids.stamp \in Sn!Versions /\ ids.stamp <= edits + 1
  BY DEF ScanTypes, Youngest
<1>2. Sn!IdentityHonest'
  BY <1>1, EditMakesNext DEF HonestInv, Sn!IdentityHonest
<1>3. ASSUME NEW s \in Scans, scan[s].pc \in Opened PROVE OneVersion(scan[s])'
  <2>1. /\ scan[s].miss \in Nat /\ scan[s].miss <= edits + 1 /\ scan[s].ino \in Sn!Versions
        /\ holds[scan[s].ino] \in Sn!Versions /\ edits \in Nat /\ scan[s].miss <= holds[scan[s].ino]
    BY <1>3 DEF ScanTypes, ScanStates, Youngest, Sn!None, HonestInv, OneVersion
  <2>2. CASE scan[s].ino = path'
    <3>1. holds'[scan[s].ino] = edits + 2
      BY <2>1, <2>2, EditMakesNext DEF ScanTypes
    <3>2. scan'[s] = scan[s]
      BY EditMakesNext
    <3> QED BY <2>1, <3>1, <3>2 DEF OneVersion
  <2>3. CASE scan[s].ino # path'
    <3>1. holds'[scan[s].ino] = holds[scan[s].ino]
      BY <2>1, <2>3, EditMakesNext DEF ScanTypes
    <3>2. holds[scan[s].ino] <= edits + 1
      BY <2>1 DEF Youngest
    <3>3. truth'[holds[scan[s].ino]] = truth[holds[scan[s].ino]] /\ scan'[s] = scan[s]
      BY <2>1, <3>2, EditMakesNext
    <3> QED BY <2>1, <3>1, <3>3 DEF OneVersion, HonestInv
  <2> QED BY <2>2, <2>3
<1>4. ASSUME NEW s \in Scans PROVE OneVersion(scan[s])'
  <2>1. scan'[s] = scan[s]
    BY EditMakesNext
  <2> QED BY <1>3, <2>1 DEF OneVersion
<1> QED BY <1>2, <1>4 DEF HonestInv

(* A scan whose record says whether it met a mark is the same scan. *)
LEMMA SameButHeld ==
    ASSUME ScanTypes, NEW s \in Scans, NEW h \in BOOLEAN, scan'[s] = [scan[s] EXCEPT !.held = h]
    PROVE  /\ scan'[s].pc = scan[s].pc /\ scan'[s].opt = scan[s].opt /\ scan'[s].lrc = scan[s].lrc
           /\ scan'[s].stamp = scan[s].stamp /\ scan'[s].miss = scan[s].miss /\ scan'[s].ino = scan[s].ino
           /\ scan'[s].tags = scan[s].tags /\ scan'[s].dur = scan[s].dur /\ scan'[s].bad = scan[s].bad
           /\ scan'[s].res = scan[s].res /\ scan'[s].held = h
BY DEF ScanTypes, ScanStates

LEMMA OneVersionKept ==
    ASSUME ScanTypes, NEW s \in Scans, OneVersion(scan[s]), UNCHANGED <<truth, holds>>,
           NEW h \in BOOLEAN, scan'[s] = [scan[s] EXCEPT !.held = h]
    PROVE  OneVersion(scan[s])'
BY SameButHeld DEF OneVersion

LEMMA OneVersionStep ==
    ASSUME ScanConfigured, ScanTypes, Youngest, NEW s \in Scans, OneVersion(scan[s]), Sn!Step(s)
    PROVE  OneVersion(scan[s])'
<1> USE VersionsNat
<1>1. /\ scan[s] \in ScanStates /\ scan \in [Scans -> ScanStates] /\ UNCHANGED <<truth, holds, path>>
      /\ scan[s].miss \in Nat /\ scan[s].ino \in Sn!Versions /\ path \in Sn!Versions
  BY StepMoves DEF ScanTypes, ScanStates, Sn!None
<1>2. CASE Sn!OpenRead(s)
  <2>1. CASE scan'[s].pc = "upsert"
    BY <2>1 DEF OneVersion, Opened
  <2>2. CASE scan'[s].pc # "upsert"
    <3>1. /\ scan'[s].ino = path /\ scan'[s].tags = {truth[Sn!Stamp].tags} /\ scan'[s].miss = scan[s].miss
          /\ scan'[s].pc \in {"link", "probe", "reread"} /\ scan'[s].opt = scan[s].opt
          /\ scan'[s].pc = "reread" => ~scan[s].opt.enrich
      BY <1>1, <1>2, <2>2 DEF Sn!OpenRead, Sn!Goto, ScanStates
    <3>2. scan[s].miss <= holds[path]
      BY DEF Youngest
    <3> QED BY <1>1, <3>1, <3>2 DEF OneVersion, Sn!Stamp
  <2> QED BY <2>1, <2>2
<1>3. CASE Sn!Link(s)
  <2>1. PICK d \in {"probe", "reread", "upsert"} :
           /\ scan'[s].pc = d /\ scan'[s].miss = scan[s].miss /\ scan'[s].ino = scan[s].ino
           /\ scan'[s].tags = scan[s].tags /\ scan'[s].opt = scan[s].opt
           /\ d = "reread" => ~scan[s].opt.enrich
    <3>1. CASE UNCHANGED side /\ Sn!Goto(s, IF scan[s].opt.enrich THEN "probe" ELSE "reread")
      BY <1>1, <3>1 DEF Sn!Goto, ScanStates
    <3>2. ASSUME NEW d \in {"probe", "reread", "upsert"}, d = "reread" => ~scan[s].opt.enrich,
                 scan' = [t \in Scans |-> [scan[t] EXCEPT !.held = @ /\ ~side'.lrc, !.pc = IF t # s THEN @ ELSE d]]
          PROVE  /\ scan'[s].pc = d /\ scan'[s].miss = scan[s].miss /\ scan'[s].ino = scan[s].ino
                 /\ scan'[s].tags = scan[s].tags /\ scan'[s].opt = scan[s].opt
      <4> DEFINE h == scan[s].held /\ ~side'.lrc
      <4>1. scan'[s] = [scan[s] EXCEPT !.held = h, !.pc = d]
        BY <3>2
      <4> HIDE DEF h
      <4> QED BY <1>1, <4>1 DEF ScanStates
    <3> QED BY <1>3, <3>1, <3>2 DEF Sn!Link
  <2>2. scan[s].pc = "link"
    BY <1>3 DEF Sn!Link, Sn!At
  <2> QED BY <1>1, <2>1, <2>2 DEF OneVersion, Opened
<1>4. CASE Sn!Probe(s)
  <2>1. /\ scan[s].pc = "probe" /\ scan'[s].miss = scan[s].miss /\ scan'[s].ino = scan[s].ino
        /\ scan'[s].tags = scan[s].tags /\ scan'[s].opt = scan[s].opt
        /\ \/ scan'[s].pc = "record" /\ scan'[s].dur = truth[holds[scan[s].ino]].dur
           \/ scan'[s].pc = "reread" /\ scan'[s].bad = TRUE
    BY <1>1, <1>4 DEF Sn!Probe, Sn!At, Sn!HandleStamp, ScanStates
  <2> QED BY <1>1, <2>1 DEF OneVersion, Opened
<1>5. CASE Sn!Record(s)
  <2>1. /\ scan[s].pc = "record" /\ scan'[s].miss = scan[s].miss /\ scan'[s].ino = scan[s].ino
        /\ scan'[s].tags = scan[s].tags /\ scan'[s].opt = scan[s].opt /\ scan'[s].pc = "reread"
        /\ scan'[s].bad = scan[s].bad /\ scan'[s].dur = scan[s].dur
    BY <1>1, <1>5 DEF Sn!Record, Sn!Goto, Sn!At, ScanStates
  <2> QED BY <1>1, <2>1 DEF OneVersion, Opened
<1>6. CASE Sn!Reread(s)
  <2>1. /\ scan[s].pc = "reread" /\ scan'[s].miss = scan[s].miss /\ scan'[s].ino = scan[s].ino
        /\ scan'[s].opt = scan[s].opt /\ scan'[s].pc = "facts" /\ scan'[s].dur = scan[s].dur
        /\ \/ scan'[s].tags = scan[s].tags \cup {truth[holds[scan[s].ino]].tags} /\ scan'[s].bad = scan[s].bad
           \/ scan'[s].tags = scan[s].tags /\ scan'[s].bad = TRUE
    BY <1>1, <1>6 DEF Sn!Reread, Sn!At, Sn!HandleStamp, ScanStates
  <2> QED BY <1>1, <2>1 DEF OneVersion, Opened
<1>7. CASE Sn!Upsert(s)
  <2>1. scan'[s] = Sn!Idle /\ Sn!Idle.pc = "idle"
    BY <1>7, IdleBlank, Blank DEF Sn!Upsert, ScanTypes
  <2> QED BY <2>1 DEF OneVersion, Opened
<1>8. CASE \/ Sn!SeeLrc(s) \/ Sn!SeeTxt(s) \/ Sn!BankLookup(s) \/ Sn!BankProbe(s) \/ Sn!BankRecord(s) \/ Sn!IndexLookup(s)
           \/ Sn!IndexRead(s) \/ Sn!StatHit(s) \/ Sn!StatMiss(s) \/ Sn!BankFacts(s)
  <2>1. scan'[s].pc \in {"txt", "bank", "index", "stat", "bankprobe", "bankrecord", "upsert", "indexread", "open"}
    BY <1>1, <1>8 DEF Sn!SeeLrc, Sn!SeeTxt, Sn!BankLookup, Sn!BankProbe, Sn!BankRecord, Sn!IndexLookup, Sn!IndexRead, Sn!StatHit,
       Sn!StatMiss, Sn!BankFacts, Sn!Goto, ScanStates
  <2> QED BY <2>1 DEF OneVersion, Opened
<1> QED BY <1>2, <1>3, <1>4, <1>5, <1>6, <1>7, <1>8 DEF Sn!Step

LEMMA HonestStep ==
    ASSUME ScanConfigured, ScanTypes, Youngest, HonestInv, NEW s \in Scans, Sn!Step(s)
    PROVE  HonestInv'
<1>1. ASSUME NEW t \in Scans PROVE OneVersion(scan[t])'
  <2>1. CASE t = s
    BY <2>1, OneVersionStep DEF HonestInv
  <2>2. CASE t # s
    <3>1. PICK h \in BOOLEAN : scan'[t] = [scan[t] EXCEPT !.held = h]
      BY <2>2, StepMoves
    <3> QED BY <3>1, StepMoves, OneVersionKept DEF HonestInv
  <2> QED BY <2>1, <2>2
<1>2. CASE Sn!BankFacts(s) /\ Sn!Bankable(s)
  <2>1. /\ OneVersion(scan[s]) /\ scan[s].pc = "facts" /\ scan[s].miss = holds[scan[s].ino]
        /\ scan[s].opt.enrich /\ ~scan[s].bad
    BY <1>2 DEF HonestInv, Sn!BankFacts, Sn!Bankable, Sn!HandleStamp, Sn!At
  <2>2. scan[s].tags = {truth[scan[s].miss].tags} /\ scan[s].dur = truth[scan[s].miss].dur
    BY <2>1 DEF OneVersion, Opened
  <2>3. ids' = ids \/ ids' = [stamp |-> scan[s].miss, tags |-> scan[s].tags, dur |-> scan[s].dur]
    BY <1>2, <2>1 DEF Sn!BankFacts, Sn!HandleStamp
  <2>4. Sn!IdentityHonest'
    BY <2>2, <2>3, StepMoves DEF Sn!IdentityHonest, HonestInv
  <2> QED BY <1>1, <2>4 DEF HonestInv
<1>3. CASE ~(Sn!BankFacts(s) /\ Sn!Bankable(s))
  <2>1. UNCHANGED ids
    BY <1>3 DEF Sn!Step, Sn!stores, Sn!SeeLrc, Sn!SeeTxt, Sn!BankLookup, Sn!BankProbe, Sn!BankRecord, Sn!IndexLookup, Sn!IndexRead, Sn!StatHit,
         Sn!StatMiss, Sn!OpenRead, Sn!Link, Sn!Probe, Sn!Record, Sn!Reread, Sn!BankFacts, Sn!Upsert
  <2>2. Sn!IdentityHonest'
    BY <2>1, StepMoves DEF Sn!IdentityHonest, HonestInv
  <2> QED BY <1>1, <2>2 DEF HonestInv
<1> QED BY <1>2, <1>3

-----------------------------------------------------------------------------
(* Where an edit keeps the sound of the inode it writes into, the duration  *)
(* a scan has read is that of its handle also at the moment it is banked.   *)
KeepsSound == ScanEdits \subseteq {"retag", "replace"}
Sounded(r) == r.pc \in {"record", "bankrecord"} => r.dur = truth[holds[r.ino]].dur
DurationInv == Sn!DurationHonest /\ \A s \in Scans : Sounded(scan[s])

LEMMA DurationEdit ==
    ASSUME ScanConfigured, KeepsSound, ScanTypes, Youngest, DurationInv,
           NEW how \in ScanEdits, NEW ok \in BOOLEAN, Sn!Edit(how, ok)
    PROVE  DurationInv'
<1> USE VersionsNat
<1>1. durs.stamp # Sn!None => durs.stamp \in Sn!Versions /\ durs.stamp <= edits + 1
  BY DEF ScanTypes, Youngest
<1>2. Sn!DurationHonest'
  BY <1>1, EditMakesNext DEF DurationInv, Sn!DurationHonest
<1>3. ASSUME NEW s \in Scans PROVE Sounded(scan[s])'
  <2>1. /\ scan[s].ino \in Sn!Versions /\ scan[s].ino <= edits + 1 /\ holds[scan[s].ino] \in Sn!Versions
        /\ edits \in Nat /\ scan'[s] = scan[s] /\ path \in Sn!Versions
    BY EditMakesNext DEF ScanTypes, ScanStates, Youngest
  <2>2. CASE scan[s].ino = path'
    <3>1. path' = path /\ how = "retag"
      BY <2>1, <2>2 DEF Sn!Edit, KeepsSound
    <3>2. holds'[scan[s].ino] = edits + 2
      BY <2>1, <2>2, EditMakesNext DEF ScanTypes
    <3>3. truth'[edits + 2].dur = truth[Sn!Stamp].dur
      <4>1. truth' = [truth EXCEPT ![edits + 2] = [tags |-> edits + 2, ok |-> ok, dur |-> truth[Sn!Stamp].dur]]
        BY <3>1 DEF Sn!Edit
      <4> QED BY <4>1, EditMakesNext DEF ScanTypes
    <3> QED BY <2>1, <2>2, <3>1, <3>2, <3>3 DEF Sounded, DurationInv, Sn!Stamp
  <2>3. CASE scan[s].ino # path'
    <3>1. holds'[scan[s].ino] = holds[scan[s].ino]
      BY <2>1, <2>3, EditMakesNext DEF ScanTypes
    <3>2. truth'[holds[scan[s].ino]] = truth[holds[scan[s].ino]]
      BY <2>1, EditMakesNext DEF Youngest
    <3> QED BY <2>1, <3>1, <3>2 DEF Sounded, DurationInv
  <2> QED BY <2>2, <2>3
<1> QED BY <1>2, <1>3 DEF DurationInv

LEMMA SoundedKept ==
    ASSUME ScanTypes, NEW s \in Scans, Sounded(scan[s]), UNCHANGED <<truth, holds>>,
           NEW h \in BOOLEAN, scan'[s] = [scan[s] EXCEPT !.held = h]
    PROVE  Sounded(scan[s])'
BY SameButHeld DEF Sounded

LEMMA DurationStep ==
    ASSUME ScanConfigured, ScanTypes, Youngest, Sn!IdentityHonest, DurationInv, NEW s \in Scans, Sn!Step(s)
    PROVE  DurationInv'
<1>1. /\ scan[s] \in ScanStates /\ scan \in [Scans -> ScanStates] /\ UNCHANGED <<truth, holds, path>>
      /\ scan[s].ino \in Sn!Versions /\ path \in Sn!Versions
  BY StepMoves DEF ScanTypes, ScanStates
<1>2. Sounded(scan[s])'
  <2>1. CASE Sn!BankProbe(s) \/ Sn!Probe(s)
    <3>1. \/ scan'[s].pc \notin {"record", "bankrecord"}
          \/ scan'[s].dur = truth[holds[scan'[s].ino]].dur
      BY <1>1, <2>1 DEF Sn!BankProbe, Sn!Probe, Sn!Goto, Sn!HandleStamp, Sn!Stamp, ScanStates
    <3> QED BY <1>1, <3>1 DEF Sounded
  <2>2. CASE Sn!Link(s)
    <3>1. scan'[s].pc \in {"probe", "reread", "upsert"}
      <4>1. CASE UNCHANGED side /\ Sn!Goto(s, IF scan[s].opt.enrich THEN "probe" ELSE "reread")
        BY <1>1, <4>1 DEF Sn!Goto, ScanStates
      <4>2. ASSUME NEW d \in {"probe", "reread", "upsert"},
                   scan' = [t \in Scans |-> [scan[t] EXCEPT !.held = @ /\ ~side'.lrc, !.pc = IF t # s THEN @ ELSE d]]
            PROVE  scan'[s].pc = d
        <5> DEFINE h == scan[s].held /\ ~side'.lrc
        <5>1. scan'[s] = [scan[s] EXCEPT !.held = h, !.pc = d]
          BY <4>2
        <5> HIDE DEF h
        <5> QED BY <1>1, <5>1 DEF ScanStates
      <4> QED BY <2>2, <4>1, <4>2 DEF Sn!Link
    <3> QED BY <3>1 DEF Sounded
  <2>3. CASE Sn!Upsert(s)
    <3>1. scan'[s] = Sn!Idle /\ Sn!Idle.pc = "idle"
      BY <2>3, IdleBlank, Blank DEF Sn!Upsert, ScanTypes
    <3> QED BY <3>1 DEF Sounded
  <2>4. CASE ~(Sn!BankProbe(s) \/ Sn!Probe(s) \/ Sn!Link(s) \/ Sn!Upsert(s))
    <3>1. scan'[s].pc \notin {"record", "bankrecord"}
      BY <1>1, <2>4 DEF Sn!Step, Sn!SeeLrc, Sn!SeeTxt, Sn!BankLookup, Sn!BankRecord, Sn!IndexLookup, Sn!IndexRead, Sn!StatHit,
         Sn!StatMiss, Sn!OpenRead, Sn!Record, Sn!Reread, Sn!BankFacts, Sn!Goto, ScanStates
    <3> QED BY <3>1 DEF Sounded
  <2> QED BY <2>1, <2>2, <2>3, <2>4
<1>3. ASSUME NEW t \in Scans PROVE Sounded(scan[t])'
  <2>1. CASE t # s
    <3>1. PICK h \in BOOLEAN : scan'[t] = [scan[t] EXCEPT !.held = h]
      BY <2>1, StepMoves
    <3> QED BY <1>1, <3>1, SoundedKept DEF DurationInv
  <2> QED BY <1>2, <2>1
<1>4. Sn!DurationHonest'
  <2>1. CASE Sn!BankRecord(s) \/ Sn!Record(s)
    <3>1. durs' = durs \/ durs' = [stamp |-> holds[scan[s].ino], dur |-> scan[s].dur]
      BY <2>1 DEF Sn!BankRecord, Sn!Record, Sn!RecordDuration, Sn!HandleStamp
    <3>2. scan[s].dur = truth[holds[scan[s].ino]].dur
      BY <2>1 DEF Sn!BankRecord, Sn!Record, Sn!At, DurationInv, Sounded
    <3> QED BY <1>1, <3>1, <3>2 DEF Sn!DurationHonest, DurationInv
  <2>2. CASE Sn!StatHit(s)
    <3>1. durs' = durs \/ durs' = [stamp |-> Sn!Stamp, dur |-> ids.dur]
      BY <2>2 DEF Sn!StatHit, Sn!RecordDuration
    <3>2. ids.dur = truth[Sn!Stamp].dur
      BY <2>2 DEF Sn!StatHit, Sn!Cached, Sn!IdentityHonest
    <3> QED BY <1>1, <3>1, <3>2 DEF Sn!DurationHonest, DurationInv, Sn!Stamp
  <2>3. CASE ~(Sn!BankRecord(s) \/ Sn!Record(s) \/ Sn!StatHit(s))
    <3>1. UNCHANGED durs
      BY <2>3 DEF Sn!Step, Sn!stores, Sn!SeeLrc, Sn!SeeTxt, Sn!BankLookup, Sn!BankProbe, Sn!IndexLookup, Sn!IndexRead,
         Sn!StatMiss, Sn!OpenRead, Sn!Link, Sn!Probe, Sn!Reread, Sn!BankFacts, Sn!Upsert
    <3> QED BY <1>1, <3>1 DEF Sn!DurationHonest, DurationInv
  <2> QED BY <2>1, <2>2, <2>3
<1> QED BY <1>3, <1>4 DEF DurationInv

-----------------------------------------------------------------------------
(* A stamp taken before the file was opened names the present version only  *)
(* when that version is the one that could not be read.                     *)
LEMMA SkipEdit ==
    ASSUME ScanConfigured, ScanTypes, Youngest, NEW how \in ScanEdits, NEW ok \in BOOLEAN, Sn!Edit(how, ok)
    PROVE  Sn!SkipMeansUnreadable'
<1>1. fails' # holds'[path']
  <2>1. fails \in Nat /\ edits \in Nat
    BY VersionsNat DEF ScanTypes, Sn!None
  <2>2. holds'[path'] = edits + 2 /\ fails' = fails /\ fails <= edits + 1
    BY <2>1, EditMakesNext DEF Youngest
  <2> QED BY <2>1, <2>2
<1> QED BY <1>1 DEF Sn!SkipMeansUnreadable, Sn!ShouldSkip, Sn!Stamp

LEMMA SkipStep ==
    ASSUME "settledopen" \notin ScanFaults, Sn!SkipMeansUnreadable, ScanConfigured, ScanTypes, NEW s \in Scans, Sn!Step(s)
    PROVE  Sn!SkipMeansUnreadable'
<1>1. UNCHANGED <<truth, holds, path>>
  BY StepMoves
<1>2. UNCHANGED fails \/ ~truth[Sn!Stamp].ok
  BY DEF Sn!Step, Sn!stores, Sn!SeeLrc, Sn!SeeTxt, Sn!BankLookup, Sn!BankProbe, Sn!BankRecord, Sn!IndexLookup, Sn!IndexRead, Sn!StatHit,
         Sn!StatMiss, Sn!OpenRead, Sn!Link, Sn!Probe, Sn!Record, Sn!Reread, Sn!BankFacts, Sn!Upsert, Sn!Fails
<1> QED BY <1>1, <1>2 DEF Sn!SkipMeansUnreadable, Sn!ShouldSkip, Sn!Stamp

-----------------------------------------------------------------------------
(* A scan that has met the mark is on its way past the file.                *)
Passing(r) ==
    r.held => /\ side.txt = "manual" /\ ~side.lrc /\ ~r.lrc
              /\ r.pc \in {"lrc", "txt", "index", "indexread", "upsert"} /\ r.res # "pending"
MarkedInv == \A s \in Scans : Passing(scan[s])

LEMMA PassingStep ==
    ASSUME ScanConfigured, "readtxt" \notin ScanFaults, ScanTypes, NEW s \in Scans, Passing(scan[s]), Sn!Step(s)
    PROVE  Passing(scan[s])'
<1>1. scan[s] \in ScanStates /\ scan \in [Scans -> ScanStates]
  BY DEF ScanTypes
<1>2. CASE Sn!Upsert(s)
  <2>1. scan'[s] = Sn!Idle /\ ~Sn!Idle.held
    BY <1>2, IdleBlank, Blank DEF Sn!Upsert, ScanTypes
  <2> QED BY <2>1 DEF Passing
<1>3. CASE ~scan[s].held /\ ~Sn!Upsert(s)
  <2>1. CASE Sn!Link(s)
    <3>1. CASE UNCHANGED side /\ Sn!Goto(s, IF scan[s].opt.enrich THEN "probe" ELSE "reread")
      BY <1>1, <1>3, <3>1 DEF Sn!Goto, ScanStates, Passing
    <3>2. ASSUME NEW d \in {"probe", "reread", "upsert"},
                 scan' = [t \in Scans |-> [scan[t] EXCEPT !.held = @ /\ ~side'.lrc, !.pc = IF t # s THEN @ ELSE d]]
          PROVE  ~scan'[s].held
      <4> DEFINE h == scan[s].held /\ ~side'.lrc
      <4>1. scan'[s] = [scan[s] EXCEPT !.held = h, !.pc = d] /\ h = FALSE
        BY <1>3, <3>2
      <4> HIDE DEF h
      <4> QED BY <1>1, <4>1 DEF ScanStates
    <3> QED BY <2>1, <3>1, <3>2 DEF Sn!Link, Passing
  <2>2. CASE ~Sn!Link(s)
    <3>1. scan'[s].held = scan[s].held
      BY <1>1, <1>3, <2>2 DEF Sn!Step, Sn!SeeLrc, Sn!SeeTxt, Sn!BankLookup, Sn!BankProbe, Sn!BankRecord, Sn!IndexLookup, Sn!IndexRead, Sn!StatHit,
         Sn!StatMiss, Sn!OpenRead, Sn!Probe, Sn!Record, Sn!Reread, Sn!BankFacts, Sn!Goto, ScanStates
    <3> QED BY <1>3, <3>1 DEF Passing
  <2> QED BY <2>1, <2>2
<1>4. CASE scan[s].held /\ ~Sn!Upsert(s)
  <2>1. /\ side.txt = "manual" /\ ~side.lrc /\ ~scan[s].lrc
        /\ scan[s].pc \in {"lrc", "txt", "index", "indexread", "upsert"} /\ scan[s].res # "pending"
    BY <1>4 DEF Passing
  <2>2. CASE Sn!SeeLrc(s)
    BY <1>1, <2>1, <2>2 DEF Sn!SeeLrc, ScanStates, Passing
  <2>3. CASE Sn!SeeTxt(s)
    BY <1>1, <2>1, <2>3 DEF Sn!SeeTxt, Sn!Fails, Sn!Settled, Sn!Goto, ScanStates, Passing
  <2>4. CASE Sn!IndexLookup(s)
    BY <1>1, <2>1, <2>4 DEF Sn!IndexLookup, Sn!Goto, ScanStates, Passing
  <2>5. CASE Sn!IndexRead(s)
    BY <1>1, <2>1, <2>5 DEF Sn!IndexRead, Sn!Goto, ScanStates, Passing
  <2> QED BY <1>4, <2>1, <2>2, <2>3, <2>4, <2>5 DEF Sn!Step, Sn!At, Sn!BankLookup, Sn!BankProbe, Sn!BankRecord, Sn!StatHit,
         Sn!StatMiss, Sn!OpenRead, Sn!Link, Sn!Probe, Sn!Record, Sn!Reread, Sn!BankFacts
<1> QED BY <1>2, <1>3, <1>4

LEMMA MarkedStep ==
    ASSUME ScanConfigured, "readtxt" \notin ScanFaults, ScanTypes, MarkedInv, NEW s \in Scans, Sn!Step(s)
    PROVE  MarkedInv'
<1>1. ASSUME NEW t \in Scans, t # s PROVE Passing(scan[t])'
  <2>1. PICK h \in BOOLEAN : /\ scan'[t] = [scan[t] EXCEPT !.held = h]
                             /\ h => scan[t].held /\ (side' = side \/ ~side'.lrc)
    BY <1>1, StepMoves
  <2>2. CASE h
    <3>1. Passing(scan[t]) /\ scan[t].held
      BY <2>1, <2>2 DEF MarkedInv
    <3>2. side.txt = "manual" /\ side \in [lrc : BOOLEAN, txt : Sn!Texts, fresh : BOOLEAN]
      BY <3>1 DEF Passing, ScanTypes
    <3>3. side' = side \/ side' = Sn!Linked
      BY StepMoves
    <3>4. side'.txt = "manual" /\ ~side'.lrc
      BY <2>1, <2>2, <3>1, <3>2, <3>3 DEF Sn!Linked, Passing
    <3> QED BY <2>1, <3>1, <3>4, SameButHeld DEF Passing
  <2>3. CASE ~h
    BY <2>1, <2>3, SameButHeld DEF Passing
  <2> QED BY <2>2, <2>3
<1> QED BY <1>1, PassingStep DEF MarkedInv

-----------------------------------------------------------------------------
(* The counters, and which stamp a scan remembers as missed. *)
Missed(r) == /\ r.miss \in {Sn!None, r.stamp}
             /\ r.miss # Sn!None => r.pc \in Opened \cup {"open", "upsert"}
Counted == MaxSides \in Nat /\ MaxFaults \in Nat
Limits == /\ sides \in 0..MaxSides /\ faults \in 0..MaxFaults
          /\ \A s \in Scans : Missed(scan[s])

LEMMA LimitsStep ==
    ASSUME ScanConfigured, Counted, ScanTypes, Limits, NEW s \in Scans, Sn!Step(s)
    PROVE  Limits'
<1>1. /\ scan[s] \in ScanStates /\ scan \in [Scans -> ScanStates] /\ Missed(scan[s])
  BY DEF ScanTypes, Limits
<1>2. faults' \in 0..MaxFaults
  <2>1. faults' = faults \/ (faults < MaxFaults /\ faults' = faults + 1)
    BY DEF Sn!Step, Sn!SeeLrc, Sn!SeeTxt, Sn!BankLookup, Sn!BankProbe, Sn!BankRecord, Sn!IndexLookup, Sn!IndexRead, Sn!StatHit,
           Sn!StatMiss, Sn!OpenRead, Sn!Link, Sn!Probe, Sn!Record, Sn!Reread, Sn!BankFacts, Sn!Upsert, Sn!Works, Sn!Fails
  <2> QED BY <2>1 DEF Limits, Counted
<1>3. sides' = sides
  BY DEF Sn!Step, Sn!SeeLrc, Sn!SeeTxt, Sn!BankLookup, Sn!BankProbe, Sn!BankRecord, Sn!IndexLookup, Sn!IndexRead, Sn!StatHit,
         Sn!StatMiss, Sn!OpenRead, Sn!Link, Sn!Probe, Sn!Record, Sn!Reread, Sn!BankFacts, Sn!Upsert
<1>4. Missed(scan[s])'
  <2>1. CASE Sn!Upsert(s)
    <3>1. scan'[s] = Sn!Idle /\ Sn!Idle.miss = Sn!None
      BY <2>1, IdleBlank, Blank DEF Sn!Upsert, ScanTypes
    <3> QED BY <3>1 DEF Missed
  <2>2. CASE Sn!Link(s)
    <3>1. CASE UNCHANGED side /\ Sn!Goto(s, IF scan[s].opt.enrich THEN "probe" ELSE "reread")
      BY <1>1, <3>1 DEF Sn!Goto, ScanStates, Missed, Opened
    <3>2. ASSUME NEW d \in {"probe", "reread", "upsert"},
                 scan' = [t \in Scans |-> [scan[t] EXCEPT !.held = @ /\ ~side'.lrc, !.pc = IF t # s THEN @ ELSE d]]
          PROVE  Missed(scan[s])'
      <4> DEFINE h == scan[s].held /\ ~side'.lrc
      <4>1. scan'[s] = [scan[s] EXCEPT !.held = h, !.pc = d]
        BY <3>2
      <4> HIDE DEF h
      <4> QED BY <1>1, <4>1 DEF ScanStates, Missed, Opened
    <3> QED BY <2>2, <3>1, <3>2 DEF Sn!Link
  <2>3. CASE Sn!StatMiss(s)
    BY <1>1, <2>3 DEF Sn!StatMiss, Sn!At, Sn!Goto, ScanStates, Missed, Opened
  <2>4. CASE Sn!SeeLrc(s) \/ Sn!SeeTxt(s) \/ Sn!BankLookup(s) \/ Sn!BankProbe(s) \/ Sn!BankRecord(s)
    BY <1>1, <2>4 DEF Sn!SeeLrc, Sn!SeeTxt, Sn!BankLookup, Sn!BankProbe, Sn!BankRecord, Sn!At, Sn!Goto, ScanStates, Missed, Opened
  <2>5. CASE Sn!IndexLookup(s) \/ Sn!IndexRead(s) \/ Sn!StatHit(s)
    BY <1>1, <2>5 DEF Sn!IndexLookup, Sn!IndexRead, Sn!StatHit, Sn!At, Sn!Goto, ScanStates, Missed, Opened
  <2>6. CASE Sn!OpenRead(s) \/ Sn!Probe(s) \/ Sn!Record(s) \/ Sn!Reread(s) \/ Sn!BankFacts(s)
    BY <1>1, <2>6 DEF Sn!OpenRead, Sn!Probe, Sn!Record, Sn!Reread, Sn!BankFacts, Sn!At, Sn!Goto, ScanStates, Missed, Opened
  <2> QED BY <2>1, <2>2, <2>3, <2>4, <2>5, <2>6 DEF Sn!Step
<1>5. ASSUME NEW t \in Scans, t # s PROVE Missed(scan[t])'
  <2>1. PICK h \in BOOLEAN : scan'[t] = [scan[t] EXCEPT !.held = h]
    BY <1>5, StepMoves
  <2> QED BY <2>1, SameButHeld DEF Missed, Limits
<1> QED BY <1>2, <1>3, <1>4, <1>5 DEF Limits

-----------------------------------------------------------------------------
(* What begins, ends or happens elsewhere leaves every part of this alone. *)
Elsewhere == Sn!Sidecars \/ \E s \in Scans : Sn!Cancel(s) \/ \E o \in ScanOptions : Sn!Begin(s, o)
Fresh(r) == /\ r.pc \in {"idle", "lrc"} /\ r.stamp = Sn!None /\ r.miss = Sn!None /\ r.ino = 1 /\ r.res = "none"
            /\ r.held => side.txt = "manual" /\ ~side.lrc /\ ~r.lrc /\ r.pc = "lrc"
Unmoved(s) == \E h \in BOOLEAN : /\ scan'[s] = [scan[s] EXCEPT !.held = h]
                                 /\ h => scan[s].held /\ (side' = side \/ (side'.txt = "manual" /\ ~side'.lrc))

LEMMA ElsewhereTypes ==
    ASSUME ScanConfigured, ScanTypes, Elsewhere
    PROVE  /\ ScanTypes' /\ UNCHANGED <<truth, path, holds, edits, ids, durs, fails, row>>
           /\ \A s \in Scans : Unmoved(s) \/ Fresh(scan[s])'
<1>1. \A s \in Scans : scan[s].held \in BOOLEAN /\ scan[s] = [scan[s] EXCEPT !.held = scan[s].held]
  BY DEF ScanTypes, ScanStates
<1>2. CASE Sn!Sidecars
  <2>1. ASSUME NEW s \in Scans PROVE Unmoved(s)
    <3>1. Reheld(s)
      BY <1>2, SidecarsTypes
    <3> QED BY <3>1 DEF Reheld, Unmoved
  <2> QED BY <1>2, <2>1, SidecarsTypes
<1>3. ASSUME NEW s \in Scans, Sn!Cancel(s)
      PROVE  /\ ScanTypes' /\ UNCHANGED <<truth, path, holds, edits, ids, durs, fails, row>>
             /\ \A t \in Scans : Unmoved(t) \/ Fresh(scan[t])'
  <2>1. Fresh(scan[s])' /\ \A t \in Scans \ {s} : Unmoved(t)
    BY <1>1, <1>3, CancelTypes DEF Blanked, Fresh, Unmoved
  <2> QED BY <1>3, <2>1, CancelTypes
<1>4. ASSUME NEW s \in Scans, NEW o \in ScanOptions, Sn!Begin(s, o)
      PROVE  /\ ScanTypes' /\ UNCHANGED <<truth, path, holds, edits, ids, durs, fails, row>>
             /\ \A t \in Scans : Unmoved(t) \/ Fresh(scan[t])'
  <2>1. Fresh(scan[s])' /\ \A t \in Scans \ {s} : Unmoved(t)
    BY <1>1, <1>4, BeginTypes DEF Fresh, Unmoved
  <2> QED BY <1>4, <2>1, BeginTypes
<1> QED BY <1>2, <1>3, <1>4 DEF Elsewhere

LEMMA ElsewhereKeeps ==
    ASSUME ScanConfigured, ScanTypes, Elsewhere, Youngest
    PROVE  /\ Youngest'
           /\ HonestInv => HonestInv'
           /\ DurationInv => DurationInv'
           /\ Sn!SkipMeansUnreadable => Sn!SkipMeansUnreadable'
           /\ MarkedInv => MarkedInv'
<1> USE ElsewhereTypes
<1>1. ASSUME NEW s \in Scans PROVE scan'[s].stamp <= edits + 1 /\ scan'[s].miss <= edits + 1 /\ scan'[s].ino <= edits + 1
  <2>1. edits \in Nat
    BY DEF ScanTypes
  <2>2. CASE Fresh(scan[s])'
    BY <2>1, <2>2 DEF Fresh, Sn!None
  <2>3. CASE Unmoved(s)
    BY <2>3, SameButHeld DEF Unmoved, Youngest
  <2> QED BY <2>2, <2>3
<1>2. Youngest'
  BY <1>1 DEF Youngest
<1>3. ASSUME HonestInv PROVE HonestInv'
  <2>1. ASSUME NEW s \in Scans PROVE OneVersion(scan[s])'
    <3>1. CASE Fresh(scan[s])'
      BY <3>1 DEF Fresh, OneVersion, Opened
    <3>2. CASE Unmoved(s)
      BY <1>3, <3>2, OneVersionKept DEF Unmoved, HonestInv
    <3> QED BY <3>1, <3>2
  <2> QED BY <1>3, <2>1 DEF HonestInv, Sn!IdentityHonest
<1>4. ASSUME DurationInv PROVE DurationInv'
  <2>1. ASSUME NEW s \in Scans PROVE Sounded(scan[s])'
    <3>1. CASE Fresh(scan[s])'
      BY <3>1 DEF Fresh, Sounded
    <3>2. CASE Unmoved(s)
      BY <1>4, <3>2, SoundedKept DEF Unmoved, DurationInv
    <3> QED BY <3>1, <3>2
  <2> QED BY <1>4, <2>1 DEF DurationInv, Sn!DurationHonest
<1>5. Sn!SkipMeansUnreadable => Sn!SkipMeansUnreadable'
  BY DEF Sn!SkipMeansUnreadable, Sn!ShouldSkip, Sn!Stamp
<1>6. ASSUME MarkedInv PROVE MarkedInv'
  <2>1. ASSUME NEW s \in Scans PROVE Passing(scan[s])'
    <3>1. CASE Fresh(scan[s])'
      BY <3>1 DEF Fresh, Passing
    <3>2. CASE Unmoved(s)
      BY <1>6, <3>2, SameButHeld DEF Unmoved, MarkedInv, Passing
    <3> QED BY <3>1, <3>2
  <2> QED BY <2>1 DEF MarkedInv
<1> QED BY <1>2, <1>3, <1>4, <1>5, <1>6

LEMMA ElsewhereLimits ==
    ASSUME ScanConfigured, Counted, ScanTypes, Limits, Elsewhere
    PROVE  Limits'
<1>1. ASSUME NEW s \in Scans PROVE Missed(scan[s])'
  <2>1. CASE Fresh(scan[s])'
    BY <2>1 DEF Fresh, Missed
  <2>2. CASE Unmoved(s)
    BY <2>2, SameButHeld DEF Unmoved, Missed, Limits
  <2> QED BY <2>1, <2>2, ElsewhereTypes
<1>2. faults' = faults \/ (faults < MaxFaults /\ faults' = faults + 1)
  BY DEF Elsewhere, Sn!Sidecars, Sn!Cancel, Sn!Begin, Sn!Fails
<1>3. sides' = sides \/ (sides < MaxSides /\ sides' = sides + 1)
  BY DEF Elsewhere, Sn!Sidecars, Sn!Cancel, Sn!Begin
<1> QED BY <1>1, <1>2, <1>3 DEF Limits, Counted

LEMMA NextKinds ==
    ASSUME Sn!Next
    PROVE  \/ \E how \in ScanEdits, ok \in BOOLEAN : Sn!Edit(how, ok)
           \/ Elsewhere
           \/ \E s \in Scans : Sn!Step(s)
BY DEF Sn!Next, Elsewhere

LEMMA ScanTypesStep ==
    ASSUME ScanConfigured, ScanTypes, Youngest, [Sn!Next]_Sn!vars
    PROVE  ScanTypes' /\ Youngest'
<1>1. CASE Sn!Next
  BY <1>1, NextKinds, EditMakesNext, ElsewhereTypes, ElsewhereKeeps, StepTypes, YoungestStep
<1>2. CASE UNCHANGED Sn!vars
  BY <1>2 DEF Sn!vars, ScanTypes, Youngest
<1> QED BY <1>1, <1>2

(* The blank start. *)
LEMMA StartsBlank == ASSUME ScanConfigured, Sn!Init, NEW s \in Scans PROVE Blanked(scan[s])
<1>1. scan[s] = Sn!Idle
  BY DEF Sn!Init
<1> QED BY <1>1, IdleBlank, Blank DEF Blanked

LEMMA StartsHonest ==
    ASSUME ScanConfigured, Sn!Init
    PROVE  HonestInv /\ DurationInv /\ MarkedInv /\ Sn!SkipMeansUnreadable /\ \A s \in Scans : Missed(scan[s])
<1>1. ASSUME NEW s \in Scans
      PROVE  OneVersion(scan[s]) /\ Sounded(scan[s]) /\ Passing(scan[s]) /\ Missed(scan[s])
  BY <1>1, StartsBlank DEF Blanked, OneVersion, Opened, Sounded, Passing, Missed
<1>2. ids.stamp = Sn!None /\ durs.stamp = Sn!None /\ fails = Sn!None
  BY DEF Sn!Init
<1> QED BY <1>1, <1>2 DEF HonestInv, Sn!IdentityHonest, DurationInv, Sn!DurationHonest, MarkedInv,
                          Sn!SkipMeansUnreadable, Sn!ShouldSkip

(* A row of the tag cache describes, whole, the version of the file its     *)
(* stamp names: for any scans at once, options, failing calls and changes   *)
(* of the file, also while a scan has it open (scanner.go bankFacts).       *)
THEOREM ScanIdentityHonest ==
    ASSUME ScanConfigured
    PROVE  Sn!Spec => []Sn!IdentityHonest
<1>1. Sn!Init => ScanTypes /\ Youngest /\ HonestInv
  BY ScanTypesInit, StartsHonest
<1>2. ScanTypes /\ Youngest /\ HonestInv /\ [Sn!Next]_Sn!vars => ScanTypes' /\ Youngest' /\ HonestInv'
  <2>1. ASSUME ScanTypes, Youngest, HonestInv, Sn!Next PROVE HonestInv'
    BY <2>1, NextKinds, HonestEdit, HonestStep, ElsewhereKeeps
  <2>2. ASSUME HonestInv, UNCHANGED Sn!vars PROVE HonestInv'
    BY <2>2 DEF Sn!vars, HonestInv, Sn!IdentityHonest, OneVersion
  <2> QED BY <2>1, <2>2, ScanTypesStep
<1>3. HonestInv => Sn!IdentityHonest
  BY DEF HonestInv
<1> QED BY <1>1, <1>2, <1>3, PTL DEF Sn!Spec

(* A banked duration is that of the version its stamp names, by whichever   *)
(* path it was banked, where a change made inside the file keeps its sound  *)
(* (recordDuration stamps at the end of a probe, so a file whose sound is   *)
(* written over meanwhile is the exception).                                *)
THEOREM ScanDurationHonest ==
    ASSUME ScanConfigured, KeepsSound
    PROVE  Sn!Spec => []Sn!DurationHonest
<1>1. Sn!Init => ScanTypes /\ Youngest /\ HonestInv /\ DurationInv
  BY ScanTypesInit, StartsHonest
<1>2. ScanTypes /\ Youngest /\ HonestInv /\ DurationInv /\ [Sn!Next]_Sn!vars
        => ScanTypes' /\ Youngest' /\ HonestInv' /\ DurationInv'
  <2>1. ASSUME ScanTypes, Youngest, HonestInv, DurationInv, Sn!Next PROVE HonestInv' /\ DurationInv'
    <3>1. Sn!IdentityHonest
      BY <2>1 DEF HonestInv
    <3> QED BY <2>1, <3>1, NextKinds, HonestEdit, HonestStep, DurationEdit, DurationStep, ElsewhereKeeps
  <2>2. ASSUME HonestInv, DurationInv, UNCHANGED Sn!vars PROVE HonestInv' /\ DurationInv'
    BY <2>2 DEF Sn!vars, HonestInv, Sn!IdentityHonest, OneVersion, DurationInv, Sn!DurationHonest, Sounded
  <2> QED BY <2>1, <2>2, ScanTypesStep
<1>3. DurationInv => Sn!DurationHonest
  BY DEF DurationInv
<1> QED BY <1>1, <1>2, <1>3, PTL DEF Sn!Spec

(* The skip list never hides a file that can be read, although it records   *)
(* the stamp of a look before the open: for any scans and changes, where    *)
(* the open of a settled file does not fail for another reason than its     *)
(* tags (scanner.go, MetadataFailureStore).                                 *)
THEOREM ScanSkipsUnreadable ==
    ASSUME ScanConfigured, "settledopen" \notin ScanFaults
    PROVE  Sn!Spec => []Sn!SkipMeansUnreadable
<1>1. Sn!Init => ScanTypes /\ Youngest /\ Sn!SkipMeansUnreadable
  BY ScanTypesInit, StartsHonest
<1>2. ScanTypes /\ Youngest /\ Sn!SkipMeansUnreadable /\ [Sn!Next]_Sn!vars => ScanTypes' /\ Youngest' /\ Sn!SkipMeansUnreadable'
  <2>1. ASSUME ScanTypes, Youngest, Sn!SkipMeansUnreadable, Sn!Next PROVE Sn!SkipMeansUnreadable'
    BY <2>1, NextKinds, SkipEdit, SkipStep, ElsewhereKeeps
  <2>2. ASSUME Sn!SkipMeansUnreadable, UNCHANGED Sn!vars PROVE Sn!SkipMeansUnreadable'
    BY <2>2 DEF Sn!vars, Sn!SkipMeansUnreadable, Sn!ShouldSkip, Sn!Stamp
  <2> QED BY <2>1, <2>2, ScanTypesStep
<1> QED BY <1>1, <1>2, PTL DEF Sn!Spec

(* A track marked instrumental by hand is never offered by a scan that met  *)
(* the mark, whatever classes it reopens and whatever other scans link      *)
(* beside it, where the .txt can be read.                                   *)
THEOREM ScanSparesMarked ==
    ASSUME ScanConfigured, "readtxt" \notin ScanFaults
    PROVE  Sn!Spec => []Sn!MarkedNeverOffered
<1>1. Sn!Init => ScanTypes /\ Youngest /\ MarkedInv
  BY ScanTypesInit, StartsHonest
<1>2. ScanTypes /\ Youngest /\ MarkedInv /\ [Sn!Next]_Sn!vars => ScanTypes' /\ Youngest' /\ MarkedInv'
  <2>1. ASSUME ScanTypes, Youngest, MarkedInv, NEW how \in ScanEdits, NEW ok \in BOOLEAN, Sn!Edit(how, ok) PROVE MarkedInv'
    BY <2>1, EditMakesNext DEF MarkedInv, Passing
  <2>2. ASSUME ScanTypes, Youngest, MarkedInv, Sn!Next PROVE MarkedInv'
    BY <2>1, <2>2, NextKinds, MarkedStep, ElsewhereKeeps
  <2>3. ASSUME MarkedInv, UNCHANGED Sn!vars PROVE MarkedInv'
    BY <2>3 DEF Sn!vars, MarkedInv, Passing
  <2> QED BY <2>2, <2>3, ScanTypesStep
<1>3. MarkedInv => Sn!MarkedNeverOffered
  BY DEF MarkedInv, Passing, Sn!MarkedNeverOffered
<1> QED BY <1>1, <1>2, <1>3, PTL DEF Sn!Spec

(* The state keeps its shape, and a stamp remembered as missed is the one   *)
(* the scan saw.                                                            *)
THEOREM ScanTypesHold ==
    ASSUME ScanConfigured, Counted
    PROVE  Sn!Spec => []Sn!TypeOK
<1>1. Sn!Init => ScanTypes /\ Youngest /\ Limits
  <2>1. ASSUME Sn!Init PROVE Limits
    <3>1. sides \in 0..MaxSides /\ faults \in 0..MaxFaults
      BY <2>1 DEF Sn!Init, Counted
    <3> QED BY <2>1, <3>1, StartsHonest DEF Limits
  <2> QED BY <2>1, ScanTypesInit
<1>2. ScanTypes /\ Youngest /\ Limits /\ [Sn!Next]_Sn!vars => ScanTypes' /\ Youngest' /\ Limits'
  <2>1. ASSUME ScanTypes, Youngest, Limits, NEW how \in ScanEdits, NEW ok \in BOOLEAN, Sn!Edit(how, ok) PROVE Limits'
    <3>1. UNCHANGED <<sides, faults, scan>>
      BY <2>1 DEF Sn!Edit
    <3> QED BY <2>1, <3>1 DEF Limits, Missed
  <2>2. ASSUME ScanTypes, Youngest, Limits, Sn!Next PROVE Limits'
    BY <2>1, <2>2, NextKinds, LimitsStep, ElsewhereLimits
  <2>3. ASSUME Limits, UNCHANGED Sn!vars PROVE Limits'
    BY <2>3 DEF Sn!vars, Limits, Missed
  <2> QED BY <2>2, <2>3, ScanTypesStep
<1>3. ScanTypes /\ Limits => Sn!TypeOK
  <2> SUFFICES ASSUME ScanTypes, Limits PROVE Sn!TypeOK
    OBVIOUS
  <2>1. \A s \in Scans : /\ scan[s].opt \in ScanOptions /\ scan[s].tags \in Sn!Tags
                         /\ scan[s].stamp \in Sn!Versions \cup {Sn!None}
                         /\ scan[s].miss \in {Sn!None, scan[s].stamp}
    BY DEF ScanTypes, ScanStates, Limits, Missed
  <2> QED BY <2>1 DEF ScanTypes, Limits, Sn!TypeOK
<1> QED BY <1>1, <1>2, <1>3, PTL DEF Sn!Spec

-----------------------------------------------------------------------------
(* The token (Token). *)

(* The phases of a lookup that has taken renewMu. *)
Renewing == {"held", "named", "stamped", "minting", "commit"}

(* renewMu is held by a lookup exactly while it renews: at most one renews, *)
(* and each way out of a renewal gives the lock up.                         *)
OneRenewal == \A l \in TokenLookups : lk[l].pc \in Renewing <=> renewMu = l

(* Lookups run only while serve is up: what a start does to the stored     *)
(* token meets no renewal of its own process.                              *)
Alone == sv.pc # "up" => \A l \in TokenLookups : lk[l].pc = "idle"

(* A mint that has not been written yet.  Every write but the operator's   *)
(* is of a minted token, so the stamps stay within their bound.            *)
Unwritten == sv.pc = "persist" \/ \E l \in TokenLookups : lk[l].pc = "commit"
StampsBounded ==
    /\ writes \in Nat /\ store.stamp <= writes
    /\ writes <= 1 + mints + saves
    /\ Unwritten => writes <= mints + saves

(* What tells the operator's token from every other state a renewal may    *)
(* replace: it names no client and it has a stamp, which the legacy state  *)
(* has not.  A renewal that goes on to mint has judged its snapshot so.    *)
Owned == owner = "op" => /\ store.tok # To!NoToken /\ store.idn = 0 /\ store.stamp # 0
Judged == /\ sv.legacy.stamp = 0
          /\ \A l \in TokenLookups : lk[l].pc \in {"minting", "commit"} => ~To!operatorStored(lk[l].snap)

(* Between the two deletes of a degenerate row only the operator writes.   *)
Dropping == sv.pc = "dropping" => store.tok = To!NoToken \/ owner # "mint"

TokenInv == To!TypeOK /\ OneRenewal /\ Alone /\ StampsBounded /\ Owned /\ Judged /\ Dropping /\ To!RecordMeansMinted
----------------------------------------------------------------------------
LEMMA Bounds == ASSUME To!Bounded PROVE MaxMints \in Nat /\ MaxSaves \in Nat /\ MaxStarts \in Nat
BY DEF To!Bounded

LEMMA Counts == ASSUME To!Bounded, To!TypeOK PROVE mints \in Nat /\ saves \in Nat
<1>1. MaxMints \in Nat /\ MaxSaves \in Nat /\ mints \in 0..MaxMints /\ saves \in 0..MaxSaves
  BY Bounds DEF To!TypeOK
<1> QED BY <1>1

(* The blank records: no stored token, no lookup, no serve. *)
LEMMA Blanks ==
    ASSUME To!Bounded
    PROVE /\ To!NoState \in To!States /\ To!NoState.tok = 0 /\ To!NoState.idn = 0 /\ To!NoState.stamp = 0
          /\ To!NoLookup \in To!LookupStates /\ To!NoLookup.pc = "idle"
          /\ To!Off.pc = "down" /\ To!Off.tok = 0 /\ To!Off.renewer = FALSE /\ To!Off.legacy = To!NoState
          /\ To!Off = [pc |-> "down", tok |-> 0, renewer |-> FALSE, legacy |-> To!NoState]
<1>1. To!NoState \in To!States
  BY Bounds DEF To!NoState, To!States, To!Tokens
<1>2. To!NoState.tok = 0 /\ To!NoState.idn = 0 /\ To!NoState.stamp = 0
  BY DEF To!NoState
<1>3. To!NoLookup \in To!LookupStates /\ To!NoLookup.pc = "idle"
  BY Bounds, <1>1 DEF To!NoLookup, To!LookupStates, To!Tokens
<1> QED BY <1>1, <1>2, <1>3 DEF To!Off

(* Every state serve may start from satisfies the invariant. *)
LEMMA TokenInit == ASSUME To!Bounded, To!Init PROVE TokenInv
<1>0. MaxMints \in Nat /\ MaxSaves \in Nat /\ MaxStarts \in Nat
  BY Bounds
<1>b. /\ To!NoState \in To!States /\ To!NoState.tok = 0 /\ To!NoState.idn = 0 /\ To!NoState.stamp = 0
      /\ To!NoLookup \in To!LookupStates /\ To!NoLookup.pc = "idle"
      /\ To!Off = [pc |-> "down", tok |-> 0, renewer |-> FALSE, legacy |-> To!NoState]
  BY Blanks
<1>1. store \in To!States /\ store.stamp \in 0..1
  <2>1. CASE store = To!NoState
    BY <1>b, <2>1
  <2>2. CASE \E t \in {1, 2} : store = [tok |-> t, idn |-> 0, stamp |-> 0]
    BY <1>0, <2>2 DEF To!States, To!Tokens
  <2>3. CASE store = [tok |-> 3, idn |-> 2, stamp |-> 1]
    BY <1>0, <2>3 DEF To!States, To!Tokens
  <2>4. CASE store = [tok |-> 3, idn |-> 0, stamp |-> 1]
    BY <1>0, <2>4 DEF To!States, To!Tokens
  <2>5. \/ store = To!NoState
        \/ \E t \in {1, 2} : store = [tok |-> t, idn |-> 0, stamp |-> 0]
        \/ store = [tok |-> 3, idn |-> 2, stamp |-> 1]
        \/ store = [tok |-> 3, idn |-> 0, stamp |-> 1]
    BY DEF To!Init, To!Degenerate
  <2> QED BY <2>1, <2>2, <2>3, <2>4, <2>5
<1>2. To!TypeOK
  <2>1. sv \in To!ServeStates
    <3>1. sv = [pc |-> "down", tok |-> 0, renewer |-> FALSE, legacy |-> To!NoState]
      BY <1>b DEF To!Init
    <3> QED BY <1>0, <1>b, <3>1 DEF To!Tokens, To!ServeStates
  <2>2. lk \in [TokenLookups -> To!LookupStates]
    BY <1>b DEF To!Init
  <2>3. mints = 0 /\ saves = 0 /\ starts = 0
    BY DEF To!Init
  <2>4. owner \in {"nobody", "old", "mint", "op"} /\ renewMu = "" /\ dead = {}
    BY DEF To!Init
  <2>5. mints \in 0..MaxMints /\ saves \in 0..MaxSaves /\ starts \in 0..MaxStarts
    BY <1>0, <2>3
  <2> QED BY <1>1, <2>1, <2>2, <2>4, <2>5 DEF To!TypeOK
<1>3. OneRenewal /\ Alone /\ Judged /\ Dropping
  <2>1. OneRenewal
    BY <1>b DEF To!Init, To!Bounded, OneRenewal, Renewing
  <2>2. Alone
    BY <1>b DEF To!Init, Alone
  <2>3. Judged
    BY <1>b DEF To!Init, Judged
  <2>4. Dropping
    BY <1>b DEF To!Init, Dropping
  <2> QED BY <2>1, <2>2, <2>3, <2>4
<1>4. Owned /\ To!RecordMeansMinted
  <2>1. CASE store = To!NoState /\ owner = "nobody"
    BY <1>b, <2>1 DEF Owned, To!RecordMeansMinted, To!NoToken
  <2>2. CASE \E t \in {1, 2} : store = [tok |-> t, idn |-> 0, stamp |-> 0] /\ owner = "old"
    BY <2>2 DEF Owned, To!RecordMeansMinted
  <2>3. CASE store = [tok |-> 3, idn |-> 2, stamp |-> 1] /\ owner = "mint"
    BY <2>3 DEF Owned, To!RecordMeansMinted
  <2>4. CASE store = [tok |-> 3, idn |-> 0, stamp |-> 1] /\ owner = "op"
    BY <2>4 DEF Owned, To!RecordMeansMinted, To!NoToken
  <2> QED BY <2>1, <2>2, <2>3, <2>4 DEF To!Init, To!Degenerate
<1>5. StampsBounded
  <2>1. writes = 1 /\ mints = 0 /\ saves = 0
    BY DEF To!Init
  <2>2. ~Unwritten
    BY <1>b DEF To!Init, Unwritten
  <2> QED BY <1>1, <2>1, <2>2 DEF StampsBounded
<1> QED BY <1>2, <1>3, <1>4, <1>5 DEF TokenInv

(* The operator's saves keep it. *)
LEMMA SaveKeeps ==
    ASSUME To!Bounded, TokenInv, NEW t \in To!Operators, To!OperatorSave(t) PROVE TokenInv'
<1>0. MaxMints \in Nat /\ MaxSaves \in Nat /\ MaxStarts \in Nat
  BY Bounds
<1>1. t \in To!Tokens /\ t # 0
  BY <1>0 DEF To!Operators, To!Tokens
<1>2. store' = [tok |-> t, idn |-> 0, stamp |-> writes + 1] /\ owner' = "op" /\ writes' = writes + 1
  BY DEF To!OperatorSave, To!writeTokenPair, To!Written
<1>3. /\ saves < MaxSaves /\ saves' = saves + 1
      /\ mints' = mints /\ starts' = starts /\ sv' = sv /\ lk' = lk /\ renewMu' = renewMu /\ dead' = dead
  BY DEF To!OperatorSave
<1>4. To!TypeOK /\ StampsBounded
  BY DEF TokenInv
<1>5. /\ writes \in Nat /\ writes <= 1 + mints + saves /\ (Unwritten => writes <= mints + saves)
      /\ mints \in 0..MaxMints /\ saves \in 0..MaxSaves /\ starts \in 0..MaxStarts
  BY <1>4 DEF StampsBounded, To!TypeOK
<1>6. StampsBounded'
  <2>1. Unwritten' <=> Unwritten
    BY <1>3 DEF Unwritten
  <2> QED BY <1>0, <1>2, <1>3, <1>5, <2>1 DEF StampsBounded
<1>7. To!TypeOK'
  <2>1. writes + 1 \in 0..(MaxMints + MaxSaves + 1)
    BY <1>0, <1>3, <1>5
  <2>2. store' \in To!States
    BY <1>1, <1>2, <2>1 DEF To!States
  <2>3. saves' \in 0..MaxSaves
    BY <1>0, <1>3, <1>5
  <2> QED BY <1>2, <1>3, <1>4, <2>2, <2>3 DEF To!TypeOK
<1>8. OneRenewal' /\ Alone' /\ Judged' /\ Dropping'
  BY <1>2, <1>3 DEF OneRenewal, Alone, Judged, To!operatorStored, Dropping, TokenInv
<1>9. Owned' /\ To!RecordMeansMinted'
  BY <1>1, <1>2, <1>5 DEF Owned, To!RecordMeansMinted, To!NoToken
<1> QED BY <1>6, <1>7, <1>8, <1>9 DEF TokenInv

(* A step of one lookup that leaves the store and serve alone, takes and   *)
(* frees renewMu with its phase, has judged what it is about to replace,   *)
(* and counts the mint it goes on to write.                                *)
LocksWith(l) ==
    \/ renewMu' = renewMu /\ (lk'[l].pc \in Renewing <=> lk[l].pc \in Renewing)
    \/ renewMu = "" /\ renewMu' = l /\ lk'[l].pc \in Renewing
    \/ renewMu = l /\ renewMu' = "" /\ lk'[l].pc \notin Renewing
CountsMint(l) == mints' \in 0..MaxMints /\ mints <= mints' /\ (lk'[l].pc = "commit" => mints < mints')
Moves(l) == lk' \in [TokenLookups -> To!LookupStates] /\ \A m \in TokenLookups : m # l => lk'[m] = lk[m]
Careful(l) ==
    /\ Moves(l) /\ CountsMint(l) /\ LocksWith(l)
    /\ UNCHANGED <<store, owner, sv, dead, saves, starts, writes>>
    /\ sv.pc = "up" \/ lk[l].pc # "idle"
    /\ lk'[l].pc \in {"minting", "commit"} => ~To!operatorStored(lk'[l].snap)

LEMMA MoreRoom ==
    ASSUME NEW w \in Nat, NEW m \in Nat, NEW n \in Nat, NEW s \in Nat
    PROVE  /\ w <= 1 + m + s /\ m <= n => w <= 1 + n + s
           /\ w <= 1 + m + s /\ m < n => w <= n + s
           /\ w <= m + s /\ m <= n => w <= n + s
           /\ w <= m + s => w + 1 <= 1 + m + s
OBVIOUS

LEMMA CarefulKeeps ==
    ASSUME To!Bounded, TokenInv, NEW l \in TokenLookups, Careful(l) PROVE TokenInv'
<1>1. To!TypeOK /\ StampsBounded
  BY DEF TokenInv
<1>2. lk \in [TokenLookups -> To!LookupStates] /\ renewMu \in TokenLookups \cup {""}
  BY <1>1 DEF To!TypeOK
<1>3. /\ lk' \in [TokenLookups -> To!LookupStates] /\ \A m \in TokenLookups : m # l => lk'[m] = lk[m]
  BY DEF Careful, Moves
<1>u. /\ store' = store /\ owner' = owner /\ sv' = sv /\ dead' = dead /\ saves' = saves /\ starts' = starts
      /\ writes' = writes /\ CountsMint(l) /\ LocksWith(l)
  BY DEF Careful
<1>4. To!TypeOK'
  <2>1. renewMu' \in TokenLookups \cup {""} /\ mints' \in 0..MaxMints
    BY <1>2, <1>u DEF LocksWith, CountsMint
  <2> QED BY <1>1, <1>3, <1>u, <2>1 DEF To!TypeOK
<1>5. OneRenewal'
  BY <1>2, <1>3, <1>u DEF OneRenewal, To!Bounded, TokenInv, LocksWith
<1>6. Alone'
  BY <1>3, <1>u DEF Alone, TokenInv, Careful
<1>7. StampsBounded'
  <2>1. Unwritten' => Unwritten \/ lk'[l].pc = "commit"
    BY <1>3, <1>u DEF Unwritten
  <2>2. mints \in 0..MaxMints /\ mints' \in 0..MaxMints /\ saves \in 0..MaxSaves
    BY <1>1, <1>u DEF To!TypeOK, CountsMint
  <2>3. mints \in Nat /\ mints' \in Nat /\ saves \in Nat
    BY <2>2, Bounds
  <2>4. writes \in Nat /\ writes <= 1 + mints + saves /\ (Unwritten => writes <= mints + saves) /\ store.stamp <= writes
    BY <1>1 DEF StampsBounded
  <2>5. mints <= mints' /\ (lk'[l].pc = "commit" => mints < mints')
    BY <1>u DEF CountsMint
  <2>6. writes <= 1 + mints' + saves
    BY <2>3, <2>4, <2>5, MoreRoom
  <2>7. ASSUME Unwritten' PROVE writes <= mints' + saves
    <3>1. Unwritten \/ lk'[l].pc = "commit"
      BY <2>1, <2>7
    <3>2. writes <= mints + saves \/ mints < mints'
      BY <2>4, <2>5, <3>1
    <3> QED BY <2>3, <2>4, <2>5, <3>2, MoreRoom
  <2> QED BY <1>u, <2>4, <2>6, <2>7 DEF StampsBounded
<1>8. Judged'
  BY <1>3, <1>u DEF Judged, To!operatorStored, TokenInv, Careful
<1>9. Owned' /\ Dropping' /\ To!RecordMeansMinted'
  BY <1>u DEF Owned, Dropping, To!RecordMeansMinted, TokenInv
<1> QED BY <1>4, <1>5, <1>6, <1>7, <1>8, <1>9 DEF TokenInv

(* What the steps of a lookup make of its record. *)
LEMMA Sending ==
    ASSUME To!Bounded, NEW t \in To!Tokens, NEW l
    PROVE  /\ [To!NoLookup EXCEPT !.pc = "sent", !.tok = t] \in To!LookupStates
           /\ [To!NoLookup EXCEPT !.pc = "sent", !.tok = t].pc = "sent"
           /\ To!Resent(l, t) \in To!LookupStates /\ To!Resent(l, t).pc = "sent"
<1>1. To!NoLookup \in To!LookupStates
  BY Blanks
<1>2. [To!NoLookup EXCEPT !.pc = "sent", !.tok = t] \in To!LookupStates
  BY <1>1 DEF To!LookupStates
<1>3. [To!NoLookup EXCEPT !.pc = "sent", !.tok = t].pc = "sent"
  BY <1>1 DEF To!LookupStates
<1>4. To!Resent(l, t) \in To!LookupStates
  BY <1>1 DEF To!LookupStates, To!Resent
<1>5. To!Resent(l, t).pc = "sent"
  BY <1>1 DEF To!LookupStates, To!Resent
<1> QED BY <1>2, <1>3, <1>4, <1>5

LEMMA LookupsKeep ==
    ASSUME To!Bounded, TokenInv, NEW l \in TokenLookups,
           \/ To!Send(l) \/ To!Answer(l) \/ To!ReadStale(l) \/ To!Lock(l) \/ To!ReadIdentity(l) \/ To!ReadStamp(l)
           \/ To!Refuse(l) \/ To!BeginMint(l) \/ To!Mint(l)
    PROVE  TokenInv'
<1>0. MaxMints \in Nat /\ mints \in Nat
  BY Bounds, Counts DEF TokenInv
<1>1. SUFFICES Careful(l)
  BY CarefulKeeps
<1>2. /\ store \in To!States /\ sv \in To!ServeStates /\ lk \in [TokenLookups -> To!LookupStates] /\ mints \in 0..MaxMints
      /\ renewMu \in TokenLookups \cup {""}
  BY DEF TokenInv, To!TypeOK
<1>3. /\ lk[l] \in To!LookupStates /\ sv.tok \in To!Tokens /\ store.tok \in To!Tokens /\ store.idn \in 0..2
      /\ store.stamp \in 0..(MaxMints + MaxSaves + 1) /\ lk[l].snap \in To!States
  BY <1>2 DEF To!ServeStates, To!States, To!LookupStates
<1>4. To!NoLookup \in To!LookupStates /\ To!NoLookup.pc = "idle"
  BY Blanks
<1>5. lk[l].pc \in Renewing <=> renewMu = l
  BY DEF TokenInv, OneRenewal
<1>6. mints' = mints /\ lk'[l].pc # "commit" => CountsMint(l)
  <2>1. mints <= mints
    BY <1>0
  <2> QED BY <1>2, <2>1 DEF CountsMint
<1>7. l # ""
  BY DEF To!Bounded
<1>8. CASE To!Send(l)
  <2>1. Moves(l) /\ lk'[l].pc = "sent"
    BY <1>2, <1>3, <1>8, Sending DEF To!Send, Moves
  <2> QED BY <1>6, <1>8, <2>1 DEF To!Send, Careful, LocksWith, Renewing
<1>9. CASE To!Answer(l)
  <2>1. Moves(l) /\ lk'[l].pc \in {"refused", "idle"}
    BY <1>2, <1>3, <1>4, <1>9 DEF To!Answer, Moves, To!LookupStates
  <2> QED BY <1>6, <1>9, <2>1 DEF To!Answer, Careful, LocksWith, Renewing
<1>10. CASE To!ReadStale(l)
  <2>1. Moves(l) /\ lk'[l].pc = "waiting"
    BY <1>2, <1>3, <1>10 DEF To!ReadStale, Moves, To!LookupStates
  <2> QED BY <1>6, <1>10, <2>1 DEF To!ReadStale, Careful, LocksWith, Renewing
<1>11. CASE To!Lock(l)
  <2>1. CASE sv.tok # lk[l].stale
    <3>1. lk' = [lk EXCEPT ![l] = To!Resent(l, sv.tok)] /\ renewMu' = renewMu
      BY <1>11, <2>1 DEF To!Lock
    <3>2. Moves(l) /\ lk'[l].pc = "sent"
      BY <1>2, <1>3, <3>1, Sending DEF Moves
    <3> QED BY <1>6, <1>11, <3>1, <3>2 DEF To!Lock, Careful, LocksWith, Renewing
  <2>2. CASE sv.tok = lk[l].stale
    <3>1. lk' = [lk EXCEPT ![l].pc = "held", ![l].snap.tok = store.tok] /\ renewMu' = l
      BY <1>11, <2>2 DEF To!Lock
    <3>2. Moves(l) /\ lk'[l].pc = "held"
      BY <1>2, <1>3, <3>1 DEF Moves, To!LookupStates, To!States
    <3> QED BY <1>6, <1>11, <3>1, <3>2 DEF To!Lock, Careful, LocksWith, Renewing
  <2> QED BY <2>1, <2>2
<1>12. CASE To!ReadIdentity(l)
  <2>1. Moves(l) /\ lk'[l].pc = "named"
    BY <1>2, <1>3, <1>12 DEF To!ReadIdentity, Moves, To!LookupStates, To!States
  <2> QED BY <1>6, <1>12, <2>1 DEF To!ReadIdentity, Careful, LocksWith, Renewing
<1>13. CASE To!ReadStamp(l)
  <2>1. Moves(l) /\ lk'[l].pc = "stamped"
    BY <1>2, <1>3, <1>13 DEF To!ReadStamp, Moves, To!LookupStates, To!States
  <2> QED BY <1>6, <1>13, <2>1 DEF To!ReadStamp, Careful, LocksWith, Renewing
<1>14. CASE To!Refuse(l)
  <2>1. Moves(l) /\ lk'[l].pc = "idle"
    BY <1>2, <1>4, <1>14 DEF To!Refuse, Moves
  <2>2. renewMu = l /\ renewMu' = ""
    BY <1>5, <1>14 DEF To!Refuse, To!Released, Renewing
  <2> QED BY <1>6, <1>14, <2>1, <2>2 DEF To!Refuse, Careful, LocksWith, Renewing
<1>15. CASE To!BeginMint(l)
  <2>1. Moves(l) /\ lk'[l].pc = "minting" /\ lk'[l].snap = lk[l].snap
    BY <1>2, <1>3, <1>15 DEF To!BeginMint, Moves, To!LookupStates
  <2> QED BY <1>6, <1>15, <2>1 DEF To!BeginMint, Careful, LocksWith, Renewing
<1>16. CASE To!Mint(l)
  <2>1. CASE mints < MaxMints /\ mints' = mints + 1 /\ renewMu' = renewMu
             /\ lk' = [lk EXCEPT ![l].pc = "commit", ![l].tok = 4 + mints]
    <3>1. mints < MaxMints /\ mints' = mints + 1
      BY <2>1
    <3>2. 4 + mints \in To!Tokens
      BY <1>0, <3>1 DEF To!Tokens
    <3>3. Moves(l) /\ lk'[l].pc = "commit" /\ lk'[l].snap = lk[l].snap
      BY <1>2, <1>3, <2>1, <3>2 DEF Moves, To!LookupStates
    <3>4. CountsMint(l)
      BY <1>0, <3>1 DEF CountsMint
    <3>5. ~To!operatorStored(lk[l].snap)
      BY <1>16 DEF To!Mint, TokenInv, Judged
    <3> QED BY <1>16, <2>1, <3>3, <3>4, <3>5 DEF To!Mint, Careful, LocksWith, Renewing
  <2>2. CASE lk' = [lk EXCEPT ![l] = To!NoLookup] /\ renewMu' = "" /\ mints' = mints
    <3>1. Moves(l) /\ lk'[l].pc = "idle"
      BY <1>2, <1>4, <2>2 DEF Moves
    <3>2. renewMu = l
      BY <1>5, <1>16 DEF To!Mint, Renewing
    <3> QED BY <1>6, <1>16, <2>2, <3>1, <3>2 DEF To!Mint, Careful, LocksWith, Renewing
  <2> QED BY <1>16, <2>1, <2>2 DEF To!Mint, To!Released
<1> QED BY <1>8, <1>9, <1>10, <1>11, <1>12, <1>13, <1>14, <1>15, <1>16

(* A step of a start of serve that writes nothing: no lookup runs yet.     *)
Booting ==
    /\ UNCHANGED <<store, owner, lk, renewMu, dead, saves, writes>>
    /\ sv.pc # "up" /\ sv' \in To!ServeStates /\ sv'.legacy.stamp = 0 /\ sv'.pc # "dropping"
    /\ starts' \in 0..MaxStarts /\ mints' \in 0..MaxMints /\ mints <= mints'
    /\ sv'.pc = "persist" => sv.pc = "persist" \/ mints < mints'

LEMMA BootingKeeps == ASSUME To!Bounded, TokenInv, Booting PROVE TokenInv'
<1>1. To!TypeOK /\ StampsBounded /\ \A l \in TokenLookups : lk[l].pc = "idle"
  BY DEF TokenInv, Booting, Alone
<1>2. /\ store' = store /\ owner' = owner /\ lk' = lk /\ renewMu' = renewMu /\ dead' = dead
      /\ saves' = saves /\ writes' = writes /\ mints' \in 0..MaxMints
  BY DEF Booting
<1>3. To!TypeOK'
  BY <1>1, <1>2 DEF Booting, To!TypeOK
<1>4. OneRenewal' /\ Owned' /\ To!RecordMeansMinted'
  BY <1>2 DEF TokenInv, OneRenewal, Owned, To!RecordMeansMinted
<1>5. Alone' /\ Dropping'
  BY <1>1, <1>2 DEF Alone, Dropping, Booting
<1>6. Judged'
  BY <1>1, <1>2 DEF Judged, Booting
<1>7. StampsBounded'
  <2>1. mints \in Nat /\ mints' \in Nat /\ saves \in Nat
    <3>1. MaxMints \in Nat
      BY Bounds
    <3> QED BY <1>1, <1>2, <3>1, Counts
  <2>2. writes \in Nat /\ writes <= 1 + mints + saves /\ (Unwritten => writes <= mints + saves) /\ store.stamp <= writes
    BY <1>1 DEF StampsBounded
  <2>3. mints <= mints'
    BY DEF Booting
  <2>4. writes <= 1 + mints' + saves
    BY <2>1, <2>2, <2>3, MoreRoom
  <2>5. ASSUME Unwritten' PROVE writes <= mints' + saves
    <3>1. Unwritten \/ mints < mints'
      BY <1>1, <1>2, <2>5 DEF Unwritten, Booting
    <3> QED BY <2>1, <2>2, <2>3, <3>1, MoreRoom
  <2> QED BY <1>2, <2>2, <2>4, <2>5 DEF StampsBounded
<1> QED BY <1>3, <1>4, <1>5, <1>6, <1>7 DEF TokenInv

(* Every write but the operator's: of a mint, stamped, with its record. *)
LEMMA MintedWrite ==
    ASSUME To!Bounded, TokenInv, NEW t \in To!Tokens, To!writeTokenPair(t, To!IdentityKey, "mint"), Unwritten,
           mints' = mints, saves' = saves
    PROVE  /\ store' \in To!States /\ owner' = "mint" /\ store'.idn # 0 /\ writes' = writes + 1
           /\ writes' \in Nat /\ store'.stamp <= writes' /\ writes' <= 1 + mints' + saves'
<1>1. MaxMints \in Nat /\ MaxSaves \in Nat /\ mints \in Nat /\ saves \in Nat
  BY Bounds, Counts DEF TokenInv
<1>2. writes \in Nat /\ writes <= mints + saves /\ mints \in 0..MaxMints /\ saves \in 0..MaxSaves
  BY DEF TokenInv, StampsBounded, To!TypeOK
<1>3. writes + 1 <= 1 + mints + saves
  BY <1>1, <1>2, MoreRoom
<1>4. writes + 1 \in 0..(MaxMints + MaxSaves + 1)
  BY <1>1, <1>2
<1>5. store' = [tok |-> t, idn |-> 1, stamp |-> writes + 1] /\ owner' = "mint" /\ writes' = writes + 1
  BY DEF To!writeTokenPair, To!Written, To!IdentityKey
<1>6. store' \in To!States
  BY <1>4, <1>5 DEF To!States
<1>7. writes + 1 \in Nat /\ writes + 1 <= writes + 1
  BY <1>2
<1>8. store'.stamp = writes + 1 /\ store'.idn = 1
  BY <1>5
<1> QED BY <1>3, <1>5, <1>6, <1>7, <1>8

LEMMA StartsKeep ==
    ASSUME To!Bounded, TokenInv,
           (\E supplied \in BOOLEAN : To!Start(supplied)) \/ To!Resolve \/ To!Identify \/ To!Legacy \/ To!BootMint
    PROVE  TokenInv'
<1>0. MaxMints \in Nat /\ mints \in Nat /\ MaxStarts \in Nat
  BY Bounds, Counts DEF TokenInv
<1>1. SUFFICES Booting
  BY BootingKeeps
<1>2. /\ store \in To!States /\ sv \in To!ServeStates /\ mints \in 0..MaxMints /\ starts \in 0..MaxStarts
      /\ sv.legacy \in To!States /\ store.tok \in To!Tokens /\ sv.legacy.stamp = 0
  BY DEF TokenInv, To!TypeOK, To!ServeStates, To!States, Judged
<1>3. To!NoState \in To!States /\ To!NoState.stamp = 0
  BY Blanks
<1>4. To!Off \in To!ServeStates /\ To!Off.legacy = To!NoState
  <2>1. 0 \in To!Tokens
    BY <1>0 DEF To!Tokens
  <2>2. To!Off = [pc |-> "down", tok |-> 0, renewer |-> FALSE, legacy |-> To!NoState]
    BY Blanks
  <2> QED BY <1>3, <2>1, <2>2 DEF To!ServeStates
<1>5. starts \in 0..MaxStarts /\ mints \in 0..MaxMints /\ mints <= mints
  BY <1>0, <1>2
<1>6. ASSUME NEW supplied \in BOOLEAN, To!Start(supplied) PROVE Booting
  <2>1. starts' \in 0..MaxStarts
    <3>1. starts < MaxStarts /\ starts' = starts + 1
      BY <1>6 DEF To!Start
    <3> QED BY <1>0, <1>2, <3>1
  <2>2. 2 \in To!Tokens
    BY <1>0 DEF To!Tokens
  <2>3. CASE sv' = [To!Off EXCEPT !.pc = "up", !.tok = 2]
    <3>1. sv' \in To!ServeStates /\ sv'.legacy = To!Off.legacy /\ sv'.pc = "up"
      BY <1>4, <2>2, <2>3 DEF To!ServeStates
    <3> QED BY <1>3, <1>4, <1>5, <1>6, <2>1, <3>1 DEF To!Start, Booting
  <2>4. CASE sv' = [To!Off EXCEPT !.pc = "resolve"]
    <3>1. sv' \in To!ServeStates /\ sv'.legacy = To!Off.legacy /\ sv'.pc = "resolve"
      BY <1>4, <2>4 DEF To!ServeStates
    <3> QED BY <1>3, <1>4, <1>5, <1>6, <2>1, <3>1 DEF To!Start, Booting
  <2> QED BY <1>6, <2>3, <2>4 DEF To!Start
<1>7. CASE To!Resolve
  <2>1. CASE sv' = [sv EXCEPT !.pc = "minting"]
    <3>1. sv' \in To!ServeStates /\ sv'.legacy = sv.legacy /\ sv'.pc = "minting"
      BY <1>2, <2>1 DEF To!ServeStates
    <3> QED BY <1>2, <1>5, <1>7, <3>1 DEF To!Resolve, Booting
  <2>2. CASE sv' = [sv EXCEPT !.pc = "identify", !.tok = store.tok]
    <3>1. sv' \in To!ServeStates /\ sv'.legacy = sv.legacy /\ sv'.pc = "identify"
      BY <1>2, <2>2 DEF To!ServeStates
    <3> QED BY <1>2, <1>5, <1>7, <3>1 DEF To!Resolve, Booting
  <2> QED BY <1>7, <2>1, <2>2 DEF To!Resolve
<1>8. CASE To!Identify
  <2>1. CASE sv' = [sv EXCEPT !.pc = "legacy", !.renewer = TRUE]
    <3>1. sv' \in To!ServeStates /\ sv'.legacy = sv.legacy /\ sv'.pc = "legacy"
      BY <1>2, <2>1 DEF To!ServeStates
    <3> QED BY <1>2, <1>5, <1>8, <3>1 DEF To!Identify, Booting
  <2>2. CASE sv' = [sv EXCEPT !.pc = "minting", !.tok = To!NoToken]
    <3>1. To!NoToken \in To!Tokens
      BY <1>0 DEF To!Tokens, To!NoToken
    <3>2. sv' \in To!ServeStates /\ sv'.legacy = sv.legacy /\ sv'.pc = "minting"
      BY <1>2, <2>2, <3>1 DEF To!ServeStates
    <3> QED BY <1>2, <1>5, <1>8, <3>2 DEF To!Identify, Booting
  <2> QED BY <1>8, <2>1, <2>2 DEF To!Identify
<1>9. CASE To!Legacy
  <2> DEFINE kept == IF store.tok = sv.tok /\ store.idn = 0 /\ store.stamp = 0 THEN store ELSE To!NoState
  <2>1. kept \in To!States /\ kept.stamp = 0
    BY <1>2, <1>3
  <2>2. sv' = [sv EXCEPT !.pc = "up", !.legacy = kept]
    BY <1>9 DEF To!Legacy
  <2> HIDE DEF kept
  <2>3. sv' \in To!ServeStates /\ sv'.legacy = kept /\ sv'.pc = "up"
    BY <1>2, <2>1, <2>2 DEF To!ServeStates
  <2> QED BY <1>5, <1>9, <2>1, <2>3 DEF To!Legacy, Booting
<1>10. CASE To!BootMint
  <2>1. CASE mints < MaxMints /\ mints' = mints + 1 /\ sv' = [sv EXCEPT !.pc = "persist", !.tok = 4 + mints]
    <3>1. mints < MaxMints /\ mints' = mints + 1
      BY <2>1
    <3>2. mints' \in 0..MaxMints /\ mints <= mints' /\ mints < mints'
      BY <1>0, <3>1
    <3>3. 4 + mints \in To!Tokens
      BY <1>0, <3>1 DEF To!Tokens
    <3>4. sv' \in To!ServeStates /\ sv'.legacy = sv.legacy /\ sv'.pc = "persist"
      BY <1>2, <2>1, <3>3 DEF To!ServeStates
    <3> QED BY <1>2, <1>5, <1>10, <3>2, <3>4 DEF To!BootMint, Booting
  <2>2. CASE sv' = [sv EXCEPT !.pc = "drop"] /\ mints' = mints
    <3>1. sv' \in To!ServeStates /\ sv'.legacy = sv.legacy /\ sv'.pc = "drop"
      BY <1>2, <2>2 DEF To!ServeStates
    <3> QED BY <1>2, <1>5, <1>10, <2>2, <3>1 DEF To!BootMint, Booting
  <2> QED BY <1>10, <2>1, <2>2 DEF To!BootMint
<1> QED BY <1>6, <1>7, <1>8, <1>9, <1>10

LEMMA PersistKeeps == ASSUME To!Bounded, TokenInv, To!persistMintedToken PROVE TokenInv'
<1>1. To!TypeOK /\ StampsBounded /\ sv \in To!ServeStates /\ sv.tok \in To!Tokens /\ sv.legacy.stamp = 0
  BY DEF TokenInv, To!TypeOK, To!ServeStates, Judged
<1>2. /\ sv.pc = "persist" /\ sv' = [sv EXCEPT !.pc = "up", !.renewer = TRUE]
      /\ lk' = lk /\ renewMu' = renewMu /\ dead' = dead /\ mints' = mints /\ saves' = saves /\ starts' = starts
  BY DEF To!persistMintedToken
<1>3. sv' \in To!ServeStates /\ sv'.legacy = sv.legacy /\ sv'.pc = "up"
  BY <1>1, <1>2 DEF To!ServeStates
<1>4. CASE UNCHANGED <<store, owner, writes>>
  <2>1. mints' \in 0..MaxMints /\ starts' \in 0..MaxStarts
    BY <1>1, <1>2 DEF To!TypeOK
  <2>2. mints \in Nat /\ mints <= mints
    <3>1. mints \in Nat
      BY <1>1, Counts
    <3> QED BY <3>1
  <2>3. Booting
    BY <1>1, <1>2, <1>3, <1>4, <2>1, <2>2 DEF Booting
  <2> QED BY <2>3, BootingKeeps
<1>5. CASE To!writeTokenPair(sv.tok, To!IdentityKey, "mint")
  <2>1. Unwritten
    BY <1>2 DEF Unwritten
  <2>2. /\ store' \in To!States /\ owner' = "mint" /\ store'.idn # 0
        /\ writes' \in Nat /\ store'.stamp <= writes' /\ writes' <= 1 + mints' + saves'
    BY <1>1, <1>2, <1>5, <2>1, MintedWrite
  <2>3. \A l \in TokenLookups : lk[l].pc = "idle"
    BY <1>2 DEF TokenInv, Alone
  <2>4. To!TypeOK'
    BY <1>1, <1>2, <1>3, <2>2 DEF To!TypeOK
  <2>5. StampsBounded'
    <3>1. ~Unwritten'
      BY <1>2, <1>3, <2>3 DEF Unwritten
    <3> QED BY <2>2, <3>1 DEF StampsBounded
  <2>6. OneRenewal'
    BY <1>2 DEF TokenInv, OneRenewal
  <2>7. Alone' /\ Owned' /\ Dropping' /\ To!RecordMeansMinted'
    BY <1>2, <1>3, <2>2 DEF Alone, Owned, Dropping, To!RecordMeansMinted
  <2>8. Judged'
    BY <1>1, <1>2, <1>3, <2>3 DEF Judged
  <2> QED BY <2>4, <2>5, <2>6, <2>7, <2>8 DEF TokenInv
<1> QED BY <1>4, <1>5 DEF To!persistMintedToken

LEMMA DropKeeps == ASSUME To!Bounded, TokenInv, To!dropDegenerateStoredToken PROVE TokenInv'
<1>1. /\ To!TypeOK /\ StampsBounded /\ store \in To!States /\ sv \in To!ServeStates /\ sv.legacy.stamp = 0
      /\ mints \in 0..MaxMints /\ starts \in 0..MaxStarts
  BY DEF TokenInv, To!TypeOK, Judged
<1>2. /\ lk' = lk /\ renewMu' = renewMu /\ dead' = dead /\ mints' = mints /\ saves' = saves /\ starts' = starts
      /\ writes' = writes /\ sv.pc \in {"drop", "deleting", "dropping"}
  BY DEF To!dropDegenerateStoredToken
<1>3. \A l \in TokenLookups : lk[l].pc = "idle"
  BY <1>2 DEF TokenInv, Alone
<1>4. mints <= mints
  <2>1. mints \in Nat
    BY <1>1, Counts
  <2> QED BY <2>1
<1>5. CASE UNCHANGED <<store, owner>> /\ sv' = [sv EXCEPT !.pc = "up", !.renewer = TRUE]
  <2>1. sv' \in To!ServeStates /\ sv'.legacy = sv.legacy /\ sv'.pc = "up"
    BY <1>1, <1>5 DEF To!ServeStates
  <2>2. Booting
    BY <1>1, <1>2, <1>4, <1>5, <2>1 DEF Booting
  <2> QED BY <2>2, BootingKeeps
<1>6. CASE UNCHANGED <<store, owner>> /\ sv' = [sv EXCEPT !.pc = "deleting"]
  <2>1. sv' \in To!ServeStates /\ sv'.legacy = sv.legacy /\ sv'.pc = "deleting"
    BY <1>1, <1>6 DEF To!ServeStates
  <2>2. Booting
    BY <1>1, <1>2, <1>4, <1>6, <2>1 DEF Booting
  <2> QED BY <2>2, BootingKeeps
<1>7. ASSUME store' \in To!States, store'.stamp = store.stamp, sv' \in To!ServeStates, sv'.legacy = sv.legacy,
             sv'.pc \in {"dropping", "up"}, owner' \in {"nobody", "old", "mint", "op"},
             Dropping', Owned', To!RecordMeansMinted'
      PROVE  TokenInv'
  <2>1. To!TypeOK'
    BY <1>1, <1>2, <1>7 DEF To!TypeOK
  <2>2. StampsBounded'
    <3>1. ~Unwritten'
      BY <1>2, <1>3, <1>7 DEF Unwritten
    <3> QED BY <1>1, <1>2, <1>7, <3>1 DEF StampsBounded
  <2>3. OneRenewal' /\ Alone'
    BY <1>2, <1>3 DEF TokenInv, OneRenewal, Alone
  <2>4. Judged'
    BY <1>1, <1>2, <1>3, <1>7 DEF Judged
  <2> QED BY <1>7, <2>1, <2>2, <2>3, <2>4 DEF TokenInv
<1>8. CASE /\ sv.pc = "deleting" /\ sv' = [sv EXCEPT !.pc = "dropping"]
           /\ store' = [store EXCEPT !.tok = To!NoToken] /\ owner' = "nobody"
  <2>1. To!NoToken \in To!Tokens
    <3>1. MaxMints \in Nat
      BY Bounds
    <3> QED BY <3>1 DEF To!NoToken, To!Tokens
  <2>2. store' \in To!States /\ store'.stamp = store.stamp /\ store'.tok = To!NoToken
    BY <1>1, <1>8, <2>1 DEF To!States
  <2>3. sv' \in To!ServeStates /\ sv'.legacy = sv.legacy /\ sv'.pc = "dropping"
    BY <1>1, <1>8 DEF To!ServeStates
  <2> QED BY <1>7, <1>8, <2>2, <2>3 DEF Dropping, Owned, To!RecordMeansMinted
<1>9. CASE /\ sv.pc = "dropping" /\ sv' = [sv EXCEPT !.pc = "up", !.renewer = TRUE]
           /\ store' = [store EXCEPT !.idn = 0] /\ owner' = owner
  <2>1. store' \in To!States /\ store'.stamp = store.stamp /\ store'.tok = store.tok /\ store'.idn = 0
    BY <1>1, <1>9 DEF To!States
  <2>2. sv' \in To!ServeStates /\ sv'.legacy = sv.legacy /\ sv'.pc = "up"
    BY <1>1, <1>9 DEF To!ServeStates
  <2>3. store.tok = To!NoToken \/ owner # "mint"
    BY <1>9 DEF TokenInv, Dropping
  <2>4. Owned' /\ To!RecordMeansMinted' /\ Dropping'
    BY <1>9, <2>1, <2>2, <2>3 DEF TokenInv, Owned, To!RecordMeansMinted, Dropping
  <2>5. owner \in {"nobody", "old", "mint", "op"}
    BY <1>1 DEF To!TypeOK
  <2> QED BY <1>7, <1>9, <2>1, <2>2, <2>4, <2>5
<1> QED BY <1>5, <1>6, <1>8, <1>9 DEF To!dropDegenerateStoredToken

LEMMA StopKeeps == ASSUME To!Bounded, TokenInv, To!Stop PROVE TokenInv'
<1>1. To!TypeOK /\ StampsBounded
  BY DEF TokenInv
<1>2. /\ lk' = [l \in TokenLookups |-> To!NoLookup] /\ renewMu' = "" /\ sv' = To!Off
      /\ store' = store /\ owner' = owner /\ dead' = dead /\ mints' = mints /\ saves' = saves
      /\ starts' = starts /\ writes' = writes
  BY DEF To!Stop
<1>3. To!NoLookup \in To!LookupStates /\ To!NoLookup.pc = "idle"
  BY Blanks
<1>4. lk' \in [TokenLookups -> To!LookupStates] /\ \A l \in TokenLookups : lk'[l].pc = "idle"
  BY <1>2, <1>3
<1>5. To!Off \in To!ServeStates /\ To!Off.legacy.stamp = 0 /\ To!Off.pc = "down"
  <2>1. 0 \in To!Tokens
    <3>1. MaxMints \in Nat
      BY Bounds
    <3> QED BY <3>1 DEF To!Tokens
  <2>2. /\ To!Off = [pc |-> "down", tok |-> 0, renewer |-> FALSE, legacy |-> To!NoState]
        /\ To!NoState \in To!States /\ To!NoState.stamp = 0
    BY Blanks
  <2> QED BY <2>1, <2>2 DEF To!ServeStates
<1>6. To!TypeOK'
  BY <1>1, <1>2, <1>4, <1>5 DEF To!TypeOK
<1>7. StampsBounded'
  <2>1. ~Unwritten'
    BY <1>2, <1>4, <1>5 DEF Unwritten
  <2> QED BY <1>1, <1>2, <2>1 DEF StampsBounded
<1>8. OneRenewal' /\ Alone' /\ Judged'
  BY <1>2, <1>4, <1>5 DEF OneRenewal, Renewing, Alone, Judged, To!Bounded
<1>9. Owned' /\ Dropping' /\ To!RecordMeansMinted'
  BY <1>2, <1>5 DEF TokenInv, Owned, Dropping, To!RecordMeansMinted
<1> QED BY <1>6, <1>7, <1>8, <1>9 DEF TokenInv

LEMMA ExpireKeeps == ASSUME To!Bounded, TokenInv, To!Expire PROVE TokenInv'
<1>1. To!TypeOK /\ sv.tok \in To!Tokens
  BY DEF TokenInv, To!TypeOK, To!ServeStates
<1>2. /\ dead' = dead \cup {sv.tok} /\ store' = store /\ owner' = owner /\ sv' = sv /\ lk' = lk
      /\ renewMu' = renewMu /\ mints' = mints /\ saves' = saves /\ starts' = starts /\ writes' = writes
  BY DEF To!Expire
<1>3. To!TypeOK'
  BY <1>1, <1>2 DEF To!TypeOK
<1>4. OneRenewal' /\ Alone' /\ Judged' /\ Owned' /\ Dropping' /\ To!RecordMeansMinted'
  BY <1>2 DEF TokenInv, OneRenewal, Alone, Judged, To!operatorStored, Owned, Dropping, To!RecordMeansMinted
<1>5. StampsBounded'
  BY <1>2 DEF TokenInv, StampsBounded, Unwritten
<1> QED BY <1>3, <1>4, <1>5 DEF TokenInv

(* What a renewal writes over was judged before its mint and is stored     *)
(* unchanged: it has a record, or is the legacy state, which has no stamp. *)
LEMMA CommitSpares ==
    ASSUME TokenInv, NEW l \in TokenLookups, lk[l].pc = "commit", To!UnchangedSince(lk[l].snap)
    PROVE  owner # "op"
<1>1. ~To!operatorStored(store) /\ sv.legacy.stamp = 0
  BY DEF TokenInv, Judged, To!UnchangedSince
<1>2. owner = "op" => store = sv.legacy
  BY <1>1 DEF TokenInv, Owned, To!operatorStored
<1> QED BY <1>1, <1>2 DEF TokenInv, Owned

LEMMA CommitKeeps == ASSUME To!Bounded, TokenInv, NEW l \in TokenLookups, To!Commit(l) PROVE TokenInv'
<1>1. /\ To!TypeOK /\ StampsBounded /\ store \in To!States /\ sv \in To!ServeStates /\ lk \in [TokenLookups -> To!LookupStates]
      /\ lk[l] \in To!LookupStates /\ lk[l].tok \in To!Tokens /\ sv.legacy.stamp = 0
  BY DEF TokenInv, To!TypeOK, To!LookupStates, Judged
<1>2. /\ lk[l].pc = "commit" /\ renewMu' = "" /\ dead' = dead /\ mints' = mints /\ saves' = saves
      /\ starts' = starts
  BY DEF To!Commit, To!Released
<1>3. renewMu = l /\ Unwritten /\ \A m \in TokenLookups : m # l => lk[m].pc \notin Renewing
  BY <1>2 DEF TokenInv, OneRenewal, Renewing, Unwritten
<1>4. Moves(l) /\ lk'[l].pc \in {"sent", "idle"}
  <2>1. CASE lk' = [lk EXCEPT ![l] = To!Resent(l, lk[l].tok)]
    BY <1>1, <2>1, Sending DEF Moves
  <2>2. CASE lk' = [lk EXCEPT ![l] = To!NoLookup]
    BY <1>1, <2>2, Blanks DEF Moves
  <2> QED BY <2>1, <2>2 DEF To!Commit, To!CommitOutcome
<1>5. sv.pc = "up"
  BY <1>2 DEF TokenInv, Alone
<1>6. sv' \in To!ServeStates /\ sv'.legacy = sv.legacy /\ sv'.pc = "up"
  <2>1. CASE sv' = [sv EXCEPT !.tok = lk[l].tok]
    BY <1>1, <1>5, <2>1 DEF To!ServeStates
  <2>2. CASE sv' = sv
    BY <1>1, <1>5, <2>2
  <2> QED BY <2>1, <2>2 DEF To!Commit, To!CommitOutcome
<1>7. /\ store' \in To!States /\ owner' \in {"nobody", "old", "mint", "op"} /\ writes' \in Nat
      /\ store'.stamp <= writes' /\ writes' <= 1 + mints' + saves' /\ Owned' /\ To!RecordMeansMinted'
  <2>1. CASE To!writeTokenPair(lk[l].tok, To!IdentityKey, "mint")
    <3>1. /\ store' \in To!States /\ owner' = "mint" /\ store'.idn # 0
          /\ writes' \in Nat /\ store'.stamp <= writes' /\ writes' <= 1 + mints' + saves'
      BY <1>1, <1>2, <1>3, <2>1, MintedWrite
    <3> QED BY <3>1 DEF Owned, To!RecordMeansMinted
  <2>2. CASE UNCHANGED <<store, owner, writes>>
    <3>1. Owned' /\ To!RecordMeansMinted'
      BY <2>2 DEF TokenInv, Owned, To!RecordMeansMinted
    <3>2. /\ writes \in Nat /\ store.stamp <= writes /\ writes <= 1 + mints + saves
          /\ owner \in {"nobody", "old", "mint", "op"}
      BY <1>1 DEF StampsBounded, To!TypeOK
    <3> QED BY <1>1, <1>2, <2>2, <3>1, <3>2
  <2> QED BY <2>1, <2>2 DEF To!Commit, To!CommitOutcome
<1>8. lk' \in [TokenLookups -> To!LookupStates] /\ \A m \in TokenLookups : lk'[m].pc \notin Renewing
  BY <1>3, <1>4 DEF Moves, Renewing
<1>9. To!TypeOK'
  BY <1>1, <1>2, <1>6, <1>7, <1>8 DEF To!TypeOK
<1>10. StampsBounded'
  <2>1. ~Unwritten'
    BY <1>6, <1>8 DEF Unwritten, Renewing
  <2> QED BY <1>7, <2>1 DEF StampsBounded
<1>11. OneRenewal' /\ Judged'
  BY <1>1, <1>2, <1>6, <1>8 DEF OneRenewal, Judged, Renewing, To!Bounded
<1>12. Alone' /\ Dropping'
  BY <1>6 DEF Alone, Dropping
<1> QED BY <1>7, <1>9, <1>10, <1>11, <1>12 DEF TokenInv

(* Every step of the specification keeps the invariant. *)
LEMMA TokenStep == ASSUME To!Bounded, TokenInv, [To!Next]_To!vars PROVE TokenInv'
<1>1. CASE To!Next
  <2>1. ASSUME NEW t \in To!Operators, To!OperatorSave(t) PROVE TokenInv'
    BY <2>1, SaveKeeps
  <2>2. ASSUME NEW l \in TokenLookups, To!Send(l) \/ To!Step(l) PROVE TokenInv'
    BY <2>2, LookupsKeep, CommitKeeps DEF To!Step
  <2>3. CASE To!Boot \/ \E supplied \in BOOLEAN : To!Start(supplied)
    BY <2>3, StartsKeep, PersistKeeps, DropKeeps DEF To!Boot
  <2>4. CASE To!Stop \/ To!Expire
    BY <2>4, StopKeeps, ExpireKeeps
  <2> QED BY <1>1, <2>1, <2>2, <2>3, <2>4 DEF To!Next
<1>2. CASE UNCHANGED To!vars
  <2>1. /\ store' = store /\ owner' = owner /\ sv' = sv /\ lk' = lk /\ renewMu' = renewMu /\ dead' = dead
        /\ mints' = mints /\ saves' = saves /\ starts' = starts /\ writes' = writes
    BY <1>2 DEF To!vars
  <2>2. To!TypeOK'
    BY <2>1 DEF TokenInv, To!TypeOK
  <2>3. OneRenewal' /\ Alone' /\ Judged' /\ Owned' /\ Dropping' /\ To!RecordMeansMinted'
    BY <2>1 DEF TokenInv, OneRenewal, Alone, Judged, To!operatorStored, Owned, Dropping, To!RecordMeansMinted
  <2>4. StampsBounded'
    BY <2>1 DEF TokenInv, StampsBounded, Unwritten
  <2> QED BY <2>2, <2>3, <2>4 DEF TokenInv
<1> QED BY <1>1, <1>2

LEMMA TokenHolds == ASSUME To!Bounded PROVE To!Spec => []TokenInv
<1>1. To!Init => TokenInv
  BY TokenInit
<1>2. TokenInv /\ [To!Next]_To!vars => TokenInv'
  BY TokenStep
<1> QED BY <1>1, <1>2, PTL DEF To!Spec
----------------------------------------------------------------------------
(* The client-identity record always describes exactly a minted token,     *)
(* however starts, renewals, failures and the operator's saves interleave  *)
(* (store.go's writeTokenPair, token_bootstrap.go's two deletes).          *)
THEOREM TokenRecordMeansMinted == ASSUME To!Bounded PROVE To!Spec => []To!RecordMeansMinted
<1>1. TokenInv => To!RecordMeansMinted
  BY DEF TokenInv
<1> QED BY <1>1, TokenHolds, PTL

(* Every value stays in its type: stamps and tokens within their bounds,   *)
(* whatever the bounds are.                                                *)
THEOREM TokenTypes == ASSUME To!Bounded PROVE To!Spec => []To!TypeOK
<1>1. TokenInv => To!TypeOK
  BY DEF TokenInv
<1> QED BY <1>1, TokenHolds, PTL

(* client.go's renewMu: at most one lookup renews, none holds the lock     *)
(* outside a renewal and none leaves one without giving it up.             *)
THEOREM TokenOneRenewal == ASSUME To!Bounded PROVE To!Spec => []OneRenewal
<1>1. TokenInv => OneRenewal
  BY DEF TokenInv
<1> QED BY <1>1, TokenHolds, PTL

(* A renewal never takes a token the operator saved, whenever the save     *)
(* lands between its three reads, its mint and its write: the state        *)
(* compared on commit is one the renewal had judged, and the operator's    *)
(* differs from every such state in its record or its stamp.               *)
THEOREM TokenSparesOperator == ASSUME To!Bounded PROVE To!Spec => [][To!RenewalSparesOperator]_To!vars
<1>1. ASSUME TokenInv, [To!Next]_To!vars PROVE [To!RenewalSparesOperator]_To!vars
  <2>1. SUFFICES ASSUME To!Next, owner = "op", owner' # "op", sv.pc \notin {"persist", "deleting"} PROVE FALSE
    BY <1>1 DEF To!RenewalSparesOperator
  <2>2. ASSUME NEW l \in TokenLookups, To!Commit(l) PROVE FALSE
    <3>1. To!UnchangedSince(lk[l].snap) /\ lk[l].pc = "commit"
      BY <2>1, <2>2 DEF To!Commit, To!CommitOutcome
    <3> QED BY <1>1, <2>1, <3>1, CommitSpares
  <2>3. ASSUME NEW t \in To!Operators, To!OperatorSave(t) PROVE FALSE
    BY <2>1, <2>3 DEF To!OperatorSave, To!writeTokenPair
  <2>4. ASSUME NEW l \in TokenLookups, To!Send(l) \/ (To!Step(l) /\ ~To!Commit(l)) PROVE FALSE
    BY <2>1, <2>4 DEF To!Send, To!Step, To!Answer, To!ReadStale, To!Lock, To!ReadIdentity, To!ReadStamp, To!Refuse, To!BeginMint, To!Mint
  <2>5. CASE To!Boot \/ To!Stop \/ To!Expire \/ \E supplied \in BOOLEAN : To!Start(supplied)
    BY <2>1, <2>5 DEF To!Boot, To!Stop, To!Expire, To!Start, To!Resolve, To!Identify, To!Legacy, To!BootMint, To!persistMintedToken,
                      To!dropDegenerateStoredToken
  <2> QED BY <2>1, <2>2, <2>3, <2>4, <2>5 DEF To!Next
<1> QED BY <1>1, TokenHolds, PTL DEF To!Spec

-----------------------------------------------------------------------------
(* The pacers (Pacer). *)

(* The bounds are numbers, an interval is one that a duration can hold, and *)
(* a power of two is no less than one (a fact of arithmetic for which the   *)
(* provers have no rule).                                                   *)
PacerConfigured ==
    /\ Pa!MaxDur \in Nat /\ \A b \in Bases : b \in Nat /\ b <= Pa!MaxDur
    /\ adaptiveMaxLevel \in Nat /\ adaptiveSuccessThreshold \in Nat \ {0}
    /\ adaptiveDecayInterval \in Nat \ {0} /\ MaxNow \in Nat \ {0}
    /\ \A l \in 0..adaptiveMaxLevel : 2^l \in Nat \ {0}

CallerStates == [pc : {"idle", "sleeping"}, slot : Nat, prev : Nat]

PacerTypes ==
    /\ kind \in {"slots", "loop"} /\ base \in Bases /\ last \in Nat /\ taken \subseteq Nat
    /\ level \in 0..adaptiveMaxLevel /\ streak \in 0..(adaptiveSuccessThreshold - 1)
    /\ caller \in [Callers -> CallerStates]
    /\ \A c \in Callers : caller[c].prev <= caller[c].slot

(* The clocks: the last change of the level is no later than now and no     *)
(* earlier than the last throttle.                                          *)
Clocks == /\ now \in 1..MaxNow /\ changed \in Nat /\ throttled \in Nat
          /\ throttled <= changed /\ changed <= now

(* The last request is the latest slot taken; a sleeper holds a slot of its *)
(* own, and no slot was taken between it and the one before.                *)
Sleeps(c) == caller[c].pc = "sleeping"
Reserved ==
    /\ \A t \in taken : t <= last
    /\ \A c \in Callers : Sleeps(c) =>
          /\ caller[c].slot \in taken
          /\ \A t \in taken : t >= caller[c].slot \/ t <= caller[c].prev
    /\ \A c, e \in Callers : Sleeps(c) /\ Sleeps(e) /\ caller[c].slot = caller[e].slot => c = e

PacerInv == PacerTypes /\ Clocks /\ Pa!SlotsSpaced /\ (base > 0 => Reserved)

(* Doubling never makes the interval shorter, saturated or not.             *)
LEMMA IntervalGrows ==
    ASSUME PacerConfigured, NEW d \in Bases, NEW l \in 0..adaptiveMaxLevel
    PROVE  Pa!effectiveInterval(d, l) \in Nat /\ Pa!effectiveInterval(d, l) >= d
<1>1. d \in Nat /\ d <= Pa!MaxDur /\ Pa!MaxDur \in Nat /\ 2^l \in Nat \ {0}
  BY DEF PacerConfigured
<1>2. \A a \in Nat, p \in Nat \ {0} : a * p \in Nat /\ a * p >= a
  OBVIOUS
<1>3. d * 2^l \in Nat /\ d * 2^l >= d
  BY <1>1, <1>2
<1> QED BY <1>1, <1>3 DEF Pa!effectiveInterval

(* Decaying takes no more levels than quiet intervals have passed.          *)
LEMMA Decays ==
    ASSUME PacerConfigured, PacerTypes, Clocks
    PROVE  /\ Pa!decayedLevel.level \in 0..level
           /\ Pa!decayedLevel.changed \in Nat /\ changed <= Pa!decayedLevel.changed /\ Pa!decayedLevel.changed <= now
           /\ Pa!decayedLevel.level < level => now - changed >= adaptiveDecayInterval
<1> DEFINE I == adaptiveDecayInterval
           n == (now - changed) \div I
           s == Pa!decaySteps
<1>1. I \in Nat /\ I # 0 /\ now \in Nat /\ changed \in Nat /\ now - changed \in Nat /\ level \in Nat
  BY DEF PacerConfigured, Clocks, PacerTypes
<1>2. \A a \in Nat, k \in Nat : k # 0 => a \div k \in Nat /\ (a \div k) * k <= a
  OBVIOUS
<1>3. n \in Nat /\ n * I <= now - changed
  BY <1>1, <1>2
<1>4. \A a, b, k \in Nat : a <= b => a * k \in Nat /\ a * k <= b * k
  OBVIOUS
<1>5. s \in Nat /\ s <= level /\ s <= n
  BY <1>1, <1>3 DEF Pa!decaySteps
<1>6. s * I \in Nat /\ s * I <= now - changed
  BY <1>1, <1>3, <1>4, <1>5
<1>7. ASSUME s > 0 PROVE now - changed >= I
  <2>1. 1 * I <= s * I
    BY <1>1, <1>4, <1>5, <1>7
  <2> QED BY <1>1, <1>6, <2>1
<1> HIDE DEF s, I
<1>8. Pa!decayedLevel.level = level - s /\ Pa!decayedLevel.changed = changed + s * I
  BY DEF Pa!decayedLevel, s, I
<1>9. I = adaptiveDecayInterval
  BY DEF I
<1> QED BY <1>1, <1>5, <1>6, <1>7, <1>8, <1>9

LEMMA PacerInit == ASSUME PacerConfigured PROVE Pa!Init => PacerInv
BY DEF Pa!Init, Pa!NoWait, PacerConfigured, PacerInv, PacerTypes, CallerStates, Clocks, Pa!SlotsSpaced, Reserved, Sleeps

LEMMA ReserveKeeps ==
    ASSUME PacerConfigured, PacerInv, NEW c \in Callers, Pa!Reserve(c)
    PROVE  PacerInv'
<1> DEFINE s == Pa!NextSlot
           r == IF s > now THEN [pc |-> "sleeping", slot |-> s, prev |-> last] ELSE Pa!NoWait
<1>1. PacerTypes /\ Clocks /\ Pa!SlotsSpaced /\ (base > 0 => Reserved)
  BY DEF PacerInv
<1>2. Pa!decayedLevel.level \in 0..level /\ level \in 0..adaptiveMaxLevel /\ adaptiveMaxLevel \in Nat
  BY <1>1, Decays DEF PacerTypes, PacerConfigured
<1>3. s \in Nat /\ s >= last + base /\ base \in Nat /\ last \in Nat /\ now \in Nat
  <2>1. Pa!effectiveInterval(base, Pa!decayedLevel.level) \in Nat /\ Pa!effectiveInterval(base, Pa!decayedLevel.level) >= base
    BY <1>1, <1>2, IntervalGrows DEF PacerTypes
  <2>2. base \in Nat /\ last \in Nat /\ now \in Nat
    BY <1>1 DEF PacerTypes, Clocks, PacerConfigured
  <2> QED BY <2>1, <2>2 DEF Pa!NextSlot, Pa!Larger
<1> HIDE DEF s
<1>4. /\ last' = s /\ taken' = taken \cup {s} /\ caller' = [caller EXCEPT ![c] = r]
      /\ UNCHANGED <<kind, base, now, throttled>> /\ caller[c].pc = "idle"
      /\ level' = Pa!decayedLevel.level /\ changed' = Pa!decayedLevel.changed
      /\ streak' \in {0, streak}
  BY DEF Pa!Reserve, Pa!decayLocked, s
<1>5. r \in CallerStates /\ r.prev <= r.slot /\ (r.pc = "sleeping" => r.slot = s /\ r.prev = last)
  BY <1>3 DEF CallerStates, Pa!NoWait
<1> HIDE DEF r
<1>6. /\ caller' \in [Callers -> CallerStates] /\ caller'[c] = r
      /\ \A e \in Callers : e # c => caller'[e] = caller[e]
  BY <1>1, <1>4, <1>5 DEF PacerTypes
<1>7. PacerTypes'
  <2>1. streak' \in 0..(adaptiveSuccessThreshold - 1) /\ level' \in 0..adaptiveMaxLevel
    BY <1>1, <1>2, <1>4 DEF PacerTypes, PacerConfigured
  <2>2. \A e \in Callers : caller'[e].prev <= caller'[e].slot
    BY <1>1, <1>5, <1>6 DEF PacerTypes
  <2> QED BY <1>1, <1>3, <1>4, <1>6, <2>1, <2>2 DEF PacerTypes
<1>8. Clocks'
  <2>1. changed' \in Nat /\ changed <= changed' /\ changed' <= now
    BY <1>1, <1>4, Decays
  <2> QED BY <1>1, <1>4, <2>1 DEF Clocks
<1>t. taken \subseteq Nat
  BY <1>1 DEF PacerTypes
<1>9. ASSUME base > 0 PROVE Pa!SlotsSpaced' /\ Reserved'
  <2>1. \A t \in taken : t \in Nat /\ t <= last
    BY <1>1, <1>9, <1>t DEF Reserved
  <2>2. Pa!SlotsSpaced'
    BY <1>1, <1>3, <1>4, <2>1 DEF Pa!SlotsSpaced
  <2>3. \A t \in taken' : t <= last'
    BY <1>3, <1>4, <1>9, <2>1
  <2>4. \A e \in Callers : Sleeps(e)' => \/ e # c /\ Sleeps(e) /\ caller'[e] = caller[e]
                                         \/ e = c /\ caller'[e].slot = s /\ caller'[e].prev = last
    BY <1>5, <1>6 DEF Sleeps
  <2>5. \A e \in Callers : Sleeps(e)' => /\ caller'[e].slot \in taken'
                                         /\ \A t \in taken' : t >= caller'[e].slot \/ t <= caller'[e].prev
    <3> SUFFICES ASSUME NEW e \in Callers, Sleeps(e)'
                 PROVE  /\ caller'[e].slot \in taken'
                        /\ \A t \in taken' : t >= caller'[e].slot \/ t <= caller'[e].prev
      OBVIOUS
    <3>1. CASE e = c
      BY <1>3, <1>4, <2>1, <2>4, <3>1
    <3>2. CASE e # c
      <4>1. Sleeps(e) /\ caller'[e] = caller[e]
        BY <2>4, <3>2
      <4>2. /\ caller[e].slot \in taken
            /\ \A t \in taken : t >= caller[e].slot \/ t <= caller[e].prev
        BY <1>1, <1>9, <4>1 DEF Reserved
      <4>3. s >= caller[e].slot
        BY <1>3, <1>9, <2>1, <4>2
      <4> QED BY <1>4, <4>1, <4>2, <4>3
    <3> QED BY <3>1, <3>2
  <2>6. \A e, f \in Callers : Sleeps(e)' /\ Sleeps(f)' /\ caller'[e].slot = caller'[f].slot => e = f
    <3>1. \A e \in Callers : Sleeps(e) => caller[e].slot \in taken /\ caller[e].slot # s
      BY <1>1, <1>3, <1>9, <2>1 DEF Reserved
    <3> QED BY <1>1, <1>9, <2>4, <3>1 DEF Reserved
  <2> QED BY <2>2, <2>3, <2>5, <2>6 DEF Reserved
<1>10. ASSUME ~(base > 0) PROVE Pa!SlotsSpaced'
  <2>1. base = 0 /\ \A t \in taken' : t \in Nat
    BY <1>3, <1>4, <1>10, <1>t
  <2> QED BY <1>4, <2>1 DEF Pa!SlotsSpaced
<1> QED BY <1>4, <1>7, <1>8, <1>9, <1>10 DEF PacerInv

LEMMA CancelKeeps ==
    ASSUME PacerConfigured, PacerInv, NEW c \in Callers, Pa!Cancel(c)
    PROVE  PacerInv'
<1>1. PacerTypes /\ Clocks /\ Pa!SlotsSpaced /\ (base > 0 => Reserved)
  BY DEF PacerInv
<1>2. /\ last' = Pa!Restored(c) /\ taken' = taken \ {caller[c].slot} /\ caller' = [caller EXCEPT ![c] = Pa!NoWait]
      /\ UNCHANGED <<kind, base, now, level, streak, changed, throttled>> /\ Sleeps(c)
  BY DEF Pa!Cancel, Sleeps
<1>3. Pa!NoWait \in CallerStates /\ Pa!NoWait.prev <= Pa!NoWait.slot /\ Pa!NoWait.pc = "idle"
  BY DEF Pa!NoWait, CallerStates
<1>4. caller[c].slot \in Nat /\ caller[c].prev \in Nat /\ last \in Nat /\ last' \in Nat
  BY <1>1, <1>2 DEF PacerTypes, CallerStates, Pa!Restored
<1>5. /\ caller' \in [Callers -> CallerStates] /\ caller'[c] = Pa!NoWait
      /\ \A e \in Callers : e # c => caller'[e] = caller[e]
  BY <1>1, <1>2, <1>3 DEF PacerTypes
<1>6. PacerTypes'
  <2>1. \A e \in Callers : caller'[e].prev <= caller'[e].slot
    BY <1>1, <1>3, <1>5 DEF PacerTypes
  <2> QED BY <1>1, <1>2, <1>4, <1>5, <2>1 DEF PacerTypes
<1>7. Clocks'
  BY <1>1, <1>2 DEF Clocks
<1>8. Pa!SlotsSpaced'
  BY <1>1, <1>2 DEF Pa!SlotsSpaced
<1>9. ASSUME base > 0 PROVE Reserved'
  <2>1. Reserved /\ taken \subseteq Nat
    BY <1>1, <1>9 DEF PacerTypes
  <2>2. \A t \in taken' : t <= last'
    BY <1>2, <1>4, <2>1 DEF Reserved, Pa!Restored
  <2>3. \A e \in Callers : Sleeps(e)' => e # c /\ Sleeps(e) /\ caller'[e] = caller[e]
    BY <1>3, <1>5 DEF Sleeps
  <2>4. \A e \in Callers : Sleeps(e) /\ e # c => caller[e].slot # caller[c].slot
    BY <1>2, <2>1 DEF Reserved
  <2> QED BY <1>2, <2>1, <2>2, <2>3, <2>4 DEF Reserved
<1> QED BY <1>2, <1>6, <1>7, <1>8, <1>9 DEF PacerInv

LEMMA WakeKeeps ==
    ASSUME PacerConfigured, PacerInv, NEW c \in Callers, Pa!Wake(c)
    PROVE  PacerInv'
<1>1. PacerTypes /\ Clocks /\ Pa!SlotsSpaced /\ (base > 0 => Reserved)
  BY DEF PacerInv
<1>2. /\ caller' = [caller EXCEPT ![c] = Pa!NoWait]
      /\ UNCHANGED <<kind, base, now, last, level, streak, changed, taken, throttled>>
  BY DEF Pa!Wake
<1>3. Pa!NoWait \in CallerStates /\ Pa!NoWait.prev <= Pa!NoWait.slot /\ Pa!NoWait.pc = "idle"
  BY DEF Pa!NoWait, CallerStates
<1>4. /\ caller' \in [Callers -> CallerStates] /\ caller'[c] = Pa!NoWait
      /\ \A e \in Callers : e # c => caller'[e] = caller[e]
  BY <1>1, <1>2, <1>3 DEF PacerTypes
<1>5. PacerTypes'
  <2>1. \A e \in Callers : caller'[e].prev <= caller'[e].slot
    BY <1>1, <1>3, <1>4 DEF PacerTypes
  <2> QED BY <1>1, <1>2, <1>4, <2>1 DEF PacerTypes
<1>6. Clocks' /\ Pa!SlotsSpaced'
  BY <1>1, <1>2 DEF Clocks, Pa!SlotsSpaced
<1>7. \A e \in Callers : Sleeps(e)' => Sleeps(e) /\ caller'[e] = caller[e]
  BY <1>3, <1>4 DEF Sleeps
<1>8. ASSUME base > 0 PROVE Reserved'
  BY <1>1, <1>2, <1>7, <1>8 DEF Reserved
<1> QED BY <1>2, <1>5, <1>6, <1>8 DEF PacerInv

(* The loop pacers record a request when they grant it; nobody holds a slot *)
(* while asleep.                                                            *)
LoopSleepsNot == kind = "loop" => \A c \in Callers : ~Sleeps(c)

LEMMA GrantKeeps ==
    ASSUME PacerConfigured, PacerInv, LoopSleepsNot, NEW c \in Callers, Pa!GrantLoop(c)
    PROVE  PacerInv'
<1>1. PacerTypes /\ Clocks /\ Pa!SlotsSpaced /\ (base > 0 => Reserved) /\ \A e \in Callers : ~Sleeps(e)
  BY DEF PacerInv, Pa!GrantLoop, LoopSleepsNot
<1>2. /\ last' = now /\ taken' = taken \cup {now} /\ now - last >= base
      /\ UNCHANGED <<kind, base, now, level, streak, changed, caller, throttled>>
  BY DEF Pa!GrantLoop
<1>3. base \in Nat /\ last \in Nat /\ now \in Nat /\ taken \subseteq Nat
  BY <1>1 DEF PacerTypes, Clocks, PacerConfigured
<1>4. PacerTypes' /\ Clocks'
  BY <1>1, <1>2, <1>3 DEF PacerTypes, Clocks
<1>5. \A e \in Callers : ~Sleeps(e)'
  BY <1>1, <1>2 DEF Sleeps
<1>6. ASSUME base > 0 PROVE Pa!SlotsSpaced' /\ Reserved'
  <2>1. \A t \in taken : t \in Nat /\ t <= last
    BY <1>1, <1>3, <1>6 DEF Reserved
  <2>2. Pa!SlotsSpaced'
    BY <1>1, <1>2, <1>3, <2>1 DEF Pa!SlotsSpaced
  <2> QED BY <1>2, <1>3, <1>5, <1>6, <2>1, <2>2 DEF Reserved
<1>7. ASSUME ~(base > 0) PROVE Pa!SlotsSpaced'
  <2>1. base = 0 /\ \A t \in taken' : t \in Nat
    BY <1>2, <1>3, <1>7
  <2> QED BY <1>2, <2>1 DEF Pa!SlotsSpaced
<1> QED BY <1>2, <1>4, <1>6, <1>7 DEF PacerInv

LEMMA PacerStep ==
    ASSUME PacerConfigured, PacerInv, LoopSleepsNot, [Pa!Next]_Pa!vars
    PROVE  PacerInv' /\ LoopSleepsNot'
<1>1. PacerTypes /\ Clocks /\ Pa!SlotsSpaced /\ (base > 0 => Reserved)
  BY DEF PacerInv
<1>u. ASSUME UNCHANGED <<kind, base, last, caller, taken>>, Clocks',
             level' \in 0..adaptiveMaxLevel, streak' \in 0..(adaptiveSuccessThreshold - 1)
      PROVE  PacerInv' /\ LoopSleepsNot'
  <2>1. PacerTypes' /\ Pa!SlotsSpaced' /\ (base > 0 => Reserved)' /\ LoopSleepsNot'
    BY <1>1, <1>u DEF PacerTypes, Pa!SlotsSpaced, Reserved, Sleeps, LoopSleepsNot
  <2> QED BY <1>u, <2>1 DEF PacerInv
<1>2. /\ level \in Nat /\ streak \in Nat /\ adaptiveMaxLevel \in Nat
      /\ adaptiveSuccessThreshold \in Nat /\ adaptiveSuccessThreshold # 0
      /\ level <= adaptiveMaxLevel /\ now \in Nat
  BY <1>1 DEF PacerTypes, PacerConfigured, Clocks
<1>3. CASE UNCHANGED Pa!vars
  BY <1>1, <1>3, <1>u DEF Pa!vars, Clocks, PacerTypes
<1>4. CASE Pa!Tick
  <2>1. Clocks'
    BY <1>1, <1>4 DEF Pa!Tick, Clocks, PacerConfigured
  <2> QED BY <1>1, <1>4, <1>u, <2>1 DEF Pa!Tick, PacerTypes
<1>5. CASE Pa!OnThrottle
  <2>1. Clocks'
    BY <1>1, <1>5 DEF Pa!OnThrottle, Pa!ThrottleClock, Clocks
  <2>2. level' \in 0..adaptiveMaxLevel /\ streak' \in 0..(adaptiveSuccessThreshold - 1)
    BY <1>2, <1>5 DEF Pa!OnThrottle
  <2> QED BY <1>5, <1>u, <2>1, <2>2 DEF Pa!OnThrottle
<1>6. CASE Pa!OnSuccess
  <2>1. Clocks'
    BY <1>1, <1>6 DEF Pa!OnSuccess, Clocks
  <2>2. level' \in 0..adaptiveMaxLevel
    BY <1>2, <1>6 DEF Pa!OnSuccess
  <2>3. streak' \in 0..(adaptiveSuccessThreshold - 1)
    <3>1. \A a \in Nat, k \in Nat : k # 0 => a % k \in 0..(k - 1)
      OBVIOUS
    <3> QED BY <1>2, <1>6, <3>1 DEF Pa!OnSuccess
  <2> QED BY <1>6, <1>u, <2>1, <2>2, <2>3 DEF Pa!OnSuccess
<1>7. ASSUME NEW c \in Callers, Pa!Reserve(c) PROVE PacerInv' /\ LoopSleepsNot'
  BY <1>7, ReserveKeeps DEF Pa!Reserve, LoopSleepsNot
<1>8. ASSUME NEW c \in Callers, Pa!Cancel(c) PROVE PacerInv' /\ LoopSleepsNot'
  BY <1>8, CancelKeeps DEF Pa!Cancel, LoopSleepsNot
<1>9. ASSUME NEW c \in Callers, Pa!Wake(c) PROVE PacerInv' /\ LoopSleepsNot'
  BY <1>9, WakeKeeps DEF Pa!Wake, LoopSleepsNot
<1>10. ASSUME NEW c \in Callers, Pa!GrantLoop(c) PROVE PacerInv' /\ LoopSleepsNot'
  BY <1>10, GrantKeeps DEF Pa!GrantLoop, LoopSleepsNot, Sleeps
<1> QED BY <1>3, <1>4, <1>5, <1>6, <1>7, <1>8, <1>9, <1>10 DEF Pa!Next

LEMMA PacerHolds == ASSUME PacerConfigured PROVE Pa!Spec => [](PacerInv /\ LoopSleepsNot)
<1>1. Pa!Init => LoopSleepsNot
  <2>1. Pa!NoWait.pc = "idle"
    BY DEF Pa!NoWait
  <2>2. Pa!Init => \A c \in Callers : caller[c] = Pa!NoWait
    BY DEF Pa!Init
  <2> QED BY <2>1, <2>2 DEF LoopSleepsNot, Sleeps
<1> QED BY <1>1, PacerInit, PacerStep, PTL DEF Pa!Spec

(* Levels, streaks and clocks stay in range and a sleeper's slot comes      *)
(* after the one before it.                                                 *)
THEOREM PacerTypesHold == ASSUME PacerConfigured PROVE Pa!Spec => []Pa!TypeOK
<1>1. PacerInv => Pa!TypeOK
  <2> SUFFICES ASSUME PacerInv PROVE Pa!TypeOK
    OBVIOUS
  <2>1. /\ changed \in 0..MaxNow /\ throttled \in 0..MaxNow /\ now \in 1..MaxNow
    BY DEF PacerInv, Clocks, PacerConfigured
  <2>2. \A c \in Callers : caller[c].pc \in {"idle", "sleeping"} /\ caller[c].slot >= caller[c].prev
    BY DEF PacerInv, PacerTypes, CallerStates
  <2> QED BY <2>1, <2>2 DEF PacerInv, PacerTypes, Pa!TypeOK
<1> QED BY <1>1, PacerHolds, PTL

(* No two requests hold slots closer than the configured interval, however  *)
(* callers cancel around each other (the slot goes back only when it is the *)
(* last), for any callers, levels and intervals, saturated ones included.   *)
THEOREM PacerSlotsSpaced == ASSUME PacerConfigured PROVE Pa!Spec => []Pa!SlotsSpaced
BY PacerHolds, PTL DEF PacerInv

(* The level falls without a success only after a full interval without a   *)
(* throttle: decayLocked measures from the last change, which no throttle   *)
(* comes after.                                                             *)
THEOREM PacerEasesInQuiet == ASSUME PacerConfigured PROVE Pa!Spec => [][Pa!EasesOnlyInQuiet]_Pa!vars
<1>1. ASSUME PacerInv, [Pa!Next]_Pa!vars PROVE Pa!EasesOnlyInQuiet
  <2> SUFFICES ASSUME level' < level, last' # last PROVE now - throttled >= adaptiveDecayInterval
    BY DEF Pa!EasesOnlyInQuiet
  <2>1. PICK c \in Callers : Pa!Reserve(c)
    BY <1>1 DEF Pa!Next, Pa!vars, Pa!Tick, Pa!OnThrottle, Pa!OnSuccess, Pa!Wake, Pa!Cancel, Pa!GrantLoop, PacerInv, PacerTypes, PacerConfigured
  <2>2. level' = Pa!decayedLevel.level
    BY <2>1 DEF Pa!Reserve, Pa!decayLocked
  <2>3. now - changed >= adaptiveDecayInterval
    BY <1>1, <2>2, Decays DEF PacerInv
  <2> QED BY <1>1, <2>3 DEF PacerInv, Clocks, PacerConfigured
<1> QED BY <1>1, PacerHolds, PTL DEF Pa!Spec

-----------------------------------------------------------------------------
(* The outage probe (Outage). *)

LEMMA OuSize == \A S : Ou!Cardinality(S) = Cardinality(S)
BY DEF Cardinality, Ou!Cardinality, IsFiniteSet, Ou!IsFiniteSet

(* There are finitely many lookups, and it takes a miss to suspect.         *)
OutageConfigured ==
    IsFiniteSet(Probers) /\ ZeroResultThreshold \in Nat \ {0} /\ MaxFails \in Nat

LookupStates == [pc : {"idle", "asked", "suspects", "probes", "missed", "verdict", "clearing"},
                 seeded : BOOLEAN, probed : BOOLEAN]

(* The probe in flight is that of the one lookup between its check and the  *)
(* reset of probeInFlight.                                                  *)
Probes(l) == \/ pr[l].pc \in {"probes", "missed", "clearing"}
             \/ pr[l].pc = "verdict" /\ (pr[l].probed \/ pr[l].seeded)
ProbeHeld ==
    /\ \A l \in Probers : Probes(l) => probing
    /\ \A l, m \in Probers : Probes(l) /\ Probes(m) => l = m

(* The run is never longer than the misses since the last songs.            *)
OutageInv == Ou!TypeOK /\ ProbeHeld /\ zero <= misses

LEMMA RunBound ==
    ASSUME OutageConfigured
    PROVE  Ou!MaxRun \in Nat /\ Ou!MaxRun >= ZeroResultThreshold
<1>1. Cardinality(Probers) \in Nat
  BY FS_CardinalityType DEF OutageConfigured
<1> QED BY <1>1, OuSize DEF Ou!MaxRun, OutageConfigured

LEMMA OutageInit == ASSUME OutageConfigured PROVE Ou!Init => OutageInv
<1> SUFFICES ASSUME Ou!Init PROVE OutageInv
  OBVIOUS
<1>1. zero \in 0..Ou!MaxRun /\ misses \in 0..Ou!MaxRun /\ unmade \in 0..MaxFails /\ zero <= misses
  BY RunBound DEF Ou!Init, OutageConfigured
<1>2. Ou!Idle \in LookupStates /\ Ou!Idle.pc = "idle"
  BY DEF Ou!Idle, LookupStates
<1>3. Ou!TypeOK
  BY <1>1, <1>2 DEF Ou!Init, Ou!TypeOK, LookupStates
<1>4. ProbeHeld
  BY <1>2 DEF Ou!Init, ProbeHeld, Probes
<1> QED BY <1>1, <1>3, <1>4 DEF OutageInv

(* A lookup moves: it holds the probe after the step only if it did before, *)
(* or if no lookup did.                                                     *)
LEMMA ProbeMoves ==
    ASSUME OutageInv, NEW l \in Probers, NEW r \in LookupStates,
           pr' = [pr EXCEPT ![l] = r], probing' \in BOOLEAN, probing => probing',
           Probes(l)' => probing' /\ (Probes(l) \/ ~probing)
    PROVE  pr' \in [Probers -> LookupStates] /\ ProbeHeld'
<1>1. pr \in [Probers -> LookupStates]
  BY DEF OutageInv, Ou!TypeOK, LookupStates
<1>2. \A m \in Probers : m # l => (Probes(m)' <=> Probes(m))
  BY <1>1 DEF Probes
<1>3. ProbeHeld
  BY DEF OutageInv
<1> QED BY <1>1, <1>2, <1>3 DEF ProbeHeld

LEMMA OutageStep ==
    ASSUME OutageConfigured, OutageInv, [Ou!Next]_Ou!vars
    PROVE  OutageInv'
<1>1. /\ alive \in BOOLEAN /\ latched \in BOOLEAN /\ probing \in BOOLEAN
      /\ zero \in 0..Ou!MaxRun /\ misses \in 0..Ou!MaxRun /\ unmade \in 0..MaxFails /\ zero <= misses
      /\ control \in {"none", "seeded", "earned"} /\ pr \in [Probers -> LookupStates]
      /\ Ou!MaxRun \in Nat /\ MaxFails \in Nat /\ ZeroResultThreshold \in Nat \ {0} /\ Ou!MaxRun >= ZeroResultThreshold
  BY RunBound DEF OutageInv, Ou!TypeOK, LookupStates, OutageConfigured
<1>2. \A l \in Probers : pr[l] \in LookupStates /\ [pr[l] EXCEPT !.pc = "asked"] \in LookupStates
  BY <1>1 DEF LookupStates
<1>3. Ou!Idle \in LookupStates /\ Ou!Idle.pc = "idle"
  BY DEF Ou!Idle, LookupStates
<1>t. SUFFICES /\ Ou!TypeOK' /\ ProbeHeld' /\ (zero <= misses)'
  BY DEF OutageInv
<1>u. ASSUME UNCHANGED <<alive, zero, latched, control, probing, misses, unmade>>,
             pr' \in [Probers -> LookupStates], ProbeHeld'
      PROVE  Ou!TypeOK' /\ ProbeHeld' /\ (zero <= misses)'
  BY <1>1, <1>u DEF Ou!TypeOK, LookupStates
<1>4. CASE UNCHANGED Ou!vars
  BY <1>4 DEF Ou!vars, OutageInv, Ou!TypeOK, ProbeHeld, Probes
<1>5. CASE Ou!Upstream
  BY <1>5 DEF Ou!Upstream, OutageInv, Ou!TypeOK, ProbeHeld, Probes
<1>6. ASSUME NEW l \in Probers, Ou!Ask(l) PROVE Ou!TypeOK' /\ ProbeHeld' /\ (zero <= misses)'
  <2>1. pr' \in [Probers -> LookupStates] /\ ProbeHeld'
    <3>1. pr' = [pr EXCEPT ![l] = [pr[l] EXCEPT !.pc = "asked"]] /\ ~Probes(l)'
      BY <1>1, <1>6 DEF Ou!Ask, Probes, LookupStates
    <3> QED BY <1>1, <1>2, <1>6, <3>1, ProbeMoves DEF Ou!Ask
  <2> QED BY <1>u, <1>6, <2>1 DEF Ou!Ask
<1>7. ASSUME NEW l \in Probers, Ou!RequestFails(l) PROVE Ou!TypeOK' /\ ProbeHeld' /\ (zero <= misses)'
  <2>1. pr' \in [Probers -> LookupStates] /\ ProbeHeld'
    <3>1. ~Probes(l)'
      BY <1>1, <1>3, <1>7 DEF Ou!RequestFails, Probes, LookupStates
    <3> QED BY <1>1, <1>3, <1>7, <3>1, ProbeMoves DEF Ou!RequestFails
  <2> QED BY <1>u, <1>7, <2>1 DEF Ou!RequestFails
<1>8. ASSUME NEW l \in Probers, Ou!Songs(l) PROVE Ou!TypeOK' /\ ProbeHeld' /\ (zero <= misses)'
  <2>1. pr' \in [Probers -> LookupStates] /\ ProbeHeld'
    <3>1. ~Probes(l)'
      BY <1>1, <1>3, <1>8 DEF Ou!Songs, Probes, LookupStates
    <3> QED BY <1>1, <1>3, <1>8, <3>1, ProbeMoves DEF Ou!Songs
  <2>2. PICK usable \in BOOLEAN : Ou!recordSuccess(usable)
    BY <1>8 DEF Ou!Songs
  <2>3. control' \in {"none", "seeded", "earned"} /\ zero' = 0 /\ misses' = 0 /\ latched' \in BOOLEAN
    BY <1>1, <2>2 DEF Ou!recordSuccess
  <2>4. UNCHANGED <<alive, probing, unmade>>
    BY <1>8 DEF Ou!Songs
  <2> QED BY <1>1, <2>1, <2>3, <2>4 DEF Ou!TypeOK, LookupStates
<1>9. ASSUME NEW l \in Probers, Ou!recordZeroResult(l) PROVE Ou!TypeOK' /\ ProbeHeld' /\ (zero <= misses)'
  <2>1. pr' \in [Probers -> LookupStates] /\ ProbeHeld'
    <3>1. PICK pc \in {"suspects", "idle"} : pr' = [pr EXCEPT ![l] = [pr[l] EXCEPT !.pc = pc]]
      BY <1>9 DEF Ou!recordZeroResult
    <3>2. [pr[l] EXCEPT !.pc = pc] \in LookupStates /\ ~Probes(l)'
      BY <1>1, <1>2, <3>1 DEF Probes, LookupStates
    <3> QED BY <1>1, <1>9, <3>1, <3>2, ProbeMoves DEF Ou!recordZeroResult
  <2> QED BY <1>1, <1>9, <2>1 DEF Ou!recordZeroResult, Ou!Counted, Ou!TypeOK, LookupStates
<1>10. ASSUME NEW l \in Probers, Ou!confirmOutage(l) PROVE Ou!TypeOK' /\ ProbeHeld' /\ (zero <= misses)'
  <2>1. Ou!Confirmed(l) \in LookupStates
    BY <1>1, <1>3 DEF Ou!Confirmed, LookupStates, Ou!Idle
  <2>2. Probes(l)' => probing' /\ ~probing
    BY <1>1, <1>10 DEF Ou!confirmOutage, Ou!Confirmed, Probes, Ou!Idle, LookupStates
  <2>3. pr' \in [Probers -> LookupStates] /\ ProbeHeld'
    BY <1>1, <1>10, <2>1, <2>2, ProbeMoves DEF Ou!confirmOutage
  <2> QED BY <1>1, <1>10, <2>3 DEF Ou!confirmOutage, Ou!TypeOK, LookupStates
<1>11. ASSUME NEW l \in Probers, Ou!backOffProbe(l) PROVE Ou!TypeOK' /\ ProbeHeld' /\ (zero <= misses)'
  <2>1. pr' \in [Probers -> LookupStates] /\ ProbeHeld'
    <3>1. /\ pr' = [pr EXCEPT ![l] = [pr[l] EXCEPT !.pc = "clearing"]] /\ Probes(l)
          /\ [pr[l] EXCEPT !.pc = "clearing"] \in LookupStates /\ probing
      BY <1>1, <1>2, <1>11 DEF Ou!backOffProbe, Probes, LookupStates, OutageInv, ProbeHeld
    <3> QED BY <1>1, <1>11, <3>1, ProbeMoves DEF Ou!backOffProbe
  <2>2. zero' \in 0..Ou!MaxRun /\ zero' <= misses /\ unmade' \in 0..MaxFails
    BY <1>1, <1>11 DEF Ou!backOffProbe
  <2> QED BY <1>1, <1>11, <2>1, <2>2 DEF Ou!backOffProbe, Ou!TypeOK, LookupStates
<1>12. ASSUME NEW l \in Probers, Ou!ProbeHits(l) PROVE Ou!TypeOK' /\ ProbeHeld' /\ (zero <= misses)'
  <2>1. pr' \in [Probers -> LookupStates] /\ ProbeHeld'
    <3>1. /\ pr' = [pr EXCEPT ![l] = [pr[l] EXCEPT !.pc = "clearing"]] /\ Probes(l)
          /\ [pr[l] EXCEPT !.pc = "clearing"] \in LookupStates /\ probing
      BY <1>1, <1>2, <1>12 DEF Ou!ProbeHits, Probes, LookupStates, OutageInv, ProbeHeld
    <3> QED BY <1>1, <1>12, <3>1, ProbeMoves DEF Ou!ProbeHits
  <2>2. control' = "earned" /\ zero' = 0 /\ misses' = 0 /\ latched' \in BOOLEAN
    BY <1>12 DEF Ou!ProbeHits, Ou!recordSuccess
  <2>3. UNCHANGED <<alive, probing, unmade>>
    BY <1>12 DEF Ou!ProbeHits
  <2> QED BY <1>1, <2>1, <2>2, <2>3 DEF Ou!TypeOK, LookupStates
<1>13. ASSUME NEW l \in Probers, Ou!ProbeMisses(l) PROVE Ou!TypeOK' /\ ProbeHeld' /\ (zero <= misses)'
  <2>1. pr' \in [Probers -> LookupStates] /\ ProbeHeld'
    <3>1. /\ pr' = [pr EXCEPT ![l] = [pr[l] EXCEPT !.pc = "missed"]] /\ Probes(l)
          /\ [pr[l] EXCEPT !.pc = "missed"] \in LookupStates /\ probing
      BY <1>1, <1>2, <1>13 DEF Ou!ProbeMisses, Probes, LookupStates, OutageInv, ProbeHeld
    <3> QED BY <1>1, <1>13, <3>1, ProbeMoves DEF Ou!ProbeMisses
  <2> QED BY <1>u, <1>13, <2>1 DEF Ou!ProbeMisses
<1>14. ASSUME NEW l \in Probers, Ou!dropSeededControl(l) PROVE Ou!TypeOK' /\ ProbeHeld' /\ (zero <= misses)'
  <2> DEFINE kept == ~(pr[l].seeded /\ control = "seeded")
             r == [pr[l] EXCEPT !.pc = "verdict", !.probed = kept]
  <2>1. pr' \in [Probers -> LookupStates] /\ ProbeHeld'
    <3>1. pr' = [pr EXCEPT ![l] = r] /\ Probes(l) /\ probing
      BY <1>1, <1>14 DEF Ou!dropSeededControl, Probes, OutageInv, ProbeHeld
    <3>2. kept \in BOOLEAN
      OBVIOUS
    <3> HIDE DEF kept
    <3>3. r \in LookupStates
      BY <1>2, <3>2 DEF LookupStates
    <3> QED BY <1>1, <1>14, <3>1, <3>3, ProbeMoves DEF Ou!dropSeededControl
  <2> QED BY <1>1, <1>14, <2>1 DEF Ou!dropSeededControl, Ou!TypeOK, LookupStates
<1>15. ASSUME NEW l \in Probers, Ou!reportConfirmedOutage(l) PROVE Ou!TypeOK' /\ ProbeHeld' /\ (zero <= misses)'
  <2> DEFINE r == IF pr[l].probed \/ pr[l].seeded THEN [pr[l] EXCEPT !.pc = "clearing"] ELSE Ou!Idle
  <2>1. pr' \in [Probers -> LookupStates] /\ ProbeHeld'
    <3>1. r \in LookupStates /\ (r.pc = "clearing" => Probes(l) /\ probing) /\ r.pc \in {"clearing", "idle"}
      BY <1>1, <1>2, <1>3, <1>15 DEF Ou!reportConfirmedOutage, Probes, OutageInv, ProbeHeld, LookupStates
    <3>2. pr' = [pr EXCEPT ![l] = r] /\ probing' = probing
      BY <1>15 DEF Ou!reportConfirmedOutage
    <3> HIDE DEF r
    <3>3. Probes(l)' => r.pc = "clearing"
      BY <1>1, <3>1, <3>2 DEF Probes
    <3> QED BY <1>1, <3>1, <3>2, <3>3, ProbeMoves
  <2> QED BY <1>1, <1>15, <2>1 DEF Ou!reportConfirmedOutage, Ou!TypeOK, LookupStates, Ou!Stands
<1>16. ASSUME NEW l \in Probers, Ou!ProbeEnds(l) PROVE Ou!TypeOK' /\ ProbeHeld' /\ (zero <= misses)'
  <2>1. Probes(l) /\ pr' = [pr EXCEPT ![l] = Ou!Idle] /\ probing' = FALSE
    BY <1>16 DEF Ou!ProbeEnds, Ou!ProbeOver, Probes
  <2>2. \A m \in Probers : ~Probes(m)'
    BY <1>1, <1>3, <2>1 DEF Probes, OutageInv, ProbeHeld
  <2> QED BY <1>1, <1>3, <1>16, <2>1, <2>2 DEF Ou!ProbeEnds, Ou!TypeOK, LookupStates, ProbeHeld
<1> QED BY <1>4, <1>5, <1>6, <1>7, <1>8, <1>9, <1>10, <1>11, <1>12, <1>13, <1>14, <1>15, <1>16 DEF Ou!Next, Ou!Step

LEMMA OutageHolds == ASSUME OutageConfigured PROVE Ou!Spec => []OutageInv
BY OutageInit, OutageStep, PTL DEF Ou!Spec

(* Counts, flags and phases stay within their ranges: for any lookups and   *)
(* any threshold (petitlyrics client.go).                                   *)
THEOREM OutageTypes == ASSUME OutageConfigured PROVE Ou!Spec => []Ou!TypeOK
BY OutageHolds, PTL DEF OutageInv

(* One probe answers for a burst of misses: two are never in flight, as     *)
(* probeInFlight stays up until its lookup's deferred reset (confirmOutage). *)
THEOREM OutageOneProbe == ASSUME OutageConfigured PROVE Ou!Spec => []Ou!OneProbe
<1>1. ASSUME OutageInv PROVE Ou!OneProbe
  <2> DEFINE S == {l \in Probers : pr[l].pc = "probes"}
  <2>1. \A l, m \in S : l = m
    BY <1>1 DEF OutageInv, ProbeHeld, Probes
  <2>2. CASE S = {}
    BY <2>2, FS_EmptySet, OuSize DEF Ou!OneProbe
  <2>3. ASSUME NEW l \in S PROVE Ou!OneProbe
    <3>1. S = {l}
      BY <2>1
    <3>2. Cardinality(S) = 1
      BY <3>1, FS_Singleton
    <3> QED BY <3>2, OuSize DEF Ou!OneProbe
  <2> QED BY <2>2, <2>3
<1> QED BY <1>1, OutageHolds, PTL

(* An outage is declared only on a run that stands when the verdict falls,  *)
(* whatever songs arrived while its lookup checked and probed               *)
(* (reportConfirmedOutage looks at the count again).                        *)
THEOREM OutageRunStands == ASSUME OutageConfigured PROVE Ou!Spec => [][Ou!OutageNeedsRun]_Ou!vars
<1>1. ASSUME OutageInv, [Ou!Next]_Ou!vars PROVE Ou!OutageNeedsRun
  <2>1. SUFFICES ASSUME ~latched, latched' PROVE misses >= ZeroResultThreshold
    BY DEF Ou!OutageNeedsRun
  <2>2. ASSUME NEW l \in Probers, Ou!reportConfirmedOutage(l) PROVE misses >= ZeroResultThreshold
    <3>1. zero >= ZeroResultThreshold /\ zero <= misses
      BY <1>1, <2>1, <2>2 DEF Ou!reportConfirmedOutage, Ou!Stands, OutageInv
    <3>2. zero \in Nat /\ misses \in Nat /\ ZeroResultThreshold \in Nat
      BY <1>1, RunBound DEF OutageInv, Ou!TypeOK, OutageConfigured
    <3> QED BY <3>1, <3>2
  <2>3. UNCHANGED latched \/ (\E l \in Probers : Ou!reportConfirmedOutage(l)) \/ latched' = FALSE
    BY <1>1 DEF Ou!Next, Ou!Step, Ou!vars, Ou!Ask, Ou!Songs, Ou!recordSuccess, Ou!RequestFails, Ou!recordZeroResult, Ou!confirmOutage,
                Ou!backOffProbe, Ou!ProbeHits, Ou!ProbeMisses, Ou!dropSeededControl, Ou!ProbeEnds, Ou!Upstream
  <2> QED BY <2>1, <2>2, <2>3
<1> QED BY <1>1, OutageHolds, PTL DEF Ou!Spec
=============================================================================
