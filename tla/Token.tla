------------------------------- MODULE Token -------------------------------
(***************************************************************************)
(* The Musixmatch token: the stored row with its client-identity record    *)
(* and write stamp (internal/secrets/store.go), the token serve resolves   *)
(* or mints when it starts (internal/commands/token_bootstrap.go,          *)
(* commands.go), and its renewal by concurrent lookups                     *)
(* (internal/musixmatch/client.go) while the operator saves a token of     *)
(* their own from the UI, the setup page or another process.               *)
(*                                                                         *)
(* A token is a number: 0 is none, 1 the degenerate token an old build     *)
(* stored, 2 and 3 bytes the operator may have, the rest are minted.  The  *)
(* operator may save the very bytes that are stored.  An identity is 0 for *)
(* no record, 1 for the current client, 2 for a retired one.  A pair is    *)
(* written in one transaction; a state is read with three separate Gets.   *)
(***************************************************************************)
EXTENDS Naturals, FiniteSets

CONSTANTS
    Lookups,     \* FindLyrics calls that may run at once
    Faults,      \* steps that may fail: "mint", "db"
    MaxMints,    \* bound on the tokens minted
    MaxSaves,    \* bound on the operator's saves
    MaxStarts,   \* bound on the starts of serve
    MaxExpired   \* bound on the tokens upstream lets expire

VARIABLES
    store,       \* the three secrets rows
    owner,       \* who wrote the stored token
    sv,          \* serve: its phase, the client's token, its renewer
    lk,          \* each lookup: its phase, the token it sent, its snapshot
    renewMu,     \* the lookup holding renewMu, "" when free
    dead,        \* the tokens upstream answers with hint=renew
    mints, saves, starts, writes

vars == <<store, owner, sv, lk, renewMu, dead, mints, saves, starts, writes>>

NoToken == 0
Degenerate == 1
Operators == {2, 3}
Minted == 4..(3 + MaxMints)
Tokens == 0..(3 + MaxMints)
IdentityKey == 1

NoState == [tok |-> 0, idn |-> 0, stamp |-> 0]
States == [tok : Tokens, idn : 0..2, stamp : 0..(MaxMints + MaxSaves + 1)]
NoLookup == [pc |-> "idle", tok |-> 0, stale |-> 0, snap |-> NoState, again |-> FALSE]
Off == [pc |-> "down", tok |-> 0, renewer |-> FALSE, legacy |-> NoState]

(* Facts of the set-up: the bounds are numbers, and renewMu's "" is free.  *)
Bounded ==
    /\ {MaxMints, MaxSaves, MaxStarts} \subseteq Nat
    /\ "" \notin Lookups

ServeStates ==
    [pc : {"down", "resolve", "identify", "minting", "persist", "drop", "deleting", "dropping", "legacy", "up"},
     tok : Tokens, renewer : BOOLEAN, legacy : States]
LookupStates ==
    [pc : {"idle", "sent", "refused", "waiting", "held", "named", "stamped", "minting", "commit"},
     tok : Tokens, stale : Tokens, snap : States, again : BOOLEAN]

TypeOK ==
    /\ store \in States /\ owner \in {"nobody", "old", "mint", "op"}
    /\ sv \in ServeStates /\ lk \in [Lookups -> LookupStates]
    /\ renewMu \in Lookups \cup {""} /\ dead \subseteq Tokens
    /\ mints \in 0..MaxMints /\ saves \in 0..MaxSaves /\ starts \in 0..MaxStarts

(* A fresh install; a token stored before records and stamps existed, real *)
(* or degenerate; one minted for a retired client; one the operator saved. *)
Init ==
    /\ \/ store = NoState /\ owner = "nobody"
       \/ \E t \in {Degenerate, 2} : store = [tok |-> t, idn |-> 0, stamp |-> 0] /\ owner = "old"
       \/ store = [tok |-> 3, idn |-> 2, stamp |-> 1] /\ owner = "mint"
       \/ store = [tok |-> 3, idn |-> 0, stamp |-> 1] /\ owner = "op"
    /\ sv = Off /\ lk = [l \in Lookups |-> NoLookup] /\ renewMu = "" /\ dead = {}
    /\ mints = 0 /\ saves = 0 /\ starts = 0 /\ writes = 1

(* writeTokenPair: token, record and a fresh stamp in one transaction; an  *)
(* operator's token takes the record away.                                 *)
WrittenUnstamped(t, i) == [store EXCEPT !.tok = t, !.idn = i]
WrittenKeepingRecord(t, i) == [tok |-> t, idn |-> IF i = 0 THEN store.idn ELSE i, stamp |-> writes + 1]
Written(t, i) == [tok |-> t, idn |-> i, stamp |-> writes + 1]

writeTokenPair(t, i, who) ==
    /\ store' = Written(t, i) /\ owner' = who /\ writes' = writes + 1

(* SetOperatorMusixmatchToken: the settings page, onboarding and the       *)
(* secrets command, in this process or another.                            *)
OperatorSave(t) ==
    /\ saves < MaxSaves /\ saves' = saves + 1
    /\ writeTokenPair(t, 0, "op")
    /\ UNCHANGED <<sv, lk, renewMu, dead, mints, starts>>

--------------------------------------------------------------------------
(* Startup.  A token from the command line, the environment or the file is *)
(* used as it is and gets no renewer.                                      *)
Start(supplied) ==
    /\ sv.pc = "down" /\ starts < MaxStarts /\ starts' = starts + 1
    /\ sv' = IF supplied THEN [Off EXCEPT !.pc = "up", !.tok = 2] ELSE [Off EXCEPT !.pc = "resolve"]
    /\ UNCHANGED <<store, owner, lk, renewMu, dead, mints, saves, writes>>

(* resolveTokenWithStore: the stored token, unless it is degenerate or was *)
(* minted for another client.                                              *)
Resolve ==
    /\ sv.pc = "resolve"
    /\ sv' = IF store.tok \in {NoToken, Degenerate}
             THEN [sv EXCEPT !.pc = "minting"]
             ELSE [sv EXCEPT !.pc = "identify", !.tok = store.tok]
    /\ UNCHANGED <<store, owner, lk, renewMu, dead, mints, saves, starts, writes>>

Identify ==
    /\ sv.pc = "identify"
    /\ sv' = IF store.idn \in {0, IdentityKey}
             THEN [sv EXCEPT !.pc = "legacy", !.renewer = TRUE]
             ELSE [sv EXCEPT !.pc = "minting", !.tok = NoToken]
    /\ UNCHANGED <<store, owner, lk, renewMu, dead, mints, saves, starts, writes>>

(* runServe: the state a token without record and stamp was read in is the *)
(* one state a renewal may replace although it names no client.  (Its    *)
(* three Gets are one step: a stamp, once written, is never gone.)         *)
Legacy ==
    /\ sv.pc = "legacy"
    /\ sv' = [sv EXCEPT !.pc = "up",
                        !.legacy = IF store.tok = sv.tok /\ store.idn = 0 /\ store.stamp = 0
                                   THEN store ELSE NoState]
    /\ UNCHANGED <<store, owner, lk, renewMu, dead, mints, saves, starts, writes>>

(* bootstrapToken: mint and persist; a refused mint degrades to no token   *)
(* and drops a degenerate row.                                             *)
BootMint ==
    /\ sv.pc = "minting"
    /\ \/ /\ mints < MaxMints /\ mints' = mints + 1
          /\ sv' = [sv EXCEPT !.pc = "persist", !.tok = 4 + mints]
       \/ /\ "mint" \in Faults /\ sv' = [sv EXCEPT !.pc = "drop"] /\ UNCHANGED mints
    /\ UNCHANGED <<store, owner, lk, renewMu, dead, saves, starts, writes>>

persistMintedToken ==
    /\ sv.pc = "persist"
    /\ sv' = [sv EXCEPT !.pc = "up", !.renewer = TRUE]
    /\ \/ writeTokenPair(sv.tok, IdentityKey, "mint")
       \/ "db" \in Faults /\ UNCHANGED <<store, owner, writes>>
    /\ UNCHANGED <<lk, renewMu, dead, mints, saves, starts>>

dropDegenerateStoredToken ==
    /\ \/ /\ sv.pc = "drop" /\ store.tok # Degenerate
          /\ sv' = [sv EXCEPT !.pc = "up", !.renewer = TRUE] /\ UNCHANGED <<store, owner>>
       \/ /\ sv.pc = "drop" /\ store.tok = Degenerate
          /\ sv' = [sv EXCEPT !.pc = "deleting"] /\ UNCHANGED <<store, owner>>
       \/ /\ sv.pc = "deleting"
          /\ sv' = [sv EXCEPT !.pc = "dropping"]
          /\ store' = [store EXCEPT !.tok = NoToken] /\ owner' = "nobody"
       \/ /\ sv.pc = "dropping"
          /\ sv' = [sv EXCEPT !.pc = "up", !.renewer = TRUE]
          /\ store' = [store EXCEPT !.idn = 0] /\ UNCHANGED owner
    /\ UNCHANGED <<lk, renewMu, dead, mints, saves, starts, writes>>

(* The process stops or dies: the client, its lookups and the lock go.     *)
Stop ==
    /\ sv.pc # "down" /\ sv' = Off
    /\ lk' = [l \in Lookups |-> NoLookup] /\ renewMu' = ""
    /\ UNCHANGED <<store, owner, dead, mints, saves, starts, writes>>

--------------------------------------------------------------------------
(* FindLyrics.  findLyricsOnce sends the token the client holds.           *)
Send(l) ==
    /\ sv.pc = "up" /\ sv.tok # NoToken /\ lk[l].pc = "idle"
    /\ lk' = [lk EXCEPT ![l] = [NoLookup EXCEPT !.pc = "sent", !.tok = sv.tok]]
    /\ UNCHANGED <<store, owner, sv, renewMu, dead, mints, saves, starts, writes>>

(* Any answer but hint=renew ends the lookup; so does a second hint, and   *)
(* one that comes without a renewer.                                       *)
Answer(l) ==
    /\ lk[l].pc = "sent"
    /\ lk' = [lk EXCEPT ![l] = IF lk[l].tok \in dead /\ ~lk[l].again /\ sv.renewer
                               THEN [lk[l] EXCEPT !.pc = "refused"] ELSE NoLookup]
    /\ UNCHANGED <<store, owner, sv, renewMu, dead, mints, saves, starts, writes>>

(* currentToken, read before the lock.                                     *)
ReadStale(l) ==
    /\ lk[l].pc = "refused"
    /\ lk' = [lk EXCEPT ![l].pc = "waiting", ![l].stale = sv.tok]
    /\ UNCHANGED <<store, owner, sv, renewMu, dead, mints, saves, starts, writes>>

Resent(l, t) == [NoLookup EXCEPT !.pc = "sent", !.tok = t, !.again = TRUE]

(* Under the lock: another lookup's replacement is used, or the stored     *)
(* state is read, token first.                                             *)
Lock(l) ==
    /\ lk[l].pc = "waiting" /\ renewMu = ""
    /\ IF sv.tok # lk[l].stale
       THEN lk' = [lk EXCEPT ![l] = Resent(l, sv.tok)] /\ UNCHANGED renewMu
       ELSE /\ renewMu' = l
            /\ lk' = [lk EXCEPT ![l].pc = "held", ![l].snap.tok = store.tok]
    /\ UNCHANGED <<store, owner, sv, dead, mints, saves, starts, writes>>

ReadIdentity(l) ==
    /\ lk[l].pc = "held"
    /\ lk' = [lk EXCEPT ![l].pc = "named", ![l].snap.idn = store.idn]
    /\ UNCHANGED <<store, owner, sv, renewMu, dead, mints, saves, starts, writes>>

ReadStamp(l) ==
    /\ lk[l].pc = "named"
    /\ lk' = [lk EXCEPT ![l].pc = "stamped", ![l].snap.stamp = store.stamp]
    /\ UNCHANGED <<store, owner, sv, renewMu, dead, mints, saves, starts, writes>>

(* Renew refuses a stored token that names no client, the startup's legacy *)
(* state excepted.                                                         *)
operatorStored(s) == s.tok # NoToken /\ s.idn = 0 /\ s # sv.legacy

ReleasedHolding(l) == UNCHANGED renewMu
Released(l) == renewMu' = ""

Refuse(l) ==
    /\ lk[l].pc = "stamped" /\ operatorStored(lk[l].snap)
    /\ lk' = [lk EXCEPT ![l] = NoLookup] /\ Released(l)
    /\ UNCHANGED <<store, owner, sv, dead, mints, saves, starts, writes>>

BeginMint(l) ==
    /\ lk[l].pc = "stamped" /\ ~operatorStored(lk[l].snap)
    /\ lk' = [lk EXCEPT ![l].pc = "minting"]
    /\ UNCHANGED <<store, owner, sv, renewMu, dead, mints, saves, starts, writes>>

Mint(l) ==
    /\ lk[l].pc = "minting"
    /\ \/ /\ mints < MaxMints /\ mints' = mints + 1
          /\ lk' = [lk EXCEPT ![l].pc = "commit", ![l].tok = 4 + mints] /\ UNCHANGED renewMu
       \/ /\ "mint" \in Faults \/ mints = MaxMints
          /\ lk' = [lk EXCEPT ![l] = NoLookup] /\ Released(l) /\ UNCHANGED mints
    /\ UNCHANGED <<store, owner, sv, dead, saves, starts, writes>>

(* SetMusixmatchTokenWithIdentityIfUnchanged: compared and written in one  *)
(* transaction.  A changed state drops the minted token; any other failure *)
(* keeps it for this run.                                                  *)
UnchangedSinceTokenOnly(s) == store.tok = s.tok
UnchangedSince(s) == store = s

CommitOutcome(l) ==
    \/ /\ UnchangedSince(lk[l].snap) /\ writeTokenPair(lk[l].tok, IdentityKey, "mint")
       /\ sv' = [sv EXCEPT !.tok = lk[l].tok] /\ lk' = [lk EXCEPT ![l] = Resent(l, lk[l].tok)]
    \/ /\ "db" \in Faults /\ UNCHANGED <<store, owner, writes>>
       /\ sv' = [sv EXCEPT !.tok = lk[l].tok] /\ lk' = [lk EXCEPT ![l] = Resent(l, lk[l].tok)]
    \/ /\ ~UnchangedSince(lk[l].snap) /\ UNCHANGED <<store, owner, writes, sv>>
       /\ lk' = [lk EXCEPT ![l] = NoLookup]

Commit(l) ==
    /\ lk[l].pc = "commit" /\ Released(l)
    /\ CommitOutcome(l)
    /\ UNCHANGED <<dead, mints, saves, starts>>

(* Upstream lets the token in use expire.                                  *)
Expire ==
    /\ sv.tok # NoToken /\ sv.tok \notin dead /\ Cardinality(dead) < MaxExpired
    /\ dead' = dead \cup {sv.tok}
    /\ UNCHANGED <<store, owner, sv, lk, renewMu, mints, saves, starts, writes>>

Boot == Resolve \/ Identify \/ Legacy \/ BootMint \/ persistMintedToken \/ dropDegenerateStoredToken

Step(l) ==
    \/ Answer(l) \/ ReadStale(l) \/ Lock(l) \/ ReadIdentity(l) \/ ReadStamp(l)
    \/ Refuse(l) \/ BeginMint(l) \/ Mint(l) \/ Commit(l)

Next ==
    \/ \E t \in Operators : OperatorSave(t)
    \/ \E supplied \in BOOLEAN : Start(supplied)
    \/ Boot \/ Stop \/ Expire
    \/ \E l \in Lookups : Send(l) \/ Step(l)

(* The HTTP client has a timeout, the lock is held across no other wait    *)
(* and Go's mutex starves no waiter, so a lookup's own steps keep coming.  *)
Spec == Init /\ [][Next]_vars
LiveSpec == Spec /\ \A l \in Lookups : SF_vars(Step(l))
----------------------------------------------------------------------------
(* A renewal never replaces a token the operator saved, whenever the save  *)
(* lands: before the renewal's reads, between two of them, or during the   *)
(* mint, and even when it saves the bytes already stored.  Only a start    *)
(* may: it persists what it minted when it found the store empty, and      *)
(* deletes the row it found degenerate.                                    *)
RenewalSparesOperator ==
    owner = "op" /\ owner' # "op" => sv.pc \in {"persist", "deleting"}

(* The client-identity record describes exactly a minted token: an         *)
(* operator's token beside a record would be discarded when the client     *)
(* identity changes, and a minted one without a record could never be      *)
(* renewed.                                                                *)
RecordMeansMinted ==
    store.tok # NoToken => (store.idn # 0 <=> owner = "mint")

(* Every lookup ends: each way out of a renewal gives up renewMu.          *)
LookingUp(l) == lk[l].pc # "idle"
LookupEnds == \A l \in Lookups : LookingUp(l) ~> ~LookingUp(l)

(* Concurrent hint=renew answers produce one mint (client.go:269, 651): a   *)
(* lookup mints only to replace the very token it was refused with, so of   *)
(* the lookups one token was refused to, the first replaces it.             *)
OneMintPerToken ==
    \A l \in Lookups : lk[l].pc = "minting" => lk[l].tok = sv.tok
=============================================================================
