------------------------------ MODULE Settings ------------------------------
(***************************************************************************)
(* The settings page's save path (internal/web/settings_save.go and        *)
(* settings_save_section.go) over the configuration file and the           *)
(* environment (internal/config).  A save judges the combined result       *)
(* against the configuration the next start would load, under saveMu, and  *)
(* rewrites the file through a temporary file and a .bak; starts resolve   *)
(* the file, the environment, the defaults and the clamps.                 *)
(***************************************************************************)
EXTENDS Integers, FiniteSets, TLC

CONSTANTS
    Savers,        \* requests that may run at once
    Requests,      \* the changes a save may carry: functions from fields to values
    HandEdits,     \* the changes an operator may make to the file
    Envs,          \* the environments a server may run in: overrides on some fields
    BadEnv,        \* fields whose variable holds a value that does not parse
    Faults,        \* what may fail: "reload", "write", "store"
    MaxSaves, MaxHands, MaxStarts,     \* bounds
    OpenMin, OpenDefault, BaseMin, BaseDefault   \* code: 300, 1800, 15, 60

VARIABLES
    env,       \* the overrides of this installation; they stay as they are
    file,      \* the configuration file
    bak,       \* whether a .bak lies beside it
    store,     \* the token is in the secret store
    boot,      \* the snapshot the running server started from
    up,        \* the server runs
    lock,      \* the saver that holds saveMu, or "free"
    sv,        \* each saver: its phase, its changes and the document it holds
    saves, hands, starts

vars == <<env, file, bak, store, boot, up, lock, sv, saves, hands, starts>>

Providers == {"mxm", "pet"}
Groups == {{"primary", "disabled"}, {"self", "cert", "key"}, {"freq", "at", "day"}}

(* The file the project ships with.                                        *)
Defaults == [primary |-> "mxm", disabled |-> {}, self |-> FALSE, cert |-> FALSE, key |-> FALSE,
             freq |-> "", at |-> "", day |-> FALSE, base |-> BaseDefault, open |-> OpenDefault,
             tok |-> FALSE]

Configs == [primary : Providers \cup {""}, disabled : SUBSET Providers,
            self : BOOLEAN, cert : BOOLEAN, key : BOOLEAN,
            freq : {"", "off", "daily", "weekly"}, at : {"", "bad", "04:00"}, day : BOOLEAN,
            base : Int, open : Int, tok : BOOLEAN]

(***************************************************************************)
(* What a start makes of the file (LoadWithSources)                        *)
(***************************************************************************)
Applied(c, ch) == [f \in DOMAIN c |-> IF f \in DOMAIN ch THEN ch[f] ELSE c[f]]

(* A blank value, or a zero where zero means unset, gets its default back. *)
DefaultText(c) == [c EXCEPT !.primary = IF @ = "" THEN Defaults.primary ELSE @]
DefaultNumbers(c) == [c EXCEPT !.base = IF @ = 0 THEN BaseDefault ELSE @,
                               !.open = IF @ = 0 THEN OpenDefault ELSE @]

(* A variable that parses wins over the file; one that does not is logged  *)
(* and skipped, so it is not in env.                                       *)
Overridden(c) == Applied(c, env)

clampCircuitOpenDuration(c) ==
    [c EXCEPT !.open = IF @ <= 0 THEN OpenDefault ELSE IF @ < OpenMin THEN OpenMin ELSE @]

clampCircuitBackoffBase(c) ==
    LET b == IF c.base <= 0 THEN BaseDefault ELSE c.base
        l == IF b < BaseMin THEN BaseMin ELSE b
    IN  [c EXCEPT !.base = IF l > c.open THEN c.open ELSE l]

ClampedBackwards(c) == clampCircuitOpenDuration(clampCircuitBackoffBase(c))
Clamped(c) == clampCircuitBackoffBase(clampCircuitOpenDuration(c))

Effective(c) == Clamped(Overridden(DefaultNumbers(DefaultText(c))))

ValidateTLSSelection(c) == ~(c.self /\ (c.cert \/ c.key)) /\ (c.cert <=> c.key)

ValidateScanSchedule(c) ==
    /\ c.freq \in {"daily", "weekly"} => c.at = "04:00"
    /\ c.freq = "weekly" => c.day

(* An unset primary is Musixmatch; the primary must be enabled.            *)
ValidateSelection(c) ==
    /\ (IF c.primary = "" THEN "mxm" ELSE c.primary) \notin c.disabled
    /\ Providers \ c.disabled # {}

Valid(c, g) ==
    CASE "primary" \in g -> ValidateSelection(c)
      [] "self" \in g -> ValidateTLSSelection(c)
      [] OTHER -> ValidateScanSchedule(c)

(* The next start refuses a file that breaks a group.                      *)
Loads(c) == \A g \in Groups : Valid(Effective(c), g)

-----------------------------------------------------------------------------
NoChange == [f \in {} |-> 0]
Idle == [pc |-> "idle", ch |-> NoChange, doc |-> Defaults]

TypeOK ==
    /\ env \in Envs /\ file \in Configs /\ boot \in Configs
    /\ bak \in BOOLEAN /\ store \in BOOLEAN /\ up \in BOOLEAN
    /\ lock \in Savers \cup {"free"}
    /\ \A s \in Savers :
         /\ sv[s].pc \in {"idle", "wait", "locked", "load", "backup", "rename", "sweep", "unlock"}
         /\ sv[s].ch \in Requests \cup {NoChange} /\ sv[s].doc \in Configs
    /\ saves \in 0..MaxSaves /\ hands \in 0..MaxHands /\ starts \in 0..MaxStarts

Init ==
    /\ env \in Envs
    /\ \E tok \in BOOLEAN : file = [Defaults EXCEPT !.tok = tok]
    /\ Loads(file) /\ boot = Effective(file) /\ bak = FALSE /\ store = FALSE
    /\ up = TRUE /\ lock = "free" /\ sv = [s \in Savers |-> Idle]
    /\ saves = 0 /\ hands = 0 /\ starts = 1

(* The file as the form would show it now: reloaded, or the snapshot when  *)
(* the reload fails.                                                       *)
currentConfig(ok) == IF ok THEN Effective(file) ELSE boot

IsToken(ch) == "tok" \in DOMAIN ch

(* Field by field: an override locks the field, the value must parse.      *)
FieldValid(f, v) ==
    CASE f = "at" -> v \in {"", "04:00"}
      [] f \in {"base", "open"} -> v >= 0
      [] OTHER -> TRUE

NeverLocked(f, v) == FieldValid(f, v)
Authorized(f, v) == f \notin DOMAIN env \cup BadEnv /\ FieldValid(f, v)
AllAuthorized(ch) == \A f \in DOMAIN ch : Authorized(f, ch[f])

To(s, pc) == sv' = [sv EXCEPT ![s].pc = pc]
Done(s) == sv' = [sv EXCEPT ![s] = Idle]

(* handleSaveField and handleSaveSection up to saveMu.Lock().              *)
Submit(s, ch) ==
    /\ up /\ sv[s].pc = "idle" /\ saves < MaxSaves /\ saves' = saves + 1
    /\ AllAuthorized(ch)
    /\ sv' = [sv EXCEPT ![s].pc = "wait", ![s].ch = ch]
    /\ UNCHANGED <<env, file, bak, store, boot, up, lock, hands, starts>>

FreeOrNot == TRUE
Free == lock = "free"
Lock(s) ==
    /\ up /\ sv[s].pc = "wait" /\ Free /\ lock' = s
    /\ To(s, "locked")
    /\ UNCHANGED <<env, file, bak, store, boot, up, saves, hands, starts>>

JudgedAlone(c, ch) ==
    \A g \in Groups : \A f \in g \cap DOMAIN ch :
        Valid([c EXCEPT ![f] = ch[f]], g)

(* The groups a save touches are judged on the configuration that would    *)
(* result, all its fields together.                                        *)
Judged(c, ch) ==
    \A g \in Groups : g \cap DOMAIN ch # {} => Valid(Applied(c, ch), g)

Check(s) ==
    /\ up /\ sv[s].pc = "locked" /\ ~IsToken(sv[s].ch)
    /\ \E ok \in BOOLEAN :
         /\ ~ok => "reload" \in Faults
         /\ To(s, IF Judged(currentConfig(ok), sv[s].ch) THEN "load" ELSE "unlock")
    /\ UNCHANGED <<env, file, bak, store, boot, up, lock, saves, hands, starts>>

(* saveSecretToken: the store first, then the key leaves the file.         *)
StoreToken(s) ==
    /\ up /\ sv[s].pc = "locked" /\ IsToken(sv[s].ch)
    /\ \/ store' = TRUE /\ To(s, "load")
       \/ "store" \in Faults /\ To(s, "unlock") /\ UNCHANGED store
    /\ UNCHANGED <<env, file, bak, boot, up, lock, saves, hands, starts>>

(* ApplyChanges and RemoveKeyIfPresent read the document and change it; an *)
(* absent key is no write.                                                 *)
Load(s) ==
    /\ up /\ sv[s].pc = "load"
    /\ IF IsToken(sv[s].ch) /\ ~file.tok
       THEN To(s, "unlock")
       ELSE sv' = [sv EXCEPT ![s].pc = "backup",
                             ![s].doc = IF IsToken(sv[s].ch) THEN [file EXCEPT !.tok = FALSE]
                                        ELSE Applied(file, sv[s].ch)]
    /\ UNCHANGED <<env, file, bak, store, boot, up, lock, saves, hands, starts>>

(* WriteAtomic: the temporary file is written and synced, the present file *)
(* is copied to .bak, the rename puts the new one in place.                *)
Backup(s) ==
    /\ up /\ sv[s].pc = "backup"
    /\ \/ bak' = TRUE /\ To(s, "rename")
       \/ "write" \in Faults /\ To(s, "unlock") /\ UNCHANGED bak
    /\ UNCHANGED <<env, file, store, boot, up, lock, saves, hands, starts>>

Rename(s) ==
    /\ up /\ sv[s].pc = "rename"
    /\ \/ file' = sv[s].doc /\ To(s, "sweep")
       \/ "write" \in Faults /\ To(s, "unlock") /\ UNCHANGED file
    /\ UNCHANGED <<env, bak, store, boot, up, lock, saves, hands, starts>>

Sweep(s) ==
    /\ up /\ sv[s].pc = "sweep" /\ To(s, "unlock") /\ bak' = FALSE
    /\ UNCHANGED <<env, file, store, boot, up, lock, saves, hands, starts>>

UnlockNot == UNCHANGED lock
Released == lock' = "free"
Unlock(s) ==
    /\ up /\ sv[s].pc = "unlock" /\ Done(s) /\ Released
    /\ UNCHANGED <<env, file, bak, store, boot, up, saves, hands, starts>>

(* The operator edits the file to something that starts, while no save is  *)
(* between its check and its rename.                                       *)
HandEdit(ch) ==
    /\ lock = "free" /\ hands < MaxHands /\ hands' = hands + 1
    /\ Loads(Applied(file, ch)) /\ file' = Applied(file, ch)
    /\ UNCHANGED <<env, bak, store, boot, up, lock, sv, saves, starts>>

Crash ==
    /\ up /\ up' = FALSE /\ lock' = "free" /\ sv' = [s \in Savers |-> Idle]
    /\ UNCHANGED <<env, file, bak, store, boot, saves, hands, starts>>

Start ==
    /\ ~up /\ starts < MaxStarts /\ starts' = starts + 1
    /\ Loads(file) /\ up' = TRUE /\ boot' = Effective(file)
    /\ UNCHANGED <<env, file, bak, store, lock, sv, saves, hands>>

Step(s) == Lock(s) \/ Check(s) \/ StoreToken(s) \/ Load(s) \/ Backup(s) \/ Rename(s) \/ Sweep(s) \/ Unlock(s)

Next ==
    \/ \E s \in Savers : (\E ch \in Requests : Submit(s, ch)) \/ Step(s)
    \/ \E ch \in HandEdits : HandEdit(ch)
    \/ Crash \/ Start

(* A handler that runs keeps running; saveMu is fair (sync.Mutex hands     *)
(* itself to a waiter that starves).                                       *)
Fairness == \A s \in Savers : SF_vars(Lock(s)) /\ WF_vars(Step(s))
Spec == Init /\ [][Next]_vars /\ Fairness

-----------------------------------------------------------------------------
(* No sequence of saves, made together or one by one, refused, failed or   *)
(* cut short, leaves a file the next start refuses: neither a field that   *)
(* was valid by itself, nor one shadowed by an override.                   *)
Bootable == Loads(file)

(* Every configuration a start resolves has a breaker window that starts   *)
(* at the least allowed length and stays below its cap, whatever numbers   *)
(* the file and the environment hold.                                      *)
WindowOrdered ==
    LET c == Effective(file) IN BaseMin <= c.base /\ c.base <= c.open

(* A save changes the fields it carries and no other: two saves, or a save *)
(* and the removal of the stored token, never undo each other.             *)
SaveTouchesItsOwn ==
       file' # file /\ hands' = hands =>
         \E s \in Savers : \A f \in DOMAIN file :
            f \notin DOMAIN sv[s].ch => file'[f] = file[f]

(* A submitted save is answered: nobody keeps saveMu.                      *)
Saving(s) == sv[s].pc = "wait"
Saved(s) == sv[s].pc = "idle"
SavesAnswered == \A s \in Savers : Saving(s) ~> Saved(s)
=============================================================================
