-------------------------------- MODULE Access --------------------------------
(***************************************************************************)
(* Who may use the web UI: the admin account and its sessions              *)
(* (internal/webauth), first-run setup and the sign-in page (internal/web: *)
(* setup.go, auth.go, ratelimit.go) and the admin command line.            *)
(*                                                                         *)
(* Every request is its own goroutine (the command line its own process)   *)
(* and hashes or verifies a password, slowly, between two database         *)
(* statements: that gap is where the requests interleave.  A password hash *)
(* is [pw, salt]: the salt makes every hash made unlike every other.       *)
(***************************************************************************)
EXTENDS Naturals, Sequences, FiniteSets, SequencesExt

CONSTANTS Reqs,         \* requests in flight at once
          Names,        \* user names
          Passwords,    \* acceptable passwords
          Clients,      \* the addresses sign-ins come from
          HashSlots,    \* setups that may hash at once
          MaxFailures,  \* failed sign-ins that lock an address out
          MaxEntries,   \* addresses the limiter remembers
          MaxHashes,    \* bound: hashes made
          MaxTokens     \* bound: session tokens issued

VARIABLES users,       \* name -> <<>>, or <<the password hash>>
          sessions,    \* the rows of sessions: [tok, user, issued, live]
          hashes,      \* hashes made so far
          tokens,      \* tokens issued so far
          req,         \* request -> what it is doing
          adminExists, \* the onboarding latch
          secretsOf,   \* the names whose setup form's secrets were stored
          attempts,    \* the limiter's table, oldest lastSeen first:
                       \*   [key, failures, locked: "no", "active", "over"]
          idle         \* the entries of attempts not seen for idleEvictAfter

vars == <<users, sessions, hashes, tokens, req, adminExists, secretsOf, attempts, idle>>

Idle == [pc |-> "idle"]

Init ==
    /\ users = [n \in Names |-> <<>>] /\ sessions = {} /\ hashes = 0 /\ tokens = 0
    /\ req = [r \in Reqs |-> Idle] /\ adminExists = FALSE /\ secretsOf = {}
    /\ attempts = <<>> /\ idle = {}

HasUsers == \E n \in Names : users[n] # <<>>
At(r, pc) == req[r].pc = pc
Goto(r, pc) == req' = [req EXCEPT ![r].pc = pc]
Done(r) == req' = [req EXCEPT ![r] = Idle]
-----------------------------------------------------------------------------
(* The limiter. *)
EntryOf(k) == {i \in DOMAIN attempts : attempts[i].key = k}
Keys == {attempts[i].key : i \in DOMAIN attempts}
Without(s, k) == SelectSeq(s, LAMBDA e : e.key # k)
Preserved(e) == e.locked = "active"

(* allow: refused while a lockout runs; an elapsed one is forgotten. *)
Refused(k) == \E i \in EntryOf(k) : attempts[i].locked = "active"
AllowedKept(k) == attempts
Allowed(k) == IF \E i \in EntryOf(k) : attempts[i].locked = "over"
              THEN Without(attempts, k) ELSE attempts

evictOldestAny(s) == Tail(s)
evictIdle(s) == SelectSeq(s, LAMBDA e : Preserved(e) \/ e.key \notin idle)
evictOldest(s) ==
    LET free == {i \in DOMAIN s : ~Preserved(s[i])}
    IN  IF free = {} THEN s ELSE RemoveAt(s, CHOOSE i \in free : \A j \in free : i <= j)

(* The room fail makes for a new address: idle entries first, then the      *)
(* oldest, never one in lockout.                                            *)
Roomy(s) == IF Len(s) < MaxEntries THEN s
            ELSE LET t == evictIdle(s) IN IF Len(t) < MaxEntries THEN t ELSE evictOldest(t)

CountedTwice(s, k, n) ==
    Append(s, [key |-> k, failures |-> n,
               locked |-> IF n >= MaxFailures THEN "active" ELSE "no"])
Counted(s, k, n) ==
    Append(Without(s, k), [key |-> k, failures |-> n,
                           locked |-> IF n >= MaxFailures THEN "active" ELSE "no"])
fail(k) ==
    LET room == Roomy(attempts)
    IN  IF EntryOf(k) # {}
        THEN Counted(attempts, k, attempts[CHOOSE i \in EntryOf(k) : TRUE].failures + 1)
        ELSE IF Len(room) >= MaxEntries THEN room    \* untracked, the longest delay
             ELSE Counted(room, k, 1)

(* lastSeen and lockedUntil as time passes: the entries grow idle in order. *)
LockElapses ==
    /\ \E i \in DOMAIN attempts :
          attempts[i].locked = "active" /\ attempts' = [attempts EXCEPT ![i].locked = "over"]
    /\ UNCHANGED <<users, sessions, hashes, tokens, req, adminExists, secretsOf, idle>>

GrowIdle ==
    /\ \E i \in DOMAIN attempts :
          /\ attempts[i].key \notin idle
          /\ \A j \in 1 .. i - 1 : attempts[j].key \in idle
          /\ idle' = idle \cup {attempts[i].key}
    /\ UNCHANGED <<users, sessions, hashes, tokens, req, adminExists, secretsOf, attempts>>

Seen(k) == idle' = {e.key : e \in {attempts'[i] : i \in DOMAIN attempts'}} \cap (idle \ {k})
Untouched == UNCHANGED <<attempts, idle>>
-----------------------------------------------------------------------------
(* HashPassword, and the two writes that tie a session to a credential.     *)
NewHash(pw) == [pw |-> pw, salt |-> hashes]
CreateSession(n, h) == users[n] # <<>>
CreateSessionForCredential(n, h) == users[n] = <<h>>
Insert(n, h) ==
    /\ sessions' = sessions \cup {[tok |-> tokens, user |-> n, issued |-> h, live |-> TRUE]}
    /\ tokens' = tokens + 1

(* rotate: the hash and every session of the user, in one transaction. *)
revokeSessions(n) == {s \in sessions : s.user # n}
Rotate(n, h) == users' = [users EXCEPT ![n] = <<h>>] /\ sessions' = revokeSessions(n)

ValidateSession(s) == s \in sessions /\ s.live /\ users[s.user] # <<>>
-----------------------------------------------------------------------------
(* POST /setup. *)
handleSetup(r) ==
    /\ At(r, "idle")
    /\ adminExists' = (adminExists \/ HasUsers)
    /\ IF adminExists' THEN UNCHANGED req
       ELSE \E n \in Names, p \in Passwords :
               req' = [req EXCEPT ![r] = [pc |-> "slot", name |-> n, pw |-> p]]
    /\ UNCHANGED <<users, sessions, hashes, tokens, secretsOf>> /\ Untouched

Hashing == {r \in Reqs : req[r].pc \in {"exists", "create", "setupLogin", "setupSession"}}

takeSlotLatching(r) ==
    /\ At(r, "slot")
    /\ IF Cardinality(Hashing) < HashSlots THEN Goto(r, "exists") ELSE Done(r)
    /\ adminExists' = TRUE
    /\ UNCHANGED <<users, sessions, hashes, tokens, secretsOf>> /\ Untouched

takeSlot(r) ==
    /\ At(r, "slot")
    /\ IF Cardinality(Hashing) < HashSlots THEN Goto(r, "exists") ELSE Done(r)
    /\ UNCHANGED <<users, sessions, hashes, tokens, adminExists, secretsOf>> /\ Untouched

SetupHasUsers(r) ==
    /\ At(r, "exists")
    /\ IF HasUsers THEN adminExists' = TRUE /\ Done(r)
       ELSE adminExists' = adminExists /\ Goto(r, "create")
    /\ UNCHANGED <<users, sessions, hashes, tokens, secretsOf>> /\ Untouched

(* CreateFirstUser, one INSERT ... WHERE NOT EXISTS, and writeSecrets. *)
nameFree(n) == users[n] = <<>>
NoUsersYet(n) == ~HasUsers
CreateFirstUser(r) ==
    /\ At(r, "create") /\ hashes < MaxHashes
    /\ LET n == req[r].name
       IN  IF NoUsersYet(n)
           THEN /\ users' = [users EXCEPT ![n] = <<NewHash(req[r].pw)>>]
                /\ \E stored \in BOOLEAN :
                      secretsOf' = IF stored THEN secretsOf \cup {n} ELSE secretsOf
                /\ Goto(r, "setupLogin")
           ELSE users' = users /\ secretsOf' = secretsOf /\ Done(r)
    /\ hashes' = hashes + 1 /\ adminExists' = TRUE
    /\ UNCHANGED <<sessions, tokens>> /\ Untouched

(* POST /login, up to the limiter's answer; GetByUsername and               *)
(* VerifyPassword; then the session.                                        *)
handleLogin(r) ==
    /\ At(r, "idle")
    /\ \E k \in Clients, n \in Names, p \in Passwords :
          /\ attempts' = Allowed(k)
          /\ Seen(k)
          /\ req' = IF Refused(k) THEN req
                    ELSE [req EXCEPT ![r] = [pc |-> "login", name |-> n, pw |-> p, client |-> k]]
    /\ UNCHANGED <<users, sessions, hashes, tokens, adminExists, secretsOf>>

Verified(n, p) == users[n] # <<>> /\ users[n][1].pw = p

Login(r) ==
    /\ req[r].pc \in {"login", "setupLogin"}
    /\ IF Verified(req[r].name, req[r].pw)
       THEN /\ req' = [req EXCEPT ![r] = [pc |-> IF At(r, "login") THEN "session" ELSE "setupSession",
                                          name |-> @.name, hash |-> users[@.name][1],
                                          client |-> IF At(r, "login") THEN @.client ELSE ""]]
            /\ Untouched
       ELSE /\ Done(r)
            /\ IF At(r, "login") THEN attempts' = fail(req[r].client) /\ Seen(req[r].client)
               ELSE Untouched
    /\ UNCHANGED <<users, sessions, hashes, tokens, adminExists, secretsOf>>

newSession(r) ==
    /\ req[r].pc \in {"session", "setupSession", "changeSession"} /\ tokens < MaxTokens
    /\ LET made == CreateSessionForCredential(req[r].name, req[r].hash)
       IN  /\ IF made THEN Insert(req[r].name, req[r].hash) ELSE UNCHANGED <<sessions, tokens>>
           /\ IF At(r, "session")
              THEN /\ attempts' = IF made THEN Without(attempts, req[r].client)
                                  ELSE fail(req[r].client)
                   /\ Seen(req[r].client)
              ELSE Untouched
    /\ Done(r)
    /\ UNCHANGED <<users, hashes, adminExists, secretsOf>>

(* ChangePassword, for the user of a valid session; RotateCredentialIf-     *)
(* Current compares the hash that was read before the hashing.              *)
ChangePassword(r) ==
    /\ At(r, "idle")
    /\ \E s \in {t \in sessions : ValidateSession(t)}, old, new \in Passwords :
          /\ Verified(s.user, old)
          /\ req' = [req EXCEPT ![r] = [pc |-> "rotate", name |-> s.user,
                                        was |-> users[s.user], pw |-> new]]
    /\ UNCHANGED <<users, sessions, hashes, tokens, adminExists, secretsOf>> /\ Untouched

RotateCredentialIfCurrent(r) ==
    /\ At(r, "rotate") /\ hashes < MaxHashes
    /\ hashes' = hashes + 1
    /\ IF users[req[r].name] = req[r].was
       THEN /\ Rotate(req[r].name, NewHash(req[r].pw))
            /\ req' = [req EXCEPT ![r] = [pc |-> "changeSession", name |-> @.name,
                                          hash |-> NewHash(@.pw), client |-> ""]]
       ELSE UNCHANGED <<users, sessions>> /\ Done(r)
    /\ UNCHANGED <<tokens, adminExists, secretsOf>> /\ Untouched

(* canticle admin set-password, from another process. *)
SetPassword(n, p) ==
    /\ hashes < MaxHashes /\ users[n] # <<>>
    /\ hashes' = hashes + 1 /\ Rotate(n, NewHash(p))
    /\ UNCHANGED <<tokens, req, adminExists, secretsOf>> /\ Untouched

Logout(s) ==
    /\ s \in sessions
    /\ sessions' = sessions \ {s}
    /\ UNCHANGED <<users, hashes, tokens, req, adminExists, secretsOf>> /\ Untouched

Expires(s) ==
    /\ s \in sessions /\ s.live
    /\ sessions' = (sessions \ {s}) \cup {[s EXCEPT !.live = FALSE]}
    /\ UNCHANGED <<users, hashes, tokens, req, adminExists, secretsOf>> /\ Untouched

sweepSessions ==
    /\ \E s \in sessions : ~s.live
    /\ sessions' = {s \in sessions : s.live}
    /\ UNCHANGED <<users, hashes, tokens, req, adminExists, secretsOf>> /\ Untouched

(* bootstrapAdminFromEnv, when the server starts. *)
bootstrapAdminFromEnv ==
    /\ ~HasUsers /\ hashes < MaxHashes /\ \A r \in Reqs : At(r, "idle")
    /\ \E n \in Names, p \in Passwords : users' = [users EXCEPT ![n] = <<NewHash(p)>>]
    /\ hashes' = hashes + 1
    /\ UNCHANGED <<sessions, tokens, req, adminExists, secretsOf>> /\ Untouched

(* Any page behind FirstRunGate: the first one to see the account latches. *)
FirstRunGate ==
    /\ HasUsers /\ ~adminExists
    /\ adminExists' = TRUE
    /\ UNCHANGED <<users, sessions, hashes, tokens, req, secretsOf>> /\ Untouched

(* A statement fails: a sign-in counts as failed whatever the reason. *)
DatabaseError(r) ==
    /\ ~At(r, "idle") /\ ~At(r, "slot") /\ Done(r)
    /\ IF req[r].pc \in {"login", "session"}
       THEN attempts' = fail(req[r].client) /\ Seen(req[r].client)
       ELSE Untouched
    /\ UNCHANGED <<users, sessions, hashes, tokens, adminExists, secretsOf>>

Restart ==
    /\ req' = [r \in Reqs |-> Idle] /\ adminExists' = FALSE /\ attempts' = <<>> /\ idle' = {}
    /\ UNCHANGED <<users, sessions, hashes, tokens, secretsOf>>

Next ==
    \/ \E r \in Reqs : \/ handleSetup(r) \/ takeSlot(r) \/ SetupHasUsers(r) \/ CreateFirstUser(r)
                       \/ handleLogin(r) \/ Login(r) \/ newSession(r)
                       \/ ChangePassword(r) \/ RotateCredentialIfCurrent(r) \/ DatabaseError(r)
    \/ \E n \in Names, p \in Passwords : SetPassword(n, p)
    \/ \E s \in sessions : Logout(s) \/ Expires(s)
    \/ sweepSessions \/ bootstrapAdminFromEnv \/ FirstRunGate \/ LockElapses \/ GrowIdle \/ Restart

Spec == Init /\ [][Next]_vars
-----------------------------------------------------------------------------
(* No session outlives the credential it was opened with: every session row *)
(* was issued for the hash the account has now, however the sign-ins, the   *)
(* password changes and the command line interleave (user_store.go:253,     *)
(* session_store.go:115).                                                   *)
SessionsMatchCredential == \A s \in sessions : users[s.user] = <<s.issued>>

(* Concurrent setups make one account, and only the form that made it had   *)
(* its secrets stored (user_store.go:143, setup.go:350).                    *)
SetupDecidedOnce ==
    /\ Cardinality({n \in Names : users[n] # <<>>}) <= 1
    /\ \A n \in secretsOf : users[n] # <<>>

(* The latch that closes /setup is only ever set once there is an account   *)
(* (setup.go:131): a request can lose the race, but never lock the operator *)
(* out of an empty installation.                                            *)
LatchMeansAdmin == adminExists => HasUsers

(* The limiter forgets nothing it must not and holds no more than it may:   *)
(* the table stays within its limit, and an address is at or past the       *)
(* limit exactly while it has a lockout; sign-ins admitted before the       *)
(* lockout can only push the count past it by their number                  *)
(* (ratelimit.go:100).                                                      *)
LimiterBounded ==
    /\ Len(attempts) <= MaxEntries
    /\ \A i \in DOMAIN attempts :
          /\ attempts[i].failures < MaxFailures + Cardinality(Reqs)
          /\ (attempts[i].failures >= MaxFailures) <=> (attempts[i].locked # "no")

(* An active lockout ends only by its own clock, by a restart, or by a      *)
(* sign-in of that address that had been admitted before it; making room    *)
(* for other addresses never lifts one (ratelimit.go:134, 153).             *)
LockoutHolds ==
       \A k \in Clients :
         (Refused(k) /\ ~Refused(k)') =>
            \/ attempts' = <<>> /\ idle' = {} /\ \A r \in Reqs : req'[r] = Idle
            \/ \E i \in EntryOf(k) : i \in DOMAIN attempts' /\ attempts'[i].locked = "over"
            \/ \E r \in Reqs : /\ At(r, "session") /\ req[r].client = k
                               /\ tokens' = tokens + 1 /\ req'[r] = Idle

Hashes == [pw : Passwords, salt : 0 .. MaxHashes]
TypeOK ==
    /\ users \in [Names -> {<<>>} \cup {<<h>> : h \in Hashes}]
    /\ sessions \subseteq [tok : 0 .. MaxTokens, user : Names, issued : Hashes, live : BOOLEAN]
    /\ hashes \in 0 .. MaxHashes /\ tokens \in 0 .. MaxTokens /\ adminExists \in BOOLEAN
    /\ secretsOf \subseteq Names
    /\ idle \subseteq Keys /\ Cardinality(Keys) = Len(attempts)
=============================================================================
