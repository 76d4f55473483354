------------------------------ MODULE Accounts ------------------------------
(***************************************************************************)
(* Accounts of the Server: the first installation, login and its rate      *)
(* limit, sessions, users and tenant tokens (server/auth_handlers.go,      *)
(* server/users_tokens.go, auth/, store/auth.go, store/users_tokens.go).   *)
(*                                                                         *)
(* A request is a process: what it reads from the store, the principal it  *)
(* resolves included, may be old when it writes. UpdateUser is one         *)
(* transaction of SQLite in WAL mode: it reads a snapshot, and its write   *)
(* fails if anything was written since. There is one tenant, as the server *)
(* creates no other. Data abstracted: a password is its number, raised     *)
(* together with "disabled" (the epoch of a user); a token has a role      *)
(* instead of scopes. Who may set up (a local client, or one who has the   *)
(* one-time token) is left open.                                           *)
(***************************************************************************)
EXTENDS Integers, Sequences, FiniteSets

CONSTANTS
    Users,          \* user names
    Sids, Tids,     \* identifiers of sessions and tokens, each used once
    Requests,
    Clients,        \* addresses the limiter tells apart
    None, Gone,     \* nothing yet; a session that was deleted
    Roles,          \* with "admin"
    TTL,            \* of sessions, and of tokens that expire
    LegacyToken,    \* the server has a shared token, its bearer is an admin
    Per, Window, MaxKeys,   \* of the limiter
    MaxTime, MaxEpoch, MaxRestarts

ASSUME AccountAssumption ==
    /\ "admin" \in Roles /\ None \notin Roles /\ None \notin Requests /\ Gone # None
    /\ None \notin Clients
    /\ LegacyToken \in BOOLEAN
    /\ {TTL, Per, Window, MaxKeys} \subseteq Nat \ {0}
    /\ {MaxTime, MaxEpoch, MaxRestarts} \subseteq Nat

\* rows of users, sessions and tenant_tokens
User    == [role : Roles, disabled : BOOLEAN, epoch : Nat]
Session == [user : Users, expires : Nat, epoch : Nat]
Token   == [role : Roles, expires : Nat, revoked : BOOLEAN]

ASSUME RowsAssumption ==
    None \notin User /\ None \notin Session /\ None \notin Token /\ Gone \notin Session

VARIABLES
    users,          \* None, or [role, disabled, epoch]
    sessions,       \* None, Gone, or [user, expires, epoch]
    tokens,         \* None, or [role, expires, revoked]
    forced,         \* authForced
    hits,           \* of the limiter
    req,            \* what each request is about to do
    stale,          \* transactions whose snapshot is old
    now, restarts,
    \* history
    setups,         \* successful installations
    late,           \* sessions of a login that had read an older user
    grants, evicted \* what the limiter allowed, and whom it forgot

storeVars   == <<users, sessions, tokens>>
historyVars == <<setups, late, grants, evicted>>
vars == <<storeVars, forced, hits, req, stale, now, restarts, historyVars>>

Idle == [pc |-> "idle"]

Init ==
    /\ users = [u \in Users |-> None]
    /\ sessions = [s \in Sids |-> None] /\ tokens = [t \in Tids |-> None]
    /\ forced = FALSE
    /\ hits = [k \in Clients |-> <<>>]
    /\ req = [r \in Requests |-> Idle] /\ stale = {}
    /\ now = 0 /\ restarts = 0
    /\ setups = 0 /\ late = {}
    /\ grants = [k \in Clients |-> <<>>] /\ evicted = {}

Becomes(r, state) == req' = [req EXCEPT ![r] = state]

\* a write makes the snapshot of every other transaction an old one
Written(r) == stale' = {x \in Requests \ {r} : req[x].pc = "update"}

Existing == {u \in Users : users[u] # None}

EnabledAdmins == {u \in Existing : users[u].role = "admin" /\ ~users[u].disabled}

(***************************************************************************)
(* Who asks                                                                *)
(***************************************************************************)

\* UserBySession
Honoured(s) ==
    /\ sessions[s] \notin {None, Gone}
    /\ sessions[s].expires > now /\ ~users[sessions[s].user].disabled

\* validTenantToken
ValidToken(t) == tokens[t] # None /\ ~tokens[t].revoked /\ tokens[t].expires > now

\* tenantTokenPrincipal
AdminToken(t) == ValidToken(t) /\ tokens[t].role = "admin"

\* currentPrincipal, RoleAllows: somebody with the role of an admin
AdminAsks ==
    \/ LegacyToken
    \/ \E s \in Sids : Honoured(s) /\ users[sessions[s].user].role = "admin"
    \/ \E t \in Tids : AdminToken(t)

(***************************************************************************)
(* The limiter                                                             *)
(***************************************************************************)

\* the times that are in the window at a moment
Recent(times, at) ==
    LET upto[n \in 0..Len(times)] ==
            IF n = 0 THEN <<>>
            ELSE IF at - times[n] < Window THEN Append(upto[n - 1], times[n]) ELSE upto[n - 1]
    IN  upto[Len(times)]

Kept(k) == Recent(hits[k], now)

\* pruneLocked
Remembered == {k \in Clients : Kept(k) # <<>>}

Pruned == [k \in Clients |-> IF k \in Remembered THEN hits[k] ELSE <<>>]

\* Mutant: one attempt too many.
FullLate(k) == Len(Kept(k)) > Per

Full(k) == Len(Kept(k)) >= Per

\* evictIfNeededLocked: the key with the oldest first hit
Victims(k) ==
    IF k \in Remembered \/ Cardinality(Remembered) < MaxKeys THEN {None}
    ELSE {v \in Remembered : \A x \in Remembered : hits[v][1] <= hits[x][1]}

\* Allow says no
Refuse(k) ==
    /\ Full(k)
    /\ hits' = [Pruned EXCEPT ![k] = Kept(k)]
    /\ UNCHANGED <<grants, evicted>>

\* Allow
Allow(k) ==
    /\ ~Full(k)
    /\ \E v \in Victims(k) :
          /\ hits' = [x \in Clients |-> CASE x = k -> Append(Kept(k), now)
                                          [] x = v -> <<>>
                                          [] OTHER -> Pruned[x]]
          /\ evicted' = evicted \cup ({v} \ {None})
    /\ grants' = [x \in Clients |-> IF x \in evicted' THEN <<>> ELSE
                                   IF x = k THEN Append(grants[x], now) ELSE grants[x]]

(***************************************************************************)
(* Installation, login, logout                                             *)
(***************************************************************************)

\* as CreateInitialAdmin and CreateUser insert it
NewUser(role) == [role |-> role, disabled |-> FALSE, epoch |-> 0]

\* handleAuthSetup: nobody there yet
Setup(r) ==
    /\ req[r] = Idle /\ Existing = {}
    /\ Becomes(r, [pc |-> "setup"])
    /\ UNCHANGED <<storeVars, forced, hits, stale, now, restarts, historyVars>>

\* Mutant: the statement does not ask whether there is a user.
VacantAlways == TRUE

Vacant == Existing = {}

\* CreateInitialAdmin: one statement
CreateInitialAdmin(r) ==
    /\ req[r].pc = "setup"
    /\ \/ /\ Vacant
          /\ \E u \in Users \ Existing :
                /\ users' = [users EXCEPT ![u] = NewUser("admin")]
                /\ Becomes(r, [pc |-> "created", user |-> u])
          /\ setups' = setups + 1 /\ Written(r)
       \/ ~Vacant /\ Becomes(r, Idle) /\ UNCHANGED <<users, setups, stale>>
    /\ UNCHANGED <<sessions, tokens, forced, hits, now, restarts, late, grants, evicted>>

\* account mode, then a session as after a login
SetupEnds(r) ==
    /\ req[r].pc = "created"
    /\ forced' = TRUE
    /\ Becomes(r, [pc |-> "login", user |-> req[r].user, epoch |-> 0])
    /\ UNCHANGED <<storeVars, hits, stale, now, restarts, historyVars>>

\* handleAuthLogin: the limiter, then the user as of now
LoginRefused(r) ==
    /\ req[r] = Idle
    /\ \E k \in Clients : Refuse(k)
    /\ UNCHANGED <<storeVars, forced, req, stale, now, restarts, setups, late>>

Login(r) ==
    /\ req[r] = Idle
    /\ \E k \in Clients : Allow(k)
    /\ \/ \E u \in Existing : /\ ~users[u].disabled
                              /\ Becomes(r, [pc |-> "login", user |-> u, epoch |-> users[u].epoch])
       \/ UNCHANGED req
    /\ UNCHANGED <<storeVars, forced, stale, now, restarts, setups, late>>

\* the row of Store.CreateSession
NewSession(login) == [user |-> login.user, expires |-> now + TTL, epoch |-> login.epoch]

\* newSessionFor: whatever became of the user meanwhile
CreateSession(r) ==
    /\ req[r].pc = "login"
    /\ \E s \in Sids :
          /\ sessions[s] = None
          /\ sessions' = [sessions EXCEPT ![s] = NewSession(req[r])]
          /\ late' = IF req[r].epoch = users[req[r].user].epoch THEN late ELSE late \cup {s}
    /\ Becomes(r, Idle) /\ Written(r)
    /\ UNCHANGED <<users, tokens, forced, hits, now, restarts, setups, grants, evicted>>

\* handleAuthLogout
Logout(s) ==
    /\ sessions[s] \notin {None, Gone}
    /\ sessions' = [sessions EXCEPT ![s] = Gone]
    /\ Written(None)
    /\ UNCHANGED <<users, tokens, forced, hits, req, now, restarts, historyVars>>

(***************************************************************************)
(* Users and tokens: requireAdmin, and the handler later                   *)
(***************************************************************************)

RequireAdmin(r) ==
    /\ req[r] = Idle /\ AdminAsks
    /\ Becomes(r, [pc |-> "admitted"])
    /\ UNCHANGED <<storeVars, forced, hits, stale, now, restarts, historyVars>>

\* handleCreateUser: a name that is taken is refused
CreateUser(r) ==
    /\ req[r].pc = "admitted"
    /\ \E u \in Users \ Existing, role \in Roles :
          users' = [users EXCEPT ![u] = NewUser(role)]
    /\ Becomes(r, Idle) /\ Written(r)
    /\ UNCHANGED <<sessions, tokens, forced, hits, now, restarts, historyVars>>

Patches == [role : Roles \cup {None}, disabled : BOOLEAN \cup {None}, password : BOOLEAN]

\* what the user would be, UpdateUser
Patched(user, patch) ==
    LET disabled == IF patch.disabled = None THEN user.disabled ELSE patch.disabled
    IN  [role     |-> IF patch.role = None THEN user.role ELSE patch.role,
         disabled |-> disabled,
         epoch    |-> user.epoch + IF disabled \/ patch.password THEN 1 ELSE 0]

\* the last enabled admin stays one
LastAdmin(u, patched) ==
    /\ EnabledAdmins = {u}
    /\ patched.disabled \/ patched.role # "admin"

\* the transaction reads
BeginUpdate(r) ==
    /\ req[r].pc = "admitted"
    /\ \E u \in Existing, patch \in Patches :
          LET patched == Patched(users[u], patch)
          IN  /\ patched.epoch <= MaxEpoch
              /\ Becomes(r, IF LastAdmin(u, patched) THEN Idle
                            ELSE [pc |-> "update", user |-> u, to |-> patched])
    /\ stale' = stale \ {r}
    /\ UNCHANGED <<storeVars, forced, hits, now, restarts, historyVars>>

\* nobody wrote since the transaction read
Current(r) == r \notin stale

\* Mutant: only a disabled user loses the sessions.
RevokesDisabled(r) == req[r].to.disabled

\* disabled, or with a new password
Revokes(r) == req[r].to.epoch > users[req[r].user].epoch

\* and writes
EndUpdate(r) ==
    /\ req[r].pc = "update" /\ Current(r)
    /\ users' = [users EXCEPT ![req[r].user] = req[r].to]
    /\ sessions' = [s \in Sids |->
                      IF /\ Revokes(r) /\ sessions[s] \notin {None, Gone}
                         /\ sessions[s].user = req[r].user
                      THEN Gone ELSE sessions[s]]
    /\ Becomes(r, Idle) /\ Written(r)
    /\ UNCHANGED <<tokens, forced, hits, now, restarts, historyVars>>

\* busy, or an old snapshot: an error to the client
UpdateFails(r) ==
    /\ req[r].pc = "update"
    /\ Becomes(r, Idle)
    /\ UNCHANGED <<storeVars, forced, hits, stale, now, restarts, historyVars>>

\* the row of CreateTenantToken
NewToken(role) == [role |-> role, expires |-> now + TTL, revoked |-> FALSE]

\* handleCreateToken
CreateToken(r) ==
    /\ req[r].pc = "admitted"
    /\ \E t \in Tids, role \in Roles :
          /\ tokens[t] = None
          /\ tokens' = [tokens EXCEPT ![t] = NewToken(role)]
    /\ Becomes(r, Idle) /\ Written(r)
    /\ UNCHANGED <<users, sessions, forced, hits, now, restarts, historyVars>>

\* RevokeTenantToken changes it
Revocable(t) == tokens[t] # None /\ ~tokens[t].revoked

\* handleDeleteToken
RevokeToken(r) ==
    /\ req[r].pc = "admitted"
    /\ \E t \in Tids : Revocable(t) /\ tokens' = [tokens EXCEPT ![t].revoked = TRUE]
    /\ Becomes(r, Idle) /\ Written(r)
    /\ UNCHANGED <<users, sessions, forced, hits, now, restarts, historyVars>>

(***************************************************************************)
(* Time and restarts                                                       *)
(***************************************************************************)

Tick ==
    /\ now < MaxTime
    /\ now' = now + 1
    /\ grants' = [k \in Clients |-> Recent(grants[k], now + 1)]
    /\ UNCHANGED <<storeVars, forced, hits, req, stale, restarts, setups, late, evicted>>

\* hydrate: account mode if there is a user; the limiter starts empty
Restart ==
    /\ restarts < MaxRestarts /\ restarts' = restarts + 1
    /\ forced' = (Existing # {})
    /\ hits' = [k \in Clients |-> <<>>]
    /\ grants' = [k \in Clients |-> <<>>] /\ evicted' = {}
    /\ req' = [r \in Requests |-> Idle] /\ stale' = {}
    /\ UNCHANGED <<storeVars, now, setups, late>>

Serve(r) ==
    \/ Setup(r) \/ CreateInitialAdmin(r) \/ SetupEnds(r)
    \/ LoginRefused(r) \/ Login(r) \/ CreateSession(r) \/ RequireAdmin(r) \/ CreateUser(r)
    \/ BeginUpdate(r) \/ EndUpdate(r) \/ UpdateFails(r) \/ CreateToken(r) \/ RevokeToken(r)

Next == (\E r \in Requests : Serve(r)) \/ (\E s \in Sids : Logout(s)) \/ Tick \/ Restart

Spec == Init /\ [][Next]_vars

(***************************************************************************)
(* Properties                                                              *)
(***************************************************************************)

(* internal/store/auth.go:97-98, users_tokens.go:334: of concurrent          *)
(* installations one succeeds, from then on an enabled admin is left by      *)
(* whatever concurrent updates do, and the server asks for credentials.      *)
AlwaysAnAdmin ==
    /\ setups <= 1
    /\ Existing # {} => EnabledAdmins # {}
    /\ Existing # {} /\ (\A r \in Requests : req[r].pc # "created") => forced

(* internal/store/users_tokens.go:335, a disabled user or one with a new     *)
(* password loses all sessions, and an enabled one gets none of them back:   *)
(* but for a login that had read the user before.                            *)
SessionsEnd ==
    \A s \in Sids \ late : Honoured(s) =>
        sessions[s].epoch = users[sessions[s].user].epoch

(* internal/auth/ratelimit.go:73-74: no client is let through more than Per  *)
(* times in any Window, unless its record made room for another one, and no  *)
(* more than MaxKeys records are kept.                                       *)
LoginLimited ==
    /\ \A k \in Clients \ evicted : Len(Recent(grants[k], now)) <= Per
    /\ Cardinality({k \in Clients : hits[k] # <<>>}) <= MaxKeys
=============================================================================
