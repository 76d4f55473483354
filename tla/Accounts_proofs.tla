--------------------------- MODULE Accounts_proofs ---------------------------
(***************************************************************************)
(* Theorems about Accounts, for every set of users, requests, sessions and *)
(* tokens and every bound.                                                 *)
(***************************************************************************)
EXTENDS Accounts, FiniteSetTheorems, WellFoundedInduction, TLAPS

-----------------------------------------------------------------------------
(* Typing *)

Req ==
    [pc : {"idle", "setup", "admitted"}]
    \cup [pc : {"created"}, user : Users]
    \cup [pc : {"login"}, user : Users, epoch : Nat]
    \cup [pc : {"update"}, user : Users, to : User]

(* The rows and the requests; what the limiter keeps is of no matter here.  *)
TypeOK ==
    /\ users \in [Users -> User \cup {None}]
    /\ sessions \in [Sids -> Session \cup {None, Gone}]
    /\ tokens \in [Tids -> Token \cup {None}]
    /\ req \in [Requests -> Req]
    /\ now \in Nat /\ setups \in Nat

(* What a request may be. *)
LEMMA RequestType ==
    /\ Idle \in Req
    /\ \A u \in Users : [pc |-> "created", user |-> u] \in Req
    /\ \A u \in Users, n \in Nat : [pc |-> "login", user |-> u, epoch |-> n] \in Req
    /\ \A u \in Users, to \in User : [pc |-> "update", user |-> u, to |-> to] \in Req
BY DEF Req, Idle

(* What a patch makes of a user is a user; the epoch grows or stays.        *)
LEMMA PatchedType ==
    ASSUME NEW user \in User, NEW patch \in Patches
    PROVE  Patched(user, patch) \in User /\ Patched(user, patch).epoch >= user.epoch
BY DEF User, Patches, Patched

(* A new user is there, and is not disabled.                                *)
LEMMA NewUserType ==
    ASSUME NEW role \in Roles
    PROVE  NewUser(role) \in User /\ NewUser(role) # None
<1>1. NewUser(role) \in User
  BY DEF NewUser, User
<1> QED
  BY <1>1, RowsAssumption

LEMMA TypeInit == Init => TypeOK
BY DEF Init, TypeOK, Req, Idle

(* Every step keeps the types. *)
LEMMA TypeStep ==
    ASSUME TypeOK, [Next]_vars
    PROVE  TypeOK'
<1> USE AccountAssumption, RowsAssumption DEF TypeOK, Req, User, Session, Token, Becomes,
        Written, Idle, storeVars, historyVars
<1>1. ASSUME NEW r \in Requests, Serve(r)
      PROVE  TypeOK'
  <2>1. CASE Setup(r)
    BY <2>1 DEF Setup
  <2>2. CASE CreateInitialAdmin(r)
    <3>1. CASE \E u \in Users \ Existing : /\ users' = [users EXCEPT ![u] = NewUser("admin")]
                                          /\ Becomes(r, [pc |-> "created", user |-> u])
      BY <2>2, <3>1, RequestType DEF CreateInitialAdmin, NewUser
    <3>2. CASE Becomes(r, Idle) /\ UNCHANGED users
      BY <2>2, <3>2 DEF CreateInitialAdmin
    <3> QED
      BY <2>2, <3>1, <3>2 DEF CreateInitialAdmin
  <2>3. CASE SetupEnds(r)
    BY <2>3 DEF SetupEnds
  <2>4. CASE LoginRefused(r)
    BY <2>4 DEF LoginRefused
  <2>5. CASE Login(r)
    <3>1. CASE UNCHANGED req
      BY <2>5, <3>1 DEF Login
    <3>2. ASSUME NEW u \in Existing,
                 Becomes(r, [pc |-> "login", user |-> u, epoch |-> users[u].epoch])
          PROVE  TypeOK'
      <4>1. u \in Users /\ users[u].epoch \in Nat
        BY DEF Existing
      <4> QED
        BY <2>5, <3>2, <4>1, RequestType DEF Login
    <3> QED
      BY <2>5, <3>1, <3>2 DEF Login
  <2>6. CASE CreateSession(r)
    BY <2>6 DEF CreateSession, NewSession
  <2>7. CASE RequireAdmin(r)
    BY <2>7 DEF RequireAdmin
  <2>8. CASE CreateUser(r)
    BY <2>8 DEF CreateUser, NewUser
  <2>9. CASE BeginUpdate(r)
    <3>1. PICK u \in Existing, patch \in Patches :
            \/ Becomes(r, Idle)
            \/ Becomes(r, [pc |-> "update", user |-> u, to |-> Patched(users[u], patch)])
      BY <2>9 DEF BeginUpdate
    <3>2. u \in Users /\ users[u] \in User
      BY DEF Existing
    <3>3. Patched(users[u], patch) \in User
      BY <3>2, PatchedType
    <3>4. req' \in [Requests -> Req]
      BY <3>1, <3>2, <3>3, RequestType DEF Becomes
    <3> QED
      BY <2>9, <3>4 DEF BeginUpdate
  <2>10. CASE EndUpdate(r)
    BY <2>10 DEF EndUpdate, Current, Revokes
  <2>11. CASE UpdateFails(r)
    BY <2>11 DEF UpdateFails
  <2>12. CASE CreateToken(r)
    BY <2>12 DEF CreateToken, NewToken
  <2>13. CASE RevokeToken(r)
    <3>1. PICK t \in Tids : Revocable(t) /\ tokens' = [tokens EXCEPT ![t].revoked = TRUE]
      BY <2>13 DEF RevokeToken
    <3>2. [tokens[t] EXCEPT !.revoked = TRUE] \in Token
      BY <3>1 DEF Revocable
    <3> QED
      BY <2>13, <3>1, <3>2 DEF RevokeToken
  <2> QED
    BY <1>1, <2>1, <2>2, <2>3, <2>4, <2>5, <2>6, <2>7, <2>8, <2>9, <2>10, <2>11, <2>12,
       <2>13 DEF Serve
<1>2. ASSUME NEW s \in Sids, Logout(s)
      PROVE  TypeOK'
  BY <1>2 DEF Logout
<1>3. CASE Tick
  BY <1>3 DEF Tick
<1>4. CASE Restart
  BY <1>4 DEF Restart
<1>5. CASE UNCHANGED vars
  BY <1>5 DEF vars
<1> QED
  BY <1>1, <1>2, <1>3, <1>4, <1>5 DEF Next

-----------------------------------------------------------------------------
(* Users are never removed *)

Live(s) == sessions[s] \notin {None, Gone}

(* Sessions and requests name users that exist.                             *)
RefsOK ==
    /\ \A s \in Sids : Live(s) => users[sessions[s].user] # None
    /\ \A r \in Requests :
          req[r].pc \in {"created", "login", "update"} => users[req[r].user] # None

LEMMA RefsInit == Init => RefsOK
BY DEF Init, RefsOK, Live, Idle

(* Whatever a step makes of the rows, who is named stays.                   *)
LEMMA RefsStep ==
    ASSUME TypeOK, RefsOK, [Next]_vars
    PROVE  RefsOK'
<1> USE AccountAssumption, RowsAssumption DEF TypeOK, RefsOK, Live, Req, User, Session,
        Existing, Becomes, Written, Idle, storeVars, historyVars
<1>1. ASSUME NEW r \in Requests, Serve(r)
      PROVE  RefsOK'
  <2>1. CASE Setup(r)
    BY <2>1 DEF Setup
  <2>2. CASE CreateInitialAdmin(r)
    <3>1. CASE \E u \in Users \ Existing : /\ users' = [users EXCEPT ![u] = NewUser("admin")]
                                          /\ Becomes(r, [pc |-> "created", user |-> u])
      <4>1. NewUser("admin") # None
        BY NewUserType
      <4>2. PICK u \in Users \ Existing : /\ users' = [users EXCEPT ![u] = NewUser("admin")]
                                          /\ Becomes(r, [pc |-> "created", user |-> u])
        BY <3>1
      <4>3. \A x \in Users : users[x] # None => users'[x] # None
        BY <4>1, <4>2
      <4>4. req'[r].user = u /\ users'[u] # None
        BY <4>1, <4>2
      <4>5. \A x \in Requests \ {r} : req'[x] = req[x]
        BY <4>2
      <4> QED
        BY <2>2, <4>3, <4>4, <4>5 DEF CreateInitialAdmin
    <3>2. CASE Becomes(r, Idle) /\ UNCHANGED users
      BY <2>2, <3>2 DEF CreateInitialAdmin
    <3> QED
      BY <2>2, <3>1, <3>2 DEF CreateInitialAdmin
  <2>3. CASE SetupEnds(r)
    BY <2>3 DEF SetupEnds
  <2>4. CASE LoginRefused(r)
    BY <2>4 DEF LoginRefused
  <2>5. CASE Login(r)
    BY <2>5 DEF Login
  <2>6. CASE CreateSession(r)
    BY <2>6 DEF CreateSession, NewSession
  <2>7. CASE RequireAdmin(r)
    BY <2>7 DEF RequireAdmin
  <2>8. CASE CreateUser(r)
    BY <2>8 DEF CreateUser, NewUser
  <2>9. CASE BeginUpdate(r)
    BY <2>9 DEF BeginUpdate
  <2>10. CASE EndUpdate(r)
    BY <2>10 DEF EndUpdate, Current, Revokes
  <2>11. CASE UpdateFails(r)
    BY <2>11 DEF UpdateFails
  <2>12. CASE CreateToken(r)
    BY <2>12 DEF CreateToken, NewToken
  <2>13. CASE RevokeToken(r)
    BY <2>13 DEF RevokeToken, Revocable
  <2> QED
    BY <1>1, <2>1, <2>2, <2>3, <2>4, <2>5, <2>6, <2>7, <2>8, <2>9, <2>10, <2>11, <2>12,
       <2>13 DEF Serve
<1>2. ASSUME NEW s \in Sids, Logout(s)
      PROVE  RefsOK'
  BY <1>2 DEF Logout
<1>3. CASE Tick
  BY <1>3 DEF Tick
<1>4. CASE Restart
  BY <1>4 DEF Restart
<1>5. CASE UNCHANGED vars
  BY <1>5 DEF vars
<1> QED
  BY <1>1, <1>2, <1>3, <1>4, <1>5 DEF Next

-----------------------------------------------------------------------------
(* Sessions end *)

(* A session that no late login made has the epoch of its user; what a      *)
(* transaction is about to write is not older than what is there, unless    *)
(* somebody wrote since it read.                                            *)
EpochOK ==
    /\ \A s \in Sids \ late : Live(s) => sessions[s].epoch = users[sessions[s].user].epoch
    /\ \A r \in Requests \ stale :
          req[r].pc = "update" => req[r].to.epoch >= users[req[r].user].epoch

LEMMA EpochInit == Init => EpochOK
BY DEF Init, EpochOK, Live, Idle

(* A transaction that raises the epoch of a user removes the sessions.       *)
LEMMA EpochStep ==
    ASSUME TypeOK, RefsOK, EpochOK, [Next]_vars
    PROVE  EpochOK'
<1> USE AccountAssumption, RowsAssumption DEF TypeOK, RefsOK, EpochOK, Live, Req, User,
        Session, Existing, Becomes, Written, Idle, storeVars, historyVars
<1>1. ASSUME NEW r \in Requests, Serve(r)
      PROVE  EpochOK'
  <2>1. CASE Setup(r)
    BY <2>1 DEF Setup
  <2>2. CASE CreateInitialAdmin(r)
    BY <2>2 DEF CreateInitialAdmin, NewUser, Vacant
  <2>3. CASE SetupEnds(r)
    BY <2>3 DEF SetupEnds
  <2>4. CASE LoginRefused(r)
    BY <2>4 DEF LoginRefused
  <2>5. CASE Login(r)
    BY <2>5 DEF Login
  <2>6. CASE CreateSession(r)
    BY <2>6 DEF CreateSession, NewSession
  <2>7. CASE RequireAdmin(r)
    BY <2>7 DEF RequireAdmin
  <2>8. CASE CreateUser(r)
    BY <2>8 DEF CreateUser, NewUser
  <2>9. CASE BeginUpdate(r)
    <3>1. PICK u \in Existing, patch \in Patches :
            \/ Becomes(r, Idle)
            \/ Becomes(r, [pc |-> "update", user |-> u, to |-> Patched(users[u], patch)])
      BY <2>9 DEF BeginUpdate
    <3>2. users[u] \in User
      BY DEF Existing
    <3>3. Patched(users[u], patch).epoch >= users[u].epoch
      BY <3>2, PatchedType
    <3> QED
      BY <2>9, <3>1, <3>3 DEF BeginUpdate
  <2>10. CASE EndUpdate(r)
    <3>1. /\ req[r].pc = "update" /\ req[r].user \in Users /\ req[r].to \in User /\ r \notin stale
          /\ users' = [users EXCEPT ![req[r].user] = req[r].to] /\ late' = late
      BY <2>10 DEF EndUpdate, Current
    <3>2. ASSUME NEW s \in Sids \ late', Live(s)'
          PROVE  sessions'[s].epoch = users'[sessions'[s].user].epoch
      <4>1. /\ sessions'[s] = sessions[s] /\ Live(s)
            /\ sessions[s].user = req[r].user => ~Revokes(r)
        BY <2>10, <3>2 DEF EndUpdate
      <4>2. /\ sessions[s].epoch = users[sessions[s].user].epoch /\ sessions[s].user \in Users
            /\ users[sessions[s].user] # None /\ s \in Sids \ late
        BY <3>1, <3>2, <4>1
      <4>3. CASE sessions[s].user = req[r].user
        <5>1. users'[sessions[s].user] = req[r].to
          BY <3>1, <4>3
        <5>2. req[r].to.epoch = users[req[r].user].epoch
          <6> DEFINE new == req[r].to.epoch
                     old == users[req[r].user].epoch
          <6>1. new >= old
            BY <3>1
          <6>2. ~(new > old)
            BY <4>1, <4>3 DEF Revokes
          <6>3. new \in Nat /\ old \in Nat
            BY <3>1, <4>2, <4>3
          <6> HIDE DEF new, old
          <6>4. new = old
            BY <6>1, <6>2, <6>3
          <6> QED
            BY <6>4 DEF new, old
        <5> QED
          BY <4>1, <4>2, <4>3, <5>1, <5>2
      <4>4. CASE sessions[s].user # req[r].user
        BY <3>1, <4>1, <4>2, <4>4
      <4> QED
        BY <4>3, <4>4
    <3>3. \A x \in Requests \ stale' : req'[x].pc # "update"
      BY <2>10 DEF EndUpdate
    <3> QED
      BY <3>2, <3>3
  <2>11. CASE UpdateFails(r)
    BY <2>11 DEF UpdateFails
  <2>12. CASE CreateToken(r)
    BY <2>12 DEF CreateToken, NewToken
  <2>13. CASE RevokeToken(r)
    BY <2>13 DEF RevokeToken, Revocable
  <2> QED
    BY <1>1, <2>1, <2>2, <2>3, <2>4, <2>5, <2>6, <2>7, <2>8, <2>9, <2>10, <2>11, <2>12,
       <2>13 DEF Serve
<1>2. ASSUME NEW s \in Sids, Logout(s)
      PROVE  EpochOK'
  BY <1>2 DEF Logout
<1>3. CASE Tick
  BY <1>3 DEF Tick
<1>4. CASE Restart
  BY <1>4 DEF Restart
<1>5. CASE UNCHANGED vars
  BY <1>5 DEF vars
<1> QED
  BY <1>1, <1>2, <1>3, <1>4, <1>5 DEF Next

-----------------------------------------------------------------------------
(* An enabled admin *)

(* As long as the only other way in, the shared token, is not configured,   *)
(* every write but the first installation needs a user: installations are   *)
(* counted by whether there is one.                                         *)
AdminOK ==
    /\ setups = 0 <=> Existing = {}
    /\ setups <= 1
    /\ Existing # {} => EnabledAdmins # {}
    /\ \A r \in Requests : req[r].pc = "admitted" => Existing # {}
    /\ \A t \in Tids : tokens[t] # None => Existing # {}
    /\ \A r \in Requests \ stale :
          req[r].pc = "update" => ~LastAdmin(req[r].user, req[r].to)
    /\ Existing # {} /\ (\A r \in Requests : req[r].pc # "created") => forced

LEMMA AdminInit == Init => AdminOK
BY DEF Init, AdminOK, Existing, EnabledAdmins, Idle

(* No step takes the last enabled admin away.                                *)
LEMMA AdminStep ==
    ASSUME TypeOK, RefsOK, AdminOK, ~LegacyToken, [Next]_vars
    PROVE  AdminOK'
<1> USE AccountAssumption, RowsAssumption DEF TypeOK, RefsOK, AdminOK, Live, Req, User,
        Session, Token, Existing, EnabledAdmins, LastAdmin, Becomes, Written, Idle, storeVars, historyVars
<1>1. ASSUME NEW r \in Requests, Serve(r)
      PROVE  AdminOK'
  <2>1. CASE Setup(r)
    BY <2>1 DEF Setup
  <2>2. CASE CreateInitialAdmin(r)
    <3>1. CASE Vacant
      <4>1. PICK u \in Users \ Existing :
              /\ users' = [users EXCEPT ![u] = NewUser("admin")]
              /\ Becomes(r, [pc |-> "created", user |-> u])
        BY <2>2, <3>1 DEF CreateInitialAdmin
      <4>2. NewUser("admin") \in User /\ NewUser("admin") # None
        BY NewUserType
      <4>3. users'[u] = NewUser("admin") /\ req'[r].pc = "created"
        BY <4>1
      <4>4. u \in Existing' /\ u \in EnabledAdmins'
        BY <4>1, <4>2, <4>3 DEF NewUser
      <4>5. setups = 0 /\ setups' = 1 /\ stale' = {x \in Requests \ {r} : req[x].pc = "update"}
        BY <2>2, <3>1 DEF CreateInitialAdmin, Vacant
      <4> QED
        BY <2>2, <4>1, <4>3, <4>4, <4>5 DEF CreateInitialAdmin
    <3>2. CASE ~Vacant
      BY <2>2, <3>2 DEF CreateInitialAdmin
    <3> QED
      BY <3>1, <3>2
  <2>3. CASE SetupEnds(r)
    BY <2>3 DEF SetupEnds
  <2>4. CASE LoginRefused(r)
    BY <2>4 DEF LoginRefused
  <2>5. CASE Login(r)
    BY <2>5 DEF Login
  <2>6. CASE CreateSession(r)
    BY <2>6 DEF CreateSession, NewSession
  <2>7. CASE RequireAdmin(r)
    <3>1. CASE \E s \in Sids : Honoured(s)
      BY <2>7, <3>1 DEF RequireAdmin, Honoured
    <3>2. CASE \E t \in Tids : AdminToken(t)
      BY <2>7, <3>2 DEF RequireAdmin, AdminToken, ValidToken
    <3> QED
      BY <2>7, <3>1, <3>2 DEF RequireAdmin, AdminAsks
  <2>8. CASE CreateUser(r)
    BY <2>8 DEF CreateUser, NewUser
  <2>9. CASE BeginUpdate(r)
    BY <2>9 DEF BeginUpdate
  <2>10. CASE EndUpdate(r)
    BY <2>10 DEF EndUpdate, Current, Revokes
  <2>11. CASE UpdateFails(r)
    BY <2>11 DEF UpdateFails
  <2>12. CASE CreateToken(r)
    BY <2>12 DEF CreateToken, NewToken
  <2>13. CASE RevokeToken(r)
    BY <2>13 DEF RevokeToken, Revocable
  <2> QED
    BY <1>1, <2>1, <2>2, <2>3, <2>4, <2>5, <2>6, <2>7, <2>8, <2>9, <2>10, <2>11, <2>12,
       <2>13 DEF Serve
<1>2. ASSUME NEW s \in Sids, Logout(s)
      PROVE  AdminOK'
  BY <1>2 DEF Logout
<1>3. CASE Tick
  BY <1>3 DEF Tick
<1>4. CASE Restart
  BY <1>4 DEF Restart
<1>5. CASE UNCHANGED vars
  BY <1>5 DEF vars
<1> QED
  BY <1>1, <1>2, <1>3, <1>4, <1>5 DEF Next

-----------------------------------------------------------------------------
(* Least numbers *)

(* The order of the numbers, as the library's theorems take it.             *)
Less == {ss \in Nat \X Nat : ss[1] < ss[2]}

LEMMA LessWellFounded == IsWellFoundedOn(Less, Nat)
<1>1. OpToRel(<, Nat) = Less
  BY DEF OpToRel, Less
<1> QED
  BY <1>1, NatLessThanWellFounded

(* A set of numbers that is not empty has a least one. *)
LEMMA LeastNumber ==
    ASSUME NEW S, S \subseteq Nat, S # {}
    PROVE  \E m \in S : \A n \in S : m <= n
<1>1. PICK m \in S : \A n \in S : <<n, m>> \notin Less
  BY LessWellFounded, WFMin
<1>2. ASSUME NEW n \in S PROVE m <= n
  <2>1. n \in Nat /\ m \in Nat /\ <<n, m>> \in Nat \X Nat
    OBVIOUS
  <2>2. ~(<<n, m>>[1] < <<n, m>>[2])
    BY <1>1, <2>1 DEF Less
  <2> QED
    BY <2>1, <2>2
<1> QED
  BY <1>2

(* So what fails of the numbers up to N fails first somewhere: not at 0, or *)
(* not where it holds of the number before.                                 *)
LEMMA Stepwise ==
    ASSUME NEW N \in Nat, NEW S, 0 \in S,
           \A n \in 1..N : n - 1 \in S => n \in S
    PROVE  0..N \subseteq S
<1> DEFINE Missing == {n \in 0..N : n \notin S}
<1>1. ASSUME Missing # {} PROVE FALSE
  <2>1. PICK m \in Missing : \A n \in Missing : m <= n
    <3>1. Missing \subseteq Nat
      OBVIOUS
    <3> HIDE DEF Missing
    <3> QED
      BY <1>1, <3>1, LeastNumber
  <2>2. m \in 1..N /\ m - 1 \in 0..N /\ ~(m <= m - 1)
    OBVIOUS
  <2>3. m - 1 \in S
    <3>1. m - 1 \notin Missing
      <4> HIDE DEF Missing
      <4> QED
        BY <2>1, <2>2
    <3> QED
      BY <2>2, <3>1
  <2> QED
    BY <2>2, <2>3
<1> QED
  BY <1>1

-----------------------------------------------------------------------------
(* The window of the limiter *)

(* The list of the recent ones among the first n times, from the one before. *)
RecentStep(times, at, g, n) ==
    IF n = 0 THEN <<>>
    ELSE IF at - times[n] < Window THEN Append(g[n - 1], times[n]) ELSE g[n - 1]

RecentUpTo(times, at) ==
    CHOOSE g : g = [n \in 0..Len(times) |-> RecentStep(times, at, g, n)]

(* There is such a list for every n. *)
LEMMA RecentExists ==
    ASSUME NEW times, NEW at, Len(times) \in Nat
    PROVE  \E g : g = [n \in 0..Len(times) |-> RecentStep(times, at, g, n)]
<1> DEFINE With == {m \in 0..Len(times) :
                      \E g : g = [n \in 0..m |-> RecentStep(times, at, g, n)]}
<1>1. 0 \in With
  <2> DEFINE h == [n \in 0..0 |-> <<>>]
  <2>1. h = [n \in 0..0 |-> RecentStep(times, at, h, n)]
    BY DEF RecentStep
  <2> HIDE DEF h
  <2> QED
    BY <2>1
<1>2. ASSUME NEW m \in 1..Len(times), m - 1 \in With
      PROVE  m \in With
  <2>1. PICK g : g = [n \in 0..(m - 1) |-> RecentStep(times, at, g, n)]
    BY <1>2
  <2> DEFINE h == [n \in 0..m |-> IF n \in 0..(m - 1) THEN g[n] ELSE RecentStep(times, at, g, m)]
  <2>2. ASSUME NEW n \in 0..m PROVE h[n] = RecentStep(times, at, h, n)
    <3>1. h[n] = RecentStep(times, at, g, n)
      <4>1. CASE n \in 0..(m - 1)
        <5>1. g[n] = RecentStep(times, at, g, n)
          BY <2>1, <4>1
        <5> QED
          BY <4>1, <5>1
      <4>2. CASE n \notin 0..(m - 1)
        <5>1. n = m
          BY <4>2
        <5>2. h[n] = RecentStep(times, at, g, m)
          BY <4>2
        <5> QED
          BY <5>1, <5>2
      <4> QED
        BY <4>1, <4>2
    <3>2. CASE n = 0
      BY <3>1, <3>2 DEF RecentStep
    <3>3. CASE n # 0
      <4>1. n - 1 \in 0..(m - 1) /\ n - 1 \in 0..m
        BY <3>3
      <4>2. h[n - 1] = g[n - 1]
        BY <4>1
      <4> QED
        BY <3>1, <3>3, <4>2 DEF RecentStep
    <3> QED
      BY <3>2, <3>3
  <2>3. h = [n \in 0..m |-> RecentStep(times, at, h, n)]
    BY <2>2
  <2>4. m \in 0..Len(times)
    OBVIOUS
  <2> HIDE DEF h
  <2> QED
    BY <2>3, <2>4
<1>3. Len(times) \in With
  <2> HIDE DEF With
  <2>1. 0..Len(times) \subseteq With
    BY <1>1, <1>2, Stepwise
  <2> QED
    BY <2>1
<1> QED
  BY <1>3

(* Recent, unfolded once. *)
LEMMA RecentUnfolds ==
    ASSUME NEW times, NEW at, Len(times) \in Nat
    PROVE  /\ Recent(times, at) = RecentUpTo(times, at)[Len(times)]
           /\ RecentUpTo(times, at)[0] = <<>>
           /\ \A n \in 1..Len(times) :
                 RecentUpTo(times, at)[n] =
                     IF at - times[n] < Window
                     THEN Append(RecentUpTo(times, at)[n - 1], times[n])
                     ELSE RecentUpTo(times, at)[n - 1]
<1> DEFINE upto == RecentUpTo(times, at)
<1>1. Recent(times, at) = upto[Len(times)]
  BY DEF Recent, RecentUpTo, RecentStep
<1>2. upto = [n \in 0..Len(times) |-> RecentStep(times, at, upto, n)]
  BY RecentExists DEF RecentUpTo
<1> HIDE DEF upto
<1>3. \A n \in 0..Len(times) : upto[n] = RecentStep(times, at, upto, n)
  BY <1>2
<1>4. upto[0] = <<>>
  BY <1>3 DEF RecentStep
<1>5. ASSUME NEW n \in 1..Len(times)
      PROVE  upto[n] = IF at - times[n] < Window THEN Append(upto[n - 1], times[n])
                       ELSE upto[n - 1]
  <2>1. n \in 0..Len(times) /\ n # 0
    OBVIOUS
  <2> QED
    BY <1>3, <2>1 DEF RecentStep
<1> QED
  BY <1>1, <1>4, <1>5 DEF upto

(* What is recent is a list of times that is not longer. *)
LEMMA RecentType ==
    ASSUME NEW times \in Seq(Nat), NEW at
    PROVE  \A n \in 0..Len(times) : /\ RecentUpTo(times, at)[n] \in Seq(Nat)
                                    /\ Len(RecentUpTo(times, at)[n]) <= n
<1> DEFINE upto == RecentUpTo(times, at)
           S == {n \in 0..Len(times) : upto[n] \in Seq(Nat) /\ Len(upto[n]) <= n}
<1>0. Len(times) \in Nat /\ \A n \in 1..Len(times) : times[n] \in Nat
  OBVIOUS
<1>1. 0 \in S
  <2>1. upto[0] = <<>> /\ <<>> \in Seq(Nat) /\ Len(<<>>) = 0
    BY <1>0, RecentUnfolds
  <2> HIDE DEF upto
  <2>2. upto[0] \in Seq(Nat) /\ Len(upto[0]) <= 0 /\ 0 \in 0..Len(times)
    BY <1>0, <2>1
  <2> QED
    BY <2>2
<1>2. ASSUME NEW n \in 1..Len(times), n - 1 \in S PROVE n \in S
  <2>1. upto[n] = IF at - times[n] < Window THEN Append(upto[n - 1], times[n]) ELSE upto[n - 1]
    BY <1>0, RecentUnfolds
  <2>2. upto[n - 1] \in Seq(Nat) /\ Len(upto[n - 1]) <= n - 1 /\ n \in 0..Len(times)
    BY <1>2
  <2> HIDE DEF upto
  <2>3. upto[n] \in Seq(Nat) /\ Len(upto[n]) <= n
    BY <1>0, <2>1, <2>2
  <2> QED
    BY <2>2, <2>3
<1>3. 0..Len(times) \subseteq S
  <2> HIDE DEF S
  <2> QED
    BY <1>0, <1>1, <1>2, Stepwise
<1> QED
  BY <1>3

(* A list that goes on has the same recent ones before. *)
LEMMA RecentPrefix ==
    ASSUME NEW times \in Seq(Nat), NEW x \in Nat, NEW at
    PROVE  \A n \in 0..Len(times) :
              RecentUpTo(Append(times, x), at)[n] = RecentUpTo(times, at)[n]
<1> DEFINE more == Append(times, x)
           upto == RecentUpTo(times, at)
           upto2 == RecentUpTo(more, at)
           S == {n \in 0..Len(times) : upto2[n] = upto[n]}
<1>0. /\ Len(times) \in Nat /\ Len(more) = Len(times) + 1
      /\ \A n \in 1..Len(times) : more[n] = times[n]
  OBVIOUS
<1> HIDE DEF more
<1>1. 0 \in S
  <2>1. upto[0] = <<>> /\ upto2[0] = <<>>
    BY <1>0, RecentUnfolds
  <2> QED
    BY <1>0, <2>1
<1>2. ASSUME NEW n \in 1..Len(times), n - 1 \in S PROVE n \in S
  <2>1. upto[n] = IF at - times[n] < Window THEN Append(upto[n - 1], times[n]) ELSE upto[n - 1]
    BY <1>0, RecentUnfolds
  <2>2. upto2[n] = IF at - more[n] < Window THEN Append(upto2[n - 1], more[n]) ELSE upto2[n - 1]
    <3>1. n \in 1..Len(more) /\ Len(more) \in Nat
      BY <1>0
    <3> QED
      BY <3>1, RecentUnfolds
  <2>3. upto2[n - 1] = upto[n - 1] /\ more[n] = times[n] /\ n \in 0..Len(times)
    BY <1>0, <1>2
  <2> HIDE DEF upto, upto2
  <2> QED
    BY <2>1, <2>2, <2>3
<1>3. 0..Len(times) \subseteq S
  <2> HIDE DEF S
  <2> QED
    BY <1>0, <1>1, <1>2, Stepwise
<1> QED
  BY <1>3 DEF more

(* What is recent of a list with one more time. *)
LEMMA RecentAppend ==
    ASSUME NEW times \in Seq(Nat), NEW x \in Nat, NEW at
    PROVE  Recent(Append(times, x), at) =
              IF at - x < Window THEN Append(Recent(times, at), x) ELSE Recent(times, at)
<1> DEFINE more == Append(times, x)
<1>1. /\ Len(times) \in Nat /\ Len(more) = Len(times) + 1 /\ more[Len(more)] = x
      /\ Len(more) \in 1..Len(more) /\ Len(more) - 1 = Len(times) /\ Len(more) \in Nat
  OBVIOUS
<1>2. RecentUpTo(more, at)[Len(times)] = RecentUpTo(times, at)[Len(times)]
  BY <1>1, RecentPrefix
<1> HIDE DEF more
<1>3. Recent(more, at) = IF at - x < Window THEN Append(RecentUpTo(more, at)[Len(times)], x)
                         ELSE RecentUpTo(more, at)[Len(times)]
  BY <1>1, RecentUnfolds
<1>4. Recent(times, at) = RecentUpTo(times, at)[Len(times)]
  BY <1>1, RecentUnfolds
<1> QED
  BY <1>2, <1>3, <1>4 DEF more

(* Of nothing, nothing is recent. *)
LEMMA RecentNone ==
    ASSUME NEW at
    PROVE  Recent(<<>>, at) = <<>>
<1>1. Len(<<>>) = 0 /\ Len(<<>>) \in Nat
  OBVIOUS
<1> QED
  BY <1>1, RecentUnfolds

(* What is recent later is recent now. *)
LEMMA RecentTwice ==
    ASSUME NEW times \in Seq(Nat), NEW at \in Nat, NEW to \in Nat, at <= to
    PROVE  Recent(Recent(times, at), to) = Recent(times, to)
<1> DEFINE upto == RecentUpTo(times, at)
           upto2 == RecentUpTo(times, to)
           S == {n \in 0..Len(times) : Recent(upto[n], to) = upto2[n]}
<1>0. /\ Len(times) \in Nat /\ \A n \in 1..Len(times) : times[n] \in Nat
      /\ Window \in Nat
  BY AccountAssumption
<1>1. 0 \in S
  <2>1. upto[0] = <<>> /\ upto2[0] = <<>>
    BY <1>0, RecentUnfolds
  <2> QED
    BY <1>0, <2>1, RecentNone
<1>2. ASSUME NEW n \in 1..Len(times), n - 1 \in S PROVE n \in S
  <2>1. upto[n] = IF at - times[n] < Window THEN Append(upto[n - 1], times[n]) ELSE upto[n - 1]
    BY <1>0, RecentUnfolds
  <2>2. upto2[n] = IF to - times[n] < Window THEN Append(upto2[n - 1], times[n]) ELSE upto2[n - 1]
    BY <1>0, RecentUnfolds
  <2>3. Recent(upto[n - 1], to) = upto2[n - 1] /\ n \in 0..Len(times) /\ times[n] \in Nat
    BY <1>0, <1>2
  <2>4. upto[n - 1] \in Seq(Nat)
    <3>1. n - 1 \in 0..Len(times)
      BY <1>0
    <3> QED
      BY <3>1, RecentType
  <2> HIDE DEF upto, upto2
  <2>5. CASE at - times[n] < Window
    <3>1. Recent(Append(upto[n - 1], times[n]), to) =
             IF to - times[n] < Window THEN Append(Recent(upto[n - 1], to), times[n])
             ELSE Recent(upto[n - 1], to)
      BY <2>3, <2>4, RecentAppend
    <3> QED
      BY <2>1, <2>2, <2>3, <2>5, <3>1
  <2>6. CASE ~(at - times[n] < Window)
    <3>1. ~(to - times[n] < Window)
      BY <1>0, <2>3, <2>6
    <3> QED
      BY <2>1, <2>2, <2>3, <2>6, <3>1
  <2> QED
    BY <2>5, <2>6
<1>3. 0..Len(times) \subseteq S
  <2> HIDE DEF S
  <2> QED
    BY <1>0, <1>1, <1>2, Stepwise
<1>4. Recent(upto[Len(times)], to) = upto2[Len(times)]
  <2>1. Len(times) \in 0..Len(times)
    BY <1>0
  <2> HIDE DEF upto, upto2
  <2> QED
    BY <1>3, <2>1
<1> QED
  BY <1>0, <1>4, RecentUnfolds

(* Recent, in the terms the limiter needs. *)
LEMMA RecentIs ==
    ASSUME NEW times \in Seq(Nat), NEW at
    PROVE  Recent(times, at) \in Seq(Nat) /\ Len(Recent(times, at)) <= Len(times)
<1>1. Len(times) \in Nat /\ Len(times) \in 0..Len(times)
  OBVIOUS
<1> QED
  BY <1>1, RecentType, RecentUnfolds

(* The records that are kept. *)
Holding == {k \in Clients : hits[k] # <<>>}

(* The limiter: no more than Per in the window of a record; the history of  *)
(* a client it never forgot is the record; no more than MaxKeys of them.    *)
LimitOK ==
    /\ hits \in [Clients -> Seq(Nat)] /\ grants \in [Clients -> Seq(Nat)] /\ now \in Nat
    /\ \A k \in Clients : Len(Kept(k)) <= Per
    /\ \A k \in Clients \ evicted : grants[k] = Kept(k)
    /\ IsFiniteSet(Holding) /\ Cardinality(Holding) <= MaxKeys

LEMMA LimitInit == Init => LimitOK
<1> SUFFICES ASSUME Init PROVE LimitOK
  OBVIOUS
<1>1. /\ \A k \in Clients : hits[k] = <<>> /\ grants[k] = <<>> /\ Kept(k) = <<>>
      /\ hits \in [Clients -> Seq(Nat)] /\ grants \in [Clients -> Seq(Nat)] /\ now \in Nat
  BY RecentNone DEF Init, Kept
<1>2. Len(<<>>) <= Per /\ 0 <= MaxKeys
  BY AccountAssumption
<1>3. Holding = {}
  BY <1>1 DEF Holding
<1>4. IsFiniteSet(Holding) /\ Cardinality(Holding) <= MaxKeys
  BY <1>2, <1>3, FS_EmptySet
<1> QED
  BY <1>1, <1>2, <1>4 DEF LimitOK

(* What the limiter remembers holds a record; its window is a list.         *)
LEMMA RememberedHolds ==
    ASSUME LimitOK
    PROVE  /\ Remembered \subseteq Holding /\ IsFiniteSet(Remembered)
           /\ Cardinality(Remembered) <= Cardinality(Holding)
           /\ Cardinality(Remembered) \in Nat /\ Cardinality(Holding) \in Nat
           /\ \A k \in Clients : /\ Kept(k) \in Seq(Nat) /\ Len(Kept(k)) \in Nat
                                 /\ Pruned[k] \in Seq(Nat) /\ Recent(Pruned[k], now) = Kept(k)
                                 /\ Pruned[k] # <<>> => k \in Remembered
<1>1. ASSUME NEW k \in Clients
      PROVE  Kept(k) \in Seq(Nat) /\ (hits[k] = <<>> => Kept(k) = <<>>)
  BY RecentIs, RecentNone DEF LimitOK, Kept
<1>2. Remembered \subseteq Holding
  BY <1>1 DEF Remembered, Holding
<1>3. ASSUME NEW k \in Clients
      PROVE  /\ Pruned[k] \in Seq(Nat) /\ Recent(Pruned[k], now) = Kept(k)
             /\ Pruned[k] # <<>> => k \in Remembered
  <2>1. CASE k \in Remembered
    BY <2>1 DEF Pruned, Kept, LimitOK
  <2>2. CASE k \notin Remembered
    <3>1. Kept(k) = <<>> /\ Pruned[k] = <<>>
      BY <2>2 DEF Pruned, Remembered
    <3> QED
      BY <3>1, RecentNone
  <2> QED
    BY <2>1, <2>2
<1>4. IsFiniteSet(Holding)
  BY DEF LimitOK
<1>5. IsFiniteSet(Remembered) /\ Cardinality(Remembered) <= Cardinality(Holding)
  BY <1>2, <1>4, FS_Subset
<1>6. Cardinality(Remembered) \in Nat /\ Cardinality(Holding) \in Nat
  BY <1>4, <1>5, FS_CardinalityType
<1> QED
  BY <1>1, <1>2, <1>3, <1>5, <1>6

(* An attempt that is refused. *)
LEMMA RefuseStep ==
    ASSUME LimitOK, NEW k \in Clients, Refuse(k), now' = now
    PROVE  LimitOK'
<1> USE RememberedHolds
<1>0. now \in Nat /\ Per \in Nat \ {0}
  BY AccountAssumption DEF LimitOK
<1>1. /\ hits' = [x \in Clients |-> IF x = k THEN Kept(k) ELSE Pruned[x]]
      /\ grants' = grants /\ evicted' = evicted /\ Len(Kept(k)) >= Per
  BY DEF Refuse, Full, Pruned
<1>2. Recent(Kept(k), now) = Kept(k)
  BY <1>0, RecentTwice DEF LimitOK, Kept
<1>3. \A x \in Clients : hits'[x] \in Seq(Nat) /\ Kept(x)' = Kept(x)
  <2> SUFFICES ASSUME NEW x \in Clients
               PROVE  hits'[x] \in Seq(Nat) /\ Kept(x)' = Kept(x)
    OBVIOUS
  <2>1. Kept(x)' = Recent(hits'[x], now)
    BY DEF Kept
  <2>2. CASE x = k
    BY <1>1, <1>2, <2>1, <2>2
  <2>3. CASE x # k
    BY <1>1, <2>1, <2>3
  <2> QED
    BY <2>2, <2>3
<1>4. Holding' \subseteq Remembered
  <2>1. Kept(k) # <<>>
    BY <1>0, <1>1
  <2>2. k \in Remembered
    BY <2>1 DEF Remembered
  <2> QED
    BY <1>1, <2>2 DEF Holding
<1>5. IsFiniteSet(Holding') /\ Cardinality(Holding') <= Cardinality(Remembered)
  BY <1>4, FS_Subset
<1>6. Cardinality(Holding') \in Nat /\ MaxKeys \in Nat
  BY <1>5, FS_CardinalityType, AccountAssumption
<1>7. IsFiniteSet(Holding') /\ Cardinality(Holding') <= MaxKeys
  BY <1>5, <1>6 DEF LimitOK
<1>8. hits' \in [Clients -> Seq(Nat)]
  BY <1>1, <1>3
<1>9. /\ \A x \in Clients : Len(Kept(x)') <= Per
      /\ \A x \in Clients \ evicted' : grants'[x] = Kept(x)'
  BY <1>1, <1>3 DEF LimitOK
<1> QED
  BY <1>0, <1>1, <1>7, <1>8, <1>9 DEF LimitOK

(* The records after an attempt that is let through: one is added, and if   *)
(* there were MaxKeys another one is given up.                              *)
LEMMA AllowKeeps ==
    ASSUME LimitOK, NEW k \in Clients, NEW v \in Victims(k),
           NEW H, H \subseteq (Remembered \ {v}) \cup {k}
    PROVE  IsFiniteSet(H) /\ Cardinality(H) <= MaxKeys
<1> USE RememberedHolds
<1>0. MaxKeys \in Nat \ {0} /\ Cardinality(Holding) <= MaxKeys
  BY AccountAssumption DEF LimitOK
<1>1. Cardinality(Remembered) <= MaxKeys
  BY <1>0
<1>2. CASE k \in Remembered
  <2>1. H \subseteq Remembered
    BY <1>2
  <2>2. IsFiniteSet(H) /\ Cardinality(H) <= Cardinality(Remembered)
    BY <2>1, FS_Subset
  <2>3. Cardinality(H) \in Nat
    BY <2>2, FS_CardinalityType
  <2> QED
    BY <1>0, <1>1, <2>2, <2>3
<1>3. CASE k \notin Remembered /\ Cardinality(Remembered) < MaxKeys
  <2> DEFINE more == Remembered \cup {k}
  <2>1. IsFiniteSet(more) /\ Cardinality(more) = Cardinality(Remembered) + 1
    BY <1>3, FS_AddElement
  <2>2. H \subseteq more
    OBVIOUS
  <2>3. IsFiniteSet(H) /\ Cardinality(H) <= Cardinality(more)
    BY <2>1, <2>2, FS_Subset
  <2>4. Cardinality(H) \in Nat
    BY <2>3, FS_CardinalityType
  <2> HIDE DEF more
  <2> QED
    BY <1>0, <1>3, <2>1, <2>3, <2>4
<1>4. CASE k \notin Remembered /\ ~(Cardinality(Remembered) < MaxKeys)
  <2>1. v \in Remembered
    BY <1>4 DEF Victims
  <2> DEFINE less == Remembered \ {v}
             swapped == less \cup {k}
  <2>2. IsFiniteSet(less) /\ Cardinality(less) = Cardinality(Remembered) - 1
    BY <2>1, FS_RemoveElement
  <2>3. k \notin less
    BY <1>4
  <2>4. H \subseteq swapped
    OBVIOUS
  <2>5. IsFiniteSet(swapped) /\ Cardinality(swapped) = Cardinality(less) + 1
    <3> HIDE DEF less
    <3> QED
      BY <2>2, <2>3, FS_AddElement
  <2>6. IsFiniteSet(H) /\ Cardinality(H) <= Cardinality(swapped)
    <3> HIDE DEF swapped
    <3> QED
      BY <2>4, <2>5, FS_Subset
  <2>7. Cardinality(H) \in Nat
    BY <2>6, FS_CardinalityType
  <2> HIDE DEF less, swapped
  <2> QED
    BY <1>0, <1>1, <2>2, <2>5, <2>6, <2>7
<1> QED
  BY <1>2, <1>3, <1>4

(* An attempt that is let through. *)
LEMMA AllowStep ==
    ASSUME LimitOK, NEW k \in Clients, Allow(k), now' = now
    PROVE  LimitOK'
<1> USE RememberedHolds
<1>0. /\ now \in Nat /\ Per \in Nat \ {0} /\ Window \in Nat \ {0} /\ None \notin Clients
      /\ grants \in [Clients -> Seq(Nat)]
  BY AccountAssumption DEF LimitOK
<1>1. PICK v \in Victims(k) :
          /\ hits' = [x \in Clients |-> CASE x = k -> Append(Kept(k), now)
                                          [] x = v -> <<>>
                                          [] OTHER -> Pruned[x]]
          /\ evicted' = evicted \cup ({v} \ {None})
  BY DEF Allow
<1>2. v # k /\ (v \in Clients => v # None)
  BY <1>0 DEF Victims, Remembered
<1>3. /\ grants' = [x \in Clients |-> IF x \in evicted' THEN <<>> ELSE
                                      IF x = k THEN Append(grants[x], now) ELSE grants[x]]
      /\ ~(Len(Kept(k)) >= Per)
  BY DEF Allow, Full
<1>4. /\ hits'[k] = Append(Kept(k), now)
      /\ \A x \in Clients \ {k} : hits'[x] = IF x = v THEN <<>> ELSE Pruned[x]
  <2>1. hits'[k] = Append(Kept(k), now)
    BY <1>1, <1>2
  <2>2. ASSUME NEW x \in Clients \ {k}, x = v
        PROVE  hits'[x] = <<>>
    BY <1>1, <2>2
  <2>3. ASSUME NEW x \in Clients \ {k}, x # v
        PROVE  hits'[x] = Pruned[x]
    BY <1>1, <2>3
  <2> QED
    BY <2>1, <2>2, <2>3
<1>5. /\ Append(Kept(k), now) \in Seq(Nat) /\ Len(Append(Kept(k), now)) = Len(Kept(k)) + 1
      /\ Append(Kept(k), now) # <<>> /\ <<>> \in Seq(Nat) /\ Len(<<>>) = 0
  <2>1. Kept(k) \in Seq(Nat)
    OBVIOUS
  <2>2. \A s \in Seq(Nat) : Append(s, now) \in Seq(Nat) /\ Len(Append(s, now)) = Len(s) + 1
    BY <1>0
  <2>3. Len(<<>>) = 0 /\ Len(Kept(k)) \in Nat
    BY <2>1
  <2>4. Append(Kept(k), now) # <<>>
    BY <2>1, <2>2, <2>3
  <2> QED
    BY <2>1, <2>2, <2>4
<1>6. Recent(Append(Kept(k), now), now) = Append(Kept(k), now)
  <2>1. Recent(Kept(k), now) = Kept(k)
    BY <1>0, RecentTwice DEF LimitOK, Kept
  <2>2. now - now < Window
    BY <1>0
  <2> QED
    BY <1>0, <2>1, <2>2, RecentAppend
<1>7. hits' \in [Clients -> Seq(Nat)]
  <2>1. \A x \in Clients : hits'[x] \in Seq(Nat)
    BY <1>4, <1>5
  <2>2. DOMAIN hits' = Clients /\ hits' = [x \in Clients |-> hits'[x]]
    BY <1>1
  <2> QED
    BY <2>1, <2>2
<1>8. grants' \in [Clients -> Seq(Nat)]
  <2>1. \A x \in Clients : Append(grants[x], now) \in Seq(Nat) /\ grants[x] \in Seq(Nat)
    BY <1>0
  <2> QED
    BY <1>3, <1>5, <2>1
<1>9. ASSUME NEW x \in Clients
      PROVE  Len(Kept(x)') <= Per /\ (x \notin evicted' => grants'[x] = Kept(x)')
  <2>1. Kept(x)' = Recent(hits'[x], now)
    BY DEF Kept
  <2>2. CASE x = k
    <3>1. Kept(x)' = Append(Kept(k), now)
      BY <1>4, <1>6, <2>1, <2>2
    <3>2. x \notin evicted' => grants'[x] = Append(grants[k], now) /\ grants[k] = Kept(k)
      BY <1>1, <1>3, <2>2 DEF LimitOK
    <3>3. Len(Kept(k)) \in Nat /\ Len(Kept(k)) + 1 <= Per
      BY <1>0, <1>3
    <3>4. Len(Kept(x)') <= Per
      BY <1>5, <3>1, <3>3
    <3> QED
      BY <3>1, <3>2, <3>4
  <2>3. CASE x # k /\ x = v
    <3>1. Kept(x)' = <<>> /\ x \in evicted'
      BY <1>1, <1>2, <1>4, <2>1, <2>3, RecentNone
    <3> QED
      BY <1>0, <1>5, <3>1
  <2>4. CASE x # k /\ x # v
    <3>1. Kept(x)' = Kept(x)
      BY <1>4, <2>1, <2>4
    <3>2. x \notin evicted' => grants'[x] = grants[x] /\ x \notin evicted
      BY <1>1, <1>3, <2>4
    <3> QED
      BY <3>1, <3>2 DEF LimitOK
  <2> QED
    BY <2>2, <2>3, <2>4
<1>10. IsFiniteSet(Holding') /\ Cardinality(Holding') <= MaxKeys
  <2>1. Holding' \subseteq (Remembered \ {v}) \cup {k}
    BY <1>4 DEF Holding
  <2> QED
    BY <2>1, AllowKeeps
<1> QED
  BY <1>0, <1>7, <1>8, <1>9, <1>10 DEF LimitOK

(* Time passes, and what is recent becomes less. *)
LEMMA TickStep ==
    ASSUME LimitOK, Tick
    PROVE  LimitOK'
<1>0. now \in Nat /\ now' = now + 1 /\ hits' = hits /\ evicted' = evicted
  BY DEF Tick, LimitOK
<1>1. grants' = [k \in Clients |-> Recent(grants[k], now + 1)]
  BY DEF Tick
<1>2. ASSUME NEW k \in Clients
      PROVE  /\ Recent(grants[k], now + 1) \in Seq(Nat)
             /\ Len(Kept(k)') <= Per
             /\ k \notin evicted' => grants'[k] = Kept(k)'
  <2>1. hits[k] \in Seq(Nat) /\ grants[k] \in Seq(Nat) /\ now <= now + 1 /\ now + 1 \in Nat
    BY <1>0 DEF LimitOK
  <2>2. Kept(k)' = Recent(hits[k], now + 1)
    BY <1>0 DEF Kept
  <2>3. Kept(k)' = Recent(Kept(k), now + 1)
    BY <1>0, <2>1, <2>2, RecentTwice DEF Kept
  <2>4. Kept(k) \in Seq(Nat) /\ Len(Kept(k)) <= Per
    BY RememberedHolds DEF LimitOK
  <2>5. Kept(k)' \in Seq(Nat) /\ Len(Kept(k)') <= Len(Kept(k))
    BY <2>3, <2>4, RecentIs
  <2>6. Len(Kept(k)') <= Per
    <3>1. Len(Kept(k)') \in Nat /\ Len(Kept(k)) \in Nat /\ Per \in Nat
      BY <2>4, <2>5, AccountAssumption
    <3> QED
      BY <2>4, <2>5, <3>1
  <2>7. k \notin evicted' => grants'[k] = Kept(k)'
    BY <1>0, <1>1, <2>3 DEF LimitOK
  <2>8. Recent(grants[k], now + 1) \in Seq(Nat)
    BY <2>1, RecentIs
  <2> QED
    BY <2>6, <2>7, <2>8
<1>3. grants' \in [Clients -> Seq(Nat)]
  BY <1>1, <1>2
<1>4. Holding' = Holding
  BY <1>0 DEF Holding
<1>5. hits' \in [Clients -> Seq(Nat)] /\ IsFiniteSet(Holding') /\ Cardinality(Holding') <= MaxKeys
      /\ now' \in Nat
  BY <1>0, <1>4 DEF LimitOK
<1> QED
  BY <1>2, <1>3, <1>5 DEF LimitOK

(* Every other step leaves the limiter alone. *)
LEMMA LimitStep ==
    ASSUME LimitOK, [Next]_vars
    PROVE  LimitOK'
<1>1. CASE UNCHANGED <<hits, grants, evicted, now>>
  <2>1. \A k \in Clients : Kept(k)' = Kept(k)
    BY <1>1 DEF Kept
  <2>2. Holding' = Holding
    BY <1>1 DEF Holding
  <2> QED
    BY <1>1, <2>1, <2>2 DEF LimitOK
<1>2. ASSUME NEW r \in Requests, LoginRefused(r)
      PROVE  LimitOK'
  <2>1. PICK k \in Clients : Refuse(k) /\ now' = now
    BY <1>2 DEF LoginRefused
  <2> QED
    BY <2>1, RefuseStep
<1>3. ASSUME NEW r \in Requests, Login(r)
      PROVE  LimitOK'
  <2>1. PICK k \in Clients : Allow(k) /\ now' = now
    BY <1>3 DEF Login
  <2> QED
    BY <2>1, AllowStep
<1>4. CASE Tick
  BY <1>4, TickStep
<1>5. CASE Restart
  <2>1. /\ hits' = [k \in Clients |-> <<>>] /\ grants' = [k \in Clients |-> <<>>]
        /\ now' = now /\ now \in Nat
    BY <1>5 DEF Restart, LimitOK
  <2>2. \A k \in Clients : hits'[k] = <<>> /\ grants'[k] = <<>> /\ Kept(k)' = <<>>
    BY <2>1, RecentNone DEF Kept
  <2>3. Holding' = {}
    BY <2>2 DEF Holding
  <2>4. IsFiniteSet(Holding') /\ Cardinality(Holding') = 0
    BY <2>3, FS_EmptySet
  <2>5. Per \in Nat /\ MaxKeys \in Nat /\ Len(<<>>) = 0
    BY AccountAssumption
  <2> QED
    BY <2>1, <2>2, <2>4, <2>5 DEF LimitOK
<1>6. ASSUME NEW r \in Requests, Serve(r), ~LoginRefused(r), ~Login(r)
      PROVE  UNCHANGED <<hits, grants, evicted, now>>
  BY <1>6 DEF Serve, Setup, CreateInitialAdmin, SetupEnds, CreateSession, RequireAdmin, CreateUser,
              BeginUpdate, EndUpdate, UpdateFails, CreateToken, RevokeToken, historyVars
<1>7. ASSUME NEW s \in Sids, Logout(s)
      PROVE  UNCHANGED <<hits, grants, evicted, now>>
  BY <1>7 DEF Logout, historyVars
<1>8. CASE UNCHANGED vars
  BY <1>1, <1>8 DEF vars, historyVars
<1> QED
  BY <1>1, <1>2, <1>3, <1>4, <1>5, <1>6, <1>7, <1>8 DEF Next

-----------------------------------------------------------------------------
(* The properties *)

(* internal/store/users_tokens.go:335: a user who was disabled or got a new *)
(* password has no session that would be honoured once enabled again, but   *)
(* for a login that had read the user before.                               *)
THEOREM SessionsAreEnded == Spec => []SessionsEnd
<1>1. Init => TypeOK /\ RefsOK /\ EpochOK
  BY TypeInit, RefsInit, EpochInit
<1>2. TypeOK /\ RefsOK /\ EpochOK /\ [Next]_vars => (TypeOK /\ RefsOK /\ EpochOK)'
  BY TypeStep, RefsStep, EpochStep
<1>3. EpochOK => SessionsEnd
  BY DEF EpochOK, SessionsEnd, Honoured, Live
<1> QED
  BY <1>1, <1>2, <1>3, PTL DEF Spec

(* internal/store/auth.go:97-98, users_tokens.go:334: one installation      *)
(* succeeds, an enabled admin is left by whatever concurrent transactions   *)
(* do, and the server asks for credentials. Not with a shared token, whose  *)
(* bearer may create the first user without an installation.                *)
THEOREM AdminRemains == ~LegacyToken => (Spec => []AlwaysAnAdmin)
<1> SUFFICES ASSUME ~LegacyToken PROVE Spec => []AlwaysAnAdmin
  OBVIOUS
<1>1. Init => TypeOK /\ RefsOK /\ AdminOK
  BY TypeInit, RefsInit, AdminInit
<1>2. TypeOK /\ RefsOK /\ AdminOK /\ [Next]_vars => (TypeOK /\ RefsOK /\ AdminOK)'
  BY TypeStep, RefsStep, AdminStep
<1>3. AdminOK => AlwaysAnAdmin
  BY DEF AdminOK, AlwaysAnAdmin
<1> QED
  BY <1>1, <1>2, <1>3, PTL DEF Spec

(* internal/auth/ratelimit.go:73-74: for any addresses, any window and any  *)
(* number of records, no client is let through more than Per times in a     *)
(* window unless its record made room, and the records stay bounded.        *)
THEOREM LoginIsLimited == Spec => []LoginLimited
<1>1. LimitOK => LoginLimited
  <2> SUFFICES ASSUME LimitOK PROVE LoginLimited
    OBVIOUS
  <2>1. ASSUME NEW k \in Clients \ evicted
        PROVE  Len(Recent(grants[k], now)) <= Per
    <3>1. /\ grants[k] = Recent(hits[k], now) /\ hits[k] \in Seq(Nat) /\ now \in Nat
          /\ Len(Recent(hits[k], now)) <= Per
      BY DEF LimitOK, Kept
    <3>2. Recent(Recent(hits[k], now), now) = Recent(hits[k], now)
      BY <3>1, RecentTwice
    <3> QED
      BY <3>1, <3>2
  <2> QED
    BY <2>1 DEF LimitOK, LoginLimited, Holding
<1> QED
  BY <1>1, LimitInit, LimitStep, PTL DEF Spec
=============================================================================
