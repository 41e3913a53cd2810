------------------------- MODULE LocalIdentity_proofs -------------------------
(* Proofs that sessions follow their accounts and an administrator stays.  *)
EXTENDS LocalIdentity, FiniteSetTheorems, TLAPS

(* A session that names the identity its account has was issued at the     *)
(* account's revision, and then it agrees with it, or at an earlier one.   *)
Bound(s) ==
  s.user \in Names /\ s.id = account[s.user].id =>
    /\ s.rev <= account[s.user].rev
    /\ s.rev = account[s.user].rev => s.pw = account[s.user].pw /\ s.role = account[s.user].role

IInv ==
  /\ TypeOK
  /\ \A u \in Names : account[u].id <= lastId
  /\ \A s \in sessions : s.id <= lastId /\ Bound(s)
  /\ hadAdmin => EnabledAdmins # {}

-----------------------------------------------------------------------------
(* What a step may do to the accounts: nothing, add one under a fresh id,  *)
(* change one with a new revision, or delete one that is not the last      *)
(* enabled administrator.                                                  *)
Same == UNCHANGED <<account, lastId>>
Created(u, row) ==
  /\ u \in User \ Names /\ row \in Account /\ row.id = lastId + 1
  /\ account' = Put(u, row)
  /\ lastId' = lastId + 1 /\ lastId < IdMax
  /\ row.pw = Mounted => Names = {}
Bumped(u, row) ==
  /\ u \in Names /\ row \in Account
  /\ row.id = account[u].id /\ row.rev = account[u].rev + 1
  /\ LastAdmin(u) => row.role = "admin" /\ row.enabled
  /\ account' = Put(u, row)
  /\ UNCHANGED lastId
Deleted(u) ==
  /\ u \in Names /\ ~LastAdmin(u)
  /\ account' = [x \in Names \ {u} |-> account[x]]
  /\ UNCHANGED lastId
AccountStep ==
  \/ Same
  \/ \E u \in User, row \in Account : Created(u, row) \/ Bumped(u, row)
  \/ \E u \in User : Deleted(u)

(* And to the sessions: at most add one for an account as it is then. *)
SessionStep ==
  \A s \in sessions' \ sessions :
    \E u \in Names', kind \in Kind : s = Token(u, account'[u], kind)

LEMMA NewAccountType ==
  ASSUME TypeOK, lastId < IdMax, NEW p \in Password \cup {Mounted}, NEW role \in Role,
         NEW m \in BOOLEAN
  PROVE  /\ NewAccount(p, role, m) \in Account
         /\ NewAccount(p, role, m).id = lastId + 1
         /\ NewAccount(p, role, m).pw = p
BY ConfigAssumption DEF TypeOK, NewAccount, Account

LEMMA ChangedStep ==
  ASSUME TypeOK, NEW u \in Names, account[u].rev < RevMax,
         NEW row \in Account, row.id = account[u].id, row.rev = account[u].rev,
         LastAdmin(u) => row.role = "admin" /\ row.enabled,
         account' = Changed(u, row), UNCHANGED lastId
  PROVE  AccountStep
<1> DEFINE next == [row EXCEPT !.rev = @ + 1]
<1>1. next \in Account /\ next.id = row.id /\ next.rev = row.rev + 1
      /\ next.role = row.role /\ next.enabled = row.enabled
  BY ConfigAssumption DEF Account, TypeOK
<1>2. Bumped(u, next)
  BY <1>1 DEF Bumped, Changed
<1>3. u \in User
  BY DEF TypeOK
<1> QED BY <1>1, <1>2, <1>3 DEF AccountStep

LEMMA LoginShape ==
  ASSUME TypeOK, NEW u \in User, NEW p \in Password \cup {Mounted}, NEW kind \in Kind,
         Login(u, p, kind)
  PROVE  AccountStep /\ SessionStep
<1>1. AccountStep
  <2>1. CASE Bootstraps(u, p)
    <3> DEFINE row == NewAccount(p, "admin", ~MountedStrong)
    <3>1. row \in Account /\ row.id = lastId + 1
      BY <2>1, NewAccountType, ConfigAssumption DEF Login
    <3>2. Created(u, row)
      BY <2>1, <3>1 DEF Login, Created, Bootstraps
    <3> QED BY <3>1, <3>2 DEF AccountStep
  <2>2. CASE ~Bootstraps(u, p)
    BY <2>2 DEF Login, AccountStep, Same
  <2> QED BY <2>1, <2>2
<1>2. u \in Names'
  BY DEF Login, Put, Names
<1>3. SessionStep
  BY <1>2 DEF Login, SessionStep
<1> QED BY <1>1, <1>3

LEMMA Shape == ASSUME TypeOK, Next PROVE AccountStep /\ SessionStep
<1>1. ASSUME NEW u \in User, NEW p \in Password \cup {Mounted}, NEW kind \in Kind,
             Login(u, p, kind) \/ RejectLogin(u, p, kind)
      PROVE  AccountStep /\ SessionStep
  BY <1>1, LoginShape DEF RejectLogin, vars, AccountStep, Same, SessionStep
<1>2. ASSUME NEW u \in User, NEW p \in Password, NEW role \in Role, CreateUser(u, p, role)
      PROVE  AccountStep /\ SessionStep
  <2> DEFINE row == NewAccount(p, role, TRUE)
  <2>1. row \in Account /\ row.id = lastId + 1 /\ row.pw = p
    BY <1>2, NewAccountType DEF CreateUser
  <2>2. Created(u, row)
    BY <1>2, <2>1, ConfigAssumption DEF CreateUser, Created
  <2> QED BY <1>2, <2>1, <2>2 DEF CreateUser, AccountStep, SessionStep
<1>3. ASSUME NEW u \in User, NEW role \in Role, NEW enabled \in BOOLEAN,
             UpdateUser(u, role, enabled)
      PROVE  AccountStep /\ SessionStep
  <2> DEFINE row == [account[u] EXCEPT !.role = role, !.enabled = enabled]
  <2>1. account[u] \in Account
    BY <1>3 DEF UpdateUser, TypeOK
  <2>2. /\ row \in Account /\ row.id = account[u].id /\ row.rev = account[u].rev
        /\ row.role = role /\ row.enabled = enabled
    BY <2>1 DEF Account
  <2>3. AccountStep
    <3> HIDE DEF row
    <3>1. account' = Changed(u, row)
      BY <1>3 DEF UpdateUser, row
    <3> QED BY <1>3, <2>2, <3>1, ChangedStep DEF UpdateUser
  <2> QED BY <1>3, <2>3 DEF UpdateUser, SessionStep
<1>4. ASSUME NEW u \in User, DeleteUser(u) PROVE AccountStep /\ SessionStep
  BY <1>4 DEF DeleteUser, AccountStep, Deleted, SessionStep
<1>5. ASSUME NEW u \in User, NEW p \in Password, ResetPassword(u, p)
      PROVE  AccountStep /\ SessionStep
  <2> DEFINE row == [account[u] EXCEPT !.pw = p, !.mustChange = TRUE]
  <2>1. account[u] \in Account
    BY <1>5 DEF ResetPassword, TypeOK
  <2>2. /\ row \in Account /\ row.id = account[u].id /\ row.rev = account[u].rev
        /\ row.role = account[u].role /\ row.enabled = account[u].enabled
    BY <2>1 DEF Account
  <2>3. AccountStep
    <3> HIDE DEF row
    <3>1. account' = Changed(u, row)
      BY <1>5 DEF ResetPassword, row
    <3> QED BY <1>5, <2>2, <3>1, ChangedStep DEF ResetPassword, LastAdmin, EnabledAdmins
  <2> QED BY <1>5, <2>3 DEF ResetPassword, SessionStep
<1>6. ASSUME NEW r \in Request, NEW s \in sessions, NEW op, BeginRequest(r, s, op)
      PROVE  AccountStep /\ SessionStep
  BY <1>6 DEF BeginRequest, AccountStep, Same, SessionStep
<1>7. ASSUME NEW r \in Request, NEW current, NEW p \in Password,
             ChangePassword(r, current, p)
      PROVE  AccountStep /\ SessionStep
  <2> DEFINE u == request[r].user
             row == [account[u] EXCEPT !.pw = p, !.mustChange = FALSE]
  <2>1. CASE u \in Names /\ account[u].pw = current
    <3>1. account[u] \in Account
      BY <2>1 DEF TypeOK
    <3>2. /\ row \in Account /\ row.id = account[u].id /\ row.rev = account[u].rev
          /\ row.role = account[u].role /\ row.enabled = account[u].enabled
      BY <3>1 DEF Account
    <3>3. account' = Changed(u, row) /\ account[u].rev < RevMax /\ UNCHANGED lastId
      BY <1>7, <2>1 DEF ChangePassword
    <3>4. AccountStep
      <4> HIDE DEF row, u
      <4> QED BY <2>1, <3>2, <3>3, ChangedStep DEF LastAdmin, EnabledAdmins
    <3> QED BY <1>7, <3>4 DEF ChangePassword, SessionStep
  <2>2. CASE ~(u \in Names /\ account[u].pw = current)
    BY <1>7, <2>2 DEF ChangePassword, AccountStep, Same, SessionStep
  <2> QED BY <2>1, <2>2
<1>8. ASSUME NEW r \in Request, Logout(r) PROVE AccountStep /\ SessionStep
  <2> DEFINE u == request[r].user
  <2>1. CASE u \in Names
    <3>1. account[u] \in Account
      BY <2>1 DEF TypeOK
    <3>2. account' = Changed(u, account[u]) /\ account[u].rev < RevMax /\ UNCHANGED lastId
      BY <1>8, <2>1 DEF Logout
    <3>3. AccountStep
      <4> HIDE DEF u
      <4> QED BY <2>1, <3>1, <3>2, ChangedStep DEF LastAdmin, EnabledAdmins
    <3> QED BY <1>8, <3>3 DEF Logout, SessionStep
  <2>2. CASE u \notin Names
    BY <1>8, <2>2 DEF Logout, AccountStep, Same, SessionStep
  <2> QED BY <2>1, <2>2
<1>9. ASSUME NEW s \in sessions, Expire(s) PROVE AccountStep /\ SessionStep
  BY <1>9 DEF Expire, AccountStep, Same, SessionStep
<1> QED BY <1>1, <1>2, <1>3, <1>4, <1>5, <1>6, <1>7, <1>8, <1>9
        DEF Next, Administration, SelfService

-----------------------------------------------------------------------------
LEMMA PutDomain ==
  ASSUME NEW u, NEW row, account' = Put(u, row)
  PROVE  /\ Names' = Names \cup {u}
         /\ account'[u] = row
         /\ \A x \in Names \ {u} : account'[x] = account[x]
BY DEF Put, Names

LEMMA AccountType ==
  ASSUME TypeOK, AccountStep
  PROVE  Names' \subseteq User /\ account' \in [Names' -> Account] /\ lastId' \in 0..IdMax
<1>1. CASE Same
  BY <1>1 DEF Same, TypeOK, Names
<1>2. ASSUME NEW u \in User, NEW row \in Account, Created(u, row) \/ Bumped(u, row)
      PROVE  Names' \subseteq User /\ account' \in [Names' -> Account] /\ lastId' \in 0..IdMax
  <2>1. account' = Put(u, row)
    BY <1>2 DEF Created, Bumped
  <2>2. Names' \subseteq User /\ account' \in [Names' -> Account]
    BY <2>1 DEF Put, TypeOK, Names
  <2> QED BY <1>2, <2>2, ConfigAssumption DEF Created, Bumped, TypeOK
<1>3. ASSUME NEW u \in User, Deleted(u)
      PROVE  Names' \subseteq User /\ account' \in [Names' -> Account] /\ lastId' \in 0..IdMax
  BY <1>3 DEF Deleted, TypeOK, Names
<1> QED BY <1>1, <1>2, <1>3 DEF AccountStep

LEMMA RequestType ==
  ASSUME TypeOK, Next
  PROVE  request' \in [Request -> {None} \cup [user : User, op : {"logout", "password"}]]
<1>1. ASSUME NEW r \in Request, NEW s \in sessions, NEW op \in {"logout", "password"},
             BeginRequest(r, s, op)
      PROVE  request' \in [Request -> {None} \cup [user : User, op : {"logout", "password"}]]
  <2>1. [user |-> s.user, op |-> op] \in [user : User, op : {"logout", "password"}]
    BY DEF TypeOK, Session
  <2> QED BY <1>1, <2>1 DEF BeginRequest, TypeOK
<1>2. ASSUME NEW r \in Request, Finish(r)
      PROVE  request' \in [Request -> {None} \cup [user : User, op : {"logout", "password"}]]
  BY <1>2 DEF Finish, TypeOK
<1>3. CASE UNCHANGED request
  BY <1>3 DEF TypeOK
<1>4. CASE SelfService
  BY <1>1, <1>2, <1>4 DEF SelfService, ChangePassword, Logout
<1>5. CASE ~SelfService
  BY <1>3, <1>5 DEF Next, Administration, Login, RejectLogin, vars,
     CreateUser, UpdateUser, DeleteUser, ResetPassword, Expire
<1> QED BY <1>4, <1>5

LEMMA WritesAlways == ASSUME Next PROVE Writes \/ UNCHANGED <<account, hadAdmin>>
BY DEF Next, Administration, SelfService, Login, RejectLogin, vars, CreateUser, UpdateUser,
       DeleteUser, ResetPassword, BeginRequest, ChangePassword, Logout, Expire

(* The last enabled administrator stays through every account step. *)
LEMMA AdminStays == ASSUME TypeOK, AccountStep, EnabledAdmins # {} PROVE EnabledAdmins' # {}
<1>1. CASE Same
  BY <1>1 DEF Same, EnabledAdmins, Names
<1>2. ASSUME NEW u \in Names, ~LastAdmin(u) PROVE \E v \in EnabledAdmins : v # u
  <2>1. CASE u \notin EnabledAdmins
    BY <2>1
  <2>2. CASE u \in EnabledAdmins
    <3>1. IsFiniteSet(EnabledAdmins)
      BY ConfigAssumption, FS_Subset DEF EnabledAdmins, TypeOK
    <3>2. Cardinality(EnabledAdmins) \in Nat /\ Cardinality(EnabledAdmins) > 1
      BY <1>2, <2>2, <3>1, FS_CardinalityType DEF LastAdmin
    <3>3. EnabledAdmins # {u}
      BY <3>2, FS_Singleton
    <3> QED BY <2>2, <3>3
  <2> QED BY <2>1, <2>2
<1>3. ASSUME NEW u \in User, NEW row \in Account, Created(u, row) PROVE EnabledAdmins' # {}
  <2>1. PICK v \in EnabledAdmins : TRUE
    OBVIOUS
  <2>2. v \in Names /\ v # u
    BY <1>3 DEF EnabledAdmins, Created
  <2>3. v \in EnabledAdmins'
    BY <1>3, <2>2, PutDomain DEF EnabledAdmins, Created
  <2> QED BY <2>3
<1>4. ASSUME NEW u \in User, NEW row \in Account, Bumped(u, row) PROVE EnabledAdmins' # {}
  <2>1. CASE LastAdmin(u)
    <3>1. u \in EnabledAdmins'
      BY <1>4, <2>1, PutDomain DEF EnabledAdmins, Bumped
    <3> QED BY <3>1
  <2>2. CASE ~LastAdmin(u)
    <3>1. PICK v \in EnabledAdmins : v # u
      BY <1>2, <1>4, <2>2 DEF Bumped
    <3>2. v \in EnabledAdmins'
      BY <1>4, <3>1, PutDomain DEF EnabledAdmins, Bumped
    <3> QED BY <3>2
  <2> QED BY <2>1, <2>2
<1>5. ASSUME NEW u \in User, Deleted(u) PROVE EnabledAdmins' # {}
  <2>1. PICK v \in EnabledAdmins : v # u
    BY <1>2, <1>5 DEF Deleted
  <2>2. v \in EnabledAdmins'
    BY <1>5, <2>1 DEF EnabledAdmins, Deleted, Names
  <2> QED BY <2>2
<1> QED BY <1>1, <1>3, <1>4, <1>5 DEF AccountStep

(* A step ends a session it does not leave alone; what was revoked stays   *)
(* revoked.                                                                *)
LEMMA SessionFate ==
  ASSUME IInv, AccountStep, NEW s \in sessions
  PROVE  /\ Bound(s)'
         /\ ValidAfter(s) => Valid(s) /\ s.user \in Names /\ account'[s.user] = account[s.user]
<1>0. Bound(s) /\ s.id <= lastId /\ s.user \in User /\ s.id \in Nat /\ s.rev \in Nat
      /\ lastId \in Nat
  BY ConfigAssumption DEF IInv, TypeOK, Session
<1>1. CASE Same
  BY <1>0, <1>1 DEF Same, Bound, ValidAfter, Valid, IssuedTo, AdminSessionValid, Names
<1>2. ASSUME s.user \in Names, s.user \in Names', account'[s.user] = account[s.user]
      PROVE  /\ Bound(s)'
             /\ ValidAfter(s) => Valid(s)
  BY <1>0, <1>2 DEF Bound, ValidAfter, Valid, IssuedTo, AdminSessionValid
<1>3. ASSUME s.user \notin Names' PROVE Bound(s)' /\ ~ValidAfter(s)
  BY <1>3 DEF Bound, ValidAfter, Valid
<1>4. ASSUME NEW u \in User, NEW row \in Account, Created(u, row)
      PROVE  /\ Bound(s)'
             /\ ValidAfter(s) => Valid(s) /\ s.user \in Names /\ account'[s.user] = account[s.user]
  <2>1. CASE s.user = u
    <3>1. account'[s.user].id = lastId + 1
      BY <1>4, <2>1, PutDomain DEF Created
    <3>2. s.id # account'[s.user].id
      BY <1>0, <3>1
    <3> QED BY <3>2 DEF Bound, ValidAfter, Valid, IssuedTo
  <2>2. CASE s.user # u
    BY <1>2, <1>3, <1>4, <2>2, PutDomain DEF Created
  <2> QED BY <2>1, <2>2
<1>5. ASSUME NEW u \in User, NEW row \in Account, Bumped(u, row)
      PROVE  /\ Bound(s)'
             /\ ValidAfter(s) => Valid(s) /\ s.user \in Names /\ account'[s.user] = account[s.user]
  <2>1. CASE s.user = u
    <3>1. /\ account'[s.user].id = account[s.user].id
          /\ account'[s.user].rev = account[s.user].rev + 1
          /\ account[s.user].rev \in Nat
      BY <1>5, <2>1, PutDomain DEF Bumped, IInv, TypeOK, Account
    <3>2. s.id = account[s.user].id => s.rev < account'[s.user].rev
      BY <1>0, <1>5, <2>1, <3>1 DEF Bound, Bumped
    <3> QED BY <1>0, <3>1, <3>2 DEF Bound, ValidAfter, Valid, IssuedTo
  <2>2. CASE s.user # u
    BY <1>2, <1>3, <1>5, <2>2, PutDomain DEF Bumped
  <2> QED BY <2>1, <2>2
<1>6. ASSUME NEW u \in User, Deleted(u)
      PROVE  /\ Bound(s)'
             /\ ValidAfter(s) => Valid(s) /\ s.user \in Names /\ account'[s.user] = account[s.user]
  <2>1. Names' = Names \ {u} /\ \A x \in Names \ {u} : account'[x] = account[x]
    BY <1>6 DEF Deleted, Names
  <2> QED BY <1>2, <1>3, <2>1
<1> QED BY <1>0, <1>1, <1>4, <1>5, <1>6 DEF AccountStep

-----------------------------------------------------------------------------
LEMMA InitInv == ASSUME Init PROVE IInv
<1>1. Names = {}
  BY DEF Init, Names
<1>2. TypeOK
  <2>1. account \in [Names -> Account]
    BY <1>1 DEF Init, Names
  <2>2. sessions \subseteq Session /\ lastId \in 0..IdMax
    BY ConfigAssumption DEF Init
  <2>3. request \in [Request -> {None} \cup [user : User, op : {"logout", "password"}]]
    BY DEF Init
  <2>4. hadAdmin \in BOOLEAN
    BY DEF Init
  <2> QED BY <1>1, <2>1, <2>2, <2>3, <2>4 DEF TypeOK
<1>3. ~hadAdmin /\ sessions = {}
  BY DEF Init
<1> QED BY <1>1, <1>2, <1>3 DEF IInv

LEMMA NextInv == ASSUME IInv, [Next]_vars PROVE IInv'
<1>1. CASE UNCHANGED vars
  BY <1>1 DEF vars, IInv, TypeOK, Bound, EnabledAdmins, Names
<1>2. CASE Next
  <2>1. TypeOK /\ AccountStep /\ SessionStep
    BY <1>2, Shape DEF IInv
  <2>2. Names' \subseteq User /\ account' \in [Names' -> Account] /\ lastId' \in 0..IdMax
    BY <2>1, AccountType
  <2>3. \A u \in Names' : account'[u].id <= lastId'
    <3>1. CASE Same
      BY <3>1 DEF Same, IInv, Names
    <3>2. ASSUME NEW u \in User, NEW row \in Account, Created(u, row) \/ Bumped(u, row)
          PROVE  \A x \in Names' : account'[x].id <= lastId'
      <4>1. account' = Put(u, row) /\ row.id <= lastId' /\ lastId <= lastId' /\ lastId' \in Nat
        BY <2>2, <3>2, ConfigAssumption DEF Created, Bumped, IInv, TypeOK
      <4>2. \A x \in Names : account[x].id \in Nat /\ lastId \in Nat
        BY ConfigAssumption DEF IInv, TypeOK, Account
      <4> QED BY <4>1, <4>2, PutDomain DEF IInv
    <3>3. ASSUME NEW u \in User, Deleted(u) PROVE \A x \in Names' : account'[x].id <= lastId'
      BY <3>3 DEF Deleted, IInv, Names
    <3> QED BY <2>1, <3>1, <3>2, <3>3 DEF AccountStep
  <2>4. ASSUME NEW s \in sessions' PROVE s \in Session /\ s.id <= lastId' /\ Bound(s)'
    <3>1. CASE s \in sessions
      <4>1. lastId <= lastId' /\ lastId \in Nat /\ lastId' \in Nat
        BY <2>1, <2>2, ConfigAssumption DEF AccountStep, Same, Created, Bumped, Deleted, TypeOK
      <4>2. s.id \in Nat
        BY <3>1 DEF IInv, TypeOK, Session
      <4> QED BY <2>1, <3>1, <4>1, <4>2, SessionFate DEF IInv, TypeOK
    <3>2. CASE s \notin sessions
      <4>1. PICK u \in Names', kind \in Kind : s = Token(u, account'[u], kind)
        BY <2>1, <2>4, <3>2 DEF SessionStep
      <4>2. account'[u] \in Account /\ u \in User
        BY <2>2
      <4>3. s.rev \in Nat /\ s.user = u /\ s.id = account'[u].id /\ s.rev = account'[u].rev
            /\ s.role = account'[u].role /\ s.pw = account'[u].pw /\ s \in Session
        BY <4>1, <4>2 DEF Token, Account, Session
      <4> QED BY <2>3, <4>3 DEF Bound
    <3> QED BY <3>1, <3>2
  <2>5. hadAdmin' \in BOOLEAN /\ (hadAdmin' => EnabledAdmins' # {})
    <3>1. CASE UNCHANGED <<account, hadAdmin>>
      <4>1. EnabledAdmins' = EnabledAdmins
        BY <3>1 DEF EnabledAdmins, Names
      <4> QED BY <3>1, <4>1, Zenon DEF IInv, TypeOK
    <3>2. CASE Writes
      <4>1. EnabledAdmins # {} => EnabledAdmins' # {}
        BY <2>1, AdminStays
      <4>2. hadAdmin => EnabledAdmins # {}
        BY Zenon DEF IInv
      <4> QED BY <3>2, <4>1, <4>2, Zenon DEF Writes
    <3> QED BY <1>2, <3>1, <3>2, WritesAlways
  <2>6. TypeOK'
    BY <1>2, <2>1, <2>2, <2>4, <2>5, RequestType DEF TypeOK
  <2> QED BY <2>3, <2>4, <2>5, <2>6 DEF IInv
<1> QED BY <1>1, <1>2

(* The inductive invariant: sessions never run ahead of their accounts. *)
THEOREM Inductive == Spec => []IInv
<1> QED BY InitInv, NextInv, PTL DEF Spec

(* An accepted session was proved with the account's present password      *)
(* (change_local_password, reset_local_password, browser_session_claims).  *)
THEOREM SessionsAreCurrent == Spec => []ProvenByCurrentPassword
<1>1. IInv => ProvenByCurrentPassword
  BY DEF IInv, Bound, ProvenByCurrentPassword, Valid, IssuedTo
<1> QED BY <1>1, Inductive, PTL

(* An enabled administrator always remains once there is one               *)
(* (update_local_identity, delete_local_identity).                         *)
THEOREM AdministratorRemains == Spec => AdminNeverLost
<1>1. ASSUME IInv, [Next]_vars PROVE [EnabledAdmins # {} => EnabledAdmins' # {}]_vars
  BY <1>1, Shape, AdminStays DEF IInv
<1> QED BY <1>1, Inductive, PTL DEF Spec, AdminNeverLost

(* Changing an account ends its sessions, and no session is accepted again *)
(* once it was refused (browser_session_claims).                           *)
THEOREM RevocationStands == Spec => SessionsStayRevoked
<1> DEFINE Revoke == \A s \in sessions :
             s.user \in Names /\ (s.user \notin Names' \/ account'[s.user] # account[s.user])
               => ~ValidAfter(s)
           ForGood == \A s \in sessions : ~Valid(s) => ~ValidAfter(s)
<1>1. ASSUME IInv, Next PROVE Revoke /\ ForGood
  <2>1. AccountStep
    BY <1>1, Shape DEF IInv
  <2>2. \A s \in sessions : s.user \notin Names' => ~ValidAfter(s)
    BY DEF ValidAfter, Valid
  <2> QED BY <1>1, <2>1, <2>2, SessionFate
<1>2. ASSUME IInv, [Next]_vars PROVE [Revoke]_vars /\ [ForGood]_vars
  BY <1>1, <1>2
<1> QED BY <1>2, Inductive, PTL DEF Spec, SessionsStayRevoked, ChangesRevoke, RevokedForGood

(* The mounted password creates no account after the first administrator   *)
(* (authenticate_local_identity_limited).                                  *)
THEOREM BootstrapIsOver == Spec => MountedPasswordRetires
<1> DEFINE Retired == \A u \in Names' \ Names : account'[u].pw = Mounted => ~hadAdmin
<1>1. ASSUME IInv, Next, NEW u \in Names' \ Names, account'[u].pw = Mounted PROVE ~hadAdmin
  <2>1. AccountStep
    BY <1>1, Shape DEF IInv
  <2>2. PICK x \in User, row \in Account : Created(x, row)
    <3>1. ~Same
      BY <1>1 DEF Same, Names
    <3>2. \A x \in User, row \in Account : ~Bumped(x, row)
      BY <1>1, PutDomain DEF Bumped
    <3>3. \A x \in User : ~Deleted(x)
      BY <1>1 DEF Deleted, Names
    <3> QED BY <2>1, <3>1, <3>2, <3>3 DEF AccountStep
  <2>3. x = u /\ row.pw = Mounted
    BY <1>1, <2>2, PutDomain DEF Created
  <2>4. EnabledAdmins = {}
    BY <2>2, <2>3 DEF Created, EnabledAdmins
  <2> QED BY <1>1, <2>4, Zenon DEF IInv
<1>2. ASSUME IInv, [Next]_vars PROVE [Retired]_vars
  BY <1>1, <1>2
<1> QED BY <1>2, Inductive, PTL DEF Spec, MountedPasswordRetires
=============================================================================
