---------------------------- MODULE LocalIdentity ----------------------------
(***************************************************************************)
(* Local accounts and the sessions bound to them (app.py).  A session is a *)
(* signed copy of the account's identity id, credential revision and role; *)
(* nothing of it is stored, so it is revoked by changing the account it    *)
(* has to match.  Administrators create, change, reset and delete          *)
(* accounts, in one transaction each; a user's own logout or password      *)
(* change checks the session first and writes in a later transaction.      *)
(***************************************************************************)
EXTENDS Integers, FiniteSets

CONSTANTS
  User, Admin,       \* usernames; Admin is the one the deployment bootstraps
  Password, Mounted, \* accepted new passwords; the mounted bootstrap password
  MountedStrong,     \* the mounted password meets the production policy; if not
                     \* it is the temporary one the deployment allows
  Role,              \* LOCAL_IDENTITY_ROLES
  Request,           \* self-service requests in flight
  None,
  IdMax, RevMax, SessionMax  \* bounds: identities, revisions, live sessions

ASSUME ConfigAssumption ==
  /\ IsFiniteSet(User) /\ Admin \in User /\ "admin" \in Role
  /\ MountedStrong \in BOOLEAN
  /\ Mounted \notin Password  \* so that the bootstrap can be told from the rest
  /\ None \notin [user : User, op : {"logout", "password"}]
  /\ IdMax \in Nat /\ RevMax \in Nat \ {0} /\ SessionMax \in Nat

Account == [id : 1..IdMax, pw : Password \cup {Mounted}, role : Role,
            enabled : BOOLEAN, rev : 1..RevMax, mustChange : BOOLEAN]
Kind == {"browser", "admin"}
Session == [user : User, id : 1..IdMax, rev : 1..RevMax, role : Role,
            kind : Kind, pw : Password \cup {Mounted}]

VARIABLES
  account,   \* local_identities: username -> Account, on the names that exist
  sessions,  \* signed tokens held by clients; pw is what the login proved
  lastId,    \* identity ids are random: every new one is fresh
  request,   \* self-service requests that passed the session check
  hadAdmin   \* an enabled administrator has existed

vars == <<account, sessions, lastId, request, hadAdmin>>

Names == DOMAIN account
EnabledAdmins == {u \in Names : account[u].role = "admin" /\ account[u].enabled}
Put(u, row) == [x \in Names \cup {u} |-> IF x = u THEN row ELSE account[x]]

-----------------------------------------------------------------------------
(* browser_session_claims, context_from_admin_session: the token must      *)
(* match the account as it is now.                                         *)
IssuedTo_name(s) == TRUE
IssuedTo(s) == s.id = account[s.user].id

(* An administrator's session also needs a password that is not temporary. *)
AdminSessionValid(s) == s.role = "admin" /\ ~account[s.user].mustChange

Valid(s) ==
  /\ s.user \in Names
  /\ account[s.user].enabled
  /\ IssuedTo(s)
  /\ s.rev = account[s.user].rev
  /\ s.role = account[s.user].role
  /\ s.kind = "admin" => AdminSessionValid(s)

(* The same of the next state. *)
ValidAfter(s) == Valid(s)'

NewAccount(p, role, mustChange) ==
  [id |-> lastId + 1, pw |-> p, role |-> role, enabled |-> TRUE, rev |-> 1,
   mustChange |-> mustChange]

(* create_browser_session_token, create_admin_session_token *)
Token(u, row, kind) ==
  [user |-> u, id |-> row.id, rev |-> row.rev, role |-> row.role, kind |-> kind,
   pw |-> row.pw]

Writes == hadAdmin' = (hadAdmin \/ EnabledAdmins' # {})

-----------------------------------------------------------------------------
(* authenticate_local_identity_limited, then api_local_login or            *)
(* api_create_admin_session.  The first login with the mounted password    *)
(* creates the administrator.                                              *)

Bootstraps_ifNoAdmin(u, p) == Admin \notin Names /\ u = Admin /\ p = Mounted
Bootstraps(u, p) == Names = {} /\ u = Admin /\ p = Mounted

Accepted(row, p, kind) ==
  /\ row.pw = p /\ row.enabled
  /\ kind = "admin" => row.role = "admin"

Login(u, p, kind) ==
  /\ Cardinality(sessions) < SessionMax
  /\ IF Bootstraps(u, p)
     THEN /\ lastId < IdMax
          /\ account' = Put(u, NewAccount(p, "admin", ~MountedStrong))
          /\ lastId' = lastId + 1
     ELSE u \in Names /\ Accepted(account[u], p, kind) /\ UNCHANGED <<account, lastId>>
  /\ sessions' = IF kind = "admin" /\ account'[u].mustChange
                 THEN sessions
                 ELSE sessions \cup {Token(u, account'[u], kind)}
  /\ Writes
  /\ UNCHANGED request

(* Anything else answers 401 and changes nothing here. *)
RejectLogin(u, p, kind) ==
  /\ ~Bootstraps(u, p)
  /\ u \in Names => ~Accepted(account[u], p, kind)
  /\ UNCHANGED vars

-----------------------------------------------------------------------------
(* Administration *)

(* create_local_identity *)
CreateUser(u, p, role) ==
  /\ u \notin Names
  /\ lastId < IdMax
  /\ account' = Put(u, NewAccount(p, role, TRUE))
  /\ lastId' = lastId + 1
  /\ Writes
  /\ UNCHANGED <<sessions, request>>

LastAdmin_countsDisabled(u) ==
  /\ u \in EnabledAdmins
  /\ Cardinality({x \in Names : account[x].role = "admin"}) <= 1
LastAdmin(u) == u \in EnabledAdmins /\ Cardinality(EnabledAdmins) <= 1

Changed_sameRevision(u, row) == Put(u, row)
(* Every change of an account advances its credential revision. *)
Changed(u, row) == Put(u, [row EXCEPT !.rev = @ + 1])

(* update_local_identity *)
UpdateUser(u, role, enabled) ==
  /\ u \in Names /\ account[u].rev < RevMax
  /\ ~(LastAdmin(u) /\ (role # "admin" \/ ~enabled))
  /\ account' = Changed(u, [account[u] EXCEPT !.role = role, !.enabled = enabled])
  /\ Writes
  /\ UNCHANGED <<sessions, lastId, request>>

(* delete_local_identity *)
DeleteUser(u) ==
  /\ u \in Names
  /\ ~LastAdmin(u)
  /\ account' = [x \in Names \ {u} |-> account[x]]
  /\ Writes
  /\ UNCHANGED <<sessions, lastId, request>>

(* reset_local_password *)
ResetPassword(u, p) ==
  /\ u \in Names /\ account[u].rev < RevMax
  /\ account' = Changed(u, [account[u] EXCEPT !.pw = p, !.mustChange = TRUE])
  /\ Writes
  /\ UNCHANGED <<sessions, lastId, request>>

-----------------------------------------------------------------------------
(* Self-service *)

(* require_local_browser_identity, browser_session_context: only the name  *)
(* goes on to the handler.                                                 *)
BeginRequest(r, s, op) ==
  /\ request[r] = None
  /\ s.kind = "browser" /\ Valid(s)
  /\ request' = [request EXCEPT ![r] = [user |-> s.user, op |-> op]]
  /\ UNCHANGED <<account, sessions, lastId, hadAdmin>>

Finish(r) == request' = [request EXCEPT ![r] = None]

(* change_local_password: the current password is checked in the           *)
(* transaction that sets the new one.                                      *)
ChangePassword(r, current, p) ==
  /\ request[r] # None /\ request[r].op = "password"
  /\ LET u == request[r].user
     IN IF u \in Names /\ account[u].pw = current
        THEN /\ account[u].rev < RevMax
             /\ account' = Changed(u, [account[u] EXCEPT !.pw = p, !.mustChange = FALSE])
        ELSE UNCHANGED account
  /\ Finish(r) /\ Writes
  /\ UNCHANGED <<sessions, lastId>>

(* revoke_local_sessions, for api_local_logout *)
Logout(r) ==
  /\ request[r] # None /\ request[r].op = "logout"
  /\ LET u == request[r].user
     IN IF u \in Names
        THEN account[u].rev < RevMax /\ account' = Changed(u, account[u])
        ELSE UNCHANGED account
  /\ Finish(r) /\ Writes
  /\ UNCHANGED <<sessions, lastId>>

(* A token runs out (exp) or its client forgets it. *)
Expire(s) ==
  /\ sessions' = sessions \ {s}
  /\ UNCHANGED <<account, lastId, request, hadAdmin>>

-----------------------------------------------------------------------------
Init ==
  /\ account = [u \in {} |-> None]
  /\ sessions = {} /\ lastId = 0
  /\ request = [r \in Request |-> None]
  /\ hadAdmin = FALSE

Administration ==
  \E u \in User :
    \/ \E p \in Password, role \in Role : CreateUser(u, p, role)
    \/ \E role \in Role, enabled \in BOOLEAN : UpdateUser(u, role, enabled)
    \/ DeleteUser(u)
    \/ \E p \in Password : ResetPassword(u, p)
SelfService ==
  \E r \in Request :
    \/ \E s \in sessions, op \in {"logout", "password"} : BeginRequest(r, s, op)
    \/ \E current \in Password \cup {Mounted}, p \in Password : ChangePassword(r, current, p)
    \/ Logout(r)
Next ==
  \/ \E u \in User, p \in Password \cup {Mounted}, kind \in Kind :
       Login(u, p, kind) \/ RejectLogin(u, p, kind)
  \/ Administration
  \/ SelfService
  \/ \E s \in sessions : Expire(s)

Spec == Init /\ [][Next]_vars

-----------------------------------------------------------------------------
(* Properties *)

TypeOK ==
  /\ Names \subseteq User
  /\ account \in [Names -> Account]
  /\ sessions \subseteq Session
  /\ lastId \in 0..IdMax
  /\ request \in [Request -> {None} \cup [user : User, op : {"logout", "password"}]]
  /\ hadAdmin \in BOOLEAN

(* A session that is accepted was proved with the password the account has *)
(* now: a changed or reset password leaves no older session alive.         *)
ProvenByCurrentPassword == \A s \in sessions : Valid(s) => s.pw = account[s.user].pw

(* The installation never loses its last enabled administrator, whichever  *)
(* administrators disable, demote and delete each other.                   *)
AdminNeverLost == [][EnabledAdmins # {} => EnabledAdmins' # {}]_vars

(* Any change of an account ends every session issued for it before.       *)
ChangesRevoke ==
  [][\A s \in sessions :
       s.user \in Names /\ (s.user \notin Names' \/ account'[s.user] # account[s.user])
         => ~ValidAfter(s)]_vars

(* A session that was revoked is never accepted again, not when the        *)
(* account is enabled or promoted again nor when its name is reused.       *)
RevokedForGood == [][\A s \in sessions : ~Valid(s) => ~ValidAfter(s)]_vars

(* Revocation, of the sessions held now and for good. *)
SessionsStayRevoked == ChangesRevoke /\ RevokedForGood

(* The mounted password creates no account once an administrator existed,  *)
(* so rotating the administrator's password retires it.                    *)
MountedPasswordRetires ==
  [][\A u \in Names' \ Names : account'[u].pw = Mounted => ~hadAdmin]_vars
=============================================================================
