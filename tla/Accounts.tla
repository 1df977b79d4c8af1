------------------------------ MODULE Accounts ------------------------------
(***************************************************************************)
(* Accounts, memberships, warehouse grants and sessions of one workspace:  *)
(* app/account_admin.py, the session part of app/employee_auth.py, and     *)
(* login, logout and the /api/admin routes of app/main.py.                 *)
(*                                                                         *)
(* An administrator's call is authorised when it arrives, reads what its   *)
(* checks look at, and commits at the end; nothing locks what it read.  A  *)
(* login reads the account and the membership, takes its time over the     *)
(* password hash, and commits a session.                                   *)
(***************************************************************************)
EXTENDS Integers, FiniteSets

CONSTANTS
    Users,        \* accounts that may exist
    FirstAdmin,   \* the account of the bootstrap command
    Roles,        \* the roles in use, of "admin", "operations", "warehouse", ...
    Sessions,     \* session tokens that may be drawn
    Admins,       \* administrators' calls in progress
    Logins,       \* logins in progress
    MaxPassword,  \* passwords of an account are numbered up to this bound
    NoUser

ASSUME AccountsAssumption ==
    /\ FirstAdmin \in Users /\ "admin" \in Roles
    /\ Roles \cap {"deactivate", "activate", "reset", "grant", "revoke"} = {}
    /\ MaxPassword \in Nat /\ NoUser \notin Users

VARIABLES
    account,      \* user_accounts with the membership of the workspace
    granted,      \* users with an active grant of a warehouse
    session,      \* auth_sessions that are not revoked: one that is, is not looked at again
    adminCall,    \* what each administrator's call is at
    loginCall,    \* what each login is at
    oneCall       \* whether calls are served one at a time

accountsVars == <<account, granted, session, adminCall, loginCall, oneCall>>

Account == [exists : BOOLEAN, active : BOOLEAN, member : BOOLEAN,
            role : Roles, password : 0..MaxPassword]
NoAccount == [exists |-> FALSE, active |-> FALSE, member |-> FALSE,
              role |-> "admin", password |-> 0]
Session == [user : Users \cup {NoUser}, password : 0..MaxPassword]
NoSession == [user |-> NoUser, password |-> 0]
Operations == {"deactivate", "activate", "reset", "grant", "revoke"} \cup Roles
AdminCall == [at : {"idle", "commit"}, op : Operations, user : Users \cup {NoUser},
              seen : Account, closing : SUBSET Sessions]
NoAdminCall == [at |-> "idle", op |-> "reset", user |-> NoUser, seen |-> NoAccount, closing |-> {}]
LoginCall == [user : Users \cup {NoUser}, password : 0..MaxPassword]
NoLogin == [user |-> NoUser, password |-> 0]

AccountsTypeOK ==
    /\ account \in [Users -> Account]
    /\ granted \subseteq Users
    /\ session \in [Sessions -> Session]
    /\ adminCall \in [Admins -> AdminCall]
    /\ loginCall \in [Logins -> LoginCall]
    /\ oneCall \in BOOLEAN

AccountsInit ==
    /\ account = [u \in Users |->
                     IF u = FirstAdmin
                     THEN [NoAccount EXCEPT !.exists = TRUE, !.active = TRUE, !.member = TRUE]
                     ELSE NoAccount]
    /\ granted = {}
    /\ session = [s \in Sessions |-> NoSession]
    /\ adminCall = [c \in Admins |-> NoAdminCall]
    /\ loginCall = [l \in Logins |-> NoLogin]
    /\ oneCall \in BOOLEAN

Quiet ==
    /\ \A c \in Admins : adminCall[c].at = "idle"
    /\ \A l \in Logins : loginCall[l].user = NoUser

(* load_session: whose session is good for a request.                      *)
Usable(s) ==
    LET u == session[s].user
    IN u # NoUser /\ account[u].active /\ account[u].member

IsActiveAdmin(u) == account[u].member /\ account[u].role = "admin"

-----------------------------------------------------------------------------
(* login and logout *)

StartLogin(l, u) ==
    /\ loginCall[l].user = NoUser /\ (oneCall => Quiet)
    /\ account[u].exists /\ account[u].active /\ account[u].member
    /\ loginCall' = [loginCall EXCEPT ![l] = [user |-> u, password |-> account[u].password]]
    /\ UNCHANGED <<account, granted, session, adminCall, oneCall>>

(* create_session commits, whatever has become of the account.             *)
CommitLogin(l, s) ==
    /\ loginCall[l].user # NoUser
    /\ session[s] = NoSession /\ \A c \in Admins : s \notin adminCall[c].closing
    /\ session' = [session EXCEPT ![s] = loginCall[l]]
    /\ loginCall' = [loginCall EXCEPT ![l] = NoLogin]
    /\ UNCHANGED <<account, granted, adminCall, oneCall>>

Logout(s) ==
    /\ Usable(s) /\ (oneCall => Quiet)
    /\ session' = [session EXCEPT ![s] = NoSession]
    /\ UNCHANGED <<account, granted, adminCall, loginCall, oneCall>>

(* A session past its expiry is refused like a revoked one.                *)
SessionExpires(s) ==
    /\ session[s] # NoSession
    /\ session' = [session EXCEPT ![s] = NoSession]
    /\ UNCHANGED <<account, granted, adminCall, loginCall, oneCall>>

-----------------------------------------------------------------------------
(* The administrators *)

(* The middleware: a request that comes without a good session is refused. *)
Authenticated(u) == \E s \in Sessions : Usable(s) /\ session[s].user = u

(* require_principal: some administrator is logged in to make the call.    *)
Authorised(u) == Authenticated(u) /\ IsActiveAdmin(u)

(* create_workspace_user: its unique login makes one call of several win.  *)
(* A warehouse role comes with a grant, an administrator has none.         *)
CreateUser(u, role) ==
    /\ ~account[u].exists /\ (oneCall => Quiet)
    /\ \E p \in Users : Authorised(p)
    /\ account' = [account EXCEPT ![u] = [exists |-> TRUE, active |-> TRUE, member |-> TRUE,
                                          role |-> role, password |-> 0]]
    /\ \E grant \in BOOLEAN :
          /\ role = "warehouse" => grant
          /\ role = "admin" => ~grant
          /\ granted' = IF grant THEN granted \cup {u} ELSE granted
    /\ UNCHANGED <<session, adminCall, loginCall, oneCall>>

(* The init-admin command, which asks nobody, also in a workspace in use.  *)
InitAdmin(u) ==
    /\ ~account[u].exists /\ (oneCall => Quiet)
    /\ account' = [account EXCEPT ![u] = [exists |-> TRUE, active |-> TRUE, member |-> TRUE,
                                          role |-> "admin", password |-> 0]]
    /\ UNCHANGED <<granted, session, adminCall, loginCall, oneCall>>

OtherAdmin(u) == \E v \in Users \ {u} : IsActiveAdmin(v)

(* Mutant of Permits: a demotion does not look for another administrator.  *)
PermitsDemotion(p, op, u) ==
    /\ account[u].exists
    /\ op = "deactivate" => p # u /\ (account[u].role = "admin" => OtherAdmin(u))
    /\ op = "warehouse" => u \in granted
    /\ op \in {"grant", "revoke"} => account[u].member
    /\ op = "reset" => account[u].password < MaxPassword

(* What the checks of the five calls let through: neither oneself nor the  *)
(* last administrator is deactivated, and the last one is not demoted.     *)
Permits(p, op, u) ==
    /\ account[u].exists
    /\ op = "deactivate" => p # u /\ (account[u].role = "admin" => OtherAdmin(u))
    /\ (op \in Roles \ {"admin"} /\ account[u].role = "admin") => OtherAdmin(u)
    /\ op = "warehouse" => u \in granted
    /\ op \in {"grant", "revoke"} => account[u].member
    /\ op = "reset" => account[u].password < MaxPassword

OpenSessions(u) == {s \in Sessions : session[s].user = u}

(* The call is authorised, reads and judges ...                            *)
StartAdminCall(c, p, op, u) ==
    /\ adminCall[c].at = "idle" /\ (oneCall => Quiet)
    /\ Authorised(p) /\ Permits(p, op, u)
    /\ adminCall' = [adminCall EXCEPT ![c] =
           [at |-> "commit", op |-> op, user |-> u, seen |-> account[u],
            closing |-> IF op \in {"deactivate", "reset"} THEN OpenSessions(u) ELSE {}]]
    /\ UNCHANGED <<account, granted, session, loginCall, oneCall>>

(* ... and commits what differs from what it read.  The membership of this *)
(* workspace is the account's only one, so that deactivation reaches it.   *)
CommitAdminCall(c) ==
    LET call == adminCall[c]
        u == call.user
        new == CASE call.op = "deactivate" -> [call.seen EXCEPT !.member = FALSE, !.active = FALSE]
                 [] call.op = "activate"   -> [call.seen EXCEPT !.member = TRUE, !.active = TRUE]
                 [] call.op = "reset"      -> [call.seen EXCEPT !.password = @ + 1]
                 [] call.op \in Roles      -> [call.seen EXCEPT !.role = call.op]
                 [] OTHER                  -> call.seen
    IN /\ call.at = "commit"
       /\ account' = [account EXCEPT ![u] =
              [f \in DOMAIN new |-> IF new[f] = call.seen[f] THEN @[f] ELSE new[f]]]
       /\ session' = [s \in Sessions |->
              IF s \in call.closing THEN NoSession ELSE session[s]]
       /\ granted' = CASE call.op = "grant"  -> granted \cup {u}
                       [] call.op = "revoke" -> granted \ {u}
                       [] OTHER              -> granted
       /\ adminCall' = [adminCall EXCEPT ![c] = NoAdminCall]
       /\ UNCHANGED <<loginCall, oneCall>>

AccountsNext ==
    \/ \E l \in Logins : (\E u \in Users : StartLogin(l, u)) \/ \E s \in Sessions : CommitLogin(l, s)
    \/ \E s \in Sessions : Logout(s) \/ SessionExpires(s)
    \/ \E u \in Users : InitAdmin(u) \/ \E role \in Roles : CreateUser(u, role)
    \/ \E c \in Admins :
          \/ CommitAdminCall(c)
          \/ \E p, u \in Users, op \in Operations : StartAdminCall(c, p, op, u)

AccountsSpec == AccountsInit /\ [][AccountsNext]_accountsVars

-----------------------------------------------------------------------------
(* Properties *)

(* LAST_ADMIN_FORBIDDEN: while calls are served one at a time the workspace*)
(* never loses its last administrator, and he can log in.                  *)
AdminRemains == oneCall => \E u \in Users : IsActiveAdmin(u) /\ account[u].active

(* While calls are served one at a time, a session a request may use was   *)
(* opened with the password the account has now, and an account that was   *)
(* deactivated has none that would revive with it.                         *)
SessionsAreCurrent ==
    oneCall /\ Quiet =>
        \A s \in Sessions : \A u \in {session[s].user} \cap Users :
            /\ session[s].password = account[u].password
            /\ account[u].member /\ account[u].active

(* What a request may rely on: an administrator there is, and a session    *)
(* that is the account's as it is now.                                     *)
AccountsHold == AdminRemains /\ SessionsAreCurrent
=============================================================================
