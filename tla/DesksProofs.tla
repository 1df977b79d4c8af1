----------------------------- MODULE DesksProofs -----------------------------
(***************************************************************************)
(* Proofs about the desks of the workbench, one section for each: any      *)
(* users and sessions (Accounts), tickets and clerks (Tickets), runs and   *)
(* overlapping calls (FixtureSync), refreshes (Alerts), listings           *)
(* (CatalogCrawl), uploads and import attempts (DocumentImport), requests, *)
(* reviews and runs (Content), products and imports (Products).  Where     *)
(* calls are served one at a time, what a call has read is still so when   *)
(* it commits.                                                             *)
(***************************************************************************)
EXTENDS Desks, FiniteSetTheorems, SumTheorems, TLAPS

-----------------------------------------------------------------------------
(* Accounts.  With what a call read still so, the check for another        *)
(* administrator is as good as a lock, and the sessions it closes are all  *)
(* there are.                                                              *)

(* An account of the workspace is active, and exists.                      *)
MembersAreActive ==
    \A u \in Users : /\ account[u].member = account[u].active
                     /\ account[u].member => account[u].exists

(* One call at most is in progress.                                        *)
OneCallAtATime ==
    /\ \A c, d \in Admins : adminCall[c].at # "idle" /\ adminCall[d].at # "idle" => c = d
    /\ \A l, m \in Logins : loginCall[l].user # NoUser /\ loginCall[m].user # NoUser => l = m
    /\ \A c \in Admins, l \in Logins : adminCall[c].at = "idle" \/ loginCall[l].user = NoUser

(* What it has read is still so.                                           *)
AccountSeenIsSo ==
    /\ \A c \in Admins : adminCall[c].at # "idle" =>
          LET call == adminCall[c] IN
          /\ call.user \in Users /\ call.seen = account[call.user] /\ call.seen.exists
          /\ call.op \in {"deactivate"} \cup (Roles \ {"admin"}) /\ call.seen.role = "admin"
                => OtherAdmin(call.user)
          /\ call.op = "reset" => call.seen.password < MaxPassword
          /\ call.op \in {"deactivate", "reset"} => OpenSessions(call.user) \subseteq call.closing
    /\ \A l \in Logins : loginCall[l].user # NoUser =>
          LET u == loginCall[l].user IN
          u \in Users /\ account[u].member /\ loginCall[l].password = account[u].password

(* A session is of a member, with the password he has.                     *)
SessionsFollow ==
    \A s \in Sessions : session[s].user # NoUser =>
        LET u == session[s].user IN account[u].member /\ session[s].password = account[u].password

SomeAdmin == \E u \in Users : IsActiveAdmin(u)

AccountsSerialInv == MembersAreActive /\ OneCallAtATime /\ AccountSeenIsSo /\ SessionsFollow /\ SomeAdmin

(* A call in progress is about an account, also when calls overlap.        *)
CallsAreTyped ==
    \A c \in Admins : adminCall[c].at # "idle" =>
        /\ adminCall[c].user \in Users
        /\ adminCall[c].op = "reset" => adminCall[c].seen.password < MaxPassword

AccountsInv == AccountsTypeOK /\ CallsAreTyped /\ (oneCall => AccountsSerialInv)

-----------------------------------------------------------------------------
(* What a commit writes *)

Wanted(call) ==
    CASE call.op = "deactivate" -> [call.seen EXCEPT !.member = FALSE, !.active = FALSE]
      [] call.op = "activate"   -> [call.seen EXCEPT !.member = TRUE, !.active = TRUE]
      [] call.op = "reset"      -> [call.seen EXCEPT !.password = @ + 1]
      [] call.op \in Roles      -> [call.seen EXCEPT !.role = call.op]
      [] OTHER                  -> call.seen

Merge(now, read, new) == [f \in DOMAIN new |-> IF new[f] = read[f] THEN now[f] ELSE new[f]]

LEMMA AccountRowTypes ==
    NoAccount \in Account /\ NoSession \in Session /\ NoAdminCall \in AdminCall /\ NoLogin \in LoginCall
  <1>1. NoAccount \in Account
    BY AccountsAssumption DEF AccountsAssumption, NoAccount, Account
  <1>2. NoSession \in Session /\ NoLogin \in LoginCall
    BY AccountsAssumption DEF AccountsAssumption, NoSession, Session, NoLogin, LoginCall
  <1>3. NoAdminCall \in AdminCall
    BY <1>1 DEF NoAdminCall, AdminCall, Operations
  <1> QED BY <1>1, <1>2, <1>3

(* The five operations do five different things.                           *)
LEMMA WantedIs ==
    ASSUME NEW call \in AdminCall, call.op = "reset" => call.seen.password < MaxPassword
    PROVE  /\ Wanted(call) \in Account
           /\ call.op = "deactivate" => Wanted(call) = [call.seen EXCEPT !.member = FALSE, !.active = FALSE]
           /\ call.op = "activate" => Wanted(call) = [call.seen EXCEPT !.member = TRUE, !.active = TRUE]
           /\ call.op = "reset" => Wanted(call) = [call.seen EXCEPT !.password = @ + 1]
           /\ call.op \in Roles => Wanted(call) = [call.seen EXCEPT !.role = call.op]
           /\ call.op \in {"grant", "revoke"} => Wanted(call) = call.seen
  <1>1. call.seen \in Account /\ call.op \in Operations
    BY DEF AdminCall
  <1>2. CASE call.op = "deactivate"
    BY <1>1, <1>2, AccountsAssumption DEF Wanted, Account, AccountsAssumption
  <1>3. CASE call.op = "activate"
    BY <1>1, <1>3, AccountsAssumption DEF Wanted, Account, AccountsAssumption
  <1>4. CASE call.op = "reset"
    BY <1>1, <1>4, AccountsAssumption DEF Wanted, Account, AccountsAssumption
  <1>5. CASE call.op \in Roles
    BY <1>1, <1>5, AccountsAssumption DEF Wanted, Account, AccountsAssumption
  <1>6. CASE call.op \in {"grant", "revoke"}
    BY <1>1, <1>6, AccountsAssumption DEF Wanted, Account, AccountsAssumption
  <1> QED BY <1>1, <1>2, <1>3, <1>4, <1>5, <1>6 DEF Operations

LEMMA WantedKeeps ==
    ASSUME NEW call \in AdminCall, call.op = "reset" => call.seen.password < MaxPassword
    PROVE  LET new == Wanted(call) IN
           /\ new.exists = call.seen.exists
           /\ call.seen.member = call.seen.active => new.member = new.active
           /\ call.op # "deactivate" => new.member \in {call.seen.member, TRUE}
           /\ call.op \notin {"deactivate"} \cup (Roles \ {"admin"})
                 => new.role \in {call.seen.role, "admin"}
           /\ call.op \notin {"deactivate", "reset"} => new.password = call.seen.password
  <1>1. call.seen \in Account /\ call.op \in Operations
    BY DEF AdminCall
  <1>2. CASE call.op = "deactivate"
    <2>1. Wanted(call) = [call.seen EXCEPT !.member = FALSE, !.active = FALSE]
      BY <1>2, WantedIs
    <2>2. /\ Wanted(call).exists = call.seen.exists /\ Wanted(call).role = call.seen.role
          /\ Wanted(call).password = call.seen.password
          /\ Wanted(call).member = FALSE /\ Wanted(call).active = FALSE
      BY <1>1, <2>1 DEF Account
    <2> QED BY <1>2, <2>2
  <1>4. CASE call.op = "activate"
    <2>1. Wanted(call) = [call.seen EXCEPT !.member = TRUE, !.active = TRUE]
      BY <1>4, WantedIs
    <2>2. /\ Wanted(call).exists = call.seen.exists /\ Wanted(call).role = call.seen.role
          /\ Wanted(call).password = call.seen.password
          /\ Wanted(call).member = TRUE /\ Wanted(call).active = TRUE
      BY <1>1, <2>1 DEF Account
    <2> QED BY <1>4, <2>2
  <1>5. CASE call.op = "reset"
    <2>1. Wanted(call) = [call.seen EXCEPT !.password = @ + 1]
      BY <1>5, WantedIs
    <2>2. /\ Wanted(call).exists = call.seen.exists /\ Wanted(call).role = call.seen.role
          /\ Wanted(call).member = call.seen.member /\ Wanted(call).active = call.seen.active
      BY <1>1, <2>1 DEF Account
    <2> QED BY <1>5, <2>2
  <1>6. CASE call.op \in {"grant", "revoke"}
    BY <1>6, WantedIs
  <1>3. CASE call.op \in Roles
    <2>1. Wanted(call) = [call.seen EXCEPT !.role = call.op]
      BY <1>3, WantedIs
    <2> QED BY <1>1, <1>3, <2>1 DEF Account
  <1> QED BY <1>1, <1>2, <1>3, <1>4, <1>5, <1>6 DEF Operations

LEMMA MergeTypes ==
    ASSUME NEW now \in Account, NEW read \in Account, NEW new \in Account
    PROVE  Merge(now, read, new) \in Account
  BY DEF Merge, Account

LEMMA AccountMergeOfNow ==
    ASSUME NEW now \in Account, NEW new \in Account
    PROVE  Merge(now, now, new) = new
  <1>1. Merge(now, now, new) = [f \in DOMAIN new |-> new[f]]
    BY DEF Merge
  <1>2. new = [f \in DOMAIN new |-> new[f]]
    BY DEF Account
  <1> QED BY <1>1, <1>2

LEMMA CommitWrites ==
    ASSUME NEW c \in Admins, CommitAdminCall(c)
    PROVE  LET call == adminCall[c] IN
           /\ call.at = "commit"
           /\ account' = [account EXCEPT ![call.user] =
                                Merge(account[call.user], call.seen, Wanted(call))]
           /\ session' = [s \in Sessions |-> IF s \in call.closing THEN NoSession ELSE session[s]]
           /\ adminCall' = [adminCall EXCEPT ![c] = NoAdminCall]
           /\ loginCall' = loginCall /\ oneCall' = oneCall
           /\ granted' \in {granted, granted \cup {call.user}, granted \ {call.user}}
  BY DEF CommitAdminCall, Wanted, Merge

-----------------------------------------------------------------------------
(* The types *)

LEMMA AccountsTypeInit == AccountsInit => AccountsTypeOK
  <1>1. [NoAccount EXCEPT !.exists = TRUE, !.active = TRUE, !.member = TRUE] \in Account
    BY AccountRowTypes DEF Account
  <1> QED BY <1>1, AccountRowTypes DEF AccountsInit, AccountsTypeOK

LEMMA AccountsTypeStep ==
    ASSUME AccountsTypeOK, CallsAreTyped, [AccountsNext]_accountsVars
    PROVE  AccountsTypeOK' /\ CallsAreTyped'
  <1> USE DEF AccountsTypeOK, CallsAreTyped
  <1>1. ASSUME NEW l \in Logins, NEW u \in Users, StartLogin(l, u)
        PROVE  AccountsTypeOK' /\ CallsAreTyped'
    <2>1. [user |-> u, password |-> account[u].password] \in LoginCall
      BY DEF LoginCall, Account
    <2> QED BY <1>1, <2>1 DEF StartLogin
  <1>2. ASSUME NEW l \in Logins, NEW s \in Sessions, CommitLogin(l, s)
        PROVE  AccountsTypeOK' /\ CallsAreTyped'
    <2>1. loginCall[l] \in Session
      BY DEF LoginCall, Session
    <2> QED BY <1>2, <2>1, AccountRowTypes DEF CommitLogin
  <1>3. ASSUME NEW s \in Sessions, Logout(s) \/ SessionExpires(s)
        PROVE  AccountsTypeOK' /\ CallsAreTyped'
    BY <1>3, AccountRowTypes DEF Logout, SessionExpires
  <1>4. ASSUME NEW u \in Users, InitAdmin(u) \/ \E role \in Roles : CreateUser(u, role)
        PROVE  AccountsTypeOK' /\ CallsAreTyped'
    <2>1. \A role \in Roles : [exists |-> TRUE, active |-> TRUE, member |-> TRUE, role |-> role,
                               password |-> 0] \in Account
      BY AccountsAssumption DEF AccountsAssumption, Account
    <2> QED BY <1>4, <2>1, AccountsAssumption DEF InitAdmin, CreateUser, AccountsAssumption
  <1>5. ASSUME NEW c \in Admins, CommitAdminCall(c)
        PROVE  AccountsTypeOK' /\ CallsAreTyped'
    <2> DEFINE call == adminCall[c]
    <2>1. call \in AdminCall /\ call.user \in Users /\ call.seen \in Account
      BY <1>5, CommitWrites DEF AdminCall
    <2>2. Wanted(call) \in Account
      BY <1>5, <2>1, CommitWrites, WantedIs
    <2>3. Merge(account[call.user], call.seen, Wanted(call)) \in Account
      BY <2>1, <2>2, MergeTypes
    <2>4. account' \in [Users -> Account] /\ session' \in [Sessions -> Session]
      BY <1>5, <2>1, <2>3, CommitWrites, AccountRowTypes
    <2>5. /\ adminCall' = [adminCall EXCEPT ![c] = NoAdminCall] /\ loginCall' = loginCall
          /\ oneCall' = oneCall /\ granted' \subseteq Users
      BY <1>5, <2>1, CommitWrites
    <2> QED BY <2>4, <2>5, AccountRowTypes DEF NoAdminCall
  <1>6. ASSUME NEW c \in Admins, NEW p \in Users, NEW u \in Users, NEW op \in Operations,
               StartAdminCall(c, p, op, u)
        PROVE  AccountsTypeOK' /\ CallsAreTyped'
    <2> DEFINE new == [at |-> "commit", op |-> op, user |-> u, seen |-> account[u],
                       closing |-> IF op \in {"deactivate", "reset"} THEN OpenSessions(u) ELSE {}]
    <2>1. new \in AdminCall
      BY DEF AdminCall, OpenSessions
    <2>2. new.op = "reset" => new.seen.password < MaxPassword
      BY <1>6 DEF StartAdminCall, Permits
    <2>3. adminCall' = [adminCall EXCEPT ![c] = new]
      BY <1>6 DEF StartAdminCall
    <2> QED BY <1>6, <2>1, <2>2, <2>3 DEF StartAdminCall
  <1>7. CASE UNCHANGED accountsVars
    BY <1>7 DEF accountsVars
  <1> QED BY <1>1, <1>2, <1>3, <1>4, <1>5, <1>6, <1>7 DEF AccountsNext

-----------------------------------------------------------------------------
(* Calls that are served one at a time *)

LEMMA AccountsSerialInit == AccountsInit => AccountsSerialInv
  <1> SUFFICES ASSUME AccountsInit
               PROVE  AccountsSerialInv
    OBVIOUS
  <1>1. MembersAreActive
    BY DEF AccountsInit, MembersAreActive, NoAccount
  <1>2. OneCallAtATime /\ AccountSeenIsSo /\ SessionsFollow
    BY DEF AccountsInit, OneCallAtATime, AccountSeenIsSo, SessionsFollow, NoAdminCall, NoLogin, NoSession
  <1>3. account[FirstAdmin].member /\ account[FirstAdmin].role = "admin" /\ FirstAdmin \in Users
    BY AccountsAssumption DEF AccountsInit, AccountsAssumption, NoAccount
  <1> QED BY <1>1, <1>2, <1>3 DEF AccountsSerialInv, SomeAdmin, IsActiveAdmin

LEMMA LoginStep ==
    ASSUME AccountsInv, oneCall, NEW l \in Logins,
           (\E u \in Users : StartLogin(l, u)) \/ (\E s \in Sessions : CommitLogin(l, s))
    PROVE  AccountsSerialInv'
  <1> USE DEF AccountsInv, AccountsSerialInv
  <1>1. MembersAreActive' /\ SomeAdmin'
    BY DEF StartLogin, CommitLogin, MembersAreActive, SomeAdmin, IsActiveAdmin
  <1>2. ASSUME NEW u \in Users, StartLogin(l, u)
        PROVE  OneCallAtATime' /\ AccountSeenIsSo' /\ SessionsFollow'
    <2>1. Quiet
      BY <1>2 DEF StartLogin
    <2>2. /\ loginCall' = [loginCall EXCEPT ![l] = [user |-> u, password |-> account[u].password]]
          /\ account' = account /\ session' = session /\ adminCall' = adminCall
          /\ account[u].member
      BY <1>2 DEF StartLogin
    <2> QED BY <2>1, <2>2 DEF Quiet, OneCallAtATime, AccountSeenIsSo, SessionsFollow, AccountsTypeOK
  <1>3. ASSUME NEW s \in Sessions, CommitLogin(l, s)
        PROVE  OneCallAtATime' /\ AccountSeenIsSo' /\ SessionsFollow'
    <2>1. /\ loginCall[l].user # NoUser /\ session' = [session EXCEPT ![s] = loginCall[l]]
          /\ loginCall' = [loginCall EXCEPT ![l] = NoLogin]
          /\ account' = account /\ adminCall' = adminCall
      BY <1>3 DEF CommitLogin
    <2>2. \A c \in Admins : adminCall'[c].at = "idle"
      BY <2>1 DEF OneCallAtATime, AccountsTypeOK
    <2>3. \A m \in Logins : loginCall'[m].user = NoUser
      BY <2>1 DEF OneCallAtATime, AccountsTypeOK, NoLogin
    <2>4. SessionsFollow'
      BY <2>1 DEF SessionsFollow, AccountSeenIsSo, AccountsTypeOK
    <2> QED BY <2>2, <2>3, <2>4 DEF OneCallAtATime, AccountSeenIsSo
  <1> QED BY <1>1, <1>2, <1>3

LEMMA SessionStep ==
    ASSUME AccountsInv, oneCall, NEW s \in Sessions, Logout(s) \/ SessionExpires(s)
    PROVE  AccountsSerialInv'
  <1> USE DEF AccountsInv, AccountsSerialInv
  <1>1. /\ session' = [session EXCEPT ![s] = NoSession]
        /\ account' = account /\ adminCall' = adminCall /\ loginCall' = loginCall
    BY DEF Logout, SessionExpires
  <1>2. MembersAreActive' /\ SomeAdmin' /\ OneCallAtATime'
    BY <1>1 DEF MembersAreActive, SomeAdmin, IsActiveAdmin, OneCallAtATime
  <1>3. SessionsFollow'
    BY <1>1 DEF SessionsFollow, NoSession, AccountsTypeOK
  <1>4. \A u \in Users : OpenSessions(u)' \subseteq OpenSessions(u)
    BY <1>1, AccountsAssumption DEF OpenSessions, NoSession, AccountsTypeOK, AccountsAssumption
  <1>5. AccountSeenIsSo'
    BY <1>1, <1>4 DEF AccountSeenIsSo, OtherAdmin, IsActiveAdmin
  <1> QED BY <1>2, <1>3, <1>5

(* A new account is of nobody who has a session.                           *)
LEMMA CreateStep ==
    ASSUME AccountsInv, oneCall, NEW u \in Users, InitAdmin(u) \/ \E role \in Roles : CreateUser(u, role)
    PROVE  AccountsSerialInv'
  <1> USE DEF AccountsInv, AccountsSerialInv
  <1>1. PICK role \in Roles :
            account' = [account EXCEPT ![u] = [exists |-> TRUE, active |-> TRUE, member |-> TRUE,
                                               role |-> role, password |-> 0]]
    BY AccountsAssumption DEF InitAdmin, CreateUser, AccountsAssumption
  <1>2. /\ Quiet /\ ~account[u].exists
        /\ session' = session /\ adminCall' = adminCall /\ loginCall' = loginCall
    BY DEF InitAdmin, CreateUser
  <1>3. /\ \A v \in Users \ {u} : account'[v] = account[v]
        /\ account'[u].member = TRUE /\ account'[u].active = TRUE /\ account'[u].exists = TRUE
        /\ ~account[u].member
    BY <1>1, <1>2 DEF AccountsTypeOK, MembersAreActive
  <1>4. MembersAreActive'
    BY <1>3 DEF MembersAreActive
  <1>5. SomeAdmin'
    BY <1>3 DEF SomeAdmin, IsActiveAdmin
  <1>6. SessionsFollow'
    <2> SUFFICES ASSUME NEW s \in Sessions, session[s].user # NoUser
                 PROVE  /\ account'[session[s].user].member
                        /\ session[s].password = account'[session[s].user].password
      BY <1>2 DEF SessionsFollow
    <2>1. session[s].user \in Users \ {u}
      BY <1>3 DEF SessionsFollow, AccountsTypeOK, Session
    <2> QED BY <1>3, <2>1 DEF SessionsFollow
  <1>7. OneCallAtATime' /\ AccountSeenIsSo'
    BY <1>2 DEF Quiet, OneCallAtATime, AccountSeenIsSo
  <1> QED BY <1>4, <1>5, <1>6, <1>7

LEMMA StartAdminStep ==
    ASSUME AccountsInv, oneCall, NEW c \in Admins, NEW p \in Users, NEW u \in Users, NEW op \in Operations,
           StartAdminCall(c, p, op, u)
    PROVE  AccountsSerialInv'
  <1> USE DEF AccountsInv, AccountsSerialInv
  <1> DEFINE new == [at |-> "commit", op |-> op, user |-> u, seen |-> account[u],
                     closing |-> IF op \in {"deactivate", "reset"} THEN OpenSessions(u) ELSE {}]
  <1>1. /\ Quiet /\ Permits(p, op, u) /\ adminCall' = [adminCall EXCEPT ![c] = new]
        /\ account' = account /\ session' = session /\ loginCall' = loginCall
    BY DEF StartAdminCall
  <1>2. MembersAreActive' /\ SomeAdmin' /\ SessionsFollow'
    BY <1>1 DEF MembersAreActive, SomeAdmin, IsActiveAdmin, SessionsFollow
  <1>3. adminCall'[c] = new /\ \A d \in Admins \ {c} : adminCall'[d].at = "idle"
    BY <1>1 DEF Quiet, AccountsTypeOK
  <1>4. \A l \in Logins : loginCall'[l].user = NoUser
    BY <1>1 DEF Quiet
  <1>5. OneCallAtATime'
    BY <1>3, <1>4 DEF OneCallAtATime
  <1>6. OtherAdmin(u)' = OtherAdmin(u) /\ OpenSessions(u)' = OpenSessions(u)
    BY <1>1 DEF OtherAdmin, IsActiveAdmin, OpenSessions
  <1>7. AccountSeenIsSo'
    BY <1>1, <1>3, <1>4, <1>6 DEF AccountSeenIsSo, Permits
  <1> QED BY <1>2, <1>5, <1>7

LEMMA CommitAdminStep ==
    ASSUME AccountsInv, oneCall, NEW c \in Admins, CommitAdminCall(c)
    PROVE  AccountsSerialInv'
  <1> USE DEF AccountsInv, AccountsSerialInv
  <1> DEFINE call == adminCall[c]
             u == call.user
  <1>0. /\ call.at = "commit"
        /\ account' = [account EXCEPT ![u] = Merge(account[u], call.seen, Wanted(call))]
        /\ session' = [s \in Sessions |-> IF s \in call.closing THEN NoSession ELSE session[s]]
        /\ adminCall' = [adminCall EXCEPT ![c] = NoAdminCall] /\ loginCall' = loginCall
    BY CommitWrites
  <1>1. /\ call \in AdminCall
        /\ u \in Users /\ call.seen = account[u] /\ account[u] \in Account
        /\ call.op = "reset" => call.seen.password < MaxPassword
    BY <1>0 DEF AccountSeenIsSo, AccountsTypeOK
  <1>2. account' = [account EXCEPT ![u] = Wanted(call)]
    <2>1. Wanted(call) \in Account
      BY <1>1, WantedIs
    <2>2. Merge(account[u], account[u], Wanted(call)) = Wanted(call)
      BY <1>1, <2>1, AccountMergeOfNow
    <2> QED BY <1>0, <1>1, <2>2
  <1>3. /\ \A v \in Users \ {u} : account'[v] = account[v]
        /\ account'[u] = Wanted(call)
    BY <1>1, <1>2 DEF AccountsTypeOK
  <1>4. /\ \A d \in Admins : adminCall'[d].at = "idle"
        /\ \A l \in Logins : loginCall'[l].user = NoUser
    <2>1. adminCall'[c].at = "idle"
      BY <1>0 DEF AccountsTypeOK, NoAdminCall
    <2>2. \A d \in Admins \ {c} : adminCall'[d] = adminCall[d] /\ adminCall[d].at = "idle"
      BY <1>0 DEF AccountsTypeOK, OneCallAtATime
    <2>3. \A l \in Logins : loginCall'[l].user = NoUser
      BY <1>0 DEF OneCallAtATime
    <2> QED BY <2>1, <2>2, <2>3
  <1>5. OneCallAtATime' /\ AccountSeenIsSo'
    BY <1>4 DEF OneCallAtATime, AccountSeenIsSo
  <1>6. /\ account'[u].exists = account[u].exists
        /\ account[u].member = account[u].active => account'[u].member = account'[u].active
        /\ call.op # "deactivate" => account'[u].member \in {account[u].member, TRUE}
        /\ call.op \notin {"deactivate"} \cup (Roles \ {"admin"})
              => account'[u].role \in {account[u].role, "admin"}
        /\ call.op \notin {"deactivate", "reset"} => account'[u].password = account[u].password
    BY <1>1, <1>3, WantedKeeps
  <1>7. MembersAreActive'
    <2>1. account[u].exists
      BY <1>0, <1>1 DEF AccountSeenIsSo
    <2> QED BY <1>3, <1>6, <2>1 DEF MembersAreActive
  <1>8. SomeAdmin'
    <2>1. PICK v \in Users : IsActiveAdmin(v)
      BY DEF SomeAdmin
    <2>2. CASE v # u
      BY <1>3, <2>1, <2>2 DEF SomeAdmin, IsActiveAdmin
    <2>3. CASE v = u /\ call.op \in {"deactivate"} \cup (Roles \ {"admin"})
      <3>1. OtherAdmin(u)
        BY <1>0, <1>1, <2>1, <2>3 DEF AccountSeenIsSo, IsActiveAdmin
      <3> QED BY <1>3, <3>1 DEF OtherAdmin, SomeAdmin, IsActiveAdmin
    <2>4. CASE v = u /\ call.op \notin {"deactivate"} \cup (Roles \ {"admin"})
      <3>1. account'[u].member /\ account'[u].role = "admin"
        BY <1>6, <2>1, <2>4 DEF IsActiveAdmin
      <3> QED BY <1>1, <3>1 DEF SomeAdmin, IsActiveAdmin
    <2> QED BY <2>2, <2>3, <2>4
  <1>9. SessionsFollow'
    <2> SUFFICES ASSUME NEW s \in Sessions, session'[s].user # NoUser
                 PROVE  /\ account'[session'[s].user].member
                        /\ session'[s].password = account'[session'[s].user].password
      BY DEF SessionsFollow
    <2>1. s \notin call.closing /\ session'[s] = session[s]
      BY <1>0 DEF NoSession
    <2>2. session[s].user \in Users
      BY <2>1 DEF AccountsTypeOK, Session
    <2>3. /\ account[session[s].user].member
          /\ session[s].password = account[session[s].user].password
      BY <2>1 DEF SessionsFollow
    <2>4. CASE session[s].user # u
      BY <1>3, <2>1, <2>2, <2>3, <2>4
    <2>5. CASE session[s].user = u
      <3>1. call.op \notin {"deactivate", "reset"}
        BY <1>0, <1>1, <2>1, <2>5 DEF AccountSeenIsSo, OpenSessions
      <3>2. account'[u].member /\ account'[u].password = account[u].password
        BY <1>6, <2>3, <2>5, <3>1
      <3> QED BY <2>1, <2>3, <2>5, <3>2
    <2> QED BY <2>4, <2>5
  <1> QED BY <1>5, <1>7, <1>8, <1>9

LEMMA AccountsSerialStep ==
    ASSUME AccountsInv, oneCall, [AccountsNext]_accountsVars
    PROVE  AccountsSerialInv'
  <1>1. CASE UNCHANGED accountsVars
    BY <1>1 DEF accountsVars, AccountsInv, AccountsSerialInv, MembersAreActive, OneCallAtATime, AccountSeenIsSo, SessionsFollow,
                SomeAdmin, IsActiveAdmin, OtherAdmin, OpenSessions
  <1>2. CASE AccountsNext
    BY <1>2, LoginStep, SessionStep, CreateStep, StartAdminStep, CommitAdminStep DEF AccountsNext
  <1> QED BY <1>1, <1>2

LEMMA AccountsInvInit == AccountsInit => AccountsInv
  <1>1. AccountsInit => CallsAreTyped
    BY DEF AccountsInit, CallsAreTyped, NoAdminCall
  <1> QED BY <1>1, AccountsTypeInit, AccountsSerialInit DEF AccountsInv

LEMMA AccountsInvStep == AccountsInv /\ [AccountsNext]_accountsVars => AccountsInv'
  <1> SUFFICES ASSUME AccountsInv, [AccountsNext]_accountsVars
               PROVE  AccountsInv'
    OBVIOUS
  <1>1. AccountsTypeOK' /\ CallsAreTyped'
    BY AccountsTypeStep DEF AccountsInv
  <1>2. oneCall' = oneCall
    BY DEF AccountsNext, accountsVars, StartLogin, CommitLogin, Logout, SessionExpires, InitAdmin,
           CreateUser, StartAdminCall, CommitAdminCall
  <1> QED BY <1>1, <1>2, AccountsSerialStep DEF AccountsInv

LEMMA AccountsInvHolds == AccountsInv => AccountsHold
  <1> SUFFICES ASSUME AccountsInv
               PROVE  AccountsHold
    OBVIOUS
  <1>1. AdminRemains
    BY DEF AccountsInv, AccountsSerialInv, SomeAdmin, MembersAreActive, IsActiveAdmin, AdminRemains
  <1>2. SessionsAreCurrent
    <2> SUFFICES ASSUME oneCall, NEW s \in Sessions, session[s].user \in Users
                 PROVE  LET u == session[s].user IN
                        session[s].password = account[u].password /\ account[u].member /\ account[u].active
      BY DEF SessionsAreCurrent
    <2> QED BY AccountsAssumption
            DEF AccountsInv, AccountsSerialInv, SessionsFollow, MembersAreActive, AccountsAssumption
  <1> QED BY <1>1, <1>2 DEF AccountsHold

(* While calls are served one at a time, the workspace always has an       *)
(* administrator who can log in, and every session is of a member, with    *)
(* the password he has: LAST_ADMIN_FORBIDDEN and the revocations of        *)
(* app/account_admin.py, create_session of app/employee_auth.py.           *)
THEOREM AccountsAreKept == AccountsSpec => []AccountsHold
  BY AccountsInvInit, AccountsInvStep, AccountsInvHolds, PTL DEF AccountsSpec

-----------------------------------------------------------------------------
(* Tickets.  The assignments a call ends are all that are open, and each   *)
(* version is counted by one record.                                       *)

OpenWork == [no : {0} \cup TicketNos, to : Ticket, seen : Ticket,
         ends : SUBSET Assignment, assigns : BOOLEAN]

TicketsTypeInv ==
    /\ ticket \in [TicketNos -> Ticket]
    /\ assignments \in [TicketNos -> SUBSET Assignment]
    /\ ticketEvents \in [TicketNos -> SUBSET Nat]
    /\ clerk \in [Clerks -> OpenWork]

OpenOf(A) == {a \in A : ~a.ended}

(* The assignments of a ticket that names who.                             *)
Numbered(A) ==
    /\ IsFiniteSet(A)
    /\ \A a \in A : a.no <= Cardinality(A)
    /\ \A a, b \in A : a.no = b.no => a = b

Names(A, who) ==
    \/ OpenOf(A) = {} /\ who = Nobody
    \/ \E a : OpenOf(A) = {a} /\ a.who = who

BookInv ==
    \A t \in TicketNos :
        /\ Numbered(assignments[t]) /\ Names(assignments[t], ticket[t].assignee)
        /\ \A v \in ticketEvents[t] : v <= ticket[t].version
        /\ ticket[t].version = 1 + Cardinality(ticketEvents[t]) + Cardinality(assignments[t])

(* What an assignment makes of them.                                       *)
Reassign(A, next) ==
    ((A \ OpenOf(A)) \cup {[a EXCEPT !.ended = TRUE] : a \in OpenOf(A)})
        \cup {[no |-> Cardinality(A) + 1, who |-> next, ended |-> FALSE]}

(* One call at most is in progress, and what it has read is still so.      *)
OneClerkAtATime == \A c, d \in Clerks : clerk[c].no # 0 /\ clerk[d].no # 0 => c = d

TicketSeenIsSo ==
    \A c \in Clerks : clerk[c].no # 0 =>
        LET call == clerk[c]
            t == call.no
        IN /\ call.seen = ticket[t] /\ call.seen.exists /\ call.to.version = ticket[t].version + 1
           /\ call.assigns => call.to.assignee \in Assignees /\ call.ends = OpenOf(assignments[t])
           /\ ~call.assigns => call.to.assignee = ticket[t].assignee

TicketsSerialInv == TicketsTypeInv /\ BookInv /\ OneClerkAtATime /\ TicketSeenIsSo
TicketsInv == oneClerk => TicketsSerialInv

-----------------------------------------------------------------------------
(* No ticket has the number 0, which stands for an idle call.              *)
LEMMA ZeroIsNoTicket == 0 \notin TicketNos
  <1>1. \A i \in 1..Cardinality(TicketNos) : i # 0
    OBVIOUS
  <1> QED BY <1>1, TicketsAssumption DEF TicketsAssumption

LEMMA TicketRowTypes == NoTicket \in Ticket /\ NoWork \in OpenWork
  <1>1. NoTicket \in Ticket
    BY TicketsAssumption DEF NoTicket, Ticket, TicketStatuses, TicketsAssumption
  <1> QED BY <1>1 DEF NoWork, OpenWork

(* Ending what is open changes no number, and the new one gets its own.    *)
LEMMA Reassigned ==
    ASSUME NEW A \in SUBSET Assignment, NEW who, NEW next \in Assignees,
           Numbered(A), Names(A, who),
           NEW B, B = Reassign(A, next)
    PROVE  /\ B \in SUBSET Assignment /\ Numbered(B) /\ Names(B, next)
           /\ Cardinality(B) = Cardinality(A) + 1
  <1> DEFINE new == [no |-> Cardinality(A) + 1, who |-> next, ended |-> FALSE]
             M == (A \ OpenOf(A)) \cup {[a EXCEPT !.ended = TRUE] : a \in OpenOf(A)}
  <1>1. IsFiniteSet(A) /\ Cardinality(A) \in Nat
    BY FS_CardinalityType DEF Numbered
  <1>2. /\ M \in SUBSET Assignment /\ Numbered(M) /\ Cardinality(M) = Cardinality(A)
        /\ \A m \in M : m.ended
    <2>1. CASE OpenOf(A) = {}
      <3>1. M = A
        BY <2>1
      <3> QED BY <2>1, <3>1 DEF OpenOf
    <2>2. CASE \E a : OpenOf(A) = {a}
      <3>1. PICK a : OpenOf(A) = {a}
        BY <2>2
      <3> DEFINE e == [a EXCEPT !.ended = TRUE]
      <3>2. a \in A /\ ~a.ended /\ a \in Assignment
        BY <3>1 DEF OpenOf
      <3>3. M = (A \ {a}) \cup {e}
        BY <3>1
      <3> HIDE DEF M
      <3>4. e \in Assignment /\ e.no = a.no /\ e.ended
        BY <3>2 DEF Assignment
      <3>5. \A b \in A \ {a} : b.no # a.no /\ b.ended
        BY <3>1, <3>2 DEF Numbered, OpenOf
      <3>6. e \notin A \ {a}
        BY <3>4, <3>5
      <3>7. IsFiniteSet(A \ {a}) /\ Cardinality(A \ {a}) = Cardinality(A) - 1
        BY <1>1, <3>2, FS_RemoveElement
      <3>8. IsFiniteSet(M) /\ Cardinality(M) = Cardinality(A)
        <4>1. /\ IsFiniteSet((A \ {a}) \cup {e})
              /\ Cardinality((A \ {a}) \cup {e}) = Cardinality(A \ {a}) + 1
          BY <3>6, <3>7, FS_AddElement
        <4>2. Cardinality(M) = Cardinality(A \ {a}) + 1 /\ IsFiniteSet(M)
          BY <3>3, <4>1
        <4> QED BY <1>1, <3>7, <4>2
      <3>9. \A m \in M : m.no <= Cardinality(A) /\ m.ended
        BY <3>2, <3>3, <3>4, <3>5 DEF Numbered
      <3>10. \A m, n \in M : m.no = n.no => m = n
        BY <3>2, <3>3, <3>4, <3>5 DEF Numbered
      <3> QED BY <3>2, <3>3, <3>4, <3>8, <3>9, <3>10 DEF Numbered
    <2> QED BY <2>1, <2>2 DEF Names
  <1> HIDE DEF M
  <1>3. B = M \cup {new}
    BY DEF M, Reassign
  <1>4. new \in Assignment /\ new.no = Cardinality(A) + 1 /\ ~new.ended /\ new.who = next
    BY <1>1 DEF Assignment
  <1>5. \A m \in M : m.no \in Nat /\ m.no <= Cardinality(A)
    BY <1>2 DEF Numbered, Assignment
  <1>6. new \notin M
    BY <1>2, <1>4
  <1>8. B \in SUBSET Assignment
    BY <1>2, <1>3, <1>4
  <1> HIDE DEF new
  <1>7. IsFiniteSet(B) /\ Cardinality(B) = Cardinality(A) + 1
    <2>1. IsFiniteSet(M)
      BY <1>2 DEF Numbered
    <2>2. IsFiniteSet(M \cup {new}) /\ Cardinality(M \cup {new}) = Cardinality(M) + 1
      BY <1>6, <2>1, FS_AddElement
    <2> QED BY <1>2, <1>3, <2>2
  <1>9. \A m \in B : m.no <= Cardinality(B)
    BY <1>1, <1>3, <1>4, <1>5, <1>7
  <1>10. \A m, n \in B : m.no = n.no => m = n
    BY <1>1, <1>2, <1>3, <1>4, <1>5 DEF Numbered
  <1>11. OpenOf(B) = {new}
    BY <1>2, <1>3, <1>4 DEF OpenOf
  <1> QED BY <1>4, <1>7, <1>8, <1>9, <1>10, <1>11 DEF Numbered, Names

LEMMA TicketMergeOfNow ==
    ASSUME NEW now \in Ticket, NEW new \in Ticket
    PROVE  [f \in DOMAIN new |-> IF new[f] = now[f] THEN now[f] ELSE new[f]] = new
  <1>1. [f \in DOMAIN new |-> IF new[f] = now[f] THEN now[f] ELSE new[f]] = [f \in DOMAIN new |-> new[f]]
    OBVIOUS
  <1>2. new = [f \in DOMAIN new |-> new[f]]
    BY DEF Ticket
  <1> QED BY <1>1, <1>2

-----------------------------------------------------------------------------
(* The steps *)

LEMMA TicketsInvInit == TicketsInit => TicketsInv
  <1> SUFFICES ASSUME TicketsInit
               PROVE  TicketsSerialInv
    BY DEF TicketsInv
  <1>1. TicketsTypeInv
    BY TicketRowTypes DEF TicketsInit, TicketsTypeInv
  <1>2. BookInv
    <2>1. IsFiniteSet({}) /\ Cardinality({}) = 0
      BY FS_EmptySet
    <2> QED BY <2>1 DEF TicketsInit, BookInv, Numbered, Names, OpenOf, NoTicket
  <1>3. OneClerkAtATime /\ TicketSeenIsSo
    BY DEF TicketsInit, OneClerkAtATime, TicketSeenIsSo, NoWork
  <1> QED BY <1>1, <1>2, <1>3 DEF TicketsSerialInv

LEMMA TicketCreateStep ==
    ASSUME TicketsSerialInv, NEW t \in TicketNos, CreateTicket(t)
    PROVE  TicketsSerialInv'
  <1> USE DEF TicketsSerialInv
  <1>1. /\ ticket' = [ticket EXCEPT ![t].exists = TRUE]
        /\ assignments' = assignments /\ ticketEvents' = ticketEvents /\ clerk' = clerk
    BY DEF CreateTicket
  <1>2. /\ ticket'[t] \in Ticket /\ ticket'[t].version = ticket[t].version
        /\ ticket'[t].assignee = ticket[t].assignee
        /\ \A u \in TicketNos \ {t} : ticket'[u] = ticket[u]
    BY <1>1 DEF TicketsTypeInv, Ticket
  <1>3. TicketsTypeInv'
    BY <1>1, <1>2 DEF TicketsTypeInv
  <1>4. BookInv'
    BY <1>1, <1>2 DEF BookInv
  <1>5. OneClerkAtATime'
    BY <1>1 DEF OneClerkAtATime
  <1>6. TicketSeenIsSo'
    <2> SUFFICES ASSUME NEW c \in Clerks, clerk[c].no # 0
                 PROVE  ticket'[clerk[c].no] = ticket[clerk[c].no]
      BY <1>1 DEF TicketSeenIsSo
    <2>1. clerk[c].no \in TicketNos /\ ticket[clerk[c].no].exists
      BY DEF TicketsTypeInv, OpenWork, TicketSeenIsSo
    <2> QED BY <1>2, <2>1 DEF CreateTicket
  <1> QED BY <1>3, <1>4, <1>5, <1>6

LEMMA StartStep ==
    ASSUME TicketsSerialInv, oneClerk, NEW c \in Clerks, NEW call \in OpenWork,
           MayServe(c), clerk' = [clerk EXCEPT ![c] = call],
           ticket' = ticket, assignments' = assignments, ticketEvents' = ticketEvents,
           call.no \in TicketNos, call.seen = ticket[call.no], call.seen.exists,
           call.to.version = ticket[call.no].version + 1,
           call.assigns => call.to.assignee \in Assignees /\ call.ends = OpenOf(assignments[call.no]),
           ~call.assigns => call.to.assignee = ticket[call.no].assignee
    PROVE  TicketsSerialInv'
  <1> USE DEF TicketsSerialInv
  <1>1. clerk'[c] = call /\ \A d \in Clerks \ {c} : clerk'[d].no = 0
    BY DEF TicketsTypeInv, MayServe
  <1>2. TicketsTypeInv' /\ BookInv'
    BY DEF TicketsTypeInv, BookInv, Numbered, Names, OpenOf
  <1>3. OneClerkAtATime'
    BY <1>1 DEF OneClerkAtATime
  <1>4. TicketSeenIsSo'
    BY <1>1 DEF TicketSeenIsSo
  <1> QED BY <1>2, <1>3, <1>4

LEMMA TransitionStep ==
    ASSUME TicketsSerialInv, oneClerk, NEW c \in Clerks, NEW t \in TicketNos, NEW target \in TicketStatuses,
           NEW expected \in 1..MaxVersion, StartTransition(c, t, target, expected)
    PROVE  TicketsSerialInv'
  <1> DEFINE call == [NoWork EXCEPT !.no = t, !.seen = ticket[t],
                          !.to = [ticket[t] EXCEPT !.status = target, !.version = expected + 1]]
  <1>1. ticket[t] \in Ticket /\ expected = ticket[t].version /\ expected < MaxVersion
        /\ ticket[t].exists
    BY DEF StartTransition, Current, TicketsSerialInv, TicketsTypeInv
  <1>2. [ticket[t] EXCEPT !.status = target, !.version = expected + 1] \in Ticket
    <2>1. expected + 1 \in 1..MaxVersion
      BY <1>1, TicketsAssumption DEF TicketsAssumption
    <2> QED BY <1>1, <2>1 DEF Ticket
  <1>3. /\ call \in OpenWork /\ call.no = t /\ call.seen = ticket[t] /\ ~call.assigns
        /\ call.to.version = ticket[t].version + 1 /\ call.to.assignee = ticket[t].assignee
    BY <1>1, <1>2, TicketRowTypes DEF OpenWork, NoWork, Ticket
  <1>4. /\ MayServe(c) /\ clerk' = [clerk EXCEPT ![c] = call]
        /\ ticket' = ticket /\ assignments' = assignments /\ ticketEvents' = ticketEvents
    BY DEF StartTransition
  <1> HIDE DEF call
  <1> QED BY <1>1, <1>3, <1>4, StartStep

LEMMA AssignmentStep ==
    ASSUME TicketsSerialInv, oneClerk, NEW c \in Clerks, NEW t \in TicketNos, NEW who \in Assignees,
           NEW expected \in 1..MaxVersion, StartAssignment(c, t, who, expected)
    PROVE  TicketsSerialInv'
  <1> DEFINE to == [ticket[t] EXCEPT !.assignee = who, !.version = expected + 1,
                                     !.status = IF @ = "open" THEN "assigned" ELSE @]
             call == [no |-> t, seen |-> ticket[t], assigns |-> TRUE, ends |-> ToEnd(t, who), to |-> to]
  <1>1. ticket[t] \in Ticket /\ expected = ticket[t].version /\ expected < MaxVersion
        /\ ticket[t].exists
    BY DEF StartAssignment, Current, TicketsSerialInv, TicketsTypeInv
  <1>2. /\ to \in Ticket /\ to.version = ticket[t].version + 1 /\ to.assignee = who
    <2>1. expected + 1 \in 1..MaxVersion
      BY <1>1, TicketsAssumption DEF TicketsAssumption
    <2>2. "assigned" \in TicketStatuses
      BY DEF TicketStatuses
    <2> QED BY <1>1, <2>1, <2>2 DEF Ticket
  <1>3. ToEnd(t, who) = OpenOf(assignments[t]) /\ ToEnd(t, who) \in SUBSET Assignment
    BY DEF ToEnd, OpenOf, TicketsSerialInv, TicketsTypeInv
  <1>4. /\ MayServe(c) /\ clerk' = [clerk EXCEPT ![c] = call]
        /\ ticket' = ticket /\ assignments' = assignments /\ ticketEvents' = ticketEvents
    BY DEF StartAssignment
  <1> HIDE DEF to
  <1>5. /\ call \in OpenWork /\ call.no = t /\ call.seen = ticket[t] /\ call.assigns
        /\ call.to = to /\ call.ends = OpenOf(assignments[t])
    BY <1>1, <1>2, <1>3 DEF OpenWork
  <1> HIDE DEF call
  <1> QED BY <1>1, <1>2, <1>4, <1>5, StartStep

LEMMA CommitStep ==
    ASSUME TicketsSerialInv, NEW c \in Clerks, CommitTicket(c)
    PROVE  TicketsSerialInv'
  <1> DEFINE call == clerk[c]
             t == call.no
  <1>1. /\ call \in OpenWork /\ t \in TicketNos /\ t # 0
        /\ call.seen = ticket[t] /\ call.to.version = ticket[t].version + 1
        /\ call.assigns => call.to.assignee \in Assignees /\ call.ends = OpenOf(assignments[t])
        /\ ~call.assigns => call.to.assignee = ticket[t].assignee
    BY DEF CommitTicket, TicketsSerialInv, TicketsTypeInv, TicketSeenIsSo, OpenWork
  <1>2. call.to \in Ticket /\ ticket[t] \in Ticket /\ call.assigns \in BOOLEAN
    BY <1>1 DEF OpenWork, TicketsSerialInv, TicketsTypeInv
  <1>3. ticket' = [ticket EXCEPT ![t] = call.to]
    <2>1. ticket' = [ticket EXCEPT ![t] = [f \in DOMAIN call.to |->
                        IF call.to[f] = call.seen[f] THEN ticket[t][f] ELSE call.to[f]]]
      BY DEF CommitTicket, TicketsSerialInv, TicketsTypeInv
    <2>2. [f \in DOMAIN call.to |-> IF call.to[f] = ticket[t][f] THEN ticket[t][f] ELSE call.to[f]]
             = call.to
      BY <1>2, TicketMergeOfNow
    <2> QED BY <1>1, <2>1, <2>2
  <1>4. ticket'[t] = call.to /\ \A u \in TicketNos \ {t} : ticket'[u] = ticket[u]
    BY <1>1, <1>3 DEF TicketsSerialInv, TicketsTypeInv
  <1>5. \A d \in Clerks : clerk'[d] \in OpenWork /\ clerk'[d].no = 0
    BY <1>1, TicketRowTypes DEF CommitTicket, TicketsSerialInv, TicketsTypeInv, OneClerkAtATime, NoWork
  <1>6. OneClerkAtATime' /\ TicketSeenIsSo'
    BY <1>5 DEF OneClerkAtATime, TicketSeenIsSo
  <1>7. ticket' \in [TicketNos -> Ticket] /\ clerk' \in [Clerks -> OpenWork]
    BY <1>2, <1>3, <1>5 DEF TicketsSerialInv, TicketsTypeInv, CommitTicket
  <1>8. /\ Numbered(assignments[t]) /\ Names(assignments[t], ticket[t].assignee)
        /\ assignments[t] \in SUBSET Assignment /\ ticketEvents[t] \in SUBSET Nat
        /\ \A v \in ticketEvents[t] : v <= ticket[t].version
        /\ ticket[t].version = 1 + Cardinality(ticketEvents[t]) + Cardinality(assignments[t])
        /\ ticket[t].version \in Nat
    BY <1>1, <1>2 DEF TicketsSerialInv, TicketsTypeInv, BookInv, Ticket
  <1>9. CASE call.assigns
    <2> DEFINE B == Reassign(assignments[t], call.to.assignee)
    <2>1. assignments' = [assignments EXCEPT ![t] = B] /\ ticketEvents' = ticketEvents
      BY <1>1, <1>9 DEF CommitTicket, Reassign
    <2>2. /\ B \in SUBSET Assignment /\ Numbered(B) /\ Names(B, call.to.assignee)
          /\ Cardinality(B) = Cardinality(assignments[t]) + 1
      BY <1>1, <1>8, <1>9, Reassigned
    <2> HIDE DEF B
    <2>3. assignments'[t] = B /\ \A u \in TicketNos \ {t} : assignments'[u] = assignments[u]
      BY <1>1, <2>1 DEF TicketsSerialInv, TicketsTypeInv
    <2>4. TicketsTypeInv'
      BY <1>7, <2>1, <2>2 DEF TicketsSerialInv, TicketsTypeInv
    <2>5. Cardinality(assignments[t]) \in Nat /\ \A v \in ticketEvents[t] : v \in Nat
      BY <1>8, FS_CardinalityType DEF Numbered
    <2>6. IsFiniteSet(ticketEvents[t]) /\ Cardinality(ticketEvents[t]) \in Nat
      BY <1>8, FS_BoundedSetOfNaturals, FS_CardinalityType
    <2>7. /\ \A v \in ticketEvents'[t] : v <= ticket'[t].version
          /\ ticket'[t].version = 1 + Cardinality(ticketEvents'[t]) + Cardinality(assignments'[t])
      <3>1. ticket'[t].version = ticket[t].version + 1 /\ ticketEvents'[t] = ticketEvents[t]
        BY <1>1, <1>4, <2>1
      <3>2. \A v \in ticketEvents[t] : v <= ticket[t].version + 1
        BY <1>8, <2>5
      <3>3. ticket[t].version + 1 = 1 + Cardinality(ticketEvents[t]) + Cardinality(B)
        BY <1>8, <2>2, <2>5, <2>6
      <3> QED BY <2>3, <3>1, <3>2, <3>3
    <2>8. BookInv'
      BY <1>4, <2>1, <2>2, <2>3, <2>7 DEF TicketsSerialInv, BookInv
    <2> QED BY <1>6, <2>4, <2>8 DEF TicketsSerialInv
  <1>10. CASE ~call.assigns
    <2> DEFINE E == ticketEvents[t] \cup {call.to.version}
    <2>1. assignments' = assignments /\ ticketEvents' = [ticketEvents EXCEPT ![t] = E]
      BY <1>10 DEF CommitTicket
    <2>2. IsFiniteSet(ticketEvents[t]) /\ Cardinality(ticketEvents[t]) \in Nat
      BY <1>8, FS_BoundedSetOfNaturals, FS_CardinalityType
    <2>3. call.to.version \notin ticketEvents[t]
      BY <1>1, <1>8
    <2>4. Cardinality(E) = Cardinality(ticketEvents[t]) + 1
      BY <2>2, <2>3, FS_AddElement
    <2>5. E \in SUBSET Nat /\ \A v \in E : v <= call.to.version
      BY <1>1, <1>8
    <2> HIDE DEF E
    <2>6. ticketEvents'[t] = E /\ \A u \in TicketNos \ {t} : ticketEvents'[u] = ticketEvents[u]
      BY <1>1, <2>1 DEF TicketsSerialInv, TicketsTypeInv
    <2>7. TicketsTypeInv'
      BY <1>7, <2>1, <2>5 DEF TicketsSerialInv, TicketsTypeInv
    <2>8. Cardinality(assignments[t]) \in Nat
      BY <1>8, FS_CardinalityType DEF Numbered
    <2>9. call.to.version = 1 + Cardinality(E) + Cardinality(assignments[t])
      BY <1>1, <1>8, <2>2, <2>4, <2>8
    <2>10. BookInv'
      BY <1>1, <1>4, <1>8, <1>10, <2>1, <2>5, <2>6, <2>9 DEF TicketsSerialInv, BookInv
    <2> QED BY <1>6, <2>7, <2>10 DEF TicketsSerialInv
  <1> QED BY <1>2, <1>9, <1>10

LEMMA TicketsInvStep == TicketsInv /\ [TicketsNext]_ticketVars => TicketsInv'
  <1> SUFFICES ASSUME TicketsInv, [TicketsNext]_ticketVars
               PROVE  TicketsInv'
    OBVIOUS
  <1>1. oneClerk' = oneClerk
    BY DEF TicketsNext, ticketVars, CreateTicket, CommitTicket, StartTransition, StartAssignment
  <1>2. ASSUME oneClerk, UNCHANGED ticketVars
        PROVE  TicketsSerialInv'
    BY <1>2 DEF ticketVars, TicketsInv, TicketsSerialInv, TicketsTypeInv, BookInv, Numbered, Names, OpenOf, OneClerkAtATime, TicketSeenIsSo
  <1>3. ASSUME oneClerk, TicketsNext
        PROVE  TicketsSerialInv'
    BY <1>3, TicketCreateStep, CommitStep, TransitionStep, AssignmentStep DEF TicketsInv, TicketsNext
  <1> QED BY <1>1, <1>2, <1>3 DEF TicketsInv

LEMMA TicketsInvHolds == TicketsInv => TicketsAgree
  <1> SUFFICES ASSUME TicketsSerialInv, NEW t \in TicketNos
               PROVE  LET A == assignments[t]
                          who == ticket[t].assignee
                      IN /\ {a.who : a \in {x \in A : ~x.ended}} = {who} \ {Nobody}
                         /\ Cardinality({a \in A : ~a.ended}) <= 1
                         /\ ticket[t].version = 1 + Cardinality(ticketEvents[t]) + Cardinality(A)
    BY DEF TicketsInv, TicketsAgree
  <1>1. Names(assignments[t], ticket[t].assignee) /\ assignments[t] \in SUBSET Assignment
    BY DEF TicketsSerialInv, TicketsTypeInv, BookInv
  <1>2. CASE OpenOf(assignments[t]) = {} /\ ticket[t].assignee = Nobody
    <2>1. {x \in assignments[t] : ~x.ended} = {} /\ Cardinality({}) = 0
      BY <1>2, FS_EmptySet DEF OpenOf
    <2>2. {a.who : a \in {x \in assignments[t] : ~x.ended}} = {}
      BY <2>1
    <2>3. Cardinality({a \in assignments[t] : ~a.ended}) = 0
      BY <2>1
    <2> QED BY <1>2, <2>2, <2>3 DEF TicketsSerialInv, BookInv
  <1>3. CASE \E a : OpenOf(assignments[t]) = {a} /\ a.who = ticket[t].assignee
    <2>1. PICK a : OpenOf(assignments[t]) = {a} /\ a.who = ticket[t].assignee
      BY <1>3
    <2>2. a.who # Nobody
      BY <1>1, <2>1, TicketsAssumption DEF OpenOf, Assignment, TicketsAssumption
    <2>3. Cardinality(OpenOf(assignments[t])) = 1
      BY <2>1, FS_Singleton
    <2> QED BY <2>1, <2>2, <2>3 DEF TicketsSerialInv, BookInv, OpenOf
  <1> QED BY <1>1, <1>2, <1>3 DEF Names

(* While calls are served one at a time, the one assignment of a ticket    *)
(* that has not ended, if any, is of the assignee it names, and its        *)
(* version counts its assignments and recorded transitions                 *)
(* (assign_ticket and transition_ticket of app/tickets.py).                *)
THEOREM TicketsAreKept == TicketsSpec => []TicketsAgree
  BY TicketsInvInit, TicketsInvStep, TicketsInvHolds, PTL DEF TicketsSpec
-----------------------------------------------------------------------------
(* Fixture runs.  A run that is over is never written again: with it, what *)
(* a retry was granted on stays true, its key stays its own, and what it   *)
(* carries stays what its parent has.                                      *)

Call == [at : {"idle", "begin", "initialize", "resources", "finish"},
         run : {0} \cup Bundles, of : {0} \cup Bundles,
         key : RetryKeys \cup {NoKeyGiven}, hash : Payload, todo : SUBSET Parts]

TypeInv ==
    /\ bundle \in [Bundles -> Bundle]
    /\ syncer \in [Syncers -> Call]
    /\ answers \subseteq Answer

RunOver(b) == bundle[b].status \in {"failed", "partial"}

(* What a retry is granted on.                                             *)
Granted(of, hash) == of \in Bundles /\ RunOver(of) /\ hash.want \subseteq RetryableParts(bundle[of])

Writing(c) == syncer[c].at \in {"initialize", "resources"}
Serving(c) == Writing(c) \/ syncer[c].at = "finish"

(* A call writes a run that is running, and that no other call serves.     *)
GoodCall(c) ==
    /\ syncer[c].at # "idle" /\ syncer[c].of # 0 =>
          /\ Granted(syncer[c].of, syncer[c].hash)
          /\ syncer[c].key \in RetryKeys /\ syncer[c].todo \subseteq syncer[c].hash.want
    /\ Serving(c) =>
          /\ syncer[c].run \in Bundles /\ Begun(syncer[c].run)
          /\ bundle[syncer[c].run].of = syncer[c].of
          /\ bundle[syncer[c].run].key = syncer[c].key
          /\ bundle[syncer[c].run].hash = syncer[c].hash
    /\ Writing(c) => bundle[syncer[c].run].status = "running"

Alone == \A c, d \in Syncers : Serving(c) /\ Serving(d) /\ syncer[c].run = syncer[d].run => c = d

CallInv == Alone /\ \A c \in Syncers : GoodCall(c)

(* The key of a retry is its own.                                          *)
KeyInv ==
    \A b, d \in Bundles :
        bundle[b].of # 0 /\ bundle[b].of = bundle[d].of /\ bundle[b].key = bundle[d].key => b = d

(* What it does not retry is not there yet, or is as its parent has it.    *)
CarryInv ==
    \A b \in Bundles : bundle[b].of # 0 =>
        /\ Begun(b) /\ Granted(bundle[b].of, bundle[b].hash)
        /\ \A x \in Parts \ bundle[b].hash.want :
              \/ bundle[b].entry[x] = NoEntry
              \/ bundle[b].entry[x] = CarriedForward(bundle[bundle[b].of].entry[x])

(* What succeeded, here or in the parent, is not retryable.                *)
EntryInv ==
    \A b \in Bundles, x \in Parts :
        "succeeded" \in {bundle[b].entry[x].status, bundle[b].entry[x].prior}
            => ~bundle[b].entry[x].retryable

AnswerInv ==
    \A a \in answers :
        /\ bundle[a.run].of = a.of
        /\ bundle[a.run].key = a.key
        /\ bundle[a.run].hash = a.hash

Inv == TypeInv /\ CallInv /\ KeyInv /\ CarryInv /\ EntryInv /\ AnswerInv

-----------------------------------------------------------------------------
(* No run has the number 0, which stands for no parent.                    *)
LEMMA ZeroIsNoRun == 0 \notin Bundles
  <1>1. \A i \in 1..Cardinality(Bundles) : i # 0
    OBVIOUS
  <1> QED BY <1>1, FixtureAssumption DEF FixtureAssumption

LEMMA RowTypes ==
    /\ NoEntry \in Entry /\ NoPayload \in Payload /\ NoBundle \in Bundle /\ NoSync \in Call
    /\ \A e \in Entry : CarriedForward(e) \in Entry
  <1>1. NoEntry \in Entry
    BY DEF NoEntry, Entry, PartStatuses
  <1>2. NoPayload \in Payload
    BY DEF NoPayload, Payload
  <1>3. NoBundle \in Bundle
    BY <1>1, <1>2 DEF NoBundle, Bundle
  <1>4. NoSync \in Call
    BY <1>2 DEF NoSync, Call
  <1>5. \A e \in Entry : CarriedForward(e) \in Entry
    BY DEF CarriedForward, Entry, PartStatuses
  <1> QED BY <1>1, <1>2, <1>3, <1>4, <1>5

LEMMA EntryOfParent ==
    ASSUME TypeInv, NEW of \in {0} \cup Bundles, NEW want \in SUBSET Parts
    PROVE  Initialized(of, want) \in [Parts -> Entry]
  <1>1. [NoEntry EXCEPT !.status = "pending"] \in Entry
    BY RowTypes DEF NoEntry, Entry, PartStatuses
  <1>2. \A x \in Parts : of # 0 => bundle[of].entry[x] \in Entry
    BY DEF TypeInv, Bundle
  <1> QED BY <1>1, <1>2, RowTypes DEF Initialized

-----------------------------------------------------------------------------
(* The types *)

LEMMA TypeStep ==
    ASSUME Inv, [FixtureNext]_fixtureVars
    PROVE  TypeInv'
  <1> USE DEF Inv
  <1>1. ASSUME NEW c \in Syncers, StartBundle(c) PROVE TypeInv'
    <2>1. \A want \in SUBSET Parts : [NoSync EXCEPT !.at = "begin", !.todo = want] \in Call
      BY RowTypes DEF NoSync, Call
    <2> QED BY <1>1, <2>1 DEF StartBundle, TypeInv
  <1>2. ASSUME NEW c \in Syncers, NEW of \in Bundles, NEW key \in RetryKeys, NEW hash \in Payload,
               StartRetry(c, of, key, hash)
        PROVE  TypeInv'
    <2>1. [at |-> "begin", run |-> 0, of |-> of, key |-> key, hash |-> hash,
           todo |-> hash.want] \in Call
      BY DEF Call, Payload
    <2>2. \A b \in Bundles : [of |-> of, key |-> key, hash |-> hash, run |-> b] \in Answer
      BY DEF Answer
    <2> QED BY <1>2, <2>1, <2>2 DEF StartRetry, TypeInv, Replay, RetriesUnder
  <1>3. ASSUME NEW c \in Syncers, NEW b \in Bundles, BeginBundle(c, b) PROVE TypeInv'
    <2>1. syncer[c] \in Call
      BY DEF TypeInv
    <2>2. CASE Refused(syncer[c])
      <3>1. syncer[c].of \in Bundles /\ syncer[c].key \in RetryKeys /\ syncer[c].hash \in Payload
        BY <1>3, <2>1, <2>2 DEF BeginBundle, Refused, CallInv, GoodCall, Call
      <3>2. \A r \in Bundles : [of |-> syncer[c].of, key |-> syncer[c].key,
                                hash |-> syncer[c].hash, run |-> r] \in Answer
        BY <3>1 DEF Answer
      <3> QED BY <1>3, <2>2, <3>2, RowTypes DEF BeginBundle, TypeInv, Replay, RetriesUnder
    <2>3. CASE ~Refused(syncer[c])
      <3>1. [NoBundle EXCEPT !.status = "running", !.of = syncer[c].of, !.key = syncer[c].key,
                             !.hash = syncer[c].hash] \in Bundle
        BY <2>1, RowTypes DEF Call, NoBundle, Bundle
      <3>2. [syncer[c] EXCEPT !.at = "initialize", !.run = b] \in Call
        BY <2>1 DEF Call
      <3> QED BY <1>3, <2>3, <3>1, <3>2 DEF BeginBundle, TypeInv
    <2> QED BY <2>2, <2>3
  <1>4. ASSUME NEW c \in Syncers, InitializeResources(c) PROVE TypeInv'
    <2>1. syncer[c] \in Call /\ syncer[c].run \in Bundles
      BY <1>4 DEF InitializeResources, TypeInv, CallInv, GoodCall, Serving, Writing
    <2>2. Initialized(syncer[c].of, syncer[c].todo) \in [Parts -> Entry]
      BY <2>1, EntryOfParent DEF Call
    <2>3. [bundle[syncer[c].run] EXCEPT !.entry = Initialized(syncer[c].of, syncer[c].todo)]
              \in Bundle
      BY <2>1, <2>2 DEF TypeInv, Bundle
    <2>4. [syncer[c] EXCEPT !.at = "resources"] \in Call
      BY <2>1 DEF Call
    <2> QED BY <1>4, <2>3, <2>4 DEF InitializeResources, TypeInv
  <1>5. ASSUME NEW c \in Syncers, NEW x \in Parts, MarkRunning(c, x) PROVE TypeInv'
    <2>1. syncer[c].run \in Bundles /\ bundle[syncer[c].run] \in Bundle
      BY <1>5 DEF MarkRunning, TypeInv, CallInv, GoodCall, Serving, Writing
    <2>2. [bundle[syncer[c].run] EXCEPT !.entry[x].status = "running"] \in Bundle
      BY <2>1 DEF Bundle, Entry, PartStatuses
    <2> QED BY <1>5, <2>1, <2>2 DEF MarkRunning, TypeInv
  <1>6. ASSUME NEW c \in Syncers, NEW x \in Parts, SettlePart(c, x) PROVE TypeInv'
    <2>1. /\ syncer[c].run \in Bundles /\ bundle[syncer[c].run] \in Bundle
          /\ syncer[c] \in Call
      BY <1>6 DEF SettlePart, TypeInv, CallInv, GoodCall, Serving, Writing
    <2>2. \A e \in Entry : [bundle[syncer[c].run] EXCEPT !.entry[x] = e] \in Bundle
      BY <2>1 DEF Bundle
    <2>3. [syncer[c] EXCEPT !.todo = @ \ {x}] \in Call
      BY <2>1 DEF Call
    <2>4. PICK e \in Entry : bundle' = [bundle EXCEPT ![syncer[c].run].entry[x] = e]
      BY <1>6 DEF SettlePart, Entry, PartStatuses
    <2> QED BY <1>6, <2>1, <2>2, <2>3, <2>4 DEF SettlePart, TypeInv
  <1>7. ASSUME NEW c \in Syncers, FinalizeBundle(c) PROVE TypeInv'
    <2>1. /\ syncer[c].run \in Bundles /\ bundle[syncer[c].run] \in Bundle
          /\ syncer[c] \in Call
      BY <1>7 DEF FinalizeBundle, TypeInv, CallInv, GoodCall, Serving, Writing
    <2>2. \A b : OverallOf(b) \in {"succeeded", "partial", "failed"}
      BY DEF OverallOf
    <2>3. [bundle[syncer[c].run] EXCEPT !.status = OverallOf(bundle[syncer[c].run])] \in Bundle
      BY <2>1, <2>2 DEF Bundle
    <2>4. [syncer[c] EXCEPT !.at = "finish"] \in Call
      BY <2>1 DEF Call
    <2> QED BY <1>7, <2>3, <2>4 DEF FinalizeBundle, TypeInv
  <1>8. ASSUME NEW c \in Syncers, FinishBundle(c) PROVE TypeInv'
    <2>1. /\ syncer[c] \in Call /\ syncer[c].run \in Bundles
          /\ syncer[c].of # 0 => syncer[c].key \in RetryKeys
      BY <1>8 DEF FinishBundle, TypeInv, CallInv, GoodCall, Serving
    <2>2. syncer[c].of # 0 => [of |-> syncer[c].of, key |-> syncer[c].key,
                               hash |-> syncer[c].hash, run |-> syncer[c].run] \in Answer
      BY <2>1 DEF Call, Answer
    <2> QED BY <1>8, <2>2, RowTypes DEF FinishBundle, TypeInv
  <1>9. ASSUME NEW c \in Syncers, StopSync(c) PROVE TypeInv'
    BY <1>9, RowTypes DEF StopSync, TypeInv
  <1>10. CASE UNCHANGED fixtureVars
    BY <1>10 DEF fixtureVars, TypeInv
  <1> QED
    BY <1>1, <1>2, <1>3, <1>4, <1>5, <1>6, <1>7, <1>8, <1>9, <1>10 DEF FixtureNext
-----------------------------------------------------------------------------
(* What a step writes *)

(* Only a run that is not there yet, or is running, is written; and of the *)
(* fields that say what it retries nothing is, once it is there.           *)
LEMMA WhatIsWritten ==
    ASSUME Inv, [FixtureNext]_fixtureVars, NEW b \in Bundles
    PROVE  /\ bundle[b].status \notin {"none", "running"} => bundle'[b] = bundle[b]
           /\ Begun(b) => /\ bundle'[b].of = bundle[b].of /\ bundle'[b].key = bundle[b].key
                          /\ bundle'[b].hash = bundle[b].hash /\ bundle'[b].status # "none"
  <1> USE DEF Inv, TypeInv
  <1> bundle[b] \in Bundle
    OBVIOUS
  <1>1. ASSUME NEW c \in Syncers, NEW d \in Bundles, BeginBundle(c, d)
        PROVE  Begun(b) => bundle'[b] = bundle[b]
    BY <1>1 DEF BeginBundle, Begun
  <1>2. ASSUME NEW c \in Syncers, Writing(c), NEW e,
               bundle' = [bundle EXCEPT ![syncer[c].run].entry = e]
        PROVE  /\ bundle[b].status # "running" => bundle'[b] = bundle[b]
               /\ bundle'[b] = [bundle[b] EXCEPT !.entry = bundle'[b].entry]
    <2>1. syncer[c].run \in Bundles /\ bundle[syncer[c].run].status = "running"
      BY <1>2 DEF CallInv, GoodCall, Serving
    <2> QED BY <1>2, <2>1 DEF Bundle
  <1>3. ASSUME NEW c \in Syncers, InitializeResources(c)
        PROVE  Writing(c) /\ \E e : bundle' = [bundle EXCEPT ![syncer[c].run].entry = e]
    BY <1>3 DEF InitializeResources, Writing
  <1>4. ASSUME NEW c \in Syncers, NEW x \in Parts, MarkRunning(c, x)
        PROVE  Writing(c) /\ \E e : bundle' = [bundle EXCEPT ![syncer[c].run].entry = e]
    <2> DEFINE old == bundle[syncer[c].run].entry
    <2>1. bundle' = [bundle EXCEPT ![syncer[c].run].entry = [old EXCEPT ![x].status = "running"]]
      BY <1>4 DEF MarkRunning
    <2> QED BY <1>4, <2>1 DEF MarkRunning, Writing
  <1>5. ASSUME NEW c \in Syncers, NEW x \in Parts, SettlePart(c, x)
        PROVE  Writing(c) /\ \E e : bundle' = [bundle EXCEPT ![syncer[c].run].entry = e]
    <2> DEFINE old == bundle[syncer[c].run].entry
    <2>1. PICK e : bundle' = [bundle EXCEPT ![syncer[c].run].entry[x] = e]
      BY <1>5 DEF SettlePart
    <2>2. bundle' = [bundle EXCEPT ![syncer[c].run].entry = [old EXCEPT ![x] = e]]
      BY <2>1
    <2> QED BY <1>5, <2>2 DEF SettlePart, Writing
  <1>6. ASSUME NEW c \in Syncers, FinalizeBundle(c)
        PROVE  /\ bundle[b].status # "running" => bundle'[b] = bundle[b]
               /\ bundle'[b] = [bundle[b] EXCEPT !.status = bundle'[b].status]
               /\ bundle[b].status # "none" => bundle'[b].status # "none"
    <2>1. syncer[c].run \in Bundles /\ bundle[syncer[c].run].status = "running"
      BY <1>6 DEF FinalizeBundle, CallInv, GoodCall, Serving, Writing
    <2>2. OverallOf(bundle[syncer[c].run]) # "none"
      BY DEF OverallOf
    <2> QED BY <1>6, <2>1, <2>2 DEF FinalizeBundle, Bundle
  <1>7. ASSUME NEW c \in Syncers, NEW of \in Bundles, NEW key \in RetryKeys, NEW hash \in Payload,
               StartBundle(c) \/ StartRetry(c, of, key, hash) \/ FinishBundle(c) \/ StopSync(c)
        PROVE  bundle' = bundle
    BY <1>7 DEF StartBundle, StartRetry, FinishBundle, StopSync
  <1>8. ASSUME NEW c \in Syncers, StartBundle(c) \/ FinishBundle(c) \/ StopSync(c)
        PROVE  bundle' = bundle
    BY <1>8 DEF StartBundle, FinishBundle, StopSync
  <1>9. CASE UNCHANGED fixtureVars
    BY <1>9 DEF fixtureVars, Begun
  <1>10. ASSUME NEW c \in Syncers, NEW e, Writing(c),
                bundle' = [bundle EXCEPT ![syncer[c].run].entry = e]
         PROVE  /\ bundle[b].status \notin {"none", "running"} => bundle'[b] = bundle[b]
                /\ Begun(b) => /\ bundle'[b].of = bundle[b].of /\ bundle'[b].key = bundle[b].key
                               /\ bundle'[b].hash = bundle[b].hash /\ bundle'[b].status # "none"
    BY <1>2, <1>10 DEF Bundle, Begun
  <1> QED
    BY <1>1, <1>3, <1>4, <1>5, <1>6, <1>7, <1>8, <1>9, <1>10 DEF FixtureNext, Begun, Bundle

(* What was granted stays granted.                                         *)
LEMMA GrantsStand ==
    ASSUME Inv, [FixtureNext]_fixtureVars, NEW of \in {0} \cup Bundles, NEW hash \in Payload,
           Granted(of, hash)
    PROVE  Granted(of, hash)' /\ bundle'[of] = bundle[of]
  <1>1. of \in Bundles /\ bundle[of].status \notin {"none", "running"}
    BY DEF Granted, RunOver
  <1>2. bundle'[of] = bundle[of]
    BY <1>1, WhatIsWritten
  <1> QED BY <1>1, <1>2 DEF Granted, RunOver, RetryableParts
-----------------------------------------------------------------------------
(* Calls *)

(* A call that served a run before and serves it now finds there what it   *)
(* found, and what it was granted.                                         *)
LEMMA CallStands ==
    ASSUME Inv, [FixtureNext]_fixtureVars, NEW c \in Syncers,
           syncer'[c].of = syncer[c].of, syncer'[c].key = syncer[c].key,
           syncer'[c].hash = syncer[c].hash, syncer'[c].run = syncer[c].run,
           syncer'[c].todo \subseteq syncer[c].todo,
           syncer'[c].at = "idle" \/ syncer[c].at # "idle",
           Serving(c)' => Serving(c),
           Writing(c)' => bundle'[syncer'[c].run].status = "running"
    PROVE  GoodCall(c)'
  <1>1. syncer[c].of \in {0} \cup Bundles /\ syncer[c].hash \in Payload
    BY DEF Inv, TypeInv, Call
  <1>2. ASSUME syncer[c].of # 0, syncer[c].at # "idle"
        PROVE  Granted(syncer[c].of, syncer[c].hash)'
    <2>1. Granted(syncer[c].of, syncer[c].hash)
      BY <1>2 DEF Inv, CallInv, GoodCall
    <2>2. bundle'[syncer[c].of] = bundle[syncer[c].of]
      BY <1>1, <2>1, GrantsStand
    <2> QED BY <2>1, <2>2 DEF Granted, RunOver, RetryableParts
  <1>3. syncer[c].at # "idle" /\ syncer[c].of # 0 =>
            syncer[c].key \in RetryKeys /\ syncer[c].todo \subseteq syncer[c].hash.want
    BY DEF Inv, CallInv, GoodCall
  <1>4. ASSUME Serving(c)
        PROVE  /\ syncer[c].run \in Bundles /\ Begun(syncer[c].run)'
               /\ bundle'[syncer[c].run].of = syncer[c].of
               /\ bundle'[syncer[c].run].key = syncer[c].key
               /\ bundle'[syncer[c].run].hash = syncer[c].hash
    <2>1. syncer[c].run \in Bundles /\ Begun(syncer[c].run)
      BY <1>4 DEF Inv, CallInv, GoodCall
    <2> QED BY <1>4, <2>1, WhatIsWritten DEF Inv, CallInv, GoodCall, Begun
  <1> QED BY <1>2, <1>3, <1>4 DEF GoodCall, Begun

(* What the steps of a call leave alone.                                   *)
LEMMA CallMoves ==
    ASSUME NEW s \in Call, NEW to, NEW t, t = [s EXCEPT !.at = to]
    PROVE  /\ t.at = to /\ t.run = s.run
           /\ t.of = s.of /\ t.key = s.key /\ t.hash = s.hash /\ t.todo = s.todo
  BY DEF Call

LEMMA CallSettles ==
    ASSUME NEW s \in Call, NEW left, NEW t, t = [s EXCEPT !.todo = left]
    PROVE  /\ t.at = s.at /\ t.run = s.run
           /\ t.of = s.of /\ t.key = s.key /\ t.hash = s.hash /\ t.todo = left
  BY DEF Call

LEMMA CallStep ==
    ASSUME Inv, [FixtureNext]_fixtureVars
    PROVE  CallInv'
  <1> SUFFICES Alone' /\ \A c \in Syncers : GoodCall(c)'
    BY DEF CallInv
  <1>1. ASSUME NEW d \in Syncers, syncer'[d] = syncer[d],
               Writing(d) => bundle'[syncer[d].run].status = "running"
        PROVE  GoodCall(d)' /\ Serving(d)' = Serving(d)
    <2>1. Serving(d)' = Serving(d) /\ Writing(d)' = Writing(d)
      BY <1>1 DEF Serving, Writing
    <2> QED BY <1>1, <2>1, CallStands
  <1>2. ASSUME NEW c \in Syncers, StartBundle(c) PROVE Alone' /\ \A d \in Syncers : GoodCall(d)'
    <2>1. PICK want \in SUBSET Parts :
              syncer' = [syncer EXCEPT ![c] = [NoSync EXCEPT !.at = "begin", !.todo = want]]
      BY <1>2 DEF StartBundle
    <2>2. syncer'[c].at = "begin" /\ syncer'[c].of = 0
      BY <2>1 DEF NoSync, Inv, TypeInv
    <2>3. bundle' = bundle /\ \A d \in Syncers \ {c} : syncer'[d] = syncer[d]
      BY <1>2, <2>1 DEF StartBundle, Inv, TypeInv
    <2>4. \A d \in Syncers \ {c} : GoodCall(d)'
      BY <1>1, <2>3 DEF Inv, CallInv, GoodCall
    <2>5. GoodCall(c)' /\ ~Serving(c)'
      BY <2>2 DEF GoodCall, Serving, Writing
    <2> QED BY <2>3, <2>4, <2>5 DEF Inv, CallInv, GoodCall, Alone, Serving, Writing
  <1>3. ASSUME NEW c \in Syncers, NEW of \in Bundles, NEW key \in RetryKeys, NEW hash \in Payload,
               StartRetry(c, of, key, hash)
        PROVE  Alone' /\ \A d \in Syncers : GoodCall(d)'
    <2>1. bundle' = bundle
      BY <1>3 DEF StartRetry
    <2>2. CASE UNCHANGED syncer
      BY <1>1, <2>1, <2>2 DEF Inv, CallInv, GoodCall, Alone, Serving, Writing
    <2>3. CASE syncer' = [syncer EXCEPT ![c] =
                   [at |-> "begin", run |-> 0, of |-> of, key |-> key, hash |-> hash,
                    todo |-> hash.want]]
      <3>1. syncer'[c] = [at |-> "begin", run |-> 0, of |-> of, key |-> key, hash |-> hash,
                          todo |-> hash.want]
        BY <2>3 DEF Inv, TypeInv
      <3>2. Granted(of, hash)'
        BY <1>3, <2>1 DEF StartRetry, Granted, RunOver, RetryableParts
      <3>3. GoodCall(c)' /\ ~Serving(c)'
        BY <3>1, <3>2 DEF GoodCall, Serving, Writing, Granted, RunOver, RetryableParts
      <3>4. \A d \in Syncers \ {c} : syncer'[d] = syncer[d]
        BY <2>3 DEF Inv, TypeInv
      <3>5. \A d \in Syncers \ {c} : GoodCall(d)'
        BY <1>1, <2>1, <3>4 DEF Inv, CallInv, GoodCall
      <3> QED BY <3>3, <3>4, <3>5 DEF Inv, CallInv, GoodCall, Alone, Serving, Writing
    <2> QED BY <1>3, <2>2, <2>3 DEF StartRetry
  <1>4. ASSUME NEW c \in Syncers, StopSync(c) \/ FinishBundle(c)
        PROVE  Alone' /\ \A d \in Syncers : GoodCall(d)'
    <2>1. bundle' = bundle /\ syncer' = [syncer EXCEPT ![c] = NoSync]
      BY <1>4 DEF StopSync, FinishBundle
    <2>2. syncer'[c].at = "idle" /\ \A d \in Syncers \ {c} : syncer'[d] = syncer[d]
      BY <2>1 DEF Inv, TypeInv, NoSync
    <2>3. GoodCall(c)' /\ ~Serving(c)'
      BY <2>2 DEF GoodCall, Serving, Writing
    <2>4. \A d \in Syncers \ {c} : GoodCall(d)'
      BY <1>1, <2>1, <2>2 DEF Inv, CallInv, GoodCall
    <2> QED BY <2>2, <2>3, <2>4 DEF Inv, CallInv, GoodCall, Alone, Serving, Writing
  <1>5. ASSUME NEW c \in Syncers, NEW b \in Bundles, BeginBundle(c, b)
        PROVE  Alone' /\ \A d \in Syncers : GoodCall(d)'
    <2>1. CASE Refused(syncer[c])
      <3>1. bundle' = bundle /\ syncer' = [syncer EXCEPT ![c] = NoSync]
        BY <1>5, <2>1 DEF BeginBundle
      <3>2. syncer'[c].at = "idle" /\ \A d \in Syncers \ {c} : syncer'[d] = syncer[d]
        BY <3>1 DEF Inv, TypeInv, NoSync
      <3>3. GoodCall(c)' /\ ~Serving(c)'
        BY <3>2 DEF GoodCall, Serving, Writing
      <3>4. \A d \in Syncers \ {c} : GoodCall(d)'
        BY <1>1, <3>1, <3>2 DEF Inv, CallInv, GoodCall
      <3> QED BY <3>2, <3>3, <3>4 DEF Inv, CallInv, GoodCall, Alone, Serving, Writing
    <2>2. CASE ~Refused(syncer[c])
      <3>1. /\ syncer' = [syncer EXCEPT ![c] = [@ EXCEPT !.at = "initialize", !.run = b]]
            /\ bundle' = [bundle EXCEPT ![b] =
                   [NoBundle EXCEPT !.status = "running", !.of = syncer[c].of,
                                    !.key = syncer[c].key, !.hash = syncer[c].hash]]
            /\ ~Begun(b) /\ syncer[c].at = "begin" /\ syncer[c] \in Call
        BY <1>5, <2>2 DEF BeginBundle, Inv, TypeInv
      <3>2. /\ bundle'[b].status = "running" /\ bundle'[b].of = syncer[c].of
            /\ bundle'[b].key = syncer[c].key /\ bundle'[b].hash = syncer[c].hash
            /\ \A e \in Bundles \ {b} : bundle'[e] = bundle[e]
        BY <3>1 DEF Inv, TypeInv, NoBundle
      <3>3. /\ syncer'[c] = [syncer[c] EXCEPT !.at = "initialize", !.run = b]
            /\ \A d \in Syncers \ {c} : syncer'[d] = syncer[d]
        BY <3>1 DEF Inv, TypeInv
      <3>4. /\ syncer'[c].at = "initialize" /\ syncer'[c].run = b /\ syncer'[c].of = syncer[c].of
            /\ syncer'[c].key = syncer[c].key /\ syncer'[c].hash = syncer[c].hash
            /\ syncer'[c].todo = syncer[c].todo
        <4> DEFINE old == syncer[c]
                   new == syncer'[c]
        <4>1. old \in Call /\ new = [old EXCEPT !.at = "initialize", !.run = b]
          BY <3>1, <3>3
        <4> HIDE DEF old, new
        <4>2. /\ new.at = "initialize" /\ new.run = b /\ new.of = old.of /\ new.key = old.key
              /\ new.hash = old.hash /\ new.todo = old.todo
          BY <4>1 DEF Call
        <4> QED BY <4>2 DEF old, new
      <3>5. syncer[c].of # 0 =>
                /\ Granted(syncer[c].of, syncer[c].hash)'
                /\ syncer[c].key \in RetryKeys /\ syncer[c].todo \subseteq syncer[c].hash.want
        <4>1. ASSUME syncer[c].of # 0
              PROVE  Granted(syncer[c].of, syncer[c].hash)
          BY <3>1, <4>1 DEF Inv, CallInv, GoodCall
        <4>2. syncer[c].of \in {0} \cup Bundles /\ syncer[c].hash \in Payload
          BY <3>1 DEF Call
        <4>3. ASSUME syncer[c].of # 0
              PROVE  bundle'[syncer[c].of] = bundle[syncer[c].of]
          BY <4>1, <4>2, <4>3, GrantsStand
        <4>4. ASSUME syncer[c].of # 0
              PROVE  Granted(syncer[c].of, syncer[c].hash)'
          BY <3>4, <4>1, <4>3, <4>4 DEF Granted, RunOver, RetryableParts
        <4>5. syncer[c].of # 0 =>
                  syncer[c].key \in RetryKeys /\ syncer[c].todo \subseteq syncer[c].hash.want
          BY <3>1 DEF Inv, CallInv, GoodCall
        <4> QED BY <4>4, <4>5
      <3>6. GoodCall(c)'
        BY <3>2, <3>4, <3>5 DEF GoodCall, Granted, RunOver, RetryableParts, Begun
      <3>7. \A d \in Syncers \ {c} : Serving(d) => syncer[d].run \in Bundles \ {b}
        BY <3>1 DEF Inv, CallInv, GoodCall
      <3>8. \A d \in Syncers \ {c} : GoodCall(d)'
        BY <1>1, <3>2, <3>3, <3>7 DEF Inv, CallInv, GoodCall, Serving
      <3>9. \A d \in Syncers \ {c} : Serving(d)' = Serving(d) /\ syncer'[d].run = syncer[d].run
        BY <3>3 DEF Serving, Writing
      <3>10. Alone'
        BY <3>4, <3>7, <3>9 DEF Inv, CallInv, Alone
      <3> QED BY <3>6, <3>8, <3>10
    <2> QED BY <2>1, <2>2
  <1>6. ASSUME NEW c \in Syncers,
               \/ InitializeResources(c) \/ FinalizeBundle(c)
               \/ \E x \in Parts : MarkRunning(c, x) \/ SettlePart(c, x)
        PROVE  Alone' /\ \A d \in Syncers : GoodCall(d)'
    <2>1. /\ Writing(c) /\ syncer[c] \in Call /\ \A d \in Syncers \ {c} : syncer'[d] = syncer[d]
          /\ syncer'[c].at \in {"resources", "finish"}
          /\ syncer'[c].run = syncer[c].run /\ syncer'[c].of = syncer[c].of
          /\ syncer'[c].key = syncer[c].key /\ syncer'[c].hash = syncer[c].hash
          /\ syncer'[c].todo \subseteq syncer[c].todo
      <3>1. syncer[c] \in Call /\ syncer \in [Syncers -> Call]
        BY DEF Inv, TypeInv
      <3>2. Writing(c)
        BY <1>6 DEF InitializeResources, FinalizeBundle, MarkRunning, SettlePart, Writing
      <3>3. ASSUME InitializeResources(c) \/ FinalizeBundle(c)
            PROVE  /\ \A d \in Syncers \ {c} : syncer'[d] = syncer[d]
                   /\ \E to \in {"resources", "finish"} : syncer'[c] = [syncer[c] EXCEPT !.at = to]
        BY <3>1, <3>3 DEF InitializeResources, FinalizeBundle
      <3>4. CASE InitializeResources(c) \/ FinalizeBundle(c)
        BY <3>1, <3>2, <3>3, <3>4, CallMoves
      <3>5. ASSUME NEW x \in Parts, MarkRunning(c, x)
            PROVE  syncer' = syncer /\ syncer[c].at = "resources"
        BY <3>5 DEF MarkRunning
      <3>6. ASSUME NEW x \in Parts, SettlePart(c, x)
            PROVE  /\ syncer' = [syncer EXCEPT ![c] = [syncer[c] EXCEPT !.todo = syncer[c].todo \ {x}]]
                   /\ syncer[c].at = "resources"
        BY <3>6 DEF SettlePart
      <3>7. ASSUME NEW x \in Parts, SettlePart(c, x)
            PROVE  /\ \A d \in Syncers \ {c} : syncer'[d] = syncer[d]
                   /\ syncer'[c] = [syncer[c] EXCEPT !.todo = syncer[c].todo \ {x}]
                   /\ syncer[c].at = "resources"
        BY <3>1, <3>6, <3>7
      <3>8. ASSUME NEW x \in Parts, MarkRunning(c, x) \/ SettlePart(c, x)
            PROVE  /\ \A d \in Syncers \ {c} : syncer'[d] = syncer[d]
                   /\ syncer'[c].at = "resources"
                   /\ syncer'[c].run = syncer[c].run /\ syncer'[c].of = syncer[c].of
                   /\ syncer'[c].key = syncer[c].key /\ syncer'[c].hash = syncer[c].hash
                   /\ syncer'[c].todo \subseteq syncer[c].todo
        <4> DEFINE old == syncer[c]
                   new == syncer'[c]
        <4>1. CASE MarkRunning(c, x)
          BY <3>5, <4>1
        <4>2. CASE SettlePart(c, x)
          <5>1. /\ old \in Call /\ new = [old EXCEPT !.todo = old.todo \ {x}]
                /\ old.at = "resources" /\ \A d \in Syncers \ {c} : syncer'[d] = syncer[d]
            BY <3>1, <3>7, <4>2
          <5> HIDE DEF old, new
          <5>2. /\ new.at = old.at /\ new.run = old.run /\ new.of = old.of /\ new.key = old.key
                /\ new.hash = old.hash /\ new.todo = old.todo \ {x}
            BY <5>1, CallSettles
          <5> QED BY <5>1, <5>2 DEF old, new
        <4> QED BY <3>8, <4>1, <4>2
      <3> QED BY <1>6, <3>1, <3>2, <3>4, <3>8
    <2>2. syncer[c].run \in Bundles /\ bundle[syncer[c].run].status = "running"
      BY <2>1 DEF Inv, CallInv, GoodCall, Serving
    <2>3. \A e \in Bundles \ {syncer[c].run} : bundle'[e] = bundle[e]
      BY <1>6 DEF InitializeResources, FinalizeBundle, MarkRunning, SettlePart, Inv, TypeInv
    <2>4. syncer'[c].at = "resources" => bundle'[syncer[c].run].status = "running"
      <3>1. bundle[syncer[c].run] \in Bundle
        BY <2>2 DEF Inv, TypeInv
      <3>2. CASE FinalizeBundle(c)
        <4>1. syncer[c] \in Call /\ syncer' = [syncer EXCEPT ![c] = [syncer[c] EXCEPT !.at = "finish"]]
          BY <3>2 DEF FinalizeBundle, Inv, TypeInv
        <4>2. syncer'[c].at = "finish"
          <5> DEFINE old == syncer[c]
                     new == syncer'[c]
          <5>1. old \in Call /\ new = [old EXCEPT !.at = "finish"]
            BY <4>1 DEF Inv, TypeInv
          <5> HIDE DEF old, new
          <5>2. new.at = "finish"
            BY <5>1, CallMoves
          <5> QED BY <5>2 DEF new
        <4> QED BY <4>2
      <3>3. ASSUME NEW e, bundle' = [bundle EXCEPT ![syncer[c].run].entry = e]
            PROVE  bundle'[syncer[c].run].status = "running"
        BY <2>2, <3>1, <3>3 DEF Inv, TypeInv, Bundle
      <3>4. CASE InitializeResources(c)
        BY <3>3, <3>4 DEF InitializeResources
      <3>5. ASSUME NEW x \in Parts, MarkRunning(c, x)
            PROVE  bundle'[syncer[c].run].status = "running"
        <4> DEFINE old == bundle[syncer[c].run].entry
        <4>1. bundle' = [bundle EXCEPT ![syncer[c].run].entry = [old EXCEPT ![x].status = "running"]]
          BY <3>5 DEF MarkRunning
        <4> QED BY <3>3, <4>1
      <3>6. ASSUME NEW x \in Parts, SettlePart(c, x)
            PROVE  bundle'[syncer[c].run].status = "running"
        <4> DEFINE old == bundle[syncer[c].run].entry
        <4>1. PICK e : bundle' = [bundle EXCEPT ![syncer[c].run].entry[x] = e]
          BY <3>6 DEF SettlePart
        <4>2. bundle' = [bundle EXCEPT ![syncer[c].run].entry = [old EXCEPT ![x] = e]]
          BY <4>1
        <4> QED BY <3>3, <4>2
      <3> QED BY <1>6, <3>2, <3>4, <3>5, <3>6
    <2>5. GoodCall(c)'
      BY <2>1, <2>4, CallStands DEF Serving, Writing
    <2>6. \A d \in Syncers \ {c} : Serving(d) => syncer[d].run \in Bundles \ {syncer[c].run}
      BY <2>1 DEF Inv, CallInv, GoodCall, Alone, Serving
    <2>7. \A d \in Syncers \ {c} : GoodCall(d)'
      BY <1>1, <2>1, <2>3, <2>6 DEF Inv, CallInv, GoodCall, Serving
    <2>8. \A d \in Syncers \ {c} : Serving(d)' = Serving(d) /\ syncer'[d].run = syncer[d].run
      BY <2>1 DEF Serving, Writing
    <2>9. Serving(c) /\ syncer'[c].run = syncer[c].run
      BY <2>1 DEF Serving
    <2>10. Alone'
      BY <2>6, <2>8, <2>9 DEF Inv, CallInv, Alone
    <2> QED BY <2>5, <2>7, <2>10
  <1>7. CASE UNCHANGED fixtureVars
    <2>1. \A d \in Syncers : GoodCall(d)' /\ Serving(d)' = Serving(d)
      BY <1>1, <1>7 DEF fixtureVars, Inv, CallInv, GoodCall
    <2> QED BY <1>7, <2>1 DEF fixtureVars, Inv, CallInv, Alone
  <1> QED BY <1>2, <1>3, <1>4, <1>5, <1>6, <1>7 DEF FixtureNext
-----------------------------------------------------------------------------
(* Runs *)

(* Only the beginning of a run writes one that is not there.               *)
LEMMA OnlyBegunIsWritten ==
    ASSUME Inv, [FixtureNext]_fixtureVars,
           ~\E c \in Syncers, b \in Bundles : BeginBundle(c, b)
    PROVE  \A b \in Bundles : ~Begun(b) => bundle'[b] = bundle[b]
  <1> USE DEF Inv, TypeInv
  <1>1. ASSUME NEW c \in Syncers, Serving(c)
        PROVE  syncer[c].run \in Bundles /\ Begun(syncer[c].run)
    BY <1>1 DEF CallInv, GoodCall
  <1>2. ASSUME NEW c \in Syncers, InitializeResources(c) \/ FinalizeBundle(c)
        PROVE  \A b \in Bundles : ~Begun(b) => bundle'[b] = bundle[b]
    BY <1>1, <1>2 DEF InitializeResources, FinalizeBundle, Serving, Writing
  <1>3. ASSUME NEW c \in Syncers, NEW x \in Parts, MarkRunning(c, x) \/ SettlePart(c, x)
        PROVE  \A b \in Bundles : ~Begun(b) => bundle'[b] = bundle[b]
    BY <1>1, <1>3 DEF MarkRunning, SettlePart, Serving, Writing
  <1>4. ASSUME NEW c \in Syncers, StartBundle(c) \/ FinishBundle(c) \/ StopSync(c)
        PROVE  bundle' = bundle
    BY <1>4 DEF StartBundle, FinishBundle, StopSync
  <1>5. ASSUME NEW c \in Syncers, NEW of \in Bundles, NEW key \in RetryKeys, NEW hash \in Payload,
               StartRetry(c, of, key, hash)
        PROVE  bundle' = bundle
    BY <1>5 DEF StartRetry
  <1> QED BY <1>2, <1>3, <1>4, <1>5 DEF FixtureNext, fixtureVars

LEMMA KeyStep ==
    ASSUME Inv, [FixtureNext]_fixtureVars
    PROVE  KeyInv'
  <1> USE DEF Inv, TypeInv
  <1>1. ASSUME NEW b \in Bundles
        PROVE  \/ bundle'[b].of = bundle[b].of /\ bundle'[b].key = bundle[b].key
               \/ ~Begun(b)
    BY <1>1, WhatIsWritten
  <1>2. ASSUME NEW c \in Syncers, NEW b \in Bundles, BeginBundle(c, b)
        PROVE  KeyInv'
    <2>1. CASE Refused(syncer[c])
      BY <1>2, <2>1 DEF BeginBundle, KeyInv
    <2>2. CASE ~Refused(syncer[c])
      <3>1. /\ \A d \in Bundles \ {b} : bundle'[d] = bundle[d]
            /\ bundle'[b].of = syncer[c].of /\ bundle'[b].key = syncer[c].key
        BY <1>2, <2>2 DEF BeginBundle, NoBundle
      <3>2. \A d \in Bundles : syncer[c].of # 0 => ~(bundle[d].of = syncer[c].of
                                                     /\ bundle[d].key = syncer[c].key)
        BY <2>2 DEF Refused, RetriesUnder
      <3> QED BY <3>1, <3>2 DEF KeyInv
    <2> QED BY <2>1, <2>2
  <1>3. CASE \A b \in Bundles : bundle'[b].of = bundle[b].of /\ bundle'[b].key = bundle[b].key
    BY <1>3 DEF KeyInv
  <1> QED BY <1>1, <1>2, <1>3, OnlyBegunIsWritten
(* The ways the entries of a run are written.                              *)
Blanked(b) == ~Begun(b) /\ bundle'[b].entry = [x \in Parts |-> NoEntry]

Filled(c, b) ==
    /\ Writing(c) /\ b = syncer[c].run
    /\ bundle'[b].entry = Initialized(syncer[c].of, syncer[c].todo)

JudgedCall(e, old) ==
    \/ e.status = "running" /\ e.prior = old.prior /\ e.retryable = old.retryable
    \/ /\ e.prior = "absent" /\ e.status \in {"succeeded", "failed"}
       /\ e.status = "succeeded" => ~e.retryable

Marked(c, b, x, e) ==
    /\ Writing(c) /\ b = syncer[c].run /\ x \in syncer[c].todo
    /\ JudgedCall(e, bundle[b].entry[x])
    /\ bundle'[b].entry = [bundle[b].entry EXCEPT ![x] = e]

LEMMA EntriesWritten ==
    ASSUME Inv, [FixtureNext]_fixtureVars, NEW b \in Bundles, bundle'[b].entry # bundle[b].entry
    PROVE  \/ Blanked(b)
           \/ \E c \in Syncers : Filled(c, b)
           \/ \E c \in Syncers, x \in Parts, e \in Entry : Marked(c, b, x, e)
  <1>1. ASSUME NEW c \in Syncers, Writing(c)
        PROVE  /\ syncer[c].run \in Bundles /\ bundle[syncer[c].run] \in Bundle
    BY <1>1 DEF Inv, TypeInv, CallInv, GoodCall, Serving
  <1>2. ASSUME NEW c \in Syncers, NEW d \in Bundles, BeginBundle(c, d)
        PROVE  Blanked(b)
    <2>1. /\ ~Begun(d) /\ b = d
          /\ bundle' = [bundle EXCEPT ![d] =
                [NoBundle EXCEPT !.status = "running", !.of = syncer[c].of, !.key = syncer[c].key,
                                 !.hash = syncer[c].hash]]
      BY <1>2 DEF Inv, TypeInv, BeginBundle
    <2>2. bundle'[b].entry = NoBundle.entry
      BY <2>1 DEF Inv, TypeInv, NoBundle
    <2> QED BY <2>1, <2>2 DEF NoBundle, Blanked
  <1>3. ASSUME NEW c \in Syncers, InitializeResources(c)
        PROVE  Filled(c, b)
    BY <1>1, <1>3 DEF Inv, TypeInv, InitializeResources, Writing, Bundle, Filled
  <1>4. ASSUME NEW c \in Syncers, NEW x \in Parts, MarkRunning(c, x)
        PROVE  \E e \in Entry : Marked(c, b, x, e)
    <2> DEFINE r == syncer[c].run
               e == [bundle[r].entry[x] EXCEPT !.status = "running"]
    <2>1. Writing(c) /\ x \in syncer[c].todo
      BY <1>4 DEF MarkRunning, Writing
    <2>2. bundle[r].entry[x] \in Entry /\ bundle[r] \in Bundle /\ r \in Bundles
      BY <1>1, <2>1 DEF Bundle
    <2>3. e \in Entry /\ JudgedCall(e, bundle[r].entry[x])
      BY <2>2 DEF Entry, PartStatuses, JudgedCall
    <2>4. bundle' = [bundle EXCEPT ![r] = [bundle[r] EXCEPT !.entry = [bundle[r].entry EXCEPT ![x] = e]]]
      BY <1>4 DEF MarkRunning
    <2>5. bundle'[r].entry = [bundle[r].entry EXCEPT ![x] = e] /\ b = r
      BY <2>2, <2>4 DEF Inv, TypeInv, Bundle
    <2>6. Marked(c, b, x, e)
      BY <2>1, <2>3, <2>5 DEF Marked
    <2> HIDE DEF e
    <2> QED BY <2>3, <2>6
  <1>5. ASSUME NEW c \in Syncers, NEW x \in Parts, SettlePart(c, x)
        PROVE  \E e \in Entry : Marked(c, b, x, e)
    <2> DEFINE r == syncer[c].run
    <2>1. Writing(c) /\ x \in syncer[c].todo
      BY <1>5 DEF SettlePart, Writing
    <2>2. bundle[r].entry \in [Parts -> Entry] /\ bundle[r] \in Bundle /\ r \in Bundles
      BY <1>1, <2>1 DEF Bundle
    <2>3. PICK e \in [status : {"succeeded"}, prior : {"absent"}, retryable : {FALSE}]
                        \cup [status : {"failed"}, prior : {"absent"}, retryable : BOOLEAN] :
              bundle' = [bundle EXCEPT ![r].entry[x] = e]
      BY <1>5 DEF SettlePart
    <2>4. e \in Entry /\ JudgedCall(e, bundle[r].entry[x])
      BY <2>3 DEF Entry, PartStatuses, JudgedCall
    <2>5. bundle'[r].entry = [bundle[r].entry EXCEPT ![x] = e] /\ b = r
      BY <2>2, <2>3 DEF Inv, TypeInv, Bundle
    <2>6. Marked(c, b, x, e)
      BY <2>1, <2>4, <2>5 DEF Marked
    <2> QED BY <2>4, <2>6
  <1>6. ASSUME NEW c \in Syncers, FinalizeBundle(c)
        PROVE  FALSE
    BY <1>1, <1>6 DEF Inv, TypeInv, FinalizeBundle, Writing, Bundle
  <1>7. ASSUME NEW c \in Syncers, StartBundle(c) \/ FinishBundle(c) \/ StopSync(c)
        PROVE  FALSE
    BY <1>7 DEF StartBundle, FinishBundle, StopSync
  <1>8. ASSUME NEW c \in Syncers, NEW of \in Bundles, NEW key \in RetryKeys, NEW hash \in Payload,
               StartRetry(c, of, key, hash)
        PROVE  FALSE
    BY <1>8 DEF StartRetry
  <1>9. FixtureNext
    BY DEF fixtureVars
  <1> QED BY <1>2, <1>3, <1>4, <1>5, <1>6, <1>7, <1>8, <1>9 DEF FixtureNext

LEMMA EntryStep ==
    ASSUME Inv, [FixtureNext]_fixtureVars
    PROVE  EntryInv'
  <1> SUFFICES ASSUME NEW b \in Bundles, NEW x \in Parts,
                      "succeeded" \in {bundle'[b].entry[x].status, bundle'[b].entry[x].prior}
               PROVE  ~bundle'[b].entry[x].retryable
    BY DEF EntryInv
  <1>1. bundle[b].entry \in [Parts -> Entry]
    BY DEF Inv, TypeInv, Bundle
  <1>2. CASE bundle'[b].entry = bundle[b].entry
    BY <1>2 DEF Inv, EntryInv
  <1>3. CASE Blanked(b)
    BY <1>3 DEF NoEntry, Blanked
  <1>4. ASSUME NEW c \in Syncers, Filled(c, b)
        PROVE  ~bundle'[b].entry[x].retryable
    <2>1. /\ bundle'[b].entry = Initialized(syncer[c].of, syncer[c].todo)
          /\ syncer[c].of \in {0} \cup Bundles
      BY <1>4 DEF Inv, TypeInv, Call, Filled
    <2>2. CASE bundle'[b].entry[x] \in {NoEntry, [NoEntry EXCEPT !.status = "pending"]}
      BY <2>2 DEF NoEntry
    <2>3. CASE /\ syncer[c].of \in Bundles
               /\ bundle'[b].entry[x] = CarriedForward(bundle[syncer[c].of].entry[x])
      <3>1. bundle[syncer[c].of].entry[x] \in Entry
        BY <2>3 DEF Inv, TypeInv, Bundle
      <3> QED BY <2>3, <3>1 DEF CarriedForward, Entry, NoEntry, Inv, EntryInv
    <2> QED BY <2>1, <2>2, <2>3 DEF Initialized
  <1>5. ASSUME NEW c \in Syncers, NEW y \in Parts, NEW e \in Entry, Marked(c, b, y, e)
        PROVE  ~bundle'[b].entry[x].retryable
    BY <1>1, <1>5 DEF Inv, EntryInv, Marked, JudgedCall
  <1> QED BY <1>2, <1>3, <1>4, <1>5, EntriesWritten

LEMMA CarryStep ==
    ASSUME Inv, [FixtureNext]_fixtureVars
    PROVE  CarryInv'
  <1> SUFFICES ASSUME NEW b \in Bundles, bundle'[b].of # 0
               PROVE  /\ Begun(b)' /\ Granted(bundle[b].of, bundle[b].hash)'
                      /\ \A x \in Parts \ bundle'[b].hash.want :
                            \/ bundle'[b].entry[x] = NoEntry
                            \/ bundle'[b].entry[x]
                                   = CarriedForward(bundle'[bundle'[b].of].entry[x])
    BY DEF CarryInv, Granted, RunOver, RetryableParts, Begun
  <1>1. bundle[b] \in Bundle /\ bundle'[b] \in Bundle
    BY TypeStep DEF Inv, TypeInv
  <1>2. CASE Begun(b)
    <2>1. /\ bundle'[b].of = bundle[b].of /\ bundle'[b].hash = bundle[b].hash /\ Begun(b)'
      BY <1>2, WhatIsWritten DEF Begun
    <2>2. Granted(bundle[b].of, bundle[b].hash)
      BY <2>1 DEF Inv, CarryInv
    <2>3. bundle[b].of \in {0} \cup Bundles /\ bundle[b].hash \in Payload
      BY <1>1 DEF Bundle
    <2>4. bundle'[bundle[b].of] = bundle[bundle[b].of]
      BY <2>2, <2>3, GrantsStand
    <2>5. Granted(bundle[b].of, bundle[b].hash)'
      BY <2>1, <2>2, <2>4 DEF Granted, RunOver, RetryableParts
    <2>6. ASSUME NEW x \in Parts \ bundle[b].hash.want
          PROVE  \/ bundle'[b].entry[x] = NoEntry
                 \/ bundle'[b].entry[x] = CarriedForward(bundle[bundle[b].of].entry[x])
      <3>1. CASE bundle'[b].entry[x] = bundle[b].entry[x]
        BY <2>1, <3>1 DEF Inv, CarryInv
      <3>2. ASSUME NEW c \in Syncers, Writing(c), b = syncer[c].run
            PROVE  /\ x \notin syncer[c].todo /\ syncer[c].of = bundle[b].of
        BY <2>1, <3>2 DEF Inv, CallInv, GoodCall, Serving, Writing
      <3>3. ASSUME NEW c \in Syncers, Filled(c, b)
            PROVE  \/ bundle'[b].entry[x] = NoEntry
                   \/ bundle'[b].entry[x] = CarriedForward(bundle[bundle[b].of].entry[x])
        BY <3>2, <3>3 DEF Initialized, Filled
      <3>4. ASSUME NEW c \in Syncers, NEW y \in Parts, NEW e \in Entry, Marked(c, b, y, e)
            PROVE  bundle'[b].entry[x] = bundle[b].entry[x]
        BY <1>1, <3>2, <3>4 DEF Bundle, Marked
      <3>5. ~Blanked(b)
        BY <1>2 DEF Blanked
      <3> QED BY <3>1, <3>3, <3>4, <3>5, EntriesWritten
    <2> QED BY <2>1, <2>4, <2>5, <2>6
  <1>3. ASSUME ~Begun(b), NEW c \in Syncers, NEW d \in Bundles, BeginBundle(c, d)
        PROVE  /\ Begun(b)' /\ Granted(bundle[b].of, bundle[b].hash)'
               /\ \A x \in Parts : bundle'[b].entry[x] = NoEntry
    <2>1. CASE b = d /\ ~Refused(syncer[c])
      <3>1. /\ syncer[c].at = "begin" /\ syncer[c].of \in {0} \cup Bundles
            /\ syncer[c].hash \in Payload
        BY <1>3 DEF BeginBundle, Inv, TypeInv, Call
      <3>2. /\ bundle'[b].status = "running" /\ bundle'[b].of = syncer[c].of
            /\ bundle'[b].hash = syncer[c].hash
            /\ \A x \in Parts : bundle'[b].entry[x] = NoEntry
        <4>1. bundle' = [bundle EXCEPT ![b] =
                   [NoBundle EXCEPT !.status = "running", !.of = syncer[c].of,
                                    !.key = syncer[c].key, !.hash = syncer[c].hash]]
          BY <1>3, <2>1 DEF BeginBundle
        <4> QED BY <4>1 DEF Inv, TypeInv, NoBundle
      <3>3. Granted(syncer[c].of, syncer[c].hash)
        BY <3>1, <3>2 DEF Inv, CallInv, GoodCall
      <3>4. bundle'[syncer[c].of] = bundle[syncer[c].of]
        BY <3>1, <3>3, GrantsStand
      <3> QED BY <3>2, <3>3, <3>4 DEF Granted, RunOver, RetryableParts, Begun
    <2>2. CASE ~(b = d /\ ~Refused(syncer[c]))
      <3>1. bundle'[b].of = bundle[b].of
        BY <1>3, <2>2 DEF BeginBundle, Inv, TypeInv
      <3> QED BY <1>3, <3>1 DEF Inv, CarryInv
    <2> QED BY <2>1, <2>2
  <1>4. CASE ~Begun(b) /\ ~\E c \in Syncers, d \in Bundles : BeginBundle(c, d)
    <2>1. bundle'[b] = bundle[b]
      BY <1>4, OnlyBegunIsWritten
    <2> QED BY <1>4, <2>1 DEF Inv, CarryInv
  <1> QED BY <1>2, <1>3, <1>4

(* The run that a retry was answered with stays what it was asked for.     *)
LEMMA AnswerStep ==
    ASSUME Inv, [FixtureNext]_fixtureVars
    PROVE  AnswerInv'
  <1> DEFINE Named(a) == /\ bundle[a.run].of = a.of
                         /\ bundle[a.run].key = a.key
                         /\ bundle[a.run].hash = a.hash
  <1>1. ASSUME NEW a, a.run \in Bundles, a.of # 0, Named(a)
        PROVE  /\ bundle'[a.run].of = a.of
               /\ bundle'[a.run].key = a.key
               /\ bundle'[a.run].hash = a.hash
    <2>1. Begun(a.run)
      BY <1>1 DEF Inv, CarryInv
    <2> QED BY <1>1, <2>1, WhatIsWritten DEF Begun
  <1>2. \A a \in answers : a.run \in Bundles /\ a.of # 0 /\ Named(a)
    BY ZeroIsNoRun DEF Inv, TypeInv, Answer, AnswerInv
  <1>3. ASSUME NEW of \in Bundles, NEW key, NEW hash, Replay(of, key, hash)
        PROVE  \A a \in answers' : a.run \in Bundles /\ a.of # 0 /\ Named(a)
    BY <1>2, <1>3, ZeroIsNoRun DEF Replay, RetriesUnder
  <1>4. \A a \in answers' : a.run \in Bundles /\ a.of # 0 /\ Named(a)
    <2>1. CASE answers' = answers
      BY <1>2, <2>1
    <2>2. ASSUME NEW c \in Syncers, NEW of \in Bundles, NEW key \in RetryKeys,
                 NEW hash \in Payload, StartRetry(c, of, key, hash), answers' # answers
          PROVE  Replay(of, key, hash)
      BY <2>2 DEF StartRetry
    <2>3. ASSUME NEW c \in Syncers, NEW b \in Bundles, BeginBundle(c, b), answers' # answers
          PROVE  /\ syncer[c].of \in Bundles
                 /\ Replay(syncer[c].of, syncer[c].key, syncer[c].hash)
      BY <2>3 DEF BeginBundle, Refused, Inv, TypeInv, Call
    <2>4. ASSUME NEW c \in Syncers, FinishBundle(c), answers' # answers
          PROVE  \A a \in answers' : a.run \in Bundles /\ a.of # 0 /\ Named(a)
      <3>1. /\ syncer[c].of # 0 /\ syncer[c].run \in Bundles
            /\ bundle[syncer[c].run].of = syncer[c].of
            /\ bundle[syncer[c].run].key = syncer[c].key
            /\ bundle[syncer[c].run].hash = syncer[c].hash
        BY <2>4 DEF FinishBundle, Inv, CallInv, GoodCall, Serving, Writing
      <3>2. answers' = answers \cup
                {[of |-> syncer[c].of, key |-> syncer[c].key, hash |-> syncer[c].hash,
                  run |-> syncer[c].run]}
        BY <2>4 DEF FinishBundle
      <3> QED BY <1>2, <3>1, <3>2
    <2>5. CASE \E c \in Syncers :
                  \/ StartBundle(c) \/ InitializeResources(c) \/ FinalizeBundle(c) \/ StopSync(c)
                  \/ \E x \in Parts : MarkRunning(c, x) \/ SettlePart(c, x)
      BY <1>2, <2>5 DEF StartBundle, InitializeResources, FinalizeBundle, StopSync, MarkRunning,
                        SettlePart
    <2>6. CASE UNCHANGED fixtureVars
      BY <1>2, <2>6 DEF fixtureVars
    <2> QED BY <1>3, <2>1, <2>2, <2>3, <2>4, <2>5, <2>6 DEF FixtureNext
  <1> QED BY <1>1, <1>4 DEF AnswerInv

-----------------------------------------------------------------------------
(* Together *)

LEMMA InvInit == FixtureInit => Inv
  <1> SUFFICES ASSUME FixtureInit
               PROVE  Inv
    OBVIOUS
  <1>1. TypeInv
    BY RowTypes DEF FixtureInit, TypeInv
  <1>2. CallInv
    BY DEF FixtureInit, CallInv, Alone, GoodCall, Serving, Writing, NoSync
  <1>3. \A b \in Bundles : bundle[b].of = 0
    BY DEF FixtureInit, NoBundle
  <1>4. EntryInv
    BY DEF FixtureInit, EntryInv, NoBundle, NoEntry
  <1> QED BY <1>1, <1>2, <1>3, <1>4 DEF FixtureInit, Inv, KeyInv, CarryInv, AnswerInv

LEMMA InvStep == Inv /\ [FixtureNext]_fixtureVars => Inv'
  BY TypeStep, CallStep, KeyStep, CarryStep, EntryStep, AnswerStep DEF Inv

(* What succeeded is not among what a retry of the run may ask for.        *)
LEMMA CarriedAsItWas ==
    ASSUME Inv, NEW b \in Bundles, NEW x \in Parts, bundle[b].of # 0,
           ~bundle[bundle[b].of].entry[x].retryable
    PROVE  /\ bundle[b].of \in Bundles
           /\ \/ bundle[b].entry[x] = NoEntry
              \/ /\ bundle[b].entry[x].status = "carried_forward"
                 /\ ~bundle[b].entry[x].retryable
  <1> DEFINE a == bundle[b].of
  <1>1. a \in Bundles /\ x \notin bundle[b].hash.want
    BY DEF Inv, CarryInv, Granted, RetryableParts
  <1>2. bundle[a].entry[x] \in Entry
    BY <1>1 DEF Inv, TypeInv, Bundle
  <1>3. \/ bundle[b].entry[x] = NoEntry
        \/ bundle[b].entry[x] = CarriedForward(bundle[a].entry[x])
    BY <1>1 DEF Inv, CarryInv
  <1>4. \/ CarriedForward(bundle[a].entry[x]) = NoEntry
        \/ /\ CarriedForward(bundle[a].entry[x]).status = "carried_forward"
           /\ ~CarriedForward(bundle[a].entry[x]).retryable
    BY <1>2 DEF CarriedForward, Entry
  <1> QED BY <1>1, <1>3, <1>4

LEMMA InvHolds == Inv => RetriesHold
  <1> SUFFICES ASSUME Inv
               PROVE  RetriesHold
    OBVIOUS
  <1>1. RetriesAnswerOnce
    <2> SUFFICES ASSUME NEW a \in answers, NEW b \in answers, a.of = b.of, a.key = b.key
                 PROVE  a.run = b.run /\ a.hash = b.hash
      BY DEF RetriesAnswerOnce
    <2>1. a.of # 0 /\ a.run \in Bundles /\ b.run \in Bundles
      BY ZeroIsNoRun DEF Inv, TypeInv, Answer
    <2>2. a.run = b.run
      BY <2>1 DEF Inv, AnswerInv, KeyInv
    <2> QED BY <2>2 DEF Inv, AnswerInv
  <1>2. SucceededIsNotRepeated
    <2> SUFFICES ASSUME NEW b \in Bundles, NEW a \in Bundles, NEW x \in Parts, IsBelow(b, a),
                        bundle[a].entry[x].status = "succeeded"
                 PROVE  bundle[b].entry[x].status \in {"absent", "carried_forward"}
      BY DEF SucceededIsNotRepeated
    <2>1. a # 0 /\ ~bundle[a].entry[x].retryable
      BY ZeroIsNoRun DEF Inv, EntryInv
    <2>2. CASE bundle[b].of = a
      BY <2>1, <2>2, CarriedAsItWas DEF NoEntry
    <2>3. CASE \E m \in Bundles : bundle[b].of = m /\ bundle[m].of = a
      <3>1. PICK m \in Bundles : bundle[b].of = m /\ bundle[m].of = a
        BY <2>3
      <3>2. ~bundle[m].entry[x].retryable
        BY <2>1, <3>1, CarriedAsItWas DEF NoEntry
      <3> QED BY <3>1, <3>2, ZeroIsNoRun, CarriedAsItWas DEF NoEntry
    <2> QED BY <2>2, <2>3 DEF IsBelow
  <1> QED BY <1>1, <1>2 DEF RetriesHold

(* All answers to the retries of one run under one key name one run that   *)
(* was asked the same, and no retry, or retry of a retry, fetches what     *)
(* already succeeded: retry_fixture_bundle, initialize_resources, and the  *)
(* unique key of external_sync_runs.                                       *)
THEOREM RetriesAreMadeOnce == FixtureSpec => []RetriesHold
  BY InvInit, InvStep, InvHolds, PTL DEF FixtureSpec
-----------------------------------------------------------------------------
(* Alerts.  What a refresh has loaded is still so when it commits, and what*)
(* it is about to write was judged by what is there, unless it was         *)
(* disturbed.                                                              *)

RefreshCall == [seen : [Kinds -> Alert], clean : BOOLEAN, new : [Kinds -> Alert]]

AlertsTypeInv ==
    /\ AlertsTypeOK
    /\ refresh \in [Refreshers -> RefreshCall \cup {Idle}]

(* One refresh at most is in progress; it holds the alerts as they are, and*)
(* whatever it is based on it judges as they would be judged now.          *)
RefreshSeenIsSo ==
    oneRefresh =>
        /\ \A c, d \in Refreshers : refresh[c] # Idle /\ refresh[d] # Idle => c = d
        /\ \A c \in Refreshers : refresh[c] # Idle =>
              /\ refresh[c].seen = alert
              /\ refresh[c].clean => refresh[c].new = [k \in Kinds |-> Judged(k)]

AlertsInv == AlertsTypeInv /\ RefreshSeenIsSo /\ RefreshedAlertsAgree

LEMMA RefreshIsNotIdle ==
    ASSUME NEW r \in RefreshCall
    PROVE  r # Idle
  <1>1. DOMAIN r = {"seen", "clean", "new"} /\ DOMAIN Idle = {"at"}
    BY DEF RefreshCall, Idle
  <1> QED BY <1>1

LEMMA KindsAreSevere ==
    ASSUME NEW k
    PROVE  Severity(k) \in {"warning", "critical"}
  BY DEF Severity

LEMMA JudgedIsTyped ==
    ASSUME AlertsTypeInv, NEW k \in Kinds
    PROVE  /\ Judged(k) \in Alert
           /\ Judged(k).status \in {"open", "acknowledged"} <=> Active(k)
           /\ Active(k) => Judged(k).severity = Severity(k)
  <1>1. alert[k] \in Alert /\ Severity(k) \in {"warning", "critical"}
    BY KindsAreSevere DEF AlertsTypeInv, AlertsTypeOK
  <1>2. CASE Active(k)
    <2> DEFINE to == [status |-> IF alert[k].status \in {"none", "resolved"} THEN "open" ELSE alert[k].status,
                      severity |-> Severity(k)]
    <2>1. Judged(k) = to
      BY <1>2 DEF Judged
    <2>2. to \in Alert /\ to.status \in {"open", "acknowledged"} /\ to.severity = Severity(k)
      BY <1>1 DEF Alert
    <2> QED BY <1>2, <2>1, <2>2
  <1>3. CASE ~Active(k) /\ k = "low_stock"
    <2> DEFINE to == [alert[k] EXCEPT !.status = IF @ = "none" THEN "none" ELSE "resolved"]
    <2>1. Judged(k) = to
      BY <1>3 DEF Judged
    <2>2. to \in Alert /\ to.status \in {"none", "resolved"}
      BY <1>1 DEF Alert
    <2> QED BY <1>3, <2>1, <2>2
  <1>4. CASE ~Active(k) /\ k # "low_stock"
    <2> DEFINE to == [status |-> "resolved", severity |-> Severity(k)]
    <2>1. Judged(k) = to
      BY <1>4 DEF Judged
    <2>2. to \in Alert /\ to.status = "resolved"
      BY <1>1 DEF Alert
    <2> QED BY <1>4, <2>1, <2>2
  <1> QED BY <1>2, <1>3, <1>4

LEMMA AlertsInvInit == AlertsInit => AlertsInv
  <1> SUFFICES ASSUME AlertsInit PROVE AlertsInv
    OBVIOUS
  <1>1. NoAlert \in Alert /\ stock \in 0..MaxStock
    BY AlertsAssumption DEF AlertsInit, NoAlert, Alert, AlertsAssumption
  <1> QED BY <1>1 DEF AlertsInit, AlertsInv, AlertsTypeInv, AlertsTypeOK, RefreshSeenIsSo,
                     RefreshedAlertsAgree

(* Who disturbs leaves each refresh its alerts, and none of them clean.    *)
LEMMA DisturbedIsNotClean ==
    ASSUME AlertsInv, Disturbs, UNCHANGED <<about, alert, oneRefresh>>,
           stock' \in 0..MaxStock, policy' \in Policy \cup {NoPolicy},
           source' \in SourceStates(about) \cup {"none"}
    PROVE  AlertsInv'
  <1>1. Kinds' = Kinds /\ SourceStates(about)' = SourceStates(about)
    BY DEF Kinds, SourceStates
  <1>2. ASSUME NEW c \in Refreshers
        PROVE  /\ refresh[c] = Idle => refresh'[c] = Idle
               /\ refresh[c] # Idle => /\ refresh'[c] \in RefreshCall
                                       /\ refresh'[c].seen = refresh[c].seen /\ ~refresh'[c].clean
    <2>1. CASE refresh[c] = Idle
      BY <2>1 DEF Disturbs
    <2>2. CASE refresh[c] # Idle
      <3>1. refresh[c] \in RefreshCall /\ refresh'[c] = [refresh[c] EXCEPT !.clean = FALSE]
        BY <2>2 DEF AlertsInv, AlertsTypeInv, Disturbs
      <3> QED BY <2>2, <3>1 DEF RefreshCall
    <2> QED BY <2>1, <2>2
  <1>3. AlertsTypeInv'
    <2>1. (refresh \in [Refreshers -> RefreshCall \cup {Idle}])'
      <3>1. RefreshCall' = RefreshCall
        BY <1>1 DEF RefreshCall
      <3>2. refresh' \in [Refreshers -> RefreshCall \cup {Idle}]
        BY <1>2 DEF Disturbs, AlertsInv, AlertsTypeInv, Idle
      <3> QED BY <3>1, <3>2 DEF Idle
    <2>2. fresh' \in BOOLEAN
      BY DEF Disturbs
    <2>3. \A c \in Refreshers : refresh'[c] # Idle =>
             refresh'[c].seen \in [Kinds -> Alert] /\ refresh'[c].new \in [Kinds -> Alert]
                /\ refresh'[c].clean \in BOOLEAN
      BY <1>2 DEF RefreshCall
    <2> QED BY <1>1, <2>1, <2>2, <2>3 DEF AlertsInv, AlertsTypeInv, AlertsTypeOK, Idle
  <1>4. RefreshSeenIsSo'
    BY <1>1, <1>2 DEF AlertsInv, RefreshSeenIsSo, Idle
  <1>5. RefreshedAlertsAgree'
    BY DEF Disturbs, RefreshedAlertsAgree
  <1> QED BY <1>3, <1>4, <1>5 DEF AlertsInv

LEMMA JudgedStays ==
    ASSUME UNCHANGED alertSources, NEW k
    PROVE  /\ Kinds' = Kinds /\ (Active(k))' = Active(k) /\ (Severity(k))' = Severity(k)
           /\ SourceStates(about)' = SourceStates(about) /\ RefreshCall' = RefreshCall
  BY DEF alertSources, Kinds, Active, Severity, SourceStates, RefreshCall, Kinds

LEMMA StartRefreshKeeps ==
    ASSUME AlertsInv, NEW c \in Refreshers, StartRefresh(c)
    PROVE  AlertsInv'
  <1> DEFINE new == [seen |-> alert, clean |-> TRUE, new |-> [k \in Kinds |-> Judged(k)]]
  <1> USE DEF AlertsInv
  <1>1. UNCHANGED <<about, stock, policy, source, alert, fresh, oneRefresh>>
        /\ refresh' = [refresh EXCEPT ![c] = new]
    BY DEF StartRefresh, alertSources
  <1>2. new \in RefreshCall
    BY JudgedIsTyped DEF RefreshCall, AlertsTypeInv, AlertsTypeOK
  <1>3. Kinds' = Kinds /\ RefreshCall' = RefreshCall /\ SourceStates(about)' = SourceStates(about)
    BY <1>1 DEF Kinds, RefreshCall, SourceStates
  <1>4. AlertsTypeInv'
    <2>1. refresh' \in [Refreshers -> RefreshCall \cup {Idle}]
      BY <1>1, <1>2 DEF AlertsTypeInv
    <2>2. \A d \in Refreshers : refresh'[d] # Idle =>
             refresh'[d].seen \in [Kinds -> Alert] /\ refresh'[d].new \in [Kinds -> Alert]
                /\ refresh'[d].clean \in BOOLEAN
      BY <2>1 DEF RefreshCall
    <2> QED BY <1>1, <1>3, <2>1, <2>2 DEF AlertsTypeInv, AlertsTypeOK, Idle
  <1>5. RefreshSeenIsSo'
    <2> SUFFICES ASSUME oneRefresh PROVE RefreshSeenIsSo'
      BY <1>1 DEF RefreshSeenIsSo
    <2>1. \A d \in Refreshers : refresh'[d] # Idle => d = c
      BY <1>1 DEF StartRefresh, Unattended, AlertsTypeInv
    <2>2. refresh'[c] = new
      BY <1>1 DEF AlertsTypeInv
    <2>3. [k \in Kinds |-> Judged(k)]' = [k \in Kinds |-> Judged(k)]
      BY <1>1, <1>3 DEF Judged, Active, Severity
    <2> HIDE DEF new
    <2>4. refresh'[c].seen = alert' /\ refresh'[c].new = [k \in Kinds |-> Judged(k)]'
      BY <1>1, <2>2, <2>3 DEF new
    <2> QED BY <2>1, <2>4 DEF RefreshSeenIsSo, Idle
  <1>6. RefreshedAlertsAgree'
    BY <1>1 DEF RefreshedAlertsAgree, Kinds, Active, Severity
  <1> QED BY <1>4, <1>5, <1>6

LEMMA CommitRefreshKeeps ==
    ASSUME AlertsInv, NEW c \in Refreshers, CommitRefresh(c)
    PROVE  AlertsInv'
  <1> USE DEF AlertsInv
  <1>0. PICK call \in RefreshCall : call = refresh[c]
    BY DEF CommitRefresh, AlertsTypeInv
  <1> DEFINE merged == [k \in Kinds |->
                          [f \in DOMAIN NoAlert |->
                              IF call.new[k][f] = call.seen[k][f] THEN alert[k][f] ELSE call.new[k][f]]]
             inserts == {k \in Kinds : call.seen[k].status = "none" /\ call.new[k].status # "none"}
             clash == \E k \in inserts : alert[k].status # "none"
  <1>a. /\ UNCHANGED <<about, stock, policy, source, oneRefresh>>
        /\ refresh' = [refresh EXCEPT ![c] = Idle] /\ refresh[c] # Idle
    BY DEF CommitRefresh, alertSources
  <1>b. IF clash THEN alert' = alert /\ fresh' = fresh ELSE alert' = merged /\ fresh' = call.clean
    BY <1>0 DEF CommitRefresh
  <1>1. /\ UNCHANGED <<about, stock, policy, source, oneRefresh>>
        /\ refresh' = [refresh EXCEPT ![c] = Idle] /\ refresh[c] # Idle /\ call = refresh[c]
        /\ (clash /\ alert' = alert /\ fresh' = fresh) \/ (~clash /\ alert' = merged /\ fresh' = call.clean)
    BY <1>0, <1>a, <1>b
  <1>2. Kinds' = Kinds /\ RefreshCall' = RefreshCall /\ SourceStates(about)' = SourceStates(about)
    BY <1>1 DEF Kinds, RefreshCall, SourceStates
  <1>3. merged \in [Kinds -> Alert]
    <2>1. ASSUME NEW k \in Kinds PROVE merged[k] \in Alert
      <3>1. call.new[k] \in Alert /\ call.seen[k] \in Alert /\ alert[k] \in Alert
        BY <1>1 DEF RefreshCall, AlertsTypeInv, AlertsTypeOK
      <3>2. DOMAIN NoAlert = {"status", "severity"}
        BY DEF NoAlert
      <3> QED BY <3>1, <3>2 DEF Alert
    <2> QED BY <2>1
  <1>4. AlertsTypeInv'
    <2>1. refresh' \in [Refreshers -> RefreshCall \cup {Idle}]
      BY <1>1 DEF AlertsTypeInv
    <2>2. \A d \in Refreshers : refresh'[d] # Idle =>
             refresh'[d].seen \in [Kinds -> Alert] /\ refresh'[d].new \in [Kinds -> Alert]
                /\ refresh'[d].clean \in BOOLEAN
      BY <2>1 DEF RefreshCall
    <2>3. alert' \in [Kinds -> Alert] /\ fresh' \in BOOLEAN
      BY <1>1, <1>3 DEF RefreshCall, AlertsTypeInv, AlertsTypeOK
    <2> QED BY <1>1, <1>2, <2>1, <2>2, <2>3 DEF AlertsTypeInv, AlertsTypeOK, Idle
  <1>5. RefreshSeenIsSo'
    <2>1. oneRefresh => \A d \in Refreshers : refresh'[d] = Idle
      BY <1>1 DEF RefreshSeenIsSo, AlertsTypeInv
    <2> QED BY <1>1, <2>1 DEF RefreshSeenIsSo, Idle
  <1>6. RefreshedAlertsAgree'
    <2> SUFFICES ASSUME oneRefresh, fresh'
                 PROVE \A k \in Kinds : /\ (alert'[k].status \in {"open", "acknowledged"}) <=> Active(k)
                                        /\ Active(k) => alert'[k].severity = Severity(k)
      BY <1>1, <1>2 DEF RefreshedAlertsAgree, Active, Severity
    <2>1. call.seen = alert /\ ~clash
      <3>1. call.seen = alert
        BY <1>1 DEF RefreshSeenIsSo
      <3> QED BY <3>1
    <2>2. call.clean /\ call.new = [k \in Kinds |-> Judged(k)]
      BY <1>1, <2>1 DEF RefreshSeenIsSo
    <2> SUFFICES ASSUME NEW k \in Kinds
                 PROVE  /\ (alert'[k].status \in {"open", "acknowledged"}) <=> Active(k)
                        /\ Active(k) => alert'[k].severity = Severity(k)
      OBVIOUS
    <2>3. alert'[k] = [f \in DOMAIN NoAlert |->
                          IF call.new[k][f] = call.seen[k][f] THEN alert[k][f] ELSE call.new[k][f]]
      BY <1>1, <2>1
    <2>4. call.new[k] = Judged(k) /\ call.seen[k] = alert[k]
      BY <2>1, <2>2
    <2>5. alert'[k].status = Judged(k).status /\ alert'[k].severity = Judged(k).severity
      BY <2>3, <2>4 DEF NoAlert
    <2> QED BY <2>5, JudgedIsTyped
  <1> QED BY <1>4, <1>5, <1>6

LEMMA AcknowledgeKeeps ==
    ASSUME AlertsInv, NEW k \in Kinds, Acknowledge(k)
    PROVE  AlertsInv'
  <1> USE DEF AlertsInv
  <1>1. /\ UNCHANGED <<about, stock, policy, source, refresh, oneRefresh>>
        /\ alert[k].status # "none" /\ (oneRefresh => Unattended)
        /\ alert' = [alert EXCEPT ![k].status = "acknowledged"]
        /\ fresh' = (fresh /\ alert[k].status # "resolved")
    BY DEF Acknowledge, alertSources
  <1>2. Kinds' = Kinds /\ RefreshCall' = RefreshCall /\ SourceStates(about)' = SourceStates(about)
    BY <1>1 DEF Kinds, RefreshCall, SourceStates
  <1>3. alert' \in [Kinds -> Alert] /\ alert'[k].status = "acknowledged"
        /\ alert'[k].severity = alert[k].severity /\ \A j \in Kinds \ {k} : alert'[j] = alert[j]
    BY <1>1 DEF AlertsTypeInv, AlertsTypeOK, Alert
  <1>4. AlertsTypeInv'
    <2>1. fresh' \in BOOLEAN
      BY <1>1
    <2> QED BY <1>1, <1>2, <1>3, <2>1 DEF AlertsTypeInv, AlertsTypeOK, Idle
  <1>5. RefreshSeenIsSo'
    BY <1>1 DEF RefreshSeenIsSo, Unattended, Idle
  <1>6. RefreshedAlertsAgree'
    <2> SUFFICES ASSUME oneRefresh, fresh'
                 PROVE \A j \in Kinds : /\ (alert'[j].status \in {"open", "acknowledged"}) <=> Active(j)
                                        /\ Active(j) => alert'[j].severity = Severity(j)
      BY <1>1, <1>2 DEF RefreshedAlertsAgree, Active, Severity
    <2>1. alert[k].status \in {"open", "acknowledged"}
      BY <1>1 DEF AlertsTypeInv, AlertsTypeOK, Alert
    <2> QED BY <1>1, <1>3, <2>1 DEF RefreshedAlertsAgree
  <1> QED BY <1>4, <1>5, <1>6

LEMMA AlertsInvStep == AlertsInv /\ [AlertsNext]_alertVars => AlertsInv'
  <1> SUFFICES ASSUME AlertsInv, [AlertsNext]_alertVars PROVE AlertsInv'
    OBVIOUS
  <1>0. /\ stock \in 0..MaxStock /\ policy \in Policy \cup {NoPolicy}
        /\ source \in SourceStates(about) \cup {"none"}
    BY DEF AlertsInv, AlertsTypeInv, AlertsTypeOK
  <1>1. CASE SavePolicy
    <2>1. policy' \in Policy
      BY <1>1 DEF SavePolicy
    <2> QED BY <1>0, <1>1, <2>1, DisturbedIsNotClean DEF SavePolicy
  <1>2. CASE StockMoves
    BY <1>0, <1>2, DisturbedIsNotClean DEF StockMoves
  <1>3. CASE SourceMoves
    BY <1>0, <1>3, DisturbedIsNotClean DEF SourceMoves
  <1>4. ASSUME NEW k \in Kinds, Acknowledge(k) PROVE AlertsInv'
    BY <1>4, AcknowledgeKeeps
  <1>5. ASSUME NEW c \in Refreshers, StartRefresh(c) PROVE AlertsInv'
    BY <1>5, StartRefreshKeeps
  <1>6. ASSUME NEW c \in Refreshers, CommitRefresh(c) PROVE AlertsInv'
    BY <1>6, CommitRefreshKeeps
  <1>7. CASE UNCHANGED alertVars
    <2>1. UNCHANGED <<about, stock, policy, source, alert, refresh, fresh, oneRefresh>>
      BY <1>7 DEF alertVars
    <2> QED BY <2>1 DEF AlertsInv, AlertsTypeInv, AlertsTypeOK, RefreshSeenIsSo, RefreshedAlertsAgree,
                       RefreshCall, Kinds, SourceStates, Idle, Judged, Active, Severity
  <1> QED BY <1>1, <1>2, <1>3, <1>4, <1>5, <1>6, <1>7 DEF AlertsNext

(* While refreshes are served one at a time, and until something changes,  *)
(* the alerts that are not over are those whose cause is there, at its     *)
(* severity: refresh_low_stock_alerts and refresh_external_alerts of       *)
(* app/alerts.py, with whatever was acknowledged in between.               *)
THEOREM AlertsFollowCauses == AlertsSpec => []RefreshedAlertsAgree
  <1>1. AlertsInv => RefreshedAlertsAgree
    BY DEF AlertsInv
  <1> QED BY <1>1, AlertsInvInit, AlertsInvStep, PTL DEF AlertsSpec
-----------------------------------------------------------------------------
(* Crawls.  The pages visited are those a reader comes to in as many steps;*)
(* where a page comes back they are all there are, and none is the last.   *)

(* The pages of a listing s within n steps, as PagesWithin has them.       *)
WalkOf(s) == CHOOSE w : w = [n \in Nat |->
    IF n = 0 THEN {1} ELSE w[n - 1] \cup ({s[p].next : p \in w[n - 1]} \ {LastPage})]

LEMMA PagesAreWalked == PagesWithin = WalkOf(listing)
  BY DEF PagesWithin, WalkOf

(* A way from the first page that may rest, of n steps, to page p.         *)
Way(s, n, w) == /\ w \in [0..n -> PageNos] /\ w[0] = 1
                /\ \A i \in 0..n : i # n => w[i + 1] = w[i] \/ w[i + 1] = s[w[i]].next
Reached(s, n) == {p \in PageNos : \E w : Way(s, n, w) /\ w[n] = p}

LEMMA ReachedStep ==
    ASSUME NEW s \in Listings, NEW n \in Nat \ {0}
    PROVE  Reached(s, n) = Reached(s, n - 1) \cup ({s[p].next : p \in Reached(s, n - 1)} \ {LastPage})
  <1> USE CatalogAssumption DEF CatalogAssumption
  <1>1. ASSUME NEW p \in Reached(s, n)
        PROVE  p \in Reached(s, n - 1) \cup ({s[q].next : q \in Reached(s, n - 1)} \ {LastPage})
    <2>1. PICK w : Way(s, n, w) /\ w[n] = p
      BY DEF Reached
    <2> DEFINE v == [i \in 0..(n - 1) |-> w[i]]
    <2>2. Way(s, n - 1, v) /\ v[n - 1] = w[n - 1]
      BY <2>1 DEF Way
    <2>3. w[n - 1] \in Reached(s, n - 1)
      <3>1. w[n - 1] \in PageNos
        BY <2>1 DEF Way
      <3> HIDE DEF v
      <3> QED BY <2>2, <3>1 DEF Reached
    <2>4. p = w[n - 1] \/ p = s[w[n - 1]].next
      BY <2>1 DEF Way
    <2> QED BY <2>3, <2>4 DEF Reached
  <1>2. ASSUME NEW q \in Reached(s, n - 1), NEW p \in PageNos, p = q \/ p = s[q].next
        PROVE  p \in Reached(s, n)
    <2>1. PICK w : Way(s, n - 1, w) /\ w[n - 1] = q
      BY DEF Reached
    <2> DEFINE v == [i \in 0..n |-> IF i = n THEN p ELSE w[i]]
    <2>2. v \in [0..n -> PageNos] /\ v[0] = 1 /\ v[n] = p
      BY <2>1 DEF Way
    <2>3. ASSUME NEW i \in 0..n, i # n PROVE v[i + 1] = v[i] \/ v[i + 1] = s[v[i]].next
      <3>1. CASE i + 1 = n
        BY <1>2, <2>1, <3>1
      <3>2. CASE i + 1 # n
        <4>1. i \in 0..(n - 1) /\ i # n - 1 /\ v[i] = w[i] /\ v[i + 1] = w[i + 1]
          BY <2>3, <3>2
        <4> QED BY <2>1, <4>1 DEF Way
      <3> QED BY <3>1, <3>2
    <2> HIDE DEF v
    <2>4. Way(s, n, v)
      BY <2>2, <2>3 DEF Way
    <2> QED BY <2>2, <2>4 DEF Reached
  <1>3. \A q \in Reached(s, n - 1) : q \in PageNos
    BY DEF Reached
  <1>4. Reached(s, n - 1) \subseteq Reached(s, n)
    BY <1>2, <1>3
  <1>5. \A q \in Reached(s, n - 1) : s[q].next \in PageNos \cup {LastPage}
    BY <1>3
  <1>6. {s[q].next : q \in Reached(s, n - 1)} \ {LastPage} \subseteq Reached(s, n)
    BY <1>2, <1>5
  <1> QED BY <1>1, <1>4, <1>6

LEMMA WalkSteps ==
    ASSUME NEW s \in Listings
    PROVE  /\ WalkOf(s)[0] = {1}
           /\ \A n \in Nat : /\ WalkOf(s)[n] \subseteq PageNos
                             /\ WalkOf(s)[n + 1] = WalkOf(s)[n] \cup ({s[p].next : p \in WalkOf(s)[n]} \ {LastPage})
  <1> USE CatalogAssumption DEF CatalogAssumption
  <1> DEFINE Rule(w) == w = [n \in Nat |-> IF n = 0 THEN {1}
                                ELSE w[n - 1] \cup ({s[p].next : p \in w[n - 1]} \ {LastPage})]
             g == [n \in Nat |-> Reached(s, n)]
  <1>1. Reached(s, 0) = {1}
    <2>1. Way(s, 0, [i \in 0..0 |-> 1])
      BY DEF Way
    <2> QED BY <2>1 DEF Reached, Way
  <1>2. \A n \in Nat : g[n] = IF n = 0 THEN {1} ELSE g[n - 1] \cup ({s[p].next : p \in g[n - 1]} \ {LastPage})
    BY <1>1, ReachedStep
  <1>3. Rule(g)
    BY <1>2
  <1> HIDE DEF g
  <1>4. Rule(WalkOf(s))
    BY <1>3 DEF WalkOf
  <1> DEFINE w == WalkOf(s)
  <1> HIDE DEF w
  <1>5. w = [n \in Nat |-> IF n = 0 THEN {1} ELSE w[n - 1] \cup ({s[p].next : p \in w[n - 1]} \ {LastPage})]
    BY <1>4 DEF w
  <1>6. w[0] = {1} /\ \A n \in Nat : w[n + 1] = w[n] \cup ({s[p].next : p \in w[n]} \ {LastPage})
    <2>1. w[0] = {1}
      BY <1>5
    <2>2. ASSUME NEW n \in Nat PROVE w[n + 1] = w[n] \cup ({s[p].next : p \in w[n]} \ {LastPage})
      <3>1. n + 1 \in Nat /\ n + 1 # 0 /\ (n + 1) - 1 = n
        OBVIOUS
      <3> QED BY <1>5, <3>1
    <2> QED BY <2>1, <2>2
  <1>7. ASSUME NEW n \in Nat PROVE w[n] \subseteq PageNos
    <2> DEFINE B == {m \in Nat : ~ (w[m] \subseteq PageNos)}
    <2>1. ASSUME B # {} PROVE FALSE
      <3>1. PICK m \in B : \A k \in B : m <= k
        <4> B \in SUBSET Nat
          OBVIOUS
        <4> HIDE DEF B
        <4> QED BY <2>1, LeastNumber
      <3>2. m # 0
        BY <1>6
      <3>3. m - 1 \in Nat /\ m - 1 \notin B /\ (m - 1) + 1 = m
        BY <3>1, <3>2
      <3>4. w[m - 1] \subseteq PageNos
        BY <3>3
      <3>5. w[m] = w[m - 1] \cup ({s[p].next : p \in w[m - 1]} \ {LastPage})
        BY <1>6, <3>3
      <3> QED BY <3>4, <3>5
    <2> QED BY <2>1
  <1> QED BY <1>6, <1>7 DEF w

(* More steps reach what fewer reach.                                      *)
LEMMA WalkGrows ==
    ASSUME NEW s \in Listings, NEW n \in Nat, NEW m \in Nat, n <= m
    PROVE  WalkOf(s)[n] \subseteq WalkOf(s)[m]
  <1> DEFINE w == WalkOf(s)
             B == {k \in Nat : n <= k /\ ~ (w[n] \subseteq w[k])}
  <1>0. \A k \in Nat : w[k] \subseteq w[k + 1]
    BY WalkSteps
  <1> HIDE DEF w
  <1>1. ASSUME B # {} PROVE FALSE
    <2>1. PICK k \in B : \A j \in B : k <= j
      <3> B \in SUBSET Nat
        OBVIOUS
      <3> HIDE DEF B
      <3> QED BY <1>1, LeastNumber
    <2>2. k # n
      OBVIOUS
    <2>3. k - 1 \in Nat /\ n <= k - 1 /\ k - 1 \notin B /\ (k - 1) + 1 = k
      BY <2>1, <2>2
    <2> QED BY <1>0, <2>1, <2>3
  <1> QED BY <1>1 DEF w

(* No step leads out of a set that holds what its pages lead to.           *)
LEMMA WalkStays ==
    ASSUME NEW s \in Listings, NEW V, 1 \in V, \A p \in V : s[p].next \in V \cup {LastPage}, NEW n \in Nat
    PROVE  WalkOf(s)[n] \subseteq V
  <1> DEFINE w == WalkOf(s)
             B == {k \in Nat : ~ (w[k] \subseteq V)}
  <1>0. w[0] = {1} /\ \A k \in Nat : w[k + 1] = w[k] \cup ({s[p].next : p \in w[k]} \ {LastPage})
    BY WalkSteps
  <1> HIDE DEF w
  <1>1. ASSUME B # {} PROVE FALSE
    <2>1. PICK k \in B : \A j \in B : k <= j
      <3> B \in SUBSET Nat
        OBVIOUS
      <3> HIDE DEF B
      <3> QED BY <1>1, LeastNumber
    <2>2. k # 0
      BY <1>0
    <2>3. k - 1 \in Nat /\ k - 1 \notin B /\ (k - 1) + 1 = k
      BY <2>1, <2>2
    <2>4. w[k - 1] \subseteq V
      BY <2>3
    <2>5. w[k] = w[k - 1] \cup ({s[p].next : p \in w[k - 1]} \ {LastPage})
      BY <1>0, <2>3
    <2> QED BY <2>4, <2>5
  <1> QED BY <1>1 DEF w

CrawlTyped ==
    /\ collector \in {"live", "replay", "fixture"} /\ listing \in Listings
    /\ at \in PageNos /\ seen \in 0..MaxPages /\ visited \subseteq PageNos
    /\ crawl \in {"top", "loaded", "write", "report", "done"}
    /\ report \in {"none", "succeeded", "partial", "failed"}

ItemsOf(pages) == UNION {listing[p].items : p \in pages}
Fine(p) == (listing[p].gate = "open" \/ Fixture) /\ listing[p].gate # "unreadable"

(* The pages in which the listing goes round, if it does.                  *)
GoesRound == at \in visited /\ \A p \in visited : listing[p].next \in visited

(* Each page was come to in as many steps, and but once, unless it goes    *)
(* round.                                                                  *)
Walked ==
    /\ visited \subseteq WalkOf(listing)[Cardinality(visited) - 1]
    /\ Cardinality(visited) = seen \/ (Live /\ GoesRound)

BeforePage ==
    crawl = "top" =>
        /\ 1 \in visited \/ (visited = {} /\ at = 1)
        /\ at \in WalkOf(listing)[Cardinality(visited)]
        /\ \A p \in visited : listing[p].next \in visited \cup {at} /\ Fine(p)
        /\ records = ItemsOf(visited)
        /\ Fixture => visited = {}

OnPage ==
    crawl = "loaded" =>
        /\ {1, at} \subseteq visited
        /\ \A p \in visited \ {at} : listing[p].next \in visited /\ Fine(p)
        /\ records \cup listing[at].items = ItemsOf(visited)
        /\ Fixture => visited = {1}

(* All pages were read, and the last of them is where it is.               *)
AllRead ==
    /\ {1, at} \subseteq visited
    /\ \A p \in visited \ {at} : listing[p].next \in visited
    /\ \A p \in visited : Fine(p)
    /\ records = ItemsOf(visited)
    /\ IF Fixture THEN visited = {1} ELSE listing[at].next = LastPage

(* It stopped at the limit: there is a page to go to, which may be known.  *)
MoreToRead ==
    /\ 1 \in visited /\ seen = MaxPages /\ ~file /\ records = ItemsOf(visited)
    /\ \E q \in PageNos : /\ q \in WalkOf(listing)[Cardinality(visited)]
                          /\ \A p \in visited : listing[p].next \in visited \cup {q}

Ended ==
    /\ crawl \in {"top", "loaded", "write"} => failure = "none" /\ (Live => ~file)
    /\ crawl = "write" \/ (crawl \in {"report", "done"} /\ failure = "none") => AllRead
    /\ crawl \in {"report", "done"} /\ failure = "none" => file
    /\ Live /\ failure = "PAGE_LIMIT_EXCEEDED" => MoreToRead
    /\ records \subseteq ItemsOf(visited)

Reported ==
    /\ crawl # "done" => report = "none"
    /\ Fixture => crawl # "report" /\ report = "none"
    /\ report = "succeeded" => failure = "none"
    /\ crawl = "done" /\ failure = "none" /\ ~Fixture => report = "succeeded"
    /\ report = "partial" => Live /\ failure = "PAGE_LIMIT_EXCEEDED"

CrawlInv == CrawlTyped /\ Walked /\ BeforePage /\ OnPage /\ Ended /\ Reported

LEMMA VisitedCount ==
    ASSUME CrawlTyped
    PROVE  /\ IsFiniteSet(visited) /\ Cardinality(visited) \in Nat
           /\ Cardinality(visited) <= Cardinality(PageNos) /\ Cardinality(PageNos) \in Nat
           /\ visited # {} => Cardinality(visited) - 1 \in Nat
           /\ \A p \in PageNos \ visited : Cardinality(visited \cup {p}) = Cardinality(visited) + 1
  <1>1. IsFiniteSet(visited) /\ Cardinality(visited) <= Cardinality(PageNos)
    BY CatalogAssumption, FS_Subset DEF CatalogAssumption, CrawlTyped
  <1>2. Cardinality(visited) \in Nat /\ Cardinality(PageNos) \in Nat
    BY <1>1, CatalogAssumption, FS_CardinalityType DEF CatalogAssumption
  <1>3. visited # {} => Cardinality(visited) # 0
    BY <1>1, FS_EmptySet
  <1>4. \A p \in PageNos \ visited : Cardinality(visited \cup {p}) = Cardinality(visited) + 1
    BY <1>1, FS_AddElement
  <1> QED BY <1>1, <1>2, <1>3, <1>4

LEMMA CrawlInvInit == CrawlInit => CrawlInv
  <1> SUFFICES ASSUME CrawlInit PROVE CrawlInv
    OBVIOUS
  <1>1. CrawlTyped
    BY CatalogAssumption DEF CatalogAssumption, CrawlInit, CrawlTyped
  <1>2. Cardinality(visited) = 0 /\ seen = 0 /\ visited = {}
    BY FS_EmptySet DEF CrawlInit
  <1>3. WalkOf(listing)[0] = {1}
    BY <1>1, WalkSteps DEF CrawlTyped
  <1>4. ItemsOf(visited) = {}
    BY <1>2 DEF ItemsOf
  <1> QED BY <1>1, <1>2, <1>3, <1>4
          DEF CrawlInit, CrawlInv, Walked, BeforePage, OnPage, Ended, Reported

(* An error but the limit's ends it, and asserts nothing.                  *)
LEMMA FailKeeps ==
    ASSUME CrawlInv, crawl \in {"top", "loaded"}, NEW code, Fail(code), code # "none",
           Live => code # "PAGE_LIMIT_EXCEEDED",
           UNCHANGED <<collector, listing, at, seen, visited, records, report>>
    PROVE  CrawlInv'
  <1>1. crawl' = (IF Fixture THEN "done" ELSE "report") /\ failure' = code
    BY DEF Fail
  <1>2. ItemsOf(visited)' = ItemsOf(visited) /\ Live' = Live /\ Fixture' = Fixture
    BY DEF ItemsOf, Live, Fixture
  <1>3. report = "none"
    BY DEF CrawlInv, Reported
  <1>4. CrawlTyped' /\ Walked'
    BY <1>1 DEF CrawlInv, CrawlTyped, Walked, Live, GoesRound
  <1>5. BeforePage' /\ OnPage'
    BY <1>1 DEF BeforePage, OnPage
  <1>6. Ended'
    BY <1>1, <1>2 DEF CrawlInv, Ended
  <1>7. Reported'
    BY <1>1, <1>2, <1>3 DEF Reported
  <1> QED BY <1>4, <1>5, <1>6, <1>7 DEF CrawlInv

(* At the limit there is more to read.                                     *)
LEMMA LimitKeeps ==
    ASSUME CrawlInv, crawl \in {"top", "loaded"}, Fail("PAGE_LIMIT_EXCEEDED"), Live, seen = MaxPages,
           UNCHANGED <<collector, listing, at, seen, visited, file, report>>, 1 \in visited,
           records' = ItemsOf(visited),
           NEW q \in PageNos, q \in WalkOf(listing)[Cardinality(visited)],
           \A p \in visited : listing[p].next \in visited \cup {q}
    PROVE  CrawlInv'
  <1>1. crawl' = "report" /\ failure' = "PAGE_LIMIT_EXCEEDED" /\ ~Fixture
    BY DEF Fail, Live, Fixture
  <1>2. ItemsOf(visited)' = ItemsOf(visited) /\ Live' = Live /\ Fixture' = Fixture
    BY DEF ItemsOf, Live, Fixture
  <1>3. report = "none" /\ ~file
    BY DEF CrawlInv, Reported, Ended
  <1>4. CrawlTyped' /\ Walked'
    BY <1>1 DEF CrawlInv, CrawlTyped, Walked, Live, GoesRound
  <1>5. BeforePage' /\ OnPage'
    BY <1>1 DEF BeforePage, OnPage
  <1>6. MoreToRead'
    BY <1>2, <1>3 DEF MoreToRead
  <1>7. Ended'
    BY <1>1, <1>2, <1>6 DEF CrawlInv, Ended
  <1>8. Reported'
    BY <1>1, <1>2, <1>3 DEF Reported
  <1> QED BY <1>4, <1>5, <1>7, <1>8 DEF CrawlInv

LEMMA StopAtTopKeeps ==
    ASSUME CrawlInv, StopAtTop
    PROVE  CrawlInv'
  <1> DEFINE code == IF Stopped THEN "STOPPED" ELSE IF Revisits THEN "PAGINATION_LOOP"
                     ELSE "PAGE_LIMIT_EXCEEDED"
  <1>1. /\ crawl = "top" /\ Fail(code) /\ (Stopped \/ Revisits \/ AtLimit) /\ code # "none"
        /\ UNCHANGED <<collector, listing, at, seen, visited, records, file, report>>
    BY DEF StopAtTop, siteVars
  <1>2. CASE Live /\ code = "PAGE_LIMIT_EXCEEDED"
    <2>1. seen = MaxPages
      BY <1>1, <1>2, CatalogAssumption DEF AtLimit, CrawlInv, CrawlTyped, CatalogAssumption
    <2>2. visited # {}
      BY <2>1, FS_EmptySet, CatalogAssumption DEF CrawlInv, Walked, GoesRound, CatalogAssumption
    <2>3. /\ 1 \in visited /\ at \in PageNos /\ at \in WalkOf(listing)[Cardinality(visited)]
          /\ \A p \in visited : listing[p].next \in visited \cup {at}
          /\ records = ItemsOf(visited)
      BY <1>1, <2>2 DEF CrawlInv, CrawlTyped, BeforePage
    <2>4. Fail("PAGE_LIMIT_EXCEEDED") /\ crawl \in {"top", "loaded"}
      BY <1>1, <1>2
    <2> QED BY <1>1, <1>2, <2>1, <2>3, <2>4, LimitKeeps
  <1>3. CASE ~ (Live /\ code = "PAGE_LIMIT_EXCEEDED")
    <2> HIDE DEF code
    <2> QED BY <1>1, <1>3, FailKeeps
  <1> QED BY <1>2, <1>3

LEMMA GotoKeeps ==
    ASSUME CrawlInv, Goto
    PROVE  CrawlInv'
  <1> USE DEF CrawlInv
  <1> DEFINE W == WalkOf(listing)
             c == Cardinality(visited)
  <1>1. /\ crawl = "top" /\ crawl' = "loaded" /\ ~Revisits /\ ~AtLimit
        /\ seen' = seen + 1 /\ visited' = visited \cup {at}
        /\ UNCHANGED <<collector, listing, at, records, failure, file, report>>
    BY DEF Goto, siteVars
  <1>2. Live' = Live /\ Fixture' = Fixture /\ (\A p : Fine(p)' = Fine(p))
    BY <1>1 DEF Live, Fixture, Fine
  <1>3. CrawlTyped'
    BY <1>1, CatalogAssumption DEF CrawlTyped, AtLimit, CatalogAssumption
  <1>4. c \in Nat /\ \A p \in PageNos \ visited : Cardinality(visited \cup {p}) = c + 1
    BY VisitedCount
  <1>5. ASSUME at \in visited PROVE Walked'
    <2>1. visited' = visited /\ GoesRound /\ Live
      <3>1. \A p \in visited : listing[p].next \in visited
        BY <1>1, <1>5 DEF BeforePage
      <3>2. Live
        BY <1>1, <1>5 DEF Revisits, Recorded, Live, CrawlTyped, BeforePage, Fixture
      <3> QED BY <1>1, <1>5, <3>1, <3>2 DEF GoesRound
    <2>2. Live' /\ GoesRound'
      BY <1>1, <1>2, <2>1 DEF GoesRound
    <2>3. visited' \subseteq WalkOf(listing')[Cardinality(visited') - 1]
      BY <1>1, <2>1 DEF Walked
    <2> QED BY <2>2, <2>3 DEF Walked
  <1>6. ASSUME at \notin visited PROVE Walked'
    <2>1. Cardinality(visited)' = c + 1
      BY <1>1, <1>4, <1>6 DEF CrawlTyped
    <2>2. visited' \subseteq W[c]
      <3>1. at \in W[c]
        BY <1>1 DEF BeforePage
      <3>2. visited \subseteq W[c]
        <4>1. CASE visited = {}
          BY <4>1
        <4>2. CASE visited # {}
          <5>1. c - 1 \in Nat /\ (c - 1) + 1 = c
            BY <4>2, VisitedCount
          <5>2. W[c - 1] \subseteq W[c]
            BY <5>1, <1>4, WalkGrows DEF CrawlTyped
          <5> QED BY <5>2 DEF Walked
        <4> QED BY <4>1, <4>2
      <3> QED BY <1>1, <3>1, <3>2
    <2>3. c = seen
      BY <1>6 DEF Walked, GoesRound
    <2>4. (c + 1) - 1 = c /\ Cardinality(visited') = seen'
      BY <1>1, <1>4, <2>1, <2>3
    <2>5. visited' \subseteq WalkOf(listing')[Cardinality(visited') - 1]
      BY <1>1, <2>1, <2>2, <2>4
    <2> QED BY <2>4, <2>5 DEF Walked
  <1>7. Walked'
    BY <1>5, <1>6
  <1>8. OnPage'
    <2>1. ItemsOf(visited)' = records \cup listing[at].items
      BY <1>1 DEF BeforePage, ItemsOf
    <2> QED BY <1>1, <1>2, <2>1 DEF OnPage, BeforePage, ItemsOf
  <1>9. ItemsOf(visited) \subseteq ItemsOf(visited)'
    BY <1>1 DEF ItemsOf
  <1> QED BY <1>1, <1>2, <1>3, <1>7, <1>8, <1>9 DEF BeforePage, Ended, Reported

LEMMA ReadPageKeeps ==
    ASSUME CrawlInv, ReadPage
    PROVE  CrawlInv'
  <1> USE DEF CrawlInv
  <1> DEFINE W == WalkOf(listing)
             c == Cardinality(visited)
             next == listing[at].next
  <1>1. /\ crawl = "loaded" /\ ~TurnedDown
        /\ records' = records \cup listing[at].items
        /\ UNCHANGED <<collector, listing, seen, visited, file, report>>
    BY DEF ReadPage, siteVars, Here
  <1>2. Live' = Live /\ Fixture' = Fixture /\ (\A p : Fine(p)' = Fine(p))
        /\ ItemsOf(visited)' = ItemsOf(visited)
    BY <1>1 DEF Live, Fixture, Fine, ItemsOf
  <1>3. /\ {1, at} \subseteq visited /\ records' = ItemsOf(visited)
        /\ \A p \in visited \ {at} : listing[p].next \in visited
        /\ \A p \in visited : Fine(p)
    <2>1. Fine(at)
      BY <1>1 DEF TurnedDown, Fine, Here, Fixture
    <2> QED BY <1>1, <2>1 DEF OnPage
  <1>4. next \in PageNos \cup {LastPage} /\ report = "none" /\ failure = "none"
    BY <1>1, CatalogAssumption DEF CrawlTyped, CatalogAssumption, Reported, Ended
  <1>5. ASSUME next # LastPage PROVE next \in PageNos /\ next \in W[c]
    <2>1. c - 1 \in Nat /\ (c - 1) + 1 = c
      BY <1>3, VisitedCount
    <2>2. at \in W[c - 1]
      BY <1>3 DEF Walked
    <2> QED BY <1>4, <1>5, <2>1, <2>2, WalkSteps DEF CrawlTyped
  <1>6. CASE Ends
    <2>1. crawl' = "write" /\ UNCHANGED <<at, failure>>
      BY <1>6 DEF ReadPage
    <2>2. CrawlTyped' /\ Walked'
      BY <1>1, <2>1 DEF CrawlTyped, Walked, Live, GoesRound
    <2>3. AllRead'
      BY <1>1, <1>2, <1>3, <1>6, <2>1 DEF AllRead, Ends, Here, OnPage
    <2> QED BY <1>1, <1>2, <1>3, <1>4, <2>1, <2>2, <2>3 DEF BeforePage, OnPage, Ended, Reported
  <1>7. CASE ~Ends /\ Live /\ AtLimit
    <2>1. Fail("PAGE_LIMIT_EXCEEDED") /\ at' = at
      BY <1>7 DEF ReadPage
    <2>2. seen = MaxPages
      BY <1>7, CatalogAssumption DEF AtLimit, CrawlTyped, CatalogAssumption
    <2>3. next # LastPage
      BY <1>7 DEF Ends, Here
    <2>4. \A p \in visited : listing[p].next \in visited \cup {next}
      BY <1>3
    <2> HIDE DEF next
    <2>5. /\ crawl \in {"top", "loaded"} /\ next \in PageNos /\ next \in WalkOf(listing)[Cardinality(visited)]
          /\ 1 \in visited /\ records' = ItemsOf(visited)
          /\ UNCHANGED <<collector, listing, at, seen, visited, file, report>>
      BY <1>1, <1>3, <1>5, <2>1, <2>3
    <2> QED BY <1>7, <2>1, <2>2, <2>4, <2>5, LimitKeeps
  <1>8. CASE ~Ends /\ ~ (Live /\ AtLimit)
    <2>1. crawl' = "top" /\ at' = next /\ failure' = failure
      BY <1>8 DEF ReadPage, Here
    <2>2. next # LastPage /\ ~Fixture
      BY <1>8 DEF Ends, Here
    <2>3. CrawlTyped'
      BY <1>1, <1>5, <2>1, <2>2 DEF CrawlTyped
    <2>4. Walked'
      <3>1. Live /\ GoesRound => Live' /\ GoesRound'
        BY <1>1, <1>2, <2>1 DEF GoesRound
      <3> QED BY <1>1, <3>1 DEF Walked
    <2>5. BeforePage'
      BY <1>1, <1>2, <1>3, <1>5, <2>1, <2>2 DEF BeforePage
    <2> QED BY <1>1, <1>2, <1>3, <1>4, <2>1, <2>3, <2>4, <2>5 DEF OnPage, Ended, Reported
  <1> QED BY <1>6, <1>7, <1>8

LEMMA CrawlInvStep == CrawlInv /\ [CrawlNext]_crawlVars => CrawlInv'
  <1> SUFFICES ASSUME CrawlInv, [CrawlNext]_crawlVars PROVE CrawlInv'
    OBVIOUS
  <1>1. CASE Signal \/ UNCHANGED crawlVars
    <2>1. UNCHANGED <<collector, listing, at, seen, visited, records, crawl, failure, file, report>>
      BY <1>1 DEF Signal, crawlVars, siteVars
    <2> QED BY <2>1 DEF CrawlInv, CrawlTyped, Walked, BeforePage, OnPage, Ended, Reported, AllRead,
                       MoreToRead, ItemsOf, Fine, GoesRound, Live, Fixture
  <1>2. CASE StopAtTop
    BY <1>2, StopAtTopKeeps
  <1>3. CASE Goto
    BY <1>3, GotoKeeps
  <1>4. CASE BrowserFails
    <2>1. UNCHANGED <<collector, listing, at, seen, visited, records, report>>
      BY <1>4 DEF BrowserFails, siteVars
    <2> QED BY <1>4, <2>1, FailKeeps DEF BrowserFails
  <1>5. CASE RefusePage
    <2>1. /\ crawl \in {"top", "loaded"}
          /\ Fail(IF TurnedDown THEN "PAGE_REFUSED" ELSE "INVALID_PRODUCT")
          /\ UNCHANGED <<collector, listing, at, seen, visited, records, report>>
      BY <1>5 DEF RefusePage, siteVars
    <2> QED BY <2>1, FailKeeps
  <1>6. CASE ReadPage
    BY <1>6, ReadPageKeeps
  <1>7. CASE WriteProducts
    <2>1. /\ crawl = "write" /\ crawl' = (IF Fixture THEN "done" ELSE "report")
          /\ UNCHANGED <<collector, listing, at, seen, visited, records, report>>
          /\ \/ failure' \in {"NO_PRODUCTS", "FILE_ERROR"} /\ file' = file
             \/ failure' = failure /\ file' = TRUE
      BY <1>7 DEF WriteProducts, siteVars
    <2>2. AllRead' = AllRead
      BY <2>1 DEF AllRead, ItemsOf, Fine, Fixture
    <2>3. ItemsOf(visited)' = ItemsOf(visited) /\ Live' = Live /\ Fixture' = Fixture
      BY <2>1 DEF ItemsOf, Live, Fixture
    <2>4. AllRead /\ failure = "none" /\ report = "none"
      BY <2>1 DEF CrawlInv, Ended, Reported
    <2>5. CrawlTyped' /\ Walked'
      BY <2>1 DEF CrawlInv, CrawlTyped, Walked, Live, GoesRound
    <2>6. BeforePage' /\ OnPage'
      BY <2>1 DEF BeforePage, OnPage
    <2>7. Ended'
      BY <2>1, <2>2, <2>3, <2>4 DEF CrawlInv, Ended
    <2>8. Reported'
      BY <2>1, <2>3, <2>4 DEF Reported
    <2> QED BY <2>5, <2>6, <2>7, <2>8 DEF CrawlInv
  <1>8. CASE WriteReport
    <2>1. /\ crawl = "report" /\ crawl' = "done"
          /\ UNCHANGED <<collector, listing, at, seen, visited, records, file>>
          /\ \/ /\ report' = IF failure = "none" THEN "succeeded"
                             ELSE IF Live /\ failure = "PAGE_LIMIT_EXCEEDED" THEN "partial" ELSE "failed"
                /\ failure' = failure
             \/ failure' = (IF failure = "none" THEN "FILE_ERROR" ELSE failure) /\ report' = report
      BY <1>8 DEF WriteReport, siteVars
    <2>2. AllRead' = AllRead /\ MoreToRead' = MoreToRead
      BY <2>1 DEF AllRead, MoreToRead, ItemsOf, Fine, Fixture
    <2>3. ItemsOf(visited)' = ItemsOf(visited) /\ Live' = Live /\ Fixture' = Fixture
      BY <2>1 DEF ItemsOf, Live, Fixture
    <2>4. ~Fixture /\ report = "none"
      BY <2>1 DEF CrawlInv, Reported
    <2>5. CrawlTyped' /\ Walked'
      BY <2>1 DEF CrawlInv, CrawlTyped, Walked, Live, GoesRound
    <2>6. BeforePage' /\ OnPage'
      BY <2>1 DEF BeforePage, OnPage
    <2>7. Ended'
      BY <2>1, <2>2, <2>3 DEF CrawlInv, Ended
    <2>8. Reported'
      BY <2>1, <2>3, <2>4 DEF Reported
    <2> QED BY <2>5, <2>6, <2>7, <2>8 DEF CrawlInv
  <1> QED BY <1>1, <1>2, <1>3, <1>4, <1>5, <1>6, <1>7, <1>8 DEF CrawlNext

LEMMA VisitedIsWhole ==
    ASSUME CrawlInv, AllRead
    PROVE  Whole = visited /\ seen = Cardinality(visited)
  <1> USE DEF CrawlInv
  <1>1. CASE Fixture
    BY <1>1 DEF Whole, AllRead, Walked, Live, Fixture
  <1>2. CASE ~Fixture
    <2> DEFINE W == WalkOf(listing)
               n == Cardinality(PageNos)
               c == Cardinality(visited)
    <2>1. n \in Nat /\ c \in Nat /\ c - 1 \in Nat /\ c - 1 <= n
      BY VisitedCount DEF AllRead
    <2>2. W[n] \subseteq visited
      <3>1. \A p \in visited : listing[p].next \in visited \cup {LastPage}
        BY <1>2 DEF AllRead
      <3> QED BY <2>1, <3>1, WalkStays DEF CrawlTyped, AllRead
    <2>3. visited \subseteq W[n]
      <3>1. W[c - 1] \subseteq W[n]
        BY <2>1, WalkGrows DEF CrawlTyped
      <3> QED BY <3>1 DEF Walked
    <2>4. ~GoesRound
      BY <1>2, CatalogAssumption DEF GoesRound, AllRead, CrawlTyped, CatalogAssumption
    <2>5. seen = c
      BY <2>4 DEF Walked
    <2> QED BY <1>2, <2>2, <2>3, <2>5, PagesAreWalked DEF Whole
  <1> QED BY <1>1, <1>2

LEMMA LimitIsReal ==
    ASSUME CrawlInv, MoreToRead, Live
    PROVE  /\ Cardinality(Whole) > MaxPages \/ \A p \in Whole : listing[p].next # LastPage
           /\ records \subseteq UNION {listing[p].items : p \in Whole}
  <1> USE DEF CrawlInv
  <1> DEFINE W == WalkOf(listing)
             n == Cardinality(PageNos)
             c == Cardinality(visited)
  <1>1. PICK q \in PageNos : q \in W[c] /\ \A p \in visited : listing[p].next \in visited \cup {q}
    BY DEF MoreToRead
  <1>2. n \in Nat /\ c \in Nat /\ c - 1 \in Nat /\ c - 1 <= n /\ c <= n
    BY VisitedCount DEF MoreToRead
  <1>3. Whole = W[n]
    BY PagesAreWalked DEF Whole, Live, Fixture
  <1>4. visited \cup {q} \subseteq Whole
    <2>1. W[c - 1] \subseteq W[n] /\ W[c] \subseteq W[n]
      BY <1>2, WalkGrows DEF CrawlTyped
    <2> QED BY <1>1, <1>3, <2>1 DEF Walked
  <1>5. records \subseteq UNION {listing[p].items : p \in Whole}
    BY <1>4 DEF MoreToRead, ItemsOf
  <1>6. CASE \A p \in visited : listing[p].next \in visited
    <2>1. W[n] \subseteq visited
      BY <1>2, <1>6, WalkStays DEF CrawlTyped, MoreToRead
    <2>2. \A p \in Whole : listing[p].next # LastPage
      BY <1>3, <1>6, <2>1, CatalogAssumption DEF CrawlTyped, CatalogAssumption
    <2> QED BY <1>5, <2>2
  <1>7. CASE ~ \A p \in visited : listing[p].next \in visited
    <2>1. q \notin visited /\ c = MaxPages
      BY <1>1, <1>7 DEF Walked, GoesRound, MoreToRead
    <2>2. Cardinality(visited \cup {q}) = c + 1
      BY <2>1, VisitedCount
    <2>3. Whole \subseteq PageNos /\ IsFiniteSet(Whole)
      <3>1. Whole \subseteq PageNos
        BY <1>2, <1>3, WalkSteps DEF CrawlTyped
      <3> QED BY <3>1, CatalogAssumption, FS_Subset DEF CatalogAssumption
    <2>4. Cardinality(visited \cup {q}) <= Cardinality(Whole) /\ Cardinality(Whole) \in Nat
      BY <1>4, <2>3, FS_Subset, FS_CardinalityType
    <2> QED BY <1>2, <1>5, <2>1, <2>2, <2>4
  <1> QED BY <1>6, <1>7

(* A collection that returns records has read the whole listing: every     *)
(* page there is was open and within the limits, and was visited once; each*)
(* product on it was recorded, the file holds them and the report says so. *)
(* One that says it is partial read as many pages as it may, and there are *)
(* more, or they repeat for ever: app/catalog_live.py, catalog_replay.py   *)
(* and crawler.py, for any listings and limits.                            *)
THEOREM CollectionsAreWhole == CrawlSpec => []CollectedIsWhole
  <1>1. CrawlInv => CollectedIsWhole
    <2> SUFFICES ASSUME CrawlInv PROVE CollectedIsWhole
      OBVIOUS
    <2>1. ASSUME crawl = "done", failure = "none"
          PROVE  /\ records = UNION {listing[p].items : p \in Whole}
                 /\ \A p \in Whole : listing[p].gate = "open" \/ Fixture
                 /\ \A p \in Whole : listing[p].gate # "unreadable"
                 /\ seen = Cardinality(Whole) /\ seen <= MaxPages
                 /\ file /\ (report = "succeeded" \/ Fixture)
      <3>1. AllRead /\ file /\ (report = "succeeded" \/ Fixture)
        BY <2>1 DEF CrawlInv, Ended, Reported
      <3>2. Whole = visited /\ seen = Cardinality(visited)
        BY <3>1, VisitedIsWhole
      <3>3. seen <= MaxPages
        BY CatalogAssumption DEF CrawlInv, CrawlTyped, CatalogAssumption
      <3> QED BY <3>1, <3>2, <3>3 DEF AllRead, Fine, ItemsOf
    <2>2. report = "succeeded" => failure = "none" /\ ~Fixture
      BY DEF CrawlInv, Reported
    <2>3. ASSUME report = "partial"
          PROVE  /\ seen = MaxPages /\ ~file
                 /\ Cardinality(Whole) > MaxPages \/ \A p \in Whole : listing[p].next # LastPage
                 /\ records \subseteq UNION {listing[p].items : p \in Whole}
      <3>1. MoreToRead /\ Live
        BY <2>3 DEF CrawlInv, Reported, Ended
      <3> QED BY <3>1, LimitIsReal DEF MoreToRead
    <2> QED BY <2>1, <2>2, <2>3 DEF CollectedIsWhole
  <1> QED BY <1>1, CrawlInvInit, CrawlInvStep, PTL DEF CrawlSpec
-----------------------------------------------------------------------------
(* Documents.  Chunks that were committed stay; without a mishap a job has *)
(* one attempt, which tells the version before it is over.  Where uploads  *)
(* come one at a time, what one has found is still so when it inserts.     *)

(* A nonempty finite set of numbers has a greatest one.                    *)
LEMMA GreatestNumber ==
    ASSUME NEW S \in SUBSET Nat, IsFiniteSet(S), S # {}
    PROVE  \E m \in S : \A n \in S : n <= m
  <1> DEFINE B == {T \in SUBSET S : T # {} /\ ~ \E m \in T : \A n \in T : n <= m}
  <1>1. ASSUME B # {} PROVE FALSE
    <2>1. PICK T \in B : \A U \in B : U \subseteq T => U = T
      <3> DEFINE All == S
      <3>1. B \subseteq SUBSET All /\ IsFiniteSet(All) /\ B # {}
        BY <1>1
      <3> HIDE DEF All, B
      <3> QED BY <3>1, MinimalSubset
    <2>2. PICK x \in T : TRUE
      OBVIOUS
    <2>3. T \ {x} # {}
      BY <2>1, <2>2
    <2>4. T \ {x} \in SUBSET S /\ T \ {x} \notin B
      BY <2>1, <2>2
    <2>5. PICK m \in T \ {x} : \A n \in T \ {x} : n <= m
      BY <2>3, <2>4
    <2>6. x \in Nat /\ m \in Nat
      OBVIOUS
    <2>7. CASE m <= x
      <3>1. \A n \in T : n <= x
        BY <2>5, <2>6, <2>7
      <3> QED BY <3>1
    <2>8. CASE x <= m
      BY <2>5, <2>8
    <2> QED BY <2>6, <2>7, <2>8
  <1>2. S \notin B
    BY <1>1
  <1> QED BY <1>2

LEMMA RowChanges ==
    ASSUME NEW S, NEW s \in Seq(S), NEW i \in DOMAIN s, NEW x \in S, NEW t, t = [s EXCEPT ![i] = x]
    PROVE  /\ t \in Seq(S) /\ Len(t) = Len(s) /\ DOMAIN t = DOMAIN s /\ t[i] = x
           /\ \A j \in DOMAIN s : j # i => t[j] = s[j]
  <1>1. t \in [1..Len(s) -> S] /\ Len(s) \in Nat
    OBVIOUS
  <1>2. t \in Seq(S)
    BY <1>1
  <1>3. Len(t) = Len(s)
    BY <1>1, <1>2
  <1> QED BY <1>1, <1>2, <1>3

LEMMA RowAdded ==
    ASSUME NEW S, NEW s \in Seq(S), NEW x \in S, NEW t, t = Append(s, x)
    PROVE  /\ t \in Seq(S) /\ Len(t) = Len(s) + 1 /\ DOMAIN t = DOMAIN s \cup {Len(s) + 1}
           /\ Len(s) + 1 \notin DOMAIN s /\ t[Len(s) + 1] = x
           /\ \A j \in DOMAIN s : t[j] = s[j]
  OBVIOUS

DocumentRow == [name : FileNames, first : Uploads]
VersionRow == [doc : Nat, content : Uploads, no : Nat, status : {"parsing", "ready", "failed"}]
JobState == {"none", "queued", "running", "succeeded", "failed"}
UploadState ==
    {NoUpload} \cup [step : {"new", "lookup"}, name : FileNames, content : Uploads, doc : Nat]
    \cup [step : {"insert"}, doc : Nat, content : Uploads, no : Nat]
    \cup [step : {"enqueue"}, version : Nat]
AttemptState == {NoAttempt} \cup [step : {"parse", "ready", "index"}, version : Nat]

DocTyped ==
    /\ documents \in Seq(DocumentRow) /\ versions \in Seq(VersionRow)
    /\ pieces \in Seq(SUBSET Nat) /\ jobs \in Seq(JobState) /\ tries \in Seq(Nat)
    /\ Len(pieces) = Len(versions) /\ Len(jobs) = Len(versions) /\ Len(tries) = Len(versions)
    /\ indexing \subseteq DOMAIN versions /\ mishaps \in Nat
    /\ sender \in [Senders -> UploadState] /\ attempt \in [Attempts -> AttemptState]

(* What a row, an upload or an attempt names is there; who has still to    *)
(* enqueue the job of a version is the only one to.                        *)
Pointed ==
    /\ \A v \in DOMAIN versions : versions[v].doc \in DOMAIN documents
    /\ \A c \in Senders :
          /\ sender[c].step \in {"lookup", "insert"} => sender[c].doc \in DOMAIN documents
          /\ sender[c].step = "enqueue" =>
                /\ sender[c].version \in DOMAIN versions /\ jobs[sender[c].version] = "none"
                /\ \A d \in Senders \ {c} : sender[d].step = "enqueue" => sender[d].version # sender[c].version
    /\ \A a \in Attempts : attempt[a].step # "idle" =>
          attempt[a].version \in DOMAIN versions /\ jobs[attempt[a].version] # "none"

(* Chunks are committed all at once, before the version is ready.          *)
Chunked ==
    /\ \A v \in DOMAIN versions :
          /\ pieces[v] # {} => /\ pieces[v] = 1..Pieces[versions[v].content]
                               /\ versions[v].content \notin Unparseable
          /\ versions[v].status = "ready" => pieces[v] # {}
          /\ v \in indexing \/ jobs[v] = "succeeded" => versions[v].status = "ready"
    /\ \A a \in Attempts :
          /\ attempt[a].step \in {"ready", "index"} => pieces[attempt[a].version] # {}
          /\ attempt[a].step = "index" => versions[attempt[a].version].status = "ready"

(* Without a mishap: one attempt for each job that runs, before which there*)
(* are no chunks.                                                          *)
CalmJobs ==
    mishaps = 0 =>
        /\ \A a \in Attempts : attempt[a].step # "idle" =>
              /\ jobs[attempt[a].version] = "running"
              /\ \A b \in Attempts \ {a} : attempt[b].step # "idle" => attempt[b].version # attempt[a].version
              /\ attempt[a].step = "parse" => pieces[attempt[a].version] = {}
        /\ \A v \in DOMAIN versions :
              /\ pieces[v] # {} => jobs[v] \in {"running", "succeeded"}
              /\ jobs[v] = "failed" => \/ versions[v].status = "failed"
                                       \/ versions[v].content \in Repetitive
              /\ jobs[v] = "none" => \E c \in Senders : sender[c] = [step |-> "enqueue", version |-> v]

NumberedFrom(d) == {versions[v].no : v \in VersionsOf(d)} = 1..Cardinality(VersionsOf(d))

(* One upload at a time: the document it is about to begin is not there,   *)
(* the number it has drawn is the next.                                    *)
Lines ==
    single =>
        /\ \A c, d \in Senders : sender[c].step # "idle" /\ sender[d].step # "idle" => c = d
        /\ \A d, e \in DOMAIN documents : documents[d].name = documents[e].name => d = e
        /\ \A d \in DOMAIN documents : NumberedFrom(d)
        /\ \A c \in Senders :
              /\ sender[c].step = "new" => \A d \in DOMAIN documents : documents[d].name # sender[c].name
              /\ sender[c].step = "insert" => sender[c].no = 1 + Cardinality(VersionsOf(sender[c].doc))

DocInv == DocTyped /\ Pointed /\ Chunked /\ CalmJobs /\ Lines

LEMMA UploadForms ==
    ASSUME NEW u \in UploadState
    PROVE  /\ u.step \in {"idle", "new", "lookup", "insert", "enqueue"}
           /\ u.step \in {"new", "lookup"} => u.name \in FileNames /\ u.content \in Uploads /\ u.doc \in Nat
           /\ u.step = "insert" => u.doc \in Nat /\ u.content \in Uploads /\ u.no \in Nat
           /\ u.step = "enqueue" => u.version \in Nat /\ u = [step |-> "enqueue", version |-> u.version]
  <1>1. CASE u = NoUpload
    BY <1>1 DEF NoUpload
  <1>2. CASE u \in [step : {"new", "lookup"}, name : FileNames, content : Uploads, doc : Nat]
    BY <1>2
  <1>3. CASE u \in [step : {"insert"}, doc : Nat, content : Uploads, no : Nat]
    BY <1>3
  <1>4. CASE u \in [step : {"enqueue"}, version : Nat]
    BY <1>4
  <1> QED BY <1>1, <1>2, <1>3, <1>4 DEF UploadState

LEMMA AttemptForms ==
    ASSUME NEW u \in AttemptState
    PROVE  /\ u.step \in {"idle", "parse", "ready", "index"}
           /\ u.step # "idle" => /\ u.version \in Nat
                                 /\ \A s \in {"parse", "ready", "index"} :
                                       /\ [u EXCEPT !.step = s] \in AttemptState
                                       /\ [u EXCEPT !.step = s].step = s
                                       /\ [u EXCEPT !.step = s].version = u.version
  <1>1. CASE u = NoAttempt
    BY <1>1 DEF NoAttempt
  <1>2. CASE u \in [step : {"parse", "ready", "index"}, version : Nat]
    BY <1>2 DEF AttemptState
  <1> QED BY <1>1, <1>2 DEF AttemptState

LEMMA DocDomains ==
    ASSUME DocTyped
    PROVE  /\ DOMAIN versions = 1..Len(versions) /\ Len(versions) \in Nat
           /\ DOMAIN pieces = DOMAIN versions /\ DOMAIN jobs = DOMAIN versions
           /\ DOMAIN tries = DOMAIN versions
           /\ DOMAIN documents = 1..Len(documents) /\ Len(documents) \in Nat
           /\ \A v \in DOMAIN versions : versions[v] \in VersionRow /\ pieces[v] \in SUBSET Nat
                                         /\ jobs[v] \in JobState /\ tries[v] \in Nat
           /\ \A d \in DOMAIN documents : documents[d] \in DocumentRow
  BY DEF DocTyped

LEMMA VersionsAreFinite ==
    ASSUME DocTyped, NEW d
    PROVE  IsFiniteSet(VersionsOf(d)) /\ Cardinality(VersionsOf(d)) \in Nat
  <1>1. IsFiniteSet(DOMAIN versions)
    BY DocDomains, FS_Interval
  <1>2. VersionsOf(d) \subseteq DOMAIN versions
    BY DEF VersionsOf
  <1> QED BY <1>1, <1>2, FS_Subset, FS_CardinalityType

LEMMA DocInvInit == DocumentsInit => DocInv
  <1> SUFFICES ASSUME DocumentsInit PROVE DocInv
    OBVIOUS
  <1>1. documents = << >> /\ versions = << >> /\ pieces = << >> /\ jobs = << >> /\ tries = << >>
        /\ indexing = {} /\ mishaps = 0
        /\ sender = [c \in Senders |-> NoUpload] /\ attempt = [a \in Attempts |-> NoAttempt]
    BY DEF DocumentsInit
  <1>2. DocTyped
    BY <1>1 DEF DocTyped, UploadState, AttemptState
  <1>3. NoUpload.step = "idle" /\ NoAttempt.step = "idle"
    BY DEF NoUpload, NoAttempt
  <1>4. DOMAIN versions = {} /\ DOMAIN documents = {}
    BY <1>1
  <1> QED BY <1>1, <1>2, <1>3, <1>4 DEF DocInv, Pointed, Chunked, CalmJobs, Lines

(* An upload goes on, and writes nothing.                                  *)
LEMMA UploadGoesOn ==
    ASSUME DocInv, NEW c \in Senders, NEW u \in UploadState, sender' = [sender EXCEPT ![c] = u],
           UNCHANGED <<single, documents, versions, pieces, jobs, indexing, tries, mishaps, attempt>>,
           sender[c].step # "enqueue", u.step # "enqueue",
           u.step \in {"lookup", "insert"} => u.doc \in DOMAIN documents,
           single /\ u.step # "idle" => \A d \in Senders \ {c} : sender[d].step = "idle",
           single /\ u.step = "new" => \A d \in DOMAIN documents : documents[d].name # u.name,
           single /\ u.step = "insert" => u.no = 1 + Cardinality(VersionsOf(u.doc))
    PROVE  DocInv'
  <1> USE DEF DocInv
  <1>1. sender'[c] = u /\ \A d \in Senders \ {c} : sender'[d] = sender[d]
    BY DEF DocTyped
  <1>2. DocTyped'
    BY DEF DocTyped
  <1>3. Pointed'
    BY <1>1 DEF Pointed
  <1>4. Chunked'
    BY DEF Chunked
  <1>5. CalmJobs'
    <2> SUFFICES ASSUME mishaps = 0 PROVE CalmJobs'
      BY DEF CalmJobs
    <2>1. ASSUME NEW v \in DOMAIN versions, jobs[v] = "none"
          PROVE  \E d \in Senders : sender'[d] = [step |-> "enqueue", version |-> v]
      <3>1. PICK d \in Senders : sender[d] = [step |-> "enqueue", version |-> v]
        BY <2>1 DEF CalmJobs
      <3> QED BY <1>1, <3>1
    <2> QED BY <2>1 DEF CalmJobs
  <1>6. Lines'
    <2> SUFFICES ASSUME single PROVE Lines'
      BY DEF Lines
    <2>1. \A d : VersionsOf(d)' = VersionsOf(d)
      BY DEF VersionsOf
    <2>2. \A d : NumberedFrom(d)' = NumberedFrom(d)
      BY <2>1 DEF NumberedFrom
    <2> QED BY <1>1, <2>1, <2>2 DEF Lines
  <1> QED BY <1>2, <1>3, <1>4, <1>5, <1>6

LEMMA StartUploadKeeps ==
    ASSUME DocInv, NEW c \in Senders, StartUpload(c)
    PROVE  DocInv'
  <1>0. PICK name \in FileNames, content \in Uploads :
             \E d \in {0} \cup {e \in DOMAIN documents : documents[e].name = name} :
               LET found == IF d # 0 THEN {d} ELSE Lineage(name, content)
               IN sender' = [sender EXCEPT ![c] =
                     [step |-> IF found = {} THEN "new" ELSE "lookup", name |-> name,
                      content |-> content, doc |-> IF found = {} THEN 0 ELSE Min(found)]]
    BY DEF StartUpload
  <1>1. PICK d \in {0} \cup {e \in DOMAIN documents : documents[e].name = name} :
               LET found == IF d # 0 THEN {d} ELSE Lineage(name, content)
               IN sender' = [sender EXCEPT ![c] =
                     [step |-> IF found = {} THEN "new" ELSE "lookup", name |-> name,
                      content |-> content, doc |-> IF found = {} THEN 0 ELSE Min(found)]]
    BY <1>0
  <1> DEFINE found == IF d # 0 THEN {d} ELSE Lineage(name, content)
             u == [step |-> IF found = {} THEN "new" ELSE "lookup", name |-> name,
                   content |-> content, doc |-> IF found = {} THEN 0 ELSE Min(found)]
  <1>2. sender' = [sender EXCEPT ![c] = u]
    BY <1>1
  <1>3. DOMAIN documents \subseteq Nat
    BY DocDomains DEF DocInv
  <1>4. found \subseteq DOMAIN documents
    BY DEF Lineage
  <1>5. found = {} => \A e \in DOMAIN documents : documents[e].name # name
    BY DEF Lineage
  <1> HIDE DEF found
  <1>6. found # {} => Min(found) \in found
    <2> SUFFICES ASSUME found # {} PROVE Min(found) \in found
      OBVIOUS
    <2>1. \E m \in found : \A n \in found : m <= n
      BY <1>3, <1>4, LeastNumber
    <2> QED BY <2>1 DEF Min
  <1>7. u \in UploadState
    BY <1>3, <1>4, <1>6 DEF UploadState
  <1>8. /\ u.step \in {"new", "lookup"} /\ (u.step = "new" <=> found = {}) /\ u.name = name
        /\ u.step = "lookup" => u.doc \in DOMAIN documents
    BY <1>4, <1>6
  <1>9. /\ sender[c].step = "idle" /\ (single => \A e \in Senders : sender[e].step = "idle")
        /\ UNCHANGED <<single, documents, versions, pieces, jobs, indexing, tries, mishaps, attempt>>
    BY DEF StartUpload
  <1> HIDE DEF u
  <1> QED BY <1>2, <1>5, <1>7, <1>8, <1>9, UploadGoesOn

LEMMA LookUpVersionKeeps ==
    ASSUME DocInv, NEW c \in Senders, LookUpVersion(c)
    PROVE  DocInv'
  <1>1. PICK u \in UploadState : u = sender[c]
    BY DEF DocInv, DocTyped
  <1>2. u.step = "lookup" /\ u.doc \in DOMAIN documents /\ u.content \in Uploads /\ u.doc \in Nat
    BY <1>1, UploadForms DEF LookUpVersion, DocInv, Pointed
  <1>3. UNCHANGED <<single, documents, versions, pieces, jobs, indexing, tries, mishaps, attempt>>
    BY DEF LookUpVersion
  <1>4. single => \A d \in Senders \ {c} : sender[d].step = "idle"
    BY <1>1, <1>2 DEF DocInv, Lines
  <1>5. CASE \E v \in VersionsOf(u.doc) : versions[v].content = u.content
    <2>1. sender' = [sender EXCEPT ![c] = NoUpload]
      BY <1>1, <1>5 DEF LookUpVersion
    <2>2. NoUpload \in UploadState /\ NoUpload.step = "idle"
      BY DEF UploadState, NoUpload
    <2> QED BY <1>1, <1>2, <1>3, <2>1, <2>2, UploadGoesOn
  <1>6. CASE ~ \E v \in VersionsOf(u.doc) : versions[v].content = u.content
    <2> DEFINE nos == {versions[v].no : v \in VersionsOf(u.doc)}
               no == 1 + Max({0} \cup nos)
               new == [step |-> "insert", doc |-> u.doc, content |-> u.content, no |-> no]
    <2>1. sender' = [sender EXCEPT ![c] = new]
      BY <1>1, <1>6 DEF LookUpVersion
    <2>2. nos \subseteq Nat /\ IsFiniteSet({0} \cup nos)
      <3>1. IsFiniteSet(VersionsOf(u.doc))
        BY VersionsAreFinite DEF DocInv
      <3>2. IsFiniteSet(nos)
        <4> DEFINE S == VersionsOf(u.doc)
                   f == [v \in S |-> versions[v].no]
        <4>1. f \in Surjection(S, nos)
          BY DEF Surjection
        <4> HIDE DEF f, S, nos
        <4> QED BY <3>1, <4>1, FS_Surjection DEF S
      <3>3. nos \subseteq Nat
        BY DocDomains DEF DocInv, VersionsOf, VersionRow
      <3> QED BY <3>2, <3>3, FS_AddElement
    <2> HIDE DEF nos
    <2>3. PICK m \in {0} \cup nos : \A n \in {0} \cup nos : n <= m
      <3> DEFINE S == {0} \cup nos
      <3>1. S \in SUBSET Nat /\ IsFiniteSet(S) /\ S # {}
        BY <2>2
      <3> HIDE DEF S
      <3>2. \E m \in S : \A n \in S : n <= m
        BY <3>1, GreatestNumber
      <3> QED BY <3>2 DEF S
    <2>4. /\ Max({0} \cup nos) \in {0} \cup nos
          /\ \A n \in {0} \cup nos : Max({0} \cup nos) >= n
      BY <2>2, <2>3 DEF Max
    <2> DEFINE most == Max({0} \cup nos)
    <2>10. no = 1 + most
      OBVIOUS
    <2> HIDE DEF most, no
    <2>11. most \in {0} \cup nos
      BY <2>4 DEF most
    <2>5. most \in Nat /\ no = 1 + most
      BY <2>2, <2>10, <2>11
    <2>6. single => most = Cardinality(VersionsOf(u.doc))
      <3> SUFFICES ASSUME single PROVE most = Cardinality(VersionsOf(u.doc))
        OBVIOUS
      <3>1. nos = 1..Cardinality(VersionsOf(u.doc))
        BY <1>2 DEF DocInv, Lines, NumberedFrom, nos
      <3>2. Cardinality(VersionsOf(u.doc)) \in Nat
        BY VersionsAreFinite DEF DocInv
      <3>3. most \in {0} \cup nos /\ \A n \in {0} \cup nos : most >= n
        BY <2>4 DEF most
      <3> QED BY <3>1, <3>2, <3>3
    <2>7. new \in UploadState /\ new.step = "insert" /\ new.doc = u.doc /\ new.no = no
      BY <1>2, <2>5 DEF UploadState
    <2> HIDE DEF new
    <2> QED BY <1>1, <1>2, <1>3, <1>4, <2>1, <2>5, <2>6, <2>7, UploadGoesOn
  <1> QED BY <1>5, <1>6

LEMMA VersionIsAdded ==
    ASSUME DocTyped, NEW d \in Nat, NEW content \in Uploads, NEW no \in Nat, AddVersion(d, content, no)
    PROVE  LET n == Len(versions) + 1 IN
           /\ versions' \in Seq(VersionRow) /\ pieces' \in Seq(SUBSET Nat)
           /\ jobs' \in Seq(JobState) /\ tries' \in Seq(Nat)
           /\ Len(versions') = n /\ Len(pieces') = n /\ Len(jobs') = n /\ Len(tries') = n
           /\ n \in Nat /\ n \notin DOMAIN versions /\ DOMAIN versions' = DOMAIN versions \cup {n}
           /\ versions'[n] = NewVersion(d, content, no) /\ pieces'[n] = {} /\ jobs'[n] = "none"
           /\ \A v \in DOMAIN versions :
                 versions'[v] = versions[v] /\ pieces'[v] = pieces[v] /\ jobs'[v] = jobs[v]
  <1> DEFINE n == Len(versions) + 1
             row == NewVersion(d, content, no)
  <1>1. row \in VersionRow
    BY DEF NewVersion, VersionRow
  <1>2. versions' = Append(versions, row) /\ pieces' = Append(pieces, {})
        /\ jobs' = Append(jobs, "none") /\ tries' = Append(tries, 0)
    BY DEF AddVersion
  <1> HIDE DEF row
  <1>3. /\ versions' \in Seq(VersionRow) /\ Len(versions') = n /\ n \notin DOMAIN versions
        /\ DOMAIN versions' = DOMAIN versions \cup {n} /\ versions'[n] = row
        /\ \A v \in DOMAIN versions : versions'[v] = versions[v]
    BY <1>1, <1>2, RowAdded DEF DocTyped
  <1>4. /\ pieces' \in Seq(SUBSET Nat) /\ Len(pieces') = n /\ pieces'[n] = {}
        /\ \A v \in DOMAIN pieces : pieces'[v] = pieces[v]
    BY <1>2, RowAdded DEF DocTyped
  <1>5. /\ jobs' \in Seq(JobState) /\ Len(jobs') = n /\ jobs'[n] = "none"
        /\ \A v \in DOMAIN jobs : jobs'[v] = jobs[v]
    BY <1>2, RowAdded DEF DocTyped, JobState
  <1>6. tries' \in Seq(Nat) /\ Len(tries') = n
    BY <1>2, RowAdded DEF DocTyped
  <1>7. n \in Nat
    BY DEF DocTyped
  <1> QED BY <1>3, <1>4, <1>5, <1>6, <1>7, DocDomains DEF row

(* What a version's insert leaves, but for the lines.                      *)
LEMMA InsertKeepsJobs ==
    ASSUME DocInv, NEW c \in Senders, sender[c].step \in {"new", "insert"},
           NEW d \in Nat, NEW content \in Uploads, NEW no \in Nat, AddVersion(d, content, no),
           sender' = [sender EXCEPT ![c] = [step |-> "enqueue", version |-> Len(versions) + 1]],
           UNCHANGED <<single, indexing, mishaps, attempt>>,
           documents' \in Seq(DocumentRow), DOMAIN documents \subseteq DOMAIN documents',
           d \in DOMAIN documents'
    PROVE  DocTyped' /\ Pointed' /\ Chunked' /\ CalmJobs'
  <1> USE DEF DocInv
  <1> DEFINE n == Len(versions) + 1
             new == [step |-> "enqueue", version |-> n]
  <1>1. /\ versions' \in Seq(VersionRow) /\ pieces' \in Seq(SUBSET Nat)
        /\ jobs' \in Seq(JobState) /\ tries' \in Seq(Nat)
        /\ Len(versions') = n /\ Len(pieces') = n /\ Len(jobs') = n /\ Len(tries') = n
        /\ n \in Nat /\ n \notin DOMAIN versions /\ DOMAIN versions' = DOMAIN versions \cup {n}
        /\ versions'[n] = NewVersion(d, content, no) /\ pieces'[n] = {} /\ jobs'[n] = "none"
        /\ \A v \in DOMAIN versions :
              versions'[v] = versions[v] /\ pieces'[v] = pieces[v] /\ jobs'[v] = jobs[v]
    BY VersionIsAdded
  <1>2. versions'[n].doc = d /\ versions'[n].status = "parsing"
    BY <1>1 DEF NewVersion
  <1>3. /\ sender'[c] = new /\ \A e \in Senders \ {c} : sender'[e] = sender[e]
        /\ new \in UploadState /\ new.step = "enqueue" /\ new.version = n
    BY <1>1 DEF DocTyped, UploadState
  <1> HIDE DEF n, new
  <1>4. DocTyped'
    BY <1>1, <1>3 DEF DocTyped, n, new
  <1>5. Pointed'
    <2>1. \A v \in DOMAIN versions' : versions'[v].doc \in DOMAIN documents'
      BY <1>1, <1>2 DEF Pointed
    <2>2. ASSUME NEW e \in Senders
          PROVE  /\ sender'[e].step \in {"lookup", "insert"} => sender'[e].doc \in DOMAIN documents'
                 /\ sender'[e].step = "enqueue" =>
                       /\ sender'[e].version \in DOMAIN versions' /\ jobs'[sender'[e].version] = "none"
                       /\ \A f \in Senders \ {e} :
                             sender'[f].step = "enqueue" => sender'[f].version # sender'[e].version
      <3>1. CASE e = c
        BY <1>1, <1>3, <3>1 DEF Pointed
      <3>2. CASE e # c
        BY <1>1, <1>3, <3>2 DEF Pointed
      <3> QED BY <3>1, <3>2
    <2>3. \A a \in Attempts : attempt'[a].step # "idle" =>
             attempt'[a].version \in DOMAIN versions' /\ jobs'[attempt'[a].version] # "none"
      BY <1>1 DEF Pointed
    <2> QED BY <2>1, <2>2, <2>3 DEF Pointed
  <1>0. /\ attempt' = attempt /\ indexing' = indexing /\ indexing \subseteq DOMAIN versions
        /\ \A a \in Attempts : attempt[a].step # "idle" => attempt[a].version \in DOMAIN versions
    BY DEF Pointed, DocTyped
  <1>6. Chunked'
    <2>1. \A v \in DOMAIN versions' :
          /\ pieces'[v] # {} => /\ pieces'[v] = 1..Pieces[versions'[v].content]
                                /\ versions'[v].content \notin Unparseable
          /\ versions'[v].status = "ready" => pieces'[v] # {}
          /\ v \in indexing' \/ jobs'[v] = "succeeded" => versions'[v].status = "ready"
      <3> SUFFICES ASSUME NEW v \in DOMAIN versions'
                   PROVE  /\ pieces'[v] # {} => /\ pieces'[v] = 1..Pieces[versions'[v].content]
                                                /\ versions'[v].content \notin Unparseable
                          /\ versions'[v].status = "ready" => pieces'[v] # {}
                          /\ v \in indexing' \/ jobs'[v] = "succeeded" => versions'[v].status = "ready"
        OBVIOUS
      <3>1. CASE v = n
        BY <1>0, <1>1, <1>2, <3>1
      <3>2. CASE v # n
        <4>1. /\ v \in DOMAIN versions /\ versions'[v] = versions[v] /\ pieces'[v] = pieces[v]
              /\ jobs'[v] = jobs[v] /\ indexing' = indexing
          BY <1>0, <1>1, <3>2
        <4>2. /\ pieces[v] # {} => /\ pieces[v] = 1..Pieces[versions[v].content]
                                   /\ versions[v].content \notin Unparseable
              /\ versions[v].status = "ready" => pieces[v] # {}
              /\ v \in indexing \/ jobs[v] = "succeeded" => versions[v].status = "ready"
          BY <4>1 DEF Chunked
        <4> QED BY ONLY <4>1, <4>2
      <3> QED BY <3>1, <3>2
    <2>2. ASSUME NEW a \in Attempts
          PROVE  /\ attempt'[a].step \in {"ready", "index"} => pieces'[attempt'[a].version] # {}
                 /\ attempt'[a].step = "index" => versions'[attempt'[a].version].status = "ready"
      <3>1. /\ attempt[a].step \in {"ready", "index"} => pieces[attempt[a].version] # {}
            /\ attempt[a].step = "index" => versions[attempt[a].version].status = "ready"
        BY DEF Chunked
      <3>2. attempt[a].step # "idle" =>
               /\ pieces'[attempt[a].version] = pieces[attempt[a].version]
               /\ versions'[attempt[a].version] = versions[attempt[a].version]
        BY <1>0, <1>1
      <3> QED BY ONLY <1>0, <3>1, <3>2
    <2> QED BY <2>1, <2>2 DEF Chunked
  <1>7. CalmJobs'
    <2> SUFFICES ASSUME mishaps = 0 PROVE CalmJobs'
      BY DEF CalmJobs
    <2>1. ASSUME NEW a \in Attempts, attempt'[a].step # "idle"
          PROVE  /\ jobs'[attempt'[a].version] = "running"
                 /\ \A b \in Attempts \ {a} : attempt'[b].step # "idle" => attempt'[b].version # attempt'[a].version
                 /\ attempt'[a].step = "parse" => pieces'[attempt'[a].version] = {}
      <3>1. /\ jobs[attempt[a].version] = "running" /\ attempt[a].version \in DOMAIN versions
            /\ \A b \in Attempts \ {a} : attempt[b].step # "idle" => attempt[b].version # attempt[a].version
            /\ attempt[a].step = "parse" => pieces[attempt[a].version] = {}
        BY <1>0, <2>1 DEF CalmJobs
      <3> QED BY <1>0, <1>1, <3>1
    <2>2. ASSUME NEW v \in DOMAIN versions'
          PROVE  /\ pieces'[v] # {} => jobs'[v] \in {"running", "succeeded"}
                 /\ jobs'[v] = "failed" => \/ versions'[v].status = "failed"
                                           \/ versions'[v].content \in Repetitive
                 /\ jobs'[v] = "none" => \E e \in Senders : sender'[e] = [step |-> "enqueue", version |-> v]
      <3>1. CASE v = n
        BY <1>1, <1>3, <3>1 DEF new
      <3>2. CASE v # n
        <4>1. v \in DOMAIN versions
          BY <1>1, <3>2
        <4>2. ASSUME jobs[v] = "none"
              PROVE  \E e \in Senders : sender'[e] = [step |-> "enqueue", version |-> v]
          <5>1. PICK e \in Senders : sender[e] = [step |-> "enqueue", version |-> v]
            BY <4>1, <4>2 DEF CalmJobs
          <5>2. e # c
            BY <5>1
          <5> QED BY <1>3, <5>1, <5>2
        <4> QED BY <1>1, <4>1, <4>2 DEF CalmJobs
      <3> QED BY <3>1, <3>2
    <2> QED BY <2>1, <2>2 DEF CalmJobs
  <1> QED BY <1>4, <1>5, <1>6, <1>7

LEMMA CreateDocumentKeeps ==
    ASSUME DocInv, NEW c \in Senders, CreateDocument(c)
    PROVE  DocInv'
  <1> USE DEF DocInv
  <1> DEFINE n == Len(versions) + 1
  <1>0. PICK id \in Nat : id = Len(documents) + 1
    BY DEF DocTyped
  <1>1. PICK u \in UploadState : u = sender[c]
    BY DEF DocTyped
  <1>2. /\ u.step = "new" /\ u.name \in FileNames /\ u.content \in Uploads
        /\ documents' = Append(documents, [name |-> u.name, first |-> u.content])
        /\ AddVersion(id, u.content, 1) /\ UNCHANGED <<single, indexing, mishaps, attempt>>
        /\ sender' = [sender EXCEPT ![c] = [step |-> "enqueue", version |-> n]]
    BY <1>0, <1>1, UploadForms DEF CreateDocument
  <1>3. [name |-> u.name, first |-> u.content] \in DocumentRow
    BY <1>2 DEF DocumentRow
  <1>4. /\ documents' \in Seq(DocumentRow) /\ DOMAIN documents' = DOMAIN documents \cup {id}
        /\ id \notin DOMAIN documents /\ id \in Nat
        /\ documents'[id] = [name |-> u.name, first |-> u.content]
        /\ \A d \in DOMAIN documents : documents'[d] = documents[d]
    BY <1>0, <1>2, <1>3, RowAdded DEF DocTyped
  <1>5. /\ n \in Nat /\ n \notin DOMAIN versions /\ DOMAIN versions' = DOMAIN versions \cup {n}
        /\ versions'[n].doc = id /\ versions'[n].no = 1
        /\ \A v \in DOMAIN versions : versions'[v] = versions[v]
    <2>1. /\ n \in Nat /\ n \notin DOMAIN versions /\ DOMAIN versions' = DOMAIN versions \cup {n}
          /\ versions'[n] = NewVersion(id, u.content, 1)
          /\ \A v \in DOMAIN versions : versions'[v] = versions[v]
      <3>1. id \in Nat /\ u.content \in Uploads /\ 1 \in Nat /\ AddVersion(id, u.content, 1) /\ DocTyped
        BY <1>0, <1>2
      <3> QED BY <3>1, VersionIsAdded
    <2> QED BY <2>1 DEF NewVersion
  <1> HIDE DEF n
  <1>6. DocTyped' /\ Pointed' /\ Chunked' /\ CalmJobs'
    BY <1>1, <1>2, <1>4, InsertKeepsJobs DEF n
  <1>7. Lines'
    <2> SUFFICES ASSUME single PROVE Lines'
      BY <1>2 DEF Lines
    <2>1. \A e \in Senders \ {c} : sender[e].step = "idle" /\ sender'[e].step = "idle"
      BY <1>1, <1>2 DEF Lines, DocTyped
    <2>2. sender'[c].step = "enqueue"
      BY <1>2 DEF DocTyped
    <2>3. \A d, e \in DOMAIN documents' : documents'[d].name = documents'[e].name => d = e
      <3>1. \A d \in DOMAIN documents : documents'[d].name # u.name
        BY <1>1, <1>2, <1>4 DEF Lines
      <3> QED BY <1>4, <3>1 DEF Lines
    <2>4. ASSUME NEW d \in DOMAIN documents PROVE NumberedFrom(d)'
      <3>1. VersionsOf(d)' = VersionsOf(d)
        BY <1>4, <1>5 DEF VersionsOf
      <3>2. {versions[v].no : v \in VersionsOf(d)}' = {versions[v].no : v \in VersionsOf(d)}
        BY <1>5, <3>1 DEF VersionsOf
      <3> QED BY <3>1, <3>2 DEF Lines, NumberedFrom
    <2>5. NumberedFrom(id)'
      <3>1. VersionsOf(id)' = {n}
        BY <1>4, <1>5 DEF VersionsOf, Pointed
      <3>2. {versions[v].no : v \in VersionsOf(id)}' = {1}
        BY <1>5, <3>1
      <3>3. Cardinality({n}) = 1
        BY FS_Singleton
      <3> QED BY <3>1, <3>2, <3>3 DEF NumberedFrom
    <2> QED BY <1>4, <2>1, <2>2, <2>3, <2>4, <2>5 DEF Lines
  <1> QED BY <1>6, <1>7

LEMMA InsertVersionKeeps ==
    ASSUME DocInv, NEW c \in Senders, InsertVersion(c)
    PROVE  DocInv'
  <1> USE DEF DocInv
  <1> DEFINE n == Len(versions) + 1
  <1>1. PICK u \in UploadState : u = sender[c]
    BY DEF DocTyped
  <1>2. /\ u.step = "insert" /\ u.doc \in Nat /\ u.content \in Uploads /\ u.no \in Nat
        /\ u.doc \in DOMAIN documents
        /\ AddVersion(u.doc, u.content, u.no) /\ UNCHANGED <<single, documents, indexing, mishaps, attempt>>
        /\ sender' = [sender EXCEPT ![c] = [step |-> "enqueue", version |-> n]]
    BY <1>1, UploadForms DEF InsertVersion, Pointed
  <1>3. /\ n \in Nat /\ n \notin DOMAIN versions /\ DOMAIN versions' = DOMAIN versions \cup {n}
        /\ versions'[n].doc = u.doc /\ versions'[n].no = u.no
        /\ \A v \in DOMAIN versions : versions'[v] = versions[v]
    <2>1. /\ n \in Nat /\ n \notin DOMAIN versions /\ DOMAIN versions' = DOMAIN versions \cup {n}
          /\ versions'[n] = NewVersion(u.doc, u.content, u.no)
          /\ \A v \in DOMAIN versions : versions'[v] = versions[v]
      BY <1>2, VersionIsAdded
    <2> QED BY <2>1 DEF NewVersion
  <1> HIDE DEF n
  <1>4. DocTyped' /\ Pointed' /\ Chunked' /\ CalmJobs'
    <2>1. documents' \in Seq(DocumentRow) /\ DOMAIN documents \subseteq DOMAIN documents'
          /\ u.doc \in DOMAIN documents' /\ sender[c].step \in {"new", "insert"}
      BY <1>1, <1>2 DEF DocTyped
    <2> QED BY <1>2, <2>1, InsertKeepsJobs DEF n
  <1>5. Lines'
    <2> SUFFICES ASSUME single PROVE Lines'
      BY <1>2 DEF Lines
    <2>1. \A e \in Senders \ {c} : sender[e].step = "idle" /\ sender'[e].step = "idle"
      BY <1>1, <1>2 DEF Lines, DocTyped
    <2>2. sender'[c].step = "enqueue"
      BY <1>2 DEF DocTyped
    <2>3. ASSUME NEW d \in DOMAIN documents, d # u.doc PROVE NumberedFrom(d)'
      <3>1. VersionsOf(d)' = VersionsOf(d)
        BY <1>3, <2>3 DEF VersionsOf
      <3>2. {versions[v].no : v \in VersionsOf(d)}' = {versions[v].no : v \in VersionsOf(d)}
        BY <1>3, <3>1 DEF VersionsOf
      <3> QED BY <3>1, <3>2 DEF Lines, NumberedFrom
    <2>4. NumberedFrom(u.doc)'
      <3> DEFINE V == VersionsOf(u.doc)
                 k == Cardinality(V)
      <3>1. VersionsOf(u.doc)' = V \cup {n} /\ n \notin V
        BY <1>3 DEF VersionsOf
      <3>2. {versions[v].no : v \in VersionsOf(u.doc)}' = {versions[v].no : v \in V} \cup {u.no}
        BY <1>3, <3>1 DEF VersionsOf
      <3>3. IsFiniteSet(V) /\ k \in Nat
        BY VersionsAreFinite
      <3>4. Cardinality(V \cup {n}) = k + 1
        BY <3>1, <3>3, FS_AddElement
      <3>5. {versions[v].no : v \in V} = 1..k /\ u.no = 1 + k
        BY <1>1, <1>2 DEF Lines, NumberedFrom
      <3> HIDE DEF V, k
      <3>6. (1..k) \cup {1 + k} = 1..(k + 1)
        BY <3>3
      <3> QED BY <3>1, <3>2, <3>4, <3>5, <3>6 DEF NumberedFrom
    <2> QED BY <1>2, <2>1, <2>2, <2>3, <2>4 DEF Lines
  <1> QED BY <1>4, <1>5

LEMMA StatusIsSet ==
    ASSUME DocTyped, NEW v \in DOMAIN versions, NEW s \in {"parsing", "ready", "failed"},
           versions' = [versions EXCEPT ![v].status = s]
    PROVE  /\ versions' \in Seq(VersionRow) /\ Len(versions') = Len(versions)
           /\ DOMAIN versions' = DOMAIN versions /\ versions'[v].status = s
           /\ \A w \in DOMAIN versions :
                 /\ w # v => versions'[w] = versions[w]
                 /\ versions'[w].doc = versions[w].doc /\ versions'[w].no = versions[w].no
                 /\ versions'[w].content = versions[w].content
  <1> DEFINE row == [versions[v] EXCEPT !.status = s]
  <1>1. versions[v] \in VersionRow
    BY DocDomains
  <1>2. /\ row \in VersionRow /\ row.status = s /\ row.doc = versions[v].doc
        /\ row.no = versions[v].no /\ row.content = versions[v].content
    BY <1>1 DEF VersionRow
  <1>3. versions' = [versions EXCEPT ![v] = row]
    OBVIOUS
  <1> HIDE DEF row
  <1>4. versions \in Seq(VersionRow)
    BY DEF DocTyped
  <1>5. /\ versions' \in Seq(VersionRow) /\ Len(versions') = Len(versions)
        /\ DOMAIN versions' = DOMAIN versions /\ versions'[v] = row
        /\ \A w \in DOMAIN versions : w # v => versions'[w] = versions[w]
    BY <1>2, <1>3, <1>4, RowChanges
  <1> QED BY <1>2, <1>5

LEMMA JobIsSet ==
    ASSUME DocTyped, NEW v \in DOMAIN versions, NEW s \in JobState, jobs' = [jobs EXCEPT ![v] = s]
    PROVE  /\ jobs' \in Seq(JobState) /\ Len(jobs') = Len(versions) /\ jobs'[v] = s
           /\ \A w \in DOMAIN versions : w # v => jobs'[w] = jobs[w]
  <1>1. jobs \in Seq(JobState) /\ v \in DOMAIN jobs
    BY DocDomains DEF DocTyped
  <1>2. /\ jobs' \in Seq(JobState) /\ Len(jobs') = Len(jobs) /\ jobs'[v] = s
        /\ \A w \in DOMAIN jobs : w # v => jobs'[w] = jobs[w]
    BY <1>1, RowChanges
  <1> QED BY <1>2, DocDomains DEF DocTyped

(* No version comes or changes its number, no upload goes on.              *)
LEMMA LinesStay ==
    ASSUME Lines, UNCHANGED <<single, documents>>, DOMAIN versions' = DOMAIN versions,
           \A v \in DOMAIN versions : versions'[v].doc = versions[v].doc /\ versions'[v].no = versions[v].no,
           \A c \in Senders : sender'[c] = sender[c] \/ sender'[c].step = "idle"
    PROVE  Lines'
  <1> SUFFICES ASSUME single PROVE Lines'
    BY DEF Lines
  <1>1. \A d : VersionsOf(d)' = VersionsOf(d)
    BY DEF VersionsOf
  <1>2. ASSUME NEW d PROVE {versions[v].no : v \in VersionsOf(d)}' = {versions[v].no : v \in VersionsOf(d)}
    BY <1>1 DEF VersionsOf
  <1>3. \A d \in DOMAIN documents : NumberedFrom(d)'
    BY <1>1, <1>2 DEF Lines, NumberedFrom
  <1>4. ASSUME NEW c \in Senders, sender'[c].step # "idle"
        PROVE  sender'[c] = sender[c] /\ VersionsOf(sender[c].doc)' = VersionsOf(sender[c].doc)'
    BY <1>4
  <1>5. \A c, d \in Senders : sender'[c].step # "idle" /\ sender'[d].step # "idle" => c = d
    BY <1>4 DEF Lines
  <1>6. ASSUME NEW c \in Senders
        PROVE  /\ sender'[c].step = "new" => \A d \in DOMAIN documents : documents[d].name # sender'[c].name
               /\ sender'[c].step = "insert" =>
                     sender'[c].no = 1 + Cardinality({v \in DOMAIN versions' : versions'[v].doc = sender'[c].doc})
    <2>1. CASE sender'[c].step = "idle"
      BY <2>1
    <2>2. CASE sender'[c] = sender[c]
      <3>1. {v \in DOMAIN versions' : versions'[v].doc = sender[c].doc} = VersionsOf(sender[c].doc)
        BY DEF VersionsOf
      <3>2. /\ sender[c].step = "new" => \A d \in DOMAIN documents : documents[d].name # sender[c].name
            /\ sender[c].step = "insert" => sender[c].no = 1 + Cardinality(VersionsOf(sender[c].doc))
        BY DEF Lines
      <3> QED BY <2>2, <3>1, <3>2
    <2> QED BY <2>1, <2>2
  <1> QED BY <1>3, <1>5, <1>6 DEF Lines, VersionsOf

LEMMA EnqueueImportKeeps ==
    ASSUME DocInv, NEW c \in Senders, EnqueueImport(c)
    PROVE  DocInv'
  <1> USE DEF DocInv
  <1>1. PICK v \in DOMAIN versions : /\ v = sender[c].version /\ jobs[v] = "none"
                                     /\ jobs' = [jobs EXCEPT ![v] = "queued"]
    BY DEF EnqueueImport, Pointed
  <1>2. /\ sender' = [sender EXCEPT ![c] = NoUpload] /\ sender[c].step = "enqueue"
        /\ UNCHANGED <<single, documents, versions, pieces, indexing, tries, mishaps, attempt>>
    BY DEF EnqueueImport
  <1>3. /\ sender'[c] = NoUpload /\ \A d \in Senders \ {c} : sender'[d] = sender[d]
        /\ NoUpload.step = "idle" /\ NoUpload \in UploadState
    BY <1>2 DEF DocTyped, NoUpload, UploadState
  <1>4. /\ jobs' \in Seq(JobState) /\ Len(jobs') = Len(versions) /\ jobs'[v] = "queued"
        /\ \A w \in DOMAIN versions : w # v => jobs'[w] = jobs[w]
    BY <1>1, JobIsSet DEF JobState
  <1>5. DocTyped'
    BY <1>2, <1>3, <1>4 DEF DocTyped
  <1>6. Pointed'
    BY <1>1, <1>2, <1>3, <1>4 DEF Pointed
  <1>7. Chunked'
    BY <1>1, <1>2, <1>4 DEF Chunked
  <1>8. CalmJobs'
    <2> SUFFICES ASSUME mishaps = 0 PROVE CalmJobs'
      BY <1>2 DEF CalmJobs
    <2>1. pieces[v] = {} /\ \A a \in Attempts : attempt[a].step # "idle" => attempt[a].version # v
      BY <1>1 DEF CalmJobs
    <2>2. ASSUME NEW w \in DOMAIN versions, jobs'[w] = "none"
          PROVE  \E d \in Senders : sender'[d] = [step |-> "enqueue", version |-> w]
      <3>1. w # v /\ jobs[w] = "none"
        BY <1>4, <2>2
      <3>2. PICK d \in Senders : sender[d] = [step |-> "enqueue", version |-> w]
        BY <3>1 DEF CalmJobs
      <3>3. d # c
        BY <1>1, <3>1, <3>2
      <3> QED BY <1>3, <3>2, <3>3
    <2>3. \A a \in Attempts : attempt[a].step # "idle" =>
              /\ jobs'[attempt[a].version] = "running"
              /\ \A b \in Attempts \ {a} : attempt[b].step # "idle" => attempt[b].version # attempt[a].version
              /\ attempt[a].step = "parse" => pieces[attempt[a].version] = {}
      BY <1>4, <2>1 DEF CalmJobs, Pointed
    <2>4. \A w \in DOMAIN versions :
              /\ pieces[w] # {} => jobs'[w] \in {"running", "succeeded"}
              /\ jobs'[w] = "failed" => versions[w].status = "failed" \/ versions[w].content \in Repetitive
      BY <1>4, <2>1 DEF CalmJobs
    <2> QED BY <1>2, <2>2, <2>3, <2>4 DEF CalmJobs
  <1>9. Lines'
    BY <1>2, <1>3, LinesStay
  <1> QED BY <1>5, <1>6, <1>7, <1>8, <1>9

LEMMA UploadEndsKeeps ==
    ASSUME DocInv, NEW c \in Senders, UploadEnds(c)
    PROVE  DocInv'
  <1> USE DEF DocInv
  <1>1. /\ sender' = [sender EXCEPT ![c] = NoUpload]
        /\ mishaps' = IF sender[c].step = "enqueue" THEN mishaps + 1 ELSE mishaps
        /\ UNCHANGED <<single, documents, versions, pieces, jobs, indexing, tries, attempt>>
    BY DEF UploadEnds
  <1>2. /\ sender'[c] = NoUpload /\ \A d \in Senders \ {c} : sender'[d] = sender[d]
        /\ NoUpload.step = "idle" /\ NoUpload \in UploadState
    BY <1>1 DEF DocTyped, NoUpload, UploadState
  <1>3. CASE sender[c].step # "enqueue"
    BY <1>1, <1>2, <1>3, UploadGoesOn
  <1>4. CASE sender[c].step = "enqueue"
    <2>1. mishaps' # 0 /\ DocTyped'
      BY <1>1, <1>2, <1>4 DEF DocTyped
    <2>2. Pointed'
      BY <1>1, <1>2 DEF Pointed
    <2>3. Chunked'
      BY <1>1 DEF Chunked
    <2>4. Lines'
      BY <1>1, <1>2, LinesStay
    <2> QED BY <2>1, <2>2, <2>3, <2>4 DEF CalmJobs
  <1> QED BY <1>3, <1>4

(* The attempts *)

LEMMA ClaimImportKeeps ==
    ASSUME DocInv, NEW a \in Attempts, ClaimImport(a)
    PROVE  DocInv'
  <1> USE DEF DocInv
  <1>1. PICK v \in DOMAIN versions :
            /\ \/ jobs[v] = "queued" /\ mishaps' = mishaps
               \/ jobs[v] = "running" /\ mishaps' = mishaps + 1
            /\ jobs' = [jobs EXCEPT ![v] = "running"]
            /\ attempt' = [attempt EXCEPT ![a] = [step |-> "parse", version |-> v]]
    BY DEF ClaimImport
  <1>2. attempt[a].step = "idle"
        /\ UNCHANGED <<single, documents, versions, pieces, indexing, tries, sender>>
    BY DEF ClaimImport
  <1>3. /\ jobs' \in Seq(JobState) /\ Len(jobs') = Len(versions) /\ jobs'[v] = "running"
        /\ \A w \in DOMAIN versions : w # v => jobs'[w] = jobs[w]
    BY <1>1, JobIsSet DEF JobState
  <1>4. [step |-> "parse", version |-> v] \in AttemptState
    BY DocDomains DEF AttemptState
  <1>5. /\ attempt'[a].step = "parse" /\ attempt'[a].version = v
        /\ \A b \in Attempts \ {a} : attempt'[b] = attempt[b]
    BY <1>1 DEF DocTyped
  <1>6. DocTyped'
    BY <1>1, <1>2, <1>3, <1>4 DEF DocTyped
  <1>7. Pointed'
    <2>1. \A c \in Senders : sender[c].step = "enqueue" => sender[c].version # v
      BY <1>1 DEF Pointed
    <2> QED BY <1>2, <1>3, <1>5, <2>1 DEF Pointed
  <1>8. Chunked'
    BY <1>2, <1>3, <1>5 DEF Chunked
  <1>9. CalmJobs'
    <2> SUFFICES ASSUME mishaps' = 0 PROVE CalmJobs'
      BY DEF CalmJobs
    <2>1. mishaps = 0 /\ jobs[v] = "queued"
      BY <1>1 DEF DocTyped
    <2>2. pieces[v] = {} /\ \A b \in Attempts : attempt[b].step # "idle" => attempt[b].version # v
      BY <2>1 DEF CalmJobs
    <2>3. ASSUME NEW b \in Attempts, attempt'[b].step # "idle"
          PROVE  /\ jobs'[attempt'[b].version] = "running"
                 /\ \A d \in Attempts \ {b} : attempt'[d].step # "idle" => attempt'[d].version # attempt'[b].version
                 /\ attempt'[b].step = "parse" => pieces[attempt'[b].version] = {}
      <3>1. CASE b = a
        BY <1>3, <1>5, <2>2, <3>1
      <3>2. CASE b # a
        <4>1. attempt'[b] = attempt[b] /\ attempt[b].version \in DOMAIN versions /\ attempt[b].version # v
          BY <1>5, <2>2, <2>3, <3>2 DEF Pointed
        <4> QED BY <1>3, <1>5, <2>1, <2>3, <4>1 DEF CalmJobs
      <3> QED BY <3>1, <3>2
    <2>4. \A w \in DOMAIN versions :
              /\ pieces[w] # {} => jobs'[w] \in {"running", "succeeded"}
              /\ jobs'[w] = "failed" => versions[w].status = "failed" \/ versions[w].content \in Repetitive
              /\ jobs'[w] = "none" => \E c \in Senders : sender[c] = [step |-> "enqueue", version |-> w]
      BY <1>3, <2>1 DEF CalmJobs
    <2> QED BY <1>2, <2>3, <2>4 DEF CalmJobs
  <1>10. Lines'
    BY <1>2, LinesStay
  <1> QED BY <1>6, <1>7, <1>8, <1>9, <1>10

(* An attempt raises: of a version that cannot be parsed, which it has     *)
(* told so, or whose chunks do not fit.                                    *)
LEMMA RaiseKeeps ==
    ASSUME DocInv, NEW a \in Attempts, NEW v, v = attempt[a].version, attempt[a].step = "parse",
           Raise(a, v), UNCHANGED <<single, documents, pieces, indexing, mishaps, sender>>,
           \/ versions[v].content \in Unparseable /\ SetStatus(v, "failed")
           \/ versions[v].content \notin Unparseable /\ ~ChunksFit(v) /\ UNCHANGED versions
    PROVE  DocInv'
  <1> USE DEF DocInv
  <1>1. v \in DOMAIN versions
    BY DEF Pointed
  <1>2. /\ versions' \in Seq(VersionRow) /\ Len(versions') = Len(versions)
        /\ DOMAIN versions' = DOMAIN versions
        /\ versions[v].content \in Unparseable => versions'[v].status = "failed"
        /\ versions[v].content \notin Unparseable => versions' = versions
        /\ \A w \in DOMAIN versions :
              /\ w # v => versions'[w] = versions[w]
              /\ versions'[w].doc = versions[w].doc /\ versions'[w].no = versions[w].no
              /\ versions'[w].content = versions[w].content
    <2>1. CASE versions[v].content \in Unparseable /\ SetStatus(v, "failed")
      BY <1>1, <2>1, StatusIsSet DEF SetStatus
    <2>2. CASE versions[v].content \notin Unparseable /\ UNCHANGED versions
      BY <2>2 DEF DocTyped
    <2> QED BY <2>1, <2>2
  <1>3. /\ jobs' \in Seq(JobState) /\ Len(jobs') = Len(versions)
        /\ IF jobs[v] = "running" THEN jobs'[v] \in {"queued", "failed"} ELSE jobs'[v] = jobs[v]
        /\ \A w \in DOMAIN versions : w # v => jobs'[w] = jobs[w]
    <2>1. CASE jobs[v] # "running"
      BY <2>1 DEF Raise, DocTyped
    <2>2. CASE jobs[v] = "running"
      <3>1. PICK s \in {"queued", "failed"} : jobs' = [jobs EXCEPT ![v] = s]
        BY <2>2 DEF Raise
      <3> QED BY <1>1, <2>2, <3>1, JobIsSet DEF JobState
    <2> QED BY <2>1, <2>2
  <1>4. tries' \in Seq(Nat) /\ Len(tries') = Len(versions)
    <2>1. tries' = [tries EXCEPT ![v] = tries[v] + 1] /\ tries \in Seq(Nat) /\ v \in DOMAIN tries
          /\ tries[v] + 1 \in Nat /\ Len(tries) = Len(versions)
      BY <1>1, DocDomains DEF Raise, DocTyped
    <2> QED BY <2>1, RowChanges
  <1>5. /\ attempt'[a].step = "idle" /\ \A b \in Attempts \ {a} : attempt'[b] = attempt[b]
        /\ attempt' \in [Attempts -> AttemptState]
    BY DEF Raise, DocTyped, NoAttempt, AttemptState
  <1>6. DocTyped'
    BY <1>2, <1>3, <1>4, <1>5 DEF DocTyped
  <1>7. Pointed'
    <2>1. \A c \in Senders : sender[c].step = "enqueue" => sender[c].version # v
      BY DEF Pointed
    <2>2. \A w \in DOMAIN versions' : versions'[w].doc \in DOMAIN documents
      BY <1>2 DEF Pointed
    <2>3. ASSUME NEW c \in Senders, sender[c].step = "enqueue"
          PROVE  /\ sender[c].version \in DOMAIN versions' /\ jobs'[sender[c].version] = "none"
                 /\ \A d \in Senders \ {c} : sender[d].step = "enqueue" => sender[d].version # sender[c].version
      BY <1>2, <1>3, <2>1, <2>3 DEF Pointed
    <2>4. ASSUME NEW b \in Attempts, attempt'[b].step # "idle"
          PROVE  attempt'[b].version \in DOMAIN versions' /\ jobs'[attempt'[b].version] # "none"
      <3>1. attempt'[b] = attempt[b] /\ attempt[b].version \in DOMAIN versions /\ jobs[attempt[b].version] # "none"
        BY <1>5, <2>4 DEF Pointed
      <3> QED BY <1>2, <1>3, <3>1
    <2>5. \A c \in Senders : sender[c].step \in {"lookup", "insert"} => sender[c].doc \in DOMAIN documents
      BY DEF Pointed
    <2> QED BY <2>2, <2>3, <2>4, <2>5 DEF Pointed
  <1>8. Chunked'
    <2>1. versions[v].content \in Unparseable =>
             /\ pieces[v] = {} /\ v \notin indexing /\ jobs[v] # "succeeded"
             /\ \A b \in Attempts : attempt[b].step \in {"ready", "index"} => attempt[b].version # v
      BY <1>1 DEF Chunked
    <2>2. ASSUME NEW w \in DOMAIN versions
          PROVE  /\ pieces[w] # {} => /\ pieces[w] = 1..Pieces[versions'[w].content]
                                      /\ versions'[w].content \notin Unparseable
                 /\ versions'[w].status = "ready" => pieces[w] # {}
                 /\ w \in indexing \/ jobs'[w] = "succeeded" => versions'[w].status = "ready"
      BY <1>2, <1>3, <2>1 DEF Chunked
    <2>3. ASSUME NEW b \in Attempts
          PROVE  /\ attempt'[b].step \in {"ready", "index"} => pieces[attempt'[b].version] # {}
                 /\ attempt'[b].step = "index" => versions'[attempt'[b].version].status = "ready"
      <3>1. CASE attempt'[b].step \in {"ready", "index"}
        <4>1. attempt'[b] = attempt[b] /\ attempt[b].version \in DOMAIN versions
          BY <1>5, <3>1 DEF Pointed
        <4> QED BY <1>2, <2>1, <3>1, <4>1 DEF Chunked
      <3> QED BY <3>1
    <2> QED BY <1>2, <2>2, <2>3 DEF Chunked
  <1>9. CalmJobs'
    <2> SUFFICES ASSUME mishaps = 0 PROVE CalmJobs'
      BY DEF CalmJobs
    <2>1. pieces[v] = {} /\ jobs[v] = "running" /\ jobs'[v] \in {"queued", "failed"}
          /\ \A b \in Attempts \ {a} : attempt[b].step # "idle" => attempt[b].version # v
      BY <1>3 DEF CalmJobs
    <2>2. versions'[v].status = "failed" \/ versions[v].content \in Repetitive
      BY <1>2, <2>1 DEF ChunksFit
    <2>3. ASSUME NEW b \in Attempts, attempt'[b].step # "idle"
          PROVE  /\ jobs'[attempt'[b].version] = "running"
                 /\ \A d \in Attempts \ {b} : attempt'[d].step # "idle" => attempt'[d].version # attempt'[b].version
                 /\ attempt'[b].step = "parse" => pieces[attempt'[b].version] = {}
      <3>1. b # a /\ attempt'[b] = attempt[b] /\ attempt[b].version \in DOMAIN versions /\ attempt[b].version # v
        BY <1>5, <2>1, <2>3 DEF Pointed
      <3> QED BY <1>3, <1>5, <2>3, <3>1 DEF CalmJobs
    <2>4. ASSUME NEW w \in DOMAIN versions
          PROVE  /\ pieces[w] # {} => jobs'[w] \in {"running", "succeeded"}
                 /\ jobs'[w] = "failed" => versions'[w].status = "failed" \/ versions'[w].content \in Repetitive
                 /\ jobs'[w] = "none" => \E c \in Senders : sender[c] = [step |-> "enqueue", version |-> w]
      BY <1>2, <1>3, <2>1, <2>2 DEF CalmJobs
    <2> QED BY <1>2, <2>3, <2>4 DEF CalmJobs
  <1>10. Lines'
    BY <1>2, LinesStay
  <1> QED BY <1>6, <1>7, <1>8, <1>9, <1>10

LEMMA ParseFailsKeeps ==
    ASSUME DocInv, NEW a \in Attempts, ParseFails(a)
    PROVE  DocInv'
  <1> DEFINE v == attempt[a].version
  <1>1. /\ attempt[a].step = "parse" /\ versions[v].content \in Unparseable /\ Raise(a, v)
        /\ SetStatus(v, "failed") /\ UNCHANGED <<single, documents, pieces, indexing, mishaps, sender>>
    BY DEF ParseFails, MarksFailed
  <1> HIDE DEF v
  <1> QED BY <1>1, RaiseKeeps DEF v

LEMMA ChunksRefusedKeeps ==
    ASSUME DocInv, NEW a \in Attempts, ChunksRefused(a)
    PROVE  DocInv'
  <1> DEFINE v == attempt[a].version
  <1>1. /\ attempt[a].step = "parse" /\ versions[v].content \notin Unparseable /\ Raise(a, v)
        /\ ~ChunksFit(v) /\ UNCHANGED <<single, documents, versions, pieces, indexing, mishaps, sender>>
    BY DEF ChunksRefused
  <1> HIDE DEF v
  <1> QED BY <1>1, RaiseKeeps DEF v

LEMMA AttemptAdvances ==
    ASSUME DocTyped, NEW a \in Attempts, attempt[a].step # "idle", NEW s \in {"ready", "index"},
           attempt' = [attempt EXCEPT ![a] = [attempt[a] EXCEPT !.step = s]]
    PROVE  /\ attempt'[a].step = s /\ attempt'[a].version = attempt[a].version
           /\ \A b \in Attempts \ {a} : attempt'[b] = attempt[b]
           /\ attempt' \in [Attempts -> AttemptState]
  <1>1. PICK u \in AttemptState : u = attempt[a]
    BY DEF DocTyped
  <1>2. /\ [u EXCEPT !.step = s] \in AttemptState
        /\ [u EXCEPT !.step = s].step = s /\ [u EXCEPT !.step = s].version = u.version
    <2>1. u.step # "idle"
      BY <1>1
    <2>2. \A r \in {"parse", "ready", "index"} :
             /\ [u EXCEPT !.step = r] \in AttemptState
             /\ [u EXCEPT !.step = r].step = r /\ [u EXCEPT !.step = r].version = u.version
      BY <2>1, AttemptForms
    <2> QED BY <2>2
  <1>3. PICK w \in AttemptState : w = [u EXCEPT !.step = s] /\ w.step = s /\ w.version = u.version
    BY <1>2
  <1>4. attempt' = [attempt EXCEPT ![a] = w] /\ attempt \in [Attempts -> AttemptState]
    BY <1>1, <1>3 DEF DocTyped
  <1> QED BY <1>1, <1>3, <1>4

LEMMA CommitChunksKeeps ==
    ASSUME DocInv, NEW a \in Attempts, CommitChunks(a)
    PROVE  DocInv'
  <1> USE DEF DocInv
  <1>1. PICK v \in DOMAIN versions : v = attempt[a].version /\ attempt[a].step = "parse"
    BY DEF CommitChunks, Pointed
  <1> DEFINE all == 1..Pieces[versions[v].content]
  <1>2. /\ versions[v].content \notin Unparseable /\ pieces[v] = {}
        /\ pieces' = [pieces EXCEPT ![v] = all]
        /\ attempt' = [attempt EXCEPT ![a] = [attempt[a] EXCEPT !.step = "ready"]]
        /\ UNCHANGED <<single, documents, versions, jobs, indexing, tries, mishaps, sender>>
    BY <1>1 DEF CommitChunks, ChunksFit, Step
  <1>3. all \in SUBSET Nat /\ all # {}
    <2>1. versions[v].content \in Uploads
      BY DocDomains DEF VersionRow
    <2>2. Pieces[versions[v].content] \in Nat \ {0}
      BY <2>1, ImportAssumption DEF ImportAssumption
    <2>3. 1 \in all
      BY <2>2
    <2> QED BY <2>2, <2>3
  <1> HIDE DEF all
  <1>4. /\ pieces' \in Seq(SUBSET Nat) /\ Len(pieces') = Len(versions) /\ pieces'[v] = all
        /\ \A w \in DOMAIN versions : w # v => pieces'[w] = pieces[w]
    <2>1. pieces \in Seq(SUBSET Nat) /\ v \in DOMAIN pieces /\ Len(pieces) = Len(versions)
      BY DocDomains DEF DocTyped
    <2>2. /\ pieces' \in Seq(SUBSET Nat) /\ Len(pieces') = Len(pieces) /\ pieces'[v] = all
          /\ \A w \in DOMAIN pieces : w # v => pieces'[w] = pieces[w]
      BY <1>2, <1>3, <2>1, RowChanges
    <2> QED BY <2>1, <2>2, DocDomains
  <1>5. /\ attempt'[a].step = "ready" /\ attempt'[a].version = v
        /\ \A b \in Attempts \ {a} : attempt'[b] = attempt[b]
        /\ attempt' \in [Attempts -> AttemptState]
    BY <1>1, <1>2, AttemptAdvances
  <1>6. DocTyped'
    BY <1>2, <1>4, <1>5 DEF DocTyped
  <1>7. Pointed'
    BY <1>1, <1>2, <1>5 DEF Pointed
  <1>8. Chunked'
    <2>1. \A b \in Attempts : attempt[b].step # "idle" => attempt[b].version \in DOMAIN versions
      BY DEF Pointed
    <2>2. \A w \in DOMAIN versions :
          /\ pieces'[w] # {} => /\ pieces'[w] = 1..Pieces[versions[w].content]
                                /\ versions[w].content \notin Unparseable
          /\ versions[w].status = "ready" => pieces'[w] # {}
          /\ w \in indexing \/ jobs[w] = "succeeded" => versions[w].status = "ready"
      BY <1>2, <1>3, <1>4 DEF Chunked, all
    <2>3. ASSUME NEW b \in Attempts
          PROVE  /\ attempt'[b].step \in {"ready", "index"} => pieces'[attempt'[b].version] # {}
                 /\ attempt'[b].step = "index" => versions[attempt'[b].version].status = "ready"
      <3>1. CASE b = a
        BY <1>3, <1>4, <1>5, <3>1
      <3>2. CASE b # a /\ attempt'[b].step \in {"ready", "index"}
        <4>1. attempt'[b] = attempt[b] /\ attempt[b].version \in DOMAIN versions
          BY <1>5, <2>1, <3>2
        <4>2. pieces[attempt[b].version] # {}
          BY <3>2, <4>1 DEF Chunked
        <4> QED BY <1>3, <1>4, <3>2, <4>1, <4>2 DEF Chunked
      <3> QED BY <3>1, <3>2
    <2> QED BY <1>2, <2>2, <2>3 DEF Chunked
  <1>9. CalmJobs'
    <2> SUFFICES ASSUME mishaps = 0 PROVE CalmJobs'
      BY <1>2 DEF CalmJobs
    <2>1. /\ jobs[v] = "running"
          /\ \A b \in Attempts \ {a} : attempt[b].step # "idle" => attempt[b].version # v
      BY <1>1 DEF CalmJobs
    <2>2. ASSUME NEW b \in Attempts, attempt'[b].step # "idle"
          PROVE  /\ jobs[attempt'[b].version] = "running"
                 /\ \A d \in Attempts \ {b} : attempt'[d].step # "idle" => attempt'[d].version # attempt'[b].version
                 /\ attempt'[b].step = "parse" => pieces'[attempt'[b].version] = {}
      <3>1. CASE b = a
        BY <1>5, <2>1, <3>1
      <3>2. CASE b # a
        <4>1. attempt'[b] = attempt[b] /\ attempt[b].version \in DOMAIN versions /\ attempt[b].version # v
          BY <1>5, <2>1, <2>2, <3>2 DEF Pointed
        <4>2. /\ jobs[attempt[b].version] = "running"
              /\ \A d \in Attempts \ {b} : attempt[d].step # "idle" => attempt[d].version # attempt[b].version
              /\ attempt[b].step = "parse" => pieces[attempt[b].version] = {}
          BY <2>2, <4>1 DEF CalmJobs
        <4>3. \A d \in Attempts \ {b} : attempt'[d].step # "idle" => attempt'[d].version # attempt'[b].version
          BY <1>5, <4>1, <4>2
        <4> QED BY <1>4, <4>1, <4>2, <4>3
      <3> QED BY <3>1, <3>2
    <2>3. \A w \in DOMAIN versions :
              /\ pieces'[w] # {} => jobs[w] \in {"running", "succeeded"}
              /\ jobs[w] = "failed" => versions[w].status = "failed" \/ versions[w].content \in Repetitive
              /\ jobs[w] = "none" => \E c \in Senders : sender[c] = [step |-> "enqueue", version |-> w]
      BY <1>4, <2>1 DEF CalmJobs
    <2> QED BY <1>2, <2>2, <2>3 DEF CalmJobs
  <1>10. Lines'
    BY <1>2, LinesStay
  <1> QED BY <1>6, <1>7, <1>8, <1>9, <1>10

LEMMA MarkReadyKeeps ==
    ASSUME DocInv, NEW a \in Attempts, MarkReady(a)
    PROVE  DocInv'
  <1> USE DEF DocInv
  <1>1. PICK v \in DOMAIN versions : v = attempt[a].version /\ attempt[a].step = "ready"
    BY DEF MarkReady, Pointed
  <1>2. /\ versions' = [versions EXCEPT ![v].status = "ready"]
        /\ attempt' = [attempt EXCEPT ![a] = [attempt[a] EXCEPT !.step = "index"]]
        /\ UNCHANGED <<single, documents, pieces, jobs, indexing, tries, mishaps, sender>>
    BY <1>1 DEF MarkReady, SetStatus, Step
  <1>3. /\ versions' \in Seq(VersionRow) /\ Len(versions') = Len(versions)
        /\ DOMAIN versions' = DOMAIN versions /\ versions'[v].status = "ready"
        /\ \A w \in DOMAIN versions :
              /\ w # v => versions'[w] = versions[w]
              /\ versions'[w].doc = versions[w].doc /\ versions'[w].no = versions[w].no
              /\ versions'[w].content = versions[w].content
    BY <1>2, StatusIsSet
  <1>4. /\ attempt'[a].step = "index" /\ attempt'[a].version = v
        /\ \A b \in Attempts \ {a} : attempt'[b] = attempt[b]
        /\ attempt' \in [Attempts -> AttemptState]
    BY <1>1, <1>2, AttemptAdvances
  <1>5. pieces[v] # {} /\ \A b \in Attempts : attempt[b].step # "idle" => attempt[b].version \in DOMAIN versions
    BY <1>1 DEF Chunked, Pointed
  <1>6. DocTyped'
    BY <1>2, <1>3, <1>4 DEF DocTyped
  <1>7. Pointed'
    BY <1>1, <1>2, <1>3, <1>4 DEF Pointed
  <1>8. Chunked'
    <2>1. \A w \in DOMAIN versions :
          /\ pieces[w] # {} => /\ pieces[w] = 1..Pieces[versions'[w].content]
                               /\ versions'[w].content \notin Unparseable
          /\ versions'[w].status = "ready" => pieces[w] # {}
          /\ w \in indexing \/ jobs[w] = "succeeded" => versions'[w].status = "ready"
      BY <1>3, <1>5 DEF Chunked
    <2>2. ASSUME NEW b \in Attempts
          PROVE  /\ attempt'[b].step \in {"ready", "index"} => pieces[attempt'[b].version] # {}
                 /\ attempt'[b].step = "index" => versions'[attempt'[b].version].status = "ready"
      <3>1. CASE b = a
        BY <1>3, <1>4, <1>5, <3>1
      <3>2. CASE b # a /\ attempt'[b].step \in {"ready", "index"}
        <4>1. attempt'[b] = attempt[b] /\ attempt[b].version \in DOMAIN versions
          BY <1>4, <1>5, <3>2
        <4>2. pieces[attempt[b].version] # {}
              /\ (attempt[b].step = "index" => versions[attempt[b].version].status = "ready")
          BY <3>2, <4>1 DEF Chunked
        <4> QED BY <1>3, <4>1, <4>2
      <3> QED BY <3>1, <3>2
    <2> QED BY <1>2, <1>3, <2>1, <2>2 DEF Chunked
  <1>9. CalmJobs'
    <2> SUFFICES ASSUME mishaps = 0 PROVE CalmJobs'
      BY <1>2 DEF CalmJobs
    <2>1. jobs[v] = "running"
          /\ \A b \in Attempts \ {a} : attempt[b].step # "idle" => attempt[b].version # v
      BY <1>1 DEF CalmJobs
    <2>2. ASSUME NEW b \in Attempts, attempt'[b].step # "idle"
          PROVE  /\ jobs[attempt'[b].version] = "running"
                 /\ \A d \in Attempts \ {b} : attempt'[d].step # "idle" => attempt'[d].version # attempt'[b].version
                 /\ attempt'[b].step = "parse" => pieces[attempt'[b].version] = {}
      <3>1. CASE b = a
        BY <1>4, <2>1, <3>1
      <3>2. CASE b # a
        BY <1>4, <2>1, <2>2, <3>2 DEF CalmJobs
      <3> QED BY <3>1, <3>2
    <2>3. \A w \in DOMAIN versions :
              /\ pieces[w] # {} => jobs[w] \in {"running", "succeeded"}
              /\ jobs[w] = "failed" => versions'[w].status = "failed" \/ versions'[w].content \in Repetitive
              /\ jobs[w] = "none" => \E c \in Senders : sender[c] = [step |-> "enqueue", version |-> w]
      BY <1>3, <2>1 DEF CalmJobs
    <2> QED BY <1>2, <1>3, <2>2, <2>3 DEF CalmJobs
  <1>10. Lines'
    BY <1>2, <1>3, LinesStay
  <1> QED BY <1>6, <1>7, <1>8, <1>9, <1>10

(* The attempt is over: it finished, or the process died.                  *)
LEMMA AttemptEnds ==
    ASSUME DocInv, NEW a \in Attempts, NEW v \in DOMAIN versions, v = attempt[a].version,
           attempt[a].step # "idle", attempt' = [attempt EXCEPT ![a] = NoAttempt],
           UNCHANGED <<single, documents, versions, pieces, tries, sender>>,
           NEW s \in {"queued", "succeeded"},
           jobs' = IF jobs[v] = "running" THEN [jobs EXCEPT ![v] = s] ELSE jobs,
           \/ s = "succeeded" /\ attempt[a].step = "index" /\ indexing' = indexing \cup {v} /\ mishaps' = mishaps
           \/ s = "queued" /\ indexing' = indexing /\ mishaps' = mishaps + 1
    PROVE  DocInv'
  <1> USE DEF DocInv
  <1>1. /\ attempt'[a].step = "idle" /\ \A b \in Attempts \ {a} : attempt'[b] = attempt[b]
        /\ attempt' \in [Attempts -> AttemptState]
    BY DEF DocTyped, NoAttempt, AttemptState
  <1>2. /\ jobs' \in Seq(JobState) /\ Len(jobs') = Len(versions)
        /\ jobs'[v] = IF jobs[v] = "running" THEN s ELSE jobs[v]
        /\ \A w \in DOMAIN versions : w # v => jobs'[w] = jobs[w]
    <2>1. CASE jobs[v] = "running"
      BY <2>1, JobIsSet DEF JobState
    <2>2. CASE jobs[v] # "running"
      BY <2>2 DEF DocTyped
    <2> QED BY <2>1, <2>2
  <1>3. s = "succeeded" => versions[v].status = "ready"
    BY DEF Chunked
  <1>4. jobs[v] # "none" /\ \A b \in Attempts : attempt[b].step # "idle" => attempt[b].version \in DOMAIN versions
    BY DEF Pointed
  <1>5. DocTyped'
    BY <1>1, <1>2 DEF DocTyped
  <1>6. Pointed'
    BY <1>1, <1>2, <1>4 DEF Pointed
  <1>7. Chunked'
    BY <1>1, <1>2, <1>3 DEF Chunked
  <1>8. CalmJobs'
    <2> SUFFICES ASSUME mishaps' = 0 PROVE CalmJobs'
      BY DEF CalmJobs
    <2>1. mishaps = 0 /\ s = "succeeded"
      BY DEF DocTyped
    <2>2. jobs[v] = "running" /\ jobs'[v] = "succeeded"
          /\ \A b \in Attempts \ {a} : attempt[b].step # "idle" => attempt[b].version # v
      BY <1>2, <2>1 DEF CalmJobs
    <2>3. ASSUME NEW b \in Attempts, attempt'[b].step # "idle"
          PROVE  /\ jobs'[attempt'[b].version] = "running"
                 /\ \A d \in Attempts \ {b} : attempt'[d].step # "idle" => attempt'[d].version # attempt'[b].version
                 /\ attempt'[b].step = "parse" => pieces[attempt'[b].version] = {}
      <3>1. b # a /\ attempt'[b] = attempt[b] /\ attempt[b].version \in DOMAIN versions /\ attempt[b].version # v
        BY <1>1, <1>4, <2>2, <2>3
      <3> QED BY <1>1, <1>2, <2>1, <2>3, <3>1 DEF CalmJobs
    <2>4. \A w \in DOMAIN versions :
              /\ pieces[w] # {} => jobs'[w] \in {"running", "succeeded"}
              /\ jobs'[w] = "failed" => versions[w].status = "failed" \/ versions[w].content \in Repetitive
              /\ jobs'[w] = "none" => \E c \in Senders : sender[c] = [step |-> "enqueue", version |-> w]
      BY <1>2, <2>1, <2>2 DEF CalmJobs
    <2> QED BY <2>3, <2>4 DEF CalmJobs
  <1>9. Lines'
    BY LinesStay
  <1> QED BY <1>5, <1>6, <1>7, <1>8, <1>9

LEMMA FinishImportKeeps ==
    ASSUME DocInv, NEW a \in Attempts, FinishImport(a)
    PROVE  DocInv'
  <1>1. PICK v \in DOMAIN versions : v = attempt[a].version /\ attempt[a].step = "index"
    BY DEF FinishImport, DocInv, Pointed
  <1>2. /\ indexing' = indexing \cup {v} /\ mishaps' = mishaps
        /\ jobs' = IF jobs[v] = "running" THEN [jobs EXCEPT ![v] = "succeeded"] ELSE jobs
        /\ attempt' = [attempt EXCEPT ![a] = NoAttempt]
        /\ UNCHANGED <<single, documents, versions, pieces, tries, sender>>
    BY <1>1 DEF FinishImport
  <1> QED BY <1>1, <1>2, AttemptEnds

LEMMA AttemptDiesKeeps ==
    ASSUME DocInv, NEW a \in Attempts, AttemptDies(a)
    PROVE  DocInv'
  <1>1. PICK v \in DOMAIN versions : v = attempt[a].version /\ attempt[a].step # "idle"
    BY DEF AttemptDies, DocInv, Pointed
  <1>2. /\ indexing' = indexing /\ mishaps' = mishaps + 1
        /\ jobs' = IF jobs[v] = "running" THEN [jobs EXCEPT ![v] = "queued"] ELSE jobs
        /\ attempt' = [attempt EXCEPT ![a] = NoAttempt]
        /\ UNCHANGED <<single, documents, versions, pieces, tries, sender>>
    <2>1. jobs' = [jobs EXCEPT ![v] = IF @ = "running" THEN "queued" ELSE @]
      BY <1>1 DEF AttemptDies
    <2>2. jobs \in Seq(JobState)
      BY DEF DocInv, DocTyped
    <2>3. jobs[v] # "running" => jobs' = jobs
      BY <2>1, <2>2
    <2> QED BY <1>1, <2>1, <2>3 DEF AttemptDies
  <1> QED BY <1>1, <1>2, AttemptEnds

LEMMA DocInvStep == DocInv /\ [DocumentsNext]_docVars => DocInv'
  <1> SUFFICES ASSUME DocInv, [DocumentsNext]_docVars PROVE DocInv'
    OBVIOUS
  <1>1. ASSUME NEW c \in Senders,
               StartUpload(c) \/ CreateDocument(c) \/ LookUpVersion(c) \/ InsertVersion(c)
                  \/ EnqueueImport(c) \/ UploadEnds(c)
        PROVE  DocInv'
    BY <1>1, StartUploadKeeps, CreateDocumentKeeps, LookUpVersionKeeps, InsertVersionKeeps,
       EnqueueImportKeeps, UploadEndsKeeps
  <1>2. ASSUME NEW a \in Attempts,
               ClaimImport(a) \/ ParseFails(a) \/ CommitChunks(a) \/ ChunksRefused(a)
                  \/ MarkReady(a) \/ FinishImport(a) \/ AttemptDies(a)
        PROVE  DocInv'
    BY <1>2, ClaimImportKeeps, ParseFailsKeeps, CommitChunksKeeps, ChunksRefusedKeeps,
       MarkReadyKeeps, FinishImportKeeps, AttemptDiesKeeps
  <1>3. CASE UNCHANGED docVars
    <2>1. UNCHANGED <<single, documents, versions, pieces, jobs, indexing, tries, mishaps, sender, attempt>>
      BY <1>3 DEF docVars
    <2>2. Lines'
      BY <2>1, LinesStay DEF DocInv
    <2>3. DocTyped'
      BY <2>1 DEF DocInv, DocTyped
    <2>4. Pointed'
      BY <2>1 DEF DocInv, Pointed
    <2>5. Chunked'
      BY <2>1 DEF DocInv, Chunked
    <2>6. CalmJobs'
      BY <2>1 DEF DocInv, CalmJobs
    <2> QED BY <2>2, <2>3, <2>4, <2>5, <2>6 DEF DocInv
  <1> QED BY <1>1, <1>2, <1>3 DEF DocumentsNext

(* A version is ready only with all chunks of its content and indexed only *)
(* when it is ready; when nothing died, a job that is over has told its    *)
(* version.  Uploads that come one at a time keep one document for each    *)
(* name, with versions numbered without gaps: ingest_document and the      *)
(* import job of app/background.py, for any uploads, attempts and crashes. *)
THEOREM DocumentsAreWhole == DocumentsSpec => []DocumentsHold
  <1>1. DocInv => DocumentsHold
    <2> SUFFICES ASSUME DocInv PROVE DocumentsHold
      OBVIOUS
    <2>1. ImportedIsWhole
      BY DEF DocInv, Chunked, CalmJobs, ImportedIsWhole
    <2>2. LineagesHold
      BY DEF DocInv, Lines, NumberedFrom, LineagesHold
    <2> QED BY <2>1, <2>2 DEF DocumentsHold
  <1> QED BY <1>1, DocInvInit, DocInvStep, PTL DEF DocumentsSpec
-----------------------------------------------------------------------------
(* Content.  While nothing lapsed, a revision has one run at most, which   *)
(* owns its job until it settled it; it can be reviewed once its content   *)
(* is there, and no run of it writes after that.                           *)

Fresh == {"generating", "generation_failed"}
Written == RevStatuses \ ({"absent"} \cup Fresh)
Pending == {"load", "body", "retry", "finish"}

(* A row is there as soon as its job is; a job that may still be tried has *)
(* tries left, and is running while its run has not settled it.            *)
RowPointed(r) ==
    /\ revision[r].version >= 1
    /\ revision[r].status = "absent" <=> contentJob[r].status = "absent"

ExportPointed(x) ==
    /\ exports[x].status = "absent" <=> contentJob[x].status = "absent"
    /\ contentJob[x].status # "absent" => exports[x].rev \in Revs

TriesLeft(t) ==
    contentJob[t].status \in {"absent", "queued", "running", "retry_wait"} => contentJob[t].retries < MaxTries

RunPointed(n) ==
    /\ work[n].at = "idle" <=> work[n].task = NoRun
    /\ work[n].at # "idle" => contentJob[work[n].task].status # "absent"
    /\ work[n].at \in Pending /\ contentJob[work[n].task].run = n =>
          contentJob[work[n].task].status = "running"

ReviewPointed(c) ==
    review[c].at = "commit" =>
        /\ review[c].rev \in Revs /\ review[c].to # "absent"
        /\ revision[review[c].rev].status # "absent"

ContentPointed ==
    /\ \A r \in Revs : RowPointed(r)
    /\ \A x \in Exports : ExportPointed(x)
    /\ \A t \in Tasks : TriesLeft(t)
    /\ \A n \in ContentRuns : RunPointed(n)
    /\ \A c \in Reviewers : ReviewPointed(c)

OneRun(r) == \A m, n \in ContentRuns : work[m].task = r /\ work[n].task = r => m = n

(* The run of a revision owns the job, and nobody has written meanwhile.   *)
RunOwns(r) ==
    \A n \in ContentRuns : work[n].task = r =>
        /\ work[n].at \in Pending => contentJob[r].status = "running" /\ contentJob[r].run = n
        /\ work[n].at \in {"load", "body", "retry", "mark"} => revision[r].status \in Fresh
        /\ work[n].at = "body" => work[n].seen.status \in Fresh
        /\ work[n].at = "finish" => revision[r].status \in Written
        /\ work[n].at = "mark" =>
              \/ contentJob[r].status = "retry_wait"
              \/ contentJob[r].status = "failed" /\ contentJob[r].retries >= MaxTries

(* Without one, the revision says how its job ended.                       *)
SaysHow(r) ==
    (\A n \in ContentRuns : work[n].task # r) =>
        /\ contentJob[r].status \in {"queued", "retry_wait"} => revision[r].status \in Fresh
        /\ contentJob[r].status = "failed" => revision[r].status = "generation_failed"
        /\ contentJob[r].status = "succeeded" => revision[r].status \in Written

(* Only what is written is reviewed, and where reviews are served one at a *)
(* time it is as the reviewer saw it.                                      *)
ReviewSeenIsSo(r) ==
    \A c \in Reviewers : review[c].at = "commit" /\ review[c].rev = r =>
        /\ revision[r].status \in Written /\ review[c].to \in Written
        /\ oneReview => review[c].to = NextStatus(review[c].verb, revision[r].status)

FollowsRun(r) == OneRun(r) /\ RunOwns(r) /\ SaysHow(r) /\ ReviewSeenIsSo(r)

AnswersOf(r) ==
    /\ {a.expected : a \in actions[r]} = 1..(revision[r].version - 1)
    /\ IsFiniteSet(actions[r]) /\ Cardinality(actions[r]) = revision[r].version - 1

(* Reviews come one at a time: each answers the version that is there.     *)
Answered ==
    oneReview =>
        /\ \A c, d \in Reviewers : review[c].at = "commit" /\ review[d].at = "commit" => c = d
        /\ \A c \in Reviewers : review[c].at = "commit" =>
              /\ review[c].expected = revision[review[c].rev].version
              /\ review[c].version = revision[review[c].rev].version
        /\ \A r \in Revs : AnswersOf(r)

ContentInv ==
    /\ ContentTypeOK /\ ContentPointed /\ Answered
    /\ \A r \in Revs \ disturbed : FollowsRun(r)

LEMMA ContentNames ==
    /\ Revs \subseteq Tasks /\ Exports \subseteq Tasks /\ Revs \cap Exports = {}
    /\ NoRun \notin Tasks /\ NoRun \notin ContentRuns
    /\ MaxTries \in Nat /\ MaxTries > 0 /\ MaxMade \in Nat /\ MaxLapses \in Nat
  BY ContentAssumption DEF ContentAssumption, Tasks

LEMMA ContentInvInit == ContentInit => ContentInv
  <1> SUFFICES ASSUME ContentInit PROVE ContentInv
    OBVIOUS
  <1>1. /\ revision = [r \in Revs |-> NoRevision] /\ actions = [r \in Revs |-> {}]
        /\ exports = [x \in Exports |-> [status |-> "absent", rev |-> NoRun, package |-> 0]]
        /\ contentJob = [t \in Tasks |-> [status |-> "absent", retries |-> 0, run |-> NoRun]]
        /\ linking = {} /\ disturbed = {} /\ work = [n \in ContentRuns |-> Resting]
        /\ review = [c \in Reviewers |-> NoReview] /\ oneReview \in BOOLEAN /\ made = 0 /\ lapses = 0
    BY DEF ContentInit
  <1>2. NoRevision \in Revision /\ Resting \in Work /\ NoReview \in Review
    BY ContentNames DEF NoRevision, Revision, Resting, Work, NothingSeen, Seen, NoReview, Review,
       RevStatuses, Qualities, Verbs
  <1>3. ContentTypeOK
    BY <1>1, <1>2, ContentNames DEF ContentTypeOK, Export, ContentJob
  <1>4. ContentPointed
    <2>1. \A r \in Revs : RowPointed(r)
      BY <1>1, ContentNames DEF RowPointed, NoRevision
    <2>2. \A x \in Exports : ExportPointed(x)
      BY <1>1, ContentNames DEF ExportPointed
    <2>3. \A t \in Tasks : TriesLeft(t)
      BY <1>1, ContentNames DEF TriesLeft
    <2>4. \A n \in ContentRuns : RunPointed(n)
      BY <1>1, ContentNames DEF RunPointed, Resting, Pending
    <2>5. \A c \in Reviewers : ReviewPointed(c)
      BY <1>1 DEF ReviewPointed, NoReview
    <2> QED BY <2>1, <2>2, <2>3, <2>4, <2>5 DEF ContentPointed
  <1>5. Answered
    <2>1. \A r \in Revs : actions[r] = {} /\ revision[r].version = 1
      BY <1>1 DEF NoRevision
    <2>2. \A r \in Revs : AnswersOf(r)
      <3> SUFFICES ASSUME NEW r \in Revs PROVE AnswersOf(r)
        OBVIOUS
      <3>1. {a.expected : a \in actions[r]} = {} /\ 1..(revision[r].version - 1) = {}
        BY <2>1
      <3>2. IsFiniteSet({}) /\ Cardinality({}) = 0
        BY FS_EmptySet
      <3>3. actions[r] = {} /\ revision[r].version - 1 = 0
        BY <2>1
      <3>4. IsFiniteSet(actions[r]) /\ Cardinality(actions[r]) = revision[r].version - 1
        BY <3>2, <3>3, Zenon
      <3>5. {a.expected : a \in actions[r]} = 1..(revision[r].version - 1)
        BY <3>1
      <3> QED BY <3>4, <3>5 DEF AnswersOf
    <2>3. \A c \in Reviewers : review[c].at = "idle"
      BY <1>1 DEF NoReview
    <2> QED BY <2>2, <2>3 DEF Answered
  <1>6. \A r \in Revs : FollowsRun(r)
    BY <1>1, ContentNames DEF FollowsRun, OneRun, RunOwns, SaysHow, ReviewSeenIsSo, NoRevision, Resting,
       NoReview, Tasks
  <1> QED BY <1>3, <1>4, <1>5, <1>6 DEF ContentInv

(* What no step touched is as it was.                                      *)
LEMMA FollowsRunStays ==
    ASSUME NEW r \in Revs, FollowsRun(r), oneReview' = oneReview,
           revision'[r].status = revision[r].status, contentJob'[r] = contentJob[r],
           \A n \in ContentRuns : work'[n].task = r \/ work[n].task = r => work'[n] = work[n],
           \A c \in Reviewers : review'[c].at = "commit" /\ review'[c].rev = r => review'[c] = review[c]
    PROVE  FollowsRun(r)'
  <1>1. OneRun(r)'
    BY DEF FollowsRun, OneRun
  <1>2. RunOwns(r)'
    BY DEF FollowsRun, RunOwns
  <1>3. SaysHow(r)'
    BY DEF FollowsRun, SaysHow
  <1>4. ReviewSeenIsSo(r)'
    BY DEF FollowsRun, ReviewSeenIsSo
  <1> QED BY <1>1, <1>2, <1>3, <1>4 DEF FollowsRun

LEMMA AnsweredStays ==
    ASSUME Answered, oneReview' = oneReview, review' = review, actions' = actions,
           \A r \in Revs : revision'[r].version = revision[r].version,
           \A c \in Reviewers : review[c].at = "commit" => review[c].rev \in Revs
    PROVE  Answered'
  <1>1. \A r \in Revs : AnswersOf(r) => AnswersOf(r)'
    BY DEF AnswersOf
  <1> QED BY <1>1 DEF Answered

LEMMA RevisionForms ==
    ASSUME NEW v \in Revision
    PROVE  /\ v.status \in RevStatuses /\ v.version \in Nat /\ v.quality \in Qualities
           /\ v.content \in 0..MaxMade /\ v.linked \in BOOLEAN
           /\ \A s \in RevStatuses : [v EXCEPT !.status = s] \in Revision
           /\ [v EXCEPT !.linked = TRUE] \in Revision
  BY DEF Revision

LEMMA JobForms ==
    ASSUME NEW j \in ContentJob
    PROVE  /\ j.status \in {"absent", "queued", "running", "retry_wait", "succeeded", "failed"}
           /\ j.retries \in 0..MaxTries /\ j.retries \in Nat /\ j.run \in ContentRuns \cup {NoRun}
           /\ \A s \in {"queued", "running", "succeeded"} :
                 [j EXCEPT !.status = s] \in ContentJob /\ [j EXCEPT !.status = s].status = s
                 /\ [j EXCEPT !.status = s].retries = j.retries /\ [j EXCEPT !.status = s].run = j.run
  BY ContentNames DEF ContentJob

LEMMA JobMoves ==
    ASSUME contentJob \in [Tasks -> ContentJob], NEW t \in Tasks, NEW s \in {"queued", "running", "succeeded"},
           contentJob' = [contentJob EXCEPT ![t].status = s]
    PROVE  /\ contentJob' \in [Tasks -> ContentJob] /\ contentJob'[t].status = s
           /\ contentJob'[t].retries = contentJob[t].retries /\ contentJob'[t].run = contentJob[t].run
           /\ \A u \in Tasks : u # t => contentJob'[u] = contentJob[u]
  <1>1. PICK j \in ContentJob : j = contentJob[t]
    OBVIOUS
  <1>2. \A u \in {"queued", "running", "succeeded"} :
           /\ [j EXCEPT !.status = u] \in ContentJob /\ [j EXCEPT !.status = u].status = u
           /\ [j EXCEPT !.status = u].retries = j.retries /\ [j EXCEPT !.status = u].run = j.run
    BY ContentNames DEF ContentJob
  <1>3. PICK k \in ContentJob : k = [j EXCEPT !.status = s] /\ k.status = s /\ k.retries = j.retries /\ k.run = j.run
    BY <1>2
  <1>4. contentJob' = [contentJob EXCEPT ![t] = k]
    BY <1>1, <1>3
  <1> QED BY <1>1, <1>3, <1>4

LEMMA StatusMoves ==
    ASSUME revision \in [Revs -> Revision], NEW r \in Revs, NEW s \in RevStatuses,
           revision' = [revision EXCEPT ![r].status = s]
    PROVE  /\ revision' \in [Revs -> Revision] /\ revision'[r].status = s
           /\ \A q \in Revs : /\ revision'[q].version = revision[q].version
                              /\ revision'[q].content = revision[q].content
                              /\ q # r => revision'[q] = revision[q]
  <1>1. PICK v \in Revision : v = revision[r]
    OBVIOUS
  <1>2. [v EXCEPT !.status = s] \in Revision
    BY RevisionForms
  <1>3. PICK w \in Revision : w = [v EXCEPT !.status = s] /\ w.status = s /\ w.version = v.version
                              /\ w.content = v.content
    BY <1>2 DEF Revision
  <1>4. revision' = [revision EXCEPT ![r] = w]
    BY <1>1, <1>3
  <1> QED BY <1>1, <1>3, <1>4

LEMMA WorkForms ==
    ASSUME NEW w \in Work
    PROVE  /\ w.at \in {"idle", "load", "body", "finish", "retry", "mark"}
           /\ w.task \in Tasks \cup {NoRun} /\ w.seen \in Seen /\ w.counted \in BOOLEAN
           /\ w.seen.status \in RevStatuses /\ w.seen.quality \in Qualities /\ w.seen.content \in 0..MaxMade
  BY DEF Work, Seen

LEMMA CreateGenerationKeeps ==
    ASSUME ContentInv, NEW r \in Revs, CreateGeneration(r)
    PROVE  ContentInv'
  <1> USE DEF ContentInv
  <1>1. /\ revision[r].status = "absent"
        /\ revision' = [revision EXCEPT ![r].status = "generating"]
        /\ contentJob' = [contentJob EXCEPT ![r].status = "queued"] /\ linking' = linking \cup {r}
        /\ UNCHANGED <<actions, exports, work, review, oneReview, disturbed, made, lapses>>
    BY DEF CreateGeneration
  <1>0. contentJob[r].status = "absent" /\ \A n \in ContentRuns : work[n].task # r
    <2>1. contentJob[r].status = "absent"
      BY <1>1 DEF ContentPointed, RowPointed
    <2>2. \A n \in ContentRuns : RunPointed(n)
      BY DEF ContentPointed
    <2> QED BY <2>1, <2>2, ContentNames DEF RunPointed
  <1>2. /\ revision' \in [Revs -> Revision] /\ revision'[r].status = "generating"
        /\ \A q \in Revs : /\ revision'[q].version = revision[q].version
                           /\ q # r => revision'[q] = revision[q]
    BY <1>1, StatusMoves DEF ContentTypeOK, RevStatuses
  <1>3. /\ contentJob' \in [Tasks -> ContentJob] /\ contentJob'[r].status = "queued"
        /\ contentJob'[r].retries = contentJob[r].retries /\ contentJob'[r].run = contentJob[r].run
        /\ \A t \in Tasks : t # r => contentJob'[t] = contentJob[t]
    BY <1>1, ContentNames, JobMoves DEF ContentTypeOK
  <1>4. ContentTypeOK'
    BY <1>1, <1>2, <1>3 DEF ContentTypeOK
  <1>5. Answered'
    BY <1>1, <1>2, AnsweredStays DEF ContentPointed, ReviewPointed
  <1>6. ASSUME NEW q \in Revs \ disturbed PROVE FollowsRun(q)'
    <2>0. FollowsRun(q)
      OBVIOUS
    <2>1. CASE q # r
      BY <1>1, <1>2, <1>3, <2>0, <2>1, ContentNames, FollowsRunStays
    <2>2. CASE q = r
      <3>1. \A n \in ContentRuns : work[n].task # r
        BY <1>0
      <3>2. \A c \in Reviewers : review[c].at = "commit" => review[c].rev # r
        BY <1>1, <2>0, <2>2 DEF FollowsRun, ReviewSeenIsSo, Written
      <3> QED BY <1>1, <1>2, <1>3, <2>2, <3>1, <3>2
              DEF FollowsRun, OneRun, RunOwns, SaysHow, ReviewSeenIsSo, Fresh
    <2> QED BY <2>1, <2>2
  <1>7. ContentPointed'
    <2>1. \A q \in Revs : RowPointed(q)'
      BY <1>2, <1>3, ContentNames DEF ContentPointed, RowPointed
    <2>2. \A x \in Exports : ExportPointed(x)'
      BY <1>1, <1>3, ContentNames DEF ContentPointed, ExportPointed
    <2>3. \A t \in Tasks : TriesLeft(t)'
      BY <1>0, <1>3, ContentNames DEF ContentPointed, TriesLeft
    <2>4. \A n \in ContentRuns : RunPointed(n)'
      BY <1>0, <1>1, <1>3, ContentNames DEF ContentPointed, RunPointed, ContentTypeOK, Work, Pending
    <2>5. \A c \in Reviewers : ReviewPointed(c)'
      BY <1>1, <1>2 DEF ContentPointed, ReviewPointed
    <2> QED BY <2>1, <2>2, <2>3, <2>4, <2>5 DEF ContentPointed
  <1> QED BY <1>1, <1>4, <1>5, <1>6, <1>7

LEMMA LinkJobKeeps ==
    ASSUME ContentInv, NEW r \in Revs, LinkJob(r)
    PROVE  ContentInv'
  <1> USE DEF ContentInv
  <1>1. /\ linking' = linking \ {r} /\ revision' = [revision EXCEPT ![r].linked = TRUE]
        /\ UNCHANGED <<actions, exports, contentJob, work, review, oneReview, disturbed, made, lapses>>
    BY DEF LinkJob
  <1>2. /\ revision' \in [Revs -> Revision]
        /\ \A q \in Revs : /\ revision'[q].version = revision[q].version
                           /\ revision'[q].status = revision[q].status
    <2>1. revision \in [Revs -> Revision] /\ revision' = [revision EXCEPT ![r] = [revision[r] EXCEPT !.linked = TRUE]]
      BY <1>1 DEF ContentTypeOK
    <2>2. [revision[r] EXCEPT !.linked = TRUE] \in Revision
      BY <2>1, RevisionForms
    <2>3. /\ [revision[r] EXCEPT !.linked = TRUE].version = revision[r].version
          /\ [revision[r] EXCEPT !.linked = TRUE].status = revision[r].status
      BY <2>1 DEF Revision
    <2> QED BY <2>1, <2>2, <2>3
  <1>3. ContentTypeOK'
    BY <1>1, <1>2 DEF ContentTypeOK
  <1>4. Answered'
    BY <1>1, <1>2, AnsweredStays DEF ContentPointed, ReviewPointed
  <1>5. \A q \in Revs \ disturbed : FollowsRun(q)'
    BY <1>1, <1>2, FollowsRunStays
  <1>6. ContentPointed'
    <2>1. \A q \in Revs : RowPointed(q) => RowPointed(q)'
      BY <1>1, <1>2 DEF RowPointed
    <2>2. \A x \in Exports : ExportPointed(x) => ExportPointed(x)'
      BY <1>1 DEF ExportPointed
    <2>3. \A t \in Tasks : TriesLeft(t) => TriesLeft(t)'
      BY <1>1 DEF TriesLeft
    <2>4. \A n \in ContentRuns : RunPointed(n) => RunPointed(n)'
      BY <1>1 DEF RunPointed
    <2>5. \A c \in Reviewers : ReviewPointed(c) => ReviewPointed(c)'
      BY <1>1, <1>2 DEF ReviewPointed
    <2> QED BY <2>1, <2>2, <2>3, <2>4, <2>5 DEF ContentPointed
  <1> QED BY <1>1, <1>3, <1>4, <1>5, <1>6

LEMMA RequestExportKeeps ==
    ASSUME ContentInv, NEW x \in Exports, NEW r \in Revs, RequestExport(x, r)
    PROVE  ContentInv'
  <1> USE DEF ContentInv
  <1>1. /\ exports' = [exports EXCEPT ![x] = [status |-> "queued", rev |-> r, package |-> 0]]
        /\ contentJob' = [contentJob EXCEPT ![x].status = "queued"]
        /\ UNCHANGED <<revision, actions, linking, work, review, oneReview, disturbed, made, lapses>>
    BY DEF RequestExport
  <1>2. /\ contentJob' \in [Tasks -> ContentJob] /\ contentJob'[x].status = "queued"
        /\ contentJob'[x].retries = contentJob[x].retries /\ contentJob'[x].run = contentJob[x].run
        /\ \A t \in Tasks : t # x => contentJob'[t] = contentJob[t]
    BY <1>1, ContentNames, JobMoves DEF ContentTypeOK
  <1>3. /\ exports' \in [Exports -> Export] /\ exports'[x].rev = r /\ exports'[x].status = "queued"
        /\ \A y \in Exports : y # x => exports'[y] = exports[y]
    <2>1. [status |-> "queued", rev |-> r, package |-> 0] \in Export
      BY ContentNames DEF Export
    <2> QED BY <1>1, <2>1 DEF ContentTypeOK
  <1>4. ContentTypeOK'
    BY <1>1, <1>2, <1>3 DEF ContentTypeOK
  <1>5. Answered'
    BY <1>1, AnsweredStays DEF ContentPointed, ReviewPointed
  <1>6. \A q \in Revs \ disturbed : FollowsRun(q)'
    <2> SUFFICES ASSUME NEW q \in Revs \ disturbed PROVE FollowsRun(q)'
      OBVIOUS
    <2>1. FollowsRun(q) /\ contentJob'[q] = contentJob[q]
      BY <1>2, ContentNames
    <2> QED BY <1>1, <2>1, FollowsRunStays
  <1>7. ContentPointed'
    <2>0. contentJob[x].status = "absent"
      BY DEF RequestExport, ContentPointed, ExportPointed
    <2>1. \A q \in Revs : RowPointed(q)'
      BY <1>1, <1>2, ContentNames DEF ContentPointed, RowPointed
    <2>2. \A y \in Exports : ExportPointed(y)'
      BY <1>2, <1>3, ContentNames DEF ContentPointed, ExportPointed
    <2>3. \A t \in Tasks : TriesLeft(t)'
      BY <1>2, <2>0, ContentNames DEF ContentPointed, TriesLeft
    <2>4. \A n \in ContentRuns : RunPointed(n)'
      BY <1>1, <1>2, <2>0, ContentNames DEF ContentPointed, RunPointed, ContentTypeOK, Work, Pending
    <2>5. \A c \in Reviewers : ReviewPointed(c)'
      BY <1>1 DEF ContentPointed, ReviewPointed
    <2> QED BY <2>1, <2>2, <2>3, <2>4, <2>5 DEF ContentPointed
  <1> QED BY <1>1, <1>4, <1>5, <1>6, <1>7

LEMMA StartReviewKeeps ==
    ASSUME ContentInv, NEW c \in Reviewers, NEW r \in Revs, NEW verb \in Verbs, NEW expected \in 1..MaxReviewed,
           StartReview(c, r, verb, expected)
    PROVE  ContentInv'
  <1> USE DEF ContentInv
  <1> DEFINE call == [at |-> "commit", rev |-> r, verb |-> verb, expected |-> expected,
                      to |-> NextStatus(verb, revision[r].status), version |-> revision[r].version]
  <1>1. /\ oneReview => \A d \in Reviewers : review[d].at = "idle"
        /\ review' = [review EXCEPT ![c] = call] /\ Reviewable(r, verb, expected)
        /\ UNCHANGED <<revision, actions, exports, contentJob, linking, work, oneReview, disturbed, made, lapses>>
    BY DEF StartReview
  <1>2. /\ revision[r] \in Revision /\ revision[r].version = expected /\ expected \in Nat
        /\ NextStatus(verb, revision[r].status) # "absent"
    BY <1>1, ContentAssumption DEF Reviewable, ContentTypeOK, ContentAssumption
  <1>3. /\ NextStatus(verb, revision[r].status) \in Written
        /\ revision[r].status \in Written
    BY <1>2 DEF NextStatus, Written, RevStatuses, Fresh
  <1>4. call \in Review
    BY <1>2, <1>3 DEF Review, Written
  <1>5. /\ call.at = "commit" /\ call.rev = r /\ call.verb = verb /\ call.expected = revision[r].version
        /\ call.version = revision[r].version /\ call.to = NextStatus(verb, revision[r].status)
    BY <1>2
  <1> HIDE DEF call
  <1>6. /\ review' \in [Reviewers -> Review] /\ review'[c] = call
        /\ \A d \in Reviewers : d # c => review'[d] = review[d]
    BY <1>1, <1>4 DEF ContentTypeOK
  <1>7. ContentTypeOK'
    BY <1>1, <1>6 DEF ContentTypeOK
  <1>8. Answered'
    <2> SUFFICES ASSUME oneReview PROVE Answered'
      BY <1>1 DEF Answered
    <2>1. \A q \in Revs : AnswersOf(q)'
      BY <1>1 DEF Answered, AnswersOf
    <2> QED BY <1>1, <1>5, <1>6, <2>1 DEF Answered
  <1>9. ASSUME NEW q \in Revs \ disturbed PROVE FollowsRun(q)'
    <2>0. FollowsRun(q)
      OBVIOUS
    <2>1. CASE q # r
      BY <1>1, <1>5, <1>6, <2>0, <2>1, FollowsRunStays
    <2>2. CASE q = r
      <3>1. OneRun(r)' /\ RunOwns(r)' /\ SaysHow(r)'
        BY <1>1, <2>0, <2>2 DEF FollowsRun, OneRun, RunOwns, SaysHow
      <3>2. ReviewSeenIsSo(r)'
        BY <1>1, <1>3, <1>5, <1>6, <2>0, <2>2 DEF FollowsRun, ReviewSeenIsSo
      <3> QED BY <2>2, <3>1, <3>2 DEF FollowsRun
    <2> QED BY <2>1, <2>2
  <1>10. ContentPointed'
    <2>1. \A q \in Revs : RowPointed(q)'
      BY <1>1 DEF ContentPointed, RowPointed
    <2>2. \A x \in Exports : ExportPointed(x)'
      BY <1>1 DEF ContentPointed, ExportPointed
    <2>3. \A t \in Tasks : TriesLeft(t)'
      BY <1>1 DEF ContentPointed, TriesLeft
    <2>4. \A n \in ContentRuns : RunPointed(n)'
      BY <1>1 DEF ContentPointed, RunPointed
    <2>5. \A d \in Reviewers : ReviewPointed(d)'
      BY <1>1, <1>3, <1>5, <1>6 DEF ContentPointed, ReviewPointed, Written
    <2> QED BY <2>1, <2>2, <2>3, <2>4, <2>5 DEF ContentPointed
  <1> QED BY <1>1, <1>7, <1>8, <1>9, <1>10

LEMMA CommitReviewKeeps ==
    ASSUME ContentInv, NEW c \in Reviewers, CommitReview(c)
    PROVE  ContentInv'
  <1> USE DEF ContentInv
  <1>1. PICK call \in Review : call = review[c]
    BY DEF ContentTypeOK
  <1>2. PICK r \in Revs : r = call.rev
    BY <1>1 DEF CommitReview, ContentPointed, ReviewPointed
  <1> DEFINE act == [verb |-> call.verb, expected |-> call.expected]
  <1>3. /\ call.at = "commit"
        /\ revision' = [revision EXCEPT ![r].status = call.to, ![r].version = call.version + 1]
        /\ actions' = [actions EXCEPT ![r] = @ \cup {act}]
        /\ review' = [review EXCEPT ![c] = NoReview]
        /\ UNCHANGED <<exports, contentJob, linking, work, oneReview, disturbed, made, lapses>>
    BY <1>1, <1>2 DEF CommitReview
  <1>4. /\ call.to \in RevStatuses /\ call.to # "absent" /\ revision[r].status # "absent"
        /\ call.version \in Nat /\ call.verb \in Verbs /\ call.expected \in Nat
    BY <1>1, <1>2, <1>3 DEF Review, ContentPointed, ReviewPointed
  <1>5. PICK v \in Revision : v = revision[r]
    BY DEF ContentTypeOK
  <1>6. PICK w \in Revision : /\ w = [v EXCEPT !.status = call.to, !.version = call.version + 1]
                              /\ w.status = call.to /\ w.version = call.version + 1
    <2> DEFINE new == [v EXCEPT !.status = call.to, !.version = call.version + 1]
    <2>1. call.version + 1 \in Nat
      BY <1>4
    <2>2. new \in Revision /\ new.status = call.to /\ new.version = call.version + 1
      BY <1>4, <2>1 DEF Revision
    <2> QED BY <2>2
  <1>7. revision' = [revision EXCEPT ![r] = w]
    BY <1>3, <1>5, <1>6
  <1>8. /\ revision' \in [Revs -> Revision] /\ revision'[r].status = call.to
        /\ revision'[r].version = call.version + 1
        /\ \A q \in Revs : q # r => revision'[q] = revision[q]
    BY <1>6, <1>7 DEF ContentTypeOK
  <1>9. /\ review' \in [Reviewers -> Review] /\ review'[c].at = "idle"
        /\ \A d \in Reviewers : d # c => review'[d] = review[d]
    <2>1. NoReview \in Review /\ NoReview.at = "idle"
      BY ContentNames DEF NoReview, Review, RevStatuses, Verbs
    <2> QED BY <1>3, <2>1 DEF ContentTypeOK
  <1>10. /\ actions' \in [Revs -> SUBSET [verb : Verbs, expected : Nat]]
         /\ \A q \in Revs : q # r => actions'[q] = actions[q]
         /\ actions'[r] = actions[r] \cup {act}
    <2>1. act \in [verb : Verbs, expected : Nat]
      BY <1>4
    <2> HIDE DEF act
    <2> QED BY <1>3, <2>1 DEF ContentTypeOK
  <1>11. ContentTypeOK'
    BY <1>3, <1>8, <1>9, <1>10 DEF ContentTypeOK
  <1>12. Answered'
    <2> SUFFICES ASSUME oneReview PROVE Answered'
      BY <1>3 DEF Answered
    <2>1. \A q \in Revs : q # r => AnswersOf(q)'
      BY <1>8, <1>10 DEF Answered, AnswersOf
    <2>2. AnswersOf(r)'
      <3>1. call.expected = revision[r].version /\ call.version = revision[r].version
        BY <1>1, <1>2, <1>3 DEF Answered
      <3>2. AnswersOf(r) /\ revision[r].version \in Nat /\ revision[r].version >= 1
        BY <1>5 DEF Answered, Revision, ContentPointed, RowPointed
      <3> DEFINE ver == revision[r].version
      <3>3. ver \in Nat /\ ver >= 1 /\ revision'[r].version = ver + 1 /\ act.expected = ver
        BY <1>8, <3>1, <3>2
      <3>4. act \notin actions[r]
        <4>1. \A a \in actions[r] : a.expected \in 1..(ver - 1)
          BY <3>2 DEF AnswersOf
        <4> QED BY <3>3, <4>1
      <3>5. IsFiniteSet(actions[r]) /\ Cardinality(actions[r]) = ver - 1
        BY <3>2 DEF AnswersOf
      <3>6. IsFiniteSet(actions'[r]) /\ Cardinality(actions'[r]) = (ver - 1) + 1
        <4> DEFINE A == actions[r]
        <4>1. actions'[r] = A \cup {act} /\ act \notin A /\ IsFiniteSet(A) /\ Cardinality(A) = ver - 1
          BY <1>10, <3>4, <3>5
        <4> HIDE DEF A, act, ver
        <4>2. IsFiniteSet(A \cup {act}) /\ Cardinality(A \cup {act}) = Cardinality(A) + 1
          BY <4>1, FS_AddElement
        <4> QED BY <4>1, <4>2
      <3>7. {a.expected : a \in actions'[r]} = {a.expected : a \in actions[r]} \cup {ver}
        BY <1>10, <3>3
      <3>8. {a.expected : a \in actions[r]} = 1..(ver - 1)
        BY <3>2 DEF AnswersOf
      <3>9. (1..(ver - 1)) \cup {ver} = 1..ver
        BY <3>3
      <3> HIDE DEF ver, act
      <3>10. (ver - 1) + 1 = ver /\ (ver + 1) - 1 = ver
        BY <3>3
      <3> QED BY <3>3, <3>6, <3>7, <3>8, <3>9, <3>10 DEF AnswersOf
    <2>3. \A d \in Reviewers : review'[d].at # "commit"
      BY <1>1, <1>3, <1>9 DEF Answered
    <2> QED BY <2>1, <2>2, <2>3 DEF Answered
  <1>13. ASSUME NEW q \in Revs \ disturbed PROVE FollowsRun(q)'
    <2>0. FollowsRun(q)
      OBVIOUS
    <2>1. CASE q # r
      BY <1>3, <1>8, <1>9, <2>0, <2>1, FollowsRunStays
    <2>2. CASE q = r
      <3>1. revision[r].status \in Written /\ call.to \in Written
        BY <1>1, <1>2, <1>3, <2>0, <2>2 DEF FollowsRun, ReviewSeenIsSo
      <3>2. /\ revision[r].status \notin Fresh /\ revision[r].status # "generation_failed"
            /\ revision'[r].status \in Written
        BY <1>8, <3>1 DEF Written, Fresh
      <3>3. OneRun(r)'
        BY <1>3, <2>0, <2>2 DEF FollowsRun, OneRun
      <3>4. RunOwns(r)'
        BY <1>3, <2>0, <2>2, <3>2 DEF FollowsRun, RunOwns
      <3>5. SaysHow(r)'
        BY <1>3, <2>0, <2>2, <3>2 DEF FollowsRun, SaysHow
      <3>6. ReviewSeenIsSo(r)'
        <4>1. ASSUME NEW d \in Reviewers, review'[d].at = "commit", review'[d].rev = r
              PROVE  review'[d].to \in Written /\ ~oneReview
          <5>1. d # c /\ review[d].at = "commit" /\ review[d].rev = r /\ review'[d] = review[d]
            BY <1>9, <4>1
          <5>2. ~oneReview
            BY <1>1, <1>3, <5>1 DEF Answered
          <5> QED BY <2>0, <2>2, <5>1, <5>2 DEF FollowsRun, ReviewSeenIsSo
        <4> QED BY <1>3, <3>2, <4>1 DEF ReviewSeenIsSo
      <3> QED BY <2>2, <3>3, <3>4, <3>5, <3>6 DEF FollowsRun
    <2> QED BY <2>1, <2>2
  <1>14. ContentPointed'
    <2>1. \A q \in Revs : RowPointed(q)'
      BY <1>3, <1>4, <1>8 DEF ContentPointed, RowPointed
    <2>2. \A x \in Exports : ExportPointed(x)'
      BY <1>3 DEF ContentPointed, ExportPointed
    <2>3. \A t \in Tasks : TriesLeft(t)'
      BY <1>3 DEF ContentPointed, TriesLeft
    <2>4. \A n \in ContentRuns : RunPointed(n)'
      BY <1>3 DEF ContentPointed, RunPointed
    <2>5. \A d \in Reviewers : ReviewPointed(d)'
      BY <1>4, <1>8, <1>9 DEF ContentPointed, ReviewPointed
    <2> QED BY <2>1, <2>2, <2>3, <2>4, <2>5 DEF ContentPointed
  <1> QED BY <1>3, <1>11, <1>12, <1>13, <1>14

(* The worker and the lapses *)

LEMMA AfterAttemptForms ==
    ASSUME NEW j \in ContentJob, j.retries < MaxTries, NEW counted \in BOOLEAN, NEW k, k = AfterAttempt(j, counted)
    PROVE  /\ k \in ContentJob /\ [k EXCEPT !.run = NoRun] \in ContentJob
           /\ \/ k.status = "retry_wait" /\ k.retries < MaxTries /\ k.run = NoRun
              \/ k.status = "failed" /\ k.retries >= MaxTries /\ k.run = j.run
           /\ [k EXCEPT !.run = NoRun].run = NoRun /\ [k EXCEPT !.run = NoRun].status = k.status
           /\ [k EXCEPT !.run = NoRun].retries = k.retries
  <1> DEFINE tried == IF counted THEN j.retries + 1 ELSE j.retries
  <1>1. tried \in 0..MaxTries
    <2>1. j.retries \in Nat
      BY JobForms
    <2> QED BY <2>1, ContentNames
  <1>2. CASE tried >= MaxTries
    <2>1. k = [j EXCEPT !.status = "failed", !.retries = tried]
      BY <1>2 DEF AfterAttempt
    <2> HIDE DEF tried
    <2> QED BY <1>1, <1>2, <2>1, ContentNames DEF ContentJob
  <1>3. CASE ~(tried >= MaxTries)
    <2>1. k = [status |-> "retry_wait", retries |-> tried, run |-> NoRun]
      BY <1>3 DEF AfterAttempt
    <2> HIDE DEF tried
    <2> QED BY <1>1, <1>3, <2>1, ContentNames DEF ContentJob
  <1> QED BY <1>2, <1>3

(* No step but a review's touches what was answered or is being reviewed.  *)
LEMMA ContentPointedStays ==
    ASSUME ContentInv, UNCHANGED <<review, actions, oneReview>>,
           \A r \in Revs : revision'[r].version = revision[r].version,
           \A r \in Revs : revision[r].status # "absent" => revision'[r].status # "absent",
           \A r \in Revs : RowPointed(r)',
           \A x \in Exports : ExportPointed(x)',
           \A t \in Tasks : TriesLeft(t)',
           \A n \in ContentRuns : RunPointed(n)'
    PROVE  Answered' /\ ContentPointed'
  <1>1. \A c \in Reviewers : ReviewPointed(c)'
    BY DEF ContentInv, ContentPointed, ReviewPointed
  <1>2. Answered'
    BY AnsweredStays DEF ContentInv, ContentPointed, ReviewPointed
  <1> QED BY <1>1, <1>2 DEF ContentPointed

LEMMA CrashContentKeeps ==
    ASSUME ContentInv, CrashContent
    PROVE  ContentInv'
  <1> USE DEF ContentInv
  <1>1. /\ lapses < MaxLapses /\ lapses' = lapses + 1
        /\ disturbed' = disturbed \cup linking \cup (Revs \cap {work[n].task : n \in ContentRuns})
        /\ linking' = {} /\ work' = [n \in ContentRuns |-> Resting]
        /\ review' = [c \in Reviewers |-> NoReview]
        /\ UNCHANGED <<revision, actions, exports, contentJob, oneReview, made>>
    BY DEF CrashContent
  <1>2. /\ Resting \in Work /\ NoReview \in Review /\ Resting.at = "idle" /\ Resting.task = NoRun
        /\ NoReview.at = "idle"
    BY ContentNames DEF Resting, Work, NothingSeen, Seen, NoReview, Review, RevStatuses, Qualities, Verbs
  <1>3. /\ \A n \in ContentRuns : work'[n].at = "idle" /\ work'[n].task = NoRun
        /\ \A c \in Reviewers : review'[c].at = "idle"
    BY <1>1, <1>2
  <1>4. ContentTypeOK'
    <2>1. lapses' \in 0..MaxLapses
      BY <1>1, ContentNames DEF ContentTypeOK
    <2>2. work' \in [ContentRuns -> Work] /\ review' \in [Reviewers -> Review]
          /\ disturbed' \subseteq Revs /\ linking' \subseteq Revs
      BY <1>1, <1>2 DEF ContentTypeOK
    <2> QED BY <1>1, <2>1, <2>2 DEF ContentTypeOK
  <1>5. Answered'
    BY <1>1, <1>3 DEF Answered, AnswersOf
  <1>6. ASSUME NEW q \in Revs \ disturbed' PROVE FollowsRun(q)'
    <2>1. FollowsRun(q) /\ q \notin {work[n].task : n \in ContentRuns}
      BY <1>1
    <2>2. \A n \in ContentRuns : work[n].task # q /\ work'[n].task # q
      BY <1>3, <2>1, ContentNames
    <2> QED BY <1>1, <1>3, <2>1, <2>2 DEF FollowsRun, OneRun, RunOwns, SaysHow, ReviewSeenIsSo
  <1>7. ContentPointed'
    <2>1. \A q \in Revs : RowPointed(q)'
      BY <1>1 DEF ContentPointed, RowPointed
    <2>2. \A x \in Exports : ExportPointed(x)'
      BY <1>1 DEF ContentPointed, ExportPointed
    <2>3. \A t \in Tasks : TriesLeft(t)'
      BY <1>1 DEF ContentPointed, TriesLeft
    <2>4. \A n \in ContentRuns : RunPointed(n)'
      BY <1>3 DEF RunPointed, Pending
    <2>5. \A c \in Reviewers : ReviewPointed(c)'
      BY <1>3 DEF ReviewPointed
    <2> QED BY <2>1, <2>2, <2>3, <2>4, <2>5 DEF ContentPointed
  <1> QED BY <1>4, <1>5, <1>6, <1>7

LEMMA LapseContentLeaseKeeps ==
    ASSUME ContentInv, NEW t \in Tasks, LapseContentLease(t)
    PROVE  ContentInv'
  <1> USE DEF ContentInv
  <1>1. /\ lapses < MaxLapses /\ contentJob[t].status = "running" /\ lapses' = lapses + 1
        /\ contentJob' = [contentJob EXCEPT ![t] = [AfterAttempt(contentJob[t], TRUE) EXCEPT !.run = NoRun]]
        /\ disturbed' = disturbed \cup ({t} \cap Revs)
        /\ UNCHANGED <<revision, actions, exports, linking, work, review, oneReview, made>>
    BY DEF LapseContentLease
  <1>2. PICK j \in ContentJob : j = contentJob[t] /\ j.retries < MaxTries
    BY <1>1 DEF ContentTypeOK, ContentPointed, TriesLeft
  <1>3. PICK k \in ContentJob :
            /\ k = [AfterAttempt(j, TRUE) EXCEPT !.run = NoRun] /\ k.run = NoRun
            /\ k.status \in {"retry_wait", "failed"} /\ (k.status = "retry_wait" => k.retries < MaxTries)
    <2> DEFINE after == AfterAttempt(j, TRUE)
    <2>1. TRUE \in BOOLEAN
      OBVIOUS
    <2>2. /\ [after EXCEPT !.run = NoRun] \in ContentJob
          /\ \/ after.status = "retry_wait" /\ after.retries < MaxTries
             \/ after.status = "failed"
          /\ [after EXCEPT !.run = NoRun].run = NoRun /\ [after EXCEPT !.run = NoRun].status = after.status
          /\ [after EXCEPT !.run = NoRun].retries = after.retries
      BY <1>2, <2>1, AfterAttemptForms
    <2> HIDE DEF after
    <2>3. PICK k \in ContentJob : k = [after EXCEPT !.run = NoRun] /\ k.run = NoRun
                                 /\ k.status = after.status /\ k.retries = after.retries
      BY <2>2
    <2> QED BY <2>2, <2>3 DEF after
  <1>4. /\ contentJob' \in [Tasks -> ContentJob] /\ contentJob'[t] = k
        /\ \A u \in Tasks : u # t => contentJob'[u] = contentJob[u]
    BY <1>1, <1>2, <1>3 DEF ContentTypeOK
  <1>5. ContentTypeOK'
    <2>1. lapses' \in 0..MaxLapses
      BY <1>1, ContentNames DEF ContentTypeOK
    <2>2. disturbed' \subseteq Revs
      BY <1>1 DEF ContentTypeOK
    <2> QED BY <1>1, <1>4, <2>1, <2>2 DEF ContentTypeOK
  <1>6. ASSUME NEW q \in Revs \ disturbed' PROVE FollowsRun(q)'
    <2>1. FollowsRun(q) /\ q # t /\ q \in Tasks
      BY <1>1, ContentNames
    <2> QED BY <1>1, <1>4, <2>1, FollowsRunStays
  <1>7. Answered' /\ ContentPointed'
    <2>1. \A q \in Revs : RowPointed(q)'
      BY <1>1, <1>3, <1>4, ContentNames DEF ContentPointed, RowPointed
    <2>2. \A x \in Exports : ExportPointed(x)'
      BY <1>1, <1>3, <1>4, ContentNames DEF ContentPointed, ExportPointed
    <2>3. \A u \in Tasks : TriesLeft(u)'
      BY <1>3, <1>4 DEF ContentPointed, TriesLeft
    <2>4. \A n \in ContentRuns : RunPointed(n)'
      <3> SUFFICES ASSUME NEW n \in ContentRuns PROVE RunPointed(n)'
        OBVIOUS
      <3>1. RunPointed(n) /\ work'[n] = work[n] /\ work[n].task \in Tasks \cup {NoRun} /\ n # NoRun
        BY <1>1, ContentNames DEF ContentPointed, ContentTypeOK, Work
      <3>2. CASE work[n].task = t
        BY <1>3, <1>4, <3>1, <3>2 DEF RunPointed
      <3>3. CASE work[n].task # t /\ work[n].task \in Tasks
        BY <1>4, <3>1, <3>3 DEF RunPointed
      <3>4. CASE work[n].task = NoRun
        BY <3>1, <3>4 DEF RunPointed, Pending
      <3> QED BY <3>1, <3>2, <3>3, <3>4
    <2> QED BY <1>1, <2>1, <2>2, <2>3, <2>4, ContentPointedStays
  <1> QED BY <1>5, <1>6, <1>7

LEMMA ClaimContentJobKeeps ==
    ASSUME ContentInv, NEW n \in ContentRuns, NEW t \in Tasks, ClaimContentJob(n, t)
    PROVE  ContentInv'
  <1> USE DEF ContentInv
  <1> DEFINE w == [Resting EXCEPT !.at = "load", !.task = t]
  <1>1. /\ work[n].at = "idle" /\ contentJob[t].status \in {"queued", "retry_wait"}
        /\ disturbed' = IF \E m \in ContentRuns : work[m].task = t THEN disturbed \cup ({t} \cap Revs)
                        ELSE disturbed
        /\ contentJob' = [contentJob EXCEPT ![t].status = "running", ![t].run = n]
        /\ work' = [work EXCEPT ![n] = w]
        /\ UNCHANGED <<revision, actions, exports, linking, review, oneReview, made, lapses>>
    BY DEF ClaimContentJob, Runnable
  <1>2. w \in Work /\ w.at = "load" /\ w.task = t
    <2>1. NothingSeen \in Seen
      BY ContentNames DEF NothingSeen, Seen, RevStatuses, Qualities
    <2>2. PICK rest \in Work : rest = Resting
      BY <2>1 DEF Resting, Work
    <2>3. /\ [rest EXCEPT !.at = "load", !.task = t] \in Work
          /\ [rest EXCEPT !.at = "load", !.task = t].at = "load"
          /\ [rest EXCEPT !.at = "load", !.task = t].task = t
      BY DEF Work
    <2> QED BY <2>2, <2>3
  <1> HIDE DEF w
  <1>3. /\ work' \in [ContentRuns -> Work] /\ work'[n] = w
        /\ \A m \in ContentRuns : m # n => work'[m] = work[m]
    BY <1>1, <1>2 DEF ContentTypeOK
  <1>4. PICK j \in ContentJob : j = contentJob[t] /\ j.retries < MaxTries
    BY <1>1 DEF ContentTypeOK, ContentPointed, TriesLeft
  <1>5. PICK k \in ContentJob : /\ k = [j EXCEPT !.status = "running", !.run = n]
                                /\ k.status = "running" /\ k.run = n /\ k.retries = j.retries
    <2> DEFINE claimed == [j EXCEPT !.status = "running", !.run = n]
    <2>1. claimed \in ContentJob /\ claimed.status = "running" /\ claimed.run = n /\ claimed.retries = j.retries
      BY DEF ContentJob
    <2> QED BY <2>1
  <1>6. /\ contentJob' \in [Tasks -> ContentJob] /\ contentJob'[t] = k
        /\ \A u \in Tasks : u # t => contentJob'[u] = contentJob[u]
    BY <1>1, <1>4, <1>5 DEF ContentTypeOK
  <1>7. work[n].task = NoRun
    BY <1>1 DEF ContentPointed, RunPointed
  <1>8. ContentTypeOK'
    BY <1>1, <1>3, <1>6 DEF ContentTypeOK
  <1>9. ASSUME NEW q \in Revs \ disturbed' PROVE FollowsRun(q)'
    <2>1. FollowsRun(q) /\ q \in Tasks /\ q # NoRun
      BY <1>1, ContentNames
    <2>2. CASE q # t
      BY <1>1, <1>2, <1>3, <1>6, <1>7, <2>1, <2>2, FollowsRunStays
    <2>3. CASE q = t
      <3>1. \A m \in ContentRuns : work[m].task # q
        BY <1>1, <2>3
      <3>2. revision[q].status \in Fresh
        BY <1>1, <2>1, <2>3, <3>1 DEF FollowsRun, SaysHow
      <3>3. OneRun(q)'
        BY <1>3, <3>1 DEF OneRun
      <3>4. RunOwns(q)'
        BY <1>1, <1>2, <1>3, <1>5, <1>6, <2>3, <3>1, <3>2 DEF RunOwns
      <3>5. SaysHow(q)'
        BY <1>2, <1>3, <2>3 DEF SaysHow
      <3>6. ReviewSeenIsSo(q)'
        BY <1>1, <2>1 DEF FollowsRun, ReviewSeenIsSo
      <3> QED BY <3>3, <3>4, <3>5, <3>6 DEF FollowsRun
    <2> QED BY <2>2, <2>3
  <1>10. Answered' /\ ContentPointed'
    <2>1. \A q \in Revs : RowPointed(q)'
      BY <1>1, <1>4, <1>5, <1>6, ContentNames DEF ContentPointed, RowPointed
    <2>2. \A x \in Exports : ExportPointed(x)'
      BY <1>1, <1>4, <1>5, <1>6, ContentNames DEF ContentPointed, ExportPointed
    <2>3. \A u \in Tasks : TriesLeft(u)'
      BY <1>4, <1>5, <1>6 DEF ContentPointed, TriesLeft
    <2>4. ASSUME NEW m \in ContentRuns PROVE RunPointed(m)'
      <3>1. CASE m = n
        BY <1>2, <1>3, <1>5, <1>6, <3>1, ContentNames DEF RunPointed
      <3>2. CASE m # n
        <4>1. RunPointed(m) /\ work'[m] = work[m] /\ work[m].task \in Tasks \cup {NoRun}
          BY <1>3, <3>2 DEF ContentPointed, ContentTypeOK, Work
        <4>2. CASE work[m].task = t
          BY <1>5, <1>6, <3>2, <4>1, <4>2 DEF RunPointed
        <4>3. CASE work[m].task # t /\ work[m].task \in Tasks
          BY <1>6, <4>1, <4>3 DEF RunPointed
        <4>4. CASE work[m].task = NoRun
          BY <4>1, <4>4 DEF RunPointed, Pending
        <4> QED BY <4>1, <4>2, <4>3, <4>4
      <3> QED BY <3>1, <3>2
    <2> QED BY <1>1, <2>1, <2>2, <2>3, <2>4, ContentPointedStays
  <1> QED BY <1>8, <1>9, <1>10

LEMMA NothingIsSeen == NothingSeen \in Seen /\ NothingSeen.status = "absent"
  BY ContentNames DEF NothingSeen, Seen, RevStatuses, Qualities

LEMMA SeenNowIsSeen ==
    ASSUME ContentTypeOK, NEW r \in Revs
    PROVE  SeenNow(r) \in Seen /\ SeenNow(r).status = revision[r].status
  <1>1. PICK v \in Revision : v = revision[r]
    BY DEF ContentTypeOK
  <1>2. DOMAIN NothingSeen = {"status", "quality", "content"}
    BY DEF NothingSeen
  <1>3. SeenNow(r) = [f \in {"status", "quality", "content"} |-> v[f]]
    BY <1>1, <1>2 DEF SeenNow
  <1>4. v["status"] \in RevStatuses /\ v["quality"] \in Qualities /\ v["content"] \in 0..MaxMade
    BY DEF Revision
  <1>5. SeenNow(r) = [status |-> v.status, quality |-> v.quality, content |-> v.content]
    BY <1>3
  <1> QED BY <1>1, <1>4, <1>5 DEF Seen

LEMMA GoesMoves ==
    ASSUME ContentTypeOK, NEW n \in ContentRuns, NEW next \in {"body", "finish", "retry", "mark"}, Goes(n, next)
    PROVE  /\ work' \in [ContentRuns -> Work] /\ work'[n].at = next
           /\ work'[n].task = work[n].task /\ work'[n].counted = work[n].counted
           /\ \A m \in ContentRuns : m # n => work'[m] = work[m]
  <1>1. PICK u \in Work : u = work[n]
    BY DEF ContentTypeOK
  <1> DEFINE w == [u EXCEPT !.at = next, !.seen = NothingSeen]
  <1>2. w \in Work /\ w.at = next /\ w.task = u.task /\ w.counted = u.counted
    BY NothingIsSeen DEF Work
  <1>3. work' = [work EXCEPT ![n] = w]
    BY <1>1 DEF Goes
  <1> HIDE DEF w
  <1> QED BY <1>1, <1>2, <1>3 DEF ContentTypeOK

LEMMA RaisesMoves ==
    ASSUME ContentTypeOK, NEW n \in ContentRuns, NEW counted \in BOOLEAN, Raises(n, counted)
    PROVE  /\ work' \in [ContentRuns -> Work] /\ work'[n].at = "retry" /\ work'[n].task = work[n].task
           /\ \A m \in ContentRuns : m # n => work'[m] = work[m]
  <1>1. PICK u \in Work : u = work[n]
    BY DEF ContentTypeOK
  <1> DEFINE w == [u EXCEPT !.at = "retry", !.counted = counted, !.seen = NothingSeen]
  <1>2. w \in Work /\ w.at = "retry" /\ w.task = u.task
    BY NothingIsSeen DEF Work
  <1>3. work' = [work EXCEPT ![n] = w]
    BY <1>1 DEF Raises
  <1> HIDE DEF w
  <1> QED BY <1>1, <1>2, <1>3 DEF ContentTypeOK

LEMMA LoadMoves ==
    ASSUME ContentTypeOK, NEW n \in ContentRuns, NEW s \in Seen,
           work' = [work EXCEPT ![n].at = "body", ![n].seen = s]
    PROVE  /\ work' \in [ContentRuns -> Work] /\ work'[n].at = "body" /\ work'[n].task = work[n].task
           /\ work'[n].seen = s
           /\ \A m \in ContentRuns : m # n => work'[m] = work[m]
  <1>1. PICK u \in Work : u = work[n]
    BY DEF ContentTypeOK
  <1> DEFINE w == [u EXCEPT !.at = "body", !.seen = s]
  <1>2. w \in Work /\ w.at = "body" /\ w.task = u.task /\ w.seen = s
    BY DEF Work
  <1>3. work' = [work EXCEPT ![n] = w]
    BY <1>1
  <1> HIDE DEF w
  <1> QED BY <1>1, <1>2, <1>3 DEF ContentTypeOK

(* A run goes on with its task, or raises.                                 *)
LEMMA RunGoesOn ==
    ASSUME ContentInv, NEW n \in ContentRuns, work[n].at \in {"load", "body"},
           work' \in [ContentRuns -> Work], work'[n].task = work[n].task,
           \A m \in ContentRuns : m # n => work'[m] = work[m],
           work'[n].at \in {"body", "retry", "finish"},
           work'[n].at = "body" /\ work[n].task \in Revs => work'[n].seen.status = revision[work[n].task].status,
           work'[n].at = "finish" => work[n].task \notin Revs,
           exports' \in [Exports -> Export],
           \A x \in Exports : /\ exports'[x].rev = exports[x].rev
                              /\ exports'[x].status = "absent" <=> exports[x].status = "absent",
           UNCHANGED <<revision, actions, contentJob, linking, review, oneReview, disturbed, made, lapses>>
    PROVE  ContentInv'
  <1> USE DEF ContentInv
  <1>1. ContentTypeOK'
    BY DEF ContentTypeOK
  <1>2. ASSUME NEW q \in Revs \ disturbed PROVE FollowsRun(q)'
    <2>0. FollowsRun(q)
      OBVIOUS
    <2>1. CASE work[n].task # q
      BY <2>0, <2>1, FollowsRunStays
    <2>2. CASE work[n].task = q
      <3>1. OneRun(q)'
        BY <2>0 DEF FollowsRun, OneRun
      <3>2. RunOwns(q)'
        <4>1. /\ contentJob[q].status = "running" /\ contentJob[q].run = n /\ revision[q].status \in Fresh
          BY <2>0, <2>2 DEF FollowsRun, RunOwns, Pending
        <4>2. \A m \in ContentRuns : work'[m].task = q => m = n
          BY <2>0, <2>2 DEF FollowsRun, OneRun
        <4> QED BY <2>2, <4>1, <4>2 DEF RunOwns
      <3>3. SaysHow(q)'
        BY <2>2 DEF SaysHow
      <3>4. ReviewSeenIsSo(q)'
        BY <2>0 DEF FollowsRun, ReviewSeenIsSo
      <3> QED BY <3>1, <3>2, <3>3, <3>4 DEF FollowsRun
    <2> QED BY <2>1, <2>2
  <1>3. Answered' /\ ContentPointed'
    <2>1. \A q \in Revs : RowPointed(q)'
      BY DEF ContentPointed, RowPointed
    <2>2. \A x \in Exports : ExportPointed(x)'
      BY DEF ContentPointed, ExportPointed
    <2>3. \A u \in Tasks : TriesLeft(u)'
      BY DEF ContentPointed, TriesLeft
    <2>4. ASSUME NEW m \in ContentRuns PROVE RunPointed(m)'
      <3>1. RunPointed(m)
        BY DEF ContentPointed
      <3>2. CASE m = n
        BY <3>1, <3>2 DEF RunPointed, Pending
      <3>3. CASE m # n
        BY <3>1, <3>3 DEF RunPointed
      <3> QED BY <3>2, <3>3
    <2> QED BY <2>1, <2>2, <2>3, <2>4, ContentPointedStays
  <1> QED BY <1>1, <1>2, <1>3

LEMMA LoadRevisionKeeps ==
    ASSUME ContentInv, NEW n \in ContentRuns, LoadRevision(n)
    PROVE  ContentInv'
  <1>1. /\ work[n].at = "load" /\ work[n].task \in Revs
        /\ work' = [work EXCEPT ![n].at = "body", ![n].seen = SeenNow(work[n].task)]
        /\ UNCHANGED <<revision, actions, exports, contentJob, linking, review, oneReview,
                       disturbed, made, lapses>>
    BY DEF LoadRevision
  <1>2. SeenNow(work[n].task) \in Seen /\ SeenNow(work[n].task).status = revision[work[n].task].status
    BY <1>1, SeenNowIsSeen DEF ContentInv
  <1>3. /\ work' \in [ContentRuns -> Work] /\ work'[n].at = "body" /\ work'[n].task = work[n].task
        /\ work'[n].seen = SeenNow(work[n].task)
        /\ \A m \in ContentRuns : m # n => work'[m] = work[m]
    BY <1>1, <1>2, LoadMoves DEF ContentInv
  <1>4. exports' \in [Exports -> Export]
    BY <1>1 DEF ContentInv, ContentTypeOK
  <1> QED BY <1>1, <1>2, <1>3, <1>4, RunGoesOn

LEMMA GenerationFailsKeeps ==
    ASSUME ContentInv, NEW n \in ContentRuns, GenerationFails(n)
    PROVE  ContentInv'
  <1>1. PICK counted \in BOOLEAN : Raises(n, counted)
    BY DEF GenerationFails
  <1>2. /\ work[n].at = "body"
        /\ UNCHANGED <<revision, actions, exports, contentJob, linking, review, oneReview,
                       disturbed, made, lapses>>
    BY DEF GenerationFails
  <1>3. /\ work' \in [ContentRuns -> Work] /\ work'[n].at = "retry" /\ work'[n].task = work[n].task
        /\ \A m \in ContentRuns : m # n => work'[m] = work[m]
    BY <1>1, RaisesMoves DEF ContentInv
  <1>4. exports' \in [Exports -> Export]
    BY <1>2 DEF ContentInv, ContentTypeOK
  <1> QED BY <1>2, <1>3, <1>4, RunGoesOn

LEMMA LoadApprovedKeeps ==
    ASSUME ContentInv, NEW n \in ContentRuns, LoadApproved(n)
    PROVE  ContentInv'
  <1>1. /\ work[n].at = "load" /\ work[n].task \in Exports
        /\ work' = [work EXCEPT ![n].at = "body", ![n].seen = SeenNow(exports[work[n].task].rev)]
        /\ UNCHANGED <<revision, actions, exports, contentJob, linking, review, oneReview,
                       disturbed, made, lapses>>
    BY DEF LoadApproved
  <1>2. exports[work[n].task].rev \in Revs
    BY <1>1 DEF ContentInv, ContentPointed, RunPointed, ExportPointed
  <1>3. SeenNow(exports[work[n].task].rev) \in Seen
    BY <1>2, SeenNowIsSeen DEF ContentInv
  <1>4. /\ work' \in [ContentRuns -> Work] /\ work'[n].at = "body" /\ work'[n].task = work[n].task
        /\ \A m \in ContentRuns : m # n => work'[m] = work[m]
    BY <1>1, <1>3, LoadMoves DEF ContentInv
  <1>5. exports' \in [Exports -> Export] /\ work[n].task \notin Revs
    BY <1>1, ContentNames DEF ContentInv, ContentTypeOK
  <1> QED BY <1>1, <1>4, <1>5, RunGoesOn

LEMMA CommitExportKeeps ==
    ASSUME ContentInv, NEW n \in ContentRuns, CommitExport(n)
    PROVE  ContentInv'
  <1>1. PICK x \in Exports : x = work[n].task
    BY DEF CommitExport
  <1>2. /\ work[n].at = "body" /\ Goes(n, "finish")
        /\ exports' = [exports EXCEPT ![x].status = "succeeded", ![x].package = work[n].seen.content]
        /\ UNCHANGED <<revision, actions, contentJob, linking, review, oneReview, disturbed, made, lapses>>
    BY <1>1 DEF CommitExport
  <1>3. /\ work' \in [ContentRuns -> Work] /\ work'[n].at = "finish" /\ work'[n].task = work[n].task
        /\ \A m \in ContentRuns : m # n => work'[m] = work[m]
    BY <1>2, GoesMoves DEF ContentInv
  <1>4. exports[x].status # "absent" /\ x \notin Revs
    BY <1>1, <1>2, ContentNames DEF ContentInv, ContentPointed, RunPointed, ExportPointed
  <1>5. work[n].seen.content \in 0..MaxMade
    BY WorkForms DEF ContentInv, ContentTypeOK
  <1>6. PICK e \in Export : e = exports[x]
    BY DEF ContentInv, ContentTypeOK
  <1>7. PICK f \in Export : /\ f = [e EXCEPT !.status = "succeeded", !.package = work[n].seen.content]
                            /\ f.status = "succeeded" /\ f.rev = e.rev
    <2> DEFINE packed == [e EXCEPT !.status = "succeeded", !.package = work[n].seen.content]
    <2>1. packed \in Export /\ packed.status = "succeeded" /\ packed.rev = e.rev
      BY <1>5 DEF Export
    <2> QED BY <2>1
  <1>8. /\ exports' \in [Exports -> Export] /\ exports'[x] = f
        /\ \A y \in Exports : y # x => exports'[y] = exports[y]
    BY <1>2, <1>6, <1>7 DEF ContentInv, ContentTypeOK
  <1>9. \A y \in Exports : /\ exports'[y].rev = exports[y].rev
                           /\ exports'[y].status = "absent" <=> exports[y].status = "absent"
    BY <1>4, <1>6, <1>7, <1>8
  <1> QED BY <1>1, <1>2, <1>3, <1>4, <1>8, <1>9, RunGoesOn

LEMMA ExportFailsKeeps ==
    ASSUME ContentInv, NEW n \in ContentRuns, ExportFails(n)
    PROVE  ContentInv'
  <1>1. PICK x \in Exports : x = work[n].task
    BY DEF ExportFails
  <1>2. PICK counted \in BOOLEAN : Raises(n, counted)
    BY DEF ExportFails
  <1>3. /\ work[n].at \in {"load", "body"}
        /\ exports' = [exports EXCEPT ![x].status = "failed"]
        /\ UNCHANGED <<revision, actions, contentJob, linking, review, oneReview, disturbed, made, lapses>>
    BY <1>1 DEF ExportFails
  <1>4. /\ work' \in [ContentRuns -> Work] /\ work'[n].at = "retry" /\ work'[n].task = work[n].task
        /\ \A m \in ContentRuns : m # n => work'[m] = work[m]
    BY <1>2, RaisesMoves DEF ContentInv
  <1>5. exports[x].status # "absent"
    BY <1>1, <1>3, ContentNames DEF ContentInv, ContentPointed, RunPointed, ExportPointed
  <1>6. PICK e \in Export : e = exports[x]
    BY DEF ContentInv, ContentTypeOK
  <1>7. PICK f \in Export : f = [e EXCEPT !.status = "failed"] /\ f.status = "failed" /\ f.rev = e.rev
    <2> DEFINE failed == [e EXCEPT !.status = "failed"]
    <2>1. failed \in Export /\ failed.status = "failed" /\ failed.rev = e.rev
      BY DEF Export
    <2> QED BY <2>1
  <1>8. /\ exports' \in [Exports -> Export] /\ exports'[x] = f
        /\ \A y \in Exports : y # x => exports'[y] = exports[y]
    BY <1>3, <1>6, <1>7 DEF ContentInv, ContentTypeOK
  <1>9. \A y \in Exports : /\ exports'[y].rev = exports[y].rev
                           /\ exports'[y].status = "absent" <=> exports[y].status = "absent"
    BY <1>5, <1>6, <1>7, <1>8
  <1> QED BY <1>3, <1>4, <1>8, <1>9, RunGoesOn

LEMMA CommitGenerationKeeps ==
    ASSUME ContentInv, NEW n \in ContentRuns, CommitGeneration(n)
    PROVE  ContentInv'
  <1> USE DEF ContentInv
  <1>1. PICK r \in Revs : r = work[n].task
    BY DEF CommitGeneration
  <1>2. PICK q \in {"passed", "blocked"} :
            revision' = [revision EXCEPT
                ![r].content = made + 1,
                ![r].quality = Emitted(@, work[n].seen.quality, q),
                ![r].status = Emitted(@, work[n].seen.status,
                                      IF q = "blocked" THEN "quality_failed" ELSE "draft")]
    BY <1>1 DEF CommitGeneration
  <1>3. /\ work[n].at = "body" /\ made < MaxMade /\ made' = made + 1 /\ Goes(n, "finish")
        /\ UNCHANGED <<actions, exports, contentJob, linking, review, oneReview, disturbed, lapses>>
    BY <1>1 DEF CommitGeneration
  <1>4. PICK v \in Revision : v = revision[r]
    BY DEF ContentTypeOK
  <1> DEFINE new == IF q = "blocked" THEN "quality_failed" ELSE "draft"
             s == Emitted(v.status, work[n].seen.status, new)
             qual == Emitted(v.quality, work[n].seen.quality, q)
             written == [v EXCEPT !.content = made + 1, !.quality = qual, !.status = s]
  <1>5. /\ new \in Written /\ new \notin Fresh /\ s \in {v.status, new} /\ qual \in Qualities
        /\ work[n].seen.status \in Fresh => s = new
    BY <1>4, RevisionForms DEF Emitted, Written, RevStatuses, Fresh, Qualities
  <1>6. made' \in 0..MaxMade
    BY <1>3, ContentNames DEF ContentTypeOK
  <1>7. revision' = [revision EXCEPT ![r] = written]
    BY <1>2, <1>4
  <1>8. written \in Revision /\ written.status = s /\ written.version = v.version
    <2>1. s \in RevStatuses
      BY <1>5, RevisionForms DEF Written
    <2> HIDE DEF s, qual
    <2> QED BY <1>3, <1>5, <1>6, <2>1 DEF Revision
  <1> HIDE DEF written, s, new, qual
  <1>9. /\ revision' \in [Revs -> Revision] /\ revision'[r].status = s
        /\ \A p \in Revs : /\ revision'[p].version = revision[p].version
                           /\ p # r => revision'[p] = revision[p]
    BY <1>4, <1>7, <1>8 DEF ContentTypeOK
  <1>10. /\ work' \in [ContentRuns -> Work] /\ work'[n].at = "finish" /\ work'[n].task = r
         /\ \A m \in ContentRuns : m # n => work'[m] = work[m]
    BY <1>1, <1>3, GoesMoves
  <1>11. ContentTypeOK'
    BY <1>3, <1>6, <1>9, <1>10 DEF ContentTypeOK
  <1>12. v.status # "absent" /\ s # "absent"
    BY <1>1, <1>3, <1>4, <1>5, ContentNames DEF ContentPointed, RunPointed, RowPointed, Written
  <1>13. ASSUME NEW p \in Revs \ disturbed PROVE FollowsRun(p)'
    <2>0. FollowsRun(p)
      OBVIOUS
    <2>1. CASE p # r
      BY <1>1, <1>3, <1>9, <1>10, <2>0, <2>1, FollowsRunStays
    <2>2. CASE p = r
      <3>1. /\ contentJob[r].status = "running" /\ contentJob[r].run = n /\ revision[r].status \in Fresh
            /\ work[n].seen.status \in Fresh
        BY <1>1, <1>3, <2>0, <2>2 DEF FollowsRun, RunOwns, Pending
      <3>2. revision'[r].status \in Written
        BY <1>5, <1>9, <3>1
      <3>3. \A m \in ContentRuns : work'[m].task = r => m = n
        BY <1>1, <1>10, <2>0, <2>2 DEF FollowsRun, OneRun
      <3>4. OneRun(r)'
        BY <3>3 DEF OneRun
      <3>5. RunOwns(r)'
        BY <1>3, <1>10, <3>1, <3>2, <3>3 DEF RunOwns
      <3>6. SaysHow(r)'
        BY <1>10 DEF SaysHow
      <3>7. ReviewSeenIsSo(r)'
        <4>1. \A c \in Reviewers : ~(review[c].at = "commit" /\ review[c].rev = r)
          BY <2>0, <2>2, <3>1 DEF FollowsRun, ReviewSeenIsSo, Written
        <4> QED BY <1>3, <4>1 DEF ReviewSeenIsSo
      <3> QED BY <2>2, <3>4, <3>5, <3>6, <3>7 DEF FollowsRun
    <2> QED BY <2>1, <2>2
  <1>14. Answered' /\ ContentPointed'
    <2>1. \A p \in Revs : RowPointed(p)'
      BY <1>3, <1>4, <1>9, <1>12 DEF ContentPointed, RowPointed
    <2>2. \A x \in Exports : ExportPointed(x)'
      BY <1>3 DEF ContentPointed, ExportPointed
    <2>3. \A u \in Tasks : TriesLeft(u)'
      BY <1>3 DEF ContentPointed, TriesLeft
    <2>4. ASSUME NEW m \in ContentRuns PROVE RunPointed(m)'
      <3>1. RunPointed(m)
        BY DEF ContentPointed
      <3>2. CASE m = n
        BY <1>1, <1>3, <1>10, <3>1, <3>2 DEF RunPointed, Pending
      <3>3. CASE m # n
        BY <1>3, <1>10, <3>1, <3>3 DEF RunPointed
      <3> QED BY <3>2, <3>3
    <2>5. \A p \in Revs : revision[p].status # "absent" => revision'[p].status # "absent"
      BY <1>9, <1>12
    <2> QED BY <1>3, <1>9, <2>1, <2>2, <2>3, <2>4, <2>5, ContentPointedStays
  <1> QED BY <1>3, <1>11, <1>13, <1>14

(* A run that has settled its job, or may not: it rests, or has still to   *)
(* mark the revision.                                                      *)
LEMMA RunSettles ==
    ASSUME ContentInv, NEW n \in ContentRuns, NEW t \in Tasks, t = work[n].task,
           work[n].at \in {"finish", "retry"},
           work' \in [ContentRuns -> Work], \A m \in ContentRuns : m # n => work'[m] = work[m],
           \/ work'[n].at = "idle" /\ work'[n].task = NoRun
           \/ work'[n].at = "mark" /\ work'[n].task = t,
           contentJob' \in [Tasks -> ContentJob],
           \A u \in Tasks : u # t => contentJob'[u] = contentJob[u],
           contentJob'[t].run \in {n, NoRun, contentJob[t].run},
           contentJob[t].run # n => contentJob'[t] = contentJob[t],
           contentJob[t].run = n =>
              \/ /\ work[n].at = "finish" /\ work'[n].at = "idle" /\ contentJob'[t].status = "succeeded"
              \/ /\ work[n].at = "retry" /\ work'[n].at = "mark"
                 /\ \/ contentJob'[t].status = "retry_wait" /\ contentJob'[t].retries < MaxTries
                    \/ contentJob'[t].status = "failed" /\ contentJob'[t].retries >= MaxTries,
           UNCHANGED <<revision, actions, exports, linking, review, oneReview, disturbed, made, lapses>>
    PROVE  ContentInv'
  <1> USE DEF ContentInv
  <1>1. ContentTypeOK'
    BY DEF ContentTypeOK
  <1>2. contentJob[t].status # "absent" /\ contentJob'[t].status # "absent"
    BY ContentNames DEF ContentPointed, RunPointed
  <1>3. n # NoRun /\ t # NoRun
    BY ContentNames
  <1>4. ASSUME NEW q \in Revs \ disturbed PROVE FollowsRun(q)'
    <2>0. FollowsRun(q) /\ q \in Tasks /\ q # NoRun
      BY ContentNames
    <2>1. CASE q # t
      BY <2>0, <2>1, FollowsRunStays
    <2>2. CASE q = t
      <3>1. /\ contentJob[q].status = "running" /\ contentJob[q].run = n
            /\ work[n].at = "retry" => revision[q].status \in Fresh
            /\ work[n].at = "finish" => revision[q].status \in Written
        BY <2>0, <2>2 DEF FollowsRun, RunOwns, Pending
      <3>2. \A m \in ContentRuns : m # n => work'[m].task # q
        BY <2>0, <2>2 DEF FollowsRun, OneRun
      <3>3. OneRun(q)'
        BY <3>2 DEF OneRun
      <3>4. RunOwns(q)'
        BY <2>0, <2>2, <3>1, <3>2 DEF RunOwns, Pending
      <3>5. SaysHow(q)'
        BY <2>2, <3>1 DEF SaysHow
      <3>6. ReviewSeenIsSo(q)'
        BY <2>0 DEF FollowsRun, ReviewSeenIsSo
      <3> QED BY <3>3, <3>4, <3>5, <3>6 DEF FollowsRun
    <2> QED BY <2>1, <2>2
  <1>5. Answered' /\ ContentPointed'
    <2>1. \A p \in Revs : RowPointed(p)'
      BY <1>2, ContentNames DEF ContentPointed, RowPointed
    <2>2. \A x \in Exports : ExportPointed(x)'
      BY <1>2, ContentNames DEF ContentPointed, ExportPointed
    <2>3. \A u \in Tasks : TriesLeft(u)'
      BY DEF ContentPointed, TriesLeft
    <2>4. ASSUME NEW m \in ContentRuns PROVE RunPointed(m)'
      <3>1. RunPointed(m) /\ work[m].task \in Tasks \cup {NoRun} /\ m # NoRun
        BY ContentNames DEF ContentPointed, ContentTypeOK, Work
      <3>2. CASE m = n
        BY <1>2, <1>3, <3>2 DEF RunPointed, Pending
      <3>3. CASE m # n /\ work[m].task = t
        BY <1>2, <1>3, <3>1, <3>3 DEF RunPointed, Pending
      <3>4. CASE m # n /\ work[m].task # t /\ work[m].task # NoRun
        BY <3>1, <3>4 DEF RunPointed
      <3>5. CASE m # n /\ work[m].task = NoRun
        BY <3>1, <3>5 DEF RunPointed, Pending
      <3> QED BY <3>2, <3>3, <3>4, <3>5
    <2> QED BY <2>1, <2>2, <2>3, <2>4, ContentPointedStays
  <1> QED BY <1>1, <1>4, <1>5

LEMMA RestingWorks == Resting \in Work /\ Resting.at = "idle" /\ Resting.task = NoRun
  BY NothingIsSeen DEF Resting, Work

LEMMA FinishContentJobKeeps ==
    ASSUME ContentInv, NEW n \in ContentRuns, FinishContentJob(n)
    PROVE  ContentInv'
  <1>1. PICK t \in Tasks : t = work[n].task
    BY DEF FinishContentJob, ContentInv, ContentTypeOK, ContentPointed, RunPointed, Work
  <1>2. /\ work[n].at = "finish"
        /\ UNCHANGED <<revision, actions, exports, linking, review, oneReview, disturbed, made, lapses>>
    BY DEF FinishContentJob
  <1>3. contentJob[t].run = n => contentJob[t].status = "running"
    BY <1>1, <1>2 DEF ContentInv, ContentPointed, RunPointed, Pending
  <1>4. CASE OwnsTask(n)
    <2>1. /\ contentJob[t].run = n /\ contentJob' = [contentJob EXCEPT ![t].status = "succeeded"]
          /\ work' = [work EXCEPT ![n] = Resting]
      BY <1>1, <1>4 DEF FinishContentJob, OwnsTask
    <2>2. /\ contentJob' \in [Tasks -> ContentJob] /\ contentJob'[t].status = "succeeded"
          /\ contentJob'[t].run = contentJob[t].run
          /\ \A u \in Tasks : u # t => contentJob'[u] = contentJob[u]
      BY <2>1, JobMoves DEF ContentInv, ContentTypeOK
    <2>3. /\ work' \in [ContentRuns -> Work] /\ work'[n].at = "idle" /\ work'[n].task = NoRun
          /\ \A m \in ContentRuns : m # n => work'[m] = work[m]
      BY <2>1, RestingWorks DEF ContentInv, ContentTypeOK
    <2> QED BY <1>1, <1>2, <2>1, <2>2, <2>3, RunSettles
  <1>5. CASE ~OwnsTask(n)
    <2>1. /\ contentJob[t].run # n /\ contentJob' = contentJob
          /\ work' = [work EXCEPT ![n].at = "mark", ![n].counted = TRUE]
      BY <1>1, <1>3, <1>5 DEF FinishContentJob, OwnsTask
    <2>2. PICK u \in Work : u = work[n]
      BY DEF ContentInv, ContentTypeOK
    <2>3. PICK w \in Work : w = [u EXCEPT !.at = "mark", !.counted = TRUE] /\ w.at = "mark" /\ w.task = u.task
      <3> DEFINE marking == [u EXCEPT !.at = "mark", !.counted = TRUE]
      <3>1. marking \in Work /\ marking.at = "mark" /\ marking.task = u.task
        BY DEF Work
      <3> QED BY <3>1
    <2>4. work' = [work EXCEPT ![n] = w]
      BY <2>1, <2>2, <2>3
    <2>5. /\ work' \in [ContentRuns -> Work] /\ work'[n].at = "mark" /\ work'[n].task = t
          /\ \A m \in ContentRuns : m # n => work'[m] = work[m]
      BY <1>1, <2>2, <2>3, <2>4 DEF ContentInv, ContentTypeOK
    <2>6. contentJob' \in [Tasks -> ContentJob]
      BY <2>1 DEF ContentInv, ContentTypeOK
    <2> QED BY <1>1, <1>2, <2>1, <2>5, <2>6, RunSettles
  <1> QED BY <1>4, <1>5

LEMMA RetryContentJobKeeps ==
    ASSUME ContentInv, NEW n \in ContentRuns, RetryContentJob(n)
    PROVE  ContentInv'
  <1>1. PICK t \in Tasks : t = work[n].task
    BY DEF RetryContentJob, ContentInv, ContentTypeOK, ContentPointed, RunPointed, Work
  <1>2. /\ work[n].at = "retry" /\ Goes(n, "mark")
        /\ UNCHANGED <<revision, actions, exports, linking, review, oneReview, disturbed, made, lapses>>
    BY DEF RetryContentJob
  <1>3. /\ work' \in [ContentRuns -> Work] /\ work'[n].at = "mark" /\ work'[n].task = t
        /\ \A m \in ContentRuns : m # n => work'[m] = work[m]
    BY <1>1, <1>2, GoesMoves DEF ContentInv
  <1>4. CASE contentJob[t].run = n
    <2>1. contentJob' = [contentJob EXCEPT ![t] = AfterAttempt(contentJob[t], work[n].counted)]
      BY <1>1, <1>4 DEF RetryContentJob
    <2>2. contentJob[t].status = "running"
      BY <1>1, <1>2, <1>4 DEF ContentInv, ContentPointed, RunPointed, Pending
    <2>3. PICK j \in ContentJob : j = contentJob[t] /\ j.retries < MaxTries
      BY <2>2 DEF ContentInv, ContentTypeOK, ContentPointed, TriesLeft
    <2>4. work[n].counted \in BOOLEAN
      BY WorkForms DEF ContentInv, ContentTypeOK
    <2>5. PICK k \in ContentJob :
              /\ k = AfterAttempt(j, work[n].counted)
              /\ \/ k.status = "retry_wait" /\ k.retries < MaxTries /\ k.run = NoRun
                 \/ k.status = "failed" /\ k.retries >= MaxTries /\ k.run = j.run
      <3> DEFINE after == AfterAttempt(j, work[n].counted)
      <3>1. /\ after \in ContentJob
            /\ \/ after.status = "retry_wait" /\ after.retries < MaxTries /\ after.run = NoRun
               \/ after.status = "failed" /\ after.retries >= MaxTries /\ after.run = j.run
        BY <2>3, <2>4, AfterAttemptForms
      <3> HIDE DEF after
      <3> QED BY <3>1 DEF after
    <2>6. /\ contentJob' \in [Tasks -> ContentJob] /\ contentJob'[t] = k
          /\ \A u \in Tasks : u # t => contentJob'[u] = contentJob[u]
      BY <2>1, <2>3, <2>5 DEF ContentInv, ContentTypeOK
    <2> QED BY <1>1, <1>2, <1>3, <1>4, <2>3, <2>5, <2>6, RunSettles
  <1>5. CASE contentJob[t].run # n
    <2>1. contentJob' = contentJob
      BY <1>1, <1>5 DEF RetryContentJob
    <2>2. contentJob' \in [Tasks -> ContentJob]
      BY <2>1 DEF ContentInv, ContentTypeOK
    <2> QED BY <1>1, <1>2, <1>3, <1>5, <2>1, <2>2, RunSettles
  <1> QED BY <1>4, <1>5

LEMMA MarkGenerationFailedKeeps ==
    ASSUME ContentInv, NEW n \in ContentRuns, MarkGenerationFailed(n)
    PROVE  ContentInv'
  <1> USE DEF ContentInv
  <1>1. PICK r \in Tasks : r = work[n].task
    BY DEF MarkGenerationFailed, ContentTypeOK, ContentPointed, RunPointed, Work
  <1> DEFINE unlinked == r \in Revs /\ ~revision[r].linked
             marks == /\ r \in Revs /\ revision[r].linked
                      /\ revision[r].status \in {"generating", "draft"} /\ IsFinal(n)
  <1>2. /\ work[n].at = "mark"
        /\ revision' = IF marks THEN [revision EXCEPT ![r].status = "generation_failed"] ELSE revision
        /\ disturbed' = IF unlinked THEN disturbed \cup {r} ELSE disturbed
        /\ work' = [work EXCEPT ![n] = Resting]
        /\ UNCHANGED <<actions, exports, contentJob, linking, review, oneReview, made, lapses>>
    BY <1>1 DEF MarkGenerationFailed
  <1>3. /\ work' \in [ContentRuns -> Work] /\ work'[n].at = "idle" /\ work'[n].task = NoRun
        /\ \A m \in ContentRuns : m # n => work'[m] = work[m]
    BY <1>2, RestingWorks DEF ContentTypeOK
  <1>4. disturbed' \subseteq Revs /\ disturbed \subseteq disturbed' /\ (unlinked => r \in disturbed')
    BY <1>2 DEF ContentTypeOK
  <1>5. /\ revision' \in [Revs -> Revision]
        /\ \A p \in Revs : /\ revision'[p].version = revision[p].version
                           /\ p # r => revision'[p] = revision[p]
                           /\ revision[p].status # "absent" => revision'[p].status # "absent"
                           /\ revision[p].status = "absent" => revision'[p].status = "absent"
        /\ marks => revision'[r].status = "generation_failed"
        /\ ~marks => revision' = revision
    <2>1. CASE marks
      <3>1. r \in Revs /\ revision[r].status # "absent"
            /\ revision' = [revision EXCEPT ![r].status = "generation_failed"]
        BY <1>2, <2>1
      <3>2. "generation_failed" \in RevStatuses
        BY DEF RevStatuses
      <3>3. /\ revision' \in [Revs -> Revision] /\ revision'[r].status = "generation_failed"
            /\ \A q \in Revs : /\ revision'[q].version = revision[q].version
                               /\ q # r => revision'[q] = revision[q]
        BY <3>1, <3>2, StatusMoves DEF ContentTypeOK
      <3> QED BY <2>1, <3>1, <3>3
    <2>2. CASE ~marks
      BY <1>2, <2>2 DEF ContentTypeOK
    <2> QED BY <2>1, <2>2
  <1>6. ContentTypeOK'
    BY <1>2, <1>3, <1>4, <1>5 DEF ContentTypeOK
  <1>7. ASSUME NEW q \in Revs \ disturbed' PROVE FollowsRun(q)'
    <2>0. FollowsRun(q) /\ q \in Tasks /\ q # NoRun
      BY <1>4, ContentNames
    <2>1. CASE q # r
      BY <1>1, <1>2, <1>3, <1>5, <2>0, <2>1, FollowsRunStays
    <2>2. CASE q = r
      <3>1. /\ revision[q].linked /\ revision[q].status \in Fresh
            /\ \/ contentJob[q].status = "retry_wait"
               \/ contentJob[q].status = "failed" /\ contentJob[q].retries >= MaxTries
        BY <1>1, <1>2, <1>4, <2>0, <2>2 DEF FollowsRun, RunOwns
      <3>2. \A m \in ContentRuns : work'[m].task # q
        BY <1>1, <1>3, <2>0, <2>2 DEF FollowsRun, OneRun
      <3>3. revision'[q].status \in Fresh
        BY <1>5, <2>2, <3>1 DEF Fresh
      <3>4. contentJob[q].status = "failed" => revision'[q].status = "generation_failed"
        <4>1. contentJob[q].status = "failed" => IsFinal(n)
          BY <1>1, <2>2, <3>1 DEF IsFinal
        <4> QED BY <1>5, <2>2, <3>1, <4>1 DEF Fresh
      <3>5. OneRun(q)' /\ RunOwns(q)'
        BY <3>2 DEF OneRun, RunOwns
      <3>6. SaysHow(q)'
        BY <1>2, <3>1, <3>3, <3>4 DEF SaysHow
      <3>7. ReviewSeenIsSo(q)'
        <4>1. \A c \in Reviewers : ~(review[c].at = "commit" /\ review[c].rev = q)
          BY <2>0, <3>1 DEF FollowsRun, ReviewSeenIsSo, Written
        <4> QED BY <1>2, <4>1 DEF ReviewSeenIsSo
      <3> QED BY <3>5, <3>6, <3>7 DEF FollowsRun
    <2> QED BY <2>1, <2>2
  <1>8. Answered' /\ ContentPointed'
    <2>1. \A p \in Revs : RowPointed(p)'
      BY <1>2, <1>5 DEF ContentPointed, RowPointed
    <2>2. \A x \in Exports : ExportPointed(x)'
      BY <1>2 DEF ContentPointed, ExportPointed
    <2>3. \A u \in Tasks : TriesLeft(u)'
      BY <1>2 DEF ContentPointed, TriesLeft
    <2>4. \A m \in ContentRuns : RunPointed(m)'
      BY <1>2, <1>3 DEF ContentPointed, RunPointed, Pending
    <2> QED BY <1>2, <1>5, <2>1, <2>2, <2>3, <2>4, ContentPointedStays
  <1> QED BY <1>6, <1>7, <1>8

LEMMA ContentInvStep == ContentInv /\ [ContentNext]_contentVars => ContentInv'
  <1> SUFFICES ASSUME ContentInv, [ContentNext]_contentVars PROVE ContentInv'
    OBVIOUS
  <1>1. CASE CrashContent
    BY <1>1, CrashContentKeeps
  <1>2. ASSUME NEW r \in Revs, CreateGeneration(r) \/ LinkJob(r) \/ \E x \in Exports : RequestExport(x, r)
        PROVE  ContentInv'
    BY <1>2, CreateGenerationKeeps, LinkJobKeeps, RequestExportKeeps
  <1>3. ASSUME NEW c \in Reviewers,
               \/ CommitReview(c)
               \/ \E r \in Revs, verb \in Verbs, expected \in 1..MaxReviewed : StartReview(c, r, verb, expected)
        PROVE  ContentInv'
    BY <1>3, CommitReviewKeeps, StartReviewKeeps
  <1>4. ASSUME NEW t \in Tasks, LapseContentLease(t) \/ \E n \in ContentRuns : ClaimContentJob(n, t)
        PROVE  ContentInv'
    BY <1>4, LapseContentLeaseKeeps, ClaimContentJobKeeps
  <1>5. ASSUME NEW n \in ContentRuns,
               \/ LoadRevision(n) \/ CommitGeneration(n) \/ GenerationFails(n)
               \/ LoadApproved(n) \/ CommitExport(n) \/ ExportFails(n)
               \/ FinishContentJob(n) \/ RetryContentJob(n) \/ MarkGenerationFailed(n)
        PROVE  ContentInv'
    BY <1>5, LoadRevisionKeeps, CommitGenerationKeeps, GenerationFailsKeeps, LoadApprovedKeeps,
       CommitExportKeeps, ExportFailsKeeps, FinishContentJobKeeps, RetryContentJobKeeps,
       MarkGenerationFailedKeeps
  <1>6. CASE UNCHANGED contentVars
    <2>1. UNCHANGED <<revision, actions, exports, contentJob, linking, work, review, oneReview,
                      disturbed, made, lapses>>
      BY <1>6 DEF contentVars
    <2>2. ContentTypeOK'
      BY <2>1 DEF ContentInv, ContentTypeOK
    <2>3. \A r \in Revs : RowPointed(r)'
      BY <2>1 DEF ContentInv, ContentPointed, RowPointed
    <2>4. \A x \in Exports : ExportPointed(x)'
      BY <2>1 DEF ContentInv, ContentPointed, ExportPointed
    <2>5. \A t \in Tasks : TriesLeft(t)'
      BY <2>1 DEF ContentInv, ContentPointed, TriesLeft
    <2>6. \A n \in ContentRuns : RunPointed(n)'
      BY <2>1 DEF ContentInv, ContentPointed, RunPointed
    <2>7. Answered' /\ ContentPointed'
      BY <2>1, <2>3, <2>4, <2>5, <2>6, ContentPointedStays
    <2>8. ASSUME NEW r \in Revs \ disturbed' PROVE FollowsRun(r)'
      <3>1. FollowsRun(r)
        BY <2>1 DEF ContentInv
      <3> QED BY <2>1, <3>1, FollowsRunStays
    <2> QED BY <2>2, <2>7, <2>8 DEF ContentInv
  <1> QED BY <1>1, <1>2, <1>3, <1>4, <1>5, <1>6 DEF ContentNext

(* The versions of a revision count its reviews, each of which answered one*)
(* of its own; whom no lapse touched tells how its job ended: review_-     *)
(* revision and _mark_content_generation_failed, for any revisions, runs,  *)
(* reviewers and lapses.                                                   *)
THEOREM RevisionsAgree == ContentSpec => []RevisionsHold
  <1>1. ContentInv => RevisionsHold
    <2> SUFFICES ASSUME ContentInv PROVE RevisionsHold
      OBVIOUS
    <2>1. ReviewsAnswerVersions
      BY DEF ContentInv, Answered, AnswersOf, ReviewsAnswerVersions
    <2>2. RevisionFollowsJob
      BY DEF ContentInv, FollowsRun, SaysHow, Written, Fresh, RevisionFollowsJob
    <2> QED BY <2>1, <2>2 DEF RevisionsHold
  <1> QED BY <1>1, ContentInvInit, ContentInvStep, PTL DEF ContentSpec

(* Nobody has an answer in hand to what is approved, and its run is over.  *)
LEMMA ApprovedStands ==
    ASSUME ContentInv, ContentNext, NEW r \in Revs, revision[r].status = "approved", oneReview,
           r \notin disturbed'
    PROVE  revision'[r].status = "approved" /\ revision'[r].content = revision[r].content
  <1> USE DEF ContentInv
  <1>1. ContentTypeOK /\ revision \in [Revs -> Revision] /\ revision[r] \in Revision
    BY DEF ContentTypeOK
  <1>2. CASE UNCHANGED revision
    BY <1>2
  <1>3. ASSUME NEW q \in Revs, CreateGeneration(q) PROVE q # r /\ revision'[r] = revision[r]
    BY <1>1, <1>3 DEF CreateGeneration
  <1>4. ASSUME NEW q \in Revs, LinkJob(q)
        PROVE  revision'[r].status = revision[r].status /\ revision'[r].content = revision[r].content
    <2>1. revision' = [revision EXCEPT ![q].linked = TRUE]
      BY <1>4 DEF LinkJob
    <2>2. CASE q # r
      BY <1>1, <2>1, <2>2
    <2>3. CASE q = r
      <3>1. revision'[r] = [revision[r] EXCEPT !.linked = TRUE]
        BY <1>1, <2>1, <2>3
      <3> QED BY <1>1, <3>1 DEF Revision
    <2> QED BY <2>2, <2>3
  <1>5. ASSUME NEW c \in Reviewers, CommitReview(c) PROVE revision'[r] = revision[r]
    <2>1. r \notin disturbed /\ FollowsRun(r)
      BY <1>5 DEF CommitReview
    <2>2. review[c].at = "commit"
          /\ revision' = [revision EXCEPT ![review[c].rev].status = review[c].to,
                                          ![review[c].rev].version = review[c].version + 1]
      BY <1>5 DEF CommitReview
    <2>3. review[c].rev # r
      <3>1. SUFFICES ASSUME review[c].rev = r PROVE FALSE
        OBVIOUS
      <3>2. review[c].to \in Written /\ review[c].to = NextStatus(review[c].verb, "approved")
        BY <2>1, <2>2, <3>1 DEF FollowsRun, ReviewSeenIsSo
      <3> QED BY <3>2 DEF NextStatus, Written
    <2> QED BY <1>1, <2>2, <2>3
  <1>6. ASSUME NEW n \in ContentRuns, CommitGeneration(n) PROVE revision'[r] = revision[r]
    <2>1. r \notin disturbed /\ FollowsRun(r)
      BY <1>6 DEF CommitGeneration
    <2>2. work[n].at = "body"
      BY <1>6 DEF CommitGeneration
    <2>3. work[n].task # r
      BY <2>1, <2>2 DEF FollowsRun, RunOwns, Fresh
    <2>4. PICK q \in {"passed", "blocked"} :
              revision' = [revision EXCEPT
                  ![work[n].task].content = made + 1,
                  ![work[n].task].quality = Emitted(@, work[n].seen.quality, q),
                  ![work[n].task].status = Emitted(@, work[n].seen.status,
                                        IF q = "blocked" THEN "quality_failed" ELSE "draft")]
      BY <1>6 DEF CommitGeneration
    <2> QED BY <1>1, <2>3, <2>4
  <1>7. ASSUME NEW n \in ContentRuns, MarkGenerationFailed(n) PROVE revision'[r] = revision[r]
    <2>1. revision' = revision \/ revision' = [revision EXCEPT ![work[n].task].status = "generation_failed"]
      BY <1>7 DEF MarkGenerationFailed
    <2>2. disturbed \subseteq disturbed' /\ work[n].at = "mark"
      BY <1>7 DEF MarkGenerationFailed
    <2>3. work[n].task # r
      BY <2>2 DEF FollowsRun, RunOwns, Fresh
    <2> QED BY <1>1, <2>1, <2>3
  <1>8. \/ UNCHANGED revision
        \/ \E q \in Revs : CreateGeneration(q) \/ LinkJob(q)
        \/ \E c \in Reviewers : CommitReview(c)
        \/ \E n \in ContentRuns : CommitGeneration(n) \/ MarkGenerationFailed(n)
    BY DEF ContentNext, CrashContent, RequestExport, StartReview, LapseContentLease, ClaimContentJob,
       LoadRevision, GenerationFails, LoadApproved, CommitExport, ExportFails, FinishContentJob,
       RetryContentJob
  <1> QED BY <1>2, <1>3, <1>4, <1>5, <1>6, <1>7, <1>8

(* What was approved stays approved and keeps its content, while reviews   *)
(* are served one at a time and nothing lapsed: review_revision, and the   *)
(* generation and export bodies of content_production.py.                  *)
THEOREM ApprovalIsForGood == ContentSpec => ApprovedContentStands
  <1>1. ContentInv /\ [ContentNext]_contentVars =>
           [\A r \in Revs :
               (revision[r].status = "approved" /\ oneReview /\ r \notin disturbed') =>
                   /\ revision'[r].status = "approved"
                   /\ revision'[r].content = revision[r].content]_contentVars
    BY ApprovedStands
  <1> QED BY <1>1, ContentInvInit, ContentInvStep, PTL DEF ContentSpec, ApprovedContentStands
-----------------------------------------------------------------------------
(* Products.  Whatever a session holds of a product, its trail together    *)
(* with the rows it is about to add ends at the price it holds.            *)

EndsAt(t, price) ==
    /\ t # << >> /\ t[Len(t)] = price
    /\ \A i \in 1..(Len(t) - 1) : t[i] # t[i + 1]

(* s is a session over the products cur with the trails tr.                *)
SessionHolds(s, cur, tr) ==
    /\ s = [prices |-> s.prices, rows |-> s.rows]
    /\ DOMAIN s.prices \subseteq ProductIds
    /\ s.rows \in [ProductIds -> Seq(ListPrices)]
    /\ \A p \in ProductIds :
          /\ s.rows[p] # << >> => p \in DOMAIN s.prices
          /\ p \in DOMAIN s.prices => p \in DOMAIN cur \/ s.rows[p] # << >>
          /\ p \in DOMAIN s.prices /\ alone => EndsAt(tr[p] \o s.rows[p], s.prices[p])

ProductsShape ==
    /\ DOMAIN current \subseteq ProductIds
    /\ trail \in [ProductIds -> Seq(ListPrices)]
    /\ \A p \in ProductIds :
          /\ p \in DOMAIN current <=> trail[p] # << >>
          /\ alone /\ p \in DOMAIN current => EndsAt(trail[p], current[p])

ImportsShape ==
    /\ phase \in [Importers -> {"idle", "read", "write"}]
    /\ todo \in [Importers -> Seq(Records)]
    /\ held = [c \in Importers |-> held[c]] /\ prices = [c \in Importers |-> prices[c]]
    /\ added = [c \in Importers |-> added[c]]
    /\ alone => \A c, d \in Importers : phase[c] # "idle" /\ phase[d] # "idle" => c = d

SessionsHold ==
    \A c \in Importers :
        /\ SessionHolds(Sess(prices[c], added[c]), current, trail)
        /\ DOMAIN prices[c] \subseteq DOMAIN current
        /\ phase[c] = "idle" => prices[c] = << >> /\ held[c] = << >> /\ added[c] = NothingAdded
        /\ alone => \A p \in DOMAIN held[c] : held[c][p] = current[p]

ProductsInv == ProductsShape /\ ImportsShape /\ SessionsHold

LEMMA AppendedEnd ==
    ASSUME NEW t \in Seq(ListPrices), NEW u \in Seq(ListPrices), NEW price \in ListPrices,
           NEW last, t \o u = << >> \/ (EndsAt(t \o u, last) /\ last # price)
    PROVE  EndsAt(t \o Append(u, price), price)
  <1> DEFINE w == t \o u
  <1>1. w \in Seq(ListPrices) /\ t \o Append(u, price) = Append(w, price)
    OBVIOUS
  <1>2. \A v \in Seq(ListPrices) : (v = << >> \/ EndsAt(v, last)) /\ last # price => EndsAt(Append(v, price), price)
    BY DEF EndsAt
  <1>3. EndsAt(Append(<< >>, price), price)
    BY DEF EndsAt
  <1> QED BY <1>1, <1>2, <1>3

LEMMA UpsertHolds ==
    ASSUME NEW s, NEW cur, NEW tr \in [ProductIds -> Seq(ListPrices)], SessionHolds(s, cur, tr),
           NEW r \in Records, alone /\ r.product \notin DOMAIN s.prices => tr[r.product] = << >>
    PROVE  /\ SessionHolds(Upsert(s, r), cur, tr)
           /\ DOMAIN Upsert(s, r).prices = DOMAIN s.prices \cup {r.product}
  <1> DEFINE p == r.product
             u == Sess(Over(Only(p, r.price), s.prices), [s.rows EXCEPT ![p] = Append(@, r.price)])
  <1>1. p \in ProductIds /\ r.price \in ListPrices
    BY DEF Records
  <1>2. CASE p \in DOMAIN s.prices /\ ~PriceChanged(s, r)
    BY <1>2 DEF Upsert
  <1>3. CASE ~(p \in DOMAIN s.prices /\ ~PriceChanged(s, r))
    <2>1. Upsert(s, r) = u
      BY <1>3 DEF Upsert
    <2>2. /\ u = [prices |-> u.prices, rows |-> u.rows]
          /\ u.prices = Over(Only(p, r.price), s.prices)
          /\ u.rows = [s.rows EXCEPT ![p] = Append(@, r.price)]
      BY DEF Sess
    <2>3. /\ DOMAIN u.prices = DOMAIN s.prices \cup {p} /\ u.prices[p] = r.price
          /\ \A q \in DOMAIN s.prices \ {p} : u.prices[q] = s.prices[q]
      BY <2>2 DEF Over, Only
    <2>4. /\ s.rows \in [ProductIds -> Seq(ListPrices)] /\ DOMAIN s.prices \subseteq ProductIds
      BY DEF SessionHolds
    <2>5. /\ u.rows \in [ProductIds -> Seq(ListPrices)] /\ u.rows[p] = Append(s.rows[p], r.price)
          /\ u.rows[p] # << >> /\ \A q \in ProductIds \ {p} : u.rows[q] = s.rows[q]
      <3>1. s.rows[p] \in Seq(ListPrices)
        BY <1>1, <2>4
      <3>2. Append(s.rows[p], r.price) \in Seq(ListPrices) /\ Append(s.rows[p], r.price) # << >>
        BY <1>1, <3>1
      <3> QED BY <1>1, <2>2, <2>4, <3>2
    <2>6. ASSUME alone PROVE EndsAt(tr[p] \o u.rows[p], r.price)
      <3>1. tr[p] \in Seq(ListPrices) /\ s.rows[p] \in Seq(ListPrices)
        BY <1>1, <2>4
      <3>2. CASE p \in DOMAIN s.prices
        <4>1. EndsAt(tr[p] \o s.rows[p], s.prices[p]) /\ s.prices[p] # r.price
          BY <1>1, <1>3, <2>6, <3>2 DEF SessionHolds, PriceChanged
        <4> QED BY <1>1, <2>5, <3>1, <4>1, AppendedEnd
      <3>3. CASE p \notin DOMAIN s.prices
        <4>1. tr[p] = << >> /\ s.rows[p] = << >>
          BY <1>1, <2>6, <3>3 DEF SessionHolds
        <4>2. tr[p] \o s.rows[p] = << >>
          BY <4>1
        <4> QED BY <1>1, <2>5, <3>1, <4>2, AppendedEnd
      <3> QED BY <3>2, <3>3
    <2>7. SessionHolds(u, cur, tr)
      <3> SUFFICES ASSUME NEW q \in ProductIds
                   PROVE  /\ u.rows[q] # << >> => q \in DOMAIN u.prices
                          /\ q \in DOMAIN u.prices => q \in DOMAIN cur \/ u.rows[q] # << >>
                          /\ q \in DOMAIN u.prices /\ alone => EndsAt(tr[q] \o u.rows[q], u.prices[q])
        BY <1>1, <2>2, <2>3, <2>4, <2>5 DEF SessionHolds
      <3>1. CASE q = p
        BY <2>3, <2>5, <2>6, <3>1
      <3>2. CASE q # p
        BY <2>3, <2>5, <3>2 DEF SessionHolds
      <3> QED BY <3>1, <3>2
    <2> QED BY <2>1, <2>3, <2>7
  <1> QED BY <1>2, <1>3

(* The table of a session record by record exists.                         *)
After(s, batch, n, f) ==
    f = [i \in 0..n |-> IF i = 0 THEN s ELSE Upsert(f[i - 1], batch[i])]

LEMMA AfterExists ==
    ASSUME NEW s, NEW batch, NEW n \in Nat
    PROVE  \E f : After(s, batch, n, f)
  <1> DEFINE B == {m \in Nat : ~ \E f : After(s, batch, m, f)}
  <1>1. ASSUME B # {} PROVE FALSE
    <2>1. PICK m \in B : \A k \in B : m <= k
      <3>1. B \in SUBSET Nat
        OBVIOUS
      <3> HIDE DEF B
      <3> QED BY <1>1, <3>1, LeastNumber
    <2>2. CASE m = 0
      <3>1. After(s, batch, 0, [i \in 0..0 |-> s])
        BY DEF After
      <3> QED BY <2>2, <3>1
    <2>3. CASE m # 0
      <3>1. m - 1 \in Nat /\ m - 1 \notin B
        BY <2>1, <2>3
      <3>2. PICK f : After(s, batch, m - 1, f)
        BY <3>1
      <3> DEFINE g == [i \in 0..m |-> IF i = m THEN Upsert(f[m - 1], batch[m]) ELSE f[i]]
      <3>3. \A i \in 0..(m - 1) : f[i] = IF i = 0 THEN s ELSE Upsert(f[i - 1], batch[i])
        BY <3>2 DEF After
      <3>4. \A i \in 0..m : g[i] = IF i = 0 THEN s ELSE Upsert(g[i - 1], batch[i])
        BY <2>3, <3>1, <3>3
      <3>5. g = [i \in 0..m |-> IF i = 0 THEN s ELSE Upsert(g[i - 1], batch[i])]
        BY <3>4
      <3> HIDE DEF g
      <3> QED BY <2>1, <3>5 DEF After
    <2> QED BY <2>2, <2>3
  <1> QED BY <1>1

LEMMA AfterAllHolds ==
    ASSUME NEW s, NEW cur, NEW tr \in [ProductIds -> Seq(ListPrices)], SessionHolds(s, cur, tr),
           NEW batch \in Seq(Records), \A p \in ProductIds : p \notin DOMAIN s.prices => tr[p] = << >>
    PROVE  /\ SessionHolds(AfterAll(s, batch), cur, tr)
           /\ DOMAIN s.prices \subseteq DOMAIN AfterAll(s, batch).prices
  <1> DEFINE n == Len(batch)
             f == CHOOSE g : After(s, batch, n, g)
  <1>1. n \in Nat /\ \A i \in 1..n : batch[i] \in Records
    OBVIOUS
  <1>2. After(s, batch, n, f)
    BY <1>1, AfterExists
  <1>3. AfterAll(s, batch) = f[n]
    BY DEF AfterAll, After
  <1> HIDE DEF f, n
  <1>4. \A i \in 0..n : f[i] = IF i = 0 THEN s ELSE Upsert(f[i - 1], batch[i])
    BY <1>2 DEF After
  <1> DEFINE Good(t) == SessionHolds(t, cur, tr) /\ DOMAIN s.prices \subseteq DOMAIN t.prices
             B == {i \in 0..n : ~Good(f[i])}
  <1>5. ASSUME B # {} PROVE FALSE
    <2>1. PICK m \in B : \A k \in B : m <= k
      <3>1. B \in SUBSET Nat
        OBVIOUS
      <3> HIDE DEF B
      <3> QED BY <1>5, <3>1, LeastNumber
    <2>2. m # 0
      BY <1>1, <1>4, <2>1
    <2>3. m - 1 \in 0..n /\ m - 1 \notin B /\ m \in 1..n
      BY <1>1, <2>1, <2>2
    <2>4. Good(f[m - 1])
      BY <2>3
    <2>5. f[m] = Upsert(f[m - 1], batch[m]) /\ batch[m] \in Records
      BY <1>1, <1>4, <2>2, <2>3
    <2>6. batch[m].product \in ProductIds
      BY <2>5 DEF Records
    <2>7. Good(f[m])
      BY <2>4, <2>5, <2>6, UpsertHolds
    <2> QED BY <2>1, <2>7
  <1> QED BY <1>1, <1>3, <1>5

(* Steps of an import.                                                     *)

ProductFrame(c) ==
    \A d \in Importers \ {c} :
        /\ phase'[d] = phase[d] /\ prices'[d] = prices[d]
        /\ held'[d] = held[d] /\ added'[d] = added[d]

LEMMA SessIs ==
    ASSUME NEW known, NEW rows
    PROVE  Sess(known, rows).prices = known /\ Sess(known, rows).rows = rows
  BY DEF Sess

(* More products, and the trails an import sees unless others are at work. *)
LEMMA HoldsOn ==
    ASSUME NEW s, NEW cur, NEW tr, NEW newer, NEW ts, SessionHolds(s, cur, tr),
           DOMAIN cur \subseteq DOMAIN newer, alone => ts = tr
    PROVE  SessionHolds(s, newer, ts)
  BY DEF SessionHolds

LEMMA IdleHolds == SessionHolds(Sess(<< >>, NothingAdded), current, trail)
  BY DEF SessionHolds, Sess, NothingAdded

LEMMA EndImportIs ==
    ASSUME ProductsInv, NEW c \in Importers, EndImport(c)
    PROVE  /\ ProductFrame(c) /\ phase'[c] = "idle" /\ prices'[c] = << >> /\ held'[c] = << >>
           /\ added'[c] = NothingAdded
           /\ phase' \in [Importers -> {"idle", "read", "write"}]
           /\ todo' \in [Importers -> Seq(Records)]
           /\ held' = [d \in Importers |-> held'[d]] /\ prices' = [d \in Importers |-> prices'[d]]
           /\ added' = [d \in Importers |-> added'[d]]
  <1>1. /\ phase' = [phase EXCEPT ![c] = "idle"] /\ todo' = [todo EXCEPT ![c] = << >>]
        /\ held' = [held EXCEPT ![c] = << >>] /\ prices' = [prices EXCEPT ![c] = << >>]
        /\ added' = [added EXCEPT ![c] = NothingAdded]
    BY DEF EndImport
  <1>2. /\ phase \in [Importers -> {"idle", "read", "write"}]
        /\ todo \in [Importers -> Seq(Records)]
        /\ held = [d \in Importers |-> held[d]] /\ prices = [d \in Importers |-> prices[d]]
        /\ added = [d \in Importers |-> added[d]]
    BY DEF ProductsInv, ImportsShape
  <1>3. phase' \in [Importers -> {"idle", "read", "write"}] /\ phase'[c] = "idle"
    BY ONLY <1>1, <1>2, c \in Importers
  <1>4. todo' \in [Importers -> Seq(Records)]
    <2>1. << >> \in Seq(Records)
      OBVIOUS
    <2> QED BY ONLY <1>1, <1>2, <2>1, c \in Importers
  <1>5. held'[c] = << >> /\ held' = [d \in Importers |-> held'[d]]
    BY ONLY <1>1, <1>2, c \in Importers
  <1>6. prices'[c] = << >> /\ prices' = [d \in Importers |-> prices'[d]]
    BY ONLY <1>1, <1>2, c \in Importers
  <1>7. added'[c] = NothingAdded /\ added' = [d \in Importers |-> added'[d]]
    BY ONLY <1>1, <1>2, c \in Importers
  <1>8. ASSUME NEW d \in Importers \ {c}
        PROVE  /\ phase'[d] = phase[d] /\ prices'[d] = prices[d]
               /\ held'[d] = held[d] /\ added'[d] = added[d]
    BY ONLY <1>1, <1>2, <1>8
  <1> QED BY <1>3, <1>4, <1>5, <1>6, <1>7, <1>8 DEF ProductFrame

(* An import that is over, whatever it leaves in the tables.               *)
LEMMA OverHolds ==
    ASSUME ProductsInv, NEW c \in Importers, phase[c] # "idle", EndImport(c), alone' = alone,
           ProductsShape', DOMAIN current \subseteq DOMAIN current'
    PROVE  ProductsInv'
  <1>1. /\ ProductFrame(c) /\ phase'[c] = "idle" /\ prices'[c] = << >> /\ held'[c] = << >>
        /\ added'[c] = NothingAdded
        /\ phase' \in [Importers -> {"idle", "read", "write"}]
        /\ todo' \in [Importers -> Seq(Records)]
        /\ held' = [d \in Importers |-> held'[d]] /\ prices' = [d \in Importers |-> prices'[d]]
        /\ added' = [d \in Importers |-> added'[d]]
    BY EndImportIs
  <1>2. ImportsShape'
    BY <1>1 DEF ProductsInv, ImportsShape, ProductFrame
  <1>3. ASSUME NEW d \in Importers, prices'[d] = << >>, added'[d] = NothingAdded
        PROVE  SessionHolds(Sess(prices[d], added[d]), current, trail)'
    BY <1>3 DEF SessionHolds, Sess, NothingAdded
  <1>4. ASSUME NEW d \in Importers
        PROVE  /\ SessionHolds(Sess(prices[d], added[d]), current, trail)'
               /\ DOMAIN prices'[d] \subseteq DOMAIN current'
               /\ phase'[d] = "idle" => prices'[d] = << >> /\ held'[d] = << >> /\ added'[d] = NothingAdded
               /\ alone' => \A p \in DOMAIN held'[d] : held'[d][p] = current'[p]
    <2>1. CASE d = c
      BY <1>1, <1>3, <2>1
    <2>2. CASE d # c
      <3>1. /\ prices'[d] = prices[d] /\ added'[d] = added[d] /\ held'[d] = held[d]
            /\ phase'[d] = phase[d]
        BY <1>1, <2>2 DEF ProductFrame
      <3>2. alone => phase[d] = "idle" /\ prices'[d] = << >> /\ added'[d] = NothingAdded
        BY <2>2, <3>1 DEF ProductsInv, ImportsShape, SessionsHold
      <3>3. CASE alone
        BY <1>3, <3>1, <3>2, <3>3 DEF ProductsInv, SessionsHold
      <3>4. CASE ~alone
        <4>1. SessionHolds(Sess(prices[d], added[d]), current, trail)
          BY DEF ProductsInv, SessionsHold
        <4>2. SessionHolds(Sess(prices[d], added[d]), current, trail)'
          BY <3>1, <3>4, <4>1 DEF SessionHolds, Sess
        <4> QED BY <3>1, <3>4, <4>2 DEF ProductsInv, SessionsHold
      <3> QED BY <3>3, <3>4
    <2> QED BY <2>1, <2>2
  <1> QED BY <1>2, <1>4 DEF ProductsInv, SessionsHold

(* An import that goes on, in the tables as they are.                      *)
LEMMA GoesOn ==
    ASSUME ProductsInv, NEW c \in Importers, ProductFrame(c), ImportsShape', alone' = alone,
           current' = current, trail' = trail, phase'[c] # "idle",
           SessionHolds(Sess(prices'[c], added'[c]), current, trail),
           DOMAIN prices'[c] \subseteq DOMAIN current,
           alone => \A p \in DOMAIN held'[c] : held'[c][p] = current[p]
    PROVE  ProductsInv'
  <1>1. ProductsShape'
    BY DEF ProductsInv, ProductsShape, EndsAt
  <1>2. ASSUME NEW d \in Importers
        PROVE  /\ SessionHolds(Sess(prices[d], added[d]), current, trail)'
               /\ DOMAIN prices'[d] \subseteq DOMAIN current'
               /\ phase'[d] = "idle" => prices'[d] = << >> /\ held'[d] = << >> /\ added'[d] = NothingAdded
               /\ alone' => \A p \in DOMAIN held'[d] : held'[d][p] = current'[p]
    <2>1. SessionHolds(Sess(prices'[d], added'[d]), current, trail)
      BY DEF ProductsInv, SessionsHold, ProductFrame
    <2>2. SessionHolds(Sess(prices[d], added[d]), current, trail)'
      BY <2>1 DEF SessionHolds, Sess
    <2> QED BY <2>2 DEF ProductsInv, SessionsHold, ProductFrame
  <1> QED BY <1>1, <1>2 DEF ProductsInv, SessionsHold

LEMMA LookUpHolds ==
    ASSUME ProductsInv, NEW c \in Importers, LookUp(c)
    PROVE  ProductsInv'
  <1> DEFINE r == Head(todo[c])
             found == Only(r.product, current[r.product])
             before == Sess(Over(prices[c], found), added[c])
             s == Upsert(before, r)
  <1>1. /\ phase[c] = "read" /\ todo[c] # << >> /\ r.product \in DOMAIN current
        /\ held' = [held EXCEPT ![c] = Over(@, found)]
        /\ prices' = [prices EXCEPT ![c] = s.prices] /\ added' = [added EXCEPT ![c] = s.rows]
        /\ todo' = [todo EXCEPT ![c] = Tail(@)]
        /\ alone' = alone /\ current' = current /\ trail' = trail /\ phase' = phase
    BY DEF LookUp
  <1>2. todo[c] \in Seq(Records)
    BY DEF ProductsInv, ImportsShape
  <1>3. r \in Records /\ Tail(todo[c]) \in Seq(Records)
    BY <1>1, <1>2
  <1>4. r.product \in ProductIds
    BY <1>3 DEF Records
  <1>5. /\ before.prices = Over(prices[c], found) /\ before.rows = added[c]
        /\ before = [prices |-> before.prices, rows |-> before.rows]
    BY DEF Sess
  <1>6. /\ DOMAIN before.prices = DOMAIN prices[c] \cup {r.product}
        /\ \A p \in DOMAIN prices[c] : before.prices[p] = prices[c][p]
        /\ r.product \notin DOMAIN prices[c] => before.prices[r.product] = current[r.product]
    BY <1>5 DEF Over, Only
  <1>7. SessionHolds(Sess(prices[c], added[c]), current, trail)
    BY DEF ProductsInv, SessionsHold
  <1>8. SessionHolds(before, current, trail)
    <2>1. added[c] \in [ProductIds -> Seq(ListPrices)] /\ DOMAIN prices[c] \subseteq ProductIds
      BY <1>7, SessIs DEF SessionHolds
    <2> SUFFICES ASSUME NEW p \in ProductIds
                 PROVE  /\ added[c][p] # << >> => p \in DOMAIN before.prices
                        /\ p \in DOMAIN before.prices => p \in DOMAIN current \/ added[c][p] # << >>
                        /\ p \in DOMAIN before.prices /\ alone =>
                              EndsAt(trail[p] \o added[c][p], before.prices[p])
      BY <1>4, <1>5, <1>6, <2>1 DEF SessionHolds
    <2>2. /\ added[c][p] # << >> => p \in DOMAIN prices[c]
          /\ p \in DOMAIN prices[c] => p \in DOMAIN current \/ added[c][p] # << >>
          /\ p \in DOMAIN prices[c] /\ alone => EndsAt(trail[p] \o added[c][p], prices[c][p])
      BY <1>7, SessIs DEF SessionHolds
    <2>3. CASE p \in DOMAIN prices[c]
      BY <1>6, <2>2, <2>3
    <2>4. CASE p \notin DOMAIN prices[c]
      <3>1. added[c][p] = << >>
        BY <2>2, <2>4
      <3>2. trail[p] \in Seq(ListPrices)
        BY DEF ProductsInv, ProductsShape
      <3>3. trail[p] \o added[c][p] = trail[p]
        BY <3>1, <3>2
      <3>4. alone /\ p = r.product => EndsAt(trail[p], current[p])
        BY <1>1 DEF ProductsInv, ProductsShape
      <3> QED BY <1>1, <1>6, <2>4, <3>1, <3>3, <3>4
    <2> QED BY <2>3, <2>4
  <1>9. trail \in [ProductIds -> Seq(ListPrices)]
    BY DEF ProductsInv, ProductsShape
  <1>10. SessionHolds(s, current, trail) /\ DOMAIN s.prices = DOMAIN prices[c] \cup {r.product}
    BY <1>3, <1>6, <1>8, <1>9, UpsertHolds
  <1>11. Sess(s.prices, s.rows) = s
    BY <1>10 DEF SessionHolds, Sess
  <1> HIDE DEF s, r, found, before
  <1>12. prices'[c] = s.prices /\ added'[c] = s.rows /\ held'[c] = Over(held[c], found) /\ phase'[c] = "read"
    BY <1>1 DEF ProductsInv, ImportsShape
  <1>13. ImportsShape' /\ ProductFrame(c)
    BY <1>1, <1>3 DEF ProductsInv, ImportsShape, ProductFrame
  <1>14. SessionHolds(Sess(prices'[c], added'[c]), current, trail)
    BY <1>10, <1>11, <1>12
  <1>15. DOMAIN prices'[c] \subseteq DOMAIN current
    BY <1>1, <1>10, <1>12 DEF ProductsInv, SessionsHold
  <1>16. alone => \A p \in DOMAIN held'[c] : held'[c][p] = current[p]
    BY <1>12 DEF ProductsInv, SessionsHold, Over, Only, found
  <1> QED BY <1>1, <1>12, <1>13, <1>14, <1>15, <1>16, GoesOn

LEMMA CommitHolds ==
    ASSUME ProductsInv, NEW c \in Importers, Commit(c)
    PROVE  ProductsInv'
  <1> DEFINE before == Sess(Over(prices[c], current), added[c])
             end == AfterAll(before, todo[c])
             kept(p) == p \in DOMAIN held[c] /\ end.prices[p] = held[c][p]
  <1>1. /\ phase[c] = "write" /\ EndImport(c) /\ alone' = alone
        /\ current' = [p \in DOMAIN end.prices |-> IF kept(p) THEN current[p] ELSE end.prices[p]]
        /\ trail' = [p \in ProductIds |-> trail[p] \o end.rows[p]]
    BY DEF Commit
  <1>2. todo[c] \in Seq(Records) /\ trail \in [ProductIds -> Seq(ListPrices)]
    BY DEF ProductsInv, ImportsShape, ProductsShape
  <1>3. /\ before.prices = Over(prices[c], current) /\ before.rows = added[c]
        /\ before = [prices |-> before.prices, rows |-> before.rows]
    BY DEF Sess
  <1>4. /\ DOMAIN before.prices = DOMAIN current
        /\ \A p \in DOMAIN prices[c] : before.prices[p] = prices[c][p]
        /\ \A p \in DOMAIN current \ DOMAIN prices[c] : before.prices[p] = current[p]
    BY <1>3 DEF Over, ProductsInv, SessionsHold
  <1>5. SessionHolds(Sess(prices[c], added[c]), current, trail)
    BY DEF ProductsInv, SessionsHold
  <1>6. SessionHolds(before, current, trail)
    <2>1. added[c] \in [ProductIds -> Seq(ListPrices)] /\ DOMAIN current \subseteq ProductIds
      BY <1>5, SessIs DEF SessionHolds, ProductsInv, ProductsShape
    <2> SUFFICES ASSUME NEW p \in ProductIds
                 PROVE  /\ added[c][p] # << >> => p \in DOMAIN current
                        /\ p \in DOMAIN current /\ alone =>
                              EndsAt(trail[p] \o added[c][p], before.prices[p])
      BY <1>3, <1>4, <2>1 DEF SessionHolds
    <2>2. /\ added[c][p] # << >> => p \in DOMAIN prices[c]
          /\ p \in DOMAIN prices[c] /\ alone => EndsAt(trail[p] \o added[c][p], prices[c][p])
          /\ DOMAIN prices[c] \subseteq DOMAIN current
      BY <1>5, SessIs DEF SessionHolds, ProductsInv, SessionsHold
    <2>3. CASE p \in DOMAIN prices[c]
      BY <1>4, <2>2, <2>3
    <2>4. CASE p \notin DOMAIN prices[c]
      <3>1. added[c][p] = << >>
        BY <2>2, <2>4
      <3>2. trail[p] \o added[c][p] = trail[p]
        BY <1>2, <3>1
      <3>3. alone /\ p \in DOMAIN current => EndsAt(trail[p], current[p])
        BY DEF ProductsInv, ProductsShape
      <3> QED BY <1>4, <2>4, <3>1, <3>2, <3>3
    <2> QED BY <2>3, <2>4
  <1>7. \A p \in ProductIds : p \notin DOMAIN before.prices => trail[p] = << >>
    BY <1>4 DEF ProductsInv, ProductsShape
  <1>8. SessionHolds(end, current, trail) /\ DOMAIN current \subseteq DOMAIN end.prices
    BY <1>2, <1>4, <1>6, <1>7, AfterAllHolds
  <1> HIDE DEF before, end
  <1>9. DOMAIN current' = DOMAIN end.prices
    BY <1>1
  <1>10. ProductsShape'
    <2>1. DOMAIN current' \subseteq ProductIds /\ end.rows \in [ProductIds -> Seq(ListPrices)]
      BY <1>8, <1>9 DEF SessionHolds
    <2>2. trail' \in [ProductIds -> Seq(ListPrices)]
      <3>1. \A p \in ProductIds : trail[p] \o end.rows[p] \in Seq(ListPrices)
        <4>1. \A t, u \in Seq(ListPrices) : t \o u \in Seq(ListPrices)
          OBVIOUS
        <4> QED BY <1>2, <2>1, <4>1
      <3> QED BY <1>1, <3>1
    <2>3. ASSUME NEW p \in ProductIds
          PROVE  /\ p \in DOMAIN current' <=> trail'[p] # << >>
                 /\ alone /\ p \in DOMAIN current' => EndsAt(trail'[p], current'[p])
      <3>1. /\ trail'[p] = trail[p] \o end.rows[p]
            /\ trail[p] \in Seq(ListPrices) /\ end.rows[p] \in Seq(ListPrices)
        BY <1>1, <1>2, <2>1
      <3>2. trail'[p] = << >> <=> trail[p] = << >> /\ end.rows[p] = << >>
        <4>1. \A t, u \in Seq(ListPrices) : t \o u = << >> <=> t = << >> /\ u = << >>
          OBVIOUS
        <4> QED BY <3>1, <4>1
      <3>3. p \in DOMAIN current <=> trail[p] # << >>
        BY DEF ProductsInv, ProductsShape
      <3>4. /\ end.rows[p] # << >> => p \in DOMAIN end.prices
            /\ p \in DOMAIN end.prices => p \in DOMAIN current \/ end.rows[p] # << >>
            /\ p \in DOMAIN end.prices /\ alone => EndsAt(trail[p] \o end.rows[p], end.prices[p])
        BY <1>8 DEF SessionHolds
      <3>5. alone /\ p \in DOMAIN current' => current'[p] = end.prices[p]
        <4>1. alone /\ p \in DOMAIN held[c] => held[c][p] = current[p]
          BY DEF ProductsInv, SessionsHold
        <4> QED BY <1>1, <4>1
      <3> QED BY <1>8, <1>9, <3>1, <3>2, <3>3, <3>4, <3>5
    <2> QED BY <1>1, <2>1, <2>2, <2>3 DEF ProductsShape, EndsAt
  <1> QED BY <1>1, <1>8, <1>9, <1>10, OverHolds

LEMMA ProductsNextHolds == ProductsInv /\ [ProductsNext]_productVars => ProductsInv'
  <1> SUFFICES ASSUME ProductsInv, [ProductsNext]_productVars PROVE ProductsInv'
    OBVIOUS
  <1>1. CASE UNCHANGED productVars
    <2>1. /\ alone' = alone /\ current' = current /\ trail' = trail /\ phase' = phase
          /\ todo' = todo /\ held' = held /\ prices' = prices /\ added' = added
      BY <1>1 DEF productVars, importVarsOf
    <2>2. ProductsShape'
      BY <2>1 DEF ProductsInv, ProductsShape, EndsAt
    <2>3. ImportsShape'
      BY <2>1 DEF ProductsInv, ImportsShape
    <2>4. ASSUME NEW d \in Importers
          PROVE  /\ SessionHolds(Sess(prices'[d], added'[d]), current', trail')
                 /\ DOMAIN prices'[d] \subseteq DOMAIN current'
                 /\ phase'[d] = "idle" => /\ prices'[d] = << >> /\ held'[d] = << >>
                                          /\ added'[d] = NothingAdded
                 /\ alone' => \A p \in DOMAIN held'[d] : held'[d][p] = current'[p]
      <3>1. /\ SessionHolds(Sess(prices[d], added[d]), current, trail)
            /\ DOMAIN prices[d] \subseteq DOMAIN current
            /\ phase[d] = "idle" => prices[d] = << >> /\ held[d] = << >> /\ added[d] = NothingAdded
            /\ alone => \A p \in DOMAIN held[d] : held[d][p] = current[p]
        BY DEF ProductsInv, SessionsHold
      <3>2. SessionHolds(Sess(prices'[d], added'[d]), current', trail')
        BY <2>1, <3>1, HoldsOn
      <3> QED BY <2>1, <3>1, <3>2
    <2>5. SessionsHold'
      BY <2>1, <2>4 DEF SessionsHold, SessionHolds
    <2> QED BY <2>2, <2>3, <2>5 DEF ProductsInv
  <1>2. ASSUME NEW c \in Importers, StartImport(c) PROVE ProductsInv'
    <2>1. /\ phase[c] = "idle" /\ (alone => \A d \in Importers : phase[d] = "idle")
          /\ phase' = [phase EXCEPT ![c] = "read"]
          /\ \E batch \in BoundedSeq(Records, MaxRecords) : todo' = [todo EXCEPT ![c] = batch]
          /\ alone' = alone /\ current' = current /\ trail' = trail
          /\ held' = held /\ prices' = prices /\ added' = added
      BY <1>2 DEF StartImport
    <2>2. BoundedSeq(Records, MaxRecords) \subseteq Seq(Records)
      BY ProductsAssumption DEF BoundedSeq, SeqOf, ProductsAssumption
    <2>3. ImportsShape' /\ ProductFrame(c) /\ phase'[c] = "read"
      BY <2>1, <2>2 DEF ProductsInv, ImportsShape, ProductFrame
    <2> QED BY <2>1, <2>3, GoesOn DEF ProductsInv, SessionsHold
  <1>3. ASSUME NEW c \in Importers, LookUp(c) PROVE ProductsInv'
    BY <1>3, LookUpHolds
  <1>4. ASSUME NEW c \in Importers, ReadyToWrite(c) PROVE ProductsInv'
    <2>1. /\ phase[c] = "read" /\ phase' = [phase EXCEPT ![c] = "write"]
          /\ alone' = alone /\ current' = current /\ trail' = trail /\ todo' = todo
          /\ held' = held /\ prices' = prices /\ added' = added
      BY <1>4 DEF ReadyToWrite
    <2>2. ImportsShape' /\ ProductFrame(c) /\ phase'[c] = "write"
      BY <2>1 DEF ProductsInv, ImportsShape, ProductFrame
    <2> QED BY <2>1, <2>2, GoesOn DEF ProductsInv, SessionsHold
  <1>5. ASSUME NEW c \in Importers, Commit(c) PROVE ProductsInv'
    BY <1>5, CommitHolds
  <1>6. ASSUME NEW c \in Importers, RollBack(c) PROVE ProductsInv'
    <2>1. /\ phase[c] # "idle" /\ EndImport(c)
          /\ alone' = alone /\ current' = current /\ trail' = trail
      BY <1>6 DEF RollBack
    <2>2. ProductsShape'
      BY <2>1 DEF ProductsInv, ProductsShape, EndsAt
    <2> QED BY <2>1, <2>2, OverHolds
  <1> QED BY <1>1, <1>2, <1>3, <1>4, <1>5, <1>6 DEF ProductsNext

LEMMA ProductsInitHolds == ProductsInit => ProductsInv
  <1> SUFFICES ASSUME ProductsInit PROVE ProductsInv
    OBVIOUS
  <1>1. ProductsShape
    BY DEF ProductsInit, ProductsShape, NothingAdded
  <1>2. ImportsShape
    BY DEF ProductsInit, ImportsShape
  <1>3. \A c \in Importers : prices[c] = << >> /\ held[c] = << >> /\ added[c] = NothingAdded
    BY DEF ProductsInit
  <1> QED BY <1>1, <1>2, <1>3, IdleHolds DEF ProductsInv, SessionsHold

(* For any products, prices and imports: a product has a price exactly     *)
(* when it has a trail, also when imports overlap; with one import at a    *)
(* time the price is the last of the trail, and no price stands in it twice*)
(* in a row, also when a batch lists a product more than once              *)
(* (upsert_product, import_records).                                       *)
THEOREM PricesEndTheTrails == ProductsSpec => []TrailEndsAtPrice
  <1>1. ProductsInv => TrailEndsAtPrice
    BY DEF ProductsInv, ProductsShape, TrailEndsAtPrice, EndsAt, Last
  <1> QED BY ProductsInitHolds, ProductsNextHolds, <1>1, PTL DEF ProductsSpec
-----------------------------------------------------------------------------
(* The desks together.  The types of a ticket hold for overlapping calls   *)
(* as well.                                                                *)
TicketTypes ==
    /\ ticket \in [TicketNos -> Ticket]
    /\ assignments \in [TicketNos -> SUBSET Assignment]
    /\ ticketEvents \in [TicketNos -> SUBSET (1..MaxVersion)]
    /\ clerk \in [Clerks -> OpenWork]
    /\ oneClerk \in BOOLEAN
    /\ \A t \in TicketNos : IsFiniteSet(assignments[t])
    /\ \A c \in Clerks : /\ IsFiniteSet(clerk[c].ends)
                         /\ clerk[c].assigns => clerk[c].to.assignee \in Assignees

LEMMA TicketTypesInit == TicketsInit => TicketTypes
  <1>1. IsFiniteSet({}) /\ NoWork.ends = {} /\ NoWork.assigns = FALSE
    BY FS_EmptySet DEF NoWork
  <1> QED BY <1>1, TicketRowTypes DEF TicketsInit, TicketTypes

LEMMA TicketCommitTyped ==
    ASSUME TicketTypes, NEW c \in Clerks, CommitTicket(c)
    PROVE  TicketTypes'
  <1> DEFINE call == clerk[c]
             t == call.no
             ended == {[a EXCEPT !.ended = TRUE] : a \in call.ends}
             newest == {[no |-> Cardinality(assignments[t]) + 1, who |-> call.to.assignee,
                        ended |-> FALSE]}
             row == [f \in DOMAIN call.to |->
                            IF call.to[f] = call.seen[f] THEN ticket[t][f] ELSE call.to[f]]
  <1>1. /\ t \in TicketNos /\ call.to \in Ticket /\ call.seen \in Ticket /\ ticket[t] \in Ticket
        /\ call.ends \subseteq Assignment /\ IsFiniteSet(call.ends) /\ call.assigns \in BOOLEAN
        /\ call.assigns => call.to.assignee \in Assignees
    BY DEF CommitTicket, TicketTypes, OpenWork
  <1>2. ticket' = [ticket EXCEPT ![t] = row]
    BY <1>1 DEF CommitTicket, TicketTypes
  <1>3. row \in Ticket
    <2>1. DOMAIN call.to = {"exists", "status", "version", "assignee"}
      BY <1>1 DEF Ticket
    <2>2. /\ row = [exists |-> row.exists, status |-> row.status,
                        version |-> row.version, assignee |-> row.assignee]
          /\ row.exists \in BOOLEAN /\ row.status \in TicketStatuses
          /\ row.version \in 1..MaxVersion /\ row.assignee \in Assignees \cup {Nobody}
      BY <1>1, <2>1 DEF Ticket
    <2> HIDE DEF row
    <2> QED BY <2>2 DEF Ticket
  <1>4. ticket' \in [TicketNos -> Ticket]
    BY <1>2, <1>3 DEF TicketTypes
  <1>5. clerk' = [clerk EXCEPT ![c] = NoWork] /\ oneClerk' = oneClerk
    BY DEF CommitTicket
  <1>6. clerk' \in [Clerks -> OpenWork] 
        /\ \A d \in Clerks : /\ IsFiniteSet(clerk'[d].ends)
                             /\ clerk'[d].assigns => clerk'[d].to.assignee \in Assignees
    BY <1>5, TicketRowTypes, FS_EmptySet DEF TicketTypes, NoWork
  <1>7. CASE call.assigns
    <2> DEFINE B == ((assignments[t] \ call.ends) \cup ended) \cup newest
    <2>1. assignments' = [assignments EXCEPT ![t] = B] /\ ticketEvents' = ticketEvents
      BY <1>1, <1>7 DEF CommitTicket, TicketTypes
    <2>2. assignments[t] \in SUBSET Assignment /\ IsFiniteSet(assignments[t])
      BY <1>1 DEF TicketTypes
    <2>3. IsFiniteSet(ended) /\ ended \subseteq Assignment
      <3>1. IsFiniteSet(ended)
        <4> DEFINE f == [a \in call.ends |-> [a EXCEPT !.ended = TRUE]]
        <4>1. f \in Surjection(call.ends, ended)
          BY DEF Surjection
        <4> HIDE DEF f
        <4> QED BY <1>1, <4>1, FS_Surjection
      <3> QED BY <1>1, <3>1 DEF Assignment
    <2>4. B \in SUBSET Assignment
      <3>1. Cardinality(assignments[t]) \in Nat
        BY <2>2, FS_CardinalityType
      <3>2. newest \subseteq Assignment
        BY <1>1, <1>7, <3>1 DEF Assignment
      <3> QED BY <2>2, <2>3, <3>2
    <2>5. IsFiniteSet(B)
      <3>1. IsFiniteSet(assignments[t] \ call.ends)
        BY <2>2, FS_Subset
      <3>2. IsFiniteSet((assignments[t] \ call.ends) \cup ended)
        BY <2>3, <3>1, FS_Union
      <3> QED BY <3>2, FS_AddElement
    <2> HIDE DEF B
    <2> QED BY <1>4, <1>5, <1>6, <2>1, <2>4, <2>5 DEF TicketTypes
  <1>8. CASE ~call.assigns
    <2>1. /\ assignments' = assignments
          /\ ticketEvents' = [ticketEvents EXCEPT ![t] = @ \cup {call.to.version}]
      BY <1>8 DEF CommitTicket
    <2>2. call.to.version \in 1..MaxVersion
      BY <1>1 DEF Ticket
    <2> QED BY <1>1, <1>4, <1>5, <1>6, <2>1, <2>2 DEF TicketTypes
  <1> QED BY <1>1, <1>7, <1>8

LEMMA TicketStartTyped ==
    ASSUME TicketTypes, NEW c \in Clerks, NEW t \in TicketNos, NEW expected \in 1..MaxVersion,
           \/ \E target \in TicketStatuses : StartTransition(c, t, target, expected)
           \/ \E who \in Assignees : StartAssignment(c, t, who, expected)
    PROVE  TicketTypes'
  <1>1. /\ ticket[t] \in Ticket /\ assignments[t] \in SUBSET Assignment
        /\ IsFiniteSet(assignments[t])
    BY DEF TicketTypes
  <1>2. UNCHANGED <<ticket, assignments, ticketEvents, oneClerk>>
    BY DEF StartTransition, StartAssignment
  <1>3. SUFFICES ASSUME NEW task \in OpenWork, IsFiniteSet(task.ends),
                        task.assigns => task.to.assignee \in Assignees,
                        clerk' = [clerk EXCEPT ![c] = task]
                 PROVE  TicketTypes'
    <2>1. CASE \E target \in TicketStatuses : StartTransition(c, t, target, expected)
      <3>1. PICK target \in TicketStatuses : StartTransition(c, t, target, expected)
        BY <2>1
      <3> DEFINE to == [ticket[t] EXCEPT !.status = target, !.version = expected + 1]
                 task == [NoWork EXCEPT !.no = t, !.seen = ticket[t], !.to = to]
      <3>2. clerk' = [clerk EXCEPT ![c] = task] /\ expected + 1 \in 1..MaxVersion
        <4>1. clerk' = [clerk EXCEPT ![c] = task] /\ expected < MaxVersion
          BY <3>1, Zenon DEF StartTransition, Current
        <4> QED BY <4>1, TicketsAssumption DEF TicketsAssumption
      <3>3. to \in Ticket
        BY <1>1, <3>2 DEF Ticket
      <3> HIDE DEF to
      <3>4. task \in OpenWork /\ task.ends = {} /\ ~task.assigns
        BY <1>1, <3>3 DEF OpenWork, NoWork
      <3> HIDE DEF task
      <3> QED BY <1>3, <3>2, <3>4, FS_EmptySet
    <2>2. CASE \E who \in Assignees : StartAssignment(c, t, who, expected)
      <3>1. PICK who \in Assignees : StartAssignment(c, t, who, expected)
        BY <2>2
      <3> DEFINE to == [ticket[t] EXCEPT !.assignee = who, !.version = expected + 1,
                                         !.status = IF @ = "open" THEN "assigned" ELSE @]
                 task == [no |-> t, seen |-> ticket[t], assigns |-> TRUE, ends |-> ToEnd(t, who),
                          to |-> to]
      <3>2. clerk' = [clerk EXCEPT ![c] = task] /\ expected + 1 \in 1..MaxVersion
        <4>1. clerk' = [clerk EXCEPT ![c] = task] /\ expected < MaxVersion
          BY <3>1, Zenon DEF StartAssignment, Current
        <4> QED BY <4>1, TicketsAssumption DEF TicketsAssumption
      <3>3. to \in Ticket /\ to.assignee = who
        BY <1>1, <3>2 DEF Ticket, TicketStatuses
      <3> HIDE DEF to
      <3>4. ToEnd(t, who) \subseteq assignments[t] /\ IsFiniteSet(ToEnd(t, who))
        BY <1>1, FS_Subset DEF ToEnd
      <3>5. task \in OpenWork /\ IsFiniteSet(task.ends) /\ task.to.assignee \in Assignees
        BY <1>1, <3>3, <3>4 DEF OpenWork
      <3> HIDE DEF task
      <3> QED BY <1>3, <3>2, <3>5
    <2> QED BY <2>1, <2>2
  <1> QED BY <1>2, <1>3 DEF TicketTypes

LEMMA TicketTypesStep == TicketTypes /\ [TicketsNext]_ticketVars => TicketTypes'
  <1> SUFFICES ASSUME TicketTypes, [TicketsNext]_ticketVars PROVE TicketTypes'
    OBVIOUS
  <1>1. CASE UNCHANGED ticketVars
    BY <1>1 DEF ticketVars, TicketTypes
  <1>2. ASSUME NEW t \in TicketNos, CreateTicket(t) PROVE TicketTypes'
    BY <1>2 DEF CreateTicket, TicketTypes, Ticket
  <1> QED BY <1>1, <1>2, TicketCommitTyped, TicketStartTyped DEF TicketsNext

(* A collection holds products of its listing only.                        *)
LEMMA CrawlTypes == CrawlInv => CrawlTypeOK
  <1> SUFFICES ASSUME CrawlInv PROVE CrawlTypeOK
    OBVIOUS
  <1> QED BY DEF CrawlInv, CrawlTyped, Ended, ItemsOf, CrawlTypeOK

(* Each desk rests in a first state of its own.                            *)
DesksInv ==
    /\ ContentInv /\ AccountsInv /\ TicketTypes /\ AlertsInv /\ Inv /\ CrawlInv

LEMMA DesksInvInit == DesksInit => DesksInv
  BY ContentInvInit, AccountsInvInit, TicketTypesInit, AlertsInvInit, InvInit, CrawlInvInit
     DEF DesksInit, DesksInv

LEMMA DesksInvStep == DesksInv /\ [DesksNext]_desksVars => DesksInv'
  <1> SUFFICES ASSUME DesksInv, [DesksNext]_desksVars PROVE DesksInv'
    OBVIOUS
  <1>1. /\ [ContentNext]_contentVars /\ [AccountsNext]_accountsVars /\ [TicketsNext]_ticketVars
        /\ [AlertsNext]_alertVars /\ [FixtureNext]_fixtureVars /\ [CrawlNext]_crawlVars
    BY DEF DesksNext, desksVars
  <1> QED BY <1>1, ContentInvStep, AccountsInvStep, TicketTypesStep, AlertsInvStep, InvStep,
             CrawlInvStep DEF DesksInv

(* Whichever desk is at work keeps to its types.                           *)
THEOREM DesksAreTyped == DesksSpec => []DesksTypeOK
  <1>1. DesksInv => DesksTypeOK
    <2> SUFFICES ASSUME DesksInv PROVE DesksTypeOK
      OBVIOUS
    <2>1. ContentTypeOK /\ AccountsTypeOK /\ AlertsTypeOK
      BY DEF DesksInv, ContentInv, AccountsInv, AlertsInv, AlertsTypeInv
    <2>2. TicketsTypeOK
      BY DEF DesksInv, TicketTypes, TicketsTypeOK, OpenWork
    <2>3. FixtureTypeOK
      BY DEF DesksInv, Inv, TypeInv, FixtureTypeOK, Call
    <2>4. CrawlTypeOK
      BY CrawlTypes DEF DesksInv
    <2> QED BY <2>1, <2>2, <2>3, <2>4 DEF DesksTypeOK
  <1> QED BY DesksInvInit, DesksInvStep, <1>1, PTL DEF DesksSpec

(* A behaviour of the desks is one of each desk: the others touch no row   *)
(* of it.                                                                  *)
LEMMA DesksAreEach ==
    DesksSpec => /\ ContentSpec /\ AccountsSpec /\ TicketsSpec /\ AlertsSpec
                 /\ FixtureSpec /\ DocumentsSpec /\ CrawlSpec /\ ProductsSpec
  <1>1. DesksInit => /\ ContentInit /\ AccountsInit /\ TicketsInit /\ AlertsInit
                     /\ FixtureInit /\ DocumentsInit /\ CrawlInit /\ ProductsInit
    BY DEF DesksInit
  <1>2. [DesksNext]_desksVars =>
            /\ [ContentNext]_contentVars /\ [AccountsNext]_accountsVars
            /\ [TicketsNext]_ticketVars /\ [AlertsNext]_alertVars
            /\ [FixtureNext]_fixtureVars /\ [DocumentsNext]_docVars
            /\ [CrawlNext]_crawlVars /\ [ProductsNext]_productVars
    BY DEF DesksNext, desksVars
  <1> QED BY <1>1, <1>2, PTL DEF DesksSpec, ContentSpec, AccountsSpec, TicketsSpec, AlertsSpec,
                                 FixtureSpec, DocumentsSpec, CrawlSpec, ProductsSpec

(* What each desk keeps, it keeps beside the others (content_application,  *)
(* accounts, the inbox, its alerts, the retries of fixture runs, imported  *)
(* documents, collections and prices).                                     *)
THEOREM DesksAreKept ==
    DesksSpec => /\ [](RevisionsHold /\ AccountsHold /\ TicketsAgree /\ RefreshedAlertsAgree)
                 /\ [](RetriesHold /\ DocumentsHold /\ CollectedIsWhole /\ TrailEndsAtPrice)
                 /\ ApprovedContentStands
  <1>1. DesksSpec => [](RevisionsHold /\ AccountsHold /\ TicketsAgree /\ RefreshedAlertsAgree)
    BY DesksAreEach, RevisionsAgree, AccountsAreKept, TicketsAreKept, AlertsFollowCauses, PTL
  <1>2. DesksSpec => [](RetriesHold /\ DocumentsHold /\ CollectedIsWhole /\ TrailEndsAtPrice)
    BY DesksAreEach, RetriesAreMadeOnce, DocumentsAreWhole, CollectionsAreWhole,
       PricesEndTheTrails, PTL
  <1>3. DesksSpec => ApprovedContentStands
    BY DesksAreEach, ApprovalIsForGood, PTL
  <1> QED BY <1>1, <1>2, <1>3, PTL
=============================================================================
