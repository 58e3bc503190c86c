---------------------------- MODULE OwnerAccess ----------------------------
(***************************************************************************)
(* The OWNERs of the administration: accounts, passwords and MFA, sessions *)
(* and the signed cookies between the steps of a login                     *)
(* (http/admin-routes.ts, domain/deployment-managed-admin.ts, the trigger  *)
(* preserve_last_admin_owner of migrations/001).  A handler reads the      *)
(* session and often the account before its transaction: what it commits   *)
(* rests on what it has read.                                              *)
(***************************************************************************)
EXTENDS Integers, FiniteSets

CONSTANTS
  Accounts,     \* rows of admin_account
  Deployed,     \* the account that the deployment manages, in Accounts
  Requests,     \* handlers that run at the same time
  MaxSessions,  \* bound: sessions ever opened
  MaxChanges    \* bound: new passwords, MFA secrets and epochs together

VARIABLES
  completed,  \* admin_bootstrap_state.completed
  account,    \* admin_account: versions stand for the password and the MFA secret (0: none)
  session,    \* admin_session; knows: the password and MFA secret it was opened or renewed with
  cookie,     \* login_challenge, trusted_device and mfa_enrollment tokens that are not expired
  request,    \* what a handler has read
  changes     \* what MaxChanges bounds, and the source of new versions

ownerVars == <<completed, account, session, cookie, request, changes>>

Sessions  == 1..MaxSessions
Version   == 0..MaxChanges
NoAccount == [state |-> "none", password |-> 0, mfa |-> 0, epoch |-> 0]
NoSession == [state |-> "none", account |-> Deployed, epoch |-> 0, password |-> 0, mfa |-> 0]
Done      == [pc |-> "idle", account |-> Deployed, session |-> 1, row |-> NoAccount, trust |-> FALSE, old |-> {}]

Live(s)    == session[s].state = "live"
Active(a)  == account[a].state = "active"
SessionsOf(a) == {s \in Sessions : Live(s) /\ session[s].account = a}

\* findSessionAccount
Usable(s) == Live(s) /\ Active(session[s].account) /\ session[s].epoch = account[session[s].account].epoch

Init ==
  /\ completed = FALSE
  /\ account = [a \in Accounts |-> NoAccount]
  /\ session = [s \in Sessions |-> NoSession]
  /\ cookie = {}
  /\ request = [r \in Requests |-> Done]
  /\ changes = 0

Next1 == changes + 1
MayChange == changes < MaxChanges

\* a transaction that holds the row of the account until its commit
RowLocked(a) == \E r \in Requests : request[r].pc = "deactivating" /\ request[r].account = a

\* what a transaction does to the sessions of an account; nobody looks at a revoked one again
Revoked(sessions) ==
  [s \in Sessions |-> IF s \in sessions THEN [NoSession EXCEPT !.state = "revoked"] ELSE session[s]]
Renewed(s, a, epoch, password, mfa) ==
  LET revoked == Revoked(SessionsOf(a) \ {s}) IN
  IF Live(s) THEN [revoked EXCEPT ![s].epoch = epoch, ![s].password = password, ![s].mfa = mfa] ELSE revoked

-----------------------------------------------------------------------------
(* Accounts.                                                                *)

\* the first password and epoch of an account are its version 0
Fresh == [NoAccount EXCEPT !.state = "active"]

\* bootstrapAdmin, under the lock of the singleton row
Bootstrap(a) ==
  /\ ~completed /\ \A b \in Accounts : ~Active(b)
  /\ account[a].state = "none"
  /\ completed' = TRUE
  /\ account' = [account EXCEPT ![a] = Fresh]
  /\ UNCHANGED <<session, cookie, request, changes>>

\* syncDeploymentManagedAdmin at a deployment: a configured MFA secret moves no epoch
SyncDeployed ==
  /\ MayChange /\ ~RowLocked(Deployed)
  /\ LET row == account[Deployed]
         rotate == row.state = "none" IN
       \E rotated \in {rotate, TRUE}, configured \in BOOLEAN :
         /\ account' = [account EXCEPT ![Deployed] =
              [state |-> "active", password |-> IF rotated THEN Next1 ELSE row.password,
               mfa |-> IF configured THEN Next1 ELSE row.mfa, epoch |-> IF rotated THEN Next1 ELSE row.epoch]]
         /\ session' = IF rotated THEN Revoked(SessionsOf(Deployed)) ELSE session
  /\ changes' = Next1
  /\ UNCHANGED <<completed, cookie, request>>

-----------------------------------------------------------------------------
(* Logging in.                                                              *)

\* POST /api/login reads the account; its state and password are looked at afterwards.  The
\* failures are counted by LoginThrottle
ReadAccount(r, a) ==
  /\ request[r] = Done /\ Active(a)
  /\ request' = [request EXCEPT ![r] = [Done EXCEPT !.pc = "password", !.account = a, !.row = account[a]]]
  /\ UNCHANGED <<completed, account, session, cookie, changes>>

Cookie(purpose, a, epoch, password) ==
  [purpose |-> purpose, account |-> a, epoch |-> epoch, password |-> password]

\* trustedDeviceMatches
Trusted(a, epoch) == \E c \in cookie : c.purpose = "trusted_device" /\ c.account = a /\ c.epoch = epoch

\* the password matches the row that was read; a trusted device needs no code
VerifyPassword(r) ==
  LET job == request[r] IN
  /\ job.pc = "password"
  /\ \/ /\ job.row.mfa = 0 \/ Trusted(job.account, job.row.epoch)
        /\ request' = [request EXCEPT ![r].pc = "session"]
        /\ UNCHANGED cookie
     \/ /\ job.row.mfa # 0
        /\ cookie' = cookie \union
             {Cookie("login_challenge", job.account, job.row.epoch, job.row.password)}
        /\ request' = [request EXCEPT ![r] = Done]
  /\ UNCHANGED <<completed, account, session, changes>>

\* POST /api/login/mfa: the row as it is now, with the epoch of the challenge
AnswersChallenge(a, c) == c.account = a /\ c.epoch = account[a].epoch

AnswerChallenge(r, c) ==
  /\ request[r] = Done /\ c.purpose = "login_challenge"
  /\ Active(c.account) /\ account[c.account].mfa # 0 /\ AnswersChallenge(c.account, c)
  /\ request' = [request EXCEPT ![r] = [Done EXCEPT !.pc = "session", !.account = c.account, !.trust = TRUE,
                    !.row = [account[c.account] EXCEPT !.password = c.password]]]
  /\ UNCHANGED <<completed, account, session, cookie, changes>>

\* createAdminSession: the live sessions that its first statement finds are revoked with its commit
RevokeOld(r) ==
  /\ request[r].pc = "session"
  /\ request' = [request EXCEPT ![r].pc = "insert", ![r].old = SessionsOf(request[r].account)]
  /\ UNCHANGED <<completed, account, session, cookie, changes>>

InsertSession(r) ==
  LET job == request[r] IN
  /\ job.pc = "insert"
  /\ \E s \in Sessions :
       /\ session[s].state = "none" /\ \A t \in 1..(s - 1) : session[t].state # "none"
       /\ session' = [Revoked(job.old) EXCEPT ![s] =
            [state |-> "live", account |-> job.account, epoch |-> job.row.epoch,
             password |-> job.row.password, mfa |-> job.row.mfa]]
  /\ cookie' = IF job.trust THEN cookie \union {Cookie("trusted_device", job.account, job.row.epoch, 0)}
               ELSE cookie
  /\ request' = [request EXCEPT ![r] = Done]
  /\ UNCHANGED <<completed, account, changes>>

-----------------------------------------------------------------------------
(* What an OWNER with a usable session does.  sessionAccount is asked first,  *)
(* in a statement of its own; a handler that touches the session afterwards  *)
(* is two steps here, one that does not is one.                              *)

Begin(r, s) ==
  /\ request[r] = Done /\ Usable(s) /\ session[s].account # Deployed
  /\ \E op \in {"own_password", "own_mfa"} :
       request' = [request EXCEPT ![r] = [Done EXCEPT !.pc = op, !.account = session[s].account,
                     !.session = s, !.row.epoch = account[session[s].account].epoch]]
  /\ UNCHANGED <<completed, account, session, cookie, changes>>

NewEpoch_Kept(a) == account[a].epoch
NewEpoch(a) == Next1

\* changeAdminPassword: the old password was verified before; a session revoked meanwhile stays so
ChangePassword(r) ==
  LET job == request[r] IN
  /\ job.pc = "own_password" /\ MayChange /\ ~RowLocked(job.account)
  /\ account' = [account EXCEPT ![job.account].password = Next1, ![job.account].epoch = NewEpoch(job.account)]
  /\ session' = Renewed(job.session, job.account, NewEpoch(job.account), Next1, session[job.session].mfa)
  /\ changes' = Next1
  /\ request' = [request EXCEPT ![r] = Done]
  /\ UNCHANGED <<completed, cookie>>

\* admin-mfa/enrollment/verify of a token from enrollment/start: the epoch of the token is
\* compared under the account's lock
SameEpoch(job) == job.row.epoch = account[job.account].epoch

Enroll(r) ==
  LET job == request[r] IN
  /\ job.pc = "own_mfa" /\ MayChange /\ ~RowLocked(job.account) /\ SameEpoch(job)
  /\ account' = [account EXCEPT ![job.account].mfa = Next1, ![job.account].epoch = NewEpoch(job.account)]
  /\ session' = Renewed(job.session, job.account, NewEpoch(job.account), session[job.session].password, Next1)
  /\ cookie' = cookie \union {Cookie("trusted_device", job.account, NewEpoch(job.account), 0)}
  /\ changes' = Next1
  /\ request' = [request EXCEPT ![r] = Done]
  /\ UNCHANGED completed

AnyOwner == \E s \in Sessions : Usable(s)

\* setManagedAdminPassword, setManagedAdminMfa
SetSecret(a) ==
  /\ AnyOwner /\ MayChange /\ ~RowLocked(a) /\ a # Deployed /\ account[a].state # "none"
  /\ \/ account' = [account EXCEPT ![a].password = Next1, ![a].epoch = NewEpoch(a)]
     \/ account' = [account EXCEPT ![a].mfa = IF @ = 0 THEN Next1 ELSE 0, ![a].epoch = NewEpoch(a)]
  /\ session' = Revoked(SessionsOf(a))
  /\ changes' = Next1
  /\ UNCHANGED <<completed, cookie, request>>

\* revokeAllAdminSessions, revokeAdminAccountSessions
RevokeSessions(a) ==
  /\ AnyOwner /\ MayChange /\ ~RowLocked(a) /\ account[a].state # "none"
  /\ account' = [account EXCEPT ![a].epoch = NewEpoch(a)]
  /\ session' = Revoked(SessionsOf(a))
  /\ changes' = Next1
  /\ UNCHANGED <<completed, cookie, request>>

\* createAdminAccount
CreateAccount(a) ==
  /\ AnyOwner /\ account[a].state = "none"
  /\ account' = [account EXCEPT ![a] = Fresh]
  /\ UNCHANGED <<completed, session, cookie, request, changes>>

\* updateAdminAccount
Activate(a) ==
  /\ AnyOwner /\ account[a].state = "inactive"
  /\ account' = [account EXCEPT ![a].state = "active"]
  /\ UNCHANGED <<completed, session, cookie, request, changes>>

\* the trigger asks for another active OWNER and sees what is committed
AskToDeactivate(r, a) ==
  /\ request[r] = Done /\ AnyOwner /\ Active(a) /\ ~RowLocked(a)
  /\ \E b \in Accounts \ {a} : Active(b)
  /\ request' = [request EXCEPT ![r] = [Done EXCEPT !.pc = "deactivating", !.account = a]]
  /\ UNCHANGED <<completed, account, session, cookie, changes>>

Deactivate(r) ==
  LET job == request[r] IN
  /\ job.pc = "deactivating"
  /\ account' = [account EXCEPT ![job.account].state = "inactive"]
  /\ session' = Revoked(SessionsOf(job.account))
  /\ request' = [request EXCEPT ![r] = Done]
  /\ UNCHANGED <<completed, cookie, changes>>

\* POST /api/logout, admin-sessions/:id/revoke and revoke-others: no epoch moves
RevokeSession(s, other) ==
  /\ Usable(s) /\ Live(other) /\ session[other].account = session[s].account
  /\ session' = Revoked({other})
  /\ UNCHANGED <<completed, account, cookie, request, changes>>

RevokeOthers(s) ==
  /\ Usable(s) /\ SessionsOf(session[s].account) # {s}
  /\ session' = Revoked(SessionsOf(session[s].account) \ {s})
  /\ UNCHANGED <<completed, account, cookie, request, changes>>

\* a wrong password or code, a 4xx, a client that goes away
GiveUp(r) ==
  /\ request[r].pc \notin {"idle", "insert", "deactivating"}
  /\ request' = [request EXCEPT ![r] = Done]
  /\ UNCHANGED <<completed, account, session, cookie, changes>>

\* eight hours pass
SessionExpires(s) ==
  /\ Live(s)
  /\ session' = Revoked({s})
  /\ UNCHANGED <<completed, account, cookie, request, changes>>

-----------------------------------------------------------------------------
LogIn(r) ==
  \/ \E a \in Accounts : ReadAccount(r, a)
  \/ VerifyPassword(r)
  \/ \E c \in cookie : AnswerChallenge(r, c)
  \/ RevokeOld(r) \/ InsertSession(r)

Manage(r) ==
  \/ \E s \in Sessions : Begin(r, s)
  \/ ChangePassword(r) \/ Enroll(r)
  \/ \E a \in Accounts : AskToDeactivate(r, a)
  \/ Deactivate(r)

Next ==
  \/ \E a \in Accounts :
       Bootstrap(a) \/ SetSecret(a) \/ RevokeSessions(a) \/ CreateAccount(a) \/ Activate(a)
  \/ SyncDeployed
  \/ \E r \in Requests : LogIn(r) \/ Manage(r) \/ GiveUp(r)
  \/ \E s \in Sessions : RevokeOthers(s) \/ SessionExpires(s) \/ \E t \in Sessions : RevokeSession(s, t)

Spec == Init /\ [][Next]_ownerVars

-----------------------------------------------------------------------------
(* Properties.                                                              *)

OwnerTypeOK ==
  /\ completed \in BOOLEAN
  /\ account \in [Accounts -> [state : {"none", "active", "inactive"}, password : Version, mfa : Version, epoch : Version]]
  /\ session \in [Sessions -> [state : {"none", "live", "revoked"}, account : Accounts, epoch : Version,
                               password : Version, mfa : Version]]
  /\ cookie \subseteq [purpose : {"login_challenge", "trusted_device"}, account : Accounts, epoch : Version,
                       password : Version]
  /\ changes \in Version

\* A session that can be used was opened, or renewed, with the password and the MFA secret that
\* its account has now, whatever logins and changes ran across each other.  The MFA secret that
\* a deployment configures is the exception: it ends no session.
UsableSessionIsCurrent ==
  \A s \in Sessions :
    Usable(s) =>
      /\ session[s].password = account[session[s].account].password
      /\ session[s].account # Deployed => session[s].mfa = account[session[s].account].mfa

\* ui-helpers.ts:57 and IMPLEMENTATION_CONTRACT.md:144: the last active OWNER cannot be
\* deactivated.
OwnerRemains == completed => \E a \in Accounts : Active(a)
=============================================================================
