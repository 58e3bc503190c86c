---- MODULE PlatformAccessProofs ----
(***************************************************************************)
(* Proofs about who may use what: sessions, failed logins, credentials,    *)
(* tokens and leases.  The theorems are about the composed specification,  *)
(* where one component moves and the others keep None; every invariant is  *)
(* about one component.                                                    *)
(***************************************************************************)
EXTENDS MCPlatform, FiniteSetTheorems, TLAPS

\* The component that moves takes its own steps, and the others none.
LEMMA Moves ==
  ASSUME [Next]_all
  PROVE  /\ part' = part
         /\ part = "owner" => [Owner!Next]_ownerVars
         /\ part = "throttle" => [Throttle!Next]_throttleVars
         /\ part = "identity" => [Identity!Next]_identityVars
         /\ part = "calls" => [CallGateway!Next]_callsVars
         /\ part = "access" => [Access!Next]_accessVars
<1>1. CASE Next
  BY <1>1 DEF Next
<1>2. CASE UNCHANGED all
  BY <1>2 DEF all
<1> QED
  BY <1>1, <1>2

LEMMA Starts ==
  ASSUME Init
  PROVE  /\ part = "owner" => Owner!Init
         /\ part = "throttle" => Throttle!Init
         /\ part = "identity" => Identity!Init
         /\ part = "calls" => CallGateway!Init
         /\ part = "access" => Access!Init
BY DEF Init

-----------------------------------------------------------------------------
(***************************************************************************)
(* OwnerAccess: the sessions of the OWNERs.                                *)
(*                                                                         *)
(* A request reads an account, a session or a challenge and uses it in a   *)
(* later transaction.  What it read says an epoch; the invariant is that   *)
(* password and second factor are those of the account for as long as the  *)
(* account has that epoch, for every session, challenge and request, and   *)
(* for the secret that a deployment configures only the password.          *)
(***************************************************************************)

OwnerBounds == Deployed \in Accounts /\ MaxChanges \in Nat

AccountRow == [state : {"none", "active", "inactive"}, password : Nat, mfa : Nat, epoch : Nat]
SessionRow == [state : {"none", "live", "revoked"}, account : Accounts, epoch : Nat, password : Nat, mfa : Nat]
Handling   == {"idle", "password", "session", "insert", "own_password", "own_mfa", "deactivating"}
RequestState ==
  [pc : Handling, account : Accounts, session : Nat, row : AccountRow, trust : BOOLEAN, old : SUBSET Owner!Sessions]
OwnerTyped ==
  /\ account \in [Accounts -> AccountRow]
  /\ session \in [Owner!Sessions -> SessionRow]
  /\ cookie \subseteq [purpose : {"login_challenge", "trusted_device"}, account : Accounts, epoch : Nat,
                       password : Nat]
  /\ request \in [Actors -> RequestState]
  /\ changes \in Nat

\* What was read of an account while it had this epoch is still so while it has it.
RemembersPassword(a, era, password) ==
  era <= changes /\ (era = account[a].epoch => password = account[a].password)
Remembers(a, era, password, mfa) ==
  /\ RemembersPassword(a, era, password)
  /\ era = account[a].epoch /\ a # Deployed => mfa = account[a].mfa

\* A row that a login has read, a session, a challenge, and a handler that looked at its session.
RowOK(r) ==
  request[r].pc \in {"password", "session", "insert"} =>
    Remembers(request[r].account, request[r].row.epoch, request[r].row.password, request[r].row.mfa)
SessionOK(s) ==
  Owner!Live(s) => Remembers(session[s].account, session[s].epoch, session[s].password, session[s].mfa)
ChallengeOK(c) ==
  c.purpose = "login_challenge" => RemembersPassword(c.account, c.epoch, c.password)
OwnOK(r) ==
  request[r].pc \in {"own_password", "own_mfa"} =>
    /\ request[r].session \in Owner!Sessions /\ request[r].account # Deployed
    /\ account[request[r].account].state # "none" /\ session[request[r].session].state # "none"
    /\ Owner!Live(request[r].session) =>
         /\ session[request[r].session].account = request[r].account
         /\ session[request[r].session].epoch = account[request[r].account].epoch
AccountOK(a) ==
  account[a].epoch <= changes /\ (account[a].state = "none" => account[a] = Owner!NoAccount)

OwnerInv ==
  /\ OwnerTyped
  /\ \A a \in Accounts : AccountOK(a)
  /\ \A r \in Actors : RowOK(r) /\ OwnOK(r)
  /\ \A s \in Owner!Sessions : SessionOK(s)
  /\ \A c \in cookie : ChallengeOK(c)

-----------------------------------------------------------------------------
(* What a step does to the accounts and to the sessions.                    *)

\* A new epoch is one that nobody has read; without one the secrets stay.
AccountStep(a) ==
  /\ account[a].state # "none" => account'[a].state # "none"
  /\ \/ account'[a].epoch = changes + 1
     \/ /\ account'[a].epoch = account[a].epoch /\ account'[a].password = account[a].password
        /\ a # Deployed => account'[a].mfa = account[a].mfa
\* A new epoch ends or renews every session of its account.
SessionStep(s) ==
  session[s].state # "none" =>
    \/ session'[s].state = "revoked"
    \/ /\ Owner!Live(s) /\ session'[s].state = "live" /\ session'[s].account = session[s].account
       /\ \/ session'[s].epoch = account'[session[s].account].epoch
          \/ /\ session'[s].epoch = session[s].epoch
             /\ account'[session[s].account].epoch = account[session[s].account].epoch
Steps ==
  /\ OwnerTyped' /\ changes <= changes'
  /\ \A a \in Accounts : AccountStep(a)
  /\ \A s \in Owner!Sessions : SessionStep(s)

LEMMA PasswordKept ==
  ASSUME OwnerTyped, Steps, NEW a \in Accounts, NEW e \in Nat, NEW p, RemembersPassword(a, e, p)
  PROVE  RemembersPassword(a, e, p)'
BY DEF OwnerTyped, AccountRow, Steps, AccountStep, RemembersPassword

LEMMA Kept ==
  ASSUME OwnerTyped, Steps, NEW a \in Accounts, NEW e \in Nat, NEW p, NEW m, Remembers(a, e, p, m)
  PROVE  Remembers(a, e, p, m)'
BY PasswordKept DEF OwnerTyped, AccountRow, Steps, AccountStep, Remembers, RemembersPassword

LEMMA RequestKept ==
  ASSUME OwnerInv, Steps, NEW r \in Actors, request'[r] = request[r]
  PROVE  RowOK(r)' /\ OwnOK(r)'
<1>1. /\ request[r].account \in Accounts /\ request[r].row.epoch \in Nat
      /\ request[r].row.password \in Nat /\ request[r].row.mfa \in Nat
  BY DEF OwnerInv, OwnerTyped, RequestState, AccountRow
<1>2. RowOK(r)'
  <2>1. SUFFICES ASSUME request[r].pc \in {"password", "session", "insert"}
                 PROVE  Remembers(request[r].account, request[r].row.epoch, request[r].row.password,
                                  request[r].row.mfa)'
    BY DEF RowOK
  <2> PICK a \in Accounts, e \in Nat, p \in Nat, m \in Nat :
        a = request[r].account /\ e = request[r].row.epoch /\ p = request[r].row.password
            /\ m = request[r].row.mfa
    BY <1>1
  <2>2. Remembers(a, e, p, m)
    BY <2>1 DEF OwnerInv, RowOK
  <2>3. Remembers(a, e, p, m)'
    BY <2>2, Kept DEF OwnerInv
  <2> QED
    BY <2>3 DEF Remembers, RemembersPassword
<1>3. OwnOK(r)'
  BY <1>1 DEF OwnerInv, OwnOK, Steps, AccountStep, SessionStep, Owner!Live
<1> QED
  BY <1>2, <1>3

LEMMA SessionKept ==
  ASSUME OwnerInv, Steps, NEW s \in Owner!Sessions, session'[s] = session[s] \/ session'[s].state = "revoked"
  PROVE  SessionOK(s)'
<1>1. /\ session[s].account \in Accounts /\ session[s].epoch \in Nat
      /\ session[s].password \in Nat /\ session[s].mfa \in Nat
  BY DEF OwnerInv, OwnerTyped, SessionRow
<1>2. SUFFICES ASSUME Owner!Live(s), session'[s] = session[s]
               PROVE  Remembers(session[s].account, session[s].epoch, session[s].password, session[s].mfa)'
  BY DEF SessionOK, Owner!Live
<1> PICK a \in Accounts, e \in Nat, p \in Nat, m \in Nat :
      a = session[s].account /\ e = session[s].epoch /\ p = session[s].password /\ m = session[s].mfa
  BY <1>1
<1>3. Remembers(a, e, p, m)
  BY <1>2 DEF OwnerInv, SessionOK
<1>4. Remembers(a, e, p, m)'
  BY <1>3, Kept DEF OwnerInv
<1> QED
  BY <1>2, <1>4 DEF Remembers, RemembersPassword

LEMMA ChallengeKept ==
  ASSUME OwnerInv, Steps, NEW c \in cookie PROVE ChallengeOK(c)'
<1>1. c.account \in Accounts /\ c.epoch \in Nat
  BY DEF OwnerInv, OwnerTyped
<1> QED
  BY <1>1, PasswordKept DEF OwnerInv, ChallengeOK, RemembersPassword

LEMMA RevokedEffect ==
  ASSUME OwnerTyped, OwnerBounds, NEW T
  PROVE  /\ Owner!Revoked(T) \in [Owner!Sessions -> SessionRow]
         /\ \A s \in Owner!Sessions : IF s \in T THEN Owner!Revoked(T)[s].state = "revoked" ELSE Owner!Revoked(T)[s] = session[s]
BY DEF OwnerTyped, OwnerBounds, Owner!Revoked, SessionRow, Owner!NoSession

\* A step that only ends sessions.
LEMMA Shrinking ==
  ASSUME OwnerInv, OwnerTyped', changes <= changes', \A a \in Accounts : AccountStep(a),
         \A s \in Owner!Sessions : session'[s] = session[s] \/ session'[s].state = "revoked",
         \A a \in Accounts, s \in Owner!Sessions :
           account'[a].epoch # account[a].epoch /\ Owner!Live(s) /\ session[s].account = a
               => session'[s].state = "revoked"
  PROVE  Steps /\ \A s \in Owner!Sessions : SessionOK(s)'
<1>1. \A s \in Owner!Sessions : session[s].state \in {"none", "live", "revoked"}
           /\ session[s].account \in Accounts
  BY DEF OwnerInv, OwnerTyped, SessionRow
<1>2. Steps
  BY <1>1 DEF Steps, SessionStep, Owner!Live
<1> QED
  BY <1>2, SessionKept

-----------------------------------------------------------------------------
(* The steps.                                                               *)

\* A step that changes no account and no epoch, and ends sessions at most.
Quiet ==
  /\ UNCHANGED <<account, changes>> /\ OwnerTyped'
  /\ \A s \in Owner!Sessions : session'[s] = session[s] \/ session'[s].state = "revoked"

LEMMA QuietSteps == ASSUME OwnerInv, Quiet PROVE /\ Steps
                                                 /\ \A a \in Accounts : AccountOK(a)'
                                                 /\ \A s \in Owner!Sessions : SessionOK(s)'
<1>1. \A a \in Accounts : AccountStep(a)
  BY DEF OwnerInv, OwnerTyped, AccountRow, Quiet, AccountStep
<1>2. changes <= changes'
  BY DEF OwnerInv, OwnerTyped, Quiet
<1>3. \A a \in Accounts : AccountOK(a)'
  BY DEF OwnerInv, Quiet, AccountOK
<1> QED
  BY <1>1, <1>2, <1>3, Shrinking DEF Quiet

\* The request that takes a step reads or forgets; the others keep what they have.
LEMMA Alone ==
  ASSUME OwnerTyped, NEW r \in Actors, NEW x \in RequestState, request' = [request EXCEPT ![r] = x]
  PROVE  /\ request' \in [Actors -> RequestState] /\ request'[r] = x
         /\ \A q \in Actors : q # r => request'[q] = request[q]
BY DEF OwnerTyped

LEMMA DoneOK ==
  ASSUME OwnerBounds PROVE Owner!Done \in RequestState /\ Owner!Done.pc = "idle"
BY DEF OwnerBounds, Owner!Done, Owner!NoAccount, RequestState, AccountRow, Handling

LEMMA IdleOK ==
  ASSUME NEW r \in Actors, request'[r].pc \in {"idle", "deactivating"} PROVE RowOK(r)' /\ OwnOK(r)'
BY DEF RowOK, OwnOK

LEMMA ReadStep ==
  ASSUME OwnerInv, OwnerBounds, NEW r \in Actors,
         \/ \E a \in Accounts : Owner!ReadAccount(r, a)
         \/ Owner!VerifyPassword(r)
         \/ \E c \in cookie : Owner!AnswerChallenge(r, c)
         \/ Owner!RevokeOld(r)
         \/ \E s \in Owner!Sessions : Owner!Begin(r, s)
         \/ \E a \in Accounts : Owner!AskToDeactivate(r, a)
         \/ Owner!GiveUp(r)
  PROVE  OwnerInv'
<1>1. UNCHANGED <<account, session, changes>>
  BY DEF Owner!ReadAccount, Owner!VerifyPassword, Owner!AnswerChallenge, Owner!RevokeOld, Owner!Begin,
    Owner!AskToDeactivate, Owner!GiveUp
<1>2. ASSUME NEW x \in RequestState, request' = [request EXCEPT ![r] = x],
             RowOK(r)' /\ OwnOK(r)',
             cookie' \in SUBSET [purpose : {"login_challenge", "trusted_device"}, account : Accounts, epoch : Nat,
                                 password : Nat],
             \A c \in cookie' \ cookie : ChallengeOK(c)'
      PROVE  OwnerInv'
  <2>1. /\ request' \in [Actors -> RequestState]
        /\ \A q \in Actors : q # r => request'[q] = request[q]
    BY <1>2, Alone DEF OwnerInv
  <2>2. Quiet
    BY <1>1, <1>2, <2>1 DEF Quiet, OwnerInv, OwnerTyped
  <2>3. /\ Steps
        /\ \A a \in Accounts : AccountOK(a)'
        /\ \A s \in Owner!Sessions : SessionOK(s)'
    BY <2>2, QuietSteps
  <2>4. \A q \in Actors : RowOK(q)' /\ OwnOK(q)'
    BY <1>2, <2>1, <2>3, RequestKept
  <2>5. \A c \in cookie' : ChallengeOK(c)'
    BY <1>2, <2>3, ChallengeKept
  <2> QED
    BY <2>2, <2>3, <2>4, <2>5 DEF OwnerInv, Quiet
<1>3. CASE Owner!GiveUp(r)
  <2>1. request'[r] = Owner!Done /\ request' = [request EXCEPT ![r] = Owner!Done] /\ UNCHANGED cookie
    BY <1>3, Alone, DoneOK DEF Owner!GiveUp, OwnerInv
  <2>2. RowOK(r)' /\ OwnOK(r)'
    BY <2>1, DoneOK, IdleOK
  <2> QED
    BY <1>2, <2>1, <2>2, DoneOK DEF OwnerInv, OwnerTyped
<1>4. ASSUME NEW a \in Accounts, Owner!ReadAccount(r, a) PROVE OwnerInv'
  <2> DEFINE x == [Owner!Done EXCEPT !.pc = "password", !.account = a, !.row = account[a]]
  <2>1. x \in RequestState /\ x.pc = "password" /\ x.account = a /\ x.row = account[a]
    BY DoneOK DEF OwnerInv, OwnerTyped, RequestState, Handling
  <2>2. request' = [request EXCEPT ![r] = x] /\ UNCHANGED cookie
    BY <1>4 DEF Owner!ReadAccount
  <2> HIDE DEF x
  <2>3. request'[r] = x
    BY <2>1, <2>2, Alone DEF OwnerInv
  <2>4. RowOK(r)' /\ OwnOK(r)'
    BY <1>1, <2>1, <2>3 DEF OwnerInv, AccountOK, RowOK, OwnOK, Remembers, RemembersPassword
  <2> QED
    BY <1>2, <2>1, <2>2, <2>4 DEF OwnerInv, OwnerTyped
<1>5. CASE Owner!VerifyPassword(r)
  <2>1. CASE request' = [request EXCEPT ![r].pc = "session"] /\ UNCHANGED cookie
    <3> DEFINE x == [request[r] EXCEPT !.pc = "session"]
    <3>1. x \in RequestState /\ x.pc = "session" /\ x.account = request[r].account /\ x.row = request[r].row
      BY DEF OwnerInv, OwnerTyped, RequestState, Handling
    <3>2. request' = [request EXCEPT ![r] = x]
      BY <2>1 DEF OwnerInv, OwnerTyped
    <3> HIDE DEF x
    <3>3. request'[r] = x
      BY <3>1, <3>2, Alone DEF OwnerInv
    <3>4. request[r].pc = "password" /\ RowOK(r)
      BY <1>5 DEF Owner!VerifyPassword, OwnerInv
    <3>5. RowOK(r)' /\ OwnOK(r)'
      BY <1>1, <3>1, <3>3, <3>4 DEF RowOK, OwnOK, Remembers, RemembersPassword
    <3> QED
      BY <1>2, <2>1, <3>1, <3>2, <3>5 DEF OwnerInv, OwnerTyped
  <2>2. CASE /\ cookie' = cookie \union
                  {Owner!Cookie("login_challenge", request[r].account, request[r].row.epoch, request[r].row.password)}
             /\ request' = [request EXCEPT ![r] = Owner!Done]
    <3> DEFINE c == Owner!Cookie("login_challenge", request[r].account, request[r].row.epoch, request[r].row.password)
    <3>1. request[r].pc = "password" /\ RowOK(r)
      BY <1>5 DEF Owner!VerifyPassword, OwnerInv
    <3>2. /\ c \in [purpose : {"login_challenge", "trusted_device"}, account : Accounts, epoch : Nat, password : Nat]
          /\ c.account = request[r].account /\ c.epoch = request[r].row.epoch
               /\ c.password = request[r].row.password
      BY DEF Owner!Cookie, OwnerInv, OwnerTyped, RequestState, AccountRow
    <3>3. cookie' = cookie \union {c}
      BY <2>2
    <3> HIDE DEF c
    <3>4. RemembersPassword(request[r].account, request[r].row.epoch, request[r].row.password)
      BY <3>1 DEF RowOK, Remembers
    <3>5. \A d \in cookie' \ cookie : ChallengeOK(d)'
      BY <1>1, <3>2, <3>3, <3>4 DEF ChallengeOK, RemembersPassword
    <3>6. request'[r] = Owner!Done
      BY <2>2, Alone, DoneOK DEF OwnerInv
    <3>7. RowOK(r)' /\ OwnOK(r)'
      BY <3>6, DoneOK, IdleOK
    <3> QED
      BY <1>2, <2>2, <3>2, <3>3, <3>5, <3>7, DoneOK DEF OwnerInv, OwnerTyped
  <2> QED
    BY <1>5, <2>1, <2>2 DEF Owner!VerifyPassword
<1>6. ASSUME NEW c \in cookie, Owner!AnswerChallenge(r, c) PROVE OwnerInv'
  <2> DEFINE x == [Owner!Done EXCEPT !.pc = "session", !.account = c.account, !.trust = TRUE,
                    !.row = [account[c.account] EXCEPT !.password = c.password]]
  <2>1. c.account \in Accounts /\ c.password \in Nat /\ c.epoch \in Nat /\ account[c.account] \in AccountRow
    BY DEF OwnerInv, OwnerTyped
  <2>2. /\ [account[c.account] EXCEPT !.password = c.password] \in AccountRow
        /\ [account[c.account] EXCEPT !.password = c.password].password = c.password
        /\ [account[c.account] EXCEPT !.password = c.password].epoch = account[c.account].epoch
        /\ [account[c.account] EXCEPT !.password = c.password].mfa = account[c.account].mfa
    BY <2>1 DEF AccountRow
  <2>3. /\ x \in RequestState /\ x.pc = "session" /\ x.account = c.account
        /\ x.row.password = c.password /\ x.row.epoch = account[c.account].epoch
             /\ x.row.mfa = account[c.account].mfa
    BY <2>1, <2>2, DoneOK DEF RequestState, Handling
  <2>4. request' = [request EXCEPT ![r] = x] /\ UNCHANGED cookie
    BY <1>6 DEF Owner!AnswerChallenge
  <2> HIDE DEF x
  <2>5. request'[r] = x
    BY <2>3, <2>4, Alone DEF OwnerInv
  <2>6. c.password = account[c.account].password /\ account[c.account].epoch <= changes
    BY <1>6, <2>1 DEF Owner!AnswerChallenge, Owner!AnswersChallenge, OwnerInv, ChallengeOK, RemembersPassword,
      AccountOK
  <2>7. RowOK(r)' /\ OwnOK(r)'
    BY <1>1, <2>3, <2>5, <2>6 DEF RowOK, OwnOK, Remembers, RemembersPassword
  <2> QED
    BY <1>2, <2>3, <2>4, <2>7 DEF OwnerInv, OwnerTyped
<1>7. CASE Owner!RevokeOld(r)
  <2> DEFINE x == [request[r] EXCEPT !.pc = "insert", !.old = Owner!SessionsOf(request[r].account)]
  <2>1. /\ x \in RequestState /\ x.pc = "insert" /\ x.account = request[r].account /\ x.row = request[r].row
    BY DEF OwnerInv, OwnerTyped, RequestState, Handling, Owner!SessionsOf
  <2>2. request' = [request EXCEPT ![r] = x] /\ UNCHANGED cookie
    BY <1>7 DEF Owner!RevokeOld, OwnerInv, OwnerTyped
  <2> HIDE DEF x
  <2>3. request'[r] = x
    BY <2>1, <2>2, Alone DEF OwnerInv
  <2>4. request[r].pc = "session" /\ RowOK(r)
    BY <1>7 DEF Owner!RevokeOld, OwnerInv
  <2>5. RowOK(r)' /\ OwnOK(r)'
    BY <1>1, <2>1, <2>3, <2>4 DEF RowOK, OwnOK, Remembers, RemembersPassword
  <2> QED
    BY <1>2, <2>1, <2>2, <2>5 DEF OwnerInv, OwnerTyped
<1>8. ASSUME NEW s \in Owner!Sessions, Owner!Begin(r, s) PROVE OwnerInv'
  <2>1. session[s].account \in Accounts /\ account[session[s].account].epoch \in Nat /\ s \in Nat
    BY DEF OwnerInv, OwnerTyped, SessionRow, AccountRow, Owner!Sessions
  <2>2. PICK a \in Accounts, e \in Nat : a = session[s].account /\ e = account[session[s].account].epoch
    BY <2>1
  <2> PICK op \in {"own_password", "own_mfa"} :
        request' = [request EXCEPT ![r] =
                     [Owner!Done EXCEPT !.pc = op, !.account = a, !.session = s, !.row.epoch = e]]
    BY Zenon, <1>8, <2>2 DEF Owner!Begin
  <2> DEFINE x == [Owner!Done EXCEPT !.pc = op, !.account = a, !.session = s, !.row.epoch = e]
  <2>3. x \in RequestState /\ x.pc = op /\ x.account = a /\ x.session = s
    BY <2>1 DEF RequestState, Handling, AccountRow, Owner!Done, Owner!NoAccount
  <2>4. request' = [request EXCEPT ![r] = x] /\ UNCHANGED cookie
    BY <1>8 DEF Owner!Begin
  <2> HIDE DEF x
  <2>5. request'[r] = x
    BY <2>3, <2>4, Alone DEF OwnerInv
  <2>7. /\ Owner!Live(s) /\ account[session[s].account].state = "active" /\ session[s].account # Deployed
        /\ session[s].epoch = account[session[s].account].epoch
    BY <1>8 DEF Owner!Begin, Owner!Usable, Owner!Active
  <2>8. RowOK(r)'
    BY <2>3, <2>5 DEF RowOK
  <2>6. RowOK(r)' /\ OwnOK(r)'
    BY <1>1, <2>2, <2>3, <2>5, <2>7, <2>8 DEF Owner!Live, OwnOK
  <2> QED
    BY <1>2, <2>3, <2>4, <2>6 DEF OwnerInv, OwnerTyped
<1>9. ASSUME NEW a \in Accounts, Owner!AskToDeactivate(r, a) PROVE OwnerInv'
  <2> DEFINE x == [Owner!Done EXCEPT !.pc = "deactivating", !.account = a]
  <2>1. x \in RequestState /\ x.pc = "deactivating"
    BY DoneOK DEF RequestState, Handling
  <2>2. request' = [request EXCEPT ![r] = x] /\ UNCHANGED cookie
    BY <1>9 DEF Owner!AskToDeactivate
  <2> HIDE DEF x
  <2>3. request'[r] = x
    BY <2>1, <2>2, Alone DEF OwnerInv
  <2>4. RowOK(r)' /\ OwnOK(r)'
    BY <2>1, <2>3, IdleOK
  <2> QED
    BY <1>2, <2>1, <2>2, <2>4 DEF OwnerInv, OwnerTyped
<1> QED
  BY <1>3, <1>4, <1>5, <1>6, <1>7, <1>8, <1>9

\* Only the sessions change.
LEMMA EndStep ==
  ASSUME OwnerInv, OwnerBounds,
         \E s \in Owner!Sessions : Owner!RevokeOthers(s) \/ Owner!SessionExpires(s)
             \/ \E t \in Owner!Sessions : Owner!RevokeSession(s, t)
  PROVE  OwnerInv'
<1>1. PICK T : session' = Owner!Revoked(T) /\ UNCHANGED <<account, cookie, request, changes>>
  BY DEF Owner!RevokeOthers, Owner!SessionExpires, Owner!RevokeSession
<1>2. Quiet
  BY <1>1, RevokedEffect DEF OwnerInv, OwnerTyped, Quiet
<1>3. /\ Steps
      /\ \A a \in Accounts : AccountOK(a)'
      /\ \A s \in Owner!Sessions : SessionOK(s)'
  BY <1>2, QuietSteps
<1>4. \A r \in Actors : RowOK(r)' /\ OwnOK(r)'
  BY <1>1, <1>3, RequestKept
<1>5. \A c \in cookie' : ChallengeOK(c)'
  BY <1>1, <1>3, ChallengeKept
<1> QED
  BY <1>2, <1>3, <1>4, <1>5 DEF OwnerInv, Quiet

\* A session is opened with what was read: it may be stale, and is not usable then.
LEMMA InsertStep ==
  ASSUME OwnerInv, OwnerBounds, NEW r \in Actors, Owner!InsertSession(r)
  PROVE  OwnerInv'
<1> DEFINE job == request[r]
           new == [state |-> "live", account |-> job.account, epoch |-> job.row.epoch,
                   password |-> job.row.password, mfa |-> job.row.mfa]
<1>1. PICK s \in Owner!Sessions : session[s].state = "none" /\ session' = [Owner!Revoked(job.old) EXCEPT ![s] = new]
  BY DEF Owner!InsertSession
<1>2. /\ UNCHANGED <<account, changes>> /\ job.pc = "insert"
      /\ request' = [request EXCEPT ![r] = Owner!Done]
      /\ cookie' \in {cookie, cookie \union {Owner!Cookie("trusted_device", job.account, job.row.epoch, 0)}}
  BY DEF Owner!InsertSession
<1>3. new \in SessionRow /\ job.account \in Accounts /\ job.row.epoch \in Nat
  BY DEF OwnerInv, OwnerTyped, SessionRow, RequestState, AccountRow
<1>4. Remembers(job.account, job.row.epoch, job.row.password, job.row.mfa)
  BY <1>2 DEF OwnerInv, RowOK
<1>5. /\ session' \in [Owner!Sessions -> SessionRow] /\ session'[s] = new
      /\ \A t \in Owner!Sessions : t # s => session'[t] = session[t] \/ session'[t].state = "revoked"
  <2>1. new \in SessionRow
    BY <1>3
  <2> HIDE DEF new
  <2> QED
    BY <1>1, <2>1, RevokedEffect DEF OwnerInv
<1>6. /\ request' \in [Actors -> RequestState] /\ request'[r] = Owner!Done
      /\ \A q \in Actors : q # r => request'[q] = request[q]
  BY <1>2, Alone, DoneOK DEF OwnerInv
<1>7. /\ cookie' \in SUBSET [purpose : {"login_challenge", "trusted_device"}, account : Accounts, epoch : Nat,
                             password : Nat]
      /\ \A c \in cookie' \ cookie : c.purpose = "trusted_device"
  BY <1>2, <1>3 DEF OwnerInv, OwnerTyped, Owner!Cookie
<1>8. OwnerTyped'
  BY <1>2, <1>5, <1>6, <1>7 DEF OwnerInv, OwnerTyped
<1>9. Steps
  <2>1. \A a \in Accounts : AccountStep(a)
    BY <1>2 DEF OwnerInv, OwnerTyped, AccountRow, AccountStep
  <2>2. \A t \in Owner!Sessions : SessionStep(t)
    BY <1>1, <1>2, <1>5 DEF OwnerInv, OwnerTyped, SessionRow, SessionStep, Owner!Live
  <2> QED
    BY <1>2, <1>8, <2>1, <2>2 DEF Steps, OwnerInv, OwnerTyped
<1>10. \A t \in Owner!Sessions : SessionOK(t)'
  <2>1. SessionOK(s)'
    BY <1>2, <1>4, <1>5 DEF SessionOK, Remembers, RemembersPassword
  <2> QED
    BY <1>5, <1>9, <2>1, SessionKept
<1>11. \A q \in Actors : RowOK(q)' /\ OwnOK(q)'
  BY <1>6, <1>9, RequestKept, IdleOK, DoneOK
<1>12. \A c \in cookie' : ChallengeOK(c)'
  BY <1>7, <1>9, ChallengeKept DEF ChallengeOK
<1>13. \A a \in Accounts : AccountOK(a)'
  BY <1>2 DEF OwnerInv, AccountOK
<1> QED
  BY <1>8, <1>10, <1>11, <1>12, <1>13 DEF OwnerInv

\* An account is created, set active or inactive; in the last case its sessions end.
LEMMA StateStep ==
  ASSUME OwnerInv, OwnerBounds,
         \/ \E a \in Accounts : Owner!Bootstrap(a) \/ Owner!CreateAccount(a) \/ Owner!Activate(a)
         \/ \E r \in Actors : Owner!Deactivate(r)
  PROVE  OwnerInv'
<1>1. PICK a \in Accounts, entry \in AccountRow :
        /\ account' = [account EXCEPT ![a] = entry]
        /\ entry.state # "none"
        /\ entry.epoch = account[a].epoch /\ entry.password = account[a].password /\ entry.mfa = account[a].mfa
  <2>1. ASSUME NEW a \in Accounts, Owner!Bootstrap(a) \/ Owner!CreateAccount(a)
        PROVE  /\ account' = [account EXCEPT ![a] = Owner!Fresh]
               /\ Owner!Fresh \in AccountRow /\ Owner!Fresh.state # "none"
               /\ Owner!Fresh.epoch = account[a].epoch /\ Owner!Fresh.password = account[a].password
                    /\ Owner!Fresh.mfa = account[a].mfa
    <3>1. account' = [account EXCEPT ![a] = Owner!Fresh] /\ account[a] = Owner!NoAccount
      BY <2>1 DEF Owner!Bootstrap, Owner!CreateAccount, OwnerInv, AccountOK
    <3> QED
      BY <3>1 DEF Owner!Fresh, Owner!NoAccount, AccountRow
  <2>2. ASSUME NEW a \in Accounts, NEW st \in {"active", "inactive"},
               account' = [account EXCEPT ![a].state = st]
        PROVE  \E entry \in AccountRow :
                 /\ account' = [account EXCEPT ![a] = entry]
                 /\ entry.state # "none"
                 /\ entry.epoch = account[a].epoch /\ entry.password = account[a].password
                      /\ entry.mfa = account[a].mfa
    <3> DEFINE entry == [account[a] EXCEPT !.state = st]
    <3>1. /\ entry \in AccountRow /\ entry.state # "none"
          /\ entry.epoch = account[a].epoch /\ entry.password = account[a].password
               /\ entry.mfa = account[a].mfa
      BY DEF OwnerInv, OwnerTyped, AccountRow
    <3>2. account' = [account EXCEPT ![a] = entry]
      BY <2>2 DEF OwnerInv, OwnerTyped
    <3> QED
      BY <3>1, <3>2
  <2>3. CASE \E r \in Actors : Owner!Deactivate(r)
    <3>1. PICK a \in Accounts : account' = [account EXCEPT ![a].state = "inactive"]
      BY <2>3 DEF Owner!Deactivate, OwnerInv, OwnerTyped, RequestState
    <3> QED
      BY <3>1, <2>2
  <2>4. CASE \E a \in Accounts : Owner!Activate(a)
    BY <2>4, <2>2 DEF Owner!Activate
  <2> QED
    BY <2>1, <2>3, <2>4
<1>2. /\ account' \in [Accounts -> AccountRow] /\ account'[a] = entry
      /\ \A b \in Accounts : b # a => account'[b] = account[b]
  BY <1>1 DEF OwnerInv, OwnerTyped
<1>3. UNCHANGED <<cookie, changes>>
  BY DEF Owner!Bootstrap, Owner!CreateAccount, Owner!Activate, Owner!Deactivate
<1>4. session' \in [Owner!Sessions -> SessionRow] /\ \A s \in Owner!Sessions : session'[s] = session[s]
           \/ session'[s].state = "revoked"
  <2>1. CASE UNCHANGED session
    BY <2>1 DEF OwnerInv, OwnerTyped
  <2>2. CASE \E T : session' = Owner!Revoked(T)
    BY <2>2, RevokedEffect DEF OwnerInv
  <2> QED
    BY <2>1, <2>2 DEF Owner!Bootstrap, Owner!CreateAccount, Owner!Activate, Owner!Deactivate
<1>5. request' \in [Actors -> RequestState] /\ \A q \in Actors : request'[q] = request[q]
           \/ request'[q] = Owner!Done
  <2>1. CASE UNCHANGED request
    BY <2>1 DEF OwnerInv, OwnerTyped
  <2>2. CASE \E r \in Actors : request' = [request EXCEPT ![r] = Owner!Done]
    BY <2>2, Alone, DoneOK DEF OwnerInv
  <2> QED
    BY <2>1, <2>2 DEF Owner!Bootstrap, Owner!CreateAccount, Owner!Activate, Owner!Deactivate
<1>6. OwnerTyped'
  BY <1>2, <1>3, <1>4, <1>5 DEF OwnerInv, OwnerTyped
<1>7. \A b \in Accounts : AccountStep(b) /\ account'[b].epoch = account[b].epoch
  BY <1>1, <1>2 DEF AccountStep
<1>8. \A b \in Accounts : AccountOK(b)'
  BY <1>1, <1>2, <1>3 DEF OwnerInv, AccountOK
<1>9. changes <= changes'
  BY <1>3 DEF OwnerInv, OwnerTyped
<1>10. Steps /\ \A s \in Owner!Sessions : SessionOK(s)'
  BY <1>4, <1>6, <1>7, <1>9, Shrinking
<1>11. \A q \in Actors : RowOK(q)' /\ OwnOK(q)'
  BY <1>5, <1>10, RequestKept, IdleOK, DoneOK
<1>12. \A c \in cookie' : ChallengeOK(c)'
  BY <1>3, <1>10, ChallengeKept
<1> QED
  BY <1>6, <1>8, <1>10, <1>11, <1>12 DEF OwnerInv

\* One account has a new row, with a new epoch or with its secrets.
LEMMA RowEffect ==
  ASSUME OwnerInv, NEW a \in Accounts, NEW entry \in AccountRow, account' = [account EXCEPT ![a] = entry],
         changes' = changes + 1, entry.state # "none",
         \/ entry.epoch = changes + 1
         \/ entry.epoch = account[a].epoch /\ entry.password = account[a].password /\ a = Deployed
  PROVE  /\ account' \in [Accounts -> AccountRow] /\ changes' \in Nat /\ changes <= changes'
         /\ account'[a] = entry /\ \A b \in Accounts : b # a => account'[b] = account[b]
         /\ \A b \in Accounts : AccountStep(b) /\ AccountOK(b)'
<1>1. /\ account' \in [Accounts -> AccountRow] /\ changes' \in Nat /\ changes <= changes'
      /\ account'[a] = entry /\ \A b \in Accounts : b # a => account'[b] = account[b]
  BY DEF OwnerInv, OwnerTyped
<1>2. \A b \in Accounts : AccountStep(b)
  BY <1>1 DEF AccountStep
<1>3. \A b \in Accounts : account[b].epoch \in Nat /\ changes \in Nat
  BY DEF OwnerInv, OwnerTyped, AccountRow
<1>4. \A b \in Accounts : AccountOK(b)'
  BY <1>1, <1>3 DEF OwnerInv, AccountOK
<1> QED
  BY <1>1, <1>2, <1>4

\* Somebody else ends all the sessions of the account, or a deployment configures its MFA secret.
LEMMA ForeignStep ==
  ASSUME OwnerInv, OwnerBounds, Owner!SyncDeployed \/ \E a \in Accounts : Owner!SetSecret(a)
         \/ Owner!RevokeSessions(a)
  PROVE  OwnerInv'
<1>1. PICK a \in Accounts, entry \in AccountRow :
        /\ account' = [account EXCEPT ![a] = entry] /\ entry.state # "none"
        /\ \/ entry.epoch = changes + 1 /\ session' = Owner!Revoked(Owner!SessionsOf(a))
           \/ /\ entry.epoch = account[a].epoch /\ entry.password = account[a].password /\ a = Deployed
              /\ UNCHANGED session
  <2>1. changes \in Nat /\ changes + 1 \in Nat /\ 0 \in Nat
    BY DEF OwnerInv, OwnerTyped
  <2>2. CASE Owner!SyncDeployed
    <3> DEFINE old == account[Deployed]
    <3>1. PICK rotated \in {old.state = "none", TRUE}, configured \in BOOLEAN :
            /\ account' = [account EXCEPT ![Deployed] =
                 [state |-> "active", password |-> IF rotated THEN changes + 1 ELSE old.password,
                  mfa |-> IF configured THEN changes + 1 ELSE old.mfa,
                      epoch |-> IF rotated THEN changes + 1 ELSE old.epoch]]
            /\ session' = IF rotated THEN Owner!Revoked(Owner!SessionsOf(Deployed)) ELSE session
      BY <2>2 DEF Owner!SyncDeployed, Owner!Next1
    <3> DEFINE entry == [state |-> "active", password |-> IF rotated THEN changes + 1 ELSE old.password,
                  mfa |-> IF configured THEN changes + 1 ELSE old.mfa,
                      epoch |-> IF rotated THEN changes + 1 ELSE old.epoch]
    <3>2. old \in AccountRow
      BY DEF OwnerInv, OwnerTyped, OwnerBounds
    <3>3. entry \in AccountRow /\ entry.state # "none"
      BY <2>1, <3>2 DEF AccountRow
    <3> QED
      BY <3>1, <3>3 DEF OwnerBounds
  <2>3. ASSUME NEW a \in Accounts, account[a].state # "none", session' = Owner!Revoked(Owner!SessionsOf(a)),
               NEW v \in Nat,
               \/ account' = [account EXCEPT ![a].password = v, ![a].epoch = changes + 1]
               \/ account' = [account EXCEPT ![a].mfa = v, ![a].epoch = changes + 1]
               \/ account' = [account EXCEPT ![a].epoch = changes + 1]
        PROVE  \E entry \in AccountRow :
                 /\ account' = [account EXCEPT ![a] = entry] /\ entry.state # "none"
                      /\ entry.epoch = changes + 1
    <3>1. account[a] \in AccountRow
      BY DEF OwnerInv, OwnerTyped
    <3>2. CASE account' = [account EXCEPT ![a].password = v, ![a].epoch = changes + 1]
      <4> DEFINE entry == [account[a] EXCEPT !.password = v, !.epoch = changes + 1]
      <4>1. entry \in AccountRow /\ entry.state # "none" /\ entry.epoch = changes + 1
        BY <2>1, <2>3, <3>1 DEF AccountRow
      <4>2. account' = [account EXCEPT ![a] = entry]
        BY <3>2 DEF OwnerInv, OwnerTyped
      <4> QED
        BY <4>1, <4>2
    <3>3. CASE account' = [account EXCEPT ![a].mfa = v, ![a].epoch = changes + 1]
      <4> DEFINE entry == [account[a] EXCEPT !.mfa = v, !.epoch = changes + 1]
      <4>1. entry \in AccountRow /\ entry.state # "none" /\ entry.epoch = changes + 1
        BY <2>1, <2>3, <3>1 DEF AccountRow
      <4>2. account' = [account EXCEPT ![a] = entry]
        BY <3>3 DEF OwnerInv, OwnerTyped
      <4> QED
        BY <4>1, <4>2
    <3>4. CASE account' = [account EXCEPT ![a].epoch = changes + 1]
      <4> DEFINE entry == [account[a] EXCEPT !.epoch = changes + 1]
      <4>1. entry \in AccountRow /\ entry.state # "none" /\ entry.epoch = changes + 1
        BY <2>1, <2>3, <3>1 DEF AccountRow
      <4>2. account' = [account EXCEPT ![a] = entry]
        BY <3>4 DEF OwnerInv, OwnerTyped
      <4> QED
        BY <4>1, <4>2
    <3> QED
      BY <2>3, <3>2, <3>3, <3>4
  <2>4. ASSUME NEW a \in Accounts, Owner!SetSecret(a) \/ Owner!RevokeSessions(a)
        PROVE  \E entry \in AccountRow :
                 /\ account' = [account EXCEPT ![a] = entry] /\ entry.state # "none"
                      /\ entry.epoch = changes + 1
                 /\ session' = Owner!Revoked(Owner!SessionsOf(a))
    <3>1. session' = Owner!Revoked(Owner!SessionsOf(a)) /\ account[a].state # "none"
      BY <2>4 DEF Owner!SetSecret, Owner!RevokeSessions
    <3>2. \E v \in Nat :
            \/ account' = [account EXCEPT ![a].password = v, ![a].epoch = changes + 1]
            \/ account' = [account EXCEPT ![a].mfa = v, ![a].epoch = changes + 1]
            \/ account' = [account EXCEPT ![a].epoch = changes + 1]
      BY <2>1, <2>4 DEF Owner!SetSecret, Owner!RevokeSessions, Owner!NewEpoch, Owner!Next1
    <3> QED
      BY <2>3, <3>1, <3>2
  <2> QED
    BY <2>2, <2>4
<1>2. UNCHANGED <<cookie, request>> /\ changes' = changes + 1
  BY DEF Owner!SyncDeployed, Owner!SetSecret, Owner!RevokeSessions, Owner!Next1
<1>3. /\ account' \in [Accounts -> AccountRow] /\ changes' \in Nat /\ changes <= changes'
      /\ account'[a] = entry /\ \A b \in Accounts : b # a => account'[b] = account[b]
      /\ \A b \in Accounts : AccountStep(b) /\ AccountOK(b)'
  BY <1>1, <1>2, RowEffect
<1>4. /\ session' \in [Owner!Sessions -> SessionRow]
      /\ \A s \in Owner!Sessions : session'[s] = session[s] \/ session'[s].state = "revoked"
      /\ entry.epoch # account[a].epoch => \A s \in Owner!SessionsOf(a) : session'[s].state = "revoked"
  <2>1. CASE session' = Owner!Revoked(Owner!SessionsOf(a))
    BY <2>1, RevokedEffect DEF OwnerInv, Owner!SessionsOf
  <2>2. CASE UNCHANGED session /\ entry.epoch = account[a].epoch
    BY <2>2 DEF OwnerInv, OwnerTyped
  <2> QED
    BY <1>1, <2>1, <2>2
<1>5. OwnerTyped'
  BY <1>2, <1>3, <1>4 DEF OwnerInv, OwnerTyped
<1>6. Steps /\ \A s \in Owner!Sessions : SessionOK(s)'
  <2>1. \A b \in Accounts, s \in Owner!Sessions :
           account'[b].epoch # account[b].epoch /\ Owner!Live(s) /\ session[s].account = b
               => session'[s].state = "revoked"
    BY <1>3, <1>4 DEF Owner!SessionsOf
  <2> QED
    BY <1>3, <1>4, <1>5, <2>1, Shrinking
<1>7. \A q \in Actors : RowOK(q)' /\ OwnOK(q)'
  BY <1>2, <1>6, RequestKept
<1>8. \A c \in cookie' : ChallengeOK(c)'
  BY <1>2, <1>6, ChallengeKept
<1> QED
  BY <1>3, <1>5, <1>6, <1>7, <1>8 DEF OwnerInv

LEMMA RenewedEffect ==
  ASSUME OwnerTyped, OwnerBounds, NEW s \in Owner!Sessions, NEW a \in Accounts, NEW e \in Nat, NEW p \in Nat,
         NEW m \in Nat,
         NEW new, new = Owner!Renewed(s, a, e, p, m)
  PROVE  /\ new \in [Owner!Sessions -> SessionRow]
         /\ \A t \in Owner!Sessions \ {s} : IF t \in Owner!SessionsOf(a) THEN new[t].state = "revoked" ELSE new[t] = session[t]
         /\ IF Owner!Live(s) THEN /\ new[s].state = "live" /\ new[s].account = session[s].account
                           /\ new[s].epoch = e /\ new[s].password = p /\ new[s].mfa = m
            ELSE new[s] = session[s]
<1> DEFINE T == Owner!SessionsOf(a) \ {s}
<1>1. /\ Owner!Revoked(T) \in [Owner!Sessions -> SessionRow]
      /\ \A t \in Owner!Sessions : IF t \in T THEN Owner!Revoked(T)[t].state = "revoked" ELSE Owner!Revoked(T)[t] = session[t]
  BY RevokedEffect
<1>2. CASE ~Owner!Live(s)
  BY <1>1, <1>2 DEF Owner!Renewed
<1>3. CASE Owner!Live(s)
  <2>1. PICK R : R = Owner!Revoked(T)
    OBVIOUS
  <2>2. Owner!Renewed(s, a, e, p, m) = [R EXCEPT ![s].epoch = e, ![s].password = p, ![s].mfa = m]
    BY <1>3, <2>1 DEF Owner!Renewed
  <2>3. R \in [Owner!Sessions -> SessionRow] /\ R[s] = session[s]
    BY <1>1, <2>1
  <2>4. PICK q : q = [R EXCEPT ![s].epoch = e, ![s].password = p, ![s].mfa = m]
    OBVIOUS
  <2>5. q \in [Owner!Sessions -> SessionRow] /\ \A t \in Owner!Sessions \ {s} : q[t] = R[t]
    BY <2>3, <2>4 DEF SessionRow
  <2>6. /\ q[s].state = R[s].state /\ q[s].account = R[s].account /\ q[s].epoch = e
        /\ q[s].password = p /\ q[s].mfa = m
    BY <2>3, <2>4 DEF SessionRow
  <2> QED
    BY <1>1, <1>3, <2>1, <2>2, <2>3, <2>4, <2>5, <2>6 DEF Owner!Live
<1> QED
  BY <1>2, <1>3

\* An OWNER changes the own password or second factor: the own session goes on with what is new.
LEMMA OwnStep ==
  ASSUME OwnerInv, OwnerBounds, NEW r \in Actors, Owner!ChangePassword(r) \/ Owner!Enroll(r)
  PROVE  OwnerInv'
<1>0. request[r].account \in Accounts /\ request[r].session \in Owner!Sessions
  BY DEF Owner!ChangePassword, Owner!Enroll, OwnerInv, OwnerTyped, RequestState, OwnOK
<1> PICK a \in Accounts, s \in Owner!Sessions : a = request[r].account /\ s = request[r].session
  BY <1>0
<1>1. a \in Accounts /\ s \in Owner!Sessions /\ a # Deployed /\ account[a] \in AccountRow
           /\ account[a].state # "none"
      /\ session[s].state # "none"
      /\ (Owner!Live(s) => session[s].account = a /\ session[s].epoch = account[a].epoch)
  BY DEF Owner!ChangePassword, Owner!Enroll, OwnerInv, OwnerTyped, RequestState, OwnOK
<1>2. Owner!Live(s) => session[s].password = account[a].password /\ session[s].mfa = account[a].mfa
  BY <1>1 DEF OwnerInv, SessionOK, Remembers, RemembersPassword
<1>3. changes \in Nat /\ changes + 1 \in Nat /\ session[s].password \in Nat /\ session[s].mfa \in Nat
  BY <1>1 DEF OwnerInv, OwnerTyped, SessionRow
<1>4. PICK entry \in AccountRow, p \in Nat, m \in Nat :
        /\ account' = [account EXCEPT ![a] = entry] /\ entry.state # "none" /\ entry.epoch = changes + 1
        /\ session' = Owner!Renewed(s, a, changes + 1, p, m)
        /\ Owner!Live(s) => p = entry.password /\ m = entry.mfa
  <2>1. CASE Owner!ChangePassword(r)
    <3> DEFINE entry == [account[a] EXCEPT !.password = changes + 1, !.epoch = changes + 1]
    <3>1. /\ entry \in AccountRow /\ entry.state # "none" /\ entry.epoch = changes + 1
          /\ entry.password = changes + 1 /\ entry.mfa = account[a].mfa
      BY <1>1, <1>3 DEF AccountRow
    <3>2. account' = [account EXCEPT ![a] = entry]
      BY <2>1 DEF Owner!ChangePassword, Owner!NewEpoch, Owner!Next1, OwnerInv, OwnerTyped
    <3>3. session' = Owner!Renewed(s, a, changes + 1, changes + 1, session[s].mfa)
      BY <2>1 DEF Owner!ChangePassword, Owner!NewEpoch, Owner!Next1
    <3> QED
      BY <1>2, <1>3, <3>1, <3>2, <3>3
  <2>2. CASE Owner!Enroll(r)
    <3> DEFINE entry == [account[a] EXCEPT !.mfa = changes + 1, !.epoch = changes + 1]
    <3>1. /\ entry \in AccountRow /\ entry.state # "none" /\ entry.epoch = changes + 1
          /\ entry.mfa = changes + 1 /\ entry.password = account[a].password
      BY <1>1, <1>3 DEF AccountRow
    <3>2. account' = [account EXCEPT ![a] = entry]
      BY <2>2 DEF Owner!Enroll, Owner!NewEpoch, Owner!Next1, OwnerInv, OwnerTyped
    <3>3. session' = Owner!Renewed(s, a, changes + 1, session[s].password, changes + 1)
      BY <2>2 DEF Owner!Enroll, Owner!NewEpoch, Owner!Next1
    <3> QED
      BY <1>2, <1>3, <3>1, <3>2, <3>3
  <2> QED
    BY <2>1, <2>2
<1>5. /\ changes' = changes + 1 /\ request' = [request EXCEPT ![r] = Owner!Done]
      /\ cookie' \in {cookie, cookie \union {Owner!Cookie("trusted_device", a, changes + 1, 0)}}
  BY DEF Owner!ChangePassword, Owner!Enroll, Owner!NewEpoch, Owner!Next1
<1>6. /\ account' \in [Accounts -> AccountRow] /\ changes' \in Nat /\ changes <= changes'
      /\ account'[a] = entry /\ \A b \in Accounts : b # a => account'[b] = account[b]
      /\ \A b \in Accounts : AccountStep(b) /\ AccountOK(b)'
  BY <1>1, <1>4, <1>5, RowEffect
<1>7. /\ session' \in [Owner!Sessions -> SessionRow]
      /\ \A t \in Owner!Sessions \ {s} : IF t \in Owner!SessionsOf(a) THEN session'[t].state = "revoked" ELSE session'[t] = session[t]
      /\ IF Owner!Live(s) THEN /\ session'[s].state = "live" /\ session'[s].account = a
           /\ session'[s].epoch = changes + 1
                         /\ session'[s].password = entry.password /\ session'[s].mfa = entry.mfa
         ELSE session'[s] = session[s]
  <2>1. PICK e \in Nat : e = changes + 1
    BY <1>3
  <2>2. session' = Owner!Renewed(s, a, e, p, m)
    BY <1>4, <2>1
  <2> PICK new : new = session'
    OBVIOUS
  <2>3. /\ session' \in [Owner!Sessions -> SessionRow]
        /\ \A t \in Owner!Sessions \ {s} : IF t \in Owner!SessionsOf(a) THEN session'[t].state = "revoked" ELSE session'[t] = session[t]
        /\ IF Owner!Live(s) THEN /\ session'[s].state = "live" /\ session'[s].account = session[s].account
                           /\ session'[s].epoch = e /\ session'[s].password = p /\ session'[s].mfa = m
           ELSE session'[s] = session[s]
    BY <2>2, RenewedEffect DEF OwnerInv
  <2> QED
    BY <1>1, <1>4, <2>1, <2>3
<1>8. /\ request' \in [Actors -> RequestState] /\ request'[r] = Owner!Done
      /\ \A q \in Actors : q # r => request'[q] = request[q]
  BY <1>5, Alone, DoneOK DEF OwnerInv
<1>9. /\ cookie' \in SUBSET [purpose : {"login_challenge", "trusted_device"}, account : Accounts, epoch : Nat,
                             password : Nat]
      /\ \A c \in cookie' \ cookie : c.purpose = "trusted_device"
  BY <1>1, <1>3, <1>5 DEF OwnerInv, OwnerTyped, Owner!Cookie
<1>10. OwnerTyped'
  BY <1>6, <1>7, <1>8, <1>9 DEF OwnerTyped
<1>11. Steps
  <2>1. \A t \in Owner!Sessions : SessionStep(t)
    <3>1. ASSUME NEW t \in Owner!Sessions PROVE SessionStep(t)
      <4>1. session[t].state \in {"none", "live", "revoked"} /\ session[t].account \in Accounts
        BY DEF OwnerInv, OwnerTyped, SessionRow
      <4>2. CASE t = s
        BY <1>1, <1>4, <1>6, <1>7, <4>1, <4>2 DEF SessionStep, Owner!Live
      <4>3. CASE t # s
        BY <1>6, <1>7, <4>1, <4>3 DEF SessionStep, Owner!Live, Owner!SessionsOf
      <4> QED
        BY <4>2, <4>3
    <3> QED
      BY <3>1
  <2> QED
    BY <1>6, <1>10, <2>1 DEF Steps
<1>12. \A t \in Owner!Sessions : SessionOK(t)'
  <2>1. SessionOK(s)'
    <3>1. CASE Owner!Live(s)
      BY <1>4, <1>5, <1>6, <1>7, <1>3, <3>1 DEF SessionOK, Remembers, RemembersPassword
    <3>2. CASE ~Owner!Live(s)
      BY <1>7, <1>11, <1>1, <3>2, SessionKept
    <3> QED
      BY <3>1, <3>2
  <2> QED
    BY <1>7, <1>11, <2>1, SessionKept
<1>13. \A q \in Actors : RowOK(q)' /\ OwnOK(q)'
  BY <1>8, <1>11, RequestKept, IdleOK, DoneOK
<1>14. \A c \in cookie' : ChallengeOK(c)'
  BY <1>9, <1>11, ChallengeKept DEF ChallengeOK
<1> QED
  BY <1>6, <1>10, <1>12, <1>13, <1>14 DEF OwnerInv

-----------------------------------------------------------------------------
LEMMA OwnerStarts == ASSUME OwnerBounds, Owner!Init PROVE OwnerInv
<1>1. Owner!Done \in RequestState /\ Owner!Done.pc = "idle"
  BY DoneOK
<1>2. OwnerTyped
  BY <1>1 DEF Owner!Init, OwnerTyped, OwnerBounds, Owner!NoAccount, AccountRow, Owner!NoSession, SessionRow
<1>3. \A a \in Accounts : AccountOK(a)
  BY DEF Owner!Init, AccountOK, Owner!NoAccount
<1>4. \A s \in Owner!Sessions : SessionOK(s)
  BY DEF Owner!Init, SessionOK, Owner!Live, Owner!NoSession
<1>5. \A r \in Actors : RowOK(r) /\ OwnOK(r)
  BY <1>1 DEF Owner!Init, RowOK, OwnOK
<1> QED
  BY <1>2, <1>3, <1>4, <1>5 DEF Owner!Init, OwnerInv

LEMMA OwnerSteps == ASSUME OwnerBounds, OwnerInv, [Owner!Next]_ownerVars PROVE OwnerInv'
<1>1. CASE Owner!Next
  <2>1. CASE \E r \in Actors : Owner!LogIn(r) \/ Owner!Manage(r) \/ Owner!GiveUp(r)
    BY <2>1, ReadStep, InsertStep, StateStep, OwnStep DEF Owner!LogIn, Owner!Manage
  <2> QED
    BY <1>1, <2>1, StateStep, ForeignStep, EndStep DEF Owner!Next
<1>2. CASE UNCHANGED ownerVars
  <2>1. Quiet
    BY <1>2 DEF OwnerInv, OwnerTyped, Quiet, ownerVars
  <2>2. Steps /\ (\A a \in Accounts : AccountOK(a)') /\ \A s \in Owner!Sessions : SessionOK(s)'
    BY <2>1, QuietSteps
  <2>3. \A r \in Actors : RowOK(r)' /\ OwnOK(r)'
    BY <1>2, <2>2, RequestKept DEF ownerVars
  <2>4. \A c \in cookie' : ChallengeOK(c)'
    BY <1>2, <2>2, ChallengeKept DEF ownerVars
  <2> QED
    BY <2>1, <2>2, <2>3, <2>4 DEF OwnerInv, Quiet
<1> QED
  BY <1>1, <1>2

LEMMA OwnerTells == ASSUME OwnerInv PROVE Owner!UsableSessionIsCurrent
BY DEF OwnerInv, SessionOK, Owner!UsableSessionIsCurrent, Owner!Usable, Remembers, RemembersPassword

\* Logins, changes of passwords and factors, and deployments in any order keep what was read.
THEOREM OwnerInvariance == Spec => [](part = "owner" => OwnerInv)
<1>1. Init => (part = "owner" => OwnerInv)
  BY PlatformAssumption, OwnerStarts, Starts DEF OwnerBounds
<1>2. (part = "owner" => OwnerInv) /\ [Next]_all => (part = "owner" => OwnerInv)'
  BY PlatformAssumption, OwnerSteps, Moves DEF OwnerBounds
<1> QED
  BY <1>1, <1>2, PTL DEF Spec

\* A session that can be used was opened with the password and the second factor of now, for any
\* number of accounts, sessions, requests and changes (http/admin-routes.ts, domain/bootstrap.ts).
THEOREM UsableSessionIsCurrentHolds == Spec => []UsableSessionIsCurrent
<1>1. (part = "owner" => OwnerInv) => UsableSessionIsCurrent
  BY OwnerTells DEF UsableSessionIsCurrent
<1> QED
  BY <1>1, OwnerInvariance, PTL

-----------------------------------------------------------------------------
(***************************************************************************)
(* LoginThrottle: the counts of failed logins.                             *)
(*                                                                         *)
(* A login counts in three scopes under the advisory lock of each, which it *)
(* keeps to its commit; its counts are seen then.  So what it read of a    *)
(* scope is still what the row says, and one more is what it writes.       *)
(***************************************************************************)

LoginPlaces == {"idle", "password", "lock", "write", "commit"}
ThrottleTyped ==
  /\ row \in [Throttle!Scopes -> [count : Nat, locked : BOOLEAN]]
  /\ advisory \in [Throttle!Scopes -> SUBSET Logins]
  /\ login \in [Logins -> [pc : LoginPlaces, at : 1..3, read : Nat]]
  /\ pending \in [Logins -> [Throttle!Scopes -> Nat]]
  /\ failures \in [since : [Throttle!Scopes -> Nat], all : Nat]

\* The scopes a login has counted, and the one it is about to count.
Counted(l, i) == login[l].pc = "commit" \/ (login[l].pc \in {"lock", "write"} /\ i < login[l].at)
ThrottleCounting(l, i) == login[l].pc = "write" /\ i = login[l].at

\* What a login has counted or is about to count it has the advisory lock of; its counts are one
\* more than the row's.
LoginOK(l, i) ==
  LET k == Throttle!Scope[i] IN
  /\ pending[l][k] > 0 <=> Counted(l, i)
  /\ Counted(l, i) => pending[l][k] = row[k].count + 1
  /\ ThrottleCounting(l, i) => login[l].read = row[k].count
  /\ Counted(l, i) \/ ThrottleCounting(l, i) => l \in advisory[k]

ThrottleInv ==
  /\ ThrottleTyped
  /\ \A k \in Throttle!Scopes : \A l, m \in advisory[k] : l = m
  /\ \A l \in Logins, i \in 1..3 : LoginOK(l, i)
  /\ \A l \in Logins : login[l].pc \in {"idle", "password"} => login[l].at = 1
  /\ \A k \in Throttle!Scopes : row[k].count = failures.since[k]

LEMMA ScopeNames ==
  /\ \A i \in 1..3 : Throttle!Scope[i] \in Throttle!Scopes
  /\ \A k \in Throttle!Scopes : \E i \in 1..3 : k = Throttle!Scope[i]
  /\ \A i, j \in 1..3 : Throttle!Scope[i] = Throttle!Scope[j] => i = j
  /\ Throttle!Scope[1] = "ip" /\ Throttle!Scope[2] = "account" /\ Throttle!Scope[3] = "ip_account"
<1>1. /\ \A i \in 1..3 : Throttle!Scope[i] \in Throttle!Scopes
      /\ \A k \in Throttle!Scopes : \E i \in 1..3 : k = Throttle!Scope[i]
  BY DEF Throttle!Scopes
<1>2. Throttle!Scope[1] = "ip" /\ Throttle!Scope[2] = "account" /\ Throttle!Scope[3] = "ip_account"
  BY DEF Throttle!Scope
<1>3. \A i, j \in 1..3 : Throttle!Scope[i] = Throttle!Scope[j] => i = j
  BY <1>2
<1> QED
  BY <1>1, <1>2, <1>3

LEMMA ThrottleStarts == ASSUME Throttle!Init PROVE ThrottleInv
<1>1. ThrottleTyped
  BY DEF Throttle!Init, ThrottleTyped, Throttle!NoRow, Throttle!Out, LoginPlaces
<1>2. ASSUME NEW l \in Logins, NEW i \in 1..3 PROVE LoginOK(l, i)
  BY ScopeNames DEF Throttle!Init, LoginOK, Counted, ThrottleCounting, Throttle!Out
<1> QED
  BY <1>1, <1>2 DEF Throttle!Init, ThrottleInv, Throttle!NoRow, Throttle!Out

\* A login that is not counting moves; nothing else does.
LEMMA Moving ==
  ASSUME ThrottleInv, NEW l \in Logins, NEW new \in [pc : {"idle", "password", "lock"}, at : 1..3, read : Nat],
         login[l].pc \in {"idle", "password"},
         new.at = 1,
         login' = [login EXCEPT ![l] = new], UNCHANGED <<advisory, pending>>,
         row' \in [Throttle!Scopes -> [count : Nat, locked : BOOLEAN]],
             failures' \in [since : [Throttle!Scopes -> Nat], all : Nat],
         \A k \in Throttle!Scopes : row'[k].count = failures'.since[k],
         \A m \in Logins \ {l}, i \in 1..3 : Counted(m, i) \/ ThrottleCounting(m, i)
             => row'[Throttle!Scope[i]].count = row[Throttle!Scope[i]].count
  PROVE  ThrottleInv'
<1>1. ThrottleTyped'
  <2>1. new \in [pc : LoginPlaces, at : 1..3, read : Nat]
    BY DEF LoginPlaces
  <2> QED
    BY <2>1 DEF ThrottleInv, ThrottleTyped
<1>2. ASSUME NEW m \in Logins, NEW i \in 1..3 PROVE LoginOK(m, i)'
  <2>1. CASE m = l
    <3>1. login'[m] = new
      BY <2>1 DEF ThrottleInv, ThrottleTyped
    <3>2. ~Counted(m, i) /\ ~ThrottleCounting(m, i)
      BY <2>1 DEF Counted, ThrottleCounting
    <3>3. ~Counted(m, i)' /\ ~ThrottleCounting(m, i)'
      BY <3>1 DEF Counted, ThrottleCounting
    <3> QED
      BY <3>2, <3>3 DEF ThrottleInv, LoginOK
  <2>2. CASE m # l
    <3>1. login'[m] = login[m]
      BY <2>2 DEF ThrottleInv, ThrottleTyped
    <3>2. (Counted(m, i)' <=> Counted(m, i)) /\ (ThrottleCounting(m, i)' <=> ThrottleCounting(m, i))
      BY <3>1 DEF Counted, ThrottleCounting
    <3> QED
      BY <2>2, <3>1, <3>2 DEF ThrottleInv, LoginOK
  <2> QED
    BY <2>1, <2>2
<1>3. ASSUME NEW m \in Logins, login'[m].pc \in {"idle", "password"} PROVE login'[m].at = 1
  BY <1>3 DEF ThrottleInv, ThrottleTyped
<1> QED
  BY <1>1, <1>2, <1>3 DEF ThrottleInv

LEMMA Begins ==
  ASSUME ThrottleInv, NEW l \in Logins, Throttle!Begin(l) \/ Throttle!Fail(l) PROVE ThrottleInv'
<1>1. ThrottleTyped
  BY DEF ThrottleInv
<1>2. CASE Throttle!Begin(l)
  <2>1. login[l] = Throttle!Out /\ login' = [login EXCEPT ![l] = [login[l] EXCEPT !.pc = "password"]]
             /\ UNCHANGED <<row, advisory, pending, failures>>
    BY <1>1, <1>2 DEF Throttle!Begin, ThrottleTyped
  <2>2. [login[l] EXCEPT !.pc = "password"] \in [pc : {"idle", "password", "lock"}, at : 1..3, read : Nat]
        /\ login[l].pc = "idle" /\ [login[l] EXCEPT !.pc = "password"].at = 1
    BY <2>1 DEF Throttle!Out
  <2> PICK new : new = [login[l] EXCEPT !.pc = "password"]
    OBVIOUS
  <2>3. row' \in [Throttle!Scopes -> [count : Nat, locked : BOOLEAN]]
             /\ failures' \in [since : [Throttle!Scopes -> Nat], all : Nat]
    BY <1>1, <2>1 DEF ThrottleTyped
  <2>4. \A k \in Throttle!Scopes : row'[k].count = failures'.since[k]
    BY <2>1 DEF ThrottleInv
  <2>5. login' = [login EXCEPT ![l] = new] /\ UNCHANGED <<advisory, pending, row>>
    BY <2>1
  <2> QED
    BY <2>2, <2>3, <2>4, <2>5, Moving
<1>3. CASE Throttle!Fail(l)
  <2>1. /\ login[l].pc = "password" /\ login' = [login EXCEPT ![l] = [login[l] EXCEPT !.pc = "lock"]]
        /\ UNCHANGED <<row, advisory, pending>> /\ failures' = [failures EXCEPT !.all = @ + 1]
    BY <1>1, <1>3 DEF Throttle!Fail, ThrottleTyped
  <2>2. [login[l] EXCEPT !.pc = "lock"] \in [pc : {"idle", "password", "lock"}, at : 1..3, read : Nat]
             /\ [login[l] EXCEPT !.pc = "lock"].at = 1
    BY <1>1, <2>1 DEF ThrottleInv, ThrottleTyped
  <2>a. failures \in [since : [Throttle!Scopes -> Nat], all : Nat]
    BY <1>1 DEF ThrottleTyped
  <2>b. failures' = [failures EXCEPT !.all = failures.all + 1] /\ failures.all + 1 \in Nat
    BY <2>1, <2>a
  <2>3. failures' \in [since : [Throttle!Scopes -> Nat], all : Nat] /\ failures'.since = failures.since
    BY <2>a, <2>b
  <2> PICK new : new = [login[l] EXCEPT !.pc = "lock"]
    OBVIOUS
  <2>4. row' \in [Throttle!Scopes -> [count : Nat, locked : BOOLEAN]]
             /\ \A k \in Throttle!Scopes : row'[k].count = failures'.since[k]
    BY <1>1, <2>1, <2>3 DEF ThrottleInv, ThrottleTyped
  <2>5. login' = [login EXCEPT ![l] = new] /\ UNCHANGED <<advisory, pending, row>>
    BY <2>1
  <2> QED
    BY <2>1, <2>2, <2>3, <2>4, <2>5, Moving
<1> QED
  BY <1>2, <1>3

\* A right password clears rows that nobody has counted under, or none at all.
LEMMA Succeeds ==
  ASSUME ThrottleInv, NEW l \in Logins, Throttle!Succeed(l) PROVE ThrottleInv'
<1> DEFINE new == Throttle!Out
<1>1. ThrottleTyped /\ login[l].pc = "password"
  BY DEF ThrottleInv, Throttle!Succeed
<1>2. /\ login' = [login EXCEPT ![l] = Throttle!Out] /\ UNCHANGED <<advisory, pending>>
      /\ row' = [k \in Throttle!Scopes |-> IF k \in Throttle!Cleared THEN Throttle!NoRow ELSE row[k]]
      /\ failures' = [failures EXCEPT !.since = [k \in Throttle!Scopes |-> IF k = "ip" THEN @[k] ELSE 0]]
      /\ \A k \in Throttle!Cleared : Throttle!RowFree(l, k)
  BY DEF Throttle!Succeed
<1>3. Throttle!Out \in [pc : {"idle", "password", "lock"}, at : 1..3, read : Nat] /\ Throttle!Out.at = 1
  BY DEF Throttle!Out
<1>4. row' \in [Throttle!Scopes -> [count : Nat, locked : BOOLEAN]]
  BY <1>1, <1>2 DEF ThrottleTyped, Throttle!NoRow
<1>5. failures' \in [since : [Throttle!Scopes -> Nat], all : Nat]
  BY <1>1, <1>2 DEF ThrottleTyped
<1>6. \A k \in Throttle!Scopes : row'[k].count = failures'.since[k]
  BY <1>1, <1>2 DEF ThrottleInv, ThrottleTyped, Throttle!Cleared, Throttle!NoRow
<1>7. ASSUME NEW m \in Logins \ {l}, NEW i \in 1..3, Counted(m, i) \/ ThrottleCounting(m, i)
      PROVE  row'[Throttle!Scope[i]].count = row[Throttle!Scope[i]].count
  <2> PICK k : k = Throttle!Scope[i]
    OBVIOUS
  <2>1. k \in Throttle!Scopes /\ LoginOK(m, i)
    BY ScopeNames DEF ThrottleInv
  <2>2. CASE k \notin Throttle!Cleared
    BY <1>2, <2>1, <2>2
  <2>3. CASE k \in Throttle!Cleared
    <3>1. ~Throttle!Holds(m, k)
      BY <1>2, <2>3 DEF Throttle!RowFree
    <3>2. ~Counted(m, i)
      BY <3>1 , <2>1 DEF Throttle!Holds, LoginOK
    <3>3. login[m].pc = "write" /\ Throttle!Scope[login[m].at] = k /\ login[m].read = row[k].count
      BY <1>7, <2>1, <3>2 DEF ThrottleCounting, LoginOK
    <3>4. ~(login[m].read > 0) /\ login[m].read \in Nat
      BY <1>1, <3>1, <3>3 DEF Throttle!Holds, ThrottleTyped
    <3> QED
      BY <1>2, <2>1, <2>3, <3>3, <3>4 DEF Throttle!NoRow
  <2> QED
    BY <2>2, <2>3
<1> QED
  BY <1>1, <1>2, <1>3, <1>4, <1>5, <1>6, <1>7, Moving

\* The advisory lock of the next scope, and its row under the lock.
LEMMA Reads ==
  ASSUME ThrottleInv, NEW l \in Logins, Throttle!Read(l) PROVE ThrottleInv'
<1> PICK at, k : at = login[l].at /\ k = Throttle!Scope[at]
  OBVIOUS
<1> DEFINE new == [[login[l] EXCEPT !.pc = "write"] EXCEPT !.read = row[k].count]
<1>1. ThrottleTyped /\ at \in 1..3 /\ k \in Throttle!Scopes /\ login[l].pc = "lock" /\ advisory[k] = {}
  BY ScopeNames DEF ThrottleInv, ThrottleTyped, Throttle!Read, Throttle!LockFree
<1>2. /\ login' = [login EXCEPT ![l] = new] /\ advisory' = [advisory EXCEPT ![k] = advisory[k] \union {l}]
      /\ UNCHANGED <<row, pending, failures>>
  BY <1>1 DEF Throttle!Read, ThrottleTyped
<1>3. new \in [pc : LoginPlaces, at : 1..3, read : Nat] /\ new.pc = "write" /\ new.at = at
           /\ new.read = row[k].count
  BY <1>1 DEF ThrottleTyped, LoginPlaces
<1> HIDE DEF new
<1>4. ThrottleTyped'
  BY <1>1, <1>2, <1>3 DEF ThrottleTyped
<1>5. \A j \in Throttle!Scopes : \A m, n \in advisory'[j] : m = n
  BY <1>1, <1>2 DEF ThrottleInv, ThrottleTyped
<1>6. ASSUME NEW m \in Logins, NEW i \in 1..3 PROVE LoginOK(m, i)'
  <2>1. LoginOK(m, i) /\ Throttle!Scope[i] \in Throttle!Scopes
    BY ScopeNames DEF ThrottleInv
  <2>2. \A j \in Throttle!Scopes : advisory[j] \subseteq advisory'[j] /\ l \in advisory'[k]
    BY <1>1, <1>2 DEF ThrottleTyped
  <2>3. CASE m = l
    <3>1. login'[m] = new
      BY <1>1, <1>2, <2>3 DEF ThrottleTyped
    <3>2. (Counted(m, i)' <=> Counted(m, i)) /\ (ThrottleCounting(m, i)' <=> i = at)
      BY <1>1, <1>3, <2>3, <3>1 DEF Counted, ThrottleCounting
    <3>3. i = at => Throttle!Scope[i] = k
      OBVIOUS
    <3> QED
      BY <1>2, <1>3, <2>1, <2>2, <2>3, <3>1, <3>2, <3>3 DEF LoginOK
  <2>4. CASE m # l
    <3>1. login'[m] = login[m]
      BY <1>1, <1>2, <2>4 DEF ThrottleTyped
    <3>2. (Counted(m, i)' <=> Counted(m, i)) /\ (ThrottleCounting(m, i)' <=> ThrottleCounting(m, i))
      BY <3>1 DEF Counted, ThrottleCounting
    <3> QED
      BY <1>2, <2>1, <2>2, <3>1, <3>2 DEF LoginOK
  <2> QED
    BY <2>3, <2>4
<1>7. ASSUME NEW m \in Logins, login'[m].pc \in {"idle", "password"} PROVE login'[m].at = 1
  BY <1>1, <1>2, <1>3, <1>7 DEF ThrottleInv, ThrottleTyped
<1> QED
  BY <1>2, <1>4, <1>5, <1>6, <1>7 DEF ThrottleInv

LEMMA NextScope ==
  ASSUME NEW before \in [pc : LoginPlaces, at : 1..3, read : Nat], NEW n \in 1..3, NEW after,
         after = [before EXCEPT !.pc = "lock", !.at = n, !.read = 0]
  PROVE  after \in [pc : LoginPlaces, at : 1..3, read : Nat] /\ after.pc = "lock" /\ after.at = n
<1>1. "lock" \in LoginPlaces /\ 0 \in Nat
  BY DEF LoginPlaces
<1> QED
  BY <1>1

LEMMA Writes ==
  ASSUME ThrottleInv, NEW l \in Logins, Throttle!Write(l) PROVE ThrottleInv'
<1> PICK at, k : at = login[l].at /\ k = Throttle!Scope[at]
  OBVIOUS
<1> DEFINE count == login[l].read + 1
<1>1. ThrottleTyped /\ at \in 1..3 /\ k \in Throttle!Scopes /\ login[l].pc = "write"
           /\ login[l] \in [pc : LoginPlaces, at : 1..3, read : Nat]
  BY ScopeNames DEF ThrottleInv, ThrottleTyped, Throttle!Write
<1> PICK new : new = IF login[l].at = 3 THEN [login[l] EXCEPT !.pc = "commit"]
                     ELSE [login[l] EXCEPT !.pc = "lock", !.at = login[l].at + 1, !.read = 0]
  OBVIOUS
<1>2. /\ login' = [login EXCEPT ![l] = new]
      /\ pending' = [pending EXCEPT ![l] = [pending[l] EXCEPT ![k] = count]]
      /\ UNCHANGED <<row, advisory, failures>>
  <2>1. login' = [login EXCEPT ![l] = new]
    <3>1. login' = [login EXCEPT ![l] =
            IF login[l].at = 3 THEN [login[l] EXCEPT !.pc = "commit"]
            ELSE [login[l] EXCEPT !.pc = "lock", !.at = login[l].at + 1, !.read = 0]]
      BY Zenon DEF Throttle!Write
    <3> QED
      BY <3>1, Zenon
  <2>2. pending' = [pending EXCEPT ![l] = [pending[l] EXCEPT ![k] = count]]
    BY <1>1 DEF Throttle!Write, ThrottleTyped
  <2> QED
    BY <2>1, <2>2 DEF Throttle!Write
<1>3. /\ new \in [pc : LoginPlaces, at : 1..3, read : Nat]
      /\ at = 3 => new.pc = "commit"
      /\ at < 3 => new.pc = "lock" /\ new.at = at + 1
  <2>1. CASE at = 3
    <3>1. new = [login[l] EXCEPT !.pc = "commit"]
      BY <2>1
    <3> QED
      BY <1>1, <2>1, <3>1 DEF LoginPlaces
  <2>2. CASE at # 3
    <3>1. PICK n \in 1..3 : n = at + 1 /\ at < 3
      BY <1>1, <2>2
    <3>2. new = [login[l] EXCEPT !.pc = "lock", !.at = n, !.read = 0]
      <4>1. login[l].at # 3 /\ login[l].at + 1 = n
        BY <2>2, <3>1
      <4> QED
        BY <4>1, Zenon
    <3>3. new \in [pc : LoginPlaces, at : 1..3, read : Nat] /\ new.pc = "lock" /\ new.at = n
      <4>1. login[l] \in [pc : LoginPlaces, at : 1..3, read : Nat]
        BY <1>1
      <4> QED
        BY <3>1, <3>2, <4>1, NextScope, Zenon
    <3> QED
      BY <2>2, <3>1, <3>3
  <2> QED
    BY <2>1, <2>2
<1>4. count \in Nat /\ count > 0 /\ count = row[k].count + 1 /\ l \in advisory[k]
  <2>1. ThrottleCounting(l, at) /\ LoginOK(l, at)
    BY <1>1 DEF ThrottleCounting, ThrottleInv
  <2>2. login[l].read \in Nat
    BY <1>1 DEF ThrottleTyped
  <2> QED
    BY <2>1, <2>2 DEF LoginOK
<1> HIDE DEF count
<1>5. ThrottleTyped'
  BY <1>1, <1>2, <1>3, <1>4 DEF ThrottleTyped
<1>6. ASSUME NEW m \in Logins, NEW i \in 1..3 PROVE LoginOK(m, i)'
  <2>1. LoginOK(m, i) /\ Throttle!Scope[i] \in Throttle!Scopes /\ (Throttle!Scope[i] = k => i = at)
    BY <1>1, ScopeNames DEF ThrottleInv
  <2>2. CASE m = l /\ i = at
    <3>1. pending'[m][Throttle!Scope[i]] = count /\ login'[m] = new
      BY <1>1, <1>2, <2>2 DEF ThrottleTyped
    <3>2. Counted(m, i)' /\ ~ThrottleCounting(m, i)'
      BY <1>1, <1>3, <2>2, <3>1 DEF Counted, ThrottleCounting
    <3> QED
      BY <1>2, <1>4, <2>2, <3>1, <3>2 DEF LoginOK
  <2>3. CASE m = l /\ i # at
    <3>1. pending'[m][Throttle!Scope[i]] = pending[m][Throttle!Scope[i]] /\ login'[m] = new
      BY <1>1, <1>2, <2>1, <2>3 DEF ThrottleTyped
    <3>2. (Counted(m, i)' <=> Counted(m, i)) /\ ~ThrottleCounting(m, i)'
      <4>1. Counted(m, i) <=> i < at
        BY <1>1, <2>3 DEF Counted
      <4>2. CASE at = 3
        BY <1>3, <2>3, <3>1, <4>1, <4>2 DEF Counted, ThrottleCounting
      <4>3. CASE at < 3
        BY <1>1, <1>3, <2>3, <3>1, <4>1, <4>3 DEF Counted, ThrottleCounting
      <4> QED
        BY <1>1, <4>2, <4>3
    <3> QED
      BY <1>2, <2>1, <3>1, <3>2 DEF LoginOK
  <2>4. CASE m # l
    <3>1. login'[m] = login[m] /\ pending'[m] = pending[m]
      BY <1>1, <1>2, <2>4 DEF ThrottleTyped
    <3>2. (Counted(m, i)' <=> Counted(m, i)) /\ (ThrottleCounting(m, i)' <=> ThrottleCounting(m, i))
      BY <3>1 DEF Counted, ThrottleCounting
    <3> QED
      BY <1>2, <2>1, <3>1, <3>2 DEF LoginOK
  <2> QED
    BY <2>2, <2>3, <2>4
<1>7. ASSUME NEW m \in Logins, login'[m].pc \in {"idle", "password"} PROVE login'[m].at = 1
  BY <1>1, <1>2, <1>3, <1>7 DEF ThrottleInv, ThrottleTyped
<1> QED
  BY <1>2, <1>5, <1>6, <1>7 DEF ThrottleInv

\* The commit of a login that has counted under each scope, with the lock of each: nobody else
\* has counted or is about to count.
LEMMA Commits ==
  ASSUME ThrottleInv, NEW l \in Logins, Throttle!Commit(l) PROVE ThrottleInv'
<1>1. ThrottleTyped /\ login[l].pc = "commit"
  BY DEF ThrottleInv, Throttle!Commit
<1>2. /\ row' = [k \in Throttle!Scopes |-> [count |-> pending[l][k], locked |-> Throttle!Locks(k, pending[l][k])]]
      /\ failures' = [failures EXCEPT !.since = [k \in Throttle!Scopes |-> failures.since[k] + 1]]
      /\ advisory' = [k \in Throttle!Scopes |-> advisory[k] \ {l}]
      /\ pending' = [pending EXCEPT ![l] = [k \in Throttle!Scopes |-> 0]]
      /\ login' = [login EXCEPT ![l] = Throttle!Out]
  BY DEF Throttle!Commit
<1>3. ASSUME NEW k \in Throttle!Scopes PROVE pending[l][k] = row[k].count + 1 /\ l \in advisory[k]
  <2>1. PICK i \in 1..3 : k = Throttle!Scope[i]
    BY ScopeNames
  <2>2. Counted(l, i) /\ LoginOK(l, i)
    BY <1>1 DEF Counted, ThrottleInv
  <2> QED
    BY <2>1, <2>2 DEF LoginOK
<1>4. Throttle!Out \in [pc : LoginPlaces, at : 1..3, read : Nat] /\ Throttle!Out.pc = "idle"
           /\ Throttle!Out.at = 1
  BY DEF Throttle!Out, LoginPlaces
<1>5. ThrottleTyped'
  <2>1. ASSUME NEW k \in Throttle!Scopes
        PROVE  Throttle!Locks(k, pending[l][k]) \in BOOLEAN /\ pending[l][k] \in Nat
    BY <1>1 DEF Throttle!Locks, ThrottleTyped
  <2>2. row' \in [Throttle!Scopes -> [count : Nat, locked : BOOLEAN]]
    BY <1>2, <2>1
  <2>3. failures' \in [since : [Throttle!Scopes -> Nat], all : Nat]
    <3> PICK since : since = [k \in Throttle!Scopes |-> failures.since[k] + 1]
      OBVIOUS
    <3>1. since \in [Throttle!Scopes -> Nat] /\ failures' = [failures EXCEPT !.since = since]
      BY <1>1, <1>2 DEF ThrottleTyped
    <3> QED
      BY <1>1, <3>1 DEF ThrottleTyped
  <2>4. advisory' \in [Throttle!Scopes -> SUBSET Logins] /\ login' \in [Logins -> [pc : LoginPlaces, at : 1..3, read : Nat]]
        /\ pending' \in [Logins -> [Throttle!Scopes -> Nat]]
    BY <1>1, <1>2, <1>4 DEF ThrottleTyped
  <2> QED
    BY <2>2, <2>3, <2>4 DEF ThrottleTyped
<1>6. \A k \in Throttle!Scopes : \A m, n \in advisory'[k] : m = n
  BY <1>2 DEF ThrottleInv
<1>7. ASSUME NEW m \in Logins, NEW i \in 1..3 PROVE LoginOK(m, i)'
  <2>1. Throttle!Scope[i] \in Throttle!Scopes
    BY ScopeNames
  <2>2. CASE m = l
    <3>1. login'[m] = Throttle!Out /\ pending'[m][Throttle!Scope[i]] = 0
      BY <1>1, <1>2, <2>1, <2>2 DEF ThrottleTyped
    <3> QED
      BY <1>4, <3>1 DEF LoginOK, Counted, ThrottleCounting
  <2>3. CASE m # l
    <3>1. login'[m] = login[m] /\ pending'[m] = pending[m]
      BY <1>1, <1>2, <2>3 DEF ThrottleTyped
    <3>2. m \notin advisory[Throttle!Scope[i]]
      BY <1>3, <2>1, <2>3 DEF ThrottleInv
    <3>3. ~Counted(m, i) /\ ~ThrottleCounting(m, i) /\ LoginOK(m, i)
      BY <3>2 DEF ThrottleInv, LoginOK
    <3>4. ~Counted(m, i)' /\ ~ThrottleCounting(m, i)'
      BY <3>1, <3>3 DEF Counted, ThrottleCounting
    <3> QED
      BY <3>1, <3>3, <3>4 DEF LoginOK
  <2> QED
    BY <2>2, <2>3
<1>8. ASSUME NEW m \in Logins, login'[m].pc \in {"idle", "password"} PROVE login'[m].at = 1
  BY <1>1, <1>2, <1>4, <1>8 DEF ThrottleInv, ThrottleTyped
<1>9. ASSUME NEW k \in Throttle!Scopes PROVE row'[k].count = failures'.since[k]
  <2>1. failures'.since[k] = failures.since[k] + 1
    BY <1>1, <1>2 DEF ThrottleTyped
  <2>2. row'[k].count = pending[l][k]
    BY <1>2
  <2> QED
    BY <1>3, <2>1, <2>2 DEF ThrottleInv
<1> QED
  BY <1>5, <1>6, <1>7, <1>8, <1>9 DEF ThrottleInv

\* Time passes for a row.
LEMMA Passes ==
  ASSUME ThrottleInv, NEW k \in Throttle!Scopes, Throttle!LockPasses(k) \/ Throttle!WindowPasses(k)
  PROVE  ThrottleInv'
<1>1. ThrottleTyped /\ UNCHANGED <<advisory, login, pending>>
  BY DEF ThrottleInv, Throttle!LockPasses, Throttle!WindowPasses
<1>2. /\ row' \in [Throttle!Scopes -> [count : Nat, locked : BOOLEAN]]
           /\ failures' \in [since : [Throttle!Scopes -> Nat], all : Nat]
      /\ \A j \in Throttle!Scopes : row'[j].count = failures'.since[j]
      /\ UNCHANGED failures \/ (\A l \in Logins : login[l].pc \in {"idle", "password"})
      /\ UNCHANGED failures => \A j \in Throttle!Scopes : row'[j].count = row[j].count
  <2>1. CASE Throttle!LockPasses(k)
    <3> PICK new : new = [row[k] EXCEPT !.locked = FALSE]
      OBVIOUS
    <3>1. new \in [count : Nat, locked : BOOLEAN] /\ new.count = row[k].count
      BY <1>1 DEF ThrottleTyped
    <3>2. row' = [row EXCEPT ![k] = new] /\ UNCHANGED failures
      BY <1>1, <2>1 DEF Throttle!LockPasses, ThrottleTyped
    <3>3. row' \in [Throttle!Scopes -> [count : Nat, locked : BOOLEAN]]
               /\ \A j \in Throttle!Scopes : row'[j].count = row[j].count
      BY <1>1, <3>1, <3>2 DEF ThrottleTyped
    <3> QED
      BY <1>1, <3>2, <3>3 DEF ThrottleInv, ThrottleTyped
  <2>2. CASE Throttle!WindowPasses(k)
    <3>1. Throttle!NoRow \in [count : Nat, locked : BOOLEAN] /\ Throttle!NoRow.count = 0
      BY DEF Throttle!NoRow
    <3> PICK since : since = [failures.since EXCEPT ![k] = 0]
      OBVIOUS
    <3>2. /\ row' = [row EXCEPT ![k] = Throttle!NoRow] /\ failures' = [failures EXCEPT !.since = since]
               /\ row[k].count > 0
          /\ \A l \in Logins : login[l].pc \in {"idle", "password"}
      BY <1>1, <2>2 DEF Throttle!WindowPasses, ThrottleTyped
    <3>3. since \in [Throttle!Scopes -> Nat] /\ since[k] = 0 /\ \A j \in Throttle!Scopes \ {k} : since[j] = failures.since[j]
      BY <1>1 DEF ThrottleTyped
    <3>4. row' \in [Throttle!Scopes -> [count : Nat, locked : BOOLEAN]] /\ row'[k].count = 0
               /\ \A j \in Throttle!Scopes \ {k} : row'[j] = row[j]
      BY <1>1, <3>1, <3>2 DEF ThrottleTyped
    <3>5. failures' \in [since : [Throttle!Scopes -> Nat], all : Nat] /\ failures'.since = since
      BY <1>1, <3>2, <3>3 DEF ThrottleTyped
    <3>6. ~UNCHANGED failures
      <4>1. failures.since[k] > 0
        BY <3>2 DEF ThrottleInv
      <4> QED
        BY <3>3, <3>5, <4>1
    <3> QED
      BY <3>2, <3>3, <3>4, <3>5, <3>6 DEF ThrottleInv
  <2> QED
    BY <2>1, <2>2
<1>3. ThrottleTyped'
  BY <1>1, <1>2 DEF ThrottleTyped
<1>4. ASSUME NEW m \in Logins, NEW i \in 1..3 PROVE LoginOK(m, i)'
  <2>1. LoginOK(m, i) /\ Throttle!Scope[i] \in Throttle!Scopes /\ (Counted(m, i)' <=> Counted(m, i))
             /\ (ThrottleCounting(m, i)' <=> ThrottleCounting(m, i))
    BY <1>1, ScopeNames DEF ThrottleInv, Counted, ThrottleCounting
  <2>2. Counted(m, i) \/ ThrottleCounting(m, i) => row'[Throttle!Scope[i]].count = row[Throttle!Scope[i]].count
    BY <1>2, <2>1 DEF Counted, ThrottleCounting
  <2> QED
    BY <1>1, <2>1, <2>2 DEF LoginOK
<1> QED
  BY <1>1, <1>2, <1>3, <1>4 DEF ThrottleInv

LEMMA ThrottleSteps == ASSUME ThrottleInv, [Throttle!Next]_throttleVars PROVE ThrottleInv'
<1>1. CASE UNCHANGED throttleVars
  <2>1. ThrottleTyped' /\ \A m \in Logins, i \in 1..3 : LoginOK(m, i)'
    BY <1>1 DEF throttleVars, ThrottleInv, ThrottleTyped, LoginOK, Counted, ThrottleCounting
  <2> QED
    BY <1>1, <2>1 DEF throttleVars, ThrottleInv
<1>2. ASSUME NEW l \in Logins, Throttle!Begin(l) \/ Throttle!Succeed(l) \/ Throttle!Fail(l)
             \/ Throttle!Read(l) \/ Throttle!Write(l) \/ Throttle!Commit(l)
      PROVE  ThrottleInv'
  BY <1>2, Begins, Succeeds, Reads, Writes, Commits
<1>3. ASSUME NEW k \in Throttle!Scopes, Throttle!LockPasses(k) \/ Throttle!WindowPasses(k) PROVE ThrottleInv'
  BY <1>3, Passes
<1> QED
  BY <1>1, <1>2, <1>3 DEF Throttle!Next

LEMMA ThrottleTells == ASSUME ThrottleInv PROVE Throttle!FailuresAreCounted
BY DEF ThrottleInv, Throttle!FailuresAreCounted

\* Logins that fail together, break off or succeed keep the counts of those that are committed.
THEOREM ThrottleInvariance == Spec => [](part = "throttle" => ThrottleInv)
<1>1. Init => (part = "throttle" => ThrottleInv)
  BY ThrottleStarts, Starts
<1>2. (part = "throttle" => ThrottleInv) /\ [Next]_all => (part = "throttle" => ThrottleInv)'
  BY ThrottleSteps, Moves
<1> QED
  BY <1>1, <1>2, PTL DEF Spec

\* Failed logins that arrive together are all counted, for any number of logins and any thresholds
\* (recordLoginFailure).
THEOREM FailuresAreCountedHolds == Spec => []FailuresAreCounted
<1>1. (part = "throttle" => ThrottleInv) => FailuresAreCounted
  BY ThrottleTells DEF FailuresAreCounted
<1> QED
  BY <1>1, ThrottleInvariance, PTL

-----------------------------------------------------------------------------
(***************************************************************************)
(* RuntimeIdentity: the runtime credential of a component.                 *)
(*                                                                         *)
(* For any number of requests of the OWNER and of values, and whatever     *)
(* breaks off.                                                             *)
(***************************************************************************)

\* The worker is not one of the OWNER's requests, and there are values.
IdentityBounds == Issuer \notin Actors /\ MaxSecrets \in Nat

\* The types of what the proofs read.
SecretOK == secret \in Identity!SecretRecord
TokenOK == token \in [Identity!Tokens -> {"unused", "drawn", "live", "revoked"}] /\ identity \in 0..MaxSecrets
ProcOK == proc \in [Identity!Procs -> Identity!ProcState]
BudgetOK == budget \in [edits : Nat, crashes : Nat, disturbed : BOOLEAN, orphan : BOOLEAN]
IdentityTyped == SecretOK /\ TokenOK /\ ProcOK /\ BudgetOK

-----------------------------------------------------------------------------
(* Effects of the operations, field by field.                               *)

\* The secret gets the status and the value, and the next lock_version.
Stored(s, v) == secret'.status = s /\ secret'.value = v /\ secret'.lock = secret.lock + 1

\* The operations of the Secret Manager (domain/secret-manager.ts).
LEMMA SecretEffects ==
  ASSUME SecretOK, NEW v \in 0..MaxSecrets, NEW lock, NEW s \in {"ACTIVE", "DISABLED"}
  PROVE  /\ Identity!CreateSecret(v) => secret.status = "ABSENT" /\ Stored("ACTIVE", v) /\ SecretOK'
         /\ Identity!RotateSecret(v, lock) => Identity!Exists /\ secret.lock = lock
              /\ Stored(secret.status, v) /\ SecretOK'
         /\ Identity!SetSecretStatus(s, lock) => Identity!Exists /\ secret.lock = lock
              /\ Stored(s, secret.value) /\ SecretOK'
         /\ Identity!DeleteSecret(lock) => Identity!Exists /\ Stored("DELETED", secret.value) /\ SecretOK'
         /\ Identity!RestoreSecret(lock) => secret.status = "DELETED" /\ Stored("DISABLED", secret.value)
              /\ SecretOK'
<1> USE DEF SecretOK, Identity!SecretRecord, Identity!Change, Stored, Identity!MayChange
<1>1. Identity!CreateSecret(v) => secret.status = "ABSENT" /\ Stored("ACTIVE", v) /\ SecretOK'
  BY DEF Identity!CreateSecret
<1>2. Identity!RotateSecret(v, lock) => Identity!Exists /\ secret.lock = lock /\ Stored(secret.status, v)
           /\ SecretOK'
  BY DEF Identity!RotateSecret
<1>3. Identity!SetSecretStatus(s, lock) => Identity!Exists /\ secret.lock = lock /\ Stored(s, secret.value)
           /\ SecretOK'
  BY DEF Identity!SetSecretStatus
<1>4. Identity!DeleteSecret(lock) => Identity!Exists /\ Stored("DELETED", secret.value) /\ SecretOK'
  BY DEF Identity!DeleteSecret
<1>5. Identity!RestoreSecret(lock) => secret.status = "DELETED" /\ Stored("DISABLED", secret.value) /\ SecretOK'
  BY DEF Identity!RestoreSecret
<1>6. QED
  BY <1>1, <1>2, <1>3, <1>4, <1>5

\* A step of one process.
IdentitySteps == {"idle", "create", "grantComponent", "grantPlatform", "attach", "read", "change",
          "install", "switch", "revoke", "disable"}
LEMMA ProcEffect ==
  ASSUME ProcOK, NEW p \in Identity!Procs, NEW to \in IdentitySteps, NEW old \in 0..MaxSecrets,
         NEW new \in 0..MaxSecrets,
         NEW lock \in Nat, Identity!Becomes(p, to, old, new, lock)
  PROVE  /\ ProcOK'
         /\ proc'[p].pc = to /\ proc'[p].old = old /\ proc'[p].new = new /\ proc'[p].lock = lock
         /\ \A q \in Identity!Procs : q # p => proc'[q] = proc[q]
BY DEF ProcOK, Identity!ProcState, IdentitySteps, Identity!Becomes

LEMMA GotoEffect ==
  ASSUME ProcOK, NEW p \in Identity!Procs, NEW to \in IdentitySteps, Identity!Goto(p, to)
  PROVE  /\ ProcOK'
         /\ proc'[p].pc = to /\ proc'[p].old = proc[p].old /\ proc'[p].new = proc[p].new
              /\ proc'[p].lock = proc[p].lock
         /\ \A q \in Identity!Procs : q # p => proc'[q] = proc[q]
<1>1. proc[p].old \in 0..MaxSecrets /\ proc[p].new \in 0..MaxSecrets /\ proc[p].lock \in Nat
  BY DEF ProcOK, Identity!ProcState
<1>2. QED
  BY <1>1, ProcEffect DEF Identity!Goto

LEMMA DoneEffect ==
  ASSUME IdentityBounds, ProcOK, NEW p \in Identity!Procs, Identity!Done(p)
  PROVE  /\ ProcOK'
         /\ proc'[p].pc = "idle" /\ proc'[p].old = 0 /\ proc'[p].new = 0 /\ proc'[p].lock = 0
         /\ \A q \in Identity!Procs : q # p => proc'[q] = proc[q]
BY ProcEffect DEF IdentityBounds, Identity!Done, IdentitySteps

LEMMA Locals ==
  ASSUME ProcOK, NEW p \in Identity!Procs
  PROVE  proc[p].pc \in IdentitySteps /\ proc[p].old \in 0..MaxSecrets /\ proc[p].new \in 0..MaxSecrets
      /\ proc[p].lock \in Nat
BY DEF ProcOK, Identity!ProcState, IdentitySteps

LEMMA Fields ==
  ASSUME SecretOK
  PROVE  secret.value \in 0..MaxSecrets /\ secret.lock \in Nat
      /\ secret.status \in {"ABSENT", "ACTIVE", "DISABLED", "DELETED"}
BY DEF SecretOK, Identity!SecretRecord

\* What is noted about installations under way, and what a bound counts.
LEMMA BudgetEffect ==
  ASSUME BudgetOK, NEW edits \in Nat, NEW broken \in Nat, NEW late \in BOOLEAN, NEW lost \in BOOLEAN,
         Identity!Counts(edits, broken, late, lost)
  PROVE  /\ BudgetOK'
         /\ budget'.crashes = budget.crashes + broken
         /\ budget'.orphan = (budget.orphan \/ lost)
         /\ budget'.disturbed = (budget.disturbed \/ late)
BY DEF BudgetOK, Identity!Counts

LEMMA DisturbEffect ==
  ASSUME BudgetOK, NEW late \in BOOLEAN, Identity!Disturb(late)
  PROVE  /\ budget'.crashes = budget.crashes
         /\ budget'.orphan <=> budget.orphan
         /\ budget'.disturbed <=> budget.disturbed \/ late
BY DEF BudgetOK, Identity!Counts, Identity!Disturb

\* What is not touched keeps its type.
LEMMA Untouched ==
  /\ SecretOK /\ secret' = secret => SecretOK'
  /\ ProcOK /\ proc' = proc => ProcOK'
  /\ BudgetOK /\ budget' = budget => BudgetOK'
  /\ TokenOK /\ token' = token /\ identity' = identity => TokenOK'
BY DEF SecretOK, ProcOK, BudgetOK, TokenOK

-----------------------------------------------------------------------------
(* Types.                                                                   *)

LEMMA SecretStep == ASSUME IdentityBounds, IdentityTyped, Identity!Next PROVE SecretOK'
<1> USE DEF IdentityBounds, IdentityTyped
<1>1. CASE UNCHANGED secret
  BY <1>1, Untouched
<1>2. CASE Identity!Create
  BY <1>2, SecretEffects, Locals, Untouched DEF Identity!Create, Identity!Procs
<1>3. ASSUME NEW a \in Actors, Identity!ReadSecret(a) PROVE SecretOK'
  BY <1>3, SecretEffects, Untouched DEF Identity!ReadSecret
<1>4. ASSUME NEW a \in Actors, Identity!ChangeSecret(a) PROVE SecretOK'
  <2>1. proc[a].new \in 0..MaxSecrets
    BY Locals DEF Identity!Procs
  <2>2. QED
    BY <1>4, <2>1, SecretEffects, Untouched DEF Identity!ChangeSecret
<1>5. ASSUME NEW a \in Actors, Identity!DisableSecret(a) PROVE SecretOK'
  BY <1>5, SecretEffects, Untouched DEF Identity!DisableSecret
<1>6. CASE Identity!Edit
  BY <1>6, SecretEffects, Untouched DEF Identity!Edit
<1>7. QED
  <2>1. CASE Identity!Reuse \/ Identity!Issue \/ Identity!GrantComponent \/ Identity!GrantPlatform
             \/ Identity!Attach \/ \E p \in Identity!Procs : Identity!Install(p) \/ Identity!BreakOff(p)
    BY <2>1, <1>1 DEF Identity!Reuse, Identity!Issue, Identity!GrantComponent, Identity!GrantPlatform,
      Identity!Attach, Identity!Install, Identity!BreakOff
  <2>2. ASSUME NEW a \in Actors, Identity!StartRotation(a) \/ Identity!SwitchToken(a)
               \/ Identity!StartRevocation(a) \/ Identity!Revoke(a)
        PROVE  SecretOK'
    BY <2>2, <1>1 DEF Identity!StartRotation, Identity!SwitchToken, Identity!StartRevocation, Identity!Revoke
  <2>3. QED
    BY <1>2, <1>3, <1>4, <1>5, <1>6, <2>1, <2>2 DEF Identity!Next

LEMMA ProcStep == ASSUME IdentityBounds, IdentityTyped, Identity!Next PROVE ProcOK'
<1> USE DEF IdentityBounds, IdentityTyped, Identity!Procs, IdentitySteps
<1>1. CASE Identity!Reuse
  BY <1>1, ProcEffect, Fields DEF Identity!Reuse
<1>2. CASE Identity!Issue
  BY <1>2, ProcEffect DEF Identity!Issue, Identity!Fresh, Identity!Tokens
<1>3. CASE Identity!Create \/ Identity!GrantComponent \/ Identity!GrantPlatform \/ Identity!Attach
  BY <1>3, GotoEffect, DoneEffect DEF Identity!Create, Identity!GrantComponent, Identity!GrantPlatform,
    Identity!Attach
<1>4. ASSUME NEW a \in Actors, Identity!StartRotation(a) PROVE ProcOK'
  BY <1>4, ProcEffect DEF Identity!StartRotation, Identity!Fresh, Identity!Tokens, TokenOK
<1>5. ASSUME NEW a \in Actors, Identity!ReadSecret(a) PROVE ProcOK'
  <2>1. secret'.lock \in Nat
    BY SecretStep, Fields DEF SecretOK, Identity!SecretRecord
  <2>2. proc[a].old \in 0..MaxSecrets /\ proc[a].new \in 0..MaxSecrets
    BY Locals
  <2>3. QED
    BY <1>5, <2>1, <2>2, ProcEffect, DoneEffect DEF Identity!ReadSecret
<1>6. ASSUME NEW a \in Actors, Identity!ChangeSecret(a) \/ Identity!SwitchToken(a) \/ Identity!Revoke(a)
             \/ Identity!DisableSecret(a)
      PROVE  ProcOK'
  BY <1>6, GotoEffect, DoneEffect DEF Identity!ChangeSecret, Identity!SwitchToken, Identity!Revoke,
    Identity!DisableSecret
<1>7. ASSUME NEW a \in Actors, Identity!StartRevocation(a) PROVE ProcOK'
  BY <1>7, ProcEffect DEF Identity!StartRevocation, TokenOK
<1>8. ASSUME NEW p \in Identity!Procs, Identity!Install(p) \/ Identity!BreakOff(p) PROVE ProcOK'
  BY <1>8, GotoEffect, DoneEffect DEF Identity!Install, Identity!BreakOff
<1>9. CASE Identity!Edit
  BY <1>9, Untouched DEF Identity!Edit
<1>10. QED
  BY <1>1, <1>2, <1>3, <1>4, <1>5, <1>6, <1>7, <1>8, <1>9 DEF Identity!Next

LEMMA BudgetStep == ASSUME IdentityBounds, IdentityTyped, Identity!Next PROVE BudgetOK'
<1> USE DEF IdentityBounds, IdentityTyped, Identity!Procs
<1>1. CASE UNCHANGED budget
  BY <1>1, Untouched
<1>2. ASSUME NEW late \in BOOLEAN, Identity!Disturb(late) PROVE BudgetOK'
  BY <1>2, BudgetEffect DEF Identity!Disturb
<1>3. CASE Identity!Edit
  <2>1. PICK late \in BOOLEAN : Identity!Counts(1, 0, late, FALSE)
    BY <1>3 DEF Identity!Edit
  <2>2. QED
    BY <2>1, BudgetEffect
<1>4. ASSUME NEW p \in Identity!Procs, Identity!BreakOff(p) PROVE BudgetOK'
  <2>1. PICK lost \in BOOLEAN : Identity!Counts(0, 1, FALSE, lost)
    <3> DEFINE first == proc[p].pc \in {"create", "grantComponent", "grantPlatform", "attach"}
    <3>1. Identity!Counts(0, 1, FALSE, first)
      BY <1>4 DEF Identity!BreakOff
    <3>2. first \in BOOLEAN
      OBVIOUS
    <3> HIDE DEF first
    <3>3. QED
      BY <3>1, <3>2
  <2>2. QED
    BY <2>1, BudgetEffect
<1>5. CASE Identity!Issue \/ Identity!Create \/ Identity!GrantComponent \/ Identity!GrantPlatform
           \/ Identity!Attach \/ \E p \in Identity!Procs : Identity!Install(p)
  BY <1>5, <1>1 DEF Identity!Issue, Identity!Create, Identity!GrantComponent, Identity!GrantPlatform,
    Identity!Attach, Identity!Install
<1>6. CASE Identity!Reuse \/ \E a \in Actors : Identity!ReadSecret(a) \/ Identity!ChangeSecret(a)
  <2>1. PICK late \in BOOLEAN : Identity!Disturb(late)
    <3>1. ASSUME NEW a \in Actors, Identity!ReadSecret(a) PROVE \E late \in BOOLEAN : Identity!Disturb(late)
      BY <3>1, Zenon DEF Identity!ReadSecret
    <3>2. CASE Identity!Reuse
      BY <3>2, Zenon DEF Identity!Reuse
    <3>3. ASSUME NEW a \in Actors, Identity!ChangeSecret(a) PROVE \E late \in BOOLEAN : Identity!Disturb(late)
      <4>1. Identity!Installing(Issuer) \in BOOLEAN
        BY DEF Identity!Installing
      <4>2. Identity!Disturb(Identity!Installing(Issuer))
        BY <3>3 DEF Identity!ChangeSecret
      <4>3. QED
        BY <4>1, <4>2
    <3>4. QED
      BY <1>6, <3>1, <3>2, <3>3
  <2>2. QED
    BY <1>2, <2>1
<1>7. CASE \E a \in Actors : Identity!StartRotation(a) \/ Identity!SwitchToken(a)
           \/ Identity!StartRevocation(a) \/ Identity!Revoke(a) \/ Identity!DisableSecret(a)
  BY <1>7, <1>1 DEF Identity!StartRotation, Identity!SwitchToken, Identity!StartRevocation, Identity!Revoke,
    Identity!DisableSecret
<1>8. QED
  BY <1>3, <1>4, <1>5, <1>6, <1>7 DEF Identity!Next

LEMMA TokenStep == ASSUME IdentityBounds, IdentityTyped, Identity!Next PROVE TokenOK'
<1> USE DEF IdentityBounds, IdentityTyped, Identity!Procs
<1>1. CASE UNCHANGED <<token, identity>>
  BY <1>1, Untouched
<1>2. CASE Identity!Issue
  BY <1>2 DEF Identity!Issue, TokenOK
<1>3. CASE Identity!Attach
  BY <1>3, Locals DEF Identity!Attach, TokenOK
<1>4. ASSUME NEW a \in Actors, Identity!StartRotation(a) \/ Identity!Revoke(a) PROVE TokenOK'
  BY <1>4 DEF Identity!StartRotation, Identity!Revoke, TokenOK
<1>5. ASSUME NEW a \in Actors, Identity!SwitchToken(a) PROVE TokenOK'
  BY <1>5, Locals DEF Identity!SwitchToken, TokenOK
<1>6. CASE Identity!Reuse \/ Identity!Create \/ Identity!GrantComponent \/ Identity!GrantPlatform
           \/ Identity!Edit \/ \E p \in Identity!Procs : Identity!Install(p) \/ Identity!BreakOff(p)
  BY <1>6, <1>1 DEF Identity!Reuse, Identity!Create, Identity!GrantComponent, Identity!GrantPlatform,
    Identity!Edit, Identity!Install, Identity!BreakOff
<1>7. CASE \E a \in Actors : Identity!ReadSecret(a) \/ Identity!ChangeSecret(a) \/ Identity!StartRevocation(a)
           \/ Identity!DisableSecret(a)
  BY <1>7, <1>1 DEF Identity!ReadSecret, Identity!ChangeSecret, Identity!StartRevocation, Identity!DisableSecret
<1>8. QED
  BY <1>2, <1>3, <1>4, <1>5, <1>6, <1>7 DEF Identity!Next

\* Every step writes what the types allow.
LEMMA TypedStep == ASSUME IdentityBounds, IdentityTyped, Identity!Next PROVE IdentityTyped'
BY SecretStep, ProcStep, BudgetStep, TokenStep DEF IdentityTyped

-----------------------------------------------------------------------------
(* One live token.                                                          *)

FirstIssue == {"create", "grantComponent", "grantPlatform", "attach"}
Secured == {"grantComponent", "grantPlatform", "attach"}
Rotating == {"read", "change", "install", "switch"}

\* The first token is issued once: the name of its secret is taken afterwards.
IssuerOK ==
  /\ secret.status = "ABSENT" => identity = 0
  /\ proc[Issuer].pc \in {"idle", "install"} \union FirstIssue
  /\ proc[Issuer].pc = "idle" => proc[Issuer].new = 0
  /\ proc[Issuer].pc \in FirstIssue => identity = 0 /\ proc[Issuer].new \in Identity!Tokens
  /\ proc[Issuer].pc \in Secured => secret.status # "ABSENT"
  /\ proc[Issuer].pc = "install" => identity # 0

\* A rotation is about a token that was the identity's, and brings one.
AdminsOK ==
  \A a \in Actors :
    /\ proc[a].pc \in {"idle", "revoke", "disable"} \union Rotating
    /\ proc[a].pc # "idle" => identity # 0
    /\ proc[a].pc \in Rotating => proc[a].old # 0 /\ proc[a].new \in Identity!Tokens

\* Before the secret exists only the first token is live, and afterwards only
\* the identity's.
LiveOK ==
  ~budget.orphan =>
    /\ identity # 0 => \A t \in Identity!Tokens : token[t] = "live" => t = identity
    /\ secret.status = "ABSENT" \/ proc[Issuer].pc \in Secured =>
         \A t \in Identity!Tokens : token[t] = "live" => t = proc[Issuer].new

TokenInv == IdentityTyped /\ IssuerOK /\ AdminsOK /\ LiveOK

\* The steps of the worker that issues the first token.
LEMMA IssuerKeeps ==
  ASSUME IdentityBounds, TokenInv, Identity!Reuse \/ Identity!Issue \/ Identity!Create
         \/ Identity!GrantComponent \/ Identity!GrantPlatform \/ Identity!Attach
  PROVE  (IssuerOK /\ AdminsOK /\ LiveOK)'
<1> USE DEF IdentityBounds, TokenInv, IdentityTyped, IssuerOK, AdminsOK, LiveOK, FirstIssue, Secured,
      Identity!Procs, Identity!At
<1>1. CASE Identity!Reuse
  <2>1. PICK late \in BOOLEAN : Identity!Disturb(late)
    BY <1>1, Zenon DEF Identity!Reuse
  <2>2. budget'.orphan <=> budget.orphan
    BY <2>1, DisturbEffect
  <2>3. Identity!Becomes(Issuer, "install", 0, secret.value, 0) /\ secret' = secret /\ token' = token
             /\ identity' = identity
    BY <1>1 DEF Identity!Reuse
  <2>4. identity # 0
    BY <1>1 DEF Identity!Reuse
  <2>5. QED
    BY <2>2, <2>3, <2>4, ProcEffect, Fields DEF IdentitySteps
<1>2. CASE Identity!Issue
  <2>1. PICK t \in Identity!Tokens : token' = [token EXCEPT ![t] = "live"]
             /\ Identity!Becomes(Issuer, "create", 0, t, 0)
    BY <1>2 DEF Identity!Issue, Identity!Fresh
  <2>2. UNCHANGED <<secret, identity, budget>> /\ proc[Issuer].pc = "idle" /\ identity = 0
    BY <1>2 DEF Identity!Issue
  <2>3. QED
    BY SMTT(30), <2>1, <2>2, ProcEffect DEF IdentitySteps, Identity!Tokens, TokenOK
<1>3. CASE Identity!Create
  <2>1. UNCHANGED <<token, identity, budget>> /\ proc[Issuer].pc = "create"
    BY <1>3 DEF Identity!Create
  <2>2. CASE Identity!CreateSecret(proc[Issuer].new) /\ Identity!Goto(Issuer, "grantComponent")
    BY <2>1, <2>2, SecretEffects, GotoEffect, Locals DEF IdentitySteps, Stored
  <2>3. CASE secret.status # "ABSENT" /\ Identity!Done(Issuer) /\ UNCHANGED secret
    BY <2>1, <2>3, DoneEffect
  <2>4. QED
    BY <1>3, <2>2, <2>3 DEF Identity!Create
<1>4. CASE Identity!GrantComponent \/ Identity!GrantPlatform
  <2>1. UNCHANGED <<secret, token, identity, budget>> /\ proc[Issuer].pc \in {"grantComponent", "grantPlatform"}
    BY <1>4 DEF Identity!GrantComponent, Identity!GrantPlatform
  <2>2. Identity!Goto(Issuer, "grantPlatform") \/ Identity!Goto(Issuer, "attach") \/ Identity!Done(Issuer)
    BY <1>4 DEF Identity!GrantComponent, Identity!GrantPlatform
  <2>3. QED
    BY <2>1, <2>2, GotoEffect, DoneEffect DEF IdentitySteps
<1>5. CASE Identity!Attach
  <2>1. UNCHANGED <<secret, token, budget>> /\ proc[Issuer].pc = "attach" /\ identity' = proc[Issuer].new
             /\ Identity!Goto(Issuer, "install")
    BY <1>5 DEF Identity!Attach
  <2>2. QED
    BY <2>1, GotoEffect DEF IdentitySteps, Identity!Tokens
<1>6. QED
  BY <1>1, <1>2, <1>3, <1>4, <1>5

\* The steps of a request of the OWNER; only the switch makes a token live, and
\* the token it was started for is revoked with it.
LEMMA AdminKeeps ==
  ASSUME IdentityBounds, TokenInv, NEW a \in Actors,
         \/ Identity!StartRotation(a) \/ Identity!ReadSecret(a) \/ Identity!ChangeSecret(a)
              \/ Identity!SwitchToken(a)
         \/ Identity!StartRevocation(a) \/ Identity!Revoke(a) \/ Identity!DisableSecret(a)
  PROVE  (IssuerOK /\ AdminsOK /\ LiveOK)'
<1> USE DEF IdentityBounds, TokenInv, IdentityTyped, IssuerOK, AdminsOK, LiveOK, FirstIssue, Secured,
      Rotating, Identity!Procs, Identity!At
<1>1. CASE Identity!StartRotation(a)
  <2>1. PICK t \in Identity!Tokens : token' = [token EXCEPT ![t] = "drawn"]
             /\ Identity!Becomes(a, "read", identity, t, 0)
    BY <1>1 DEF Identity!StartRotation, Identity!Fresh
  <2>2. UNCHANGED <<secret, identity, budget>> /\ identity # 0
    BY <1>1 DEF Identity!StartRotation
  <2>3. /\ proc'[a].pc = "read" /\ proc'[a].old = identity /\ proc'[a].new = t
        /\ \A q \in Identity!Procs : q # a => proc'[q] = proc[q]
    BY <2>1, ProcEffect DEF IdentitySteps, Identity!Tokens, TokenOK
  <2>4. \A u \in Identity!Tokens : token'[u] = "live" => token[u] = "live"
    BY <2>1 DEF TokenOK
  <2>5. QED
    BY <2>2, <2>3, <2>4
<1>2. CASE Identity!ReadSecret(a)
  <2>1. PICK late \in BOOLEAN : Identity!Disturb(late)
    BY <1>2, Zenon DEF Identity!ReadSecret
  <2>2. budget'.orphan <=> budget.orphan
    BY <2>1, DisturbEffect
  <2>3. token' = token /\ identity' = identity /\ (secret'.status = "ABSENT" <=> secret.status = "ABSENT")
             /\ secret'.lock \in Nat
    BY <1>2, SecretEffects, Fields DEF Identity!ReadSecret, Stored
  <2>4. Identity!Done(a) \/ Identity!Becomes(a, "change", proc[a].old, proc[a].new, secret'.lock)
    BY <1>2 DEF Identity!ReadSecret
  <2>5. proc[a].pc = "read"
    BY <1>2 DEF Identity!ReadSecret
  <2>6. /\ \/ proc'[a].pc = "idle"
           \/ proc'[a].pc = "change" /\ proc'[a].old = proc[a].old /\ proc'[a].new = proc[a].new
        /\ \A q \in Identity!Procs : q # a => proc'[q] = proc[q]
    BY SMTT(30), <2>3, <2>4, ProcEffect, DoneEffect, Locals DEF IdentitySteps
  <2>7. QED
    BY <2>2, <2>3, <2>5, <2>6
<1>3. CASE Identity!ChangeSecret(a)
  <2>1. PICK late \in BOOLEAN : Identity!Disturb(late)
    <3>1. Identity!Installing(Issuer) \in BOOLEAN
      BY DEF Identity!Installing
    <3>2. Identity!Disturb(Identity!Installing(Issuer))
      BY <1>3 DEF Identity!ChangeSecret
    <3>3. QED
      BY <3>1, <3>2
  <2>2. budget'.orphan <=> budget.orphan
    BY <2>1, DisturbEffect
  <2>3. token' = token /\ identity' = identity /\ (secret'.status = "ABSENT" <=> secret.status = "ABSENT")
    BY <1>3, SecretEffects, Locals DEF Identity!ChangeSecret, Stored
  <2>4. (Identity!Done(a) \/ Identity!Goto(a, "install")) /\ proc[a].pc = "change"
    BY <1>3 DEF Identity!ChangeSecret
  <2>5. QED
    BY <2>2, <2>3, <2>4, GotoEffect, DoneEffect DEF IdentitySteps
<1>4. CASE Identity!SwitchToken(a)
  <2>1. UNCHANGED <<secret, budget>> /\ Identity!Done(a) /\ proc[a].pc = "switch"
    BY <1>4 DEF Identity!SwitchToken
  <2>2. CASE UNCHANGED <<token, identity>>
    BY <2>1, <2>2, DoneEffect
  <2>3. CASE /\ token' = [token EXCEPT ![proc[a].old] = "revoked", ![proc[a].new] = "live"]
             /\ identity' = proc[a].new /\ identity = proc[a].old
    <3>1. identity # 0 /\ identity' # 0 /\ identity' \in Identity!Tokens
      BY <2>1, <2>3 DEF Identity!Tokens
    <3>2. ASSUME ~budget.orphan, NEW t \in Identity!Tokens, token'[t] = "live" PROVE t = identity'
      BY <2>1, <2>3, <3>1, <3>2 DEF TokenOK
    <3>3. QED
      BY <2>1, <3>1, <3>2, DoneEffect
  <2>4. QED
    BY <1>4, <2>2, <2>3 DEF Identity!SwitchToken, Identity!StillCurrent
<1>5. CASE Identity!StartRevocation(a)
  <2>1. UNCHANGED <<secret, token, identity, budget>> /\ Identity!Becomes(a, "revoke", identity, 0, 0)
             /\ identity # 0
    BY <1>5 DEF Identity!StartRevocation
  <2>2. /\ proc'[a].pc = "revoke"
        /\ \A q \in Identity!Procs : q # a => proc'[q] = proc[q]
    BY <2>1, ProcEffect DEF IdentitySteps, TokenOK
  <2>3. QED
    BY <2>1, <2>2
<1>6. CASE Identity!Revoke(a)
  <2>1. UNCHANGED <<secret, identity, budget>> /\ (Identity!Goto(a, "disable") \/ Identity!Done(a))
             /\ proc[a].pc = "revoke"
    BY <1>6 DEF Identity!Revoke
  <2>2. \A t \in Identity!Tokens : token'[t] = "live" => token[t] = "live"
    BY <1>6 DEF Identity!Revoke, TokenOK
  <2>3. QED
    BY <2>1, <2>2, GotoEffect, DoneEffect DEF IdentitySteps
<1>7. CASE Identity!DisableSecret(a)
  <2>1. UNCHANGED <<token, identity, budget>> /\ Identity!Done(a)
    BY <1>7 DEF Identity!DisableSecret
  <2>2. secret'.status = "ABSENT" <=> secret.status = "ABSENT"
    BY <1>7, SecretEffects DEF Identity!DisableSecret, Stored
  <2>3. QED
    BY <2>1, <2>2, DoneEffect
<1>8. QED
  BY <1>1, <1>2, <1>3, <1>4, <1>5, <1>6, <1>7

\* Installing and breaking off, and what the OWNER does to the secret itself.
LEMMA OthersKeep ==
  ASSUME IdentityBounds, TokenInv, Identity!Edit \/ \E p \in Identity!Procs : Identity!Install(p)
         \/ Identity!BreakOff(p)
  PROVE  (IssuerOK /\ AdminsOK /\ LiveOK)'
<1> USE DEF IdentityBounds, TokenInv, IdentityTyped, IssuerOK, AdminsOK, LiveOK, FirstIssue, Secured,
      Rotating, Identity!Procs, Identity!At
<1>1. CASE Identity!Edit
  <2>1. UNCHANGED <<token, identity, proc>>
    BY <1>1 DEF Identity!Edit
  <2>2. secret'.status = "ABSENT" <=> secret.status = "ABSENT"
    BY <1>1, SecretEffects DEF Identity!Edit, Stored, Identity!Exists
  <2>4. budget'.orphan <=> budget.orphan
    BY <1>1 DEF Identity!Edit, Identity!Counts
  <2>5. QED
    BY <2>1, <2>2, <2>4
<1>2. ASSUME NEW p \in Identity!Procs, Identity!Install(p) PROVE (IssuerOK /\ AdminsOK /\ LiveOK)'
  <2>1. UNCHANGED <<secret, token, identity, budget>> /\ proc[p].pc = "install"
    BY <1>2 DEF Identity!Install
  <2>2. IF p = Issuer THEN Identity!Done(p) ELSE Identity!Goto(p, "switch")
    BY <1>2 DEF Identity!Install
  <2>3. QED
    BY <2>1, <2>2, GotoEffect, DoneEffect DEF IdentitySteps
<1>3. ASSUME NEW p \in Identity!Procs, Identity!BreakOff(p) PROVE (IssuerOK /\ AdminsOK /\ LiveOK)'
  <2>1. UNCHANGED <<secret, token, identity>> /\ Identity!Done(p)
    BY <1>3 DEF Identity!BreakOff
  <2>2. /\ budget.orphan => budget'.orphan
        /\ proc[p].pc \in FirstIssue => budget'.orphan
    BY <1>3 DEF Identity!BreakOff, Identity!Counts
  <2>3. QED
    BY <2>1, <2>2, DoneEffect
<1>4. QED
  BY <1>1, <1>2, <1>3

\* Rotations, revocations and requests that break off keep the invariant.
THEOREM IdentityInvariance == Spec => [](part = "identity" => TokenInv)
<1> IdentityBounds
  BY PlatformAssumption DEF IdentityBounds
<1>1. Identity!Init => TokenInv
  <2>1. Identity!Init => SecretOK /\ TokenOK /\ ProcOK /\ BudgetOK
    BY DEF IdentityBounds, Identity!Init, SecretOK, Identity!SecretRecord, TokenOK, Identity!Tokens, ProcOK,
      Identity!ProcState, BudgetOK
  <2>2. Identity!Init => IssuerOK /\ AdminsOK /\ LiveOK
    BY DEF IdentityBounds, Identity!Init, IssuerOK, AdminsOK, LiveOK, Identity!Tokens, Identity!Procs,
      FirstIssue, Secured, Rotating
  <2>3. QED
    BY <2>1, <2>2 DEF TokenInv, IdentityTyped
<1>2. TokenInv /\ [Identity!Next]_identityVars => TokenInv'
  <2>1. CASE TokenInv /\ Identity!Next
    <3>1. IdentityTyped'
      BY <2>1, TypedStep DEF TokenInv
    <3>2. (IssuerOK /\ AdminsOK /\ LiveOK)'
      BY <2>1, IssuerKeeps, AdminKeeps, OthersKeep DEF Identity!Next
    <3>3. QED
      BY <3>1, <3>2 DEF TokenInv
  <2>2. CASE TokenInv /\ UNCHANGED identityVars
    <3>1. IdentityTyped'
      BY <2>2, Untouched DEF TokenInv, IdentityTyped, identityVars
    <3>2. (IssuerOK /\ AdminsOK /\ LiveOK)'
      BY <2>2 DEF TokenInv, IssuerOK, AdminsOK, LiveOK, identityVars
    <3>3. QED
      BY <3>1, <3>2 DEF TokenInv
  <2>3. QED
    BY <2>1, <2>2
<1>3. Init => (part = "identity" => TokenInv)
  BY <1>1, Starts
<1>4. (part = "identity" => TokenInv) /\ [Next]_all => (part = "identity" => TokenInv)'
  BY <1>2, Moves
<1>5. QED
  BY <1>3, <1>4, PTL DEF Spec

\* At most one token of a component is live, but for a first issue that broke
\* off (rotateGeneratedRuntimeAccessToken, revokeGeneratedRuntimeAccessToken).
THEOREM OneLiveTokenHolds == Spec => []OneLiveToken
<1>1. (part = "identity" => TokenInv) => OneLiveToken
  BY DEF TokenInv, LiveOK, OneLiveToken, Identity!OneLiveToken
<1>2. QED
  BY <1>1, IdentityInvariance, PTL

-----------------------------------------------------------------------------
(* The credential that works.                                               *)

Calm == ~budget.disturbed /\ budget.crashes = 0
Switching == {"install", "switch"}
NobodyInstalls == \A b \in Actors : proc[b].pc \notin Switching

\* While nothing was disturbed and nothing broke off: the lock_version that a
\* rotation read is still the secret's only if nobody has changed it since, so
\* that one of the rotations that read it together goes on; the secret has the
\* value that is being installed, and otherwise the identity's.
RotationsOK ==
  \A a \in Actors :
    /\ proc[a].pc = "change" =>
         /\ proc[a].lock <= secret.lock
         /\ proc[a].lock = secret.lock => proc[a].old = identity /\ NobodyInstalls
    /\ proc[a].pc \in Switching =>
         /\ \A b \in Actors : proc[b].pc \in Switching => b = a
         /\ secret.value = proc[a].new /\ proc[a].old = identity
         /\ proc[Issuer].pc # "install"
    /\ proc[a].pc = "switch" => installed = proc[a].new
ValueOK ==
  /\ proc[Issuer].pc \in Secured => secret.value = proc[Issuer].new
  /\ identity # 0 /\ NobodyInstalls =>
       /\ secret.value = identity
       /\ IF proc[Issuer].pc = "install" THEN proc[Issuer].new = identity ELSE installed = identity

CredentialInv == TokenInv /\ (Calm => RotationsOK /\ ValueOK)

\* What is calm was calm.
LEMMA CalmBefore ==
  ASSUME BudgetOK, NEW late \in BOOLEAN, Identity!Disturb(late), Calm' PROVE Calm /\ ~late
BY DisturbEffect DEF Calm

\* The worker: it installs what the secret holds.
LEMMA IssuerInstalls ==
  ASSUME IdentityBounds, CredentialInv, Identity!Reuse \/ Identity!Issue \/ Identity!Create
         \/ Identity!GrantComponent \/ Identity!GrantPlatform \/ Identity!Attach, Calm'
  PROVE  (RotationsOK /\ ValueOK)'
<1> USE DEF IdentityBounds, CredentialInv, TokenInv, IdentityTyped, IssuerOK, AdminsOK, RotationsOK, ValueOK,
      NobodyInstalls,
            FirstIssue, Secured, Rotating, Switching, Identity!Procs, Identity!At
<1>1. CASE Identity!Reuse
  <2>2. Calm /\ NobodyInstalls
    <3> DEFINE late == \E p \in Actors : Identity!Installing(p)
    <3>1. Identity!Disturb(late)
      BY <1>1 DEF Identity!Reuse
    <3>2. late \in BOOLEAN
      OBVIOUS
    <3> HIDE DEF late
    <3>3. Calm /\ ~late
      BY <3>1, <3>2, CalmBefore
    <3>4. QED
      BY <3>3 DEF late, Identity!Installing
  <2>3. Identity!Becomes(Issuer, "install", 0, secret.value, 0) /\ UNCHANGED <<secret, identity, installed>>
             /\ identity # 0
    BY <1>1 DEF Identity!Reuse
  <2>4. /\ proc'[Issuer].pc = "install" /\ proc'[Issuer].new = secret.value
        /\ \A a \in Actors : proc'[a] = proc[a]
    BY <2>3, ProcEffect, Fields DEF IdentitySteps
  <2>5. QED
    BY <2>2, <2>3, <2>4
<1>2. CASE Identity!Issue
  <2>1. PICK t \in Identity!Tokens : Identity!Becomes(Issuer, "create", 0, t, 0)
    BY <1>2 DEF Identity!Issue, Identity!Fresh
  <2>2. UNCHANGED <<secret, identity, installed, budget>> /\ identity = 0
    BY <1>2 DEF Identity!Issue
  <2>3. proc'[Issuer].pc = "create" /\ \A a \in Actors : proc'[a] = proc[a]
    BY <2>1, ProcEffect DEF IdentitySteps, Identity!Tokens
  <2>4. QED
    BY <2>2, <2>3
<1>3. CASE Identity!Create \/ Identity!GrantComponent \/ Identity!GrantPlatform
  <2>1. UNCHANGED <<identity, installed, budget>> /\ identity = 0
             /\ proc[Issuer].pc \in {"create", "grantComponent", "grantPlatform"}
    BY <1>3 DEF Identity!Create, Identity!GrantComponent, Identity!GrantPlatform
  <2>2. (Identity!Done(Issuer) \/ \E to \in IdentitySteps : Identity!Goto(Issuer, to))
             /\ \A a \in Actors : proc[a].pc = "idle"
    BY <1>3, <2>1 DEF Identity!Create, Identity!GrantComponent, Identity!GrantPlatform, IdentitySteps
  <2>3. proc'[Issuer].pc = "idle" \/ proc'[Issuer].new = proc[Issuer].new
    BY <2>2, GotoEffect, DoneEffect
  <2>4. \A a \in Actors : proc'[a] = proc[a]
    BY <2>2, GotoEffect, DoneEffect
  <2>5. proc'[Issuer].pc = "idle" \/ secret'.value = proc[Issuer].new
    <3>1. CASE Identity!Create
      BY <3>1, SecretEffects, Locals, DoneEffect DEF Identity!Create, Stored
    <3>2. CASE Identity!GrantComponent \/ Identity!GrantPlatform
      BY <3>2, <2>1 DEF Identity!GrantComponent, Identity!GrantPlatform, Calm
    <3>3. QED
      BY <1>3, <3>1, <3>2
  <2>6. QED
    BY <2>1, <2>2, <2>3, <2>4, <2>5
<1>4. CASE Identity!Attach
  <2>1. /\ UNCHANGED <<secret, installed, budget>> /\ proc[Issuer].pc = "attach"
        /\ identity' = proc[Issuer].new /\ Identity!Goto(Issuer, "install")
    BY <1>4 DEF Identity!Attach
  <2>2. /\ proc'[Issuer].pc = "install" /\ proc'[Issuer].new = proc[Issuer].new
        /\ \A a \in Actors : proc'[a] = proc[a] /\ proc[a].pc = "idle"
    BY <2>1, GotoEffect DEF IdentitySteps
  <2>3. QED
    BY <2>1, <2>2 DEF Calm
<1>5. QED
  BY <1>1, <1>2, <1>3, <1>4

\* A request of the OWNER: only the rotation whose lock_version still holds goes on.
LEMMA AdminInstalls ==
  ASSUME IdentityBounds, CredentialInv, Calm', NEW a \in Actors,
         \/ Identity!StartRotation(a) \/ Identity!ReadSecret(a) \/ Identity!ChangeSecret(a)
              \/ Identity!SwitchToken(a)
         \/ Identity!StartRevocation(a) \/ Identity!Revoke(a) \/ Identity!DisableSecret(a)
  PROVE  (RotationsOK /\ ValueOK)'
<1> USE DEF IdentityBounds, CredentialInv, TokenInv, IdentityTyped, IssuerOK, AdminsOK, RotationsOK, ValueOK,
      NobodyInstalls,
            FirstIssue, Secured, Rotating, Switching, Identity!Procs, Identity!At
<1>1. CASE Identity!StartRotation(a)
  <2>1. PICK t \in Identity!Tokens : Identity!Becomes(a, "read", identity, t, 0)
    BY <1>1 DEF Identity!StartRotation, Identity!Fresh
  <2>2. UNCHANGED <<secret, identity, installed, budget>> /\ proc[a].pc = "idle"
    BY <1>1 DEF Identity!StartRotation
  <2>3. proc'[a].pc = "read" /\ \A q \in Identity!Procs : q # a => proc'[q] = proc[q]
    BY <2>1, ProcEffect DEF IdentitySteps, Identity!Tokens, TokenOK
  <2>4. QED
    BY <2>2, <2>3 DEF Calm
<1>2. CASE Identity!ReadSecret(a)
  <2>1. Calm /\ identity = proc[a].old /\ \A p \in Identity!Procs : proc[p].pc \notin Switching
    <3> DEFINE late == identity # proc[a].old \/ \E p \in Identity!Procs : Identity!Installing(p)
    <3>1. Identity!Disturb(late)
      BY <1>2 DEF Identity!ReadSecret
    <3>2. late \in BOOLEAN
      OBVIOUS
    <3> HIDE DEF late
    <3>3. Calm /\ ~late
      BY <3>1, <3>2, CalmBefore
    <3>4. QED
      BY <3>3 DEF late, Identity!Installing
  <2>2. UNCHANGED <<identity, installed>> /\ secret'.value = secret.value /\ secret.lock \in Nat
             /\ secret'.lock \in Nat
    BY <1>2, SecretEffects, Fields DEF Identity!ReadSecret, Stored
  <2>3. secret'.lock = secret.lock \/ secret'.lock = secret.lock + 1
    BY <1>2, SecretEffects DEF Identity!ReadSecret, Stored
  <2>4. Identity!Done(a) \/ Identity!Becomes(a, "change", proc[a].old, proc[a].new, secret'.lock)
    BY <1>2 DEF Identity!ReadSecret
  <2>5. /\ \/ proc'[a].pc = "idle"
           \/ proc'[a].pc = "change" /\ proc'[a].old = proc[a].old /\ proc'[a].lock = secret'.lock
        /\ \A q \in Identity!Procs : q # a => proc'[q] = proc[q]
    BY <2>2, <2>4, ProcEffect, DoneEffect, Locals DEF IdentitySteps
  <2>6. ASSUME NEW b \in Actors, proc[b].pc = "change", b # a
        PROVE  proc[b].lock <= secret'.lock /\ (proc[b].lock = secret'.lock => proc[b].old = identity)
    <3>1. proc[b].lock \in Nat /\ proc[b].lock <= secret.lock
      BY <2>1, <2>6, Locals
    <3>2. QED
      BY <2>1, <2>2, <2>3, <2>6, <3>1
  <2>7. QED
    BY <2>1, <2>2, <2>5, <2>6
<1>3. CASE Identity!ChangeSecret(a)
  <2>1. Calm /\ proc[Issuer].pc \notin Switching /\ UNCHANGED <<identity, installed>> /\ proc[a].pc = "change"
    <3>1. Identity!Disturb(Identity!Installing(Issuer)) /\ UNCHANGED <<identity, installed>>
               /\ proc[a].pc = "change"
      BY <1>3 DEF Identity!ChangeSecret
    <3>2. Identity!Installing(Issuer) \in BOOLEAN
      BY DEF Identity!Installing
    <3>3. Calm /\ ~Identity!Installing(Issuer)
      BY <3>1, <3>2, CalmBefore
    <3>4. QED
      BY <3>1, <3>3 DEF Identity!Installing
  <2>2. CASE Identity!RotateSecret(proc[a].new, proc[a].lock) /\ Identity!Goto(a, "install")
    <3>1. secret.lock = proc[a].lock /\ secret'.value = proc[a].new /\ secret'.lock = secret.lock + 1
               /\ secret.lock \in Nat
      BY <2>2, SecretEffects, Locals, Fields DEF Stored
    <3>2. /\ proc'[a].pc = "install" /\ proc'[a].old = proc[a].old /\ proc'[a].new = proc[a].new
          /\ \A q \in Identity!Procs : q # a => proc'[q] = proc[q]
      BY <2>2, GotoEffect DEF IdentitySteps
    <3>3. proc[a].old = identity /\ NobodyInstalls
      BY <2>1, <3>1
    <3>4. ASSUME NEW b \in Actors, proc[b].pc = "change"
          PROVE  proc[b].lock <= secret'.lock /\ proc[b].lock # secret'.lock
      BY <2>1, <3>1, <3>4, Locals
    <3>5. QED
      BY <2>1, <3>1, <3>2, <3>3, <3>4
  <2>3. CASE Identity!Done(a) /\ UNCHANGED secret
    <3>1. proc'[a].pc = "idle" /\ \A q \in Identity!Procs : q # a => proc'[q] = proc[q]
      BY <2>3, DoneEffect
    <3>2. QED
      BY <2>1, <2>3, <3>1
  <2>4. QED
    BY <1>3, <2>2, <2>3 DEF Identity!ChangeSecret
<1>4. CASE Identity!SwitchToken(a)
  <2>1. UNCHANGED <<secret, installed, budget>> /\ proc[a].pc = "switch" /\ Identity!Done(a)
    BY <1>4 DEF Identity!SwitchToken
  <2>2. Calm /\ proc[a].old = identity
    BY <2>1 DEF Calm
  <2>3. identity' = proc[a].new
    BY <1>4, <2>2 DEF Identity!SwitchToken, Identity!StillCurrent
  <2>4. proc'[a].pc = "idle" /\ \A q \in Identity!Procs : q # a => proc'[q] = proc[q]
    BY <2>1, DoneEffect
  <2>5. secret.value = proc[a].new /\ installed = proc[a].new /\ proc[Issuer].pc = "idle"
    BY <2>1, <2>2
  <2>6. \A b \in Actors : b # a => proc[b].pc \notin Switching
             /\ (proc[b].pc = "change" => proc[b].lock # secret.lock)
    BY <2>1, <2>2
  <2>7. QED
    BY <2>1, <2>2, <2>3, <2>4, <2>5, <2>6
<1>5. CASE Identity!StartRevocation(a) \/ Identity!Revoke(a)
  <2>1. /\ UNCHANGED <<secret, identity, installed, budget>> /\ proc[a].pc \in {"idle", "revoke"}
        /\ Identity!Becomes(a, "revoke", identity, 0, 0) \/ Identity!Goto(a, "disable") \/ Identity!Done(a)
    BY <1>5 DEF Identity!StartRevocation, Identity!Revoke
  <2>2. proc'[a].pc \in {"idle", "revoke", "disable"} /\ \A q \in Identity!Procs : q # a => proc'[q] = proc[q]
    BY <2>1, ProcEffect, GotoEffect, DoneEffect DEF IdentitySteps, TokenOK
  <2>3. QED
    BY <2>1, <2>2 DEF Calm
<1>6. CASE Identity!DisableSecret(a)
  <2>1. UNCHANGED <<identity, installed, budget>> /\ proc[a].pc = "disable" /\ Identity!Done(a)
    BY <1>6 DEF Identity!DisableSecret
  <2>2. secret'.value = secret.value /\ (secret'.lock = secret.lock \/ secret'.lock = secret.lock + 1)
             /\ secret.lock \in Nat
    BY <1>6, SecretEffects, Fields DEF Identity!DisableSecret, Stored
  <2>3. proc'[a].pc = "idle" /\ \A q \in Identity!Procs : q # a => proc'[q] = proc[q]
    BY <2>1, DoneEffect
  <2>4. ASSUME NEW b \in Actors, proc[b].pc = "change", Calm
        PROVE  proc[b].lock <= secret'.lock /\ (proc[b].lock = secret'.lock => proc[b].lock = secret.lock)
    BY <2>2, <2>4, Locals
  <2>5. QED
    BY <2>1, <2>2, <2>3, <2>4 DEF Calm
<1>7. QED
  BY <1>1, <1>2, <1>3, <1>4, <1>5, <1>6

\* Installing, and what the OWNER does to the secret itself.
LEMMA OthersInstall ==
  ASSUME IdentityBounds, CredentialInv, Calm', Identity!Edit \/ \E p \in Identity!Procs : Identity!Install(p)
         \/ Identity!BreakOff(p)
  PROVE  (RotationsOK /\ ValueOK)'
<1> USE DEF IdentityBounds, CredentialInv, TokenInv, IdentityTyped, IssuerOK, AdminsOK, RotationsOK, ValueOK,
      NobodyInstalls,
            FirstIssue, Secured, Rotating, Switching, Identity!Procs, Identity!At
<1>1. CASE Identity!Edit
  <2>1. UNCHANGED <<identity, installed, proc>>
    BY <1>1 DEF Identity!Edit
  <2>2. Calm /\ secret'.value = secret.value
    <3>1. Identity!Counts(1, 0, secret'.value # secret.value, FALSE)
      BY <1>1 DEF Identity!Edit
    <3>2. budget'.crashes = budget.crashes /\ budget'.disturbed = (budget.disturbed \/ secret'.value # secret.value)
      BY <3>1 DEF Identity!Counts, BudgetOK
    <3>3. ~budget.disturbed /\ secret'.value = secret.value
      BY <3>2 DEF Calm, BudgetOK
    <3>4. QED
      BY <3>2, <3>3 DEF Calm
  <2>3. (secret'.lock = secret.lock \/ secret'.lock = secret.lock + 1) /\ secret.lock \in Nat
    BY <1>1, SecretEffects, Fields DEF Identity!Edit, Stored
  <2>4. ASSUME NEW b \in Actors, proc[b].pc = "change"
        PROVE  proc[b].lock <= secret'.lock /\ (proc[b].lock = secret'.lock => proc[b].lock = secret.lock)
    BY <2>2, <2>3, <2>4, Locals
  <2>5. QED
    BY <2>1, <2>2, <2>4
<1>2. CASE Identity!Install(Issuer)
  <2>1. UNCHANGED <<secret, identity, budget>> /\ proc[Issuer].pc = "install" /\ installed' = proc[Issuer].new
             /\ Identity!Done(Issuer)
    BY <1>2 DEF Identity!Install
  <2>2. proc'[Issuer].pc = "idle" /\ \A a \in Actors : proc'[a] = proc[a] /\ proc[a].pc \notin Switching
    BY <2>1, DoneEffect DEF Calm
  <2>3. QED
    BY <2>1, <2>2 DEF Calm
<1>3. ASSUME NEW a \in Actors, Identity!Install(a) PROVE (RotationsOK /\ ValueOK)'
  <2>1. UNCHANGED <<secret, identity, budget>> /\ proc[a].pc = "install" /\ installed' = proc[a].new
             /\ Identity!Goto(a, "switch")
    BY <1>3 DEF Identity!Install
  <2>2. /\ proc'[a].pc = "switch" /\ proc'[a].old = proc[a].old /\ proc'[a].new = proc[a].new
        /\ \A q \in Identity!Procs : q # a => proc'[q] = proc[q]
    BY <2>1, GotoEffect DEF IdentitySteps
  <2>3. QED
    BY <2>1, <2>2 DEF Calm
<1>4. ASSUME NEW p \in Identity!Procs, Identity!BreakOff(p) PROVE FALSE
  BY <1>4 DEF Identity!BreakOff, Identity!Counts, Calm, BudgetOK
<1>5. QED
  BY <1>1, <1>2, <1>3, <1>4

\* When nobody is at work, nothing broke off and no value was chosen while
\* another was being installed, the service is installed with the value that
\* the secret holds and that authenticates it, for any number of requests.
THEOREM CredentialWorksHolds == Spec => []CredentialWorks
<1> IdentityBounds
  BY PlatformAssumption DEF IdentityBounds
<1>1. Identity!Init /\ TokenInv => CredentialInv
  BY DEF Identity!Init, CredentialInv, RotationsOK, ValueOK, Secured, Switching, Identity!Procs, IdentityBounds
<1>2. CredentialInv /\ TokenInv' /\ [Identity!Next]_identityVars => CredentialInv'
  <2>1. SUFFICES ASSUME CredentialInv, TokenInv', [Identity!Next]_identityVars, Calm'
             PROVE (RotationsOK /\ ValueOK)'
    BY DEF CredentialInv
  <2>2. CASE Identity!Next
    BY <2>1, <2>2, IssuerInstalls, AdminInstalls, OthersInstall DEF Identity!Next
  <2>3. CASE UNCHANGED identityVars
    BY <2>1, <2>3 DEF CredentialInv, Calm, RotationsOK, ValueOK, NobodyInstalls, identityVars
  <2>4. QED
    BY <2>1, <2>2, <2>3
<1>3. CredentialInv => Identity!CredentialWorks
  BY DEF CredentialInv, TokenInv, Calm, ValueOK, NobodyInstalls, Switching, Identity!CredentialWorks,
    Identity!Quiet, Identity!At, Identity!Procs, IdentityBounds
<1>4. Init /\ (part = "identity" => TokenInv) => (part = "identity" => CredentialInv)
  BY <1>1, Starts
<1>5. /\ part = "identity" => CredentialInv
      /\ (part = "identity" => TokenInv)'
      /\ [Next]_all
      => (part = "identity" => CredentialInv)'
  BY <1>2, Moves
<1>6. (part = "identity" => CredentialInv) => CredentialWorks
  BY <1>3 DEF CredentialWorks
<1>7. QED
  BY <1>4, <1>5, <1>6, IdentityInvariance, PTL DEF Spec

-----------------------------------------------------------------------------
(***************************************************************************)
(* ComponentCalls: the leases of a tool.                                   *)
(*                                                                         *)
(* A call that has counted the leases inserts its own in a later statement *)
(* of its transaction.  In between nobody else can be in that place, which *)
(* the advisory lock sees to, and leases only end: so there is still room. *)
(***************************************************************************)

\* There are finitely many requests, a tool has a concurrency, and the caller has a token.
CallsBounds == IsFiniteSet(Actors) /\ MaxConcurrency \in Nat /\ Bearers # {}

CallSteps == {"new", "deciding", "allowed", "inserting", "dispatched", "verified", "webhook", "done"}
Told == {"nothing", "refused", "success", "failed"}

CallsTyped ==
  /\ call \in [Actors -> [pc : CallSteps, token : Bearers, overdue : SUBSET Actors, told : Told]]
  /\ slot \in [Actors -> [state : {"none", "open", "success", "failed"}, due : BOOLEAN]]

Inserting == {c \in Actors : call[c].pc = "inserting"}

CapacityInv ==
  /\ CallsTyped
  /\ CallGateway!CapacityHolds
  /\ \A c, d \in Inserting : c = d
  /\ Inserting # {} => Cardinality(CallGateway!Running) < MaxConcurrency

-----------------------------------------------------------------------------
\* Leases that end, or fall due, leave room.
LEMMA SameSize == ASSUME NEW S PROVE CallGateway!Cardinality(S) = Cardinality(S)
BY DEF CallGateway!Cardinality, Cardinality

LEMMA Fewer ==
  ASSUME CallsBounds, CapacityInv, CallGateway!Running' \subseteq CallGateway!Running
  PROVE  Cardinality(CallGateway!Running') \in Nat /\ Cardinality(CallGateway!Running) \in Nat
         /\ Cardinality(CallGateway!Running') <= Cardinality(CallGateway!Running)
<1>1. IsFiniteSet(CallGateway!Running)
  BY FS_Subset DEF CallsBounds, CallGateway!Running
<1>2. QED
  BY <1>1, FS_Subset, FS_CardinalityType

\* One more lease takes one place.
LEMMA OneMore ==
  ASSUME CallsBounds, NEW c \in Actors, CallGateway!Running' \subseteq CallGateway!Running \union {c}
  PROVE  Cardinality(CallGateway!Running) \in Nat /\ Cardinality(CallGateway!Running') \in Nat
         /\ Cardinality(CallGateway!Running') <= Cardinality(CallGateway!Running) + 1
<1>1. IsFiniteSet(CallGateway!Running)
  BY FS_Subset DEF CallsBounds, CallGateway!Running
<1>2. Cardinality(CallGateway!Running) \in Nat
  BY <1>1, FS_CardinalityType
<1>3. CASE c \in CallGateway!Running
  <2>1. CallGateway!Running' \subseteq CallGateway!Running
    BY <1>3
  <2>2. QED
    BY <1>1, <1>2, <2>1, FS_Subset, FS_CardinalityType
<1>4. CASE c \notin CallGateway!Running
  <2>1. /\ IsFiniteSet(CallGateway!Running \union {c})
        /\ Cardinality(CallGateway!Running \union {c}) = IF c \in CallGateway!Running THEN Cardinality(CallGateway!Running) ELSE Cardinality(CallGateway!Running) + 1
    BY <1>1, FS_AddElement
  <2>2. IsFiniteSet(CallGateway!Running') /\ Cardinality(CallGateway!Running') <= Cardinality(CallGateway!Running \union {c})
    BY <2>1, FS_Subset
  <2>3. Cardinality(CallGateway!Running') \in Nat
    BY <2>2, FS_CardinalityType
  <2>4. Cardinality(CallGateway!Running \union {c}) = Cardinality(CallGateway!Running) + 1
    BY <1>4, <2>1
  <2>5. Cardinality(CallGateway!Running') <= Cardinality(CallGateway!Running) + 1
    BY <2>2, <2>4
  <2>6. QED
    BY <1>2, <2>3, <2>5
<1>5. QED
  BY <1>3, <1>4

\* A step after which fewer leases run, and nobody new inserts.
LEMMA Shrinks ==
  ASSUME CallsBounds, CapacityInv, CallsTyped', CallGateway!Running' \subseteq CallGateway!Running,
         Inserting' \subseteq Inserting
  PROVE  CapacityInv'
<1>1. Cardinality(CallGateway!Running') <= Cardinality(CallGateway!Running)
  BY Fewer
<1>2. CallGateway!CapacityHolds'
  BY <1>1, Fewer, SameSize DEF CapacityInv, CallGateway!CapacityHolds, CallsBounds
<1>3. Inserting' # {} => Cardinality(CallGateway!Running') < MaxConcurrency
  BY <1>1, Fewer DEF CapacityInv, CallsBounds
<1>4. \A c, d \in Inserting' : c = d
  BY DEF CapacityInv
<1>5. QED
  BY <1>2, <1>3, <1>4 DEF CapacityInv

-----------------------------------------------------------------------------
\* The effect of a step on the request that takes it.
LEMMA Effect ==
  ASSUME CallsTyped, NEW c \in Actors, NEW to \in CallSteps, NEW t \in Bearers, NEW overdue \in SUBSET Actors,
         NEW told \in Told, CallGateway!Becomes(c, to, t, overdue, told)
  PROVE  /\ call' \in [Actors -> [pc : CallSteps, token : Bearers, overdue : SUBSET Actors, told : Told]]
         /\ call'[c].pc = to /\ \A d \in Actors : d # c => call'[d] = call[d]
BY DEF CallsTyped, CallGateway!Becomes

LEMMA EffectOfTo ==
  ASSUME CallsTyped, NEW c \in Actors, NEW to \in CallSteps, CallGateway!To(c, to)
  PROVE  /\ call' \in [Actors -> [pc : CallSteps, token : Bearers, overdue : SUBSET Actors, told : Told]]
         /\ call'[c].pc = to /\ \A d \in Actors : d # c => call'[d] = call[d]
<1>1. call[c].token \in Bearers /\ call[c].overdue \in SUBSET Actors /\ call[c].told \in Told
  BY DEF CallsTyped
<1>2. QED
  BY <1>1, Effect DEF CallGateway!To

LEMMA EffectOfTell ==
  ASSUME CallsTyped, NEW c \in Actors, NEW to \in CallSteps, NEW told \in Told, CallGateway!Tell(c, to, told)
  PROVE  /\ call' \in [Actors -> [pc : CallSteps, token : Bearers, overdue : SUBSET Actors, told : Told]]
         /\ call'[c].pc = to /\ \A d \in Actors : d # c => call'[d] = call[d]
<1>1. call[c].token \in Bearers
  BY DEF CallsTyped
<1>2. QED
  BY <1>1, Effect DEF CallGateway!Tell

-----------------------------------------------------------------------------
\* A call that moves without a lease, and not to the place where one is inserted.
LEMMA CallMoves ==
  ASSUME CallsBounds, CapacityInv, NEW c \in Actors, UNCHANGED slot,
         \/ \E t \in Bearers : CallGateway!Authenticate(c, t)
         \/ CallGateway!Decide(c) \/ CallGateway!BreakOff(c) \/ CallGateway!Webhook(c)
         \/ \E told \in {"success", "failed"} : CallGateway!PassOn(c, told)
  PROVE  CapacityInv'
<1> USE DEF CapacityInv
<1> DEFINE Moved ==
      /\ call' \in [Actors -> [pc : CallSteps, token : Bearers, overdue : SUBSET Actors, told : Told]]
      /\ call'[c].pc # "inserting" /\ \A d \in Actors : d # c => call'[d] = call[d]
<1>1. Moved
  <2>1. ASSUME NEW t \in Bearers, CallGateway!Authenticate(c, t) PROVE Moved
    BY <2>1, Effect DEF CallGateway!Authenticate, CallSteps, Told
  <2>2. CASE CallGateway!Decide(c) \/ CallGateway!Webhook(c)
    BY <2>2, EffectOfTo DEF CallGateway!Decide, CallGateway!Webhook, CallSteps
  <2>3. CASE CallGateway!BreakOff(c)
    BY <2>3, EffectOfTell DEF CallGateway!BreakOff, CallSteps, CallsTyped
  <2>4. ASSUME NEW told \in {"success", "failed"}, CallGateway!PassOn(c, told) PROVE Moved
    BY <2>4, EffectOfTell DEF CallGateway!PassOn, CallSteps, Told
  <2>5. QED
    BY <2>1, <2>2, <2>3, <2>4
<1>2. QED
  <2>1. CallsTyped' /\ CallGateway!Running' = CallGateway!Running
    BY <1>1 DEF CallsTyped, CallGateway!Running
  <2>2. Inserting' \subseteq Inserting
    BY <1>1 DEF Inserting
  <2>3. QED
    BY <2>1, <2>2, Shrinks

\* The count: with the lock nobody else is inserting, and there is room for one more lease.
LEMMA CallsCounting ==
  ASSUME CallsBounds, CapacityInv, NEW c \in Actors, CallGateway!Count(c)
  PROVE  CapacityInv'
<1> USE DEF CapacityInv
<1>1. CASE Cardinality(CallGateway!Running) >= MaxConcurrency
  <2>1. CallGateway!Tell(c, "done", "refused") /\ UNCHANGED slot
    BY <1>1, SameSize DEF CallGateway!Count
  <2>2. /\ call' \in [Actors -> [pc : CallSteps, token : Bearers, overdue : SUBSET Actors, told : Told]]
        /\ call'[c].pc = "done" /\ \A d \in Actors : d # c => call'[d] = call[d]
    BY <2>1, EffectOfTell DEF CallSteps, Told
  <2>3. CallsTyped' /\ CallGateway!Running' = CallGateway!Running /\ Inserting' \subseteq Inserting
    BY <2>1, <2>2 DEF CallsTyped, CallGateway!Running, Inserting
  <2>4. QED
    BY <2>3, Shrinks
<1>2. CASE ~(Cardinality(CallGateway!Running) >= MaxConcurrency)
  <2>1. CallGateway!Becomes(c, "inserting", call[c].token, CallGateway!Overdue, call[c].told) /\ UNCHANGED slot
    BY <1>2, SameSize DEF CallGateway!Count
  <2>2. call[c].token \in Bearers /\ call[c].told \in Told /\ CallGateway!Overdue \in SUBSET Actors
    BY DEF CallsTyped, CallGateway!Overdue
  <2>3. /\ call' \in [Actors -> [pc : CallSteps, token : Bearers, overdue : SUBSET Actors, told : Told]]
        /\ call'[c].pc = "inserting" /\ \A d \in Actors : d # c => call'[d] = call[d]
    BY <2>1, <2>2, Effect DEF CallSteps
  <2>4. CallsTyped' /\ CallGateway!Running' = CallGateway!Running
    BY <2>1, <2>3 DEF CallsTyped, CallGateway!Running
  <2>5. Inserting' \subseteq {c}
    BY <2>3 DEF CallGateway!Count, CallGateway!LockFree, Inserting
  <2>6. Cardinality(CallGateway!Running) \in Nat
    BY Fewer, <2>4
  <2>7. Cardinality(CallGateway!Running) < MaxConcurrency
    BY <1>2, <2>6 DEF CallsBounds
  <2>8. CallGateway!CapacityHolds' /\ Cardinality(CallGateway!Running') < MaxConcurrency
    BY <2>4, <2>6, <2>7 DEF CallGateway!CapacityHolds, CallsBounds
  <2>9. QED
    BY <2>4, <2>5, <2>8
<1>3. QED
  BY <1>1, <1>2

\* The lease that is inserted has the room that was counted for it.
LEMMA Inserts ==
  ASSUME CallsBounds, CapacityInv, NEW c \in Actors, CallGateway!InsertLease(c)
  PROVE  CapacityInv'
<1> USE DEF CapacityInv
<1>1. /\ call' \in [Actors -> [pc : CallSteps, token : Bearers, overdue : SUBSET Actors, told : Told]]
      /\ call'[c].pc = "dispatched" /\ \A d \in Actors : d # c => call'[d] = call[d]
  <2>1. call[c].told \in Told
    BY DEF CallsTyped
  <2>2. QED
    BY <2>1, EffectOfTell DEF CallGateway!InsertLease, CallSteps
<1>2. c \in Inserting
  BY DEF CallGateway!InsertLease, Inserting
<1>3. Inserting' = {}
  BY <1>1, <1>2 DEF Inserting
<1>4. slot' \in [Actors -> [state : {"none", "open", "success", "failed"}, due : BOOLEAN]]
  BY DEF CallGateway!InsertLease, CallsTyped
<1>5. CallGateway!Running' \subseteq CallGateway!Running \union {c}
  BY DEF CallGateway!InsertLease, CallGateway!Running, CallsTyped
<1>6. /\ Cardinality(CallGateway!Running) \in Nat /\ Cardinality(CallGateway!Running') \in Nat
      /\ Cardinality(CallGateway!Running') <= Cardinality(CallGateway!Running) + 1
  BY <1>5, OneMore
<1>7. Cardinality(CallGateway!Running) < MaxConcurrency
  BY <1>2
<1>8. CallGateway!CapacityHolds'
  BY <1>6, <1>7, SameSize DEF CallGateway!CapacityHolds, CallsBounds
<1>9. CallsTyped'
  BY <1>1, <1>4 DEF CallsTyped
<1>10. QED
  BY <1>3, <1>8, <1>9

\* A lease that ends or falls due.
LEMMA Ends ==
  ASSUME CallsBounds, CapacityInv, NEW c \in Actors,
         CallGateway!FallsDue(c) \/ \E outcome \in {"success", "failed"} : CallGateway!Answer(c, outcome)
  PROVE  CapacityInv'
<1> USE DEF CapacityInv
<1>1. CASE CallGateway!FallsDue(c)
  <2>1. call' = call /\ slot' \in [Actors -> [state : {"none", "open", "success", "failed"}, due : BOOLEAN]]
    BY <1>1 DEF CallGateway!FallsDue, CallsTyped
  <2>2. CallGateway!Running' \subseteq CallGateway!Running
    BY <1>1 DEF CallGateway!FallsDue, CallsTyped, CallGateway!Running
  <2>3. CallsTyped' /\ Inserting' = Inserting
    BY <2>1 DEF CallsTyped, Inserting
  <2>4. QED
    BY <2>2, <2>3, Shrinks
<1>2. ASSUME NEW outcome \in {"success", "failed"}, CallGateway!Answer(c, outcome) PROVE CapacityInv'
  <2>1. /\ call' \in [Actors -> [pc : CallSteps, token : Bearers, overdue : SUBSET Actors, told : Told]]
        /\ call'[c].pc = "done" /\ \A d \in Actors : d # c => call'[d] = call[d]
    BY <1>2, EffectOfTell DEF CallGateway!Answer, CallSteps, Told
  <2>2. slot' \in [Actors -> [state : {"none", "open", "success", "failed"}, due : BOOLEAN]]
    BY <1>2 DEF CallGateway!Answer, CallsTyped
  <2>3. CallGateway!Running' \subseteq CallGateway!Running
    BY <1>2 DEF CallGateway!Answer, CallsTyped, CallGateway!Running
  <2>4. CallsTyped' /\ Inserting' \subseteq Inserting
    BY <2>1, <2>2 DEF CallsTyped, Inserting
  <2>5. QED
    BY <2>3, <2>4, Shrinks
<1>3. QED
  BY <1>1, <1>2

\* What leaves calls and leases alone.
LEMMA CallsIdle ==
  ASSUME CapacityInv, UNCHANGED <<call, slot>>
  PROVE  CapacityInv'
BY DEF CapacityInv, CallGateway!CapacityHolds, CallsTyped, Inserting, CallGateway!Running

-----------------------------------------------------------------------------
\* Requests and the OWNER may come in any order and number: the leases that run stay within the
\* tool's concurrency, one request inserts at a time, and there is room for it.
THEOREM CallsInvariance == Spec => [](part = "calls" => CapacityInv)
<1> CallsBounds
  BY PlatformAssumption DEF CallsBounds
<1>1. CallGateway!Init => CapacityInv
  <2> SUFFICES ASSUME CallGateway!Init PROVE CapacityInv
    OBVIOUS
  <2>1. call = [c \in Actors |-> CallGateway!NewCall] /\ CallGateway!NewCall.pc = "new"
        /\ CallGateway!NewCall \in [pc : CallSteps, token : Bearers, overdue : SUBSET Actors, told : Told]
    BY DEF CallGateway!Init, CallGateway!NewCall, CallsBounds, CallSteps, Told
  <2>2. slot = [c \in Actors |-> [state |-> "none", due |-> FALSE]]
    BY DEF CallGateway!Init
  <2>3. CallsTyped
    BY <2>1, <2>2 DEF CallsTyped
  <2>4. Inserting = {} /\ CallGateway!Running = {}
    BY <2>1, <2>2 DEF Inserting, CallGateway!Running
  <2>5. CallGateway!CapacityHolds
    BY <2>4, FS_EmptySet, SameSize DEF CallGateway!CapacityHolds, CallsBounds
  <2>6. QED
    BY <2>3, <2>4, <2>5 DEF CapacityInv
<1>2. CapacityInv /\ [CallGateway!Next]_callsVars => CapacityInv'
  <2> SUFFICES ASSUME CapacityInv, [CallGateway!Next]_callsVars PROVE CapacityInv'
    OBVIOUS
  <2>1. ASSUME NEW c \in Actors,
               \/ \E t \in Bearers : CallGateway!Authenticate(c, t)
               \/ CallGateway!Decide(c) \/ CallGateway!Count(c) \/ CallGateway!InsertLease(c)
                    \/ CallGateway!FallsDue(c) \/ CallGateway!BreakOff(c) \/ CallGateway!Webhook(c)
               \/ \E outcome \in {"success", "failed"} : CallGateway!Answer(c, outcome)
                    \/ CallGateway!PassOn(c, outcome)
        PROVE CapacityInv'
    <3>1. CASE \/ \E t \in Bearers : CallGateway!Authenticate(c, t)
               \/ CallGateway!Decide(c) \/ CallGateway!BreakOff(c) \/ CallGateway!Webhook(c)
               \/ \E told \in {"success", "failed"} : CallGateway!PassOn(c, told)
      <4>1. UNCHANGED slot
        BY <3>1 DEF CallGateway!Authenticate, CallGateway!Decide, CallGateway!BreakOff, CallGateway!Webhook,
          CallGateway!PassOn
      <4>2. QED
        BY <3>1, <4>1, CallMoves
    <3>2. CASE CallGateway!Count(c)
      BY <3>2, CallsCounting
    <3>3. CASE CallGateway!InsertLease(c)
      BY <3>3, Inserts
    <3>4. CASE CallGateway!FallsDue(c) \/ \E outcome \in {"success", "failed"} : CallGateway!Answer(c, outcome)
      BY <3>4, Ends
    <3>5. QED
      BY <2>1, <3>1, <3>2, <3>3, <3>4
  <2>2. CASE CallGateway!Quarantine \/ CallGateway!Restore \/ CallGateway!Enable \/ CallGateway!SetPermission
             \/ CallGateway!SetOpen
    BY <2>2, CallsIdle DEF CallGateway!Quarantine, CallGateway!Restore, CallGateway!Enable,
      CallGateway!SetPermission, CallGateway!SetOpen, CallGateway!Change
  <2>3. CASE \/ \E lifecycle \in {"RETIRED", "DEREGISTERED"} : CallGateway!Retire(lifecycle)
             \/ \E t \in Bearers : CallGateway!RevokeToken(t) \/ \E new \in Bearers : CallGateway!Rotate(t, new)
    BY <2>3, CallsIdle DEF CallGateway!Retire, CallGateway!RevokeToken, CallGateway!Rotate, CallGateway!Change
  <2>4. CASE UNCHANGED callsVars
    BY <2>4, CallsIdle DEF callsVars
  <2>5. QED
    BY <2>1, <2>2, <2>3, <2>4 DEF CallGateway!Next
<1>3. Init => (part = "calls" => CapacityInv)
  BY <1>1, Starts
<1>4. (part = "calls" => CapacityInv) /\ [Next]_all => (part = "calls" => CapacityInv)'
  BY <1>2, Moves
<1>5. QED
  BY <1>3, <1>4, PTL DEF Spec

\* However many requests pass the authorisation at once, no more of them hold a lease that is not
\* overdue than the tool may run.
THEOREM CapacityHoldsAlways == Spec => []CapacityHolds
<1>1. (part = "calls" => CapacityInv) => CapacityHolds
  BY DEF CapacityInv, CapacityHolds
<1>2. QED
  BY <1>1, CallsInvariance, PTL

-----------------------------------------------------------------------------
(***************************************************************************)
(* ServiceAccess: tokens of a managed service.                             *)
(*                                                                         *)
(* A token is issued with the scopes of its credential and the epoch of    *)
(* then; whatever changes a grant moves the epoch in the same transaction. *)
(***************************************************************************)

TokenRow == [state : {"none", "live", "gone"}, cred : Credentials, scopes : SUBSET ServiceScopes,
             permission : Nat, epoch : Nat, enables : Nat]
AccessTyped ==
  /\ service \in [api : {"ENABLED", "DISABLED"}, permission : Nat, epoch : Nat, enables : Nat, disables : Nat]
  /\ active \subseteq Credentials
  /\ granted \in [Credentials -> SUBSET ServiceScopes]
  /\ bearerToken \in [Access!Tokens -> TokenRow]

\* A live token belongs to a credential that is not revoked, and is not ahead of the epoch; of
\* the current epoch it has what is granted.
TokenFits(entry) ==
  entry.state = "live" =>
    /\ entry.cred \in active /\ entry.permission <= service.permission
    /\ entry.permission = service.permission => entry.scopes = granted[entry.cred]
AccessInv == AccessTyped /\ \A t \in Access!Tokens : TokenFits(bearerToken[t])

LEMMA AccessStarts == ASSUME Credentials # {}, Access!Init PROVE AccessInv
<1>1. Access!NoToken \in TokenRow /\ Access!NoToken.state = "none"
  BY DEF Access!NoToken, TokenRow
<1>2. AccessTyped
  BY <1>1 DEF Access!Init, AccessTyped
<1> QED
  BY <1>1, <1>2 DEF Access!Init, AccessInv, TokenFits

\* Tokens that are revoked, and those that stay, when neither epoch nor grants move.
LEMMA TokensGo ==
  ASSUME AccessInv, UNCHANGED granted, service'.permission = service.permission,
         service' \in [api : {"ENABLED", "DISABLED"}, permission : Nat, epoch : Nat, enables : Nat, disables : Nat],
         active' \subseteq Credentials, bearerToken' \in [Access!Tokens -> TokenRow],
         \A t \in Access!Tokens : bearerToken'[t].state = "live" => bearerToken'[t] = bearerToken[t]
             /\ bearerToken[t].cred \in active'
  PROVE  AccessInv'
<1>1. AccessTyped'
  BY DEF AccessInv, AccessTyped
<1>2. ASSUME NEW t \in Access!Tokens, bearerToken'[t].state = "live"
      PROVE  /\ bearerToken'[t].cred \in active' /\ bearerToken'[t].permission <= service'.permission
             /\ bearerToken'[t].permission = service'.permission
                  => bearerToken'[t].scopes = granted'[bearerToken'[t].cred]
  BY <1>2 DEF AccessInv, TokenFits
<1> QED
  BY <1>1, <1>2 DEF AccessInv, TokenFits

\* A change of what is granted leaves every token behind the epoch.
LEMMA EpochMoves ==
  ASSUME AccessInv, UNCHANGED <<active, bearerToken>>, granted' \in [Credentials -> SUBSET ServiceScopes],
         service' = [service EXCEPT !.permission = service.permission + 1]
  PROVE  AccessInv'
<1>1. AccessTyped' /\ service.permission \in Nat /\ service'.permission = service.permission + 1
  BY DEF AccessInv, AccessTyped
<1>2. ASSUME NEW t \in Access!Tokens, bearerToken[t].state = "live"
      PROVE  bearerToken[t].cred \in active /\ bearerToken[t].permission <= service.permission
          /\ bearerToken[t].permission \in Nat
  BY <1>2 DEF AccessInv, TokenFits, AccessTyped, TokenRow
<1>3. ASSUME NEW t \in Access!Tokens PROVE TokenFits(bearerToken[t])'
  BY <1>1, <1>2 DEF TokenFits
<1> QED
  BY <1>1, <1>3 DEF AccessInv

LEMMA AccessSteps == ASSUME AccessInv, [Access!Next]_accessVars PROVE AccessInv'
<1>1. AccessTyped
  BY DEF AccessInv
<1>2. CASE UNCHANGED <<active, granted, bearerToken>> /\ (UNCHANGED service \/ Access!Enable \/ Access!Disable)
  <2>1. /\ service'.permission = service.permission
        /\ service' \in [api : {"ENABLED", "DISABLED"}, permission : Nat, epoch : Nat, enables : Nat, disables : Nat]
    <3>1. service \in [api : {"ENABLED", "DISABLED"}, permission : Nat, epoch : Nat, enables : Nat, disables : Nat]
      BY <1>1 DEF AccessTyped
    <3>2. CASE UNCHANGED service
      BY <3>1, <3>2
    <3>3. CASE Access!Enable
      <4>1. PICK n \in Nat : n = service.enables + 1
        BY <3>1
      <4>2. service' = [[service EXCEPT !.api = "ENABLED"] EXCEPT !.enables = n]
        BY <3>1, <3>3, <4>1 DEF Access!Enable
      <4> QED
        BY <3>1, <4>2
    <3>4. CASE Access!Disable
      <4>1. PICK n \in Nat : n = service.disables + 1
        BY <3>1
      <4>2. service' = [[service EXCEPT !.api = "DISABLED"] EXCEPT !.disables = n]
        BY <3>1, <3>4, <4>1 DEF Access!Disable
      <4> QED
        BY <3>1, <4>2
    <3> QED
      BY <1>2, <3>2, <3>3, <3>4
  <2>2. \A t \in Access!Tokens : bearerToken[t].state = "live" => bearerToken[t].cred \in active
    BY DEF AccessInv, TokenFits
  <2> QED
    BY <1>1, <1>2, <2>1, <2>2, TokensGo DEF AccessTyped
<1>3. ASSUME NEW c \in Credentials, NEW scopes \in SUBSET ServiceScopes, Access!ReplacePermissions(c, scopes)
      PROVE  AccessInv'
  BY <1>1, <1>3, EpochMoves DEF Access!ReplacePermissions, Access!BumpedEpoch, AccessTyped
<1>4. ASSUME NEW c \in Credentials, NEW allowed \in BOOLEAN, Access!ReplaceKajaPermissions(c, allowed)
      PROVE  AccessInv'
  BY <1>1, <1>4, EpochMoves DEF Access!ReplaceKajaPermissions, Access!BumpedEpoch, AccessTyped
<1>5. ASSUME NEW c \in Credentials, Access!RevokeCredential(c) PROVE AccessInv'
  <2>1. active' = active \ {c} /\ granted' = [granted EXCEPT ![c] = {}]
             /\ bearerToken' = Access!RevokedTokens(c) /\ service' = service
    BY <1>5 DEF Access!RevokeCredential
  <2>2. AccessTyped'
    <3>1. ASSUME NEW t \in Access!Tokens
          PROVE  bearerToken[t] \in TokenRow /\ [bearerToken[t] EXCEPT !.state = "gone"] \in TokenRow
      BY <1>1 DEF AccessTyped, TokenRow
    <3>2. bearerToken' \in [Access!Tokens -> TokenRow]
      BY <2>1, <3>1 DEF Access!RevokedTokens
    <3> QED
      BY <1>1, <2>1, <3>2 DEF AccessTyped
  <2>3. ASSUME NEW t \in Access!Tokens, bearerToken'[t].state = "live"
        PROVE  bearerToken'[t] = bearerToken[t] /\ bearerToken[t].cred # c
    <3>1. CASE bearerToken[t].cred = c /\ bearerToken[t].state = "live"
      <4>1. bearerToken'[t] = [bearerToken[t] EXCEPT !.state = "gone"]
        BY <2>1, <3>1 DEF Access!RevokedTokens
      <4> QED
        BY <1>1, <2>3, <4>1 DEF AccessTyped, TokenRow
    <3>2. CASE ~(bearerToken[t].cred = c /\ bearerToken[t].state = "live")
      BY <2>1, <2>3, <3>2 DEF Access!RevokedTokens
    <3> QED
      BY <3>1, <3>2
  <2>4. ASSUME NEW t \in Access!Tokens, bearerToken'[t].state = "live"
        PROVE  /\ bearerToken'[t].cred \in active' /\ bearerToken'[t].permission <= service'.permission
               /\ bearerToken'[t].permission = service'.permission
                    => bearerToken'[t].scopes = granted'[bearerToken'[t].cred]
    <3>1. bearerToken'[t] = bearerToken[t] /\ bearerToken[t].cred # c /\ TokenFits(bearerToken[t])
               /\ bearerToken[t].cred \in Credentials
      BY <1>1, <2>3, <2>4 DEF AccessInv, AccessTyped, TokenRow
    <3>2. granted'[bearerToken[t].cred] = granted[bearerToken[t].cred]
      BY <1>1, <2>1, <3>1 DEF AccessTyped
    <3> QED
      BY <2>1, <2>4, <3>1, <3>2 DEF TokenFits
  <2> QED
    BY <2>2, <2>4 DEF AccessInv, TokenFits
<1>6. ASSUME NEW c \in Credentials, Access!Issue(c) PROVE AccessInv'
  <2> PICK new : new = [state |-> "live", cred |-> c, scopes |-> granted[c], permission |-> service.permission,
                        epoch |-> service.epoch, enables |-> service.enables]
    OBVIOUS
  <2>1. PICK t \in Access!Tokens : bearerToken' = [bearerToken EXCEPT ![t] = new]
    BY <1>6 DEF Access!Issue, Access!CurrentScopes
  <2>2. new \in TokenRow /\ new.cred = c /\ new.scopes = granted[c] /\ new.permission = service.permission
             /\ c \in active
    BY <1>1, <1>6, <2>1 DEF TokenRow, AccessTyped, Access!Issue
  <2>3. UNCHANGED <<service, active, granted>>
    BY <1>6 DEF Access!Issue
  <2>4. AccessTyped'
    BY <1>1, <2>1, <2>2, <2>3 DEF AccessTyped
  <2>5. TokenFits(new)' /\ service.permission <= service.permission
    BY <1>1, <2>2, <2>3 DEF TokenFits, AccessTyped
  <2>6. ASSUME NEW u \in Access!Tokens PROVE TokenFits(bearerToken[u])'
    <3>1. CASE u = t
      <4>1. bearerToken'[u] = new
        BY <1>1, <2>1, <3>1 DEF AccessTyped
      <4> QED
        BY <2>2, <2>3, <2>5, <4>1 DEF TokenFits
    <3>2. CASE u # t
      <4>1. bearerToken'[u] = bearerToken[u]
        BY <1>1, <2>1, <3>2 DEF AccessTyped
      <4> QED
        BY <2>3, <4>1 DEF AccessInv, TokenFits
    <3> QED
      BY <3>1, <3>2
  <2> QED
    BY <2>4, <2>6 DEF AccessInv
<1>7. ASSUME NEW t \in Access!Tokens, Access!Expire(t) PROVE AccessInv'
  <2>1. bearerToken' = [bearerToken EXCEPT ![t] = [bearerToken[t] EXCEPT !.state = "gone"]]
             /\ UNCHANGED <<service, active, granted>>
    BY <1>1, <1>7 DEF Access!Expire, AccessTyped
  <2>2. [bearerToken[t] EXCEPT !.state = "gone"] \in TokenRow
             /\ [bearerToken[t] EXCEPT !.state = "gone"].state = "gone"
    BY <1>1 DEF AccessTyped, TokenRow
  <2>3. bearerToken' \in [Access!Tokens -> TokenRow] /\ \A u \in Access!Tokens : bearerToken'[u].state = "live" => bearerToken'[u] = bearerToken[u]
    BY <1>1, <2>1, <2>2 DEF AccessTyped
  <2>4. \A u \in Access!Tokens : bearerToken[u].state = "live" => bearerToken[u].cred \in active
    BY DEF AccessInv, TokenFits
  <2> QED
    BY <1>1, <2>1, <2>3, <2>4, TokensGo DEF AccessTyped
<1>8. CASE Access!MigrateDomain
  <2>1. UNCHANGED <<active, granted>> /\ service' = [service EXCEPT !.epoch = @ + 1]
    BY <1>8 DEF Access!MigrateDomain
  <2>2. /\ service'.permission = service.permission
        /\ service' \in [api : {"ENABLED", "DISABLED"}, permission : Nat, epoch : Nat, enables : Nat, disables : Nat]
    BY <1>1, <2>1 DEF AccessTyped
  <2>3. ASSUME NEW t \in Access!Tokens PROVE bearerToken'[t] \in TokenRow /\ bearerToken'[t].state # "live"
    BY <1>1, <1>8 DEF Access!MigrateDomain, AccessTyped, TokenRow
  <2>4. bearerToken' \in [Access!Tokens -> TokenRow]
    BY <1>8, <2>3 DEF Access!MigrateDomain
  <2> QED
    BY <1>1, <2>1, <2>2, <2>3, <2>4, TokensGo DEF AccessTyped
<1>9. ASSUME NEW t \in Access!Tokens, NEW s \in ServiceScopes, Access!Authorize(t, s) PROVE AccessInv'
  BY <1>2, <1>9 DEF Access!Authorize
<1>10. CASE Access!Enable \/ Access!Disable
  BY <1>2, <1>10 DEF Access!Enable, Access!Disable
<1>11. CASE Access!AuthorizeProbes \/ Access!AuthorizeScopes \/ Access!Answer \/ Access!Tick \/ Access!Monitor
            \/ Access!CycleBreaks \/ UNCHANGED accessVars
  BY <1>2, <1>11 DEF Access!AuthorizeProbes, Access!AuthorizeScopes, Access!Answer, Access!Tick,
    Access!Monitor, Access!StartCycle, Access!RecordCycle, Access!CycleBreaks, accessVars
<1> QED
  BY <1>3, <1>4, <1>5, <1>6, <1>7, <1>8, <1>9, <1>10, <1>11 DEF Access!Next

LEMMA AccessTells == ASSUME AccessInv PROVE Access!EpochTellsScopes
BY DEF AccessInv, Access!EpochTellsScopes, TokenFits

\* Grants, credentials, tokens and probes in any order leave live tokens behind the epoch or right.
THEOREM AccessInvariance == Spec => [](part = "access" => AccessInv)
<1>1. Init => (part = "access" => AccessInv)
  BY PlatformAssumption, AccessStarts, Starts
<1>2. (part = "access" => AccessInv) /\ [Next]_all => (part = "access" => AccessInv)'
  BY PlatformAssumption, AccessSteps, Moves
<1> QED
  BY <1>1, <1>2, PTL DEF Spec

\* Comparing epochs is enough: a live token of the current permission epoch has the scopes that its
\* credential holds now, for any credentials, scopes and tokens (domain/managed-service.ts).
THEOREM EpochTellsScopesHolds == Spec => []EpochTellsScopes
<1>1. (part = "access" => AccessInv) => EpochTellsScopes
  BY AccessTells DEF EpochTellsScopes
<1> QED
  BY <1>1, AccessInvariance, PTL
=============================================================================
