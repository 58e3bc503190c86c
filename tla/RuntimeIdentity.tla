-------------------------- MODULE RuntimeIdentity --------------------------
(***************************************************************************)
(* The runtime credential of one generated component: an access token, the *)
(* managed secret that holds its value, and the copy installed for the     *)
(* service (domain/secret-manager.ts, domain/generated-component.ts,       *)
(* onboarding/secret-broker.ts).  The generation worker issues the first   *)
(* one, the OWNER rotates and revokes it and administers the secret, each  *)
(* in several transactions and calls of the privileged helper.             *)
(*                                                                         *)
(* A value is the number of the token that it is the value of, 0 one that  *)
(* the OWNER typed in; encryption and fingerprints are left out.           *)
(***************************************************************************)
EXTENDS Integers, FiniteSets

CONSTANTS
  Admins,       \* requests of the OWNER that are handled at the same time
  Issuer,       \* the generation worker
  MaxTokens,    \* bound: values ever issued
  MaxEdits,     \* bound: what the OWNER does to the secret itself
  MaxCrashes    \* bound: requests that break off

VARIABLES
  secret,     \* secret_record with its active version
  grants,     \* who has a grant on the secret that is not revoked
  token,      \* principal_access_token
  identity,   \* component_runtime_identity.access_token_id, 0: no row
  installed,  \* the credential that the service reads
  principal,  \* status of the component's principal
  proc,       \* local state of the requests
  budget      \* environment: what the bounds count, and disturbed installations

identityVars == <<secret, grants, token, identity, installed, principal, proc, budget>>

Tokens  == 1..MaxTokens
Clients == {"COMPONENT", "PLATFORM"}
Procs   == Admins \union {Issuer}

SecretRecord ==
  [status : {"ABSENT", "ACTIVE", "DISABLED", "DELETED"}, value : 0..MaxTokens, lock : Nat]
ProcState ==
  [pc  : {"idle", "create", "grantComponent", "grantPlatform", "attach", "read", "change",
          "install", "switch", "revoke", "disable"},
   old : 0..MaxTokens,   \* the token that the request is about
   new : 0..MaxTokens,   \* the token that it issues
   lock : Nat]           \* lock_version that listSecrets returned

Init ==
  /\ secret = [status |-> "ABSENT", value |-> 0, lock |-> 0]
  /\ grants = {} /\ identity = 0 /\ installed = 0 /\ principal = "ACTIVE"
  /\ token = [t \in Tokens |-> "unused"]
  /\ proc = [p \in Procs |-> [pc |-> "idle", old |-> 0, new |-> 0, lock |-> 0]]
  /\ budget = [edits |-> 0, crashes |-> 0, disturbed |-> FALSE, orphan |-> FALSE]

-----------------------------------------------------------------------------
(* Secret Manager: every operation is one transaction.                      *)

Exists == secret.status \notin {"ABSENT", "DELETED"}

Change(status, value) == secret' = [status |-> status, value |-> value, lock |-> secret.lock + 1]

\* stable_name is unique, deleted records included.
CreateSecret(v) ==
  /\ secret.status = "ABSENT"
  /\ Change("ACTIVE", v)

\* Every administrative change names the lock_version that it was decided on.
MayChange_Any(lock) == secret.status # "ABSENT"
MayChange(lock) == secret.lock = lock

RotateSecret(v, lock) == Exists /\ MayChange(lock) /\ Change(secret.status, v)

SetSecretStatus(s, lock) ==
  Exists /\ MayChange(lock) /\ Change(s, secret.value)

\* Deleting revokes all grants, and restoring brings none back.
DeleteSecret(lock) ==
  /\ Exists /\ MayChange(lock)
  /\ Change("DELETED", secret.value)
  /\ grants' = {}

RestoreSecret(lock) ==
  /\ secret.status = "DELETED" /\ MayChange(lock)
  /\ Change("DISABLED", secret.value)
  /\ UNCHANGED grants

\* grantSecret, with the record locked.
Grantable == Exists

GrantSecret(c) == Grantable /\ grants' = grants \union {c}

Resolves(c) == secret.status = "ACTIVE" /\ c \in grants

-----------------------------------------------------------------------------
At(p, pc) == proc[p].pc = pc
\* A process goes on at a step, with what it knows then.
Becomes(p, pc, old, new, lock) ==
  proc' = [proc EXCEPT ![p] = [pc |-> pc, old |-> old, new |-> new, lock |-> lock]]
Goto(p, pc) == Becomes(p, pc, proc[p].old, proc[p].new, proc[p].lock)
Done(p) == Becomes(p, "idle", 0, 0, 0)
Fresh == {t \in Tokens : token[t] = "unused" /\ \A u \in 1..(t - 1) : token[u] # "unused"}

\* A request that has decided what to install, and has not written it everywhere.
Installing(p) == proc[p].pc \in {"install", "switch"}

\* Environment: somebody chose a value while another value was on its way.
Counts(edits, crashes, late, lost) ==
  budget' = [edits |-> budget.edits + edits, crashes |-> budget.crashes + crashes,
             disturbed |-> budget.disturbed \/ late, orphan |-> budget.orphan \/ lost]
Disturb(late) == Counts(0, 0, late, FALSE)

-----------------------------------------------------------------------------
(* ensureGeneratedRuntimeIdentity, called for every candidate.              *)

\* The identity exists: its value is resolved by the platform's worker and
\* installed with the release.
Reuse ==
  /\ At(Issuer, "idle")
  /\ identity # 0 /\ token[identity] = "live" /\ Resolves("PLATFORM")
  /\ Becomes(Issuer, "install", 0, secret.value, 0)
  /\ Disturb(\E p \in Admins : Installing(p))
  /\ UNCHANGED <<secret, grants, token, identity, installed, principal>>

Issue ==
  /\ At(Issuer, "idle") /\ identity = 0
  /\ \E t \in Fresh :
       /\ token' = [token EXCEPT ![t] = "live"]
       /\ Becomes(Issuer, "create", 0, t, 0)
  /\ UNCHANGED <<secret, grants, identity, installed, principal, budget>>

\* An earlier attempt that broke off has left a record of this name: an error.
Create ==
  /\ At(Issuer, "create")
  /\ \/ CreateSecret(proc[Issuer].new) /\ Goto(Issuer, "grantComponent")
     \/ secret.status # "ABSENT" /\ Done(Issuer) /\ UNCHANGED secret
  /\ UNCHANGED <<grants, token, identity, installed, principal, budget>>

GrantComponent ==
  /\ At(Issuer, "grantComponent")
  /\ \/ GrantSecret("COMPONENT") /\ Goto(Issuer, "grantPlatform")
     \/ ~Grantable /\ Done(Issuer) /\ UNCHANGED grants
  /\ UNCHANGED <<secret, token, identity, installed, principal, budget>>

GrantPlatform ==
  /\ At(Issuer, "grantPlatform")
  /\ \/ GrantSecret("PLATFORM") /\ Goto(Issuer, "attach")
     \/ ~Grantable /\ Done(Issuer) /\ UNCHANGED grants
  /\ UNCHANGED <<secret, token, identity, installed, principal, budget>>

Attach ==
  /\ At(Issuer, "attach")
  /\ identity' = proc[Issuer].new
  /\ Goto(Issuer, "install")
  /\ UNCHANGED <<secret, grants, token, installed, principal, budget>>

-----------------------------------------------------------------------------
(* rotateGeneratedRuntimeAccessToken                                        *)

StartRotation(a) ==
  /\ At(a, "idle")
  /\ identity # 0
  /\ \E t \in Fresh :
       /\ token' = [token EXCEPT ![t] = "drawn"]
       /\ Becomes(a, "read", identity, t, 0)
  /\ UNCHANGED <<secret, grants, identity, installed, principal, budget>>

\* listSecrets; a DISABLED secret is first made ACTIVE, with what was just read.
ReadSecret(a) ==
  /\ At(a, "read")
  /\ \/ ~Exists /\ Done(a) /\ UNCHANGED secret
     \/ /\ \/ secret.status = "DISABLED" /\ SetSecretStatus("ACTIVE", secret.lock)
           \/ secret.status = "ACTIVE" /\ UNCHANGED secret
        /\ Becomes(a, "change", proc[a].old, proc[a].new, secret'.lock)
  /\ Disturb(identity # proc[a].old \/ \E p \in Procs : Installing(p))
  /\ UNCHANGED <<grants, token, identity, installed, principal>>

ChangeSecret(a) ==
  /\ At(a, "change")
  /\ \/ RotateSecret(proc[a].new, proc[a].lock) /\ Goto(a, "install")
     \/ ~(Exists /\ MayChange(proc[a].lock)) /\ Done(a) /\ UNCHANGED secret
  /\ Disturb(Installing(Issuer))
  /\ UNCHANGED <<grants, token, identity, installed, principal>>

\* installRuntimeCredential and the restart; a rotation then switches the token.
Install(p) ==
  /\ At(p, "install")
  /\ installed' = proc[p].new
  /\ IF p = Issuer THEN Done(p) ELSE Goto(p, "switch")
  /\ UNCHANGED <<secret, grants, token, identity, principal, budget>>

\* The identity and its token are locked; a rotation of another token is refused.
StillCurrent_Unchecked(a) == identity # 0
StillCurrent(a) == identity = proc[a].old

SwitchToken(a) ==
  LET new == proc[a].new IN
  /\ At(a, "switch")
  /\ IF StillCurrent(a)
       THEN /\ token' = [token EXCEPT ![proc[a].old] = "revoked", ![new] = "live"]
            /\ identity' = new
            /\ principal' = "ACTIVE"
       ELSE UNCHANGED <<token, identity, principal>>
  /\ Done(a)
  /\ UNCHANGED <<secret, grants, installed, budget>>

-----------------------------------------------------------------------------
(* revokeGeneratedRuntimeAccessToken                                        *)

StartRevocation(a) ==
  /\ At(a, "idle")
  /\ identity # 0 /\ token[identity] = "live"
  /\ Becomes(a, "revoke", identity, 0, 0)
  /\ UNCHANGED <<secret, grants, token, identity, installed, principal, budget>>

Revoke(a) ==
  LET t == proc[a].old IN
  /\ At(a, "revoke")
  /\ IF identity = t /\ token[t] = "live"
       THEN /\ token' = [token EXCEPT ![t] = "revoked"]
            /\ principal' = "SUSPENDED"
            /\ Goto(a, "disable")
       ELSE Done(a) /\ UNCHANGED <<token, principal>>
  /\ UNCHANGED <<secret, grants, identity, installed, budget>>

\* listSecrets and, unless somebody changed the record since, setSecretStatus.
DisableSecret(a) ==
  /\ At(a, "disable")
  /\ IF secret.status = "ACTIVE"
       THEN SetSecretStatus("DISABLED", secret.lock) ELSE UNCHANGED secret
  /\ Done(a)
  /\ UNCHANGED <<grants, token, identity, installed, principal, budget>>

-----------------------------------------------------------------------------
(* The OWNER administers the secret itself; requests break off.             *)

Edit ==
  /\ budget.edits < MaxEdits
  /\ \/ /\ \E s \in {"ACTIVE", "DISABLED"} : SetSecretStatus(s, secret.lock)
        /\ UNCHANGED grants
     \/ RotateSecret(0, secret.lock) /\ UNCHANGED grants
     \/ DeleteSecret(secret.lock)
     \/ RestoreSecret(secret.lock)
     \/ (\E c \in Clients : GrantSecret(c)) /\ UNCHANGED secret
     \/ (\E c \in grants : grants' = grants \ {c}) /\ UNCHANGED secret
  /\ Counts(1, 0, secret'.value # secret.value, FALSE)
  /\ UNCHANGED <<token, identity, installed, principal, proc>>

BreakOff(p) ==
  /\ budget.crashes < MaxCrashes /\ ~At(p, "idle")
  /\ Counts(0, 1, FALSE, proc[p].pc \in {"create", "grantComponent", "grantPlatform", "attach"})
  /\ Done(p)
  /\ UNCHANGED <<secret, grants, token, identity, installed, principal>>

-----------------------------------------------------------------------------
Next ==
  \/ Reuse \/ Issue \/ Create \/ GrantComponent \/ GrantPlatform \/ Attach
  \/ \E a \in Admins :
       \/ StartRotation(a) \/ ReadSecret(a) \/ ChangeSecret(a) \/ SwitchToken(a)
       \/ StartRevocation(a) \/ Revoke(a) \/ DisableSecret(a)
  \/ \E p \in Procs : Install(p) \/ BreakOff(p)
  \/ Edit

Spec == Init /\ [][Next]_identityVars

-----------------------------------------------------------------------------
(* Properties.                                                              *)

\* Every variable keeps its type, and what has no record yet has no grant and no version.
IdentityTypeOK ==
  /\ secret \in SecretRecord
  /\ grants \subseteq Clients
  /\ secret.status = "ABSENT" => grants = {} /\ secret.lock = 0 /\ identity = 0
  /\ token \in [Tokens -> {"unused", "drawn", "live", "revoked"}]
  /\ identity \in 0..MaxTokens /\ installed \in 0..MaxTokens
  /\ principal \in {"ACTIVE", "SUSPENDED"}
  /\ proc \in [Procs -> ProcState]
  /\ budget \in [edits : 0..MaxEdits, crashes : 0..MaxCrashes, disturbed : BOOLEAN, orphan : BOOLEAN]

\* Rotations and revocations that overlap or break off never leave two tokens
\* that both authenticate the component: a live token is the identity's, or
\* belongs to a first issue that is not finished; only a first issue that broke
\* off leaves a token that nobody revokes.
OneLiveToken ==
  ~budget.orphan =>
    \A t \in Tokens : token[t] = "live" => t = identity \/ proc[Issuer].new = t \/ identity = 0

Quiet == \A p \in Procs : At(p, "idle")

\* When nobody is at work, the service is installed with the value that the
\* secret holds and that authenticates it, although issue, rotation and
\* revocation write the three in different transactions; provided that no
\* value was chosen while another one was being installed, and nothing broke off.
\* Rotations that read the secret together are covered: its lock_version lets
\* one of them pass.
CredentialWorks ==
  Quiet /\ identity # 0 /\ token[identity] = "live" /\ ~budget.disturbed /\ budget.crashes = 0
    => installed = identity /\ secret.value = identity

=============================================================================
