--------------------------- MODULE ServiceAccess ---------------------------
(***************************************************************************)
(* Access to one managed service: credentials (Kaja) and their             *)
(* permissions, the bearer tokens issued for them, the authoriser that     *)
(* looks at a token for every request, and, for an EXTERNAL_API service,   *)
(* the monitor whose evidence the authoriser asks for                      *)
(* (domain/auth.ts, domain/managed-service.ts, domain/external-api.ts,     *)
(* http/external-api-routes.ts, http/auth-routes.ts).                      *)
(***************************************************************************)
EXTENDS Integers, FiniteSets

CONSTANTS
  Credentials,  \* kaja_credential rows
  Scopes,       \* scopes of the service's active revision
  Windows,      \* positive numbers of ticks a manifest may name as interval and as stale window
  MaxTokens,    \* bound: tokens ever issued
  MaxChanges,   \* bound: permission changes, and enables and disables, each
  MaxErrors     \* bound: monitor cycles that break off

VARIABLES
  kind,        \* service_kind
  manifest,    \* monitoringProfile: interval of the probes, staleAfter
  service,     \* managed_service: api state, permission_epoch, service_token_epoch, ...
  active,      \* credentials that are not revoked
  granted,     \* managed_service_permission: scopes GRANTED by credential
  token,       \* managed_service_access_token
  probe,       \* latest managed_service_probe_result of the mandatory probes
  internal,    \* age of the latest internal_error row, or -1
  cycle,       \* a monitor cycle that has read the latest probes
  request,     \* one request in the authoriser
  errors       \* what MaxErrors bounds

accessVars == <<kind, manifest, service, active, granted, token, probe, internal, cycle, request, errors>>

Tokens  == 1..MaxTokens
NoToken == [state |-> "none", cred |-> CHOOSE c \in Credentials : TRUE, scopes |-> {},
            permission |-> 0, epoch |-> 0, enables |-> 0]
NoCycle == [pc |-> "idle", due |-> FALSE, stale |-> FALSE]
NoRequest == [pc |-> "idle", token |-> 1, scope |-> CHOOSE s \in Scopes : TRUE]

\* validateManifestInvariants: no window may be shorter than an interval
WindowsFit_Any(m) == TRUE
WindowsFit(m) == m.staleAfter >= m.interval

Init ==
  /\ kind \in {"MCP", "EXTERNAL_API"}
  /\ manifest \in {m \in [interval : Windows, staleAfter : Windows] : WindowsFit(m)}
  /\ service = [api |-> "DISABLED", permission |-> 0, epoch |-> 0, enables |-> 0, disables |-> 0]
  /\ active = Credentials
  /\ granted = [c \in Credentials |-> {}]
  /\ token = [t \in Tokens |-> NoToken]
  /\ probe = [status |-> "none", age |-> 0]
  /\ internal = -1
  /\ cycle = NoCycle
  /\ request = NoRequest
  /\ errors = 0

-----------------------------------------------------------------------------
(* Credentials and permissions: transactions that lock the credential.      *)

\* bumpManagedServicePermissionEpoch runs for every service that was or is named
BumpedEpoch_Added(before, after) == IF before = {} THEN service.permission + 1 ELSE service.permission
BumpedEpoch(before, after) == service.permission + 1

\* replaceManagedServicePermissions: what the service granted is revoked and the request's
\* scopes are granted instead
ReplacePermissions(c, scopes) ==
  /\ kind = "EXTERNAL_API" /\ c \in active /\ granted[c] \union scopes # {}
  /\ service.permission < MaxChanges
  /\ granted' = [granted EXCEPT ![c] = scopes]
  /\ service' = [service EXCEPT !.permission = BumpedEpoch(granted[c], scopes)]
  /\ UNCHANGED <<kind, manifest, active, token, probe, internal, cycle, request, errors>>

\* replaceKajaPermissions: the same by the older route, for an MCP service: all or nothing
ReplaceKajaPermissions(c, allowed) ==
  /\ kind = "MCP" /\ c \in active /\ (allowed \/ granted[c] # {})
  /\ service.permission < MaxChanges
  /\ LET scopes == IF allowed THEN Scopes ELSE {} IN
       /\ granted' = [granted EXCEPT ![c] = scopes]
       /\ service' = [service EXCEPT !.permission = BumpedEpoch(granted[c], scopes)]
  /\ UNCHANGED <<kind, manifest, active, token, probe, internal, cycle, request, errors>>

RevokedTokens(c) ==
  [t \in Tokens |-> IF token[t].cred = c /\ token[t].state = "live" THEN [token[t] EXCEPT !.state = "gone"]
                    ELSE token[t]]

\* updateCredentialLifecycle, for a revocation as for a deletion: the permission epoch stays
RevokeCredential(c) ==
  /\ c \in active
  /\ active' = active \ {c}
  /\ granted' = [granted EXCEPT ![c] = {}]
  /\ token' = RevokedTokens(c)
  /\ UNCHANGED <<kind, manifest, service, probe, internal, cycle, request, errors>>

-----------------------------------------------------------------------------
(* Tokens.                                                                  *)

\* assertManagedServiceRuntimeAvailable; what the lifecycle, monitoring and review of a service
\* forbid besides is ServerMonitor's
Available == service.api = "ENABLED"

\* currentManagedServiceScopes
CurrentScopes(c) == granted[c]

\* issueAccessToken holds the credential and the service to its commit, and writes the epochs
\* that it has read
Issue(c) ==
  /\ c \in active /\ Available /\ CurrentScopes(c) # {}
  /\ \E t \in Tokens :
       /\ token[t].state = "none" /\ \A u \in 1..(t - 1) : token[u].state # "none"
       /\ token' = [token EXCEPT ![t] = [state |-> "live", cred |-> c, scopes |-> CurrentScopes(c),
                      permission |-> service.permission, epoch |-> service.epoch,
                      enables |-> service.enables]]
  /\ UNCHANGED <<kind, manifest, service, active, granted, probe, internal, cycle, request, errors>>

\* fifteen minutes pass
Expire(t) ==
  /\ token[t].state = "live"
  /\ token' = [token EXCEPT ![t].state = "gone"]
  /\ UNCHANGED <<kind, manifest, service, active, granted, probe, internal, cycle, request, errors>>

-----------------------------------------------------------------------------
(* setManagedServiceApiState and updateDomainConfiguration.                 *)

Fresh == probe.age <= manifest.staleAfter
Evidence == probe.status = "PASS" /\ Fresh

\* the alerts and the registration an MCP service is asked for are ServerMonitor's
Enable ==
  /\ service.api = "DISABLED" /\ service.enables < MaxChanges
  /\ kind = "EXTERNAL_API" => Evidence
  /\ service' = [service EXCEPT !.api = "ENABLED", !.enables = @ + 1]
  /\ UNCHANGED <<kind, manifest, active, granted, token, probe, internal, cycle, request, errors>>

\* neither epoch moves
Disable ==
  /\ service.api = "ENABLED"
  /\ service' = [service EXCEPT !.api = "DISABLED", !.disables = @ + 1]
  /\ UNCHANGED <<kind, manifest, active, granted, token, probe, internal, cycle, request, errors>>

\* every MCP service is given a new address and a new epoch, and its tokens are revoked
MigrateDomain ==
  /\ kind = "MCP" /\ service.epoch < 1
  /\ service' = [service EXCEPT !.epoch = @ + 1]
  /\ token' = [t \in Tokens |-> IF token[t].state = "live" THEN [token[t] EXCEPT !.state = "gone"] ELSE token[t]]
  /\ UNCHANGED <<kind, manifest, active, granted, probe, internal, cycle, request, errors>>

-----------------------------------------------------------------------------
(* authorizeManagedServiceToken: three reads and no lock.                   *)

\* token, credential and service in one statement
Authorize(t, s) ==
  /\ request.pc = "idle"
  /\ LET row == token[t] IN
       /\ row.state = "live" /\ row.cred \in active
       /\ row.epoch = service.epoch /\ row.permission = service.permission
       /\ Available
  /\ request' = [pc |-> IF kind = "MCP" THEN "scopes" ELSE "probes", token |-> t, scope |-> s]
  /\ UNCHANGED <<kind, manifest, service, active, granted, token, probe, internal, cycle, errors>>

InternalErrorStands == internal >= 0 /\ internal <= manifest.staleAfter

AuthorizeProbes ==
  /\ request.pc = "probes"
  /\ request' = IF Evidence /\ ~InternalErrorStands THEN [request EXCEPT !.pc = "scopes"] ELSE NoRequest
  /\ UNCHANGED <<kind, manifest, service, active, granted, token, probe, internal, cycle, errors>>

AuthorizeScopes ==
  /\ request.pc = "scopes"
  /\ request' = IF request.scope \in CurrentScopes(token[request.token].cred)
                THEN [request EXCEPT !.pc = "allowed"] ELSE NoRequest
  /\ UNCHANGED <<kind, manifest, service, active, granted, token, probe, internal, cycle, errors>>

\* proxyExternalApiOperation, or the answer to an introspection
Answer ==
  /\ request.pc = "allowed"
  /\ request' = NoRequest
  /\ UNCHANGED <<kind, manifest, service, active, granted, token, probe, internal, cycle, errors>>

-----------------------------------------------------------------------------
(* runExternalApiMonitoringTarget.                                          *)

Oldest == CHOOSE w \in Windows : \A v \in Windows : v <= w
Older(age) == IF age > Oldest THEN age ELSE age + 1

\* a tick of the clock.  A cycle runs within one: the scheduler does not wait
Tick ==
  /\ kind = "EXTERNAL_API" /\ cycle.pc = "idle"
  /\ probe' = [probe EXCEPT !.age = Older(@)]
  /\ internal' = IF internal < 0 THEN internal ELSE Older(internal)
  /\ probe' # probe \/ internal' # internal
  /\ UNCHANGED <<kind, manifest, service, active, granted, token, cycle, request, errors>>

\* latestManagedServiceProbes
StartCycle ==
  /\ kind = "EXTERNAL_API" /\ cycle.pc = "idle"
  /\ cycle' = [pc |-> "probing", due |-> probe.status = "none" \/ probe.age >= manifest.interval,
               stale |-> ~Fresh]
  /\ UNCHANGED <<kind, manifest, service, active, granted, token, probe, internal, request, errors>>

\* what is not due is not probed, and called STALE when it is too old
RecordCycle ==
  /\ cycle.pc = "probing"
  /\ \/ cycle.due /\ \E status \in {"PASS", "FAIL"} : probe' = [status |-> status, age |-> 0]
     \/ ~cycle.due /\ cycle.stale /\ probe' = [status |-> "STALE", age |-> 0]
     \/ ~cycle.due /\ ~cycle.stale /\ UNCHANGED probe
  /\ cycle' = NoCycle
  /\ UNCHANGED <<kind, manifest, service, active, granted, token, internal, request, errors>>

\* recordExternalApiMonitoringInternalError
CycleBreaks ==
  /\ cycle.pc = "probing" /\ errors < MaxErrors
  /\ internal' = 0
  /\ cycle' = NoCycle
  /\ errors' = errors + 1
  /\ UNCHANGED <<kind, manifest, service, active, granted, token, probe, request>>

-----------------------------------------------------------------------------
Monitor == StartCycle \/ RecordCycle

Next ==
  \/ \E c \in Credentials :
       \/ \E scopes \in SUBSET Scopes : ReplacePermissions(c, scopes)
       \/ \E allowed \in BOOLEAN : ReplaceKajaPermissions(c, allowed)
       \/ RevokeCredential(c)
       \/ Issue(c)
  \/ \E t \in Tokens : Expire(t) \/ \E s \in Scopes : Authorize(t, s)
  \/ Enable \/ Disable \/ MigrateDomain
  \/ AuthorizeProbes \/ AuthorizeScopes \/ Answer
  \/ Tick \/ Monitor \/ CycleBreaks

Spec == Init /\ [][Next]_accessVars

\* the scheduler and the clock go on, and an upstream that is probed for ever answers
Fairness ==
  /\ WF_accessVars(StartCycle) /\ SF_accessVars(Tick)
  /\ WF_accessVars(RecordCycle)
  /\ SF_accessVars(RecordCycle /\ probe'.status = "PASS")

FairSpec == Spec /\ Fairness

-----------------------------------------------------------------------------
(* Properties.                                                              *)

AccessTypeOK ==
  /\ kind \in {"MCP", "EXTERNAL_API"}
  /\ manifest \in [interval : Windows, staleAfter : Windows]
  /\ service \in [api : {"ENABLED", "DISABLED"}, permission : Nat, epoch : Nat, enables : Nat, disables : Nat]
  /\ active \subseteq Credentials
  /\ granted \in [Credentials -> SUBSET Scopes]
  /\ token \in [Tokens -> [state : {"none", "live", "gone"}, cred : Credentials, scopes : SUBSET Scopes,
                           permission : Nat, epoch : Nat, enables : Nat]]
  /\ probe \in [status : {"none", "PASS", "FAIL", "STALE"}, age : Nat]
  /\ internal \in Nat \union {-1}
  /\ cycle \in [pc : {"idle", "probing"}, due : BOOLEAN, stale : BOOLEAN]
  /\ request \in [pc : {"idle", "probes", "scopes", "allowed"}, token : Tokens, scope : Scopes]
  /\ errors \in Nat

\* A live token of the service's current permission epoch was issued with exactly the scopes its
\* credential holds now: the authoriser may compare epochs instead of scopes.  Revocation does
\* not move the epoch and relies on revoking the tokens.
EpochTellsScopes ==
  \A t \in Tokens :
    token[t].state = "live" /\ token[t].permission = service.permission
      => token[t].scopes = granted[token[t].cred] /\ token[t].cred \in active

\* Whatever the monitor has recorded, failures and errors of its own included, an upstream that
\* answers again is seen to: the evidence is renewed.
EvidenceRecovers == kind = "EXTERNAL_API" ~> Evidence /\ ~InternalErrorStands

\* docs/runbooks/external-api-managed-service-runtime.md:33: "This means disable/enable, permission
\* churn and revision updates all invalidate old tokens without waiting for expiry."
DisableInvalidatesTokens ==
  [][request.pc = "idle" /\ request'.pc # "idle"
       => token[request'.token].enables > service.disables]_accessVars
=============================================================================
