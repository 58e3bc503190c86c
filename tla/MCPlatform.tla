----------------------------- MODULE MCPlatform -----------------------------
(***************************************************************************)
(* The components that keep no promise of progress, checked in one run.    *)
(* They share nothing, so a behaviour is about one of them: "part" says    *)
(* which; the variables of the others stay None.                           *)
(***************************************************************************)
EXTENDS Integers, Sequences, FiniteSets, TLC

CONSTANTS
  Actors,          \* requests, processes and workers that act at the same time
  None,
  \* OwnerAccess
  Accounts, Deployed, MaxSessions,
  \* LoginThrottle
  Latecomer,       \* one more login
  Threshold, MaxFailures,
  \* RuntimeIdentity
  Issuer, MaxSecrets, MaxEdits,
  Operations,      \* WedosDns
  Edges,           \* Topology
  \* ComponentCalls
  Bearers, MaxConcurrency, MaxRevocations,
  HostReleases, Level,  \* ReleaseInstall
  \* ReadinessGates
  MaxRelease, MaxChallenges, MaxOwner,
  MaxModes,        \* WorkerLease
  \* ServiceAccess
  Credentials, ServiceScopes, Windows, MaxTokens, MaxErrors,
  \* ComponentReports
  Contents, MaxSequence, MaxReports,
  Revisions,       \* AutomationRegistry
  \* of more than one
  MaxChanges, MaxCrashes, MaxFaults

\* What the proofs need of the constants; a restore tells the recorded proxy and units from none.
ASSUME PlatformAssumption ==
  /\ IsFiniteSet(Actors) /\ None \notin Actors /\ Issuer \notin Actors
  /\ Deployed \in Accounts /\ Bearers # {} /\ Credentials # {} /\ None \notin Revisions
  /\ None \notin HostReleases
  /\ \A p, u \in HostReleases \union {None}, w \in BOOLEAN : [proxy |-> p, units |-> u, whole |-> w] # None
  /\ Level \in [HostReleases -> Nat]
  /\ MaxSecrets \in Nat /\ MaxConcurrency \in Nat /\ MaxRelease \in Nat /\ MaxChanges \in Nat

VARIABLES
  part,
  completed, account, session, cookie, request, changes,
  row, advisory, login, pending, failures,
  secret, grants, token, identity, installed, principal, proc, budget,
  ledger, rows, zone, served, process, added, faults,
  edge, permission, gone, grant, draft,
  caller, epoch, bearer, open, permitted, call, slot, revocations,
  current, stored, files, snapshot, serving, applied, install, restore, cut,
  last, revision, running, approved, evidence, healthy, enabled, base, pc, view, watch,
  beat, permits, recorded, measured, mishaps, challenges, acts,
  stage, mode, order, seen, creates, made, held, removes, lease, modes, crashes,
  kind, manifest, service, active, granted, bearerToken, probe, internal, cycle,
  authorization, errors,
  stream, events, operations, pulses, component, delivery, reports,
  definition, status, verified, editor, queued

Logins == Actors \union {Latecomer}

Owner == INSTANCE OwnerAccess WITH Requests <- Actors
Throttle == INSTANCE LoginThrottle
Identity == INSTANCE RuntimeIdentity WITH Admins <- Actors, MaxTokens <- MaxSecrets
Dns == INSTANCE WedosDns WITH Processes <- Actors
Topologies == INSTANCE Topology WITH Sessions <- Actors, session <- draft
CallGateway == INSTANCE ComponentCalls WITH
  Calls <- Actors, MaxChanges <- MaxRevocations, token <- bearer, lease <- slot,
  changes <- revocations, Tokens <- Bearers
Release == INSTANCE ReleaseInstall WITH
  Releases <- HostReleases, ledger <- applied, running <- serving
Gates == INSTANCE ReadinessGates WITH grants <- permits, faults <- mishaps
Lease == INSTANCE WorkerLease WITH Workers <- Actors
Access == INSTANCE ServiceAccess WITH
  Scopes <- ServiceScopes, token <- bearerToken, request <- authorization
Reports == INSTANCE ComponentReports WITH
  Requests <- Actors, request <- delivery, stored <- events
Registry == INSTANCE AutomationRegistry WITH Sessions <- Actors, session <- editor

ownerVars    == <<completed, account, session, cookie, request, changes>>
throttleVars == <<row, advisory, login, pending, failures>>
identityVars == <<secret, grants, token, identity, installed, principal, proc, budget>>
dnsVars      == <<ledger, rows, zone, served, process, added, faults>>
topologyVars == <<edge, permission, gone, grant, draft>>
callsVars    == <<caller, epoch, bearer, open, permitted, call, slot, revocations>>
releaseVars  == <<current, stored, files, snapshot, serving, applied, install, restore, cut>>
gatesVars    ==
  <<last, revision, running, approved, evidence, healthy, enabled, base, pc, view, watch,
  beat, permits, recorded, measured, mishaps, challenges, acts>>
leaseVars    ==
  <<stage, mode, order, seen, creates, made, held, removes, lease, modes, crashes>>
accessVars   ==
  <<kind, manifest, service, active, granted, bearerToken, probe, internal, cycle,
  authorization, errors>>
reportsVars  == <<stream, events, operations, pulses, component, delivery, reports>>
registryVars == <<definition, status, verified, editor, queued>>

\* The variables of a component that is not the one that moves.
NoOwner ==
  /\ completed = None /\ account = None /\ session = None /\ cookie = None /\ request = None
  /\ changes = None
NoThrottle ==
  /\ row = None /\ advisory = None /\ login = None /\ pending = None /\ failures = None
NoIdentity ==
  /\ secret = None /\ grants = None /\ token = None /\ identity = None /\ installed = None
  /\ principal = None /\ proc = None /\ budget = None
NoDns ==
  /\ ledger = None /\ rows = None /\ zone = None /\ served = None /\ process = None
  /\ added = None /\ faults = None
NoTopologies == edge = None /\ permission = None /\ gone = None /\ grant = None /\ draft = None
NoCallGateway ==
  /\ caller = None /\ epoch = None /\ bearer = None /\ open = None /\ permitted = None
  /\ call = None /\ slot = None /\ revocations = None
NoRelease ==
  /\ current = None /\ stored = None /\ files = None /\ snapshot = None /\ serving = None
  /\ applied = None /\ install = None /\ restore = None /\ cut = None
NoGates ==
  /\ last = None /\ revision = None /\ running = None /\ approved = None /\ evidence = None
  /\ healthy = None /\ enabled = None /\ base = None /\ pc = None /\ view = None
  /\ watch = None /\ beat = None /\ permits = None /\ recorded = None /\ measured = None
  /\ mishaps = None /\ challenges = None /\ acts = None
NoLease ==
  /\ stage = None /\ mode = None /\ order = None /\ seen = None /\ creates = None
  /\ made = None /\ held = None /\ removes = None /\ lease = None /\ modes = None
  /\ crashes = None
NoAccess ==
  /\ kind = None /\ manifest = None /\ service = None /\ active = None /\ granted = None
  /\ bearerToken = None /\ probe = None /\ internal = None /\ cycle = None
  /\ authorization = None /\ errors = None
NoReports ==
  /\ stream = None /\ events = None /\ operations = None /\ pulses = None /\ component = None
  /\ delivery = None /\ reports = None
NoRegistry ==
  /\ definition = None /\ status = None /\ verified = None /\ editor = None /\ queued = None

\* One component starts.
Init ==
  /\ part \in {"owner", "throttle", "identity", "dns", "topology", "calls", "release", "gates", "lease",
              "access", "reports", "registry"}
  /\ IF part = "owner" THEN Owner!Init ELSE NoOwner
  /\ IF part = "throttle" THEN Throttle!Init ELSE NoThrottle
  /\ IF part = "identity" THEN Identity!Init ELSE NoIdentity
  /\ IF part = "dns" THEN Dns!Init ELSE NoDns
  /\ IF part = "topology" THEN Topologies!Init ELSE NoTopologies
  /\ IF part = "calls" THEN CallGateway!Init ELSE NoCallGateway
  /\ IF part = "release" THEN Release!Init ELSE NoRelease
  /\ IF part = "gates" THEN Gates!Init ELSE NoGates
  /\ IF part = "lease" THEN Lease!Init ELSE NoLease
  /\ IF part = "access" THEN Access!Init ELSE NoAccess
  /\ IF part = "reports" THEN Reports!Init ELSE NoReports
  /\ IF part = "registry" THEN Registry!Init ELSE NoRegistry

Next ==
  \/ part = "owner" /\ Owner!Next
     /\ UNCHANGED <<part, throttleVars, identityVars, dnsVars, topologyVars, callsVars,
                      releaseVars, gatesVars, leaseVars, accessVars, reportsVars, registryVars>>
  \/ part = "throttle" /\ Throttle!Next
     /\ UNCHANGED <<part, ownerVars, identityVars, dnsVars, topologyVars, callsVars,
                      releaseVars, gatesVars, leaseVars, accessVars, reportsVars, registryVars>>
  \/ part = "identity" /\ Identity!Next
     /\ UNCHANGED <<part, ownerVars, throttleVars, dnsVars, topologyVars, callsVars,
                      releaseVars, gatesVars, leaseVars, accessVars, reportsVars, registryVars>>
  \/ part = "dns" /\ Dns!Next
     /\ UNCHANGED <<part, ownerVars, throttleVars, identityVars, topologyVars, callsVars,
                      releaseVars, gatesVars, leaseVars, accessVars, reportsVars, registryVars>>
  \/ part = "topology" /\ Topologies!Next
     /\ UNCHANGED <<part, ownerVars, throttleVars, identityVars, dnsVars, callsVars,
                      releaseVars, gatesVars, leaseVars, accessVars, reportsVars, registryVars>>
  \/ part = "calls" /\ CallGateway!Next
     /\ UNCHANGED <<part, ownerVars, throttleVars, identityVars, dnsVars, topologyVars,
                      releaseVars, gatesVars, leaseVars, accessVars, reportsVars, registryVars>>
  \/ part = "release" /\ Release!Next
     /\ UNCHANGED <<part, ownerVars, throttleVars, identityVars, dnsVars, topologyVars,
                      callsVars, gatesVars, leaseVars, accessVars, reportsVars, registryVars>>
  \/ part = "gates" /\ Gates!Next
     /\ UNCHANGED <<part, ownerVars, throttleVars, identityVars, dnsVars, topologyVars,
                      callsVars, releaseVars, leaseVars, accessVars, reportsVars, registryVars>>
  \/ part = "lease" /\ Lease!Next
     /\ UNCHANGED <<part, ownerVars, throttleVars, identityVars, dnsVars, topologyVars,
                      callsVars, releaseVars, gatesVars, accessVars, reportsVars, registryVars>>
  \/ part = "access" /\ Access!Next
     /\ UNCHANGED <<part, ownerVars, throttleVars, identityVars, dnsVars, topologyVars,
                      callsVars, releaseVars, gatesVars, leaseVars, reportsVars, registryVars>>
  \/ part = "reports" /\ Reports!Next
     /\ UNCHANGED <<part, ownerVars, throttleVars, identityVars, dnsVars, topologyVars,
                      callsVars, releaseVars, gatesVars, leaseVars, accessVars, registryVars>>
  \/ part = "registry" /\ Registry!Next
     /\ UNCHANGED <<part, ownerVars, throttleVars, identityVars, dnsVars, topologyVars,
                      callsVars, releaseVars, gatesVars, leaseVars, accessVars, reportsVars>>

all ==
  <<part, ownerVars, throttleVars, identityVars, dnsVars, topologyVars, callsVars, releaseVars,
    gatesVars, leaseVars, accessVars, reportsVars, registryVars>>

Spec == Init /\ [][Next]_all

\* The values of constants that are functions, and of releases that are numbers.
Thresholds    == [ip |-> 3, account |-> 2, ip_account |-> 1]
ThreeReleases == 1..3
Levels        == <<1, 3, 2>>

Symmetric == Permutations(Actors)

-----------------------------------------------------------------------------
(* The properties of the components, of the one that moves. *)

\* OwnerAccess: a session that can be used was opened, or renewed, with the password and the
\* second factor its account has now, whichever requests changed them meanwhile; the secret that
\* a deployment configures is the exception (http/admin-routes.ts).
UsableSessionIsCurrent == part = "owner" => Owner!UsableSessionIsCurrent

\* LoginThrottle: failed logins that arrive together are all counted against the address, the
\* account and the pair of both (recordLoginFailure).
FailuresAreCounted == part = "throttle" => Throttle!FailuresAreCounted

\* RuntimeIdentity: however rotations, revocations and a request that breaks off interleave, at
\* most one access token of a component authenticates (rotateGeneratedRuntimeAccessToken).
OneLiveToken == part = "identity" => Identity!OneLiveToken

\* RuntimeIdentity: when nobody is at work and nothing broke off, the service is installed with
\* the value that the secret holds and that authenticates it (generated-component.ts).
CredentialWorks == part = "identity" => Identity!CredentialWorks

\* WedosDns: an operation has one TXT record at most, the one its row names while the row says it
\* is there and none once it says it is deleted, whatever dies in between and whoever recovers at
\* the same time (wedos-dns-operation.ts).
LedgerTellsRows == part = "dns" => Dns!LedgerTellsRows

\* Topology: whatever is drawn, authorised or revoked at the same time, a deregistered component
\* ends up with no connection (dashboard-topology.ts).
DeregisteredIsDisconnected == part = "topology" => Topologies!DeregisteredIsDisconnected

\* ComponentCalls: however many requests pass the authorisation at once, no more of them hold a
\* lease that is not overdue than the tool may run (component-mcp-runtime.ts).
CapacityHolds == part = "calls" => CallGateway!CapacityHolds

\* ReleaseInstall: what is kept as a release's configuration is of that release alone, and all of it
\* when its archive was finished, wherever installs and rollbacks before failed, as long as no
\* restore ended half way (install-release.sh, release-config.sh).
SnapshotTellsRelease == part = "release" => Release!SnapshotTellsRelease

\* ReadinessGates: while a component is enabled, every gate of its release has a result that was
\* recorded for that release, whatever was measured, replaced or restored meanwhile (component.ts).
GatesWereRecorded == part = "gates" => Gates!GatesWereRecorded

\* WorkerLease: at most one worker of a handler believes that it is the active one, and the lease
\* file is its own (bootstrap.mjs).
OneHolder == part = "lease" => Lease!OneHolder

\* ServiceAccess: a live token of the service's current permission epoch carries the scopes its
\* credential holds now, so that comparing epochs is enough (managed-service.ts).
EpochTellsScopes == part = "access" => Access!EpochTellsScopes

\* ComponentReports: the audit events stored are one chain without a hole and a gap that is shown
\* is really missing, in whatever order, how often and together they arrive (component-audit.ts).
OneChain == part = "reports" => Reports!OneChain

\* AutomationRegistry: the revision that an automation points at was activated, and what it ran was
\* verified, whatever was activated, verified or failed meanwhile (browser-automation.ts).
PointerIsActive == part = "registry" => Registry!PointerIsActive
=============================================================================
