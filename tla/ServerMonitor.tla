--------------------------- MODULE ServerMonitor ---------------------------
(***************************************************************************)
(* One legacy MCP server with its managed service and its component, the   *)
(* monitoring scheduler that probes it and enforces its recertification,   *)
(* and the OWNER who enables, tests, disables and deletes it through two   *)
(* sets of routes (domain/server-state.ts, domain/managed-service.ts,      *)
(* onboarding/monitoring.ts, http/admin-routes.ts).                        *)
(*                                                                         *)
(* The scheduler works from the row that its cycle selected; every write   *)
(* is a transaction of its own, and the OWNER's requests come in between.  *)
(* Alerts below CRITICAL gate nothing and are left out.                    *)
(***************************************************************************)
EXTENDS Integers

CONSTANTS
  MaxStreak,     \* bound: consecutive failures counted
  MaxOrders,     \* bound: enables, disables, tests and profiles of the OWNER
  MaxSuppressed, \* bound: alerts that the OWNER suppresses
  MaxCrashes     \* bound: restarts of the scheduler

ASSUME BoundAssumption ==
  MaxStreak \in Nat /\ MaxOrders \in Nat /\ MaxSuppressed \in Nat /\ MaxCrashes \in Nat

VARIABLES
  server,     \* mcp_server
  service,    \* its managed_service; api_state is written together with enabled
  component,  \* its component
  review,     \* what evaluateRecertification makes of the review dates by now
  profile,    \* monitoring_profile; due: next_probe_at has passed
  alerts,     \* CRITICAL operational_alert of the server by type
  monitor,    \* the scheduler: where its cycle is, and the row it selected
  request,    \* a request of the OWNER in hand, and what it has read
  budget      \* what the bounds count

monitorVars == <<server, service, component, review, profile, alerts, monitor, request, budget>>

Live      == {"TRIAL", "ACTIVE"}
Contained == {"SUSPENDED", "QUARANTINED"}
Registration == Live \union Contained \union {"REGISTERED_DISABLED", "RETIRED"}
Operational  == {"UNKNOWN", "HEALTHY", "DEGRADED", "UNHEALTHY", "DISABLED", "QUARANTINED", "RETIRED"}
Phases       == {"VALID", "WARNING", "GRACE", "SUSPENDED", "INVALID"}
AlertTypes   == {"blocked", "profile_missing", "internal_error", "probe"}

NoRow     == [op |-> "UNKNOWN", monitored |-> FALSE, streak |-> 0]
NoRequest == [kind |-> "none", reg |-> "RETIRED", current |-> FALSE]

Init ==
  /\ server = [reg |-> "REGISTERED_DISABLED", enabled |-> FALSE, op |-> "DISABLED"]
  /\ service = [life |-> "REGISTERED_DISABLED", enabled |-> FALSE]
  /\ component = [life |-> "APPROVED", enabled |-> FALSE]
  /\ review \in {"VALID", "INVALID"}
  /\ profile = [enabled |-> TRUE, streak |-> 0, due |-> TRUE]
  /\ alerts = [a \in AlertTypes |-> "none"]
  /\ monitor = [pc |-> "idle", row |-> NoRow]
  /\ request = NoRequest
  /\ budget = [orders |-> 0, suppressed |-> 0, crashes |-> 0]

-----------------------------------------------------------------------------
(* The state machine of the server, and what every transition carries over. *)

\* TRANSITIONS; a contained server's way to REGISTERED_DISABLED needs recoveryApproved,
\* which no caller passes
Allowed(from, to) ==
  to \in CASE from = "REGISTERED_DISABLED" -> {"TRIAL", "SUSPENDED", "QUARANTINED", "RETIRED"}
           [] from = "TRIAL"  -> {"ACTIVE", "REGISTERED_DISABLED", "SUSPENDED", "QUARANTINED"}
           [] from = "ACTIVE" -> {"REGISTERED_DISABLED", "SUSPENDED", "QUARANTINED", "RETIRED"}
           [] from = "SUSPENDED" -> {"QUARANTINED", "RETIRED"}
           [] from = "QUARANTINED" -> {"RETIRED"}
           [] from = "RETIRED" -> {}

CanActivate == review \in {"VALID", "WARNING"} /\ profile.enabled

OperationalStateFor(to) ==
  CASE to = "TRIAL" -> "UNKNOWN" [] to = "ACTIVE" -> "HEALTHY"
    [] to \in {"QUARANTINED", "RETIRED"} -> to [] OTHER -> "DISABLED"

\* transitionServerState: one transaction; it takes the version away from a request in hand
Transition(to) ==
  /\ Allowed(server.reg, to)
  /\ to \in Live => CanActivate
  /\ server' = [reg |-> to, enabled |-> to \in Live, op |-> OperationalStateFor(to)]
  /\ service' = [life |-> to, enabled |-> to \in Live]
  /\ component' = [enabled |-> to \in Live,
                   life |-> IF to \in Live THEN "ACTIVE"
                            ELSE IF to \in Contained THEN to ELSE "APPROVED"]

Outdated == [request EXCEPT !.current = FALSE]

\* raiseAlert keeps the status of an alert that is not closed; closeAlert closes any
Raise(set) == [a \in AlertTypes |-> IF a \in set /\ alerts[a] = "none" THEN "open" ELSE alerts[a]]
Close(set) == [a \in AlertTypes |-> IF a \in set THEN "none" ELSE alerts[a]]

-----------------------------------------------------------------------------
(* The scheduler's cycle over the server.                                   *)

Goto(pc) == monitor' = [monitor EXCEPT !.pc = pc]

\* monitoring_profile after a cycle over the server
Probed(failed) ==
  [profile EXCEPT !.due = FALSE,
    !.streak = IF ~failed THEN 0 ELSE IF @ < MaxStreak THEN @ + 1 ELSE @]

\* the head of runOnce, and its selection of the servers whose next probe is due
ExpireSuppressions ==
  /\ monitor.pc = "idle" /\ \E a \in AlertTypes : alerts[a] = "suppressed"
  /\ alerts' = [a \in AlertTypes |-> IF alerts[a] = "suppressed" THEN "open" ELSE alerts[a]]
  /\ UNCHANGED <<server, service, component, review, profile, monitor, request, budget>>

Selectable_Active == server.reg = "ACTIVE" /\ profile.due
Selectable == server.reg \in Live /\ profile.due

Select ==
  /\ monitor.pc = "idle" /\ Selectable
  /\ monitor' = [pc |-> "review",
       row |-> [op |-> server.op, monitored |-> profile.enabled, streak |-> profile.streak]]
  /\ UNCHANGED <<server, service, component, review, profile, alerts, request, budget>>

\* recordInternalError, wherever the cycle over the server threw
InternalError ==
  /\ alerts' = Raise({"internal_error"}) /\ profile' = Probed(TRUE) /\ Goto("idle")
  /\ UNCHANGED <<server, service, component, review, request, budget>>

\* a transition of the scheduler with what its transaction writes; a forbidden one rolls back
Block(to, opened, probed) ==
  \/ /\ Transition(to) /\ alerts' = opened /\ profile' = probed
     /\ Goto("stop") /\ request' = Outdated
     /\ UNCHANGED <<review, budget>>
  \/ ~Allowed(server.reg, to) /\ InternalError

\* enforceRecertification judges the dates of the row by the clock
KeepServing ==
  /\ monitor.pc = "review" /\ review \in {"VALID", "WARNING", "GRACE"}
  /\ alerts' = IF review = "VALID" THEN Close({"blocked"}) ELSE alerts
  /\ Goto("probe")
  /\ UNCHANGED <<server, service, component, review, profile, request, budget>>

BlockOverdue ==
  /\ monitor.pc = "review" /\ review \in {"SUSPENDED", "INVALID"}
  /\ Block("SUSPENDED", Raise({"blocked"}), profile)

BlockUnwatched ==
  /\ monitor.pc = "probe" /\ ~monitor.row.monitored
  /\ Block("SUSPENDED", Raise({"profile_missing"}), profile)

\* evaluateOperationalState, from the state and the streak of the row; few: less than three samples
Evaluated(worst, few) ==
  LET current == IF monitor.row.op \in {"HEALTHY", "DEGRADED", "UNHEALTHY"}
                 THEN monitor.row.op ELSE "UNKNOWN" IN
  IF few THEN current
  ELSE IF worst = "critical" /\ monitor.row.streak >= 1 THEN "UNHEALTHY"
  ELSE IF worst # "pass" \/ current = "UNHEALTHY" \/ monitor.row.streak > 0 THEN "DEGRADED"
  ELSE "HEALTHY"

\* the transaction at the end of probeServer; worst: the worst of the probes that were due.
\* Which alerts a failure opens is for the rules of the profile and the probes' history to say
RecordProbes(worst, few) ==
  /\ monitor.pc = "probe" /\ monitor.row.monitored
  /\ server' = [server EXCEPT !.op = Evaluated(worst, few)]
  /\ profile' = Probed(worst # "pass")
  /\ \E opened \in IF worst = "pass" THEN {{}} ELSE {{}, {"probe"}} :
     \E closed \in IF worst = "pass" THEN {{"probe"}} \union IF few THEN {{}} ELSE {} ELSE {{}} :
       alerts' = [a \in AlertTypes |->
         IF a \in closed \union {"internal_error"} THEN "none" ELSE Raise(opened)[a]]
  /\ Goto("idle")
  /\ UNCHANGED <<service, component, review, request, budget>>

\* the same transaction when the artifact or the contract drifted
RecordDrift ==
  /\ monitor.pc = "probe" /\ monitor.row.monitored
  /\ \E opened \in {{}, {"probe"}} :
       Block("QUARANTINED", [Raise(opened) EXCEPT !["internal_error"] = "none"], Probed(TRUE))

ProbesThrow == monitor.pc = "probe" /\ monitor.row.monitored /\ InternalError

\* oci.stop after the commit, and recordInternalError when it fails
Stop ==
  \/ /\ monitor.pc = "stop" /\ Goto("idle")
     /\ UNCHANGED <<server, service, component, review, profile, alerts, request, budget>>
  \/ monitor.pc = "stop" /\ InternalError

Crash ==
  /\ monitor.pc # "idle" /\ budget.crashes < MaxCrashes
  /\ Goto("idle") /\ budget' = [budget EXCEPT !.crashes = @ + 1]
  /\ UNCHANGED <<server, service, component, review, profile, alerts, request>>

-----------------------------------------------------------------------------
(* The OWNER's requests.                                                    *)

Ordered == budget.orders < MaxOrders /\ budget' = [budget EXCEPT !.orders = @ + 1]

\* POST mcp-servers/:id/enabled
SetServerEnabled(enabled) ==
  /\ Ordered /\ server.enabled # enabled
  /\ Transition(IF enabled THEN "TRIAL" ELSE "REGISTERED_DISABLED")
  /\ request' = Outdated
  /\ UNCHANGED <<review, profile, alerts, monitor>>

\* POST mcp-servers/:id/test: reads the server, leases a slot and calls the handler, which
\* may take its time; then it activates what was a trial when it started
StartTest ==
  /\ Ordered /\ request.kind = "none" /\ server.enabled /\ server.reg \in Live /\ CanActivate
  /\ request' = [kind |-> "test", reg |-> server.reg, current |-> TRUE]
  /\ UNCHANGED <<server, service, component, review, profile, alerts, monitor>>

TestPasses ==
  /\ request.kind = "test" /\ request.reg = "TRIAL" /\ Transition("ACTIVE")
  /\ request' = NoRequest
  /\ UNCHANGED <<review, profile, alerts, monitor, budget>>

\* the handler failed, the server was active already, or it cannot be activated any more
TestEnds ==
  /\ request.kind = "test"
  /\ request' = NoRequest
  /\ UNCHANGED <<server, service, component, review, profile, alerts, monitor, budget>>

\* PUT mcp-servers/:id/monitoring-profile (its own version check: one editor here)
SaveProfile(enabled) ==
  /\ Ordered /\ server.reg \notin Live
  /\ profile' = [profile EXCEPT !.enabled = enabled, !.due = TRUE]
  /\ UNCHANGED <<server, service, component, review, alerts, monitor, request>>

\* managed-services/:id/api::enable and ::disable: the OWNER has seen the lock version; the
\* server's registration is read, unlocked, by the join that locks the service
ReadService(kind) ==
  /\ Ordered /\ request.kind = "none"
  /\ request' = [kind |-> kind, reg |-> server.reg, current |-> TRUE]
  /\ UNCHANGED <<server, service, component, review, profile, alerts, monitor>>

VersionMatches_Ignored == TRUE
VersionMatches == request.current

NoCriticalAlert == \A a \in AlertTypes : alerts[a] # "open"

\* a service that is not enabled answers service_disabled to assertManagedServiceRuntimeAvailable,
\* which the request passes over, and with it lifecycle, monitoring and recertification
EnableService ==
  /\ request.kind = "enable" /\ VersionMatches
  /\ ~service.enabled /\ NoCriticalAlert
  /\ service' = [enabled |-> TRUE,
       life |-> IF service.life = "REGISTERED_DISABLED" THEN "TRIAL" ELSE service.life]
  /\ server' = IF request.reg = "REGISTERED_DISABLED"
               THEN [reg |-> "TRIAL", enabled |-> TRUE, op |-> "UNKNOWN"] ELSE server
  /\ component' = [enabled |-> TRUE, life |-> "ACTIVE"]
  /\ request' = NoRequest
  /\ UNCHANGED <<review, profile, alerts, monitor, budget>>

DisableService ==
  /\ request.kind = "disable" /\ VersionMatches
  /\ service.enabled
  /\ service' = [enabled |-> FALSE,
       life |-> IF service.life \in Live THEN "REGISTERED_DISABLED" ELSE service.life]
  /\ server' = IF request.reg \in Live
               THEN [reg |-> "REGISTERED_DISABLED", enabled |-> FALSE, op |-> "DISABLED"]
               ELSE server
  /\ component' = [enabled |-> FALSE, life |-> "APPROVED"]
  /\ request' = NoRequest
  /\ UNCHANGED <<review, profile, alerts, monitor, budget>>

\* lock_version_conflict, critical_alert_open, or nothing to change
ServiceRequestEnds ==
  /\ request.kind \in {"enable", "disable"}
  /\ request' = NoRequest
  /\ UNCHANGED <<server, service, component, review, profile, alerts, monitor, budget>>

\* POST mcp-servers/:id/delete
DeleteServer ==
  /\ server.reg # "RETIRED"
  /\ server' = [reg |-> "RETIRED", enabled |-> FALSE, op |-> "RETIRED"]
  /\ service' = [life |-> "RETIRED", enabled |-> FALSE]
  /\ component' = [life |-> "RETIRED", enabled |-> FALSE]
  /\ request' = Outdated
  /\ UNCHANGED <<review, profile, alerts, monitor, budget>>

SuppressAlert(a) ==
  /\ budget.suppressed < MaxSuppressed /\ alerts[a] = "open"
  /\ alerts' = [alerts EXCEPT ![a] = "suppressed"]
  /\ budget' = [budget EXCEPT !.suppressed = @ + 1]
  /\ UNCHANGED <<server, service, component, review, profile, monitor, request>>

-----------------------------------------------------------------------------
(* The clock.                                                               *)

ReviewAges ==
  /\ review \in {"VALID", "WARNING", "GRACE"}
  /\ review' = CASE review = "VALID" -> "WARNING" [] review = "WARNING" -> "GRACE"
                 [] review = "GRACE" -> "SUSPENDED"
  /\ UNCHANGED <<server, service, component, profile, alerts, monitor, request, budget>>

ProbeFallsDue ==
  /\ ~profile.due /\ profile' = [profile EXCEPT !.due = TRUE]
  /\ UNCHANGED <<server, service, component, review, alerts, monitor, request, budget>>

MonitorStep ==
  \/ Select \/ KeepServing \/ BlockOverdue \/ BlockUnwatched
  \/ \E worst \in {"pass", "minor", "critical"}, few \in BOOLEAN : RecordProbes(worst, few)
  \/ RecordDrift \/ ProbesThrow \/ Stop

OwnerStep ==
  \/ \E b \in BOOLEAN : SetServerEnabled(b) \/ SaveProfile(b)
  \/ StartTest \/ TestPasses \/ TestEnds
  \/ \E kind \in {"enable", "disable"} : ReadService(kind)
  \/ EnableService \/ DisableService \/ ServiceRequestEnds \/ DeleteServer
  \/ \E a \in AlertTypes : SuppressAlert(a)

Next == MonitorStep \/ OwnerStep \/ ExpireSuppressions \/ Crash \/ ReviewAges \/ ProbeFallsDue

Spec     == Init /\ [][Next]_monitorVars
FairSpec == Spec /\ WF_monitorVars(MonitorStep) /\ WF_monitorVars(ProbeFallsDue)

-----------------------------------------------------------------------------
(* Properties.                                                              *)

\* Every variable keeps its type.
MonitorTypeOK ==
  /\ server \in [reg : Registration, enabled : BOOLEAN, op : Operational]
  /\ service \in [life : Registration, enabled : BOOLEAN]
  /\ component \in [life : {"APPROVED", "ACTIVE", "RETIRED"} \union Contained, enabled : BOOLEAN]
  /\ review \in Phases
  /\ profile \in [enabled : BOOLEAN, streak : 0..MaxStreak, due : BOOLEAN]
  /\ alerts \in [AlertTypes -> {"none", "open", "suppressed"}]
  /\ monitor \in [pc : {"idle", "review", "probe", "stop"},
                  row : [op : Operational, monitored : BOOLEAN, streak : 0..MaxStreak]]
  /\ request \in [kind : {"none", "test", "enable", "disable"}, reg : Registration, current : BOOLEAN]
  /\ budget \in [orders : 0..MaxOrders, suppressed : 0..MaxSuppressed, crashes : 0..MaxCrashes]

\* A managed service that canServeManagedService lets serve stands for a server that is in
\* trial or active, although two sets of routes and the scheduler write the two rows.
ServedOnlyByLiveServer ==
  service.enabled /\ service.life \in Live => server.reg \in Live /\ server.enabled

\* A server that the scheduler has contained is never put to work again: it stays contained
\* until it is deleted, whichever route the OWNER takes and however old the page is.
ContainedStaysContained ==
  [][server.reg \in Contained => server'.reg \in Contained \union {"RETIRED"}]_monitorVars

\* A server whose review is overdue by the grace period does not stay in service.
OverdueGoesDown == review = "SUSPENDED" /\ server.enabled ~> ~server.enabled
=============================================================================
