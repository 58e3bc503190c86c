----------------------------- MODULE MCServices -----------------------------
(***************************************************************************)
(* Small instances of the components that promise progress, checked in one *)
(* run.  They share no variable; each is explored from its initial states  *)
(* under its own fairness while the others rest.                           *)
(***************************************************************************)
EXTENDS Naturals

CONSTANTS
  None,
  \* AlertDelivery
  Raisers, Channels, Deliverers, MaxAlerts, MaxAttempts, MaxRetries,
  \* ServiceAccess
  Credentials, Scopes, Windows, MaxTokens, MaxChanges, MaxErrors,
  \* E2ERun
  Runs, Scenarios, Workers, Requests, MaxRotations,
  \* GeneratedRuntime
  Calls, Torn, MaxCommands,
  \* of more than one
  MaxCrashes

\* What the proofs need: a file that is half written, or not there, is told from the keys it may
\* hold, and no mode from a mode.
ASSUME ServicesAssumption ==
  /\ MaxAlerts \in Nat /\ MaxAttempts \in Nat
  /\ None # Torn /\ None \notin {"on", "off"}
  /\ \A keys \in SUBSET Calls : keys # None /\ keys # Torn

VARIABLES
  part,  \* the component that moves in this behaviour
  alert, raiser, advisory, delivery, deliverer, spent,
  kind, manifest, service, active, granted, token, probe, internal, cycle, request, errors,
  run, evidence, worker, caller, workerToken,
  host, child, call, store, snap, file, tmp, enabled, modeFile, command, acked, saved, overlap,
  crashes, commands

Alerts == INSTANCE AlertDelivery
Access == INSTANCE ServiceAccess
E2E == INSTANCE E2ERun WITH request <- caller, token <- workerToken
Runtime == INSTANCE GeneratedRuntime

alertsVars  == <<alert, raiser, advisory, delivery, deliverer, spent>>
accessVars  == <<kind, manifest, service, active, granted, token, probe, internal, cycle,
                 request, errors>>
e2eVars     == <<run, evidence, worker, caller, workerToken>>
runtimeVars == <<host, child, call, store, snap, file, tmp, enabled, modeFile, command, acked,
                 saved, overlap, crashes, commands>>

Init ==
  /\ part \in {"alerts", "access", "e2e", "runtime"}
  /\ Alerts!Init /\ Access!Init /\ E2E!Init /\ Runtime!Init
  \* what rests starts in one of its initial states
  /\ part # "access" => kind = "MCP" /\ manifest = [interval |-> 1, staleAfter |-> 1]
  /\ part # "e2e" => workerToken = 0

AlertsMove  == part = "alerts"  /\ UNCHANGED <<part, accessVars, e2eVars, runtimeVars>>
AccessMoves == part = "access"  /\ UNCHANGED <<part, alertsVars, e2eVars, runtimeVars>>
E2EMoves    == part = "e2e"     /\ UNCHANGED <<part, alertsVars, accessVars, runtimeVars>>
RuntimeMoves == part = "runtime" /\ UNCHANGED <<part, alertsVars, accessVars, e2eVars>>

Next ==
  \/ AlertsMove /\ Alerts!Next
  \/ AccessMoves /\ Access!Next
  \/ E2EMoves /\ E2E!Next
  \/ RuntimeMoves /\ Runtime!Next

\* The fairness of the components, of the one that moves.
Fairness ==
  /\ \A d \in Deliverers : WF_alertsVars(AlertsMove /\ Alerts!Deliver(d))
  /\ \A a \in 1..MaxAlerts, c \in Channels : WF_alertsVars(AlertsMove /\ Alerts!FallsDue(a, c))
  /\ WF_accessVars(AccessMoves /\ Access!StartCycle) /\ SF_accessVars(AccessMoves /\ Access!Tick)
  /\ WF_accessVars(AccessMoves /\ Access!RecordCycle)
  /\ SF_accessVars(AccessMoves /\ Access!RecordCycle /\ probe'.status = "PASS")
  /\ \A w \in Workers :
       WF_e2eVars(E2EMoves /\ E2E!Claim(w)) /\ WF_e2eVars(E2EMoves /\ E2E!Execute(w))
  /\ \A r \in Runs : WF_e2eVars(E2EMoves /\ E2E!DeadlinePasses(r))
  /\ \A c \in Calls : WF_runtimeVars(RuntimeMoves /\ Runtime!Timeout(c))
  /\ WF_runtimeVars(RuntimeMoves /\ Runtime!Boot)

all == <<part, alertsVars, accessVars, e2eVars, runtimeVars>>

Spec == Init /\ [][Next]_all /\ Fairness

\* AlertDelivery: raisers that race never leave two standing alerts of one subject and type.
OneStandingAlert == Alerts!OneStandingAlert
\* AlertDelivery: what was delivered stays delivered and is not posted again.
DeliveredIsFinal == Alerts!DeliveredIsFinal
\* AlertDelivery: every delivery of an alert is made or given up.
EveryDeliverySettles == Alerts!EveryDeliverySettles
\* ServiceAccess: an upstream that answers again is seen to answer.
EvidenceRecovers == part = "access" /\ kind = "EXTERNAL_API" ~> Access!Evidence /\ ~Access!InternalErrorStands
\* E2ERun: a run that is queued ends.
EveryRunEnds == E2E!EveryRunEnds
\* GeneratedRuntime: what the runtime has acknowledged is kept.
AcknowledgedIsKept == Runtime!AcknowledgedIsKept
\* GeneratedRuntime: a call handed to the handler is answered or failed.
EveryCallSettles == Runtime!EveryCallSettles
=============================================================================
