------------------------ MODULE ServerMonitorProofs ------------------------
(***************************************************************************)
(* Proofs about ServerMonitor for all bounds: the rows of a server and of  *)
(* its managed service, which two sets of routes and the scheduler write,  *)
(* agree, because a request of the managed service that is still current   *)
(* has read the registration that the server has now.                      *)
(***************************************************************************)
EXTENDS ServerMonitor, TLAPS

\* Server and service are in one phase, a server is enabled exactly in trial and
\* in service, and a current request is not out of date.
RowsAgree ==
  /\ service.life = server.reg
  /\ server.enabled <=> server.reg \in Live
  /\ request.kind \in {"enable", "disable"} /\ request.current => request.reg = server.reg

MonitorInv == MonitorTypeOK /\ RowsAgree

-----------------------------------------------------------------------------
(* The parts that several actions share.                                    *)

ServerType    == [reg : Registration, enabled : BOOLEAN, op : Operational]
ServiceType   == [life : Registration, enabled : BOOLEAN]
ComponentType == [life : {"APPROVED", "ACTIVE", "RETIRED"} \union Contained, enabled : BOOLEAN]
ProfileType   == [enabled : BOOLEAN, streak : 0..MaxStreak, due : BOOLEAN]
AlertsType    == [AlertTypes -> {"none", "open", "suppressed"}]

\* A transition leaves three rows that agree, and a contained server contained.
LEMMA TransitionRows ==
  ASSUME NEW to \in Registration, Transition(to)
  PROVE  /\ server' \in ServerType /\ service' \in ServiceType /\ component' \in ComponentType
         /\ service'.life = server'.reg /\ (server'.enabled <=> server'.reg \in Live)
         /\ server.reg \in Contained => server'.reg \in Contained \union {"RETIRED"}
<1>1. OperationalStateFor(to) \in Operational
  BY DEF OperationalStateFor, Operational, Registration
<1> DEFINE live == to \in Live
           life == IF to \in Live THEN "ACTIVE" ELSE IF to \in Contained THEN to ELSE "APPROVED"
<1>2. live \in BOOLEAN /\ life \in {"APPROVED", "ACTIVE", "RETIRED"} \union Contained
  OBVIOUS
<1>3. /\ server' = [reg |-> to, enabled |-> live, op |-> OperationalStateFor(to)]
      /\ service' = [life |-> to, enabled |-> live]
      /\ component' = [enabled |-> live, life |-> life]
  BY Zenon DEF Transition
<1>4. server.reg \in Contained => to \in Contained \union {"RETIRED"}
  BY DEF Transition, Allowed, Contained
<1>5. live <=> to \in Live
  OBVIOUS
<1> HIDE DEF live, life
<1>6. server' \in ServerType /\ service' \in ServiceType /\ component' \in ComponentType
  BY <1>1, <1>2, <1>3 DEF ServerType, ServiceType, ComponentType
<1>7. server'.reg = to /\ service'.life = to /\ server'.enabled = live
  BY <1>3
<1> QED
  BY <1>4, <1>5, <1>6, <1>7

LEMMA ProbedTyped ==
  ASSUME profile \in ProfileType, NEW failed \in BOOLEAN
  PROVE  Probed(failed) \in ProfileType
<1>1. profile.streak \in 0..MaxStreak
  BY DEF ProfileType
<1>2. ASSUME NEW n \in 0..MaxStreak
      PROVE  [profile EXCEPT !.due = FALSE, !.streak = n] \in ProfileType
  BY DEF ProfileType
<1>3. CASE failed /\ profile.streak < MaxStreak
  <2>1. profile.streak + 1 \in 0..MaxStreak
    BY <1>1, <1>3, BoundAssumption
  <2> QED
    BY <1>2, <1>3, <2>1 DEF Probed
<1>4. CASE failed /\ ~(profile.streak < MaxStreak)
  BY <1>1, <1>2, <1>4 DEF Probed
<1>5. CASE ~failed
  <2>1. 0 \in 0..MaxStreak
    BY BoundAssumption
  <2> QED
    BY <1>2, <1>5, <2>1 DEF Probed
<1> QED
  BY <1>3, <1>4, <1>5

LEMMA AlertsTyped ==
  ASSUME alerts \in AlertsType, NEW set
  PROVE  Raise(set) \in AlertsType /\ Close(set) \in AlertsType
BY DEF Raise, Close, AlertsType

\* What a step leaves when it writes no registration.
Quiet ==
  /\ server'.reg = server.reg /\ server'.enabled = server.enabled
  /\ UNCHANGED service
  /\ \/ UNCHANGED request
     \/ request' = NoRequest \/ request'.kind = "test"
     \/ request'.reg = server.reg

LEMMA QuietAgrees ==
  ASSUME RowsAgree, Quiet
  PROVE  RowsAgree' /\ (server.reg \in Contained => server'.reg \in Contained \union {"RETIRED"})
BY DEF RowsAgree, Quiet, NoRequest

-----------------------------------------------------------------------------
(* Types.                                                                   *)

LEMMA TypesMean ==
  MonitorTypeOK <=>
    /\ server \in ServerType /\ service \in ServiceType /\ component \in ComponentType
    /\ review \in Phases /\ profile \in ProfileType /\ alerts \in AlertsType
    /\ monitor \in [pc : {"idle", "review", "probe", "stop"},
                    row : [op : Operational, monitored : BOOLEAN, streak : 0..MaxStreak]]
    /\ request \in [kind : {"none", "test", "enable", "disable"}, reg : Registration, current : BOOLEAN]
    /\ budget \in [orders : 0..MaxOrders, suppressed : 0..MaxSuppressed, crashes : 0..MaxCrashes]
BY DEF MonitorTypeOK, ServerType, ServiceType, ComponentType, ProfileType, AlertsType

LEMMA NoneTyped ==
  /\ NoRow \in [op : Operational, monitored : BOOLEAN, streak : 0..MaxStreak]
  /\ NoRequest \in [kind : {"none", "test", "enable", "disable"}, reg : Registration, current : BOOLEAN]
BY BoundAssumption DEF NoRow, NoRequest, Operational, Registration

LEMMA GotoTyped ==
  ASSUME MonitorTypeOK, NEW pc \in {"idle", "review", "probe", "stop"}, Goto(pc)
  PROVE  monitor' \in [pc : {"idle", "review", "probe", "stop"},
                       row : [op : Operational, monitored : BOOLEAN, streak : 0..MaxStreak]]
BY DEF MonitorTypeOK, Goto

LEMMA OutdatedTyped ==
  ASSUME MonitorTypeOK
  PROVE  /\ Outdated \in [kind : {"none", "test", "enable", "disable"}, reg : Registration,
                          current : BOOLEAN]
         /\ Outdated.current = FALSE
BY DEF MonitorTypeOK, Outdated

LEMMA OrderedTyped ==
  ASSUME MonitorTypeOK, Ordered
  PROVE  budget' \in [orders : 0..MaxOrders, suppressed : 0..MaxSuppressed, crashes : 0..MaxCrashes]
<1>1. budget.orders + 1 \in 0..MaxOrders
  BY BoundAssumption DEF MonitorTypeOK, Ordered
<1> QED
  BY <1>1 DEF MonitorTypeOK, Ordered

LEMMA EvaluatedTyped ==
  ASSUME NEW worst, NEW few \in BOOLEAN
  PROVE  Evaluated(worst, few) \in Operational
BY DEF Evaluated, Operational

-----------------------------------------------------------------------------
(* The step: types, agreement and containment in one.                       *)

Kept ==
  /\ MonitorTypeOK' /\ RowsAgree'
  /\ server.reg \in Contained => server'.reg \in Contained \union {"RETIRED"}

\* A transition, whoever makes it, takes a request's version or is that request.
LEMMA TransitionKeeps ==
  ASSUME MonitorInv, NEW to \in Registration, Transition(to),
         UNCHANGED review, profile' \in ProfileType, alerts' \in AlertsType,
         UNCHANGED monitor \/ (\E pc \in {"stop", "idle"} : Goto(pc)),
         request' = Outdated \/ request' = NoRequest,
         UNCHANGED budget \/ Ordered
  PROVE  Kept
<1>1. MonitorTypeOK'
  <2>1. monitor' \in [pc : {"idle", "review", "probe", "stop"},
                      row : [op : Operational, monitored : BOOLEAN, streak : 0..MaxStreak]]
    BY GotoTyped, TypesMean DEF MonitorInv
  <2>2. budget' \in [orders : 0..MaxOrders, suppressed : 0..MaxSuppressed, crashes : 0..MaxCrashes]
    BY OrderedTyped, TypesMean DEF MonitorInv
  <2>3. request' \in [kind : {"none", "test", "enable", "disable"}, reg : Registration, current : BOOLEAN]
    BY NoneTyped, OutdatedTyped DEF MonitorInv
  <2>4. review' \in Phases
    BY DEF MonitorInv, MonitorTypeOK
  <2>5. server' \in ServerType /\ service' \in ServiceType /\ component' \in ComponentType
    BY TransitionRows
  <2> QED
    BY <2>1, <2>2, <2>3, <2>4, <2>5 DEF MonitorTypeOK, ServerType, ServiceType, ComponentType,
       ProfileType, AlertsType
<1>2. ~(request'.kind \in {"enable", "disable"} /\ request'.current)
  <2>1. MonitorTypeOK
    BY DEF MonitorInv
  <2>2. CASE request' = Outdated
    BY <2>1, <2>2, OutdatedTyped, Zenon
  <2>3. CASE request' = NoRequest
    BY <2>3 DEF NoRequest
  <2> QED
    BY <2>2, <2>3
<1> QED
  BY <1>1, <1>2, TransitionRows DEF Kept, RowsAgree

\* recordInternalError
LEMMA ErrorKeeps ==
  ASSUME MonitorInv, InternalError
  PROVE  Kept
<1>1. Quiet
  BY DEF InternalError, Quiet
<1>2. profile \in ProfileType /\ alerts \in AlertsType
  BY TypesMean DEF MonitorInv
<1>3. profile' \in ProfileType /\ alerts' \in AlertsType
  BY <1>2, ProbedTyped, AlertsTyped DEF InternalError
<1>4. monitor' \in [pc : {"idle", "review", "probe", "stop"},
                    row : [op : Operational, monitored : BOOLEAN, streak : 0..MaxStreak]]
  BY GotoTyped DEF InternalError, MonitorInv
<1>5. MonitorTypeOK'
  BY <1>3, <1>4 DEF InternalError, MonitorInv, MonitorTypeOK, ProfileType, AlertsType
<1> QED
  BY <1>1, <1>5, QuietAgrees DEF Kept, MonitorInv

LEMMA BlockKeeps ==
  ASSUME MonitorInv, NEW to \in Contained, NEW opened \in AlertsType, NEW probed \in ProfileType,
         Block(to, opened, probed)
  PROVE  Kept
<1>1. to \in Registration
  BY DEF Registration
<1>2. CASE InternalError
  BY <1>2, ErrorKeeps
<1>3. CASE ~InternalError
  BY <1>1, <1>3, TransitionKeeps DEF Block
<1> QED
  BY <1>2, <1>3

\* A step that writes no registration and keeps the types.
LEMMA QuietKeeps ==
  ASSUME MonitorInv, Quiet, MonitorTypeOK'
  PROVE  Kept
BY QuietAgrees DEF MonitorInv, Kept

LEMMA MonitorKeeps ==
  ASSUME MonitorInv, MonitorStep
  PROVE  Kept
<1> USE DEF MonitorInv
<1>1. alerts \in AlertsType /\ profile \in ProfileType /\ server.op \in Operational
      /\ profile.enabled \in BOOLEAN /\ profile.streak \in 0..MaxStreak
  BY DEF MonitorTypeOK, AlertsType, ProfileType
<1>2. CASE Select
  <2>1. monitor' \in [pc : {"idle", "review", "probe", "stop"},
                      row : [op : Operational, monitored : BOOLEAN, streak : 0..MaxStreak]]
    BY <1>1, <1>2 DEF Select
  <2>2. MonitorTypeOK' /\ Quiet
    BY <1>2, <2>1 DEF Select, MonitorTypeOK, Quiet
  <2> QED
    BY <2>2, QuietKeeps
<1>3. CASE KeepServing
  <2>1. alerts' \in AlertsType
    BY <1>1, <1>3, AlertsTyped DEF KeepServing
  <2>2. monitor' \in [pc : {"idle", "review", "probe", "stop"},
                      row : [op : Operational, monitored : BOOLEAN, streak : 0..MaxStreak]]
    BY <1>3, GotoTyped DEF KeepServing
  <2>3. MonitorTypeOK' /\ Quiet
    BY <1>3, <2>1, <2>2 DEF KeepServing, MonitorTypeOK, AlertsType, Quiet
  <2> QED
    BY <2>3, QuietKeeps
<1>4. CASE BlockOverdue \/ BlockUnwatched
  BY <1>1, <1>4, BlockKeeps, AlertsTyped DEF BlockOverdue, BlockUnwatched, Contained
<1>5. ASSUME NEW worst \in {"pass", "minor", "critical"}, NEW few \in BOOLEAN, RecordProbes(worst, few)
      PROVE  Kept
  <2>1. alerts' \in AlertsType
    <3>1. PICK opened, closed : alerts' = [a \in AlertTypes |->
            IF a \in closed \union {"internal_error"} THEN "none" ELSE Raise(opened)[a]]
      BY <1>5 DEF RecordProbes
    <3>2. Raise(opened) \in AlertsType
      BY <1>1, AlertsTyped
    <3> QED
      BY <3>1, <3>2 DEF AlertsType
  <2>2. profile' \in ProfileType
    BY <1>1, <1>5, ProbedTyped DEF RecordProbes
  <2>3. server' = [server EXCEPT !.op = Evaluated(worst, few)]
    BY <1>5 DEF RecordProbes
  <2>4. server' \in ServerType /\ server'.reg = server.reg /\ server'.enabled = server.enabled
    BY <2>3, EvaluatedTyped DEF MonitorTypeOK, ServerType
  <2>5. monitor' \in [pc : {"idle", "review", "probe", "stop"},
                      row : [op : Operational, monitored : BOOLEAN, streak : 0..MaxStreak]]
    BY <1>5, GotoTyped DEF RecordProbes
  <2>6. MonitorTypeOK'
    BY <1>5, <2>1, <2>2, <2>4, <2>5 DEF RecordProbes, MonitorTypeOK, ServerType, AlertsType, ProfileType
  <2>7. Quiet
    BY <1>5, <2>4 DEF RecordProbes, Quiet
  <2> QED
    BY <2>6, <2>7, QuietKeeps
<1>6. CASE RecordDrift
  <2>1. PICK opened \in {{}, {"probe"}} :
          Block("QUARANTINED", [Raise(opened) EXCEPT !["internal_error"] = "none"], Probed(TRUE))
    BY <1>6 DEF RecordDrift
  <2>2. Raise(opened) \in AlertsType /\ Probed(TRUE) \in ProfileType
    BY <1>1, AlertsTyped, ProbedTyped
  <2>3. [Raise(opened) EXCEPT !["internal_error"] = "none"] \in AlertsType
    BY <2>2 DEF AlertsType
  <2> QED
    BY <2>1, <2>2, <2>3, BlockKeeps DEF Contained
<1>7. CASE ProbesThrow
  BY <1>7, ErrorKeeps DEF ProbesThrow
<1>8. CASE Stop
  <2>1. CASE InternalError
    BY <2>1, ErrorKeeps
  <2>2. CASE Goto("idle") /\ UNCHANGED <<server, service, component, review, profile, alerts, request, budget>>
    <3>1. monitor' \in [pc : {"idle", "review", "probe", "stop"},
                        row : [op : Operational, monitored : BOOLEAN, streak : 0..MaxStreak]]
      BY <2>2, GotoTyped
    <3>2. MonitorTypeOK' /\ Quiet
      BY <2>2, <3>1 DEF MonitorTypeOK, Quiet
    <3> QED
      BY <3>2, QuietKeeps
  <2> QED
    BY <1>8, <2>1, <2>2 DEF Stop
<1> QED
  BY <1>2, <1>3, <1>4, <1>5, <1>6, <1>7, <1>8 DEF MonitorStep

\* The managed service's routes: what they read is what the server still has.
LEMMA ServiceKeeps ==
  ASSUME MonitorInv, EnableService \/ DisableService
  PROVE  Kept
<1> USE DEF MonitorInv
<1>1. request.reg = server.reg /\ service.life = server.reg /\ (server.enabled <=> server.reg \in Live)
  BY DEF EnableService, DisableService, VersionMatches, RowsAgree
<1>2. CASE EnableService
  <2>1. server' \in ServerType /\ service' \in ServiceType /\ component' \in ComponentType
    BY <1>2 DEF EnableService, MonitorTypeOK, ServerType, ServiceType, ComponentType, Registration, Live,
       Operational
  <2>2. request' = NoRequest /\ UNCHANGED <<review, profile, alerts, monitor, budget>>
    BY <1>2 DEF EnableService
  <2>3. MonitorTypeOK'
    BY <2>1, <2>2, NoneTyped DEF MonitorTypeOK, ServerType, ServiceType, ComponentType
  <2>4. service'.life = server'.reg /\ (server'.enabled <=> server'.reg \in Live)
    BY <1>1, <1>2 DEF EnableService, MonitorTypeOK, Live
  <2>5. server.reg \in Contained => server'.reg = server.reg
    BY <1>1, <1>2 DEF EnableService, Contained
  <2> QED
    BY <2>2, <2>3, <2>4, <2>5 DEF Kept, RowsAgree, NoRequest
<1>3. CASE DisableService
  <2>1. server' \in ServerType /\ service' \in ServiceType /\ component' \in ComponentType
    BY <1>3 DEF DisableService, MonitorTypeOK, ServerType, ServiceType, ComponentType, Registration, Live,
       Operational
  <2>2. request' = NoRequest /\ UNCHANGED <<review, profile, alerts, monitor, budget>>
    BY <1>3 DEF DisableService
  <2>3. MonitorTypeOK'
    BY <2>1, <2>2, NoneTyped DEF MonitorTypeOK, ServerType, ServiceType, ComponentType
  <2>4. service'.life = server'.reg /\ (server'.enabled <=> server'.reg \in Live)
    BY <1>1, <1>3 DEF DisableService, MonitorTypeOK, Live
  <2>5. server.reg \in Contained => server'.reg = server.reg
    BY <1>1, <1>3 DEF DisableService, Contained, Live
  <2> QED
    BY <2>2, <2>3, <2>4, <2>5 DEF Kept, RowsAgree, NoRequest
<1> QED
  BY <1>2, <1>3

LEMMA OwnerKeeps ==
  ASSUME MonitorInv, OwnerStep
  PROVE  Kept
<1> USE DEF MonitorInv
<1>1. server \in ServerType /\ profile \in ProfileType /\ alerts \in AlertsType /\ server.reg \in Registration
  BY DEF MonitorTypeOK, ServerType, ProfileType, AlertsType
<1>2. ASSUME NEW enabled \in BOOLEAN, SetServerEnabled(enabled) PROVE Kept
  <2>1. PICK to \in Registration : Transition(to)
    BY <1>2 DEF SetServerEnabled, Registration, Live
  <2> QED
    BY <1>1, <1>2, <2>1, TransitionKeeps DEF SetServerEnabled
<1>3. CASE TestPasses
  <2>1. "ACTIVE" \in Registration
    BY DEF Registration, Live
  <2> QED
    BY <1>1, <1>3, <2>1, TransitionKeeps DEF TestPasses
<1>4. ASSUME NEW enabled \in BOOLEAN, SaveProfile(enabled) PROVE Kept
  <2>1. profile' \in ProfileType
    BY <1>1, <1>4 DEF SaveProfile, ProfileType
  <2>2. MonitorTypeOK' /\ Quiet
    BY <1>4, <2>1, OrderedTyped DEF SaveProfile, MonitorTypeOK, ProfileType, Quiet
  <2> QED
    BY <2>2, QuietKeeps
<1>5. ASSUME NEW kind \in {"test", "enable", "disable"}, Ordered,
             request' = [kind |-> kind, reg |-> server.reg, current |-> TRUE],
             UNCHANGED <<server, service, component, review, profile, alerts, monitor>>
      PROVE  Kept
  <2>1. request' \in [kind : {"none", "test", "enable", "disable"}, reg : Registration, current : BOOLEAN]
    BY <1>1, <1>5
  <2>2. MonitorTypeOK' /\ Quiet
    BY <1>5, <2>1, OrderedTyped DEF MonitorTypeOK, Quiet
  <2> QED
    BY <2>2, QuietKeeps
<1>6. CASE StartTest \/ \E kind \in {"enable", "disable"} : ReadService(kind)
  BY <1>5, <1>6 DEF StartTest, ReadService
<1>7. CASE TestEnds \/ ServiceRequestEnds
  <2>1. MonitorTypeOK' /\ Quiet
    BY <1>7, NoneTyped DEF TestEnds, ServiceRequestEnds, MonitorTypeOK, Quiet
  <2> QED
    BY <2>1, QuietKeeps
<1>8. CASE DeleteServer
  <2>1. server' \in ServerType /\ service' \in ServiceType /\ component' \in ComponentType
    BY <1>8 DEF DeleteServer, ServerType, ServiceType, ComponentType, Registration, Operational
  <2>2. MonitorTypeOK'
    BY <1>8, <2>1, OutdatedTyped DEF DeleteServer, MonitorTypeOK, ServerType, ServiceType, ComponentType
  <2>3. service'.life = server'.reg /\ server'.reg = "RETIRED" /\ ~server'.enabled
    BY <1>8 DEF DeleteServer
  <2>4. request'.current = FALSE
    BY <1>8, OutdatedTyped, Zenon DEF DeleteServer
  <2>5. ~(request'.kind \in {"enable", "disable"} /\ request'.current)
    BY <2>4
  <2> QED
    BY <2>2, <2>3, <2>5 DEF Kept, RowsAgree, Live
<1>9. ASSUME NEW a \in AlertTypes, SuppressAlert(a) PROVE Kept
  <2>1. budget.suppressed + 1 \in 0..MaxSuppressed
    BY <1>9, BoundAssumption DEF SuppressAlert, MonitorTypeOK
  <2>2. alerts' \in AlertsType
    BY <1>1, <1>9 DEF SuppressAlert, AlertsType
  <2>3. MonitorTypeOK' /\ Quiet
    BY <1>9, <2>1, <2>2 DEF SuppressAlert, MonitorTypeOK, AlertsType, Quiet
  <2> QED
    BY <2>3, QuietKeeps
<1> QED
  BY <1>2, <1>3, <1>4, <1>6, <1>7, <1>8, <1>9, ServiceKeeps DEF OwnerStep

\* Every step of the scheduler, the OWNER, the clock and a crash.
LEMMA StepKeeps ==
  ASSUME MonitorInv, [Next]_monitorVars
  PROVE  Kept
<1> USE DEF MonitorInv
<1>1. CASE ExpireSuppressions
  <2>1. alerts' \in AlertsType
    BY <1>1 DEF ExpireSuppressions, MonitorTypeOK, AlertsType
  <2>2. MonitorTypeOK' /\ Quiet
    BY <1>1, <2>1 DEF ExpireSuppressions, MonitorTypeOK, AlertsType, Quiet
  <2> QED
    BY <2>2, QuietKeeps
<1>2. CASE Crash
  <2>1. budget.crashes + 1 \in 0..MaxCrashes
    BY <1>2, BoundAssumption DEF Crash, MonitorTypeOK
  <2>2. monitor' \in [pc : {"idle", "review", "probe", "stop"},
                      row : [op : Operational, monitored : BOOLEAN, streak : 0..MaxStreak]]
    BY <1>2, GotoTyped DEF Crash
  <2>3. MonitorTypeOK' /\ Quiet
    BY <1>2, <2>1, <2>2 DEF Crash, MonitorTypeOK, Quiet
  <2> QED
    BY <2>3, QuietKeeps
<1>3. CASE ReviewAges
  <2>1. review' \in Phases
    BY <1>3 DEF ReviewAges, Phases
  <2>2. MonitorTypeOK' /\ Quiet
    BY <1>3, <2>1 DEF ReviewAges, MonitorTypeOK, Quiet
  <2> QED
    BY <2>2, QuietKeeps
<1>4. CASE ProbeFallsDue
  <2>1. profile' \in ProfileType
    BY <1>4 DEF ProbeFallsDue, MonitorTypeOK, ProfileType
  <2>2. MonitorTypeOK' /\ Quiet
    BY <1>4, <2>1 DEF ProbeFallsDue, MonitorTypeOK, ProfileType, Quiet
  <2> QED
    BY <2>2, QuietKeeps
<1>5. CASE UNCHANGED monitorVars
  <2>1. MonitorTypeOK' /\ Quiet
    BY <1>5 DEF monitorVars, MonitorTypeOK, Quiet
  <2> QED
    BY <2>1, QuietKeeps
<1> QED
  BY <1>1, <1>2, <1>3, <1>4, <1>5, MonitorKeeps, OwnerKeeps DEF Next

LEMMA InitKeeps == Init => MonitorInv
BY BoundAssumption DEF Init, MonitorInv, MonitorTypeOK, RowsAgree, NoRow, NoRequest, Registration, Live,
   Contained, Operational, Phases, AlertTypes

-----------------------------------------------------------------------------
(* The theorems.                                                            *)

\* The inductive invariant: types, and the agreement of the rows.
THEOREM Invariance == Spec => []MonitorInv
<1>1. MonitorInv /\ [Next]_monitorVars => MonitorInv'
  BY StepKeeps DEF Kept, MonitorInv
<1> QED
  BY <1>1, InitKeeps, PTL DEF Spec

\* A managed service that may serve stands for a server in trial or in service
\* (canServeManagedService reads only the service's own row).
THEOREM ServedOnlyByLiveServerHolds == Spec => []ServedOnlyByLiveServer
<1>1. MonitorInv => ServedOnlyByLiveServer
  BY DEF MonitorInv, RowsAgree, ServedOnlyByLiveServer
<1> QED
  BY <1>1, Invariance, PTL

\* Neither an old page nor the other set of routes puts a contained server back to
\* work (transitionServerState, setManagedServiceApiState).
THEOREM ContainedStaysContainedHolds == Spec => ContainedStaysContained
<1>1. MonitorInv /\ [Next]_monitorVars =>
        [server.reg \in Contained => server'.reg \in Contained \union {"RETIRED"}]_monitorVars
  BY StepKeeps DEF Kept
<1> QED
  BY <1>1, Invariance, PTL DEF Spec, ContainedStaysContained

=============================================================================
