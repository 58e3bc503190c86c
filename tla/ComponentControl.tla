-------------------------- MODULE ComponentControl --------------------------
(***************************************************************************)
(* Remote control of one component (domain/component.ts and                *)
(* onboarding/component-control-worker.ts).  The OWNER or the monitor      *)
(* queues commands; control workers lease them, send them to the component *)
(* and store its answer; the component reports acknowledgements, states    *)
(* and heartbeats by HTTP callbacks.  An activation command takes effect   *)
(* when its acknowledgement, state and heartbeat are all there.            *)
(*                                                                         *)
(* One action is one transaction.  The transactions that read the policy   *)
(* epoch without locking the component (READ COMMITTED) are two actions:   *)
(* the check, and the write that relies on it.  The delay of a retry and   *)
(* the open circuit of the target only postpone a claim, which a worker    *)
(* may do for any length of time; they are left out.                       *)
(***************************************************************************)
EXTENDS Integers, Sequences, FiniteSets

CONSTANTS
  Workers,        \* control workers (one process each; it may be restarted)
  Commands,       \* bound: the commands and lifecycle actions that are asked for
  MaxDispatches,  \* bound: commands queued for the component
  MaxAttempts,    \* retry_policy.maxAttempts
  MaxEvents       \* bound: crashes, stalls, callbacks, probes, lifecycle actions

ASSUME ControlAssumption ==
  MaxDispatches \in Nat /\ MaxAttempts \in Nat \ {0} /\ MaxEvents \in Nat

VARIABLES
  component,  \* the row of the component, without its policy epoch
  principal,  \* status of the component's principal
  epoch,      \* component.policy_epoch
  dispatch,   \* component_control_dispatch with its attempts, query and challenge
  worker,     \* local state of processNextComponentControlDispatch
  call,       \* the callback of the component that the server is handling
  events      \* environment: how often it did something so far

vars == <<component, principal, epoch, dispatch, worker, call, events>>

Dispatches == 1..MaxDispatches

-----------------------------------------------------------------------------
(* The component.  ingress, pulse and egress are switched with enabled.     *)

Component ==
  [enabled     : BOOLEAN,
   lifecycle   : {"APPROVED", "ACTIVE", "QUARANTINED", "RETIRED", "DEREGISTERED"},
   activation  : {"READY_FOR_ACTIVATION", "READY", "ENABLE_REQUESTED", "DISABLE_REQUESTED",
                  "DISABLE_UNCONFIRMED", "ACTIVE", "BLOCKED", "INACTIVE"},
   operational : {"HEALTHY", "UNHEALTHY", "DISABLED", "QUARANTINED", "RETIRED"},
   monitoring  : {"HEALTHY", "PENDING", "DEGRADED", "FAILED"}]

\* An update outside a health transition: the trigger of migration 007 moves the
\* policy epoch on when the row really changes.
Update(c) ==
  /\ component' = c
  /\ epoch' = IF c = component THEN epoch ELSE epoch + 1

\* An update under kcml.watchdog_health_transition.
HealthUpdate(c) == component' = c /\ UNCHANGED epoch

\* The bound on what the environment does.
Event == events < MaxEvents /\ events' = events + 1

Lowered(c) == IF c.lifecycle = "ACTIVE" THEN "APPROVED" ELSE c.lifecycle

-----------------------------------------------------------------------------
(* The commands.                                                            *)

CommandType == {"enable", "disable", "state", "heartbeat"}

LifecycleAction == {"QUARANTINE", "RESTORE", "RETIRE", "DEREGISTER"}

ASSUME CommandAssumption == Commands \subseteq CommandType \union LifecycleAction

Pending  == {"QUEUED", "CLAIMED", "ACK_PENDING"}
Acked    == {"ACKED", "COMPLETED"}
Settled  == Acked \union {"FAILED", "EXPIRED"}

Payload == {"enabled", "disabled"}   \* the mode a reported state shows

DispatchState ==
  [type      : CommandType \union {"none"},
   requested : Nat,                  \* requested_policy_epoch
   state     : Pending \union Settled \union {"ABSENT"},
   log       : Seq({"FAILED", "ACKED"}),  \* its attempts, in the order of their number
   leased    : BOOLEAN,              \* lease_until > now()
   overdue   : BOOLEAN,              \* deadline_at <= now()
   delivered : BOOLEAN,              \* the component has seen the command
   query     : {"none", "PENDING"} \union Payload,
   beat      : {"none", "PENDING", "RESPONDED"}]

NoDispatch == [type |-> "none", requested |-> 0, state |-> "ABSENT", log |-> <<>>,
               leased |-> FALSE, overdue |-> FALSE, delivered |-> FALSE,
               query |-> "none", beat |-> "none"]

Queued(type, requested) ==
  [NoDispatch EXCEPT !.type = type, !.requested = requested, !.state = "QUEUED",
     !.query = IF type = "heartbeat" THEN "none" ELSE "PENDING",
     !.beat = IF type \in {"enable", "heartbeat"} THEN "PENDING" ELSE "none"]

\* enqueueControlDispatch with its state query and its heartbeat challenge.
Enqueue(type, requested) ==
  /\ type \in Commands
  /\ \E d \in Dispatches :
       /\ dispatch[d].state = "ABSENT"
       /\ \A e \in Dispatches : e < d => dispatch[e].state # "ABSENT"
       /\ dispatch' = [dispatch EXCEPT ![d] = Queued(type, requested)]

AckedAttempt(d) == \E i \in 1..Len(dispatch[d].log) : dispatch[d].log[i] = "ACKED"

-----------------------------------------------------------------------------
(* The local states of a worker and of the server handling a callback.      *)

WorkerState == [pc : {"idle", "sending", "sent", "acking", "checked"},
                id : 0..MaxDispatches, attempt : 0..MaxAttempts]
IdleWorker == [pc |-> "idle", id |-> 0, attempt |-> 0]

CallKind == {"ack", "nack", "observation", "snapshot", "heartbeat"}
CallState == [step : {"none", "authorized", "checked"}, kind : CallKind \union {"none"},
              id : 0..MaxDispatches, epoch : Nat, payload : Payload]
NoCall == [step |-> "none", kind |-> "none", id |-> 0, epoch |-> 0, payload |-> "disabled"]

-----------------------------------------------------------------------------
\* A component that passed its conformance gates.
Init ==
  /\ component = [enabled |-> FALSE, lifecycle |-> "APPROVED", operational |-> "HEALTHY",
                  activation |-> "READY_FOR_ACTIVATION", monitoring |-> "HEALTHY"]
  /\ principal = "ACTIVE"
  /\ epoch = 1
  /\ dispatch = [d \in Dispatches |-> NoDispatch]
  /\ worker = [w \in Workers |-> IdleWorker]
  /\ call = NoCall
  /\ events = 0

-----------------------------------------------------------------------------
(* The OWNER and the monitor.  The readiness gates, the audit stream and    *)
(* the recertification that enabling asks for are taken as passed.          *)

RequestEnable ==
  /\ component.monitoring = "HEALTHY"
  /\ Enqueue("enable", epoch + 1)
  /\ component' = [component EXCEPT !.enabled = FALSE, !.activation = "ENABLE_REQUESTED",
                                    !.operational = "DISABLED"]
  /\ epoch' = epoch + 1
  /\ UNCHANGED <<principal, worker, call, events>>

DisabledEpoch_Once == epoch + 1

\* The epoch moves once with the request and once more with the revocation.
DisabledEpoch == epoch + 2

RequestDisable ==
  /\ Enqueue("disable", epoch + 1)
  /\ component' = [component EXCEPT !.enabled = FALSE, !.activation = "DISABLE_REQUESTED",
                      !.lifecycle = Lowered(component), !.operational = "DISABLED"]
  /\ epoch' = DisabledEpoch
  /\ UNCHANGED <<principal, worker, call, events>>

QueryState ==
  /\ Enqueue("state", epoch)
  /\ UNCHANGED <<component, principal, epoch, worker, call, events>>

\* An older challenge of an unfinished command is not repeated.
ChallengeHeartbeat ==
  /\ ~ \E d \in Dispatches : /\ dispatch[d].type = "heartbeat"
                             /\ dispatch[d].state \in Pending \union {"ACKED"}
                             /\ ~dispatch[d].overdue
  /\ Enqueue("heartbeat", epoch)
  /\ UNCHANGED <<component, principal, epoch, worker, call, events>>

LifecycleAllowed(a) ==
  CASE a = "RESTORE"    -> component.lifecycle = "QUARANTINED"
    [] a = "RETIRE"     -> component.lifecycle # "DEREGISTERED"
    [] a = "DEREGISTER" -> component.lifecycle = "RETIRED"
    [] OTHER            -> TRUE

LifecycleRow(a) ==
  CASE a = "QUARANTINE" -> <<"QUARANTINED", "BLOCKED", "QUARANTINED", "QUARANTINED">>
    [] a = "RESTORE"    -> <<"APPROVED", "READY", "DISABLED", "SUSPENDED">>
    [] a = "RETIRE"     -> <<"RETIRED", "INACTIVE", "RETIRED", "REVOKED">>
    [] OTHER            -> <<"DEREGISTERED", "INACTIVE", "RETIRED", "REVOKED">>

SetLifecycle(a) ==
  LET row == LifecycleRow(a) IN
  /\ Event
  /\ a \in Commands /\ LifecycleAllowed(a)
  /\ Update([component EXCEPT !.enabled = FALSE, !.lifecycle = row[1],
                              !.activation = row[2], !.operational = row[3]])
  /\ principal' = row[4]
  /\ UNCHANGED <<dispatch, worker, call>>

\* markStaleComponentHeartbeats: too old a heartbeat, or far too old a one.
MarkStale ==
  /\ Event
  /\ component.lifecycle = "ACTIVE" /\ component.enabled
  /\ \/ HealthUpdate([component EXCEPT !.operational = "UNHEALTHY", !.monitoring = "FAILED"])
     \/ HealthUpdate([component EXCEPT !.operational = "DISABLED", !.monitoring = "FAILED",
                                       !.enabled = FALSE])
  /\ UNCHANGED <<principal, dispatch, worker, call>>

\* recordComponentMonitoringWatchdog
Probe(result) ==
  /\ Event
  /\ component.lifecycle \in {"APPROVED", "ACTIVE"}
  /\ component.monitoring # result
  /\ HealthUpdate([component EXCEPT !.monitoring = result])
  /\ UNCHANGED <<principal, dispatch, worker, call>>

-----------------------------------------------------------------------------
(* finalizeDispatchFromEvidence, called with the row as its caller left it. *)

HeartbeatOkay_NotAsked(r) == r.type = "heartbeat" => r.beat = "RESPONDED"

HeartbeatOkay(r) == r.type \in {"enable", "heartbeat"} => r.beat = "RESPONDED"

QueryOkay(r) ==
  CASE r.type = "state"   -> r.query \in Payload
    [] r.type = "enable"  -> r.query = "enabled"
    [] r.type = "disable" -> r.query = "disabled"
    [] OTHER              -> TRUE

Confirmed(r) == r.state \in Acked /\ QueryOkay(r) /\ HeartbeatOkay(r)

Activated ==
  [enabled |-> TRUE, lifecycle |-> "ACTIVE", activation |-> "ACTIVE",
   operational |-> "HEALTHY", monitoring |-> "HEALTHY"]
Deactivated ==
  [enabled |-> FALSE, lifecycle |-> Lowered(component), activation |-> "READY",
   operational |-> "DISABLED", monitoring |-> "PENDING"]

Finalize(d, r) ==
  IF Confirmed(r)
    THEN /\ dispatch' = [dispatch EXCEPT ![d] = [r EXCEPT !.state = "COMPLETED"]]
         /\ CASE r.type = "enable"  -> Update(Activated) /\ principal' = "ACTIVE"
              [] r.type = "disable" -> Update(Deactivated) /\ principal' = "SUSPENDED"
              [] OTHER              -> UNCHANGED <<component, epoch, principal>>
    ELSE /\ dispatch' = [dispatch EXCEPT ![d] = r]
         /\ UNCHANGED <<component, epoch, principal>>

\* recordComponentControlAck after its check of the epoch.
RecordAck(d) == Finalize(d, [dispatch[d] EXCEPT !.state = "ACKED"])

-----------------------------------------------------------------------------
(* A control worker.                                                        *)

Sweepable_NotClaimed == {"QUEUED", "ACK_PENDING"}

Sweepable == Pending

\* Every claim first expires the commands whose deadline has passed.
Swept ==
  [d \in Dispatches |->
     IF dispatch[d].state \in Sweepable /\ dispatch[d].overdue
       THEN [dispatch[d] EXCEPT !.state = "EXPIRED", !.leased = FALSE]
       ELSE dispatch[d]]

Claimable(d) == dispatch[d].state \in Pending /\ ~dispatch[d].overdue /\ ~dispatch[d].leased

\* A command whose answer is stored is not sent again.
Claim(w, d) ==
  /\ worker[w].pc = "idle"
  /\ Claimable(d)
  /\ dispatch' = [Swept EXCEPT ![d].state = "CLAIMED", ![d].leased = TRUE]
  /\ worker' = [worker EXCEPT ![w] =
       [pc |-> IF AckedAttempt(d) THEN "acking" ELSE "sending",
        id |-> d, attempt |-> IF AckedAttempt(d) THEN 0 ELSE Len(dispatch[d].log) + 1]]
  /\ UNCHANGED <<component, principal, epoch, call, events>>

\* Nothing is due.
Sweep(w) ==
  /\ worker[w].pc = "idle"
  /\ Swept # dispatch
  /\ dispatch' = Swept
  /\ UNCHANGED <<component, principal, epoch, worker, call, events>>

Send(w) ==
  /\ worker[w].pc = "sending"
  /\ dispatch' = [dispatch EXCEPT ![worker[w].id].delivered = TRUE]
  /\ worker' = [worker EXCEPT ![w].pc = "sent"]
  /\ UNCHANGED <<component, principal, epoch, call, events>>

Fenced_NoUniqueKey(w) == TRUE

\* UNIQUE (dispatch_id, attempt_number): the number is still free.
Fenced(w) == worker[w].attempt = Len(dispatch[worker[w].id].log) + 1

\* The answer is stored with its attempt, whatever the command's state is by
\* now.  A number that is taken makes this and the failure's insert fail, and
\* the process ends.
StoreAnswer(w) ==
  LET d == worker[w].id IN
  /\ worker[w].pc = "sent"
  /\ IF Fenced(w)
       THEN /\ dispatch' = [dispatch EXCEPT ![d].state = "ACK_PENDING", ![d].leased = FALSE,
                                            ![d].log = Append(@, "ACKED")]
            /\ worker' = [worker EXCEPT ![w].pc = "acking"]
       ELSE /\ worker' = [worker EXCEPT ![w] = IdleWorker]
            /\ UNCHANGED dispatch
  /\ UNCHANGED <<component, principal, epoch, call, events>>

Exhausted(n) == n >= MaxAttempts

\* No answer, or one that is refused: the command is queued again or, after the
\* last attempt, fails and takes the component out of service.
FailAttempt(w) ==
  LET d == worker[w].id  last == Exhausted(worker[w].attempt) IN
  /\ worker[w].pc \in {"sending", "sent"}
  /\ IF Fenced(w)
       THEN /\ dispatch' = [dispatch EXCEPT ![d].state = IF last THEN "FAILED" ELSE "QUEUED",
                                            ![d].leased = FALSE, ![d].log = Append(@, "FAILED")]
            /\ IF last
                 THEN HealthUpdate([component EXCEPT !.enabled = FALSE, !.activation = "BLOCKED",
                                      !.operational = "UNHEALTHY", !.monitoring = "FAILED"])
                 ELSE UNCHANGED <<component, epoch>>
       ELSE UNCHANGED <<component, epoch, dispatch>>
  /\ worker' = [worker EXCEPT ![w] = IdleWorker]
  /\ UNCHANGED <<principal, call, events>>

\* The stored answer is acknowledged under the epoch the command was queued with;
\* the epoch is read without a lock.  A mismatch is logged and tried again.
CheckAck(w) ==
  /\ worker[w].pc = "acking"
  /\ worker' = [worker EXCEPT ![w] =
       IF dispatch[worker[w].id].requested = epoch
         THEN [worker[w] EXCEPT !.pc = "checked"] ELSE IdleWorker]
  /\ UNCHANGED <<component, principal, epoch, dispatch, call, events>>

FinishAck(w) ==
  /\ worker[w].pc = "checked"
  /\ RecordAck(worker[w].id)
  /\ worker' = [worker EXCEPT ![w] = IdleWorker]
  /\ UNCHANGED <<call, events>>

-----------------------------------------------------------------------------
(* Callbacks of the component.                                              *)

\* authorizeComponentCall, for the scopes of the control callbacks and outside a
\* generation job, whose probe may call before the activation.
Authorized ==
  /\ principal = "ACTIVE"
  /\ component.lifecycle # "QUARANTINED" /\ component.operational # "QUARANTINED"
  /\ component.enabled \/ component.activation \in
       {"ENABLE_REQUESTED", "DISABLE_REQUESTED", "DISABLE_UNCONFIRMED"}

\* The component answers a command it has seen, as often as it likes, under the
\* command's epoch or the one the server last told it.
Receive(kind, d, e, payload) ==
  /\ Event
  /\ call = NoCall
  /\ dispatch[d].delivered
  /\ Authorized
  /\ kind \in {"observation", "snapshot"} => dispatch[d].query # "none"
  /\ kind = "heartbeat" => dispatch[d].beat # "none"
  /\ kind \notin {"observation", "snapshot"} => payload = NoCall.payload
  /\ call' = [step |-> "authorized", kind |-> kind, id |-> d, epoch |-> e, payload |-> payload]
  /\ UNCHANGED <<component, principal, epoch, dispatch, worker>>

\* Rejected evidence degrades the monitoring state and nothing else.
Reject ==
  /\ HealthUpdate([component EXCEPT !.monitoring = "DEGRADED"])
  /\ call' = NoCall
  /\ UNCHANGED <<principal, dispatch>>

\* recordComponentControlAck and recordComponentStateObservation read the epoch
\* without a lock.
CheckCall ==
  /\ call.step = "authorized"
  /\ \/ /\ call.kind \in {"ack", "nack", "observation"} /\ call.epoch = epoch
        /\ call' = [call EXCEPT !.step = "checked"]
        /\ UNCHANGED <<component, principal, epoch, dispatch>>
     \/ /\ call.kind \in {"ack", "nack"} /\ call.epoch # epoch
        /\ call' = NoCall
        /\ UNCHANGED <<component, principal, epoch, dispatch>>
     \/ /\ call.kind = "observation" /\ call.epoch # epoch
        /\ Reject
  /\ UNCHANGED <<worker, events>>

\* The component says that the command failed.
Refused ==
  [component EXCEPT !.enabled = FALSE, !.monitoring = "DEGRADED",
     !.activation = IF dispatch[call.id].type = "disable"
                      THEN "DISABLE_UNCONFIRMED" ELSE "BLOCKED"]

FinishCall ==
  LET d == call.id  r == dispatch[d] IN
  /\ call.step = "checked"
  /\ \/ call.kind = "ack" /\ RecordAck(d)
     \/ /\ call.kind = "nack"
        /\ dispatch' = [dispatch EXCEPT ![d].state = "FAILED"]
        /\ HealthUpdate(Refused)
        /\ UNCHANGED principal
     \/ call.kind = "observation" /\ Finalize(d, [r EXCEPT !.query = call.payload])
  /\ call' = NoCall
  /\ UNCHANGED <<worker, events>>

\* recordComponentStateSnapshot, recordComponentHeartbeat: the component's row is
\* locked from the check to the end.
LockedCall ==
  LET d == call.id  r == dispatch[d] IN
  /\ call.step = "authorized"
  /\ \/ /\ call.kind = "snapshot"
        /\ r.query = "PENDING" /\ call.epoch = epoch /\ call.epoch = r.requested
        /\ Finalize(d, [r EXCEPT !.query = call.payload])
        /\ call' = NoCall
     \/ /\ call.kind = "heartbeat" /\ call.epoch = epoch
        /\ Finalize(d, [r EXCEPT !.beat = "RESPONDED"])
        /\ call' = NoCall
     \/ /\ call.kind = "snapshot"
        /\ ~(r.query = "PENDING" /\ call.epoch = epoch /\ call.epoch = r.requested)
        /\ Reject
     \/ call.kind = "heartbeat" /\ call.epoch # epoch /\ Reject
  /\ UNCHANGED <<worker, events>>

-----------------------------------------------------------------------------
(* Time and faults.                                                         *)

Crash(w) ==
  /\ Event
  /\ worker[w].pc # "idle"
  /\ worker' = [worker EXCEPT ![w] = IdleWorker]
  /\ UNCHANGED <<component, principal, epoch, dispatch, call>>

\* A worker takes longer than the 45 s of its lease.
Stall(w) ==
  /\ Event
  /\ worker[w].pc # "idle" /\ dispatch[worker[w].id].leased
  /\ dispatch' = [dispatch EXCEPT ![worker[w].id].leased = FALSE]
  /\ UNCHANGED <<component, principal, epoch, worker, call>>

\* The lease of a command that no worker is busy with runs out; only the claim
\* of a pending command looks at it.
LeaseExpires(d) ==
  /\ dispatch[d].leased /\ dispatch[d].state \in Pending
  /\ \A w \in Workers : worker[w].id # d
  /\ dispatch' = [dispatch EXCEPT ![d].leased = FALSE]
  /\ UNCHANGED <<component, principal, epoch, worker, call, events>>

\* Five minutes after the command was queued; no statement looks at the deadline
\* of a command in another state.
DeadlinePasses(d) ==
  /\ dispatch[d].state \in Pending \union {"ACKED"} /\ ~dispatch[d].overdue
  /\ dispatch' = [dispatch EXCEPT ![d].overdue = TRUE]
  /\ UNCHANGED <<component, principal, epoch, worker, call, events>>

-----------------------------------------------------------------------------
Command ==
  \/ RequestEnable \/ RequestDisable \/ QueryState \/ ChallengeHeartbeat
  \/ \E a \in LifecycleAction : SetLifecycle(a)

Monitor == MarkStale \/ \E result \in {"HEALTHY", "FAILED"} : Probe(result)

Poll(w) == Sweep(w) \/ \E d \in Dispatches : Claim(w, d)

Progress(w) == Send(w) \/ StoreAnswer(w) \/ FailAttempt(w) \/ CheckAck(w) \/ FinishAck(w)

Callback ==
  \/ \E kind \in CallKind, d \in Dispatches, p \in Payload :
       \E e \in {dispatch[d].requested, epoch} : Receive(kind, d, e, p)
  \/ CheckCall \/ FinishCall \/ LockedCall

Environment ==
  \/ \E w \in Workers : Crash(w) \/ Stall(w)
  \/ \E d \in Dispatches : LeaseExpires(d) \/ DeadlinePasses(d)

Next ==
  Command \/ Monitor \/ (\E w \in Workers : Poll(w) \/ Progress(w)) \/ Callback \/ Environment

Spec == Init /\ [][Next]_vars

\* Workers keep polling, every attempt has a time limit, and time passes.
Fairness ==
  /\ \A w \in Workers : WF_vars(Sweep(w)) /\ WF_vars(Progress(w))
  /\ \A d \in Dispatches : WF_vars(DeadlinePasses(d))

FairSpec == Spec /\ Fairness

-----------------------------------------------------------------------------
(* Properties.                                                              *)

\* Every variable stays in its type, and no command is tried too often.
TypeOK ==
  /\ component \in Component
  /\ principal \in {"ACTIVE", "SUSPENDED", "QUARANTINED", "REVOKED"}
  /\ epoch \in Nat \ {0}
  /\ dispatch \in [Dispatches -> DispatchState]
  /\ \A d \in Dispatches : Len(dispatch[d].log) <= MaxAttempts
  /\ worker \in [Workers -> WorkerState]
  /\ call \in CallState
  /\ events \in 0..MaxEvents

\* A command is answered once: whatever its late, stalled or restarted workers
\* do, nothing is recorded after the attempt that got an answer.
AnswerIsFinal ==
  \A d \in Dispatches : \A i \in 1..Len(dispatch[d].log) :
    dispatch[d].log[i] = "ACKED" => i = Len(dispatch[d].log)

\* A component in service was brought there by a command that it saw, whose
\* state it reported and whose heartbeat challenge it answered; and its rows
\* agree that it is in service, also after retries, expiry and a late answer.
LiveIsConfirmed ==
  component.enabled =>
    /\ component.activation = "ACTIVE" /\ component.lifecycle = "ACTIVE"
    /\ principal = "ACTIVE"
    /\ \E d \in Dispatches :
         /\ dispatch[d].type = "enable" /\ dispatch[d].delivered
         /\ dispatch[d].query \in Payload /\ dispatch[d].beat = "RESPONDED"

\* A component never goes into service under an epoch that was already given
\* out: whoever still holds the old one has to ask again.
NoSilentActivation ==
  [][~component.enabled /\ component'.enabled => epoch' > epoch]_vars

\* The epoch of a command to disable is over before the command is queued, so
\* no worker ever records its acknowledgement: only the component itself, with
\* an epoch it asked for, confirms that it is out of service.
DisableOutlivesItsEpoch ==
  \A d \in Dispatches : dispatch[d].type = "disable" =>
    /\ dispatch[d].requested < epoch
    /\ \A w \in Workers : worker[w].pc = "checked" => worker[w].id # d

\* Every command is acknowledged, fails or expires in the end, if the faults stop.
EveryCommandSettles ==
  \A d \in Dispatches : dispatch[d].state \in Pending ~> dispatch[d].state \in Settled

-----------------------------------------------------------------------------
(* What the documentation says and the code does not do.                    *)

\* adr/0001-technology-profile.md: the OWNER's enable and disable are the
\* authoritative operations, so while the last one is to disable, nothing that
\* arrives late for an earlier one puts the component into service.
OwnerDisableStands ==
  [][component.activation = "DISABLE_REQUESTED" => ~component'.enabled]_vars

\* SSOT_CURRENT.md B.3: a component can be switched off and on.  When the server
\* sent an approved component the command to enable and waits for its state and its
\* heartbeat, it lets the component report them.
EnableCanBeConfirmed ==
  \A d \in Dispatches :
    /\ dispatch[d].type = "enable" /\ dispatch[d].requested = epoch
    /\ dispatch[d].delivered /\ dispatch[d].state # "COMPLETED"
    /\ component.activation = "ENABLE_REQUESTED" /\ component.lifecycle = "APPROVED"
    => Authorized
=============================================================================
