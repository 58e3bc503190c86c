-------------------------- MODULE ComponentCalls --------------------------
(***************************************************************************)
(* Calls of one component's tool by another: the decision about the        *)
(* caller's token, the lease that counts against the tool's concurrency,   *)
(* the dispatch and the recorded outcome (http/component-mcp-runtime.ts,   *)
(* http/component-webhook-runtime.ts, domain/component-auth.ts), while the *)
(* OWNER rotates and revokes tokens, quarantines, restores and retires the *)
(* caller and closes the callee (domain/component.ts).                     *)
(***************************************************************************)
EXTENDS Naturals, FiniteSets

CONSTANTS
  Calls,           \* requests that arrive
  Tokens,          \* rows of principal_access_token of the caller
  MaxConcurrency,  \* maxConcurrency of the callee's runtime target
  MaxChanges       \* bound: what the OWNER changes

VARIABLES
  caller,     \* lifecycle, enabled and the status of the caller's principal
  epoch,      \* revocation_epoch of that principal
  token,      \* state and issued_revocation_epoch of each token
  open,       \* the callee is enabled, with ingress
  permitted,  \* a live permission for route and scope, and no suspension
  call,       \* what a request does and what it was told
  lease,      \* component_operation_lease of each request
  changes     \* what MaxChanges bounds

callsVars == <<caller, epoch, token, open, permitted, call, lease, changes>>
ownerVars == <<caller, epoch, token, open, permitted, changes>>

NewCall == [pc |-> "new", token |-> CHOOSE t \in Tokens : TRUE, overdue |-> {}, told |-> "nothing"]

Init ==
  /\ caller = [lifecycle |-> "ACTIVE", enabled |-> TRUE, status |-> "ACTIVE"]
  /\ epoch = 0
  /\ \E first \in Tokens :
       token = [t \in Tokens |-> [state |-> IF t = first THEN "live" ELSE "none", epoch |-> 0]]
  /\ open = TRUE /\ permitted = TRUE
  /\ call = [c \in Calls |-> NewCall]
  /\ lease = [c \in Calls |-> [state |-> "none", due |-> FALSE]]
  /\ changes = 0

Works(t) == token[t].state = "live" /\ token[t].epoch = epoch

\* authorizeComponentCall holds the token's row from its first statement to its last
Checked(t) == \E c \in Calls : call[c].pc = "deciding" /\ call[c].token = t

\* the inserting transaction of a tool holds an advisory lock, and the overdue leases it has failed
LockFree_Ignored == TRUE
LockFree == \A c \in Calls : call[c].pc # "inserting"
Held(c) == \E d \in Calls : call[d].pc = "inserting" /\ c \in call[d].overdue

\* a request goes on at a step, with what it knows and was told then
Becomes(c, pc, t, overdue, told) ==
  call' = [call EXCEPT ![c] = [pc |-> pc, token |-> t, overdue |-> overdue, told |-> told]]
To(c, pc)         == Becomes(c, pc, call[c].token, call[c].overdue, call[c].told)
Tell(c, pc, told) == Becomes(c, pc, call[c].token, {}, told)

-----------------------------------------------------------------------------
(* authorizeComponentCall and handleCanonicalMcp.                           *)

\* token, principal and both components are read together ...
Accepts(t) ==
  Works(t) /\ caller.status = "ACTIVE" /\ caller.lifecycle # "QUARANTINED" /\ caller.enabled /\ open

Authenticate(c, t) ==
  /\ call[c].pc = "new" /\ ~Checked(t)
  /\ \/ Accepts(t) /\ Becomes(c, "deciding", t, {}, "nothing")
     \/ ~Accepts(t) /\ Becomes(c, "done", t, {}, "nothing")
  /\ UNCHANGED <<ownerVars, lease>>

\* ... the suspension and the permission by later statements, which see what others have committed
Decide(c) ==
  /\ call[c].pc = "deciding"
  /\ To(c, IF permitted THEN "allowed" ELSE "done")
  /\ UNCHANGED <<ownerVars, lease>>

Running == {c \in Calls : lease[c].state = "open" /\ ~lease[c].due}
Overdue == {c \in Calls : lease[c].state = "open" /\ lease[c].due}

\* overdue leases are failed and the others counted; too many are refused, and that undoes it all
Count(c) ==
  /\ call[c].pc = "allowed" /\ LockFree
  /\ IF Cardinality(Running) >= MaxConcurrency
     THEN Tell(c, "done", "refused")
     ELSE Becomes(c, "inserting", call[c].token, Overdue, call[c].told)
  /\ UNCHANGED <<ownerVars, lease>>

\* the overdue leases as the transaction ends with them
Expired(c) == call[c].overdue

InsertLease(c) ==
  /\ call[c].pc = "inserting"
  /\ lease' = [d \in Calls |->
       IF d = c THEN [state |-> "open", due |-> FALSE]
       ELSE IF d \in Expired(c) THEN [state |-> "failed", due |-> lease[d].due] ELSE lease[d]]
  /\ Tell(c, "dispatched", call[c].told)
  /\ UNCHANGED ownerVars

\* the runtime answers, with what the tool's contract allows or not, or breaks off: the result is
\* written by the lease's id and then given to the caller
Answer(c, outcome) ==
  /\ call[c].pc = "dispatched" /\ ~Held(c)
  /\ lease' = [lease EXCEPT ![c].state = outcome]
  /\ Tell(c, "done", outcome)
  /\ UNCHANGED ownerVars

\* deadline of the lease
FallsDue(c) ==
  /\ lease[c].state # "none" /\ ~lease[c].due
  /\ lease' = [lease EXCEPT ![c].due = TRUE]
  /\ UNCHANGED <<ownerVars, call>>

\* a transaction that fails, and a process that dies: the caller is told nothing of the outcome
BreakOff(c) ==
  /\ call[c].pc \in {"deciding", "allowed", "inserting", "dispatched"}
  /\ Tell(c, "done", call[c].told)
  /\ UNCHANGED <<ownerVars, lease>>

\* a provider's webhook is bound to the callee, verified with its secret and passed on without a
\* token, a permission or a lease
Webhook(c) ==
  /\ call[c].pc = "new"
  /\ To(c, IF open THEN "verified" ELSE "done")
  /\ UNCHANGED <<ownerVars, lease>>

PassOn(c, told) ==
  /\ call[c].pc = "verified"
  /\ Tell(c, "webhook", told)
  /\ UNCHANGED <<ownerVars, lease>>

-----------------------------------------------------------------------------
(* What the OWNER changes.                                                  *)

Change == changes < MaxChanges /\ changes' = changes + 1 /\ UNCHANGED <<call, lease>>

Quarantine ==
  /\ Change
  /\ caller' = [lifecycle |-> "QUARANTINED", enabled |-> FALSE, status |-> "QUARANTINED"]
  /\ UNCHANGED <<epoch, token, open, permitted>>

Restore ==
  /\ Change /\ caller.lifecycle = "QUARANTINED"
  /\ caller' = [lifecycle |-> "APPROVED", enabled |-> FALSE, status |-> "SUSPENDED"]
  /\ UNCHANGED <<epoch, token, open, permitted>>

\* the confirmed enable command
Enable ==
  /\ Change /\ caller.lifecycle \in {"APPROVED", "ACTIVE"}
  /\ caller' = [lifecycle |-> "ACTIVE", enabled |-> TRUE, status |-> "ACTIVE"]
  /\ UNCHANGED <<epoch, token, open, permitted>>

\* RETIRE and DEREGISTER: the update of the tokens waits for the decisions that hold them
Retire(lifecycle) ==
  /\ Change
  /\ caller.lifecycle = "RETIRED" \/ (lifecycle = "RETIRED" /\ caller.lifecycle # "DEREGISTERED")
  /\ \A t \in Tokens : token[t].state = "live" => ~Checked(t)
  /\ caller' = [lifecycle |-> lifecycle, enabled |-> FALSE, status |-> "REVOKED"]
  /\ epoch' = epoch + 1
  /\ token' = [t \in Tokens |-> IF token[t].state = "live" THEN [token[t] EXCEPT !.state = "revoked"] ELSE token[t]]
  /\ UNCHANGED <<open, permitted>>

RevokeToken(t) ==
  /\ Change /\ token[t].state = "live" /\ ~Checked(t)
  /\ token' = [token EXCEPT ![t].state = "revoked"]
  /\ UNCHANGED <<caller, epoch, open, permitted>>

\* token and principal are locked; the new token has the principal's epoch of that moment
Rotatable(t) == token[t].state = "live"
Rotate(t, new) ==
  /\ Change /\ Rotatable(t) /\ ~Checked(t) /\ token[new].state = "none"
  /\ token' = [token EXCEPT ![t].state = "revoked", ![new] = [state |-> "live", epoch |-> epoch]]
  /\ UNCHANGED <<caller, epoch, open, permitted>>

SetPermission == Change /\ permitted' = ~permitted /\ UNCHANGED <<caller, epoch, token, open>>
SetOpen       == Change /\ open' = ~open /\ UNCHANGED <<caller, epoch, token, permitted>>

Next ==
  \/ \E c \in Calls :
       \/ \E t \in Tokens : Authenticate(c, t)
       \/ Decide(c) \/ Count(c) \/ InsertLease(c) \/ FallsDue(c) \/ BreakOff(c) \/ Webhook(c)
       \/ \E outcome \in {"success", "failed"} : Answer(c, outcome) \/ PassOn(c, outcome)
  \/ Quarantine \/ Restore \/ Enable \/ SetPermission \/ SetOpen
  \/ \E lifecycle \in {"RETIRED", "DEREGISTERED"} : Retire(lifecycle)
  \/ \E t \in Tokens : RevokeToken(t) \/ \E new \in Tokens : Rotate(t, new)

Spec == Init /\ [][Next]_callsVars

-----------------------------------------------------------------------------
(* Properties.                                                              *)

CallsTypeOK ==
  /\ caller \in [lifecycle : {"APPROVED", "ACTIVE", "QUARANTINED", "RETIRED", "DEREGISTERED"},
                 enabled : BOOLEAN, status : {"ACTIVE", "SUSPENDED", "QUARANTINED", "REVOKED"}]
  /\ epoch \in Nat /\ open \in BOOLEAN /\ permitted \in BOOLEAN
  /\ token \in [Tokens -> [state : {"none", "live", "revoked"}, epoch : Nat]]
  /\ lease \in [Calls -> [state : {"none", "open", "success", "failed"}, due : BOOLEAN]]

\* However many requests pass the authorisation at once, no more of them hold a lease that is not
\* overdue than the tool may run.
CapacityHolds == Cardinality(Running) <= MaxConcurrency

=============================================================================
