----------------------------- MODULE Topology -----------------------------
(***************************************************************************)
(* The connections an OWNER draws between two components and the one       *)
(* permission they share (domain/dashboard-topology.ts, the permission and *)
(* lifecycle commands of domain/component.ts).  Connections of different   *)
(* ports with one route and one scope rest on one component_permission.    *)
(* Every command is one READ COMMITTED transaction: it reads what others   *)
(* have committed, waits for the rows they have locked, and what it writes *)
(* is seen when it ends.                                                   *)
(***************************************************************************)
EXTENDS Naturals, FiniteSets

CONSTANTS
  Edges,    \* ports of the two components that can be connected, with one route and scope
  Sessions  \* OWNER requests at the same time

VARIABLES
  edge,        \* pulse_topology_connection that is not revoked: none, denied or desired
  permission,  \* component_permission: none, active or revoked
  gone,        \* one of the components is deregistered
  grant,       \* a live secret_grant of that component
  session      \* what a request does and which rows it has locked

topologyVars == <<edge, permission, gone, grant, session>>

Idle == [pc |-> "idle", op |-> "none", on |-> {}, want |-> "none", locks |-> {}]

Init ==
  /\ edge = [e \in Edges |-> "none"]
  /\ permission \in {"none", "active"}
  /\ gone = FALSE /\ grant = FALSE
  /\ session = [s \in Sessions |-> Idle]

Live == {e \in Edges : edge[e] # "none"}
Desired == {e \in Edges : edge[e] = "desired"}

\* rows nobody else has locked
Free_Any(s, rows) == TRUE
Free(s, rows) == \A t \in Sessions \ {s} : session[t].locks \intersect rows = {}

Go(s, pc, rows) ==
  /\ Free(s, rows)
  /\ session' = [session EXCEPT ![s].pc = pc, ![s].locks = @ \union rows]
  /\ UNCHANGED <<edge, permission, gone, grant>>

Begin(s, pc, op, on, want, rows) ==
  /\ session[s] = Idle /\ Free(s, rows)
  /\ session' = [session EXCEPT ![s] = [pc |-> pc, op |-> op, on |-> on, want |-> want, locks |-> rows]]
  /\ UNCHANGED <<edge, permission, gone, grant>>

\* createDashboardConnection locks both components and asks whether they are still registered;
\* a connection that is there already is only given the new wish
Create(s, e, want) == ~gone /\ Begin(s, "write", "connect", {e}, want, {"component"})

\* setDashboardConnectionAuthorization and disconnectDashboardConnection lock the connection
Authorize(s, e, want) == e \in Live /\ Begin(s, "decide", "connect", {e}, want, {e})
Disconnect(s, e)      == e \in Live /\ Begin(s, "decide", "connect", {e}, "none", {e})

\* setComponentPermissionEnabled
Toggle(s, want) ==
  permission # "none" /\ Begin(s, "finish", "toggle", {}, want, {"permission"})

\* deregisterDashboardNode; setComponentLifecycle with DEREGISTER does the same
Deregister(s) == Begin(s, "archive", "deregister", {}, "none", {"component"})

\* grantDashboardSecretToNode looks at the node before grantSecret's transaction begins
BeginGrant(s) == ~gone /\ Begin(s, "finish", "grant", {}, "none", {})

-----------------------------------------------------------------------------
(* reconcilePermission and ensurePermission.                                *)

Write(s) == session[s].pc = "write" /\ Go(s, "decide", session[s].on \intersect Live)

\* does a connection want the permission: this one as it will be, the others as they are committed
Wanted(s) == session[s].want = "desired" \/ Desired \ session[s].on # {}

Decide(s) == session[s].pc = "decide" /\ Go(s, IF Wanted(s) THEN "ensure" ELSE "revoke", {})

Ensure(s)  == session[s].pc = "ensure" /\ Go(s, "repoint", {"permission"})
Revoke(s)  == session[s].pc = "revoke" /\ Go(s, "finish", {"permission"})

\* the permission is written to every connection that wants it
Repoint(s) ==
  /\ session[s].pc = "repoint"
  /\ Free(s, Desired)
  /\ session' = [session EXCEPT ![s].pc = "finish", ![s].op = "ensure", ![s].locks = @ \union Desired]
  /\ UNCHANGED <<edge, permission, gone, grant>>

Archive(s)   == session[s].pc = "archive" /\ Go(s, "withdraw", Live)
Withdraw(s)  == session[s].pc = "withdraw" /\ Go(s, "finish", {"permission"})

\* the policy epochs of the components are written last; the transaction commits
Finish(s) ==
  LET job == session[s] IN
  /\ job.pc = "finish"
  /\ job.op = "grant" \/ Free(s, {"component"})
  /\ edge' = CASE job.op = "deregister" -> [e \in Edges |-> IF e \in job.locks THEN "none" ELSE edge[e]]
               [] OTHER                 -> [e \in Edges |-> IF e \in job.on THEN job.want ELSE edge[e]]
  /\ permission' = CASE job.op = "ensure" -> "active"
                     [] job.op = "toggle" -> job.want
                     [] job.op = "grant"  -> permission
                     [] OTHER             -> IF permission = "none" THEN "none" ELSE "revoked"
  /\ gone' = (gone \/ job.op = "deregister")
  /\ grant' = CASE job.op = "grant" -> TRUE [] job.op = "deregister" -> FALSE [] OTHER -> grant
  /\ session' = [session EXCEPT ![s] = Idle]

\* revokeDashboardSecretFromNode
RevokeGrant ==
  /\ ~gone /\ grant
  /\ grant' = FALSE
  /\ UNCHANGED <<edge, permission, gone, session>>

\* a transaction that fails, or that the database chooses to resolve a deadlock, leaves nothing
Rollback(s) ==
  /\ session[s] # Idle
  /\ session' = [session EXCEPT ![s] = Idle]
  /\ UNCHANGED <<edge, permission, gone, grant>>

Next ==
  \/ \E s \in Sessions :
       \/ \E e \in Edges :
            \/ \E want \in {"denied", "desired"} : Create(s, e, want) \/ Authorize(s, e, want)
            \/ Disconnect(s, e)
       \/ \E want \in {"active", "revoked"} : Toggle(s, want)
       \/ Deregister(s) \/ BeginGrant(s)
       \/ Write(s) \/ Decide(s) \/ Ensure(s) \/ Revoke(s) \/ Repoint(s) \/ Archive(s) \/ Withdraw(s)
       \/ Finish(s) \/ Rollback(s)
  \/ RevokeGrant

Spec == Init /\ [][Next]_topologyVars

-----------------------------------------------------------------------------
(* Properties.                                                              *)

TopologyTypeOK ==
  /\ edge \in [Edges -> {"none", "denied", "desired"}]
  /\ permission \in {"none", "active", "revoked"}
  /\ gone \in BOOLEAN /\ grant \in BOOLEAN

\* Whatever is drawn, authorised or revoked at the same time, a deregistered component ends up
\* with no connection: the commands that would still give it one wait for its row, or for the
\* connection's, and find the deregistration.
DeregisteredIsDisconnected == gone => Live = {}

\* Refuted, docs/dashboard/domain-model.md:26: deregistration invalidates the grants of the component.
\* A grant that looked at the component before is stored after.
DeregisteredHasNoGrant == gone => ~grant

\* docs/dashboard/domain-model.md:11: authorization_desired is one of the conditions of an effective
\* authorisation ("authorization_desired, component_permission, tokenovy scope/audience a pripadna
\* suspendace urcuji ucinnou autorizaci").  The runtime looks at the permission alone, so a command
\* about a connection never leaves it active when no connection wants it.
DeniedIsDenied ==
  [][\A s \in Sessions :
       session[s].op \in {"connect", "ensure"} /\ session[s].pc = "finish" /\ permission' = "active"
         /\ permission # "active"
       => Desired' # {}]_topologyVars
=============================================================================
