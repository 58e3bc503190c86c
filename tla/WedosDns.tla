----------------------------- MODULE WedosDns -----------------------------
(***************************************************************************)
(* TXT records for DNS-01 challenges: the ledger of operations, the rows   *)
(* of the WEDOS zone and what the authorities serve                        *)
(* (tls/wedos-dns-operation.ts, cli/wedos-wapi.ts).  A certbot hook or an  *)
(* acceptance run carries an operation out, the next deployment recovers   *)
(* what it left, and each function holds the operation's advisory lock     *)
(* while it runs, not between two of them.                                 *)
(***************************************************************************)
EXTENDS Integers, FiniteSets, Sequences

CONSTANTS
  Operations,  \* rows of wedos_dns_operation
  Processes,   \* command line processes at the same time
  MaxFaults    \* bound: processes that die, calls that fail and observations that give up

VARIABLES
  ledger,   \* wedos_dns_operation: state and wedos_row_id (0: null)
  rows,     \* rows of the zone at the provider, published or not; they are numbered
  zone,     \* operations whose value the last domain commit has published
  served,   \* operations whose value the authorities answer with: they follow the zone
  process,  \* what a process does, on which operation, and what it will do next
  added,    \* rows ever added
  faults    \* what MaxFaults bounds

dnsVars == <<ledger, rows, zone, served, process, added, faults>>

Done  == [pc |-> "idle", op |-> CHOOSE o \in Operations : TRUE, next |-> <<>>, catch |-> "end"]
Added == {"ROW_ADDED", "COMMITTED", "PROPAGATED"}
Removed == {"CLEANUP_REQUESTED", "DELETED", "CLEANUP_PROPAGATED"}
Over  == {"CLEANUP_PROPAGATED", "FAILED"}

\* listExactOwnedRow: name, type, value and the operation's own author comment
Owned(o) == {r \in rows : r.op = o}

Init ==
  /\ ledger = [o \in Operations |-> [state |-> "none", row |-> 0]]
  /\ rows = {} /\ zone = {} /\ served = {}
  /\ process = [p \in Processes |-> Done]
  /\ added = 0 /\ faults = 0

\* the functions hold the lock from the first read to the last write
Locking == {"missing", "adding", "publishing", "waiting", "deleting", "unpublishing", "vanishing"}
LockFree_Ignored(p) == TRUE
LockFree(p) == \A q \in Processes \ {p} : process[q].op = process[p].op => process[q].pc \notin Locking

State(p) == ledger[process[p].op].state
SetState(o, state) == [ledger EXCEPT ![o].state = state]

\* the end of one function and the beginning of the next, or of the process
Go(p) ==
  LET job == process[p] IN
  process' = [process EXCEPT ![p] =
    IF job.next = <<>> THEN Done ELSE [job EXCEPT !.pc = Head(job.next), !.next = Tail(job.next)]]
To(p, pc) == process' = [process EXCEPT ![p].pc = pc]

\* what a throw leads to: a command that has created the operation looks at it again unless it
\* was cleaning up already, the other commands end
Cleaning == {"cleanup", "deleting", "unpublishing", "vanishing"}
Throw(p) ==
  process' = [process EXCEPT ![p] =
    IF @.catch = "end" \/ @.pc \in Cleaning THEN Done ELSE [@ EXCEPT !.pc = "catch", !.next = <<>>]]

\* acme-auth (runDnsOperation), and wapi-test-roundtrip, which cleans up itself
Create(p, o) ==
  /\ process[p] = Done /\ ledger[o].state = "none"
  /\ ledger' = SetState(o, "CREATED")
  /\ \E catch \in {"rethrow", "cleanup"} :
       process' = [process EXCEPT ![p] =
         [pc |-> "add", op |-> o, catch |-> catch,
          next |-> IF catch = "cleanup" THEN <<"commit", "mark", "cleanup">> ELSE <<"commit", "mark">>]]
  /\ UNCHANGED <<rows, zone, served, added, faults>>

\* acme-cleanup of what acme-auth has printed; recover-acme and recover-preflight; and recover,
\* with the value in the OWNER's hand
Start(p, o, pc, next) ==
  /\ process[p] = Done /\ ledger[o].state \notin {"none"} \union Over
  /\ process' = [process EXCEPT ![p] = [Done EXCEPT !.pc = pc, !.op = o, !.next = next]]
  /\ UNCHANGED <<ledger, rows, zone, served, added, faults>>

CleanupHook(p, o) == ledger[o].state = "PROPAGATED" /\ Start(p, o, "cleanup", <<>>)
Recovery(p, o)    == Start(p, o, "recover", <<>>)
Resume(p, o)      == Start(p, o, "add", <<"commit", "mark">>)

-----------------------------------------------------------------------------
(* addTxtRow, commitDnsOperation and markPropagated.                        *)

\* the row is looked for before it is added
Add(p) ==
  LET o == process[p].op IN
  /\ process[p].pc = "add" /\ LockFree(p)
  /\ \/ State(p) = "CREATED" /\ To(p, IF Owned(o) = {} THEN "missing" ELSE "adding")
     \/ State(p) \in Added \union Removed /\ Go(p)
     \/ State(p) = "FAILED" /\ Throw(p)
  /\ UNCHANGED <<ledger, rows, zone, served, added, faults>>

AddRow(p) ==
  /\ process[p].pc = "missing"
  /\ rows' = rows \union {[op |-> process[p].op, id |-> added + 1]}
  /\ added' = added + 1
  /\ To(p, "adding")
  /\ UNCHANGED <<ledger, zone, served, faults>>

RecordRow(p) ==
  LET o == process[p].op IN
  /\ process[p].pc = "adding"
  /\ \/ /\ Cardinality(Owned(o)) = 1 /\ Go(p)
        /\ ledger' = IF State(p) # "CREATED" THEN ledger
                     ELSE [ledger EXCEPT ![o] = [state |-> "ROW_ADDED", row |-> (CHOOSE r \in Owned(o) : TRUE).id]]
     \/ Cardinality(Owned(o)) # 1 /\ Throw(p) /\ UNCHANGED ledger
  /\ UNCHANGED <<rows, zone, served, added, faults>>

Revalidated(o) == Owned(o) = {r \in rows : r.id = ledger[o].row} /\ Owned(o) # {}

\* domainCommit publishes every row of the zone
Publish(p) ==
  LET o == process[p].op IN
  /\ process[p].pc = "commit" /\ LockFree(p)
  /\ \/ State(p) = "ROW_ADDED" /\ Revalidated(o) /\ To(p, "publishing") /\ zone' = {r.op : r \in rows}
     \/ State(p) = "ROW_ADDED" /\ ~Revalidated(o) /\ Throw(p) /\ UNCHANGED zone
     \/ State(p) \in {"COMMITTED", "PROPAGATED"} \union Removed /\ Go(p) /\ UNCHANGED zone
     \/ State(p) \in {"CREATED", "FAILED"} /\ Throw(p) /\ UNCHANGED zone
  /\ UNCHANGED <<ledger, rows, served, added, faults>>

RecordPublished(p) ==
  /\ process[p].pc = "publishing"
  /\ ledger' = SetState(process[p].op, "COMMITTED")
  /\ Go(p)
  /\ UNCHANGED <<rows, zone, served, added, faults>>

\* waitForAuthoritativeTxt under the lock
Wait(p) ==
  /\ process[p].pc = "mark" /\ LockFree(p)
  /\ \/ State(p) = "COMMITTED" /\ To(p, "waiting")
     \/ State(p) \in {"PROPAGATED"} \union Removed /\ Go(p)
     \/ State(p) \in {"CREATED", "ROW_ADDED", "FAILED"} /\ Throw(p)
  /\ UNCHANGED <<ledger, rows, zone, served, added, faults>>

RecordPropagated(p) ==
  /\ process[p].pc = "waiting" /\ process[p].op \in served
  /\ ledger' = SetState(process[p].op, "PROPAGATED")
  /\ Go(p)
  /\ UNCHANGED <<rows, zone, served, added, faults>>

-----------------------------------------------------------------------------
(* cleanupDnsOperation.                                                     *)

RequestCleanup(p) ==
  LET o == process[p].op IN
  /\ process[p].pc = "cleanup" /\ LockFree(p)
  /\ \/ /\ State(p) \in Added \union {"CLEANUP_REQUESTED"}
        /\ ledger' = SetState(o, "CLEANUP_REQUESTED") /\ To(p, "deleting")
     \/ State(p) = "DELETED" /\ To(p, "vanishing") /\ UNCHANGED ledger
     \/ State(p) = "CLEANUP_PROPAGATED" /\ Go(p) /\ UNCHANGED ledger
     \/ State(p) \in {"CREATED", "FAILED"} /\ Throw(p) /\ UNCHANGED ledger
  /\ UNCHANGED <<rows, zone, served, added, faults>>

\* a row that is not there any more is not deleted, and nothing is published then
DeleteRow(p) ==
  LET o == process[p].op IN
  /\ process[p].pc = "deleting"
  /\ \/ Owned(o) = {} /\ ledger' = SetState(o, "DELETED") /\ To(p, "vanishing") /\ UNCHANGED rows
     \/ Revalidated(o) /\ rows' = rows \ Owned(o) /\ To(p, "unpublishing") /\ UNCHANGED ledger
     \/ Owned(o) # {} /\ ~Revalidated(o) /\ Throw(p) /\ UNCHANGED <<ledger, rows>>
  /\ UNCHANGED <<zone, served, added, faults>>

Unpublish(p) ==
  /\ process[p].pc = "unpublishing"
  /\ zone' = {r.op : r \in rows}
  /\ ledger' = SetState(process[p].op, "DELETED")
  /\ To(p, "vanishing")
  /\ UNCHANGED <<rows, served, added, faults>>

RecordGone(p) ==
  /\ process[p].pc = "vanishing" /\ process[p].op \notin served
  /\ ledger' = SetState(process[p].op, "CLEANUP_PROPAGATED")
  /\ Go(p)
  /\ UNCHANGED <<rows, zone, served, added, faults>>

-----------------------------------------------------------------------------
(* Recovery and failure.                                                    *)

\* the catch of runDnsOperation and of the round trip
Catch(p) ==
  /\ process[p].pc = "catch"
  /\ \/ State(p) = "CREATED" /\ To(p, "fail")
     \/ /\ State(p) # "CREATED"
        /\ process' = [process EXCEPT ![p] = IF @.catch = "rethrow" THEN Done ELSE [@ EXCEPT !.pc = "cleanup"]]
  /\ UNCHANGED <<ledger, rows, zone, served, added, faults>>

\* failWedosDnsOperation, from any state that is not final
Fail(p) ==
  /\ process[p].pc = "fail" /\ LockFree(p)
  /\ ledger' = IF State(p) \in Over THEN ledger ELSE SetState(process[p].op, "FAILED")
  /\ process' = [process EXCEPT ![p] = Done]
  /\ UNCHANGED <<rows, zone, served, added, faults>>

\* cleanupDnsOperationByOwnership looks at operation and rows without the lock
Recover(p) ==
  LET o == process[p].op
      mine == {r \in Owned(o) : ledger[o].row \in {0, r.id}} IN
  /\ process[p].pc = "recover"
  /\ \/ State(p) \in Over /\ Throw(p)
     \/ mine = {} /\ State(p) = "CREATED" /\ To(p, "fail")
     \/ /\ mine = {} /\ State(p) \in {"CLEANUP_REQUESTED", "DELETED"}
        /\ To(p, IF o \in served THEN "cleanup" ELSE "terminalize")
     \/ mine = {} /\ State(p) \in Added /\ Throw(p)
     \/ /\ mine # {} /\ State(p) \notin Over
        /\ IF State(p) = "DELETED" \/ Cardinality(mine) > 1 THEN Throw(p) ELSE To(p, "cleanup")
  /\ UNCHANGED <<ledger, rows, zone, served, added, faults>>

\* markCleanupPropagatedWithoutValue
Terminalize(p) ==
  /\ process[p].pc = "terminalize" /\ LockFree(p)
  /\ ledger' = IF State(p) \in {"CLEANUP_REQUESTED", "DELETED"} THEN SetState(process[p].op, "CLEANUP_PROPAGATED") ELSE ledger
  /\ process' = [process EXCEPT ![p] = Done]
  /\ UNCHANGED <<rows, zone, served, added, faults>>

-----------------------------------------------------------------------------
\* the authorities take over what is published
Propagate ==
  /\ served # zone
  /\ served' = zone
  /\ UNCHANGED <<ledger, rows, zone, process, added, faults>>

\* a provider's answer that is an error or is lost, a deadline, an observation that fails.  The
\* answer to rowAdd or rowDelete may be lost after the provider has done it
Throws(p) ==
  /\ process[p].pc \in Locking \union {"add"} /\ faults < MaxFaults
  /\ faults' = faults + 1
  /\ Throw(p)
  /\ UNCHANGED <<ledger, rows, zone, served, added>>

\* AUTHORITATIVE_PROPAGATION_TIMEOUT_MS, when the authorities have nothing to take over
Deadline(p) ==
  /\ served = zone
  /\ \/ process[p].pc = "waiting" /\ process[p].op \notin served
     \/ process[p].pc = "vanishing" /\ process[p].op \in served
  /\ Throw(p)
  /\ UNCHANGED <<ledger, rows, zone, served, added, faults>>

Crash(p) ==
  /\ process[p] # Done /\ faults < MaxFaults
  /\ faults' = faults + 1
  /\ process' = [process EXCEPT ![p] = Done]
  /\ UNCHANGED <<ledger, rows, zone, served, added>>

Run(p) ==
  \/ Add(p) \/ AddRow(p) \/ RecordRow(p) \/ Publish(p) \/ RecordPublished(p) \/ Wait(p) \/ RecordPropagated(p)
  \/ RequestCleanup(p) \/ DeleteRow(p) \/ Unpublish(p) \/ RecordGone(p)
  \/ Catch(p) \/ Fail(p) \/ Recover(p) \/ Terminalize(p) \/ Deadline(p)

Next ==
  \/ \E p \in Processes :
       \/ \E o \in Operations : Create(p, o) \/ CleanupHook(p, o) \/ Recovery(p, o) \/ Resume(p, o)
       \/ Run(p) \/ Throws(p) \/ Crash(p)
  \/ Propagate

Spec == Init /\ [][Next]_dnsVars

\* commands that run go on, the authorities follow, and recoveries are started again and again
\* as long as the operation is not over
Fairness ==
  /\ \A p \in Processes : WF_dnsVars(Run(p))
  /\ WF_dnsVars(Propagate)
  /\ \A o \in Operations : SF_dnsVars(\E p \in Processes : Recovery(p, o))

FairSpec == Spec /\ Fairness

-----------------------------------------------------------------------------
(* Properties.                                                              *)

DnsTypeOK ==
  /\ ledger \in [Operations -> [state : {"none", "CREATED", "FAILED"} \union Added \union Removed, row : Nat]]
  /\ rows \subseteq [op : Operations, id : Nat]
  /\ zone \subseteq Operations /\ served \subseteq Operations

\* The ledger agrees with the provider, whatever dies in between and whoever recovers at the same
\* time: an operation has one row at most; it is the recorded one while the operation says it is
\* there, and there is none once it says it is deleted.
LedgerTellsRows ==
  \A o \in Operations :
    /\ Cardinality(Owned(o)) <= 1
    /\ ledger[o].state \in Added => Revalidated(o)
    /\ ledger[o].state \in {"none", "DELETED", "CLEANUP_PROPAGATED"} => Owned(o) = {}

\* docs/runbooks/deployment.md:73: "A later deployment always uses canonical recover-preflight and
\* recover-acme exact-ownership cleanup; operators must not delete TXT rows manually."
InterruptedIsCleaned ==
  \A o \in Operations : ledger[o].state = "CREATED" ~> ledger[o].state \in Over
=============================================================================
