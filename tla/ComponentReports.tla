-------------------------- MODULE ComponentReports --------------------------
(***************************************************************************)
(* What a component reports about itself: the events of its audit stream   *)
(* (domain/component-audit.ts), each written down as an operation first,   *)
(* and the pulses it sends and receives (http/component-routes.ts,         *)
(* domain/component.ts).  Requests are handled side by side; an event is   *)
(* judged against the row of the stream, read under its lock.              *)
(***************************************************************************)
EXTENDS Naturals, Sequences

CONSTANTS
    Requests,
    Contents,     \* what an event says, its digest included
    None,
    MaxSequence,  \* bound: sequence numbers
    MaxReports    \* bound: requests received

VARIABLES
    stream,     \* the row of component_audit_stream
    stored,     \* component_audit_event in the order of sequence_number
    operations, \* component_operation_event of the audit events
    pulses,     \* component_operation_event of the pulses: what became of them
    component,  \* [open, health]: whether ingress is authorized; monitoring_state
    request,    \* the requests being handled
    reports

vars == <<stream, stored, operations, pulses, component, request, reports>>

Numbers == 1..MaxSequence
Idle == [kind |-> "none", step |-> "none", number |-> 1, content |-> None,
         success |-> TRUE, delivered |-> FALSE, view |-> None]

\* The hash of an event is the chain it ends: hashes are equal only if all the
\* events up to there are.
Hash(previous, content) == Append(previous, content)

Init ==
    /\ stream = [next |-> 1, highest |-> 0, gap |-> None, integrity |-> "VALID", hash |-> <<>>]
    /\ stored = <<>> /\ operations = {} /\ pulses = {}
    /\ component = [open |-> TRUE, health |-> "HEALTHY"]
    /\ request = [r \in Requests |-> Idle]
    /\ reports = 0

Step(r, step) == request' = [request EXCEPT ![r].step = step]
End(r) == request' = [request EXCEPT ![r] = Idle]

\* A failure that is reported spoils the health of the component.
Judge(success) == component' = [component EXCEPT !.health = IF success THEN @ ELSE "FAILED"]

----------------------------------------------------------------------------
\* authorizeRuntime and the schema of the body: the only look at the state of
\* the component a request gets.
Receive(r, kind, n, c, success) ==
    /\ request[r].step = "none" /\ component.open
    /\ reports < MaxReports /\ reports' = reports + 1
    /\ request' = [request EXCEPT ![r] = [Idle EXCEPT !.kind = kind, !.step = "authorized",
           !.number = n, !.content = c, !.success = success]]
    /\ UNCHANGED <<stream, stored, operations, pulses, component>>

\* ingestComponentOperationEvent, a transaction before that of the stream.
LogEvent(r) ==
    /\ request[r].kind = "audit" /\ request[r].step = "authorized"
    /\ operations' = operations \union {<<request[r].number, request[r].content>>}
    /\ Judge(request[r].success)
    /\ Step(r, "logged")
    /\ UNCHANGED <<stream, stored, pulses, reports>>

\* for update of stream, component
LockFree_Ignored(r) == TRUE
LockFree(r) == \A q \in Requests \ {r} : request[q].step # "locked"
Lock(r) ==
    /\ request[r].step = "logged" /\ LockFree(r)
    /\ request' = [request EXCEPT ![r].step = "locked", ![r].view = stream]
    /\ UNCHANGED <<stream, stored, operations, pulses, component, reports>>

\* An event already stored: the same is a duplicate, another one a conflict
\* that quarantines the component.
Rewind(r) ==
    LET n == request[r].number IN
    /\ request[r].step = "locked" /\ n < request[r].view.next
    /\ IF stored[n].hash = Hash(stored[n].previous, request[r].content)
       THEN UNCHANGED <<stream, component>>
       ELSE /\ stream' = [stream EXCEPT !.integrity = "CONFLICT"]
            /\ component' = [component EXCEPT !.open = FALSE]
    /\ End(r)
    /\ UNCHANGED <<stored, operations, pulses, reports>>

\* An event ahead of its turn is refused; the gap is the one it shows.
Ahead(r) ==
    LET n == request[r].number
        next == request[r].view.next IN
    /\ request[r].step = "locked" /\ n > next
    /\ stream' = [stream EXCEPT !.gap = [from |-> next, to |-> n - 1],
                                !.highest = IF n > @ THEN n ELSE @]
    /\ End(r)
    /\ UNCHANGED <<stored, operations, pulses, component, reports>>

\* The expected event; a number that is taken fails on the primary key.
Closes(n) == stream.gap = None \/ n >= stream.gap.to
Accept(r) ==
    LET n == request[r].number
        event == [content |-> request[r].content, previous |-> request[r].view.hash,
                  hash |-> Hash(request[r].view.hash, request[r].content)] IN
    /\ request[r].step = "locked" /\ n = request[r].view.next
    /\ IF n \in DOMAIN stored THEN UNCHANGED <<stored, stream>>
       ELSE /\ stored' = Append(stored, event)
            /\ stream' = [next |-> n + 1,
                          highest |-> IF n > stream.highest THEN n ELSE stream.highest,
                          gap |-> IF Closes(n) THEN None ELSE [stream.gap EXCEPT !.from = n + 1],
                          integrity |-> "VALID", hash |-> event.hash]
    /\ End(r)
    /\ UNCHANGED <<operations, pulses, component, reports>>

----------------------------------------------------------------------------
\* A pulse that came in, or one of its own the component reports: validated
\* and written down with its lease in one transaction.
IngestPulse(r, valid) ==
    /\ request[r].kind = "pulse" /\ request[r].step = "authorized"
    /\ IF valid THEN pulses' = pulses \union {<<"seen", TRUE>>} /\ Judge(request[r].success)
                ELSE UNCHANGED <<pulses, component>>
    /\ End(r)
    /\ UNCHANGED <<stream, stored, operations, reports>>

\* A pulse to another component is sent through the egress first.  Its answer
\* may be lost after the target has taken it.
Deliver(r) ==
    /\ request[r].kind = "outbound" /\ request[r].step = "authorized"
    /\ request' = [request EXCEPT ![r].delivered = TRUE]
    /\ UNCHANGED <<stream, stored, operations, pulses, component, reports>>
\* The mask, the route and the schema of the sender are looked at only now.
Delivered(r) == request[r].delivered
IngestOutbound(r, valid) ==
    /\ request[r].kind = "outbound" /\ request[r].step = "authorized" /\ Delivered(r)
    /\ IF valid
       THEN /\ pulses' = pulses \union {<<"sent", request[r].delivered>>}
            /\ Judge(request[r].success) /\ End(r)
       ELSE Step(r, "failed") /\ UNCHANGED <<pulses, component>>
    /\ UNCHANGED <<stream, stored, operations, reports>>
NotDelivered(r) ==
    /\ request[r].kind = "outbound" /\ request[r].step = "authorized"
    /\ Step(r, "failed")
    /\ UNCHANGED <<stream, stored, operations, pulses, component, reports>>
LogFailure(r) ==
    /\ request[r].step = "failed"
    /\ pulses' = pulses \union {<<"unsent", request[r].delivered>>}
    /\ Judge(FALSE) /\ End(r)
    /\ UNCHANGED <<stream, stored, operations, reports>>

\* The server dies, or an answer and with it the rest of a request is lost.
Crash ==
    /\ request' = [r \in Requests |-> Idle]
    /\ UNCHANGED <<stream, stored, operations, pulses, component, reports>>

\* The OWNER puts the component back and it is enabled again.
Restore ==
    /\ ~component.open
    /\ component' = [open |-> TRUE, health |-> "HEALTHY"]
    /\ UNCHANGED <<stream, stored, operations, pulses, request, reports>>

----------------------------------------------------------------------------
Next ==
    \/ \E r \in Requests :
         \/ \E n \in Numbers, c \in Contents, success \in BOOLEAN :
                Receive(r, "audit", n, c, success)
         \/ \E kind \in {"pulse", "outbound"}, success \in BOOLEAN :
                Receive(r, kind, 1, None, success)
         \/ LogEvent(r) \/ Lock(r) \/ Rewind(r) \/ Ahead(r) \/ Accept(r)
         \/ \E valid \in BOOLEAN : IngestPulse(r, valid) \/ IngestOutbound(r, valid)
         \/ Deliver(r) \/ NotDelivered(r) \/ LogFailure(r)
    \/ Crash
    \/ Restore

Spec == Init /\ [][Next]_vars

----------------------------------------------------------------------------
\* Whatever order the events arrive in, however often they are repeated and
\* wherever the server dies: the events stored are one chain without a hole,
\* the row of the stream knows its end, and a gap that is shown starts at the
\* next event and is really missing (ingestComponentAuditEvent).  Every event
\* stored was written down as an operation before.
OneChain ==
    /\ stream.next = Len(stored) + 1
    /\ \A n \in DOMAIN stored :
         /\ stored[n].previous = IF n = 1 THEN <<>> ELSE stored[n - 1].hash
         /\ <<n, stored[n].content>> \in operations
    /\ stream.hash = IF stored = <<>> THEN <<>> ELSE stored[Len(stored)].hash
    /\ stream.gap # None =>
         stream.gap.from = stream.next /\ stream.gap.to \in stream.next..(stream.highest - 1)
=============================================================================
