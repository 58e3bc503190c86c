----------------------- MODULE ComponentControlProofs -----------------------
(***************************************************************************)
(* Proofs about ComponentControl for every set of workers and commands and *)
(* every bound.  What a command's row promises (RowOK) and what no step    *)
(* takes back from it (Keeps) carry the rest: the fencing of an attempt by *)
(* its number, the epoch of a command to disable, and the evidence that a  *)
(* component in service rests on.                                          *)
(***************************************************************************)
EXTENDS ComponentControl, TLAPS

Unanswered(log) == \A i \in 1..Len(log) : log[i] # "ACKED"

\* What holds of the row of a command at all times.
RowOK(r) ==
  /\ r.type = "none" <=> r.state = "ABSENT"
  /\ r.state = "ABSENT" => r.log = <<>>
  /\ r.delivered => r.type # "none"
  /\ r.query \in Payload \/ r.beat = "RESPONDED" => r.delivered
  /\ \A i \in 1..Len(r.log) : r.log[i] = "ACKED" => i = Len(r.log)
  /\ Len(r.log) <= MaxAttempts
  /\ r.state \in Pending /\ Unanswered(r.log) => Len(r.log) < MaxAttempts

\* What a step from r to s does not take back.
Keeps(r, s) ==
  /\ \/ /\ s.type = r.type /\ s.requested = r.requested
        /\ r.state # "ABSENT" => s.state # "ABSENT"
     \/ r.state = "ABSENT" /\ (s.type = "disable" => s.requested < epoch')
  /\ r.delivered => s.delivered
  /\ r.query \in Payload => s.query \in Payload
  /\ r.beat = "RESPONDED" => s.beat = "RESPONDED"
  /\ s.log = r.log \/ \E x \in {"FAILED", "ACKED"} : s.log = Append(r.log, x)

Rows ==
  /\ dispatch \in [Dispatches -> DispatchState]
  /\ \A d \in Dispatches : RowOK(dispatch[d])

RowsKept == \A d \in Dispatches : Keeps(dispatch[d], dispatch'[d])

\* A worker is busy with a command that was queued, and whoever holds the next
\* free number of an attempt holds it for a command without an answer.
WorkerOK(w) ==
  /\ worker[w].pc # "idle" =>
       worker[w].id \in Dispatches /\ dispatch[worker[w].id].type # "none"
  /\ worker[w].pc \in {"sending", "sent"} =>
       LET log == dispatch[worker[w].id].log IN
       /\ worker[w].attempt \in 1..MaxAttempts
       /\ worker[w].attempt <= Len(log) + 1
       /\ worker[w].attempt = Len(log) + 1 => Unanswered(log)

\* The component only answers what it has seen.
CallOK == call.step # "none" => call.id \in Dispatches /\ dispatch[call.id].delivered

\* What the types of the other variables are.
Typed ==
  /\ component \in Component
  /\ principal \in {"ACTIVE", "SUSPENDED", "QUARANTINED", "REVOKED"}
  /\ epoch \in Nat \ {0}
  /\ worker \in [Workers -> WorkerState]
  /\ call \in CallState
  /\ events \in 0..MaxEvents

IInv ==
  /\ Typed
  /\ Rows
  /\ \A w \in Workers : WorkerOK(w)
  /\ CallOK
  /\ DisableOutlivesItsEpoch
  /\ LiveIsConfirmed

-----------------------------------------------------------------------------
(* Rows.                                                                    *)

\* A row that is not touched keeps what it promises.
LEMMA KeepsItself ==
  ASSUME NEW r PROVE Keeps(r, r)
BY DEF Keeps

\* One row changes.
LEMMA OneRow ==
  ASSUME Rows, NEW d \in Dispatches, NEW s \in DispatchState,
         RowOK(s), Keeps(dispatch[d], s), dispatch' = [dispatch EXCEPT ![d] = s]
  PROVE  Rows' /\ RowsKept /\ dispatch'[d] = s
<1>1. \A e \in Dispatches : dispatch'[e] = IF e = d THEN s ELSE dispatch[e]
  BY DEF Rows
<1>2. dispatch' \in [Dispatches -> DispatchState]
  BY DEF Rows
<1>3. \A e \in Dispatches : RowOK(dispatch'[e])
  BY <1>1 DEF Rows
<1>4. RowsKept
  BY <1>1, KeepsItself DEF RowsKept
<1> QED
  BY <1>1, <1>2, <1>3, <1>4 DEF Rows

\* No row changes.
LEMMA NoRow ==
  ASSUME Rows, UNCHANGED dispatch
  PROVE  Rows' /\ RowsKept
BY KeepsItself DEF Rows, RowsKept

LEMMA EmptyLog ==
  /\ <<>> \in Seq({"FAILED", "ACKED"}) /\ Len(<<>>) = 0
  /\ Unanswered(<<>>)
BY DEF Unanswered

\* enqueueControlDispatch
LEMMA EnqueueRow ==
  ASSUME Rows, NEW type \in CommandType, NEW requested \in Nat, Enqueue(type, requested),
         type = "disable" => requested < epoch'
  PROVE  \E d \in Dispatches :
           /\ dispatch[d].state = "ABSENT"
           /\ dispatch' = [dispatch EXCEPT ![d] = Queued(type, requested)]
           /\ Rows' /\ RowsKept /\ dispatch'[d] = Queued(type, requested)
<1>1. PICK d \in Dispatches : /\ dispatch[d].state = "ABSENT"
                              /\ dispatch' = [dispatch EXCEPT ![d] = Queued(type, requested)]
  BY DEF Enqueue
<1> DEFINE s == Queued(type, requested)
<1>2. PICK q \in {"none", "PENDING"}, b \in {"none", "PENDING"} :
        s = [NoDispatch EXCEPT !.type = type, !.requested = requested, !.state = "QUEUED",
                               !.query = q, !.beat = b]
  <2> DEFINE q == IF type = "heartbeat" THEN "none" ELSE "PENDING"
             b == IF type \in {"enable", "heartbeat"} THEN "PENDING" ELSE "none"
  <2>1. q \in {"none", "PENDING"} /\ b \in {"none", "PENDING"}
    OBVIOUS
  <2>2. s = [NoDispatch EXCEPT !.type = type, !.requested = requested, !.state = "QUEUED",
                               !.query = q, !.beat = b]
    BY Zenon DEF Queued
  <2> QED
    BY <2>1, <2>2, Zenon
<1>3. s \in DispatchState /\ s.type = type /\ s.requested = requested /\ s.state = "QUEUED" /\ s.log = <<>>
      /\ ~s.delivered /\ s.query \notin Payload /\ s.beat # "RESPONDED"
  <2> HIDE DEF s
  <2> QED
    BY <1>2, EmptyLog DEF NoDispatch, DispatchState, CommandType, Pending, Payload
<1>4. RowOK(s)
  BY <1>3, EmptyLog, ControlAssumption DEF RowOK, CommandType
<1>5. Keeps(dispatch[d], s)
  BY <1>1, <1>3 DEF Keeps, Rows, RowOK
<1> QED
  BY <1>1, <1>3, <1>4, <1>5, OneRow

\* finalizeDispatchFromEvidence
LEMMA FinalizeRow ==
  ASSUME Rows, NEW d \in Dispatches, NEW r \in DispatchState,
         RowOK(r), Keeps(dispatch[d], r), Finalize(d, r)
  PROVE  Rows' /\ RowsKept
<1>1. CASE ~Confirmed(r)
  BY <1>1, OneRow DEF Finalize
<1>2. CASE Confirmed(r)
  <2> DEFINE s == [r EXCEPT !.state = "COMPLETED"]
  <2>1. s \in DispatchState
    BY DEF DispatchState, Settled, Acked
  <2>2. RowOK(s)
    BY <1>2 DEF RowOK, Confirmed, Acked, Pending, DispatchState
  <2>3. Keeps(dispatch[d], s)
    BY DEF Keeps, DispatchState
  <2> QED
    BY <1>2, <2>1, <2>2, <2>3, OneRow DEF Finalize
<1> QED
  BY <1>1, <1>2

\* recordComponentControlAck
LEMMA AckRow ==
  ASSUME Rows, NEW d \in Dispatches, dispatch[d].type # "none", RecordAck(d)
  PROVE  Rows' /\ RowsKept
<1> DEFINE r == [dispatch[d] EXCEPT !.state = "ACKED"]
<1>1. r \in DispatchState
  BY DEF Rows, DispatchState, Settled, Acked
<1>2. RowOK(r) /\ Keeps(dispatch[d], r)
  BY DEF Rows, RowOK, Keeps, DispatchState, Pending
<1> QED
  BY <1>1, <1>2, FinalizeRow DEF RecordAck

\* A state or a heartbeat is recorded for a command that the component has seen.
LEMMA EvidenceRow ==
  ASSUME Rows, NEW d \in Dispatches, dispatch[d].delivered, NEW p \in Payload,
         \/ Finalize(d, [dispatch[d] EXCEPT !.query = p])
         \/ Finalize(d, [dispatch[d] EXCEPT !.beat = "RESPONDED"])
  PROVE  Rows' /\ RowsKept
<1>1. ASSUME NEW r, r \in {[dispatch[d] EXCEPT !.query = p], [dispatch[d] EXCEPT !.beat = "RESPONDED"]}
      PROVE  r \in DispatchState /\ RowOK(r) /\ Keeps(dispatch[d], r)
  BY <1>1 DEF Rows, DispatchState, RowOK, Keeps
<1> QED
  BY <1>1, FinalizeRow

\* Expiry changes nothing that a row promises.
LEMMA SweptRows ==
  ASSUME Rows
  PROVE  /\ Swept \in [Dispatches -> DispatchState]
         /\ \A d \in Dispatches : RowOK(Swept[d]) /\ Keeps(dispatch[d], Swept[d])
<1> SUFFICES ASSUME NEW d \in Dispatches
             PROVE  Swept[d] \in DispatchState /\ RowOK(Swept[d]) /\ Keeps(dispatch[d], Swept[d])
  BY DEF Swept
<1>1. CASE dispatch[d].state \in Sweepable /\ dispatch[d].overdue
  <2>1. Swept[d] = [dispatch[d] EXCEPT !.state = "EXPIRED", !.leased = FALSE]
    BY <1>1 DEF Swept
  <2> DEFINE s == [dispatch[d] EXCEPT !.state = "EXPIRED", !.leased = FALSE]
  <2>2. s \in DispatchState
    BY ZenonT(60) DEF Rows, DispatchState, Settled
  <2>3. RowOK(s) /\ Keeps(dispatch[d], s)
    BY <1>1 DEF Rows, RowOK, Keeps, DispatchState, Sweepable, Pending
  <2> QED
    BY <2>1, <2>2, <2>3
<1>2. CASE ~(dispatch[d].state \in Sweepable /\ dispatch[d].overdue)
  BY <1>2, KeepsItself DEF Swept, Rows
<1> QED
  BY <1>1, <1>2

LEMMA ClaimRows ==
  ASSUME Rows, NEW w \in Workers, NEW d \in Dispatches, Claim(w, d)
  PROVE  Rows' /\ RowsKept /\ dispatch'[d].log = dispatch[d].log
<1>1. Swept[d] = dispatch[d]
  BY DEF Claim, Claimable, Swept
<1> DEFINE s == [dispatch[d] EXCEPT !.state = "CLAIMED", !.leased = TRUE]
<1>2. dispatch' = [Swept EXCEPT ![d] = s]
  BY <1>1, SweptRows DEF Claim
<1>3. s \in DispatchState /\ s.log = dispatch[d].log
  BY ZenonT(60) DEF Rows, DispatchState, Pending
<1>4. RowOK(s) /\ Keeps(dispatch[d], s)
  BY DEF Claim, Claimable, Rows, RowOK, Keeps, DispatchState, Pending
<1>5. \A e \in Dispatches : dispatch'[e] = IF e = d THEN s ELSE Swept[e]
  BY <1>2, SweptRows
<1>6. dispatch' \in [Dispatches -> DispatchState]
  BY <1>2, <1>3, SweptRows
<1> QED
  BY <1>3, <1>4, <1>5, <1>6, SweptRows DEF Rows, RowsKept

\* A worker's answer or failure is stored under the next number, when that is free.
LEMMA AttemptRow ==
  ASSUME Rows, NEW w \in Workers, WorkerOK(w), worker[w].pc \in {"sending", "sent"}, Fenced(w),
         NEW x \in {"FAILED", "ACKED"}, NEW state \in {"ACK_PENDING", "QUEUED", "FAILED"},
         state = "ACK_PENDING" <=> x = "ACKED",
         state = "QUEUED" => worker[w].attempt < MaxAttempts,
         dispatch' = [dispatch EXCEPT ![worker[w].id].state = state, ![worker[w].id].leased = FALSE,
                                      ![worker[w].id].log = Append(@, x)]
  PROVE  Rows' /\ RowsKept
<1> DEFINE d == worker[w].id
           r == dispatch[d]
           s == [r EXCEPT !.state = state, !.leased = FALSE, !.log = Append(r.log, x)]
<1>1. d \in Dispatches /\ r \in DispatchState /\ RowOK(r) /\ r.type # "none"
  BY DEF WorkerOK, Rows
<1>2. /\ worker[w].attempt \in 1..MaxAttempts /\ worker[w].attempt = Len(r.log) + 1
      /\ Unanswered(r.log)
  BY DEF WorkerOK, Fenced
<1>3. dispatch' = [dispatch EXCEPT ![d] = s]
  BY <1>1 DEF Rows
<1> HIDE DEF d, r
<1>4. r.log \in Seq({"FAILED", "ACKED"})
  BY <1>1 DEF DispatchState
<1>5. /\ Append(r.log, x) \in Seq({"FAILED", "ACKED"})
      /\ Len(Append(r.log, x)) = Len(r.log) + 1 /\ Len(r.log) \in Nat
      /\ \A i \in 1..Len(r.log) : Append(r.log, x)[i] = r.log[i]
      /\ Append(r.log, x)[Len(r.log) + 1] = x
  BY <1>4
<1>6. s \in DispatchState
  BY <1>1, <1>5 DEF DispatchState, Pending, Settled
<1>7. /\ s.type = r.type /\ s.state = state /\ s.log = Append(r.log, x) /\ s.query = r.query
      /\ s.beat = r.beat /\ s.delivered = r.delivered /\ s.requested = r.requested
  BY <1>1 DEF DispatchState
<1> HIDE DEF s
<1>8. RowOK(s)
  <2>1. s.type # "none" /\ s.state # "ABSENT"
    BY <1>1, <1>7
  <2>2. s.query \in Payload \/ s.beat = "RESPONDED" => s.delivered
    BY <1>1, <1>7 DEF RowOK
  <2>3. \A i \in 1..Len(s.log) : s.log[i] = "ACKED" => i = Len(s.log)
    BY <1>2, <1>5, <1>7 DEF Unanswered
  <2>4. Len(s.log) <= MaxAttempts
    BY <1>2, <1>5, <1>7
  <2>5. CASE state = "QUEUED"
    BY <2>1, <2>2, <2>3, <2>4, <2>5, <1>2, <1>5, <1>7, ControlAssumption DEF RowOK
  <2>6. CASE state = "FAILED"
    BY <2>1, <2>2, <2>3, <2>4, <2>6, <1>7 DEF RowOK, Pending
  <2>7. CASE state = "ACK_PENDING"
    <3>1. s.log[Len(s.log)] = "ACKED" /\ Len(s.log) \in 1..Len(s.log)
      BY SMTT(30), <2>7, <1>5, <1>7
    <3>2. ~Unanswered(s.log)
      BY <3>1 DEF Unanswered
    <3> QED
      BY <2>1, <2>2, <2>3, <2>4, <3>2 DEF RowOK
  <2> QED
    BY <2>5, <2>6, <2>7
<1>9. Keeps(r, s)
  BY <1>1, <1>7 DEF Keeps
<1> QED
  BY <1>1, <1>3, <1>6, <1>8, <1>9, OneRow DEF r

\* A command is sent, refused, or its lease or its time runs out.
LEMMA FlagRow ==
  ASSUME Rows, NEW d \in Dispatches,
         \/ dispatch' = [dispatch EXCEPT ![d].leased = FALSE]
         \/ dispatch' = [dispatch EXCEPT ![d].overdue = TRUE]
         \/ dispatch[d].type # "none" /\ dispatch' = [dispatch EXCEPT ![d].delivered = TRUE]
         \/ dispatch[d].type # "none" /\ dispatch' = [dispatch EXCEPT ![d].state = "FAILED"]
  PROVE  Rows' /\ RowsKept
<1>1. dispatch[d] \in DispatchState /\ RowOK(dispatch[d])
  BY DEF Rows
<1>2. ASSUME NEW s, s = [dispatch[d] EXCEPT !.leased = FALSE] \/ s = [dispatch[d] EXCEPT !.overdue = TRUE]
      PROVE  s \in DispatchState /\ RowOK(s) /\ Keeps(dispatch[d], s)
  BY ZenonT(60), <1>1, <1>2 DEF DispatchState, RowOK, Keeps
<1>3. ASSUME NEW s, s = [dispatch[d] EXCEPT !.delivered = TRUE], dispatch[d].type # "none"
      PROVE  s \in DispatchState /\ RowOK(s) /\ Keeps(dispatch[d], s)
  BY <1>1, <1>3 DEF DispatchState, RowOK, Keeps
<1>4. ASSUME NEW s, s = [dispatch[d] EXCEPT !.state = "FAILED"], dispatch[d].type # "none"
      PROVE  s \in DispatchState /\ RowOK(s) /\ Keeps(dispatch[d], s)
  BY <1>1, <1>4 DEF DispatchState, RowOK, Keeps, Settled, Pending
<1>5. PICK s : /\ s \in DispatchState /\ RowOK(s) /\ Keeps(dispatch[d], s)
               /\ dispatch' = [dispatch EXCEPT ![d] = s]
  BY <1>2, <1>3, <1>4 DEF Rows
<1> QED
  BY <1>5, OneRow

\* Every step keeps the rows.
LEMMA RowsStep ==
  ASSUME IInv, [Next]_vars
  PROVE  Rows' /\ RowsKept
<1> USE DEF IInv, Typed
<1>1. ASSUME UNCHANGED dispatch PROVE Rows' /\ RowsKept
  BY <1>1, NoRow
<1>2. CASE RequestEnable
  BY <1>2, EnqueueRow DEF RequestEnable, CommandType
<1>3. CASE RequestDisable
  BY <1>3, EnqueueRow DEF RequestDisable, DisabledEpoch, CommandType
<1>4. CASE QueryState
  BY <1>4, EnqueueRow DEF QueryState, CommandType
<1>5. CASE ChallengeHeartbeat
  BY <1>5, EnqueueRow DEF ChallengeHeartbeat, CommandType
<1>6. CASE \/ \E a \in LifecycleAction : SetLifecycle(a)
           \/ Monitor \/ CheckCall
           \/ \E w \in Workers : CheckAck(w) \/ Crash(w)
           \/ \E kind \in CallKind, d \in Dispatches, p \in Payload :
                \E e \in {dispatch[d].requested, epoch} : Receive(kind, d, e, p)
  BY <1>1, <1>6 DEF SetLifecycle, Monitor, MarkStale, Probe, CheckCall, Reject, CheckAck, Crash, Receive
<1>7. ASSUME NEW w \in Workers, Sweep(w) PROVE Rows' /\ RowsKept
  BY <1>7, SweptRows DEF Sweep, Rows, RowsKept
<1>8. ASSUME NEW w \in Workers, NEW d \in Dispatches, Claim(w, d) PROVE Rows' /\ RowsKept
  BY <1>8, ClaimRows
<1>9. ASSUME NEW w \in Workers, Send(w) PROVE Rows' /\ RowsKept
  BY <1>9, FlagRow DEF Send, WorkerOK
<1>10. ASSUME NEW w \in Workers, StoreAnswer(w) PROVE Rows' /\ RowsKept
  BY <1>1, <1>10, AttemptRow DEF StoreAnswer
<1>11. ASSUME NEW w \in Workers, FailAttempt(w) PROVE Rows' /\ RowsKept
  <2>1. CASE ~Fenced(w)
    BY <1>1, <1>11, <2>1 DEF FailAttempt
  <2>2. CASE Fenced(w)
    <3> DEFINE s == IF Exhausted(worker[w].attempt) THEN "FAILED" ELSE "QUEUED"
    <3>1. s = "QUEUED" => worker[w].attempt < MaxAttempts
      BY <1>11, ControlAssumption DEF FailAttempt, Exhausted, WorkerOK
    <3>2. s \in {"ACK_PENDING", "QUEUED", "FAILED"} /\ s # "ACK_PENDING"
      OBVIOUS
    <3>3. dispatch' = [dispatch EXCEPT ![worker[w].id].state = s, ![worker[w].id].leased = FALSE,
                                       ![worker[w].id].log = Append(@, "FAILED")]
      BY <1>11, <2>2 DEF FailAttempt
    <3>4. worker[w].pc \in {"sending", "sent"} /\ WorkerOK(w)
      BY <1>11 DEF FailAttempt
    <3> HIDE DEF s
    <3> QED
      BY <2>2, <3>1, <3>2, <3>3, <3>4, AttemptRow
  <2> QED
    BY <2>1, <2>2
<1>12. ASSUME NEW w \in Workers, FinishAck(w) PROVE Rows' /\ RowsKept
  BY <1>12, AckRow DEF FinishAck, WorkerOK
<1>13. CASE FinishCall
  <2> DEFINE d == call.id
  <2>1. d \in Dispatches /\ dispatch[d].delivered /\ dispatch[d].type # "none" /\ call.payload \in Payload
    BY <1>13 DEF FinishCall, CallOK, Rows, RowOK, CallState
  <2>2. CASE RecordAck(d)
    BY <2>1, <2>2, AckRow
  <2>3. CASE dispatch' = [dispatch EXCEPT ![d].state = "FAILED"]
    BY <2>1, <2>3, FlagRow
  <2>4. CASE Finalize(d, [dispatch[d] EXCEPT !.query = call.payload])
    BY <2>1, <2>4, EvidenceRow
  <2> QED
    BY <1>13, <2>2, <2>3, <2>4 DEF FinishCall
<1>14. CASE LockedCall
  <2> DEFINE d == call.id
  <2>1. d \in Dispatches /\ dispatch[d].delivered /\ call.payload \in Payload
    BY <1>14 DEF LockedCall, CallOK, CallState
  <2>2. CASE \/ Finalize(d, [dispatch[d] EXCEPT !.query = call.payload])
             \/ Finalize(d, [dispatch[d] EXCEPT !.beat = "RESPONDED"])
    BY <2>1, <2>2, EvidenceRow
  <2> QED
    BY <1>1, <1>14, <2>2 DEF LockedCall, Reject
<1>15. ASSUME NEW w \in Workers, Stall(w) PROVE Rows' /\ RowsKept
  BY <1>15, FlagRow DEF Stall, WorkerOK
<1>16. ASSUME NEW d \in Dispatches, LeaseExpires(d) \/ DeadlinePasses(d) PROVE Rows' /\ RowsKept
  BY <1>16, FlagRow DEF LeaseExpires, DeadlinePasses
<1>17. CASE UNCHANGED vars
  BY <1>1, <1>17 DEF vars
<1> QED
  BY <1>2, <1>3, <1>4, <1>5, <1>6, <1>7, <1>8, <1>9, <1>10, <1>11, <1>12, <1>13, <1>14, <1>15,
     <1>16, <1>17
  DEF Next, Command, Poll, Progress, Callback, Environment

-----------------------------------------------------------------------------
(* The component, its principal and its epoch.                              *)

Confirming(d) ==
  /\ dispatch[d].type = "enable" /\ dispatch[d].delivered
  /\ dispatch[d].query \in Payload /\ dispatch[d].beat = "RESPONDED"

\* What a step does to the component: it stays typed, its epoch never goes back,
\* and when it is in service it was before or a confirmed command put it there.
Effect ==
  /\ component' \in Component
  /\ principal' \in {"ACTIVE", "SUSPENDED", "QUARANTINED", "REVOKED"}
  /\ epoch' \in Nat \ {0} /\ epoch' >= epoch
  /\ component'.enabled =>
       \/ /\ component.enabled /\ principal' = principal
          /\ component'.activation = component.activation
          /\ component'.lifecycle = component.lifecycle
       \/ /\ component' = Activated /\ principal' = "ACTIVE"
          /\ component.enabled \/ epoch' > epoch
          /\ \E d \in Dispatches : Confirming(d)'

LEMMA FinalizeEffect ==
  ASSUME Typed, Rows', NEW d \in Dispatches, NEW r \in DispatchState, Finalize(d, r),
         dispatch \in [Dispatches -> DispatchState]
  PROVE  Effect
<1>1. ASSUME UNCHANGED <<component, epoch, principal>> PROVE Effect
  BY <1>1 DEF Typed, Effect
<1>2. CASE Confirmed(r) /\ r.type = "enable"
  <2>1. Update(Activated) /\ principal' = "ACTIVE"
    BY <1>2 DEF Finalize
  <2>2. dispatch'[d] = [r EXCEPT !.state = "COMPLETED"]
    BY <1>2 DEF Finalize
  <2>3. Confirming(d)'
    BY <1>2, <2>2 DEF Confirmed, QueryOkay, HeartbeatOkay, Rows, RowOK, DispatchState, Payload, Confirming
  <2>4. Activated \in Component
    BY DEF Activated, Component
  <2>5. component.enabled \/ epoch' > epoch
    BY <2>1 DEF Update, Activated, Typed
  <2>6. epoch' \in Nat \ {0} /\ epoch' >= epoch /\ component' = Activated
    BY <2>1 DEF Update, Typed
  <2> QED
    BY <2>1, <2>3, <2>4, <2>5, <2>6 DEF Effect
<1>3. CASE Confirmed(r) /\ r.type = "disable"
  <2>1. Update(Deactivated) /\ principal' = "SUSPENDED"
    BY <1>3 DEF Finalize
  <2>2. Deactivated \in Component /\ ~Deactivated.enabled
    BY DEF Deactivated, Component, Lowered, Typed
  <2>3. epoch' \in Nat \ {0} /\ epoch' >= epoch /\ component' = Deactivated
    BY <2>1 DEF Update, Typed
  <2> QED
    BY <2>1, <2>2, <2>3 DEF Effect
<1> QED
  BY <1>1, <1>2, <1>3 DEF Finalize

\* An update that leaves the component in its type and does not enable it.
LEMMA UpdateEffect ==
  ASSUME Typed, NEW c \in Component, Update(c) \/ HealthUpdate(c),
         principal' \in {"ACTIVE", "SUSPENDED", "QUARANTINED", "REVOKED"},
         c.enabled => /\ component.enabled /\ c.activation = component.activation
                      /\ c.lifecycle = component.lifecycle /\ UNCHANGED principal
  PROVE  Effect
BY DEF Typed, Effect, Update, HealthUpdate

\* What is written into a row of its type leaves it there.
LEMMA WrittenRows ==
  ASSUME NEW r \in DispatchState, NEW p \in Payload
  PROVE  /\ [r EXCEPT !.state = "ACKED"] \in DispatchState
         /\ [r EXCEPT !.query = p] \in DispatchState
         /\ [r EXCEPT !.beat = "RESPONDED"] \in DispatchState
BY DEF DispatchState, Settled, Acked

LEMMA LifecycleEffect ==
  ASSUME Typed, NEW a \in LifecycleAction, SetLifecycle(a)
  PROVE  Effect
<1> DEFINE row == LifecycleRow(a)
           c(l, x, o) == [component EXCEPT !.enabled = FALSE, !.lifecycle = l,
                                           !.activation = x, !.operational = o]
<1>1. /\ row[1] \in {"APPROVED", "ACTIVE", "QUARANTINED", "RETIRED", "DEREGISTERED"}
      /\ row[2] \in {"BLOCKED", "READY", "INACTIVE"}
      /\ row[3] \in {"DISABLED", "QUARANTINED", "RETIRED"}
      /\ row[4] \in {"ACTIVE", "SUSPENDED", "QUARANTINED", "REVOKED"}
  BY DEF LifecycleRow, LifecycleAction
<1>2. Update(c(row[1], row[2], row[3])) /\ principal' = row[4]
  BY DEF SetLifecycle
<1>3. ASSUME NEW l \in {"APPROVED", "ACTIVE", "QUARANTINED", "RETIRED", "DEREGISTERED"},
             NEW x \in {"BLOCKED", "READY", "INACTIVE"},
             NEW o \in {"DISABLED", "QUARANTINED", "RETIRED"}
      PROVE  c(l, x, o) \in Component /\ ~c(l, x, o).enabled
  BY DEF Component, Typed
<1> HIDE DEF row, c
<1>4. c(row[1], row[2], row[3]) \in Component /\ ~c(row[1], row[2], row[3]).enabled
  BY <1>1, <1>3
<1> QED
  BY <1>1, <1>2, <1>4, UpdateEffect

LEMMA EffectStep ==
  ASSUME IInv, [Next]_vars
  PROVE  Effect
<1> USE DEF IInv
<1>1. Rows'
  BY RowsStep
<1>2. ASSUME UNCHANGED <<component, epoch, principal>> PROVE Effect
  BY <1>2 DEF Typed, Effect
<1>3. CASE RequestEnable \/ RequestDisable
  <2>1. component' \in Component /\ ~component'.enabled
    BY <1>3 DEF RequestEnable, RequestDisable, Component, Lowered, Typed
  <2>2. epoch' \in Nat \ {0} /\ epoch' >= epoch /\ UNCHANGED principal
    BY <1>3 DEF RequestEnable, RequestDisable, DisabledEpoch, Typed
  <2> QED
    BY <2>1, <2>2 DEF Effect, Typed
<1>4. ASSUME NEW a \in LifecycleAction, SetLifecycle(a) PROVE Effect
  BY <1>4, LifecycleEffect
<1>5. CASE MarkStale
  <2>1. PICK c \in {[component EXCEPT !.operational = "UNHEALTHY", !.monitoring = "FAILED"],
                    [component EXCEPT !.operational = "DISABLED", !.monitoring = "FAILED", !.enabled = FALSE]} :
          HealthUpdate(c)
    BY <1>5 DEF MarkStale
  <2>2. c \in Component /\ (c.enabled => /\ component.enabled /\ c.activation = component.activation
                                         /\ c.lifecycle = component.lifecycle)
    BY DEF Component, Typed
  <2> QED
    BY <1>5, <2>1, <2>2, UpdateEffect DEF MarkStale, Typed
<1>6. ASSUME NEW m \in {"HEALTHY", "FAILED", "DEGRADED"}, HealthUpdate([component EXCEPT !.monitoring = m]),
             UNCHANGED principal
      PROVE  Effect
  <2> DEFINE c == [component EXCEPT !.monitoring = m]
  <2>1. c \in Component /\ c.enabled = component.enabled /\ c.activation = component.activation
        /\ c.lifecycle = component.lifecycle
    BY DEF Component, Typed
  <2> HIDE DEF c
  <2> QED
    BY <1>6, <2>1, UpdateEffect DEF c, Typed
<1>7. CASE \E result \in {"HEALTHY", "FAILED"} : Probe(result)
  BY <1>6, <1>7 DEF Probe
<1>8. CASE CheckCall
  BY <1>2, <1>6, <1>8 DEF CheckCall, Reject
<1>9. ASSUME NEW w \in Workers, FailAttempt(w) PROVE Effect
  <2> DEFINE c == [component EXCEPT !.enabled = FALSE, !.activation = "BLOCKED",
                                    !.operational = "UNHEALTHY", !.monitoring = "FAILED"]
  <2>1. c \in Component /\ ~c.enabled
    BY DEF Component, Typed
  <2>2. CASE HealthUpdate(c) /\ UNCHANGED principal
    BY <2>1, <2>2, UpdateEffect DEF Typed
  <2>3. UNCHANGED principal /\ (HealthUpdate(c) \/ UNCHANGED <<component, epoch>>)
    BY <1>9 DEF FailAttempt
  <2> QED
    BY <1>2, <2>2, <2>3
<1>10. ASSUME NEW w \in Workers, FinishAck(w) PROVE Effect
  <2>1. [dispatch[worker[w].id] EXCEPT !.state = "ACKED"] \in DispatchState /\ worker[w].id \in Dispatches
    BY SMTT(30), <1>10 DEF FinishAck, WorkerOK, Rows, DispatchState, Settled, Acked
  <2> QED
    BY <1>1, <1>10, <2>1, FinalizeEffect DEF FinishAck, RecordAck, Rows
<1>11. CASE FinishCall
  <2> DEFINE d == call.id
  <2>1. d \in Dispatches /\ call.payload \in Payload
    BY <1>11 DEF FinishCall, CallOK, CallState, Typed
  <2>2. /\ [dispatch[d] EXCEPT !.state = "ACKED"] \in DispatchState
        /\ [dispatch[d] EXCEPT !.query = call.payload] \in DispatchState
    BY <2>1, WrittenRows DEF Rows
  <2>3. CASE RecordAck(d) \/ Finalize(d, [dispatch[d] EXCEPT !.query = call.payload])
    BY <1>1, <2>1, <2>2, <2>3, FinalizeEffect DEF RecordAck, Rows
  <2>4. CASE HealthUpdate(Refused) /\ UNCHANGED principal
    <3>1. Refused \in Component /\ ~Refused.enabled
      BY DEF Refused, Component, Typed
    <3> QED
      BY <2>4, <3>1, UpdateEffect DEF Typed
  <2> QED
    BY <1>11, <2>3, <2>4 DEF FinishCall
<1>12. CASE LockedCall
  <2> DEFINE d == call.id
  <2>1. d \in Dispatches /\ call.payload \in Payload
    BY <1>12 DEF LockedCall, CallOK, CallState, Typed
  <2>2. /\ [dispatch[d] EXCEPT !.beat = "RESPONDED"] \in DispatchState
        /\ [dispatch[d] EXCEPT !.query = call.payload] \in DispatchState
    BY <2>1, WrittenRows DEF Rows
  <2>3. CASE \/ Finalize(d, [dispatch[d] EXCEPT !.query = call.payload])
             \/ Finalize(d, [dispatch[d] EXCEPT !.beat = "RESPONDED"])
    BY <1>1, <2>1, <2>2, <2>3, FinalizeEffect DEF Rows
  <2> QED
    BY <1>6, <1>12, <2>3 DEF LockedCall, Reject
<1> QED
  BY <1>2, <1>3, <1>4, <1>5, <1>7, <1>8, <1>9, <1>10, <1>11, <1>12
  DEF Next, Command, Monitor, Poll, Progress, Callback, Environment, QueryState, ChallengeHeartbeat,
      Claim, Sweep, Send, StoreAnswer, CheckAck, Receive, Crash, Stall, LeaseExpires, DeadlinePasses, vars

-----------------------------------------------------------------------------
(* The workers.                                                             *)

\* What a step does to a worker.
Moves(w) ==
  \/ worker'[w].pc = "idle"
  \/ /\ worker[w].pc # "idle" /\ worker'[w].id = worker[w].id
     /\ worker'[w].pc \in {"sending", "sent"} =>
          worker[w].pc \in {"sending", "sent"} /\ worker'[w].attempt = worker[w].attempt
     /\ worker'[w].pc = "checked" =>
          worker[w].pc = "checked" \/ dispatch[worker[w].id].requested = epoch
  \/ /\ worker'[w].pc \in {"sending", "acking"}
     /\ \E d \in Dispatches :
          /\ worker'[w].id = d /\ dispatch[d].state \in Pending
          /\ dispatch'[d].log = dispatch[d].log
          /\ worker'[w].pc = "sending" => /\ Unanswered(dispatch[d].log)
                                          /\ worker'[w].attempt = Len(dispatch[d].log) + 1

LEMMA IdleTyped == IdleWorker \in WorkerState /\ IdleWorker.pc = "idle"
BY ControlAssumption DEF IdleWorker, WorkerState

\* One worker moves.
LEMMA OneWorker ==
  ASSUME worker \in [Workers -> WorkerState], NEW w \in Workers, NEW new \in WorkerState,
         worker' = [worker EXCEPT ![w] = new], worker'[w] = new => Moves(w)
  PROVE  worker' \in [Workers -> WorkerState] /\ \A v \in Workers : Moves(v)
<1>1. worker' \in [Workers -> WorkerState]
  OBVIOUS
<1>2. ASSUME NEW v \in Workers, v # w PROVE Moves(v)
  BY <1>2 DEF Moves
<1>3. Moves(w)
  OBVIOUS
<1> QED
  BY <1>1, <1>2, <1>3

LEMMA MovesStep ==
  ASSUME IInv, [Next]_vars
  PROVE  worker' \in [Workers -> WorkerState] /\ \A w \in Workers : Moves(w)
<1> USE DEF IInv, Typed
<1>1. ASSUME UNCHANGED worker
      PROVE  worker' \in [Workers -> WorkerState] /\ \A w \in Workers : Moves(w)
  BY <1>1 DEF Moves
<1>2. ASSUME NEW w \in Workers, worker' = [worker EXCEPT ![w] = IdleWorker]
      PROVE  worker' \in [Workers -> WorkerState] /\ \A v \in Workers : Moves(v)
  BY <1>2, IdleTyped, OneWorker DEF Moves
<1>3. ASSUME NEW w \in Workers, NEW pc \in {"sent", "acking", "checked"},
             worker' = [worker EXCEPT ![w].pc = pc], worker[w].pc # "idle",
             pc = "sent" => worker[w].pc = "sending",
             pc = "checked" => dispatch[worker[w].id].requested = epoch
      PROVE  worker' \in [Workers -> WorkerState] /\ \A v \in Workers : Moves(v)
  <2> DEFINE new == [worker[w] EXCEPT !.pc = pc]
  <2>1. new \in WorkerState /\ new.pc = pc /\ new.id = worker[w].id /\ new.attempt = worker[w].attempt
    BY DEF WorkerState
  <2>2. worker' = [worker EXCEPT ![w] = new]
    BY <1>3
  <2> HIDE DEF new
  <2>3. worker'[w] = new => Moves(w)
    BY <1>3, <2>1 DEF Moves
  <2> QED
    BY <2>1, <2>2, <2>3, OneWorker
<1>4. ASSUME NEW w \in Workers, NEW d \in Dispatches, Claim(w, d)
      PROVE  worker' \in [Workers -> WorkerState] /\ \A v \in Workers : Moves(v)
  <2> DEFINE pc == IF AckedAttempt(d) THEN "acking" ELSE "sending"
             attempt == IF AckedAttempt(d) THEN 0 ELSE Len(dispatch[d].log) + 1
             new == [pc |-> pc, id |-> d, attempt |-> attempt]
  <2>1. dispatch[d] \in DispatchState /\ RowOK(dispatch[d]) /\ dispatch[d].state \in Pending
    BY <1>4 DEF Claim, Claimable, Rows
  <2>2. Len(dispatch[d].log) \in Nat
    BY <2>1 DEF DispatchState
  <2>3. ~AckedAttempt(d) => Unanswered(dispatch[d].log)
    BY DEF AckedAttempt, Unanswered
  <2>4. attempt \in 0..MaxAttempts
    BY <2>1, <2>2, <2>3, ControlAssumption DEF RowOK
  <2>5. pc \in {"acking", "sending"} /\ (pc = "sending" => ~AckedAttempt(d) /\ attempt = Len(dispatch[d].log) + 1)
    OBVIOUS
  <2> HIDE DEF pc, attempt
  <2>6. new \in WorkerState /\ new.pc = pc /\ new.id = d /\ new.attempt = attempt
    BY <2>4, <2>5 DEF WorkerState, Dispatches
  <2>7. worker' = [worker EXCEPT ![w] = new]
    BY <1>4 DEF Claim, pc, attempt
  <2> HIDE DEF new
  <2>8. dispatch'[d].log = dispatch[d].log
    BY <1>4, ClaimRows
  <2>9. worker'[w] = new => Moves(w)
    BY <2>1, <2>3, <2>5, <2>6, <2>8 DEF Moves
  <2> QED
    BY <2>6, <2>7, <2>9, OneWorker
<1>5. ASSUME NEW w \in Workers, Progress(w) \/ Crash(w)
      PROVE  worker' \in [Workers -> WorkerState] /\ \A v \in Workers : Moves(v)
  <2>1. CASE Send(w)
    BY <1>3, <2>1 DEF Send
  <2>2. CASE StoreAnswer(w)
    BY <1>2, <1>3, <2>2 DEF StoreAnswer
  <2>3. CASE FailAttempt(w) \/ FinishAck(w) \/ Crash(w)
    BY <1>2, <2>3 DEF FailAttempt, FinishAck, Crash
  <2>4. CASE CheckAck(w)
    <3>1. CASE dispatch[worker[w].id].requested = epoch
      BY <1>3, <2>4, <3>1 DEF CheckAck
    <3>2. CASE dispatch[worker[w].id].requested # epoch
      BY <1>2, <2>4, <3>2 DEF CheckAck
    <3> QED
      BY <3>1, <3>2
  <2> QED
    BY <1>5, <2>1, <2>2, <2>3, <2>4 DEF Progress
<1> QED
  BY <1>1, <1>4, <1>5
  DEF Next, Command, Monitor, Poll, Callback, Environment, RequestEnable, RequestDisable, QueryState,
      ChallengeHeartbeat, SetLifecycle, MarkStale, Probe, Sweep, Receive, CheckCall, FinishCall,
      LockedCall, Stall, LeaseExpires, DeadlinePasses, vars

\* A queued command keeps its type and the epoch that it was queued with, and its
\* log only grows.
LEMMA QueuedStays ==
  ASSUME Rows, Rows', RowsKept, NEW d \in Dispatches, dispatch[d].type # "none"
  PROVE  /\ dispatch'[d].type = dispatch[d].type /\ dispatch'[d].requested = dispatch[d].requested
         /\ Len(dispatch[d].log) \in Nat
         /\ dispatch'[d].log = dispatch[d].log \/ Len(dispatch'[d].log) = Len(dispatch[d].log) + 1
<1>1. /\ dispatch[d] \in DispatchState /\ RowOK(dispatch[d])
      /\ RowOK(dispatch'[d]) /\ Keeps(dispatch[d], dispatch'[d])
  BY DEF Rows, RowsKept
<1>2. dispatch[d].log \in Seq({"FAILED", "ACKED"})
  BY <1>1 DEF DispatchState
<1>3. dispatch'[d].type = dispatch[d].type /\ dispatch'[d].requested = dispatch[d].requested
  BY <1>1 DEF RowOK, Keeps
<1>4. \/ dispatch'[d].log = dispatch[d].log
      \/ \E x \in {"FAILED", "ACKED"} : dispatch'[d].log = Append(dispatch[d].log, x)
  BY <1>1 DEF Keeps
<1>5. ASSUME NEW x \in {"FAILED", "ACKED"}, dispatch'[d].log = Append(dispatch[d].log, x)
      PROVE  Len(dispatch'[d].log) = Len(dispatch[d].log) + 1
  BY <1>2, <1>5
<1> QED
  BY <1>2, <1>3, <1>4, <1>5

LEMMA WorkersStep ==
  ASSUME IInv, [Next]_vars, NEW w \in Workers
  PROVE  WorkerOK(w)'
<1>1. Rows /\ Rows' /\ RowsKept /\ WorkerOK(w) /\ Moves(w) /\ worker[w] \in WorkerState
  BY RowsStep, MovesStep DEF IInv, Typed
<1>2. CASE worker'[w].pc = "idle"
  BY <1>2 DEF WorkerOK
<1>3. CASE /\ worker'[w].pc # "idle" /\ worker[w].pc # "idle" /\ worker'[w].id = worker[w].id
           /\ worker'[w].pc \in {"sending", "sent"} =>
                worker[w].pc \in {"sending", "sent"} /\ worker'[w].attempt = worker[w].attempt
  <2> DEFINE d == worker[w].id
  <2>1. d \in Dispatches /\ dispatch[d].type # "none"
    BY <1>1, <1>3 DEF WorkerOK
  <2>2. /\ dispatch'[d].type # "none" /\ Len(dispatch[d].log) \in Nat
        /\ dispatch'[d].log = dispatch[d].log \/ Len(dispatch'[d].log) = Len(dispatch[d].log) + 1
    BY <1>1, <2>1, QueuedStays
  <2>3. ASSUME worker'[w].pc \in {"sending", "sent"}
        PROVE  /\ worker'[w].attempt \in 1..MaxAttempts
               /\ worker'[w].attempt <= Len(dispatch'[d].log) + 1
               /\ worker'[w].attempt = Len(dispatch'[d].log) + 1 => Unanswered(dispatch'[d].log)
    <3>1. /\ worker'[w].attempt \in 1..MaxAttempts
          /\ worker'[w].attempt = worker[w].attempt
          /\ worker[w].attempt <= Len(dispatch[d].log) + 1
          /\ worker[w].attempt = Len(dispatch[d].log) + 1 => Unanswered(dispatch[d].log)
      BY <1>1, <1>3, <2>3 DEF WorkerOK
    <3>2. worker[w].attempt \in Nat
      BY <3>1, ControlAssumption
    <3>3. CASE dispatch'[d].log = dispatch[d].log
      BY <3>1, <3>2, <3>3
    <3>4. CASE Len(dispatch'[d].log) = Len(dispatch[d].log) + 1
      BY <2>2, <3>1, <3>2, <3>4
    <3> QED
      BY <2>2, <3>3, <3>4
  <2> QED
    BY <1>3, <2>1, <2>2, <2>3 DEF WorkerOK
<1>4. ASSUME NEW d \in Dispatches, worker'[w].id = d, dispatch[d].state \in Pending,
             worker'[w].pc \in {"sending", "acking"}, dispatch'[d].log = dispatch[d].log,
             worker'[w].pc = "sending" => /\ Unanswered(dispatch[d].log)
                                          /\ worker'[w].attempt = Len(dispatch[d].log) + 1
      PROVE  WorkerOK(w)'
  <2>1. dispatch[d] \in DispatchState /\ RowOK(dispatch[d]) /\ dispatch[d].type # "none"
    BY <1>1, <1>4 DEF Rows, RowOK, Pending
  <2>2. dispatch'[d].type # "none" /\ Len(dispatch[d].log) \in Nat
    BY <1>1, <2>1, QueuedStays
  <2>3. worker'[w].pc = "sending" => Len(dispatch[d].log) < MaxAttempts
    BY <1>4, <2>1 DEF RowOK
  <2> QED
    BY <1>4, <2>2, <2>3, ControlAssumption DEF WorkerOK
<1> QED
  BY <1>1, <1>2, <1>3, <1>4 DEF Moves

-----------------------------------------------------------------------------
(* The callback, the counters and the two properties.                       *)

LEMMA CallStep ==
  ASSUME IInv, [Next]_vars
  PROVE  CallOK' /\ call' \in CallState
<1> USE DEF IInv, Typed
<1>1. Rows /\ Rows' /\ RowsKept
  BY RowsStep
<1>2. ASSUME NEW d \in Dispatches, dispatch[d].delivered PROVE dispatch'[d].delivered
  BY <1>1, <1>2 DEF RowsKept, Keeps
<1>3. CASE UNCHANGED call
  BY <1>2, <1>3 DEF CallOK
<1>4. CASE call' = NoCall
  BY <1>4, ControlAssumption DEF CallOK, NoCall, CallState, Payload
<1>5. CASE call.step = "authorized" /\ call' = [call EXCEPT !.step = "checked"]
  BY <1>2, <1>5 DEF CallOK, CallState
<1>6. ASSUME NEW kind \in CallKind, NEW d \in Dispatches, NEW p \in Payload,
             NEW e \in {dispatch[d].requested, epoch}, Receive(kind, d, e, p)
      PROVE  CallOK' /\ call' \in CallState
  <2>1. e \in Nat
    BY DEF Rows, DispatchState
  <2>2. call' \in CallState
    BY <1>6, <2>1 DEF Receive, CallState, Dispatches
  <2> QED
    BY <1>6, <2>2 DEF Receive, CallOK
<1>7. CASE CheckCall
  BY <1>4, <1>5, <1>7 DEF CheckCall, Reject
<1>8. CASE FinishCall \/ LockedCall
  BY <1>4, <1>8 DEF FinishCall, LockedCall, Reject
<1>9. CASE Command \/ Monitor \/ Environment \/ (\E w \in Workers : Poll(w) \/ Progress(w)) \/ UNCHANGED vars
  BY <1>3, <1>9 DEF Command, Monitor, Environment, Poll, Progress, RequestEnable, RequestDisable,
     QueryState, ChallengeHeartbeat, SetLifecycle, MarkStale, Probe, Sweep, Claim, Send, StoreAnswer,
     FailAttempt, CheckAck, FinishAck, Crash, Stall, LeaseExpires, DeadlinePasses, vars
<1> QED
  BY <1>6, <1>7, <1>8, <1>9 DEF Next, Callback

LEMMA EventsStep ==
  ASSUME IInv, [Next]_vars
  PROVE  events' \in 0..MaxEvents
<1> USE DEF IInv, Typed
<1>1. ASSUME Event PROVE events' \in 0..MaxEvents
  BY <1>1, ControlAssumption DEF Event
<1>2. ASSUME UNCHANGED events PROVE events' \in 0..MaxEvents
  BY <1>2
<1> QED
  BY <1>1, <1>2 DEF Next, Command, Monitor, Environment, Poll, Progress, Callback, RequestEnable,
     RequestDisable, QueryState, ChallengeHeartbeat, SetLifecycle, MarkStale, Probe, Sweep, Claim, Send,
     StoreAnswer, FailAttempt, CheckAck, FinishAck, Crash, Stall, LeaseExpires, DeadlinePasses, Receive,
     CheckCall, FinishCall, LockedCall, vars

LEMMA DisableStep ==
  ASSUME IInv, [Next]_vars
  PROVE  DisableOutlivesItsEpoch'
<1>1. /\ Rows /\ Rows' /\ RowsKept /\ Effect /\ \A w \in Workers : WorkerOK(w) /\ Moves(w)
      /\ DisableOutlivesItsEpoch /\ epoch \in Nat
  BY RowsStep, EffectStep, MovesStep DEF IInv, Typed
<1> SUFFICES ASSUME NEW d \in Dispatches, dispatch'[d].type = "disable"
             PROVE  /\ dispatch'[d].requested < epoch'
                    /\ \A w \in Workers : worker'[w].pc = "checked" => worker'[w].id # d
  BY DEF DisableOutlivesItsEpoch
<1>2. CASE dispatch[d].type # "none"
  <2>1. dispatch[d].type = "disable" /\ dispatch'[d].requested = dispatch[d].requested
    BY <1>1, <1>2, QueuedStays
  <2>2. dispatch[d].requested < epoch /\ dispatch[d].requested \in Nat
    BY <1>1, <2>1 DEF DisableOutlivesItsEpoch, Rows, DispatchState
  <2>3. dispatch'[d].requested < epoch'
    BY <1>1, <2>1, <2>2 DEF Effect
  <2>4. ASSUME NEW w \in Workers, worker'[w].pc = "checked", worker'[w].id = d PROVE FALSE
    <3>1. worker[w].id = d /\ (worker[w].pc = "checked" \/ dispatch[d].requested = epoch)
      BY <1>1, <2>4 DEF Moves
    <3> QED
      BY <1>1, <2>1, <2>2, <3>1 DEF DisableOutlivesItsEpoch
  <2> QED
    BY <2>3, <2>4
<1>3. CASE dispatch[d].type = "none"
  <2>1. dispatch'[d].requested < epoch'
    BY <1>1, <1>3 DEF Keeps, RowsKept
  <2>2. ASSUME NEW w \in Workers, worker'[w].pc = "checked", worker'[w].id = d PROVE FALSE
    <3>1. worker[w].pc # "idle" /\ worker[w].id = d
      BY <1>1, <2>2 DEF Moves
    <3> QED
      BY <1>1, <1>3, <3>1 DEF WorkerOK
  <2> QED
    BY <2>1, <2>2
<1> QED
  BY <1>2, <1>3

LEMMA LiveStep ==
  ASSUME IInv, [Next]_vars
  PROVE  LiveIsConfirmed'
<1>1. Rows /\ Rows' /\ RowsKept /\ Effect /\ LiveIsConfirmed
  BY RowsStep, EffectStep DEF IInv
<1> SUFFICES ASSUME component'.enabled PROVE LiveIsConfirmed'
  BY DEF LiveIsConfirmed
<1>2. ASSUME NEW d \in Dispatches, Confirming(d) PROVE Confirming(d)'
  <2>1. dispatch'[d].type = "enable"
    BY <1>1, <1>2, QueuedStays DEF Confirming
  <2> QED
    BY <1>1, <1>2, <2>1 DEF Confirming, RowsKept, Keeps
<1>3. CASE /\ component.enabled /\ principal' = principal
           /\ component'.activation = component.activation
           /\ component'.lifecycle = component.lifecycle
  <2>1. PICK d \in Dispatches : Confirming(d)
    BY <1>1, <1>3 DEF LiveIsConfirmed, Confirming
  <2>2. Confirming(d)'
    BY <1>2, <2>1
  <2> QED
    BY <1>1, <1>3, <2>2 DEF LiveIsConfirmed, Confirming
<1>4. CASE /\ component' = Activated /\ principal' = "ACTIVE"
           /\ \E d \in Dispatches : Confirming(d)'
  BY <1>4 DEF LiveIsConfirmed, Confirming, Activated
<1> QED
  BY <1>1, <1>3, <1>4 DEF Effect

-----------------------------------------------------------------------------
(* The theorems.                                                            *)

LEMMA InitIInv == Init => IInv
<1> SUFFICES ASSUME Init PROVE IInv
  OBVIOUS
<1>1. NoDispatch \in DispatchState
  BY EmptyLog DEF NoDispatch, DispatchState, CommandType, Pending
<1>2. RowOK(NoDispatch)
  BY EmptyLog, ControlAssumption DEF RowOK, NoDispatch, Pending, Payload
<1>3. Rows
  BY <1>1, <1>2 DEF Init, Rows
<1>4. Typed
  BY IdleTyped, ControlAssumption DEF Init, Typed, Component, NoCall, CallState, Payload
<1>5. \A w \in Workers : WorkerOK(w)
  BY DEF Init, WorkerOK, IdleWorker
<1>6. CallOK /\ DisableOutlivesItsEpoch /\ LiveIsConfirmed
  BY DEF Init, CallOK, NoCall, DisableOutlivesItsEpoch, LiveIsConfirmed, NoDispatch
<1> QED
  BY <1>3, <1>4, <1>5, <1>6 DEF IInv

LEMMA IInvStep == IInv /\ [Next]_vars => IInv'
<1> SUFFICES ASSUME IInv, [Next]_vars PROVE IInv'
  OBVIOUS
<1>1. Typed'
  BY EffectStep, MovesStep, CallStep, EventsStep DEF Typed, Effect
<1>2. Rows' /\ CallOK' /\ DisableOutlivesItsEpoch' /\ LiveIsConfirmed'
  BY RowsStep, CallStep, DisableStep, LiveStep
<1>3. \A w \in Workers : WorkerOK(w)'
  BY WorkersStep
<1> QED
  BY <1>1, <1>2, <1>3 DEF IInv

\* The inductive invariant holds in every reachable state.
THEOREM Invariance == Spec => []IInv
BY InitIInv, IInvStep, PTL DEF Spec

\* Every variable stays in its type and no command has more attempts than its
\* retry policy allows (processNextComponentControlDispatch).
THEOREM TypeCorrect == Spec => []TypeOK
<1>1. IInv => TypeOK
  BY DEF IInv, Typed, Rows, RowOK, TypeOK
<1> QED
  BY <1>1, Invariance, PTL

\* A command is answered once: no late, stalled or restarted worker records an
\* attempt after the one that got an answer (UNIQUE of the attempt's number).
THEOREM AnswerIsFinalHolds == Spec => []AnswerIsFinal
<1>1. IInv => AnswerIsFinal
  BY DEF IInv, Rows, RowOK, AnswerIsFinal
<1> QED
  BY <1>1, Invariance, PTL

\* A component in service was put there by a command that it saw, whose state it
\* reported and whose challenge it answered (finalizeDispatchFromEvidence).
THEOREM LiveIsConfirmedHolds == Spec => []LiveIsConfirmed
<1>1. IInv => LiveIsConfirmed
  BY DEF IInv
<1> QED
  BY <1>1, Invariance, PTL

\* The epoch of a command to disable is over before a worker can acknowledge it
\* (requestComponentDisable advances it twice).
THEOREM DisableOutlivesItsEpochHolds == Spec => []DisableOutlivesItsEpoch
<1>1. IInv => DisableOutlivesItsEpoch
  BY DEF IInv
<1> QED
  BY <1>1, Invariance, PTL

\* No component goes into service under an epoch that was given out before.
THEOREM NoSilentActivationHolds == Spec => NoSilentActivation
<1>1. IInv /\ [Next]_vars => [~component.enabled /\ component'.enabled => epoch' > epoch]_vars
  BY EffectStep DEF Effect
<1> QED
  BY <1>1, Invariance, PTL DEF Spec, NoSilentActivation

=============================================================================
