---- MODULE ServicesProofs ----
(***************************************************************************)
(* Proofs about the components that promise progress: the standing alert   *)
(* and its deliveries, and the files of a generated runtime.  That they do *)
(* progress is left to the model checker.                                  *)
(***************************************************************************)
EXTENDS MCServices, FiniteSetTheorems, TLAPS

\* A step of the whole is a step of each component.
LEMMA Moves ==
  ASSUME [Next]_all
  PROVE  [Alerts!Next]_alertsVars /\ [Runtime!Next]_runtimeVars
<1>1. CASE Next
  BY <1>1 DEF Next, AlertsMove, AccessMoves, E2EMoves, RuntimeMoves, alertsVars, runtimeVars
<1>2. CASE UNCHANGED all
  BY <1>2 DEF all, alertsVars, runtimeVars
<1> QED
  BY <1>1, <1>2

-----------------------------------------------------------------------------
(***************************************************************************)
(* AlertDelivery: the standing alert.                                      *)
(*                                                                         *)
(* A raiser that has looked holds the advisory lock, and what it saw is    *)
(* still so: nobody else opens an alert, and the row it found is locked.   *)
(***************************************************************************)

AlertStates == Alerts!NotClosed \union {"unused", "CLOSED"}
RaiserRow   == [pc : {"idle", "found"}, found : 0..MaxAlerts]

\* A raiser that looked has the advisory lock; what it found stands, and is locked.
Looked(r) ==
  /\ raiser[r].pc = "idle" => raiser[r].found = 0
  /\ raiser[r].pc = "found" =>
       /\ r \in advisory
       /\ raiser[r].found = 0 => Alerts!Standing = {}
       /\ raiser[r].found # 0 => raiser[r].found \in Alerts!Standing

RaisingInv ==
  /\ alert \in [Alerts!Alerts -> AlertStates]
  /\ raiser \in [Raisers -> RaiserRow]
  /\ advisory \subseteq Raisers
  /\ \A r, s \in advisory : r = s
  /\ \A r \in Raisers : Looked(r)
  /\ \A a, b \in Alerts!Standing : a = b

RaisingBounds == MaxAlerts \in Nat

\* What the OWNER does with one alert leaves the same alerts standing.
LEMMA MovedStands ==
  ASSUME RaisingInv, UNCHANGED <<raiser, advisory>>, NEW a \in Alerts!Alerts, NEW s \in Alerts!NotClosed,
         alert[a] \in Alerts!NotClosed, alert' = [alert EXCEPT ![a] = s]
  PROVE  RaisingInv'
<1>1. alert' \in [Alerts!Alerts -> AlertStates]
  BY DEF RaisingInv, AlertStates
<1>2. Alerts!Standing' = Alerts!Standing
  BY DEF RaisingInv, Alerts!Standing
<1>3. \A r \in Raisers : Looked(r)'
  BY <1>2 DEF RaisingInv, Looked
<1> QED
  BY <1>1, <1>2, <1>3 DEF RaisingInv

LEMMA RaisingStart ==
  ASSUME RaisingBounds, Alerts!Init PROVE RaisingInv
<1> USE DEF RaisingBounds
<1>1. alert \in [Alerts!Alerts -> AlertStates] /\ Alerts!Standing = {}
  BY DEF Alerts!Init, AlertStates, Alerts!Standing, Alerts!NotClosed
<1>2. raiser \in [Raisers -> RaiserRow] /\ advisory = {}
  BY DEF Alerts!Init, RaiserRow
<1>3. \A r \in Raisers : Looked(r)
  BY DEF Alerts!Init, Looked
<1> QED
  BY <1>1, <1>2, <1>3 DEF RaisingInv

LEMMA RaisingStep ==
  ASSUME RaisingBounds, RaisingInv, [Alerts!Next]_alertsVars PROVE RaisingInv'
<1> USE DEF RaisingBounds
<1>1. ASSUME UNCHANGED <<alert, raiser, advisory>> PROVE RaisingInv'
  <2>1. Alerts!Standing' = Alerts!Standing
    BY <1>1 DEF Alerts!Standing
  <2>2. \A r \in Raisers : Looked(r)'
    BY <1>1, <2>1 DEF RaisingInv, Looked
  <2> QED
    BY <1>1, <2>1, <2>2 DEF RaisingInv
<1>2. ASSUME NEW r \in Raisers, Alerts!LookUp(r) PROVE RaisingInv'
  <2>1. PICK f \in IF Alerts!Standing = {} THEN {0} ELSE Alerts!Standing :
          raiser' = [raiser EXCEPT ![r] = [pc |-> "found", found |-> f]]
    BY <1>2 DEF Alerts!LookUp
  <2>2. /\ advisory = {} /\ advisory' = {r} /\ alert' = alert
    BY <1>2 DEF Alerts!LookUp, Alerts!LockFree
  <2>3. /\ f \in 0..MaxAlerts
        /\ f = 0 => Alerts!Standing = {}
        /\ f # 0 => f \in Alerts!Standing
    BY <2>1 DEF Alerts!Standing, Alerts!Alerts
  <2>4. [pc |-> "found", found |-> f] \in RaiserRow
    BY <2>3 DEF RaiserRow
  <2>5. /\ raiser' \in [Raisers -> RaiserRow]
        /\ raiser'[r] = [pc |-> "found", found |-> f]
        /\ \A s \in Raisers : s # r => raiser'[s] = raiser[s]
    BY <2>1, <2>4 DEF RaisingInv
  <2>6. Alerts!Standing' = Alerts!Standing
    BY <2>2 DEF Alerts!Standing
  <2>7. Looked(r)'
    BY <2>2, <2>3, <2>5, <2>6 DEF Looked
  <2>8. ASSUME NEW s \in Raisers, s # r PROVE Looked(s)'
    <3>1. Looked(s) /\ raiser'[s] = raiser[s] /\ s \notin advisory
      BY <2>2, <2>5, <2>8 DEF RaisingInv
    <3>2. raiser[s].pc # "found"
      BY <3>1 DEF Looked
    <3> QED
      BY <3>1, <3>2 DEF Looked
  <2> QED
    BY <2>2, <2>5, <2>6, <2>7, <2>8 DEF RaisingInv
<1>3. ASSUME NEW r \in Raisers, Alerts!Record(r) PROVE RaisingInv'
  <2>1. /\ raiser[r].pc = "found"
        /\ advisory' = advisory \ {r}
        /\ raiser' = [raiser EXCEPT ![r] = [pc |-> "idle", found |-> 0]]
    BY <1>3 DEF Alerts!Record
  <2>2. [pc |-> "idle", found |-> 0] \in RaiserRow
    BY DEF RaiserRow
  <2>3. /\ raiser' \in [Raisers -> RaiserRow]
        /\ raiser'[r] = [pc |-> "idle", found |-> 0]
        /\ \A s \in Raisers : s # r => raiser'[s] = raiser[s]
    BY <2>1, <2>2 DEF RaisingInv
  <2>4. Looked(r) /\ r \in advisory
    BY <2>1 DEF RaisingInv, Looked
  <2>5. ASSUME NEW s \in Raisers, s # r PROVE raiser[s].pc # "found" /\ raiser[s].found = 0
    <3>1. Looked(s) /\ s \notin advisory /\ raiser[s] \in RaiserRow
      BY <2>4, <2>5 DEF RaisingInv
    <3>2. raiser[s].pc # "found" /\ raiser[s].pc \in {"idle", "found"}
      BY <3>1 DEF Looked, RaiserRow
    <3> QED
      BY <3>1, <3>2 DEF Looked
  <2>6. \A s \in Raisers : Looked(s)'
    BY <2>3, <2>5 DEF Looked
  <2>7. /\ alert' \in [Alerts!Alerts -> AlertStates]
        /\ \A a, b \in Alerts!Standing' : a = b
    <3>1. CASE raiser[r].found # 0
      BY <1>3, <3>1 DEF Alerts!Record, RaisingInv, Alerts!Standing
    <3>2. CASE raiser[r].found = 0
      <4>1. PICK a \in Alerts!Alerts : alert' = [alert EXCEPT ![a] = "OPEN"]
        BY <1>3, <3>2 DEF Alerts!Record
      <4>2. Alerts!Standing = {}
        BY <2>1, <2>4, <3>2 DEF Looked
      <4>3. alert' \in [Alerts!Alerts -> AlertStates]
        BY <4>1 DEF RaisingInv, AlertStates, Alerts!NotClosed
      <4>4. Alerts!Standing' \subseteq {a}
        BY <4>1, <4>2 DEF Alerts!Standing, RaisingInv
      <4> QED
        BY <4>3, <4>4
    <3> QED
      BY <3>1, <3>2
  <2> QED
    BY <2>1, <2>3, <2>6, <2>7 DEF RaisingInv
<1>4. CASE Alerts!Close
  <2>1. /\ \A a \in Alerts!Standing : ~Alerts!RowLocked(a)
        /\ alert' = [a \in Alerts!Alerts |-> IF a \in Alerts!Standing THEN "CLOSED" ELSE alert[a]]
        /\ UNCHANGED <<raiser, advisory>>
    BY <1>4 DEF Alerts!Close
  <2>2. alert' \in [Alerts!Alerts -> AlertStates] /\ Alerts!Standing' = {}
    BY <2>1 DEF RaisingInv, AlertStates, Alerts!Standing, Alerts!NotClosed
  <2>3. ASSUME NEW r \in Raisers PROVE Looked(r)'
    <3>1. raiser[r].found \notin Alerts!Standing
      BY <2>1 DEF Alerts!RowLocked
    <3>2. Looked(r)
      BY DEF RaisingInv
    <3> QED
      BY <2>1, <2>2, <3>1, <3>2 DEF Looked
  <2> QED
    BY <2>1, <2>2, <2>3 DEF RaisingInv
<1>5. ASSUME NEW a \in Alerts!Alerts, Alerts!Acknowledge(a) \/ Alerts!Suppress(a) \/ Alerts!ExpireSuppression(a)
      PROVE  RaisingInv'
  <2>1. UNCHANGED <<raiser, advisory>> /\ alert[a] \in Alerts!NotClosed
    BY <1>5 DEF Alerts!Acknowledge, Alerts!Suppress, Alerts!ExpireSuppression, Alerts!NotClosed
  <2>2. \E s \in Alerts!NotClosed : alert' = [alert EXCEPT ![a] = s]
    BY <1>5 DEF Alerts!Acknowledge, Alerts!Suppress, Alerts!ExpireSuppression, Alerts!NotClosed
  <2> QED
    BY <2>1, <2>2, MovedStands
<1>6. ASSUME NEW d \in Deliverers, Alerts!Deliver(d) \/ Alerts!Crash(d) PROVE RaisingInv'
  BY <1>1, <1>6 DEF Alerts!Deliver, Alerts!Lease, Alerts!Finish, Alerts!Crash
<1>7. ASSUME NEW a \in Alerts!Alerts, NEW c \in Channels, Alerts!FallsDue(a, c) \/ Alerts!ManualRetry(a, c)
      PROVE  RaisingInv'
  BY <1>1, <1>7 DEF Alerts!FallsDue, Alerts!ManualRetry
<1>8. CASE UNCHANGED alertsVars
  BY <1>1, <1>8 DEF alertsVars
<1> QED
  BY <1>2, <1>3, <1>4, <1>5, <1>6, <1>7, <1>8 DEF Alerts!Next

\* The size of a set is the same in the component and here.
LEMMA SameSize == ASSUME NEW S PROVE Alerts!Cardinality(S) = Cardinality(S)
BY DEF Alerts!Cardinality, Cardinality

LEMMA RaisingTells ==
  ASSUME RaisingInv PROVE Alerts!OneStandingAlert
<1>1. CASE Alerts!Standing = {}
  BY <1>1, FS_EmptySet, SameSize DEF Alerts!OneStandingAlert
<1>2. CASE Alerts!Standing # {}
  <2>1. PICK a : a \in Alerts!Standing
    BY <1>2
  <2>2. Alerts!Standing = {a}
    BY <2>1 DEF RaisingInv
  <2>3. Cardinality({a}) = 1
    BY FS_Singleton
  <2> QED
    BY <2>2, <2>3, SameSize DEF Alerts!OneStandingAlert
<1> QED
  BY <1>1, <1>2

\* Raisers, and what the OWNER and closeAlert do meanwhile, keep what the raisers looked up.
THEOREM RaisingInvariance == Spec => []RaisingInv
<1>1. RaisingBounds
  BY ServicesAssumption DEF RaisingBounds
<1>2. Init => RaisingInv
  BY <1>1, RaisingStart DEF Init
<1>3. RaisingInv /\ [Next]_all => RaisingInv'
  BY <1>1, RaisingStep, Moves
<1> QED
  BY <1>2, <1>3, PTL DEF Spec

\* Raisers that race never leave two standing alerts of one subject and type, for any number of
\* raisers and alerts (raiseAlert, closeAlert).
THEOREM OneStandingAlertHolds == Spec => []OneStandingAlert
<1>1. RaisingInv => OneStandingAlert
  BY RaisingTells DEF OneStandingAlert
<1> QED
  BY <1>1, RaisingInvariance, PTL

-----------------------------------------------------------------------------
(***************************************************************************)
(* AlertDelivery: deliveries.                                              *)
(*                                                                         *)
(* A delivery is in one pair of hands, waits for its answer and does not   *)
(* fall due: so an answer is written to a row that was not delivered.  A   *)
(* retry by hand may put one delivery into two hands, and ends the claim.  *)
(***************************************************************************)

DeliveryStates == {"none", "DELIVERED", "DEAD_LETTER"} \union Alerts!Pending
DeliveryRow    == [state : DeliveryStates, attempts : Nat, due : BOOLEAN]
Job            == [alert : Alerts!Alerts, channel : Channels, attempt : Nat]

Has(d, a, c) == deliverer[d].alert = a /\ deliverer[d].channel = c

\* A delivery in hand waits for its answer and does not fall due; one deliverer has it.
HandledOnce(a, c) ==
  \A d \in Deliverers :
    Has(d, a, c) =>
      /\ delivery[a][c].state \in Alerts!Pending /\ ~delivery[a][c].due
      /\ \A e \in Deliverers : Has(e, a, c) => e = d

\* A retry of the OWNER may put in two hands what one already has.
Undisturbed ==
  /\ \A a \in Alerts!Alerts, c \in Channels : HandledOnce(a, c)
  /\ \A a \in Alerts!Alerts : alert[a] = "unused" => \A c \in Channels : delivery[a][c].state = "none"

PostingInv ==
  /\ delivery \in [Alerts!Alerts -> [Channels -> DeliveryRow]]
  /\ DOMAIN alert = Alerts!Alerts
  /\ DOMAIN deliverer = Deliverers
  /\ \A d \in Deliverers : deliverer[d] = Alerts!Idle \/ deliverer[d] \in Job
  /\ spent \in [retries : Nat, crashes : Nat]
  /\ spent.retries = 0 => Undisturbed

PostingBounds == MaxAlerts \in Nat /\ MaxAttempts \in Nat

LEMMA IdleHasNothing ==
  ASSUME PostingBounds
  PROVE  Alerts!Idle.alert = 0 /\ Alerts!Idle \notin Job /\ 0 \notin Alerts!Alerts
BY DEF Alerts!Idle, Job, Alerts!Alerts, PostingBounds

\* One row is written.
LEMMA RowWritten ==
  ASSUME delivery \in [Alerts!Alerts -> [Channels -> DeliveryRow]],
         NEW a \in Alerts!Alerts, NEW c \in Channels, NEW new \in DeliveryRow,
         delivery' = [delivery EXCEPT ![a][c] = new]
  PROVE  /\ delivery' \in [Alerts!Alerts -> [Channels -> DeliveryRow]]
         /\ delivery'[a][c] = new
         /\ \A b \in Alerts!Alerts, e \in Channels : b # a \/ e # c => delivery'[b][e] = delivery[b][e]
<1>1. [delivery[a] EXCEPT ![c] = new] \in [Channels -> DeliveryRow]
  OBVIOUS
<1> QED
  BY <1>1

LEMMA Leases ==
  ASSUME PostingBounds, delivery \in [Alerts!Alerts -> [Channels -> DeliveryRow]],
         NEW d \in Deliverers, NEW a \in Alerts!Alerts, NEW c \in Channels, Alerts!Lease(d, a, c)
  PROVE  \E new \in DeliveryRow, n \in Nat :
           /\ new.state = delivery[a][c].state /\ ~new.due
           /\ delivery' = [delivery EXCEPT ![a][c] = new]
           /\ deliverer' = [deliverer EXCEPT ![d] = [alert |-> a, channel |-> c, attempt |-> n]]
<1> DEFINE n == Alerts!Counted(delivery[a][c].attempts)
           old == delivery[a][c]
           new == [old EXCEPT !.attempts = n, !.due = FALSE]
<1>1. old \in DeliveryRow
  OBVIOUS
<1>2. n \in Nat
  BY <1>1 DEF Alerts!Counted, DeliveryRow, PostingBounds
<1>3. new \in DeliveryRow /\ new.state = old.state /\ ~new.due
  BY <1>1, <1>2 DEF DeliveryRow
<1>4. deliverer' = [deliverer EXCEPT ![d] = [alert |-> a, channel |-> c, attempt |-> n]]
  BY DEF Alerts!Lease
<1>5. delivery' = [delivery EXCEPT ![a][c] = Alerts!Leased([old EXCEPT !.attempts = n])]
  BY DEF Alerts!Lease
<1>6. Alerts!Leased([old EXCEPT !.attempts = n]) = new
  BY <1>1 DEF Alerts!Leased, DeliveryRow
<1>7. delivery' = [delivery EXCEPT ![a][c] = new]
  BY <1>5, <1>6
<1> QED
  BY <1>2, <1>3, <1>4, <1>7

LEMMA Finishes ==
  ASSUME PostingBounds, delivery \in [Alerts!Alerts -> [Channels -> DeliveryRow]],
         NEW d \in Deliverers, deliverer[d] \in Job, Alerts!Finish(d)
  PROVE  \E new \in DeliveryRow :
           /\ delivery' = [delivery EXCEPT ![deliverer[d].alert][deliverer[d].channel] = new]
           /\ deliverer' = [deliverer EXCEPT ![d] = Alerts!Idle]
<1> DEFINE a == deliverer[d].alert
           c == deliverer[d].channel
           old == delivery[a][c]
<1>1. a \in Alerts!Alerts /\ c \in Channels
  BY DEF Job
<1>2. old \in DeliveryRow
  BY <1>1
<1>3. PICK s \in {"DELIVERED", Alerts!Outcome(deliverer[d].attempt)} :
        delivery' = [delivery EXCEPT ![a][c].state = s, ![a][c].due = @ /\ s # "RETRY"]
  BY DEF Alerts!Finish
<1>4. s \in DeliveryStates
  BY <1>3 DEF Alerts!Outcome, DeliveryStates, Alerts!Pending
<1> DEFINE new == [old EXCEPT !.state = s, !.due = old.due /\ s # "RETRY"]
<1>5. new \in DeliveryRow
  BY <1>2, <1>4 DEF DeliveryRow
<1>6. delivery' = [delivery EXCEPT ![a][c] = new]
  BY <1>1, <1>2, <1>3 DEF DeliveryRow
<1>7. deliverer' = [deliverer EXCEPT ![d] = Alerts!Idle]
  BY DEF Alerts!Finish
<1> QED
  BY <1>5, <1>6, <1>7

LEMMA FallenDue ==
  ASSUME delivery \in [Alerts!Alerts -> [Channels -> DeliveryRow]],
         NEW a \in Alerts!Alerts, NEW c \in Channels, Alerts!FallsDue(a, c)
  PROVE  \E new \in DeliveryRow :
           /\ new.state = delivery[a][c].state
           /\ delivery' = [delivery EXCEPT ![a][c] = new]
<1> DEFINE old == delivery[a][c]
           new == [old EXCEPT !.due = TRUE]
<1>1. old \in DeliveryRow
  OBVIOUS
<1>2. new \in DeliveryRow /\ new.state = old.state
  BY <1>1 DEF DeliveryRow
<1>3. delivery' = [delivery EXCEPT ![a][c] = new]
  BY DEF Alerts!FallsDue
<1> QED
  BY <1>2, <1>3

LEMMA Retried ==
  ASSUME delivery \in [Alerts!Alerts -> [Channels -> DeliveryRow]],
         NEW a \in Alerts!Alerts, NEW c \in Channels, Alerts!ManualRetry(a, c)
  PROVE  \E new \in DeliveryRow : delivery' = [delivery EXCEPT ![a][c] = new]
<1> DEFINE old == delivery[a][c]
           new == [old EXCEPT !.state = "RETRY", !.due = TRUE]
<1>1. old \in DeliveryRow
  OBVIOUS
<1>2. new \in DeliveryRow
  BY <1>1 DEF DeliveryRow, DeliveryStates, Alerts!Pending
<1>3. delivery' = [delivery EXCEPT ![a][c] = new]
  BY DEF Alerts!ManualRetry
<1> QED
  BY <1>2, <1>3

LEMMA PostingStart ==
  ASSUME PostingBounds, Alerts!Init PROVE PostingInv
<1> USE DEF PostingBounds
<1>1. Alerts!NoDelivery \in DeliveryRow
  BY DEF Alerts!NoDelivery, DeliveryRow, DeliveryStates
<1>2. delivery \in [Alerts!Alerts -> [Channels -> DeliveryRow]] /\ DOMAIN alert = Alerts!Alerts
  BY <1>1 DEF Alerts!Init
<1>3. spent \in [retries : Nat, crashes : Nat]
  BY DEF Alerts!Init
<1>4. DOMAIN deliverer = Deliverers /\ \A d \in Deliverers : deliverer[d] = Alerts!Idle
  BY DEF Alerts!Init
<1>5. \A a \in Alerts!Alerts, c \in Channels : HandledOnce(a, c)
  BY <1>4, IdleHasNothing DEF HandledOnce, Has
<1>6. \A a \in Alerts!Alerts, c \in Channels : delivery[a][c].state = "none"
  BY DEF Alerts!Init, Alerts!NoDelivery
<1> QED
  BY <1>2, <1>3, <1>4, <1>5, <1>6 DEF PostingInv, Undisturbed

\* A step that leaves the deliverers alone and only makes alerts used.
LEMMA StaysUndisturbed ==
  ASSUME PostingInv, spent.retries = 0, UNCHANGED <<delivery, deliverer>>,
         \A a \in Alerts!Alerts : alert'[a] = "unused" => alert[a] = "unused"
  PROVE  Undisturbed'
<1>1. Undisturbed
  BY DEF PostingInv
<1>2. \A a \in Alerts!Alerts, c \in Channels : HandledOnce(a, c)'
  BY <1>1 DEF Undisturbed, HandledOnce, Has
<1>3. \A a \in Alerts!Alerts : alert'[a] = "unused" => \A c \in Channels : delivery'[a][c].state = "none"
  BY <1>1 DEF Undisturbed
<1> QED
  BY <1>2, <1>3 DEF Undisturbed

\* A deliverer lets go.
LEMMA LetsGo ==
  ASSUME PostingBounds, PostingInv, spent.retries = 0, NEW d \in Deliverers, UNCHANGED alert,
         deliverer' = [deliverer EXCEPT ![d] = Alerts!Idle],
         delivery' \in [Alerts!Alerts -> [Channels -> DeliveryRow]],
         \A a \in Alerts!Alerts, c \in Channels : Has(d, a, c) \/ delivery'[a][c] = delivery[a][c]
  PROVE  Undisturbed'
<1>1. Undisturbed /\ DOMAIN deliverer = Deliverers
  BY DEF PostingInv
<1>2. deliverer'[d] = Alerts!Idle /\ \A e \in Deliverers : e # d => deliverer'[e] = deliverer[e]
  BY <1>1
<1>4. ASSUME NEW a \in Alerts!Alerts, NEW c \in Channels PROVE HandledOnce(a, c)'
  <2>1. HandledOnce(a, c)
    BY <1>1 DEF Undisturbed
  <2>2. \A e \in Deliverers : Has(e, a, c)' => e # d /\ Has(e, a, c)
    BY <1>2, IdleHasNothing DEF Has
  <2>3. (\E e \in Deliverers : Has(e, a, c)') => delivery'[a][c] = delivery[a][c]
    BY <2>1, <2>2 DEF HandledOnce
  <2> QED
    BY <2>1, <2>2, <2>3 DEF HandledOnce
<1>5. ASSUME NEW a \in Alerts!Alerts, alert'[a] = "unused", NEW c \in Channels
      PROVE  delivery'[a][c].state = "none"
  <2>1. delivery[a][c].state = "none" /\ HandledOnce(a, c)
    BY <1>1, <1>5 DEF Undisturbed
  <2>2. ~Has(d, a, c)
    BY <2>1 DEF HandledOnce, Alerts!Pending
  <2> QED
    BY <2>1, <2>2
<1> QED
  BY <1>4, <1>5 DEF Undisturbed

LEMMA LeaseUndisturbed ==
  ASSUME PostingBounds, PostingInv, spent.retries = 0,
         NEW d \in Deliverers, NEW a \in Alerts!Alerts, NEW c \in Channels, Alerts!Lease(d, a, c)
  PROVE  Undisturbed'
<1>1. Undisturbed /\ DOMAIN deliverer = Deliverers /\ delivery \in [Alerts!Alerts -> [Channels -> DeliveryRow]]
  BY DEF PostingInv
<1>2. PICK new \in DeliveryRow, n \in Nat :
        /\ new.state = delivery[a][c].state /\ ~new.due
        /\ delivery' = [delivery EXCEPT ![a][c] = new]
        /\ deliverer' = [deliverer EXCEPT ![d] = [alert |-> a, channel |-> c, attempt |-> n]]
  BY <1>1, Leases
<1>3. /\ delivery' \in [Alerts!Alerts -> [Channels -> DeliveryRow]]
      /\ delivery'[a][c] = new
      /\ \A b \in Alerts!Alerts, e \in Channels : b # a \/ e # c => delivery'[b][e] = delivery[b][e]
  BY <1>1, <1>2, RowWritten
<1>4. /\ deliverer[d] = Alerts!Idle /\ alert' = alert
      /\ delivery[a][c].state \in Alerts!Pending /\ delivery[a][c].due
  BY DEF Alerts!Lease
<1>5. /\ deliverer'[d] = [alert |-> a, channel |-> c, attempt |-> n]
      /\ \A e \in Deliverers : e # d => deliverer'[e] = deliverer[e]
  BY <1>1, <1>2
<1>7. ASSUME NEW e \in Deliverers PROVE ~Has(e, a, c)
  BY <1>1, <1>4, <1>7 DEF Undisturbed, HandledOnce
<1>8. HandledOnce(a, c)'
  <2>1. \A e \in Deliverers : Has(e, a, c)' => e = d
    BY <1>5, <1>7 DEF Has
  <2> QED
    BY <1>2, <1>3, <1>4, <2>1 DEF HandledOnce
<1>9. ASSUME NEW b \in Alerts!Alerts, NEW e \in Channels, b # a \/ e # c PROVE HandledOnce(b, e)'
  <2>1. HandledOnce(b, e) /\ delivery'[b][e] = delivery[b][e]
    BY <1>1, <1>3, <1>9 DEF Undisturbed
  <2>2. \A f \in Deliverers : Has(f, b, e)' => Has(f, b, e)
    BY <1>5, <1>9 DEF Has
  <2> QED
    BY <2>1, <2>2 DEF HandledOnce
<1>10. ASSUME NEW b \in Alerts!Alerts, alert'[b] = "unused", NEW e \in Channels
       PROVE  delivery'[b][e].state = "none"
  <2>1. delivery[b][e].state = "none"
    BY <1>1, <1>4, <1>10 DEF Undisturbed
  <2> QED
    BY <1>3, <1>4, <2>1 DEF Alerts!Pending
<1> QED
  BY <1>8, <1>9, <1>10 DEF Undisturbed

\* A row is written, by one who has nothing in hand, that nobody has in hand.
LEMMA FreeRow ==
  ASSUME PostingInv, spent.retries = 0, UNCHANGED deliverer,
         \A b \in Alerts!Alerts, e \in Channels :
           (\E d \in Deliverers : Has(d, b, e)) => delivery'[b][e] = delivery[b][e],
         \A b \in Alerts!Alerts, e \in Channels : alert'[b] = "unused" => delivery'[b][e].state = "none"
  PROVE  Undisturbed'
<1>1. Undisturbed
  BY DEF PostingInv
<1>2. \A b \in Alerts!Alerts, e \in Channels : HandledOnce(b, e)'
  BY <1>1 DEF Undisturbed, HandledOnce, Has
<1> QED
  BY <1>2 DEF Undisturbed

\* What a step makes of rows and jobs.
LEMMA PostingTypes ==
  ASSUME PostingBounds, PostingInv, [Alerts!Next]_alertsVars
  PROVE  /\ delivery' \in [Alerts!Alerts -> [Channels -> DeliveryRow]]
         /\ DOMAIN alert' = Alerts!Alerts
         /\ DOMAIN deliverer' = Deliverers
         /\ \A d \in Deliverers : deliverer'[d] = Alerts!Idle \/ deliverer'[d] \in Job
         /\ spent' \in [retries : Nat, crashes : Nat]
         /\ spent'.retries = 0 => spent.retries = 0
<1> DEFINE RowsTyped == delivery' \in [Alerts!Alerts -> [Channels -> DeliveryRow]]
           JobsTyped == DOMAIN deliverer' = Deliverers /\ \A d \in Deliverers : deliverer'[d] = Alerts!Idle
               \/ deliverer'[d] \in Job
           SpentTyped == spent' \in [retries : Nat, crashes : Nat] /\ (spent'.retries = 0 => spent.retries = 0)
           AlertTyped == DOMAIN alert' = Alerts!Alerts
<1>1. /\ delivery \in [Alerts!Alerts -> [Channels -> DeliveryRow]] /\ DOMAIN alert = Alerts!Alerts
      /\ DOMAIN deliverer = Deliverers /\ \A d \in Deliverers : deliverer[d] = Alerts!Idle
           \/ deliverer[d] \in Job
      /\ spent \in [retries : Nat, crashes : Nat]
  BY DEF PostingInv
<1>2. ASSUME NEW r \in Raisers, Alerts!LookUp(r)
      PROVE  RowsTyped /\ AlertTyped /\ JobsTyped /\ SpentTyped
  BY <1>1, <1>2 DEF Alerts!LookUp
<1>3. ASSUME NEW r \in Raisers, Alerts!Record(r)
      PROVE  RowsTyped /\ AlertTyped /\ JobsTyped /\ SpentTyped
  <2>1. JobsTyped /\ SpentTyped
    BY <1>1, <1>3 DEF Alerts!Record
  <2>2. CASE UNCHANGED <<alert, delivery>>
    BY <1>1, <2>1, <2>2
  <2>3. ASSUME NEW a \in Alerts!Alerts, alert' = [alert EXCEPT ![a] = "OPEN"],
               delivery' = [delivery EXCEPT ![a] =
                 [c \in Channels |-> [state |-> "PENDING", attempts |-> 0, due |-> TRUE]]]
        PROVE  RowsTyped /\ AlertTyped
    <3>1. [state |-> "PENDING", attempts |-> 0, due |-> TRUE] \in DeliveryRow
      BY DEF DeliveryRow, DeliveryStates, Alerts!Pending
    <3> QED
      BY <1>1, <2>3, <3>1
  <2> QED
    BY <1>3, <2>1, <2>2, <2>3 DEF Alerts!Record
<1>4. ASSUME Alerts!Close \/ \E a \in Alerts!Alerts : Alerts!Acknowledge(a) \/ Alerts!Suppress(a)
             \/ Alerts!ExpireSuppression(a)
      PROVE  RowsTyped /\ AlertTyped /\ JobsTyped /\ SpentTyped
  BY <1>1, <1>4 DEF Alerts!Close, Alerts!Acknowledge, Alerts!Suppress, Alerts!ExpireSuppression
<1>5. ASSUME NEW d \in Deliverers, NEW a \in Alerts!Alerts, NEW c \in Channels, Alerts!Lease(d, a, c)
      PROVE  RowsTyped /\ AlertTyped /\ JobsTyped /\ SpentTyped
  <2>1. PICK new \in DeliveryRow, n \in Nat :
          /\ delivery' = [delivery EXCEPT ![a][c] = new]
          /\ deliverer' = [deliverer EXCEPT ![d] = [alert |-> a, channel |-> c, attempt |-> n]]
    BY <1>1, <1>5, Leases
  <2>2. RowsTyped
    BY <1>1, <2>1, RowWritten
  <2>3. JobsTyped
    BY <1>1, <2>1 DEF Job
  <2> QED
    BY <1>1, <1>5, <2>2, <2>3 DEF Alerts!Lease
<1>6. ASSUME NEW d \in Deliverers, Alerts!Finish(d)
      PROVE  RowsTyped /\ AlertTyped /\ JobsTyped /\ SpentTyped
  <2>1. deliverer[d] \in Job
    BY <1>1, <1>6 DEF Alerts!Finish
  <2>2. PICK new \in DeliveryRow :
          /\ delivery' = [delivery EXCEPT ![deliverer[d].alert][deliverer[d].channel] = new]
          /\ deliverer' = [deliverer EXCEPT ![d] = Alerts!Idle]
    BY <1>1, <1>6, <2>1, Finishes
  <2>3. deliverer[d].alert \in Alerts!Alerts /\ deliverer[d].channel \in Channels
    BY <2>1 DEF Job
  <2>4. RowsTyped
    BY <1>1, <2>2, <2>3, RowWritten
  <2>5. JobsTyped
    BY <1>1, <2>2
  <2> QED
    BY <1>1, <1>6, <2>4, <2>5 DEF Alerts!Finish
<1>7. ASSUME NEW d \in Deliverers, Alerts!Crash(d)
      PROVE  RowsTyped /\ AlertTyped /\ JobsTyped /\ SpentTyped
  <2>1. JobsTyped
    BY <1>1, <1>7 DEF Alerts!Crash
  <2> QED
    BY <1>1, <1>7, <2>1 DEF Alerts!Crash
<1>8. ASSUME NEW a \in Alerts!Alerts, NEW c \in Channels, Alerts!FallsDue(a, c)
      PROVE  RowsTyped /\ AlertTyped /\ JobsTyped /\ SpentTyped
  <2>1. PICK new \in DeliveryRow : delivery' = [delivery EXCEPT ![a][c] = new]
    BY <1>1, <1>8, FallenDue
  <2>2. RowsTyped
    BY <1>1, <2>1, RowWritten
  <2> QED
    BY <1>1, <1>8, <2>2 DEF Alerts!FallsDue
<1>9. ASSUME NEW a \in Alerts!Alerts, NEW c \in Channels, Alerts!ManualRetry(a, c)
      PROVE  RowsTyped /\ AlertTyped /\ JobsTyped /\ SpentTyped
  <2>1. PICK new \in DeliveryRow : delivery' = [delivery EXCEPT ![a][c] = new]
    BY <1>1, <1>9, Retried
  <2>2. RowsTyped
    BY <1>1, <2>1, RowWritten
  <2>3. spent' = [spent EXCEPT !.retries = spent.retries + 1]
    BY <1>9 DEF Alerts!ManualRetry
  <2>4. SpentTyped
    BY <1>1, <2>3
  <2> QED
    BY <1>1, <1>9, <2>2, <2>4 DEF Alerts!ManualRetry
<1>10. CASE UNCHANGED alertsVars
  BY <1>1, <1>10 DEF alertsVars
<1> QED
  BY <1>2, <1>3, <1>4, <1>5, <1>6, <1>7, <1>8, <1>9, <1>10 DEF Alerts!Next, Alerts!Deliver

LEMMA PostingStep ==
  ASSUME PostingBounds, PostingInv, [Alerts!Next]_alertsVars PROVE PostingInv'
<1>1. /\ delivery' \in [Alerts!Alerts -> [Channels -> DeliveryRow]]
      /\ DOMAIN alert' = Alerts!Alerts
      /\ DOMAIN deliverer' = Deliverers
      /\ \A d \in Deliverers : deliverer'[d] = Alerts!Idle \/ deliverer'[d] \in Job
      /\ spent' \in [retries : Nat, crashes : Nat]
      /\ spent'.retries = 0 => spent.retries = 0
  BY PostingTypes
<1> SUFFICES ASSUME spent'.retries = 0 PROVE Undisturbed'
  BY <1>1 DEF PostingInv
<1>2. /\ spent.retries = 0 /\ Undisturbed /\ DOMAIN alert = Alerts!Alerts /\ DOMAIN deliverer = Deliverers
      /\ delivery \in [Alerts!Alerts -> [Channels -> DeliveryRow]]
      /\ \A d \in Deliverers : deliverer[d] = Alerts!Idle \/ deliverer[d] \in Job
  BY <1>1 DEF PostingInv
<1>3. ASSUME NEW r \in Raisers, Alerts!LookUp(r) PROVE Undisturbed'
  BY <1>2, <1>3, StaysUndisturbed DEF Alerts!LookUp
<1>4. ASSUME NEW r \in Raisers, Alerts!Record(r) PROVE Undisturbed'
  <2>1. CASE UNCHANGED <<alert, delivery>>
    BY <1>2, <1>4, <2>1, StaysUndisturbed DEF Alerts!Record
  <2>2. ASSUME NEW a \in Alerts!Alerts, alert[a] = "unused", alert' = [alert EXCEPT ![a] = "OPEN"],
               delivery' = [delivery EXCEPT ![a] =
                 [c \in Channels |-> [state |-> "PENDING", attempts |-> 0, due |-> TRUE]]]
        PROVE  Undisturbed'
    <3>1. \A c \in Channels : delivery[a][c].state = "none"
      BY <1>2, <2>2 DEF Undisturbed
    <3>2. \A c \in Channels, d \in Deliverers : ~Has(d, a, c)
      BY <1>2, <3>1 DEF Undisturbed, HandledOnce, Alerts!Pending
    <3>3. \A b \in Alerts!Alerts, c \in Channels : b # a => delivery'[b][c] = delivery[b][c]
               /\ alert'[b] = alert[b]
      BY <1>2, <2>2
    <3>4. alert'[a] # "unused"
      BY <1>2, <2>2
    <3>5. \A b \in Alerts!Alerts, c \in Channels : (\E d \in Deliverers : Has(d, b, c))
               => delivery'[b][c] = delivery[b][c]
      BY <3>2, <3>3
    <3>6. \A b \in Alerts!Alerts, c \in Channels : alert'[b] = "unused" => delivery'[b][c].state = "none"
      BY <1>2, <3>3, <3>4 DEF Undisturbed
    <3>7. UNCHANGED deliverer
      BY <1>4 DEF Alerts!Record
    <3> QED
      BY <1>2, <3>5, <3>6, <3>7, FreeRow
  <2> QED
    BY <1>4, <2>1, <2>2 DEF Alerts!Record
<1>5. CASE Alerts!Close
  <2>1. \A a \in Alerts!Alerts : alert'[a] = "unused" => alert[a] = "unused"
    BY <1>5 DEF Alerts!Close
  <2> QED
    BY <1>2, <1>5, <2>1, StaysUndisturbed DEF Alerts!Close
<1>6. ASSUME NEW a \in Alerts!Alerts, Alerts!Acknowledge(a) \/ Alerts!Suppress(a) \/ Alerts!ExpireSuppression(a)
      PROVE  Undisturbed'
  <2>1. /\ UNCHANGED <<delivery, deliverer>>
        /\ \A b \in Alerts!Alerts : alert'[b] = "unused" => alert[b] = "unused"
    BY <1>2, <1>6 DEF Alerts!Acknowledge, Alerts!Suppress, Alerts!ExpireSuppression
  <2> QED
    BY <1>2, <2>1, StaysUndisturbed
<1>7. ASSUME NEW d \in Deliverers, NEW a \in Alerts!Alerts, NEW c \in Channels, Alerts!Lease(d, a, c)
      PROVE  Undisturbed'
  BY <1>2, <1>7, LeaseUndisturbed
<1>8. ASSUME NEW d \in Deliverers, Alerts!Finish(d) PROVE Undisturbed'
  <2>1. deliverer[d] \in Job
    BY <1>2, <1>8 DEF Alerts!Finish
  <2>2. PICK new \in DeliveryRow :
          /\ delivery' = [delivery EXCEPT ![deliverer[d].alert][deliverer[d].channel] = new]
          /\ deliverer' = [deliverer EXCEPT ![d] = Alerts!Idle]
    BY <1>2, <1>8, <2>1, Finishes
  <2>3. deliverer[d].alert \in Alerts!Alerts /\ deliverer[d].channel \in Channels
    BY <2>1 DEF Job
  <2>4. \A a \in Alerts!Alerts, c \in Channels : Has(d, a, c) \/ delivery'[a][c] = delivery[a][c]
    BY <1>2, <2>2, <2>3, RowWritten DEF Has
  <2>5. UNCHANGED alert
    BY <1>8 DEF Alerts!Finish
  <2> QED
    BY <1>1, <1>2, <2>2, <2>4, <2>5, LetsGo
<1>9. ASSUME NEW d \in Deliverers, Alerts!Crash(d) PROVE Undisturbed'
  <2>1. UNCHANGED <<alert, delivery>> /\ deliverer' = [deliverer EXCEPT ![d] = Alerts!Idle]
    BY <1>9 DEF Alerts!Crash
  <2> QED
    BY <1>1, <1>2, <2>1, LetsGo
<1>10. ASSUME NEW a \in Alerts!Alerts, NEW c \in Channels, Alerts!FallsDue(a, c) PROVE Undisturbed'
  <2>1. PICK new \in DeliveryRow :
          new.state = delivery[a][c].state /\ delivery' = [delivery EXCEPT ![a][c] = new]
    BY <1>2, <1>10, FallenDue
  <2>2. /\ delivery'[a][c] = new
        /\ \A b \in Alerts!Alerts, e \in Channels : b # a \/ e # c => delivery'[b][e] = delivery[b][e]
    BY <1>2, <2>1, RowWritten
  <2>3. UNCHANGED <<alert, deliverer>> /\ \A d \in Deliverers : ~Has(d, a, c)
    BY <1>10 DEF Alerts!FallsDue, Alerts!InHand, Has
  <2>4. \A b \in Alerts!Alerts, e \in Channels : (\E d \in Deliverers : Has(d, b, e))
             => delivery'[b][e] = delivery[b][e]
    BY <2>2, <2>3
  <2>5. \A b \in Alerts!Alerts, e \in Channels : alert'[b] = "unused" => delivery'[b][e].state = "none"
    BY <1>2, <2>1, <2>2, <2>3 DEF Undisturbed
  <2> QED
    BY <1>2, <2>3, <2>4, <2>5, FreeRow
<1>11. ASSUME NEW a \in Alerts!Alerts, NEW c \in Channels, Alerts!ManualRetry(a, c) PROVE FALSE
  <2>1. spent' = [spent EXCEPT !.retries = spent.retries + 1] /\ spent \in [retries : Nat, crashes : Nat]
    BY <1>11 DEF Alerts!ManualRetry, PostingInv
  <2> QED
    BY <1>2, <2>1
<1>12. CASE UNCHANGED alertsVars
  BY <1>2, <1>12, StaysUndisturbed DEF alertsVars
<1> QED
  BY <1>3, <1>4, <1>5, <1>6, <1>7, <1>8, <1>9, <1>10, <1>11, <1>12 DEF Alerts!Next, Alerts!Deliver

\* Nothing rewrites a delivery that was made: what a deliverer has in hand waits.
LEMMA PostingKeeps ==
  ASSUME PostingBounds, PostingInv, [Alerts!Next]_alertsVars, spent.retries = 0,
         NEW a \in Alerts!Alerts, NEW c \in Channels, delivery[a][c].state = "DELIVERED"
  PROVE  delivery'[a][c].state = "DELIVERED"
<1>0. delivery \in [Alerts!Alerts -> [Channels -> DeliveryRow]]
  BY DEF PostingInv
<1>1. /\ Undisturbed /\ delivery \in [Alerts!Alerts -> [Channels -> DeliveryRow]]
      /\ \A d \in Deliverers : deliverer[d] = Alerts!Idle \/ deliverer[d] \in Job
  BY DEF PostingInv
<1>2. ASSUME UNCHANGED delivery PROVE delivery'[a][c].state = "DELIVERED"
  BY <1>2
<1>3. ASSUME NEW r \in Raisers, Alerts!LookUp(r) \/ Alerts!Record(r) PROVE delivery'[a][c].state = "DELIVERED"
  <2>1. alert[a] # "unused"
    BY <1>1 DEF Undisturbed
  <2>2. CASE UNCHANGED delivery
    BY <1>2, <2>2
  <2>3. ASSUME NEW b \in Alerts!Alerts, NEW rows, alert[b] = "unused", delivery' = [delivery EXCEPT ![b] = rows]
        PROVE  delivery'[a][c].state = "DELIVERED"
    BY <1>1, <2>1, <2>3
  <2>4. UNCHANGED delivery \/ \E b \in Alerts!Alerts : \E rows : alert[b] = "unused"
             /\ delivery' = [delivery EXCEPT ![b] = rows]
    BY <1>3 DEF Alerts!LookUp, Alerts!Record
  <2> QED
    BY <2>2, <2>3, <2>4
<1>4. ASSUME Alerts!Close \/ \E b \in Alerts!Alerts : Alerts!Acknowledge(b) \/ Alerts!Suppress(b)
             \/ Alerts!ExpireSuppression(b)
      PROVE  UNCHANGED delivery
  BY <1>4 DEF Alerts!Close, Alerts!Acknowledge, Alerts!Suppress, Alerts!ExpireSuppression
<1>5. ASSUME NEW d \in Deliverers, NEW b \in Alerts!Alerts, NEW e \in Channels, Alerts!Lease(d, b, e)
      PROVE  delivery'[a][c].state = "DELIVERED"
  <2>1. PICK new \in DeliveryRow, n \in Nat :
          /\ new.state = delivery[b][e].state /\ ~new.due
          /\ delivery' = [delivery EXCEPT ![b][e] = new]
          /\ deliverer' = [deliverer EXCEPT ![d] = [alert |-> b, channel |-> e, attempt |-> n]]
    BY <1>0, <1>5, Leases
  <2>2. b # a \/ e # c
    BY <1>5 DEF Alerts!Lease, Alerts!Pending
  <2> QED
    BY <1>1, <2>1, <2>2, RowWritten
<1>6. ASSUME NEW d \in Deliverers, Alerts!Finish(d) PROVE delivery'[a][c].state = "DELIVERED"
  <2>1. deliverer[d] \in Job
    BY <1>1, <1>6 DEF Alerts!Finish
  <2>2. PICK new \in DeliveryRow :
          delivery' = [delivery EXCEPT ![deliverer[d].alert][deliverer[d].channel] = new]
    BY <1>1, <1>6, <2>1, Finishes
  <2>3. deliverer[d].alert \in Alerts!Alerts /\ deliverer[d].channel \in Channels
    BY <2>1 DEF Job
  <2>4. deliverer[d].alert # a \/ deliverer[d].channel # c
    BY <1>1 DEF Undisturbed, HandledOnce, Has, Alerts!Pending
  <2> QED
    BY <1>1, <2>2, <2>3, <2>4, RowWritten
<1>7. ASSUME NEW d \in Deliverers, Alerts!Crash(d) PROVE UNCHANGED delivery
  BY <1>7 DEF Alerts!Crash
<1>8. ASSUME NEW b \in Alerts!Alerts, NEW e \in Channels, Alerts!FallsDue(b, e) \/ Alerts!ManualRetry(b, e)
      PROVE  delivery'[a][c].state = "DELIVERED"
  <2>1. b # a \/ e # c
    BY <1>8 DEF Alerts!FallsDue, Alerts!ManualRetry, Alerts!Pending
  <2>2. \E new \in DeliveryRow : delivery' = [delivery EXCEPT ![b][e] = new]
    BY <1>1, <1>8, FallenDue, Retried
  <2> QED
    BY <1>1, <2>1, <2>2, RowWritten
<1>9. CASE UNCHANGED alertsVars
  BY <1>2, <1>9 DEF alertsVars
<1> QED
  BY <1>2, <1>3, <1>4, <1>5, <1>6, <1>7, <1>8, <1>9 DEF Alerts!Next, Alerts!Deliver

\* Deliverers that lease, answer and die keep what each has in hand apart.
THEOREM PostingInvariance == Spec => []PostingInv
<1>1. PostingBounds
  BY ServicesAssumption DEF PostingBounds
<1>2. Init => PostingInv
  BY <1>1, PostingStart DEF Init
<1>3. PostingInv /\ [Next]_all => PostingInv'
  BY <1>1, PostingStep, Moves
<1> QED
  BY <1>2, <1>3, PTL DEF Spec

\* What was delivered stays delivered and is not posted again, for any number of deliverers, alerts
\* and channels, until an OWNER retries by hand (leaseDelivery, deliverNextAlert).
THEOREM DeliveredIsFinalHolds == Spec => DeliveredIsFinal
<1>1. PostingBounds
  BY ServicesAssumption DEF PostingBounds
<1>2. PostingInv /\ [Next]_all =>
        [\A a \in Alerts!Alerts, c \in Channels :
           delivery[a][c].state = "DELIVERED" /\ spent.retries = 0
             => delivery'[a][c].state = "DELIVERED"]_Alerts!alertVars
  BY <1>1, PostingKeeps, Moves
<1> QED
  BY <1>2, PostingInvariance, PTL DEF Spec, DeliveredIsFinal, Alerts!DeliveredIsFinal

-----------------------------------------------------------------------------
(***************************************************************************)
(* GeneratedRuntime: what is kept in files.                                *)
(*                                                                         *)
(* While no two calls store at once, the call that stores has read what the *)
(* file still holds, and the temporary file is its own; a mode is answered *)
(* when it is in its file, and a death takes back an answer under way.     *)
(***************************************************************************)

Names == {"on", "off"}

RuntimeBounds ==
  /\ None # Torn /\ None \notin Names
  /\ \A S \in SUBSET Calls : S # None /\ S # Torn

\* What the one state.set in progress has read is what the file holds, and what it has written of
\* the temporary file is its own.
Stored(c) ==
  /\ store[c] \in {"read", "open", "written"} => snap[c] = file
  /\ store[c] = "open" => tmp = Torn
  /\ store[c] = "written" => tmp = snap[c] \union {c}

FileKept ==
  /\ file \in SUBSET Calls /\ saved \subseteq file
  /\ DOMAIN store = Calls /\ DOMAIN snap = Calls
  /\ \A c, d \in Calls : Runtime!Storing(c) /\ Runtime!Storing(d) => c = d
  /\ \A c \in Calls : Stored(c)

ModeKept ==
  /\ acked \in Names \union {None} /\ command \in Names \union {None}
  /\ command = None /\ acked # None => modeFile = acked

RuntimeInv == ModeKept /\ overlap \in BOOLEAN /\ (~overlap => FileKept)

LEMMA RuntimeStart == ASSUME RuntimeBounds, Runtime!Init PROVE RuntimeInv
<1>1. ModeKept /\ overlap \in BOOLEAN
  BY DEF Runtime!Init, ModeKept
<1>2. FileKept
  BY DEF Runtime!Init, FileKept, Stored, Runtime!Storing
<1> QED
  BY <1>1, <1>2 DEF RuntimeInv

\* A command is answered when its mode is in the file, and a death takes the answer back.
LEMMA ModeSteps ==
  ASSUME RuntimeBounds, ModeKept, [Runtime!Next]_runtimeVars PROVE ModeKept'
<1>1. ASSUME UNCHANGED <<modeFile, command, acked>> PROVE ModeKept'
  BY <1>1 DEF ModeKept
<1>2. ASSUME NEW on \in BOOLEAN, Runtime!Command(on) PROVE ModeKept'
  <2>1. command' # None /\ command' \in Names
    BY <1>2 DEF Runtime!Command, Runtime!Name, RuntimeBounds, Names
  <2> QED
    BY <1>2, <2>1 DEF Runtime!Command, ModeKept
<1>3. CASE Runtime!Persisted
  BY <1>3 DEF Runtime!Persisted, ModeKept
<1>4. CASE Runtime!Dies
  BY <1>4 DEF Runtime!Dies, ModeKept
<1>5. CASE Runtime!CallStep
  BY <1>1, <1>5 DEF Runtime!CallStep, Runtime!Receive, Runtime!Finish, Runtime!Answer, Runtime!Timeout,
    Runtime!Ask, Runtime!ReadState, Runtime!OpenTmp, Runtime!WriteTmp, Runtime!Rename, Runtime!modeVars
<1>6. CASE Runtime!Ready \/ Runtime!Exit \/ Runtime!Boot
  BY <1>1, <1>6 DEF Runtime!Ready, Runtime!Exit, Runtime!Boot, Runtime!modeVars
<1>7. CASE UNCHANGED runtimeVars
  BY <1>1, <1>7 DEF runtimeVars
<1> QED
  BY <1>2, <1>3, <1>4, <1>5, <1>6, <1>7 DEF Runtime!Next, Runtime!HostStep, Runtime!ModeStep, Runtime!Crash,
    Runtime!HostDies

\* The call that stores takes its next step; no other stores.
LEMMA StoresOn ==
  ASSUME FileKept, NEW c \in Calls, Runtime!Storing(c), NEW step, store' = [store EXCEPT ![c] = step],
         file' \in SUBSET Calls, saved' \subseteq file', DOMAIN snap' = Calls, Stored(c)'
  PROVE  FileKept'
<1>1. \A d \in Calls : d # c => store'[d] = store[d] /\ ~Runtime!Storing(d)
  BY DEF FileKept
<1>2. \A d \in Calls : d # c => ~Runtime!Storing(d)' /\ Stored(d)'
  BY <1>1 DEF Runtime!Storing, Stored
<1> QED
  BY <1>2 DEF FileKept

LEMMA FileSteps ==
  ASSUME RuntimeBounds, RuntimeInv, [Runtime!Next]_runtimeVars, ~overlap' PROVE FileKept'
<1>1. overlap \in BOOLEAN /\ (~overlap => FileKept)
  BY DEF RuntimeInv
<1>2. ASSUME NEW c \in Calls, Runtime!Ask(c) PROVE FileKept'
  <2>1. /\ FileKept /\ \A d \in Calls \ {c} : ~Runtime!Storing(d)
        /\ store' = [store EXCEPT ![c] = "asked"] /\ UNCHANGED <<snap, file, tmp, saved>>
    BY <1>1, <1>2 DEF Runtime!Ask
  <2>2. \A d \in Calls : d # c => store'[d] = store[d]
    BY <2>1 DEF FileKept
  <2>3. store'[c] = "asked"
    BY <2>1 DEF FileKept
  <2>4. \A d \in Calls : Stored(d)' /\ (Runtime!Storing(d)' => d = c)
    BY <2>1, <2>2, <2>3 DEF Runtime!Storing, Stored
  <2> QED
    BY <2>1, <2>4 DEF FileKept
<1>3. ASSUME NEW c \in Calls, Runtime!ReadState(c) PROVE FileKept'
  <2>1. FileKept /\ Runtime!Storing(c) /\ store[c] = "asked" /\ UNCHANGED <<file, tmp, saved>>
    BY <1>1, <1>3 DEF Runtime!ReadState, Runtime!fileVars, Runtime!Storing
  <2>2. file # Torn /\ file \in SUBSET Calls /\ saved \subseteq file /\ DOMAIN snap = Calls
             /\ DOMAIN store = Calls
    BY <2>1 DEF FileKept, RuntimeBounds
  <2>3. store' = [store EXCEPT ![c] = "read"] /\ snap' = [snap EXCEPT ![c] = file]
    BY <1>3, <2>2 DEF Runtime!ReadState
  <2>4. ASSUME NEW d \in Calls PROVE Stored(d)' /\ (Runtime!Storing(d)' => d = c)
    <3>1. CASE d = c
      BY <2>1, <2>2, <2>3, <3>1 DEF Stored
    <3>2. CASE d # c
      <4>1. store'[d] = store[d] /\ ~Runtime!Storing(d)
        BY <2>1, <2>2, <2>3, <3>2 DEF FileKept
      <4> QED
        BY <4>1 DEF Runtime!Storing, Stored
    <3> QED
      BY <3>1, <3>2
  <2> QED
    BY <2>1, <2>2, <2>3, <2>4 DEF FileKept
<1>4. ASSUME NEW c \in Calls, Runtime!OpenTmp(c) PROVE FileKept'
  <2>1. /\ FileKept /\ Runtime!Storing(c) /\ store[c] = "read" /\ UNCHANGED <<file, snap, saved>> /\ tmp' = Torn
        /\ store' = [store EXCEPT ![c] = "open"]
    BY <1>1, <1>4 DEF Runtime!OpenTmp, Runtime!Opened, Runtime!Storing
  <2>2. Stored(c)'
    BY <2>1 DEF FileKept, Stored
  <2> QED
    BY <2>1, <2>2, StoresOn DEF FileKept
<1>5. ASSUME NEW c \in Calls, Runtime!WriteTmp(c) PROVE FileKept'
  <2>1. /\ FileKept /\ Runtime!Storing(c) /\ store[c] = "open" /\ UNCHANGED <<snap, saved>>
        /\ store' = [store EXCEPT ![c] = "written"]
    BY <1>1, <1>5 DEF Runtime!WriteTmp, Runtime!Storing
  <2>2. tmp = Torn /\ Torn # None
    BY <2>1 DEF FileKept, Stored, RuntimeBounds
  <2>3. UNCHANGED file /\ tmp' = snap[c] \union {c}
    BY <1>5, <2>2 DEF Runtime!WriteTmp
  <2>4. Stored(c)'
    BY <2>1, <2>3 DEF FileKept, Stored
  <2> QED
    BY <2>1, <2>3, <2>4, StoresOn DEF FileKept
<1>6. ASSUME NEW c \in Calls, Runtime!Rename(c) PROVE FileKept'
  <2>1. /\ FileKept /\ Runtime!Storing(c) /\ store[c] = "written" /\ UNCHANGED snap
        /\ store' = [store EXCEPT ![c] = Runtime!Settled]
    BY <1>1, <1>6 DEF Runtime!Rename, Runtime!Storing
  <2>2. tmp = file \union {c} /\ file \in SUBSET Calls /\ saved \subseteq file
    BY <2>1 DEF FileKept, Stored
  <2>3. tmp # None
    BY <2>2 DEF RuntimeBounds
  <2>4. file' = file \union {c} /\ saved' \subseteq saved \union {c}
    BY <1>6, <2>2, <2>3 DEF Runtime!Rename, Runtime!Renamed
  <2>5. store'[c] \in {"done", "unanswered"}
    BY <2>1 DEF FileKept, Runtime!Settled
  <2>6. Stored(c)'
    BY <2>5 DEF Stored
  <2> QED
    BY <2>1, <2>2, <2>4, <2>6, StoresOn DEF FileKept
<1>7. CASE Runtime!Dies
  <2>1. FileKept /\ UNCHANGED <<snap, file, saved>>
    BY <1>1, <1>7 DEF Runtime!Dies
  <2>2. store' = [c \in Calls |-> IF store[c] \in {"none", "done"} THEN store[c] ELSE "lost"]
    BY <1>7 DEF Runtime!Dies
  <2>3. DOMAIN store' = Calls /\ \A c \in Calls : store'[c] \in {"none", "done", "lost"}
    BY <2>2
  <2>4. \A c \in Calls : Stored(c)' /\ ~Runtime!Storing(c)'
    BY <2>3 DEF Stored, Runtime!Storing
  <2> QED
    BY <2>1, <2>3, <2>4 DEF FileKept
<1>8. ASSUME UNCHANGED <<store, snap, file, tmp, saved, overlap>> PROVE FileKept'
  BY <1>1, <1>8 DEF FileKept, Stored, Runtime!Storing
<1>9. ASSUME NEW c \in Calls, Runtime!Receive(c) \/ Runtime!Finish(c) \/ Runtime!Answer(c) \/ Runtime!Timeout(c)
      PROVE  FileKept'
  BY <1>8, <1>9 DEF Runtime!Receive, Runtime!Finish, Runtime!Answer, Runtime!Timeout, Runtime!fileVars
<1>10. CASE Runtime!Ready \/ Runtime!Exit \/ Runtime!Boot \/ Runtime!ModeStep
  BY <1>8, <1>10 DEF Runtime!Ready, Runtime!Exit, Runtime!Boot, Runtime!ModeStep, Runtime!Command,
    Runtime!Persisted, Runtime!fileVars
<1>11. CASE UNCHANGED runtimeVars
  BY <1>8, <1>11 DEF runtimeVars
<1> QED
  BY <1>2, <1>3, <1>4, <1>5, <1>6, <1>7, <1>9, <1>10, <1>11 DEF Runtime!Next, Runtime!CallStep,
    Runtime!HostStep, Runtime!Crash, Runtime!HostDies

LEMMA RuntimeStep ==
  ASSUME RuntimeBounds, RuntimeInv, [Runtime!Next]_runtimeVars PROVE RuntimeInv'
<1>1. ModeKept'
  BY ModeSteps DEF RuntimeInv
<1>2. overlap' \in BOOLEAN
  <2>1. CASE overlap' = overlap
    BY <2>1 DEF RuntimeInv
  <2>2. ASSUME NEW c \in Calls, Runtime!Ask(c) PROVE overlap' \in BOOLEAN
    BY <2>2 DEF Runtime!Ask
  <2>3. ASSUME NEW c \in Calls, \/ Runtime!Receive(c) \/ Runtime!Finish(c) \/ Runtime!Answer(c)
               \/ Runtime!Timeout(c)
                                \/ Runtime!ReadState(c) \/ Runtime!OpenTmp(c) \/ Runtime!WriteTmp(c)
                                     \/ Runtime!Rename(c)
        PROVE  overlap' = overlap
    BY <2>3 DEF Runtime!Receive, Runtime!Finish, Runtime!Answer, Runtime!Timeout, Runtime!ReadState,
      Runtime!OpenTmp, Runtime!WriteTmp, Runtime!Rename, Runtime!fileVars
  <2>4. ASSUME Runtime!HostStep \/ Runtime!ModeStep \/ UNCHANGED runtimeVars PROVE overlap' = overlap
    BY <2>4 DEF Runtime!HostStep, Runtime!ModeStep, Runtime!Ready, Runtime!Exit, Runtime!Crash,
      Runtime!HostDies, Runtime!Boot, Runtime!Dies, Runtime!Command, Runtime!Persisted, Runtime!fileVars,
      runtimeVars
  <2> QED
    BY <2>1, <2>2, <2>3, <2>4 DEF Runtime!Next, Runtime!CallStep
<1> QED
  BY <1>1, <1>2, FileSteps DEF RuntimeInv

LEMMA RuntimeTells == ASSUME RuntimeBounds, RuntimeInv PROVE Runtime!AcknowledgedIsKept
<1>1. ~overlap => file # Torn /\ saved \subseteq file
  BY DEF RuntimeInv, FileKept, RuntimeBounds
<1>2. acked # None /\ command = None => Runtime!Name(Runtime!BootMode) = acked
  BY DEF RuntimeInv, ModeKept, Names, Runtime!Name, Runtime!BootMode
<1> QED
  BY <1>1, <1>2 DEF Runtime!AcknowledgedIsKept

\* Calls, commands, timeouts and deaths keep what the files hold and what was answered together.
THEOREM RuntimeInvariance == Spec => []RuntimeInv
<1>1. RuntimeBounds
  BY ServicesAssumption DEF RuntimeBounds, Names
<1>2. Init => RuntimeInv
  BY <1>1, RuntimeStart DEF Init
<1>3. RuntimeInv /\ [Next]_all => RuntimeInv'
  BY <1>1, RuntimeStep, Moves
<1> QED
  BY <1>2, <1>3, PTL DEF Spec

\* What the runtime has answered survives, for any number of calls and commands and any deaths
\* (writeHandlerState, persistMode, the mode read at start).
THEOREM AcknowledgedIsKeptHolds == Spec => []AcknowledgedIsKept
<1>1. RuntimeBounds
  BY ServicesAssumption DEF RuntimeBounds, Names
<1>2. RuntimeInv => AcknowledgedIsKept
  BY <1>1, RuntimeTells DEF AcknowledgedIsKept
<1> QED
  BY <1>2, RuntimeInvariance, PTL
=============================================================================
