--------------------------- MODULE AlertDelivery ---------------------------
(***************************************************************************)
(* The operational alerts of one subject and type, and the webhook         *)
(* deliveries that tell them on two channels (domain/alerts.ts, and the    *)
(* alert routes of http/admin-routes.ts).  Whoever finds the fault raises; *)
(* deliverers lease a delivery, post it and record the result in           *)
(* transactions of their own.                                              *)
(***************************************************************************)
EXTENDS Integers, FiniteSets

CONSTANTS
  Raisers,      \* transactions that find the fault at the same time
  Channels,     \* PRIMARY and BACKUP in the code; they are independent of each other
  Deliverers,   \* processes that call deliverNextAlert
  MaxAlerts,    \* bound: alerts ever opened
  MaxAttempts,  \* attempts before a delivery is given up (10 in the code)
  MaxRetries,   \* bound: manual retries of the OWNER
  MaxCrashes    \* bound: deliverers that die with a delivery in hand

VARIABLES
  alert,      \* operational_alert by number: "unused" or its status
  raiser,     \* where a raising transaction is
  advisory,   \* who holds pg_advisory_xact_lock of the subject and type
  delivery,   \* alert_webhook_delivery by alert and channel
  deliverer,  \* what a deliverer has in hand
  spent       \* what the bounds count

alertVars == <<alert, raiser, advisory, delivery, deliverer, spent>>

Alerts   == 1..MaxAlerts
NotClosed == {"OPEN", "ACKNOWLEDGED", "SUPPRESSED"}
Pending   == {"PENDING", "RETRY"}

NoDelivery == [state |-> "none", attempts |-> 0, due |-> FALSE]
Idle       == [alert |-> 0, channel |-> CHOOSE c \in Channels : TRUE, attempt |-> 0]
Standing   == {a \in Alerts : alert[a] \in NotClosed}

Init ==
  /\ alert = [a \in Alerts |-> "unused"]
  /\ raiser = [r \in Raisers |-> [pc |-> "idle", found |-> 0]]
  /\ advisory = {}
  /\ delivery = [a \in Alerts |-> [c \in Channels |-> NoDelivery]]
  /\ deliverer = [d \in Deliverers |-> Idle]
  /\ spent = [retries |-> 0, crashes |-> 0]

-----------------------------------------------------------------------------
(* raiseAlert and closeAlert.                                               *)

LockFree_Ignored == TRUE
LockFree == advisory = {}

\* the lock, and the look for an alert that is not closed; the row found is locked too
LookUp(r) ==
  /\ raiser[r].pc = "idle" /\ LockFree
  /\ advisory' = advisory \union {r}
  /\ \E found \in IF Standing = {} THEN {0} ELSE Standing :
       raiser' = [raiser EXCEPT ![r] = [pc |-> "found", found |-> found]]
  /\ UNCHANGED <<alert, delivery, deliverer, spent>>

\* a standing alert is refreshed, a new one comes with a delivery on each channel; the commit
\* gives the lock back
Record(r) ==
  /\ raiser[r].pc = "found"
  /\ \/ raiser[r].found # 0 /\ UNCHANGED <<alert, delivery>>
     \/ /\ raiser[r].found = 0
        /\ \E a \in Alerts :
             /\ alert[a] = "unused" /\ \A b \in 1..(a - 1) : alert[b] # "unused"
             /\ alert' = [alert EXCEPT ![a] = "OPEN"]
             /\ delivery' = [delivery EXCEPT ![a] =
                  [c \in Channels |-> [state |-> "PENDING", attempts |-> 0, due |-> TRUE]]]
  /\ advisory' = advisory \ {r}
  /\ raiser' = [raiser EXCEPT ![r] = [pc |-> "idle", found |-> 0]]
  /\ UNCHANGED <<deliverer, spent>>

RowLocked(a) == \E r \in Raisers : raiser[r].found = a

\* closeAlert does not take the advisory lock
Close ==
  /\ Standing # {} /\ \A a \in Standing : ~RowLocked(a)
  /\ alert' = [a \in Alerts |-> IF a \in Standing THEN "CLOSED" ELSE alert[a]]
  /\ UNCHANGED <<raiser, advisory, delivery, deliverer, spent>>

Acknowledge(a) ==
  /\ alert[a] = "OPEN" /\ ~RowLocked(a)
  /\ alert' = [alert EXCEPT ![a] = "ACKNOWLEDGED"]
  /\ UNCHANGED <<raiser, advisory, delivery, deliverer, spent>>

Suppress(a) ==
  /\ alert[a] \in {"OPEN", "ACKNOWLEDGED"} /\ ~RowLocked(a)
  /\ alert' = [alert EXCEPT ![a] = "SUPPRESSED"]
  /\ UNCHANGED <<raiser, advisory, delivery, deliverer, spent>>

ExpireSuppression(a) ==
  /\ alert[a] = "SUPPRESSED" /\ ~RowLocked(a)
  /\ alert' = [alert EXCEPT ![a] = "OPEN"]
  /\ UNCHANGED <<raiser, advisory, delivery, deliverer, spent>>

-----------------------------------------------------------------------------
(* deliverNextAlert.                                                        *)

InHand(a, c) == \E d \in Deliverers : deliverer[d].alert = a /\ deliverer[d].channel = c

Leased_Due(row) == row
Leased(row) == [row EXCEPT !.due = FALSE]

\* what is compared with MaxAttempts only: counting stops behind it
Counted(n) == IF n > MaxAttempts THEN n ELSE n + 1

\* leaseDelivery: the attempt is counted and the next one is two minutes away
Lease(d, a, c) ==
  /\ deliverer[d] = Idle
  /\ delivery[a][c].state \in Pending /\ delivery[a][c].due
  /\ LET attempt == Counted(delivery[a][c].attempts) IN
       /\ delivery' = [delivery EXCEPT ![a][c] = Leased([@ EXCEPT !.attempts = attempt])]
       /\ deliverer' = [deliverer EXCEPT ![d] = [alert |-> a, channel |-> c, attempt |-> attempt]]
  /\ UNCHANGED <<alert, raiser, advisory, spent>>

\* the answer of the webhook, written by the delivery's id
Outcome_Exact(attempt) == IF attempt = MaxAttempts THEN "DEAD_LETTER" ELSE "RETRY"
Outcome(attempt) == IF attempt >= MaxAttempts THEN "DEAD_LETTER" ELSE "RETRY"

Finish(d) ==
  LET job == deliverer[d] IN
  /\ job # Idle
  /\ \E state \in {"DELIVERED", Outcome(job.attempt)} :
       delivery' = [delivery EXCEPT ![job.alert][job.channel].state = state,
                      ![job.alert][job.channel].due = @ /\ state # "RETRY"]
  /\ deliverer' = [deliverer EXCEPT ![d] = Idle]
  /\ UNCHANGED <<alert, raiser, advisory, spent>>

Crash(d) ==
  /\ deliverer[d] # Idle /\ spent.crashes < MaxCrashes
  /\ deliverer' = [deliverer EXCEPT ![d] = Idle]
  /\ spent' = [spent EXCEPT !.crashes = @ + 1]
  /\ UNCHANGED <<alert, raiser, advisory, delivery>>

\* next_attempt_at passes.  A post ends after ten seconds at the latest and a lease after two
\* minutes: a delivery that is in hand does not fall due
FallsDue(a, c) ==
  /\ delivery[a][c].state \in Pending /\ ~delivery[a][c].due /\ ~InHand(a, c)
  /\ delivery' = [delivery EXCEPT ![a][c].due = TRUE]
  /\ UNCHANGED <<alert, raiser, advisory, deliverer, spent>>

\* alert-deliveries/:id/retry: also while a deliverer has it in hand
ManualRetry(a, c) ==
  /\ spent.retries < MaxRetries /\ delivery[a][c].state \in {"RETRY", "DEAD_LETTER"}
  /\ delivery' = [delivery EXCEPT ![a][c].state = "RETRY", ![a][c].due = TRUE]
  /\ spent' = [spent EXCEPT !.retries = @ + 1]
  /\ UNCHANGED <<alert, raiser, advisory, deliverer>>

-----------------------------------------------------------------------------
Deliver(d) == Finish(d) \/ \E a \in Alerts, c \in Channels : Lease(d, a, c)

Next ==
  \/ \E r \in Raisers : LookUp(r) \/ Record(r)
  \/ Close
  \/ \E a \in Alerts : Acknowledge(a) \/ Suppress(a) \/ ExpireSuppression(a)
  \/ \E d \in Deliverers : Deliver(d) \/ Crash(d)
  \/ \E a \in Alerts, c \in Channels : FallsDue(a, c) \/ ManualRetry(a, c)

Spec == Init /\ [][Next]_alertVars

\* the scheduler polls, and time passes
Fairness ==
  /\ \A d \in Deliverers : WF_alertVars(Deliver(d))
  /\ \A a \in Alerts, c \in Channels : WF_alertVars(FallsDue(a, c))

FairSpec == Spec /\ Fairness

-----------------------------------------------------------------------------
(* Properties.                                                              *)

AlertTypeOK ==
  /\ alert \in [Alerts -> NotClosed \union {"unused", "CLOSED"}]
  /\ raiser \in [Raisers -> [pc : {"idle", "found"}, found : 0..MaxAlerts]]
  /\ advisory \subseteq Raisers
  /\ delivery \in [Alerts -> [Channels ->
       [state : {"none", "DELIVERED", "DEAD_LETTER"} \union Pending, attempts : 0..MaxAttempts + 1, due : BOOLEAN]]]
  /\ deliverer \in [Deliverers -> [alert : 0..MaxAlerts, channel : Channels, attempt : 0..MaxAttempts + 1]]
  /\ spent \in [retries : 0..MaxRetries, crashes : 0..MaxCrashes]

\* Raisers that find the same fault at the same time never leave two standing alerts of one
\* subject and type, whatever the OWNER and closeAlert do meanwhile.
OneStandingAlert == Cardinality(Standing) <= 1

\* What was delivered stays delivered: no answer of an earlier attempt takes it back, and
\* nothing posts it again.  An OWNER's retry during a post is the exception.
DeliveredIsFinal ==
  [][\A a \in Alerts, c \in Channels :
       delivery[a][c].state = "DELIVERED" /\ spent.retries = 0
         => delivery'[a][c].state = "DELIVERED"]_alertVars

\* Every delivery of an alert is made or given up, also when deliverers die.
EveryDeliverySettles ==
  \A a \in Alerts, c \in Channels :
    delivery[a][c].state \in Pending ~> delivery[a][c].state \in {"DELIVERED", "DEAD_LETTER"}
=============================================================================
