------------------------- MODULE DiscussionContract -------------------------
(***************************************************************************)
(* What the discussion promises its OWNER, without workers, leases or      *)
(* tokens: every message gets exactly one answer, of which nothing changes *)
(* once it is final; the current specification moves only while the        *)
(* discussion is open; approval freezes it when no answer is outstanding.  *)
(***************************************************************************)
EXTENDS Integers

CONSTANTS MaxTurns, Specs, NoSpec

VARIABLES
  open,      \* "open", "approved", "cancelled"
  answer,    \* per message: ABSENT, PENDING, or how the answer ended
  current,   \* the specification the OWNER is shown
  approved   \* the specification the pipeline executes

vars == <<open, answer, current, approved>>

Turns   == 1..MaxTurns
Ended   == {"COMPLETED", "INTERRUPTED", "FAILED", "CANCELLED"}

Init ==
  /\ open = "open"
  /\ answer = [t \in Turns |-> IF t = 1 THEN "PENDING" ELSE "ABSENT"]
  /\ current = NoSpec
  /\ approved = NoSpec

\* The next message is asked; the one that was still waiting may be dropped.
Ask ==
  /\ open = "open"
  /\ \E t \in Turns, dropped \in SUBSET Turns :
       /\ answer[t] = "ABSENT"
       /\ \A u \in Turns : u < t <=> answer[u] # "ABSENT"
       /\ \A u \in dropped : answer[u] = "PENDING"
       /\ answer' = [u \in Turns |-> CASE u = t        -> "PENDING"
                                       [] u \in dropped -> "INTERRUPTED"
                                       [] OTHER         -> answer[u]]
  /\ UNCHANGED <<open, current, approved>>

\* A pending answer ends, once and for all.
EndAnswer(t, outcome) ==
  /\ answer[t] = "PENDING"
  /\ answer' = [answer EXCEPT ![t] = outcome]
  /\ UNCHANGED <<open, current, approved>>

\* Specifications are proposed only from inside a pending answer.
Propose(s) ==
  /\ open = "open"
  /\ \E t \in Turns : answer[t] = "PENDING"
  /\ current' = s
  /\ UNCHANGED <<open, answer, approved>>

Approve ==
  /\ open = "open"
  /\ current # NoSpec
  /\ \A t \in Turns : answer[t] # "PENDING"
  /\ open' = "approved"
  /\ approved' = current
  /\ UNCHANGED <<answer, current>>

Cancel ==
  /\ open # "cancelled"
  /\ open' = "cancelled"
  /\ \E dropped \in SUBSET Turns :
       /\ \A u \in dropped : answer[u] = "PENDING"
       /\ answer' = [u \in Turns |-> IF u \in dropped THEN "CANCELLED" ELSE answer[u]]
  /\ UNCHANGED <<current, approved>>

Next ==
  \/ Ask \/ Approve \/ Cancel
  \/ \E t \in Turns : \E o \in {"COMPLETED", "INTERRUPTED", "FAILED"} : EndAnswer(t, o)
  \/ \E s \in Specs : Propose(s)

Spec == Init /\ [][Next]_vars
=============================================================================
