--------------------- MODULE GenerationDiscussionProofs ---------------------
(***************************************************************************)
(* Proofs about GenerationDiscussion, for every set of workers, tokens and *)
(* specifications and for every bound.                                     *)
(***************************************************************************)
EXTENDS GenerationDiscussion, TLAPS

-----------------------------------------------------------------------------
(* Types.                                                                   *)

LEMMA TypingInit == Init => TypeOK
BY TurnAssumption, BoundAssumption, NullAssumption
DEF Init, TypeOK, Turns, JobState, TurnStatus, LiveStatus, ActiveStatus, TerminalStatus,
    ReplyStatus, WorkerState, WorkerPc, IdleWorker, Outcomes

\* What a worker becomes is a worker: at another await, thrown, or idle.
LEMMA WorkerTyping ==
  ASSUME TypeOK, NEW w \in Workers
  PROVE  /\ worker[w] \in WorkerState
         /\ worker[w].text \in 0..MaxText
         /\ IdleWorker \in WorkerState
         /\ \A r \in WorkerState : [worker EXCEPT ![w] = r] \in [Workers -> WorkerState]
<1>1. worker[w] \in WorkerState
  BY DEF TypeOK
<1>2. IdleWorker \in WorkerState
  BY TurnAssumption, BoundAssumption DEF IdleWorker, WorkerState, WorkerPc, Outcomes
<1>3. \A r \in WorkerState : [worker EXCEPT ![w] = r] \in [Workers -> WorkerState]
  BY DEF TypeOK
<1>4. worker[w].text \in 0..MaxText
  BY <1>1 DEF WorkerState
<1>5. QED
  BY <1>1, <1>2, <1>3, <1>4

LEMMA IdleTyping ==
  ASSUME TypeOK, NEW w \in Workers, worker' = [worker EXCEPT ![w] = IdleWorker]
  PROVE  worker' \in [Workers -> WorkerState]
BY WorkerTyping

LEMMA FlagTyping ==
  ASSUME TypeOK, NEW w \in Workers,
         \/ worker' = [worker EXCEPT ![w].unresolved = TRUE]
         \/ worker' = [worker EXCEPT ![w].unresolved = FALSE]
         \/ worker' = [worker EXCEPT ![w].leaseLost = TRUE]
         \/ worker' = [worker EXCEPT ![w].steered = TRUE]
  PROVE  worker' \in [Workers -> WorkerState]
<1>0. worker[w] \in WorkerState /\ worker \in [Workers -> WorkerState]
  BY DEF TypeOK
<1>1. CASE worker' = [worker EXCEPT ![w].unresolved = TRUE]
  BY <1>0, <1>1 DEF WorkerState
<1>2. CASE worker' = [worker EXCEPT ![w].unresolved = FALSE]
  BY <1>0, <1>2 DEF WorkerState
<1>3. CASE worker' = [worker EXCEPT ![w].leaseLost = TRUE]
  BY <1>0, <1>3 DEF WorkerState
<1>4. CASE worker' = [worker EXCEPT ![w].steered = TRUE]
  BY <1>0, <1>4 DEF WorkerState
<1>5. QED
  BY <1>1, <1>2, <1>3, <1>4

LEMMA GotoTyping ==
  ASSUME TypeOK, NEW w \in Workers, NEW pc \in WorkerPc, Goto(w, pc)
  PROVE  worker' \in [Workers -> WorkerState]
<1>1. worker[w] \in WorkerState /\ worker \in [Workers -> WorkerState]
  BY DEF TypeOK
<1>2. QED
  BY <1>1 DEF Goto, WorkerState

LEMMA ThrowAfterTyping ==
  ASSUME TypeOK, NEW w \in Workers, NEW n \in 0..MaxText, NEW o \in Outcomes,
         ThrowAfter(w, n, o)
  PROVE  worker' \in [Workers -> WorkerState]
<1>1. worker[w] \in WorkerState /\ IdleWorker \in WorkerState
  BY WorkerTyping
<1>2. QED
  BY <1>1 DEF ThrowAfter, TypeOK, WorkerState, WorkerPc, Outcomes

LEMMA ThrowTyping ==
  ASSUME TypeOK, NEW w \in Workers, NEW o \in Outcomes, Throw(w, o)
  PROVE  worker' \in [Workers -> WorkerState]
BY WorkerTyping, ThrowAfterTyping DEF Throw

\* Advancing the text of an attempt stays below the bound.
LEMMA TextTyping ==
  ASSUME TypeOK, NEW w \in Workers, worker[w].text < MaxText
  PROVE  worker[w].text + 1 \in 0..MaxText
BY WorkerTyping, BoundAssumption

LEMMA FaultTyping == TypeOK /\ Fault => faults' \in 0..MaxFaults
BY BoundAssumption DEF TypeOK, Fault

LEMMA TypingStep == TypeOK /\ [Next]_vars => TypeOK'
<1> SUFFICES ASSUME TypeOK, [Next]_vars PROVE TypeOK'
  OBVIOUS
<1> USE TurnAssumption, BoundAssumption, NullAssumption
    DEF Turns, JobState, TurnStatus, LiveStatus, ActiveStatus, TerminalStatus, ReplyStatus,
        ownerVars, turnVars, replyVars, specVars
<1>1. CASE QueueTurn
  BY SMTT(30), <1>1 DEF QueueTurn, TypeOK, DiscussionOpen
<1>2. ASSUME NEW s \in Specs, Approve(s) PROVE TypeOK'
  BY <1>2 DEF Approve, TypeOK, DiscussionOpen, Approvable
<1>3. CASE Cancel
  BY <1>3 DEF Cancel, TypeOK, CancelledStatus, ClosedReply
<1>4. ASSUME NEW w \in Workers, NEW t \in Turns, Recover(w, t) PROVE TypeOK'
  BY <1>4 DEF Recover, TypeOK, Abandoned, Superseded, ClosedReply
<1>5. ASSUME NEW w \in Workers, NEW t \in Turns, NEW token \in Tokens, Claim(w, t, token)
      PROVE  TypeOK'
  <2>1. [IdleWorker EXCEPT !.pc = "claimed", !.turn = t, !.token = token] \in WorkerState
    <3>1. t \in 0..MaxTurns /\ token \in Tokens \union {NoToken} /\ "claimed" \in WorkerPc
      BY DEF WorkerPc
    <3>2. IdleWorker \in WorkerState
      BY WorkerTyping
    <3>3. QED
      BY <3>1, <3>2 DEF WorkerState
  <2>3. worker' \in [Workers -> WorkerState]
    BY <1>5, <2>1, WorkerTyping DEF Claim, OthersIdle
  <2>2. QED
    BY <1>5, <2>3 DEF Claim, TypeOK, OthersIdle
<1>6. ASSUME NEW w \in Workers, CreateReply(w) PROVE TypeOK'
  <2>1. worker' \in [Workers -> WorkerState]
    BY <1>6, IdleTyping, GotoTyping DEF CreateReply, WorkerPc
  <2>2. QED
    BY <1>6, <2>1 DEF CreateReply, TypeOK
<1>7. ASSUME NEW w \in Workers, MarkStreaming(w) PROVE TypeOK'
  <2>1. worker' \in [Workers -> WorkerState]
    BY <1>7, GotoTyping, ThrowTyping DEF MarkStreaming, WorkerPc, Outcomes, OpenReply
  <2>2. QED
    BY <1>7, <2>1 DEF MarkStreaming, TypeOK, OpenReply
<1>8. ASSUME NEW w \in Workers, CheckFrame(w) PROVE TypeOK'
  <2>1. worker' \in [Workers -> WorkerState]
    BY <1>8, GotoTyping, ThrowTyping DEF CheckFrame, WorkerPc, Outcomes
  <2>2. QED
    BY <1>8, <2>1 DEF CheckFrame, TypeOK
<1>9. ASSUME NEW w \in Workers, PersistDelta(w) PROVE TypeOK'
  <2>1. worker[w].text + 1 \in 0..MaxText
    BY <1>9, TextTyping DEF PersistDelta
  <2>2. worker' \in [Workers -> WorkerState]
    <3>1. [worker EXCEPT ![w].pc = "streaming", ![w].text = worker[w].text + 1]
            \in [Workers -> WorkerState]
      <4>1. worker[w] \in WorkerState /\ worker \in [Workers -> WorkerState]
        BY WorkerTyping DEF TypeOK
      <4>2. QED
        BY <2>1, <4>1 DEF WorkerState, WorkerPc
    <3>2. QED
      BY <1>9, <2>1, <3>1, ThrowAfterTyping DEF PersistDelta, Outcomes
  <2>3. QED
    BY SMTT(30), <1>9, <2>1, <2>2 DEF PersistDelta, TypeOK
<1>10. ASSUME NEW w \in Workers, RejectProposal(w) PROVE TypeOK'
  <2>1. worker' \in [Workers -> WorkerState]
    BY <1>10, FlagTyping DEF RejectProposal
  <2>2. QED
    BY <1>10, <2>1 DEF RejectProposal, TypeOK
<1>11. ASSUME NEW w \in Workers, NEW s \in Specs, SpecAccepted(w, s) PROVE TypeOK'
  <2>1. worker' \in [Workers -> WorkerState]
    BY <1>11, FlagTyping DEF SpecAccepted, Accepting, IsNewest, Recorded
  <2>2. worker[w].turn \in 0..MaxTurns
    BY WorkerTyping DEF WorkerState
  <2>3. /\ revisions' \in Seq(Specs)
        /\ source' \in [Specs -> 0..MaxTurns]
        /\ current' \in Specs \union {NoSpec}
    <3>1. CASE s \notin Proposed /\ revisions' = Append(revisions, s)
               /\ source' = [source EXCEPT ![s] = worker[w].turn] /\ current' = s
      BY <2>2, <3>1 DEF TypeOK
    <3>2. CASE UNCHANGED <<revisions, source>> /\ (current' = s \/ current' = current)
      BY <3>2 DEF TypeOK
    <3>3. QED
      BY <1>11, <3>1, <3>2 DEF SpecAccepted, Accepting, IsNewest, Recorded
  <2>4. QED
    BY <1>11, <2>1, <2>3 DEF SpecAccepted, TypeOK, Accepting, IsNewest, Recorded
<1>12. ASSUME NEW w \in Workers, SpecRefused(w) PROVE TypeOK'
  <2>1. worker' \in [Workers -> WorkerState]
    BY <1>12, FlagTyping, ThrowTyping DEF SpecRefused, Outcomes
  <2>2. QED
    BY <1>12, <2>1 DEF SpecRefused, TypeOK
<1>13. ASSUME NEW w \in Workers, CheckTerminal(w) PROVE TypeOK'
  <2>1. worker' \in [Workers -> WorkerState]
    BY <1>13, GotoTyping, ThrowTyping DEF CheckTerminal, WorkerPc, Outcomes
  <2>2. QED
    BY <1>13, <2>1 DEF CheckTerminal, TypeOK
<1>14. ASSUME NEW w \in Workers, FlushDelta(w) PROVE TypeOK'
  <2>1. worker[w].text + 1 \in 0..MaxText
    BY <1>14, TextTyping DEF FlushDelta
  <2>2. worker' \in [Workers -> WorkerState]
    <3>1. [worker EXCEPT ![w].text = worker[w].text + 1] \in [Workers -> WorkerState]
      <4>1. worker[w] \in WorkerState /\ worker \in [Workers -> WorkerState]
        BY DEF TypeOK
      <4>2. QED
        BY <2>1, <4>1 DEF WorkerState
    <3>2. QED
      BY <1>14, <2>1, <3>1, ThrowAfterTyping DEF FlushDelta, Outcomes
  <2>3. QED
    BY SMTT(30), <1>14, <2>1, <2>2 DEF FlushDelta, TypeOK
<1>15. ASSUME NEW w \in Workers, NEW o \in {"COMPLETED", "INTERRUPTED", "FAILED"}, Finalize(w, o)
       PROVE  TypeOK'
  <2>1. worker' \in [Workers -> WorkerState]
    BY <1>15, WorkerTyping DEF Finalize, OpenReply
  <2>2. worker[w].text \in 0..MaxText
    BY WorkerTyping
  <2>3. /\ status' \in [Turns -> TurnStatus]
        /\ lease' \in [Turns -> Tokens \union {NoToken}]
        /\ expired' \in [Turns -> BOOLEAN]
    BY <1>15 DEF Finalize, TypeOK, OpenReply
  <2>4. reply' \in [Turns -> ReplyStatus] /\ text' \in [Turns -> 0..MaxText]
    <3>1. CASE UNCHANGED replyVars
      BY <3>1 DEF TypeOK
    <3>2. CASE /\ reply' = [reply EXCEPT ![worker[w].turn] = o]
               /\ text' = [text EXCEPT ![worker[w].turn] = worker[w].text]
      BY <2>2, <3>2 DEF TypeOK
    <3>3. QED
      BY <1>15, <3>1, <3>2 DEF Finalize, OpenReply
  <2>5. QED
    BY <1>15, <2>1, <2>3, <2>4 DEF Finalize, TypeOK, OpenReply
<1>16. ASSUME NEW w \in Workers, Heartbeat(w) PROVE TypeOK'
  <2>1. worker' \in [Workers -> WorkerState]
    BY <1>16, FlagTyping DEF Heartbeat
  <2>2. QED
    BY <1>16, <2>1 DEF Heartbeat, TypeOK
<1>17. ASSUME NEW w \in Workers, ProviderError(w) PROVE TypeOK'
  <2>1. worker' \in [Workers -> WorkerState]
    BY <1>17, ThrowTyping DEF ProviderError, Outcomes
  <2>2. QED
    BY <1>17, <2>1 DEF ProviderError, TypeOK
<1>18. ASSUME NEW w \in Workers, Crash(w) PROVE TypeOK'
  BY <1>18, WorkerTyping, FaultTyping DEF Crash, TypeOK
<1>19. ASSUME NEW w \in Workers, FinalWriteFails(w) PROVE TypeOK'
  <2>1. worker' \in [Workers -> WorkerState]
    BY <1>19, WorkerTyping, ThrowTyping DEF FinalWriteFails, Outcomes
  <2>2. QED
    BY <1>19, <2>1, FaultTyping DEF FinalWriteFails, TypeOK
<1>20. ASSUME NEW w \in Workers, Stall(w) PROVE TypeOK'
  BY <1>20, FaultTyping DEF Stall, TypeOK
<1>21. ASSUME NEW t \in Turns, LeaseExpires(t) PROVE TypeOK'
  BY <1>21 DEF LeaseExpires, TypeOK
<1>22. CASE UNCHANGED vars
  BY <1>22 DEF vars, TypeOK
<1>23. ASSUME NEW w \in Workers, Complete(w) \/ End(w) PROVE TypeOK'
  <2>1. worker[w].outcome \in {"COMPLETED", "INTERRUPTED", "FAILED"}
    BY WorkerTyping DEF WorkerState, Outcomes
  <2>2. QED
    BY <1>15, <1>23, <2>1 DEF Complete, End
<1>24. QED
  BY <1>1, <1>2, <1>3, <1>4, <1>5, <1>6, <1>7, <1>8, <1>9, <1>10, <1>11, <1>12, <1>13,
     <1>14, <1>16, <1>17, <1>18, <1>19, <1>20, <1>21, <1>22, <1>23
  DEF Next, Owner, Poll, Attempt, Progress, Environment

\* Every reachable state is well typed.
THEOREM TypeCorrect == Spec => []TypeOK
<1>1. Init => TypeOK
  BY TypingInit
<1>2. TypeOK /\ [Next]_vars => TypeOK'
  BY TypingStep
<1>3. QED
  BY <1>1, <1>2, PTL DEF Spec

-----------------------------------------------------------------------------
(* The shape of a step: which steps move a turn, and what a step may do to a *)
(* worker.                                                                   *)

Ends(w) == \E o \in {"COMPLETED", "INTERRUPTED", "FAILED"} :
             worker[w].pc \in {"finishing", "ending"} /\ Finalize(w, o)

LEMMA StepKinds ==
  ASSUME TypeOK, [Next]_vars
  PROVE  \/ QueueTurn \/ Cancel
         \/ \E s \in Specs : Approve(s)
         \/ \E w \in Workers, t \in Turns : Recover(w, t)
         \/ \E w \in Workers, t \in Turns, token \in Tokens : Claim(w, t, token)
         \/ \E w \in Workers, s \in Specs : SpecAccepted(w, s)
         \/ \E w \in Workers : Ends(w)
         \/ UNCHANGED <<ownerVars, status, lease, specVars>>
<1> USE DEF ownerVars, turnVars, replyVars, specVars
<1>1. ASSUME NEW w \in Workers, Attempt(w)
      PROVE  \/ \E s \in Specs : SpecAccepted(w, s)
             \/ Ends(w)
             \/ UNCHANGED <<ownerVars, status, lease, specVars>>
  <2>1. CASE Complete(w) \/ End(w)
    <3>1. worker[w].outcome \in {"INTERRUPTED", "FAILED"}
      BY WorkerTyping DEF WorkerState, Outcomes
    <3>2. QED
      BY <2>1, <3>1 DEF Complete, End, Ends
  <2>2. CASE CreateReply(w) \/ MarkStreaming(w) \/ CheckTerminal(w) \/ PersistDelta(w)
             \/ ProviderError(w) \/ CheckFrame(w) \/ RejectProposal(w) \/ SpecRefused(w)
             \/ FlushDelta(w) \/ Heartbeat(w)
    BY <2>2 DEF CreateReply, MarkStreaming, CheckTerminal, PersistDelta, ProviderError, CheckFrame,
                RejectProposal, SpecRefused, FlushDelta, Heartbeat, OpenReply
  <2>3. QED
    BY <1>1, <2>1, <2>2 DEF Attempt, Progress
<1>2. CASE Environment
  BY <1>2 DEF Environment, Crash, FinalWriteFails, Stall, LeaseExpires
<1>3. CASE UNCHANGED vars
  BY <1>3 DEF vars
<1>4. QED
  BY <1>1, <1>2, <1>3 DEF Next, Owner, Poll

\* A worker that does not claim a turn keeps its turn and token, or drops both;
\* it leaves the first await only when the turn has its message.
KeepsAttempt(v) ==
  \/ worker'[v] = worker[v]
  \/ worker'[v] = IdleWorker
  \/ /\ worker[v].pc # "idle" /\ worker'[v].pc # "idle"
     /\ worker'[v].turn = worker[v].turn /\ worker'[v].token = worker[v].token
     /\ worker[v].pc = "claimed" =>
          worker'[v].pc = "claimed" \/ reply'[worker[v].turn] # "ABSENT"

LEMMA ThrowKeepsAttempt ==
  ASSUME TypeOK, NEW w \in Workers, worker[w].pc \notin {"idle", "claimed"}, NEW n, NEW o, ThrowAfter(w, n, o)
  PROVE  \A v \in Workers : KeepsAttempt(v)
<1>1. worker[w] \in WorkerState /\ worker \in [Workers -> WorkerState]
  BY WorkerTyping DEF TypeOK
<1>2. QED
  BY <1>1 DEF ThrowAfter, KeepsAttempt, WorkerState

LEMMA FieldKeepsAttempt ==
  ASSUME TypeOK, NEW w \in Workers, worker[w].pc # "idle",
         \/ /\ \E pc \in WorkerPc \ {"idle"} : Goto(w, pc)
            /\ worker[w].pc = "claimed" => reply'[worker[w].turn] # "ABSENT"
         \/ \E n : worker' = [worker EXCEPT ![w].text = n]
         \/ /\ \E n : worker' = [worker EXCEPT ![w].pc = "streaming", ![w].text = n]
            /\ worker[w].pc = "frame"
         \/ worker' = [worker EXCEPT ![w].unresolved = TRUE]
         \/ worker' = [worker EXCEPT ![w].unresolved = FALSE]
         \/ worker' = [worker EXCEPT ![w].leaseLost = TRUE]
         \/ worker' = [worker EXCEPT ![w].steered = TRUE]
         \/ worker' = [worker EXCEPT ![w] = IdleWorker]
  PROVE  \A v \in Workers : KeepsAttempt(v)
<1>1. worker[w] \in WorkerState /\ worker \in [Workers -> WorkerState]
  BY WorkerTyping DEF TypeOK
<1>2. QED
  BY <1>1 DEF Goto, KeepsAttempt, WorkerState

LEMMA AttemptKept ==
  ASSUME TypeOK, [Next]_vars,
         ~\E w \in Workers, t \in Turns, token \in Tokens : Claim(w, t, token)
  PROVE  \A v \in Workers : KeepsAttempt(v)
<1> DEFINE Kept == \A v \in Workers : KeepsAttempt(v)
<1>1. ASSUME NEW w \in Workers, Attempt(w) PROVE Kept
  <2>0. CASE CreateReply(w)
    <3>1. worker[w].turn \in Turns \/ worker[w].turn = 0
      BY WorkerTyping DEF WorkerState, Turns
    <3>2. LeaseValid(w) => worker[w].turn \in Turns
      BY <3>1 DEF LeaseValid, OwnsLease
    <3>4. CASE Goto(w, "created") /\ reply'[worker[w].turn] # "ABSENT"
      BY <2>0, <3>4, FieldKeepsAttempt DEF CreateReply, WorkerPc
    <3>5. CASE worker' = [worker EXCEPT ![w] = IdleWorker]
      BY <2>0, <3>5, FieldKeepsAttempt DEF CreateReply
    <3>6. QED
      BY <2>0, <3>2, <3>4, <3>5 DEF CreateReply, TypeOK, replyVars
  <2>1. CASE MarkStreaming(w) \/ CheckFrame(w) \/ CheckTerminal(w)
    BY <2>1, ThrowKeepsAttempt, FieldKeepsAttempt
    DEF MarkStreaming, CheckFrame, CheckTerminal, Throw, WorkerPc, OpenReply
  <2>2. CASE PersistDelta(w) \/ FlushDelta(w)
    BY <2>2, ThrowKeepsAttempt, FieldKeepsAttempt DEF PersistDelta, FlushDelta
  <2>3. CASE RejectProposal(w) \/ SpecRefused(w) \/ \E s \in Specs : SpecAccepted(w, s)
    BY <2>3, ThrowKeepsAttempt, FieldKeepsAttempt
    DEF RejectProposal, SpecRefused, SpecAccepted, Throw, Accepting, IsNewest, Recorded
  <2>4. CASE Complete(w) \/ End(w) \/ Heartbeat(w) \/ ProviderError(w)
    BY <2>4, ThrowKeepsAttempt, FieldKeepsAttempt
    DEF Complete, End, Finalize, Heartbeat, ProviderError, Throw, OpenReply
  <2>5. QED
    BY <1>1, <2>0, <2>1, <2>2, <2>3, <2>4 DEF Attempt, Progress
<1>2. CASE Owner
  BY <1>2 DEF Owner, QueueTurn, Approve, Cancel, KeepsAttempt, DiscussionOpen, Approvable, CancelledStatus, ClosedReply
<1>3. CASE \E w \in Workers : Crash(w) \/ FinalWriteFails(w)
  BY <1>3, ThrowKeepsAttempt, FieldKeepsAttempt DEF Crash, FinalWriteFails, Throw
<1>4. CASE \/ \E w \in Workers : Stall(w)
           \/ \E t \in Turns : LeaseExpires(t)
           \/ \E w \in Workers, t \in Turns : Recover(w, t)
           \/ UNCHANGED vars
  BY <1>4 DEF Stall, LeaseExpires, Recover, vars, KeepsAttempt, Abandoned, Superseded, ClosedReply
<1>5. QED
  BY <1>1, <1>2, <1>3, <1>4 DEF Next, Poll, Environment

-----------------------------------------------------------------------------
(* The invariant, part by part.                                              *)

LEMMA InitInv == Init => DiscussionInv
<1> SUFFICES ASSUME Init PROVE DiscussionInv
  OBVIOUS
<1>1. TypeOK
  BY TypingInit
<1>2. AskedInOrder /\ SingleActive /\ NewestMessageWins
  BY TurnAssumption DEF Init, AskedInOrder, SingleActive, NewestMessageWins, Active, ActiveStatus, Turns
<1>3. TokensFence
  BY DEF Init, TokensFence, IdleWorker, Active, ActiveStatus
<1>4. RepliesAreOpen /\ ReplyTellsOutcome
  BY DEF Init, RepliesAreOpen, ReplyTellsOutcome, IdleWorker
<1>5. ApprovalIsRepresentative
  BY DEF Init, ApprovalIsRepresentative
<1>6. QED
  BY <1>1, <1>2, <1>3, <1>4, <1>5 DEF DiscussionInv

LEMMA AskedInOrderStep == DiscussionInv /\ [Next]_vars => AskedInOrder'
<1> SUFFICES ASSUME DiscussionInv, [Next]_vars PROVE AskedInOrder'
  OBVIOUS
<1> USE DEF AskedInOrder, Turns, ownerVars, turnVars, replyVars, specVars
<1>0. TypeOK /\ AskedInOrder /\ asked \in Turns /\ status \in [Turns -> TurnStatus]
  BY DEF DiscussionInv, TypeOK
<1>1. CASE QueueTurn
  BY <1>0, <1>1, TurnAssumption DEF QueueTurn, DiscussionOpen
<1>2. CASE Cancel
  BY <1>0, <1>2 DEF Cancel, Active, ActiveStatus, CancelledStatus, ClosedReply
<1>3. ASSUME NEW w \in Workers, NEW t \in Turns, Recover(w, t) PROVE AskedInOrder'
  BY <1>0, <1>3 DEF Recover, Active, ActiveStatus, Abandoned, Superseded, ClosedReply
<1>4. ASSUME NEW w \in Workers, NEW t \in Turns, NEW k \in Tokens, Claim(w, t, k)
      PROVE  AskedInOrder'
  BY <1>0, <1>4 DEF Claim, OthersIdle
<1>5. ASSUME NEW w \in Workers, Ends(w) PROVE AskedInOrder'
  BY <1>0, <1>5 DEF Ends, Finalize, OwnsLease, Active, ActiveStatus, OpenReply
<1>6. CASE UNCHANGED <<asked, status>>
  BY <1>0, <1>6
<1>7. QED
  BY <1>0, <1>1, <1>2, <1>3, <1>4, <1>5, <1>6, StepKinds DEF Approve, SpecAccepted, DiscussionOpen, Approvable, Accepting, IsNewest, Recorded

LEMMA SingleActiveStep == DiscussionInv /\ [Next]_vars => SingleActive'
<1> SUFFICES ASSUME DiscussionInv, [Next]_vars PROVE SingleActive'
  OBVIOUS
<1> USE DEF SingleActive, Active, ActiveStatus, ownerVars, turnVars, replyVars, specVars
<1>0. TypeOK /\ SingleActive /\ status \in [Turns -> TurnStatus]
  BY DEF DiscussionInv, TypeOK
<1>1. CASE QueueTurn
  BY <1>0, <1>1 DEF QueueTurn, DiscussionOpen
<1>2. CASE Cancel
  BY <1>0, <1>2 DEF Cancel, CancelledStatus, ClosedReply
<1>3. ASSUME NEW w \in Workers, NEW t \in Turns, Recover(w, t) PROVE SingleActive'
  BY <1>0, <1>3 DEF Recover, Abandoned, Superseded, ClosedReply
<1>4. ASSUME NEW w \in Workers, NEW t \in Turns, NEW k \in Tokens, Claim(w, t, k)
      PROVE  SingleActive'
  BY <1>0, <1>4 DEF Claim, OthersIdle
<1>5. ASSUME NEW w \in Workers, Ends(w) PROVE SingleActive'
  BY <1>0, <1>5 DEF Ends, Finalize, OpenReply
<1>6. CASE UNCHANGED status
  BY <1>0, <1>6
<1>7. QED
  BY <1>0, <1>1, <1>2, <1>3, <1>4, <1>5, <1>6, StepKinds DEF Approve, SpecAccepted, DiscussionOpen, Approvable, Accepting, IsNewest, Recorded

LEMMA NewestMessageWinsStep == DiscussionInv /\ [Next]_vars => NewestMessageWins'
<1> SUFFICES ASSUME DiscussionInv, [Next]_vars PROVE NewestMessageWins'
  OBVIOUS
<1> USE DEF NewestMessageWins, ownerVars, turnVars, replyVars, specVars
<1>0. /\ TypeOK /\ SingleActive /\ AskedInOrder /\ NewestMessageWins
      /\ asked \in Turns /\ status \in [Turns -> TurnStatus]
  BY DEF DiscussionInv, TypeOK
<1>1. CASE QueueTurn
  BY <1>0, <1>1, TurnAssumption DEF QueueTurn, AskedInOrder, Turns, DiscussionOpen
<1>2. CASE Cancel
  BY <1>0, <1>2 DEF Cancel, Active, ActiveStatus, CancelledStatus, ClosedReply
<1>3. ASSUME NEW w \in Workers, NEW t \in Turns, Recover(w, t) PROVE NewestMessageWins'
  BY <1>0, <1>3 DEF Recover, Active, ActiveStatus, SingleActive, Abandoned, Superseded, ClosedReply
<1>4. ASSUME NEW w \in Workers, NEW t \in Turns, NEW k \in Tokens, Claim(w, t, k)
      PROVE  NewestMessageWins'
  BY <1>0, <1>4 DEF Claim, Active, ActiveStatus, OthersIdle
<1>5. ASSUME NEW w \in Workers, Ends(w) PROVE NewestMessageWins'
  BY <1>0, <1>5 DEF Ends, Finalize, OwnsLease, Active, ActiveStatus, OpenReply
<1>6. ASSUME NEW s \in Specs, Approve(s) PROVE NewestMessageWins'
  BY <1>0, <1>6 DEF Approve, Live, LiveStatus, ActiveStatus, DiscussionOpen, Approvable
<1>7. CASE UNCHANGED <<job, asked, status>>
  BY <1>0, <1>7
<1>8. QED
  BY <1>0, <1>1, <1>2, <1>3, <1>4, <1>5, <1>6, <1>7, StepKinds DEF SpecAccepted, Accepting, IsNewest, Recorded

\* The turn that the next message gets does not exist yet.
LEMMA NextIsNew ==
  ASSUME DiscussionInv
  PROVE  \A u \in Turns : u = asked + 1 => status[u] = "ABSENT"
BY DEF AskedInOrder, DiscussionInv, TypeOK, Turns

\* Only a claim gives a token away, and it draws one that is not in use.
LEMMA TokensFenceStep == DiscussionInv /\ [Next]_vars => TokensFence'
<1> SUFFICES ASSUME DiscussionInv, [Next]_vars PROVE TokensFence'
  OBVIOUS
<1> USE NullAssumption DEF TokensFence, ownerVars, turnVars, replyVars, specVars
<1>0. /\ TypeOK /\ TokensFence
      /\ status \in [Turns -> TurnStatus] /\ lease \in [Turns -> Tokens \union {NoToken}]
      /\ worker \in [Workers -> WorkerState]
  BY DEF DiscussionInv, TypeOK
<1>1. ASSUME NEW w \in Workers, NEW t \in Turns, NEW k \in Tokens, Claim(w, t, k)
      PROVE  TokensFence'
  <2>1. /\ worker'[w].pc = "claimed" /\ worker'[w].turn = t /\ worker'[w].token = k
        /\ \A v \in Workers \ {w} : worker'[v] = worker[v]
    BY <1>0, <1>1 DEF Claim, IdleWorker, OthersIdle
  <2>2. /\ \A v \in Workers : worker[v].token # k
        /\ k # NoToken /\ t # 0
    BY <1>1 DEF Claim, TokensInUse, Turns, OthersIdle
  <2>3. (\A u \in Turns : Active(u) <=> lease[u] # NoToken)'
    BY <1>0, <1>1, <2>2 DEF Claim, Active, ActiveStatus, OthersIdle
  <2>4. QED
    BY <1>0, <2>1, <2>2, <2>3
<1>2. ASSUME \A v \in Workers : KeepsAttempt(v)
      PROVE  /\ \A w \in Workers : worker'[w].pc = "idle" <=> worker'[w].token = NoToken
             /\ \A w \in Workers : worker'[w].pc = "idle" <=> worker'[w].turn = 0
             /\ \A w, v \in Workers :
                  worker'[w].token = worker'[v].token => w = v \/ worker'[w].pc = "idle"
  BY <1>0, <1>2 DEF KeepsAttempt, IdleWorker
<1>3. ASSUME ~\E w \in Workers, t \in Turns, k \in Tokens : Claim(w, t, k)
      PROVE  (\A u \in Turns : Active(u) <=> lease[u] # NoToken)'
  <2> USE DEF Active, ActiveStatus
  <2>1. CASE QueueTurn
    BY <1>0, <2>1, NextIsNew DEF QueueTurn, DiscussionOpen
  <2>2. CASE Cancel
    BY <1>0, <2>2 DEF Cancel, CancelledStatus, ClosedReply
  <2>3. ASSUME NEW w \in Workers, NEW t \in Turns, Recover(w, t)
        PROVE  (\A u \in Turns : Active(u) <=> lease[u] # NoToken)'
    BY <1>0, <2>3 DEF Recover, Abandoned, Superseded, ClosedReply
  <2>4. ASSUME NEW w \in Workers, Ends(w)
        PROVE  (\A u \in Turns : Active(u) <=> lease[u] # NoToken)'
    BY <1>0, <2>4 DEF Ends, Finalize, OpenReply
  <2>5. CASE UNCHANGED <<status, lease>>
    BY <1>0, <2>5
  <2>6. QED
    BY <1>0, <1>3, <2>1, <2>2, <2>3, <2>4, <2>5, StepKinds DEF Approve, SpecAccepted, DiscussionOpen, Approvable, Accepting, IsNewest, Recorded
<1>4. QED
  BY <1>0, <1>1, <1>2, <1>3, AttemptKept

\* What a step may do to a message.
LEMMA ReplyKinds ==
  ASSUME TypeOK, [Next]_vars
  PROVE  \/ Cancel
         \/ \E w \in Workers, t \in Turns : Recover(w, t)
         \/ \E w \in Workers : Ends(w)
         \/ UNCHANGED reply
         \/ /\ status' = status
            /\ \E t \in Turns : /\ Active(t) /\ reply[t] \in {"ABSENT", "STREAMING", "INTERRUPTED"}
                               /\ reply' = [reply EXCEPT ![t] = "STREAMING"]
<1> USE DEF ownerVars, turnVars, replyVars, specVars
<1>1. ASSUME NEW w \in Workers, CreateReply(w) \/ MarkStreaming(w)
      PROVE  \/ UNCHANGED reply
             \/ /\ status' = status
                /\ \E t \in Turns : /\ Active(t) /\ reply[t] \in {"ABSENT", "STREAMING", "INTERRUPTED"}
                                   /\ reply' = [reply EXCEPT ![t] = "STREAMING"]
  <2>1. LeaseValid(w) => worker[w].turn \in Turns /\ Active(worker[w].turn)
    BY WorkerTyping DEF LeaseValid, OwnsLease, WorkerState, Turns
  <2>2. QED
    BY <1>1, <2>1 DEF CreateReply, MarkStreaming, OpenReply
<1>2. ASSUME NEW w \in Workers, Complete(w) \/ End(w) PROVE Ends(w)
  BY <1>2, WorkerTyping DEF Complete, End, Ends, WorkerState, Outcomes
<1>3. ASSUME NEW w \in Workers,
             \/ CheckFrame(w) \/ PersistDelta(w) \/ RejectProposal(w) \/ SpecRefused(w)
             \/ (\E s \in Specs : SpecAccepted(w, s)) \/ CheckTerminal(w) \/ FlushDelta(w)
             \/ Heartbeat(w) \/ ProviderError(w)
             \/ \E t \in Turns, k \in Tokens : Claim(w, t, k)
      PROVE  UNCHANGED reply
  BY <1>3 DEF CheckFrame, PersistDelta, RejectProposal, SpecRefused, SpecAccepted, CheckTerminal,
              FlushDelta, Heartbeat, ProviderError, Claim, Accepting, IsNewest, Recorded, OthersIdle
<1>4. CASE Environment \/ QueueTurn \/ (\E s \in Specs : Approve(s)) \/ UNCHANGED vars
  BY <1>4 DEF Environment, Crash, FinalWriteFails, Stall, LeaseExpires, QueueTurn, Approve, vars, DiscussionOpen, Approvable
<1>5. QED
  BY <1>1, <1>2, <1>3, <1>4 DEF Next, Owner, Poll, Attempt, Progress

\* A worker that ends its turn: the turn was active, and the write finds its message.
LEMMA EndsWrites ==
  ASSUME DiscussionInv, NEW w \in Workers, NEW o \in {"COMPLETED", "INTERRUPTED", "FAILED"},
         worker[w].pc \in {"finishing", "ending"}, Finalize(w, o)
  PROVE  \/ UNCHANGED <<status, reply>>
         \/ \E t \in Turns : /\ Active(t)
                            /\ status' = [status EXCEPT ![t] = o]
                            /\ reply' = [reply EXCEPT ![t] = o]
<1>1. worker[w].turn \in 0..MaxTurns
  BY WorkerTyping DEF DiscussionInv, WorkerState
<1>2. CASE ~OwnsLease(w)
  BY <1>2 DEF Finalize, turnVars, replyVars, OpenReply
<1>3. CASE OwnsLease(w)
  <2>1. worker[w].turn \in Turns /\ Active(worker[w].turn)
    BY <1>1, <1>3 DEF OwnsLease, Turns
  <2>2. reply[worker[w].turn] \in {"STREAMING", "INTERRUPTED"}
    BY <2>1 DEF DiscussionInv, RepliesAreOpen, Live, LiveStatus, Active
  <2>3. QED
    BY <1>3, <2>1, <2>2 DEF Finalize, OpenReply
<1>4. QED
  BY <1>2, <1>3

LEMMA RepliesAreOpenStep == DiscussionInv /\ [Next]_vars => RepliesAreOpen'
<1> SUFFICES ASSUME DiscussionInv, [Next]_vars PROVE RepliesAreOpen'
  OBVIOUS
<1> DEFINE Open   == \A t \in Turns : Live(t) => reply[t] \in {"ABSENT", "STREAMING", "INTERRUPTED"}
           Stays  == \A t \in Turns : reply[t] # "ABSENT" => reply'[t] # "ABSENT"
<1> USE DEF Live, LiveStatus, Active, ActiveStatus, ownerVars, turnVars, replyVars, specVars
<1>0. /\ TypeOK /\ TokensFence /\ RepliesAreOpen /\ ReplyTellsOutcome /\ AskedInOrder
      /\ status \in [Turns -> TurnStatus] /\ reply \in [Turns -> ReplyStatus]
      /\ worker \in [Workers -> WorkerState]
  BY DEF DiscussionInv, TypeOK
<1>1. Open
  BY <1>0 DEF RepliesAreOpen
<1>2. \A t \in Turns : status[t] = "ABSENT" => reply[t] \in {"ABSENT", "STREAMING", "INTERRUPTED"}
  BY <1>0 DEF ReplyTellsOutcome, ReplyStatus
<1>3. ASSUME NEW w \in Workers, NEW t \in Turns, Recover(w, t) PROVE Open' /\ Stays
  BY <1>0, <1>1, <1>3 DEF Recover, Abandoned, Superseded, ClosedReply
<1>4. ASSUME Cancel PROVE Open' /\ Stays
  BY <1>0, <1>1, <1>4 DEF Cancel, CancelledStatus, ClosedReply
<1>5. ASSUME NEW w \in Workers, Ends(w) PROVE Open' /\ Stays
  BY <1>0, <1>1, <1>5, EndsWrites DEF Ends
<1>6. ASSUME status' = status, NEW t \in Turns, reply' = [reply EXCEPT ![t] = "STREAMING"]
      PROVE  Open' /\ Stays
  BY <1>0, <1>1, <1>6
<1>7. ASSUME UNCHANGED reply PROVE Open' /\ Stays
  <2>1. ASSUME QueueTurn PROVE Open' /\ Stays
    BY <1>0, <1>1, <1>2, <1>7, <2>1, NextIsNew DEF QueueTurn, DiscussionOpen
  <2>2. ASSUME NEW w \in Workers, NEW t \in Turns, NEW k \in Tokens, Claim(w, t, k)
        PROVE  Open' /\ Stays
    BY <1>0, <1>1, <1>7, <2>2 DEF Claim, OthersIdle
  <2>3. ASSUME UNCHANGED status PROVE Open' /\ Stays
    BY <1>0, <1>1, <1>7, <2>3
  <2>4. QED
    BY <1>0, <1>3, <1>4, <1>5, <2>1, <2>2, <2>3, StepKinds DEF Approve, SpecAccepted, DiscussionOpen, Approvable, Accepting, IsNewest, Recorded
<1>8. Open' /\ Stays
  BY <1>0, <1>3, <1>4, <1>5, <1>6, <1>7, ReplyKinds
<1>9. ASSUME NEW v \in Workers PROVE
        worker'[v].pc \notin {"idle", "claimed"} => reply'[worker'[v].turn] # "ABSENT"
  <2>1. CASE KeepsAttempt(v)
    <3>1. worker[v].pc # "idle" => worker[v].turn \in Turns
      BY <1>0 DEF TokensFence, WorkerState, Turns
    <3>2. QED
      BY <1>0, <1>8, <2>1, <3>1 DEF KeepsAttempt, RepliesAreOpen, IdleWorker
  <2>2. ASSUME NEW w \in Workers, NEW t \in Turns, NEW k \in Tokens, Claim(w, t, k)
        PROVE  worker'[v].pc \notin {"idle", "claimed"} => reply'[worker'[v].turn] # "ABSENT"
    BY <1>0, <2>2 DEF Claim, RepliesAreOpen, IdleWorker, OthersIdle
  <2>3. QED
    BY <1>0, <2>1, <2>2, AttemptKept
<1>10. QED
  BY <1>8, <1>9 DEF RepliesAreOpen

LEMMA ReplyTellsOutcomeStep == DiscussionInv /\ [Next]_vars => ReplyTellsOutcome'
<1> SUFFICES ASSUME DiscussionInv, [Next]_vars PROVE ReplyTellsOutcome'
  OBVIOUS
<1> USE DEF ReplyTellsOutcome, Active, ActiveStatus, ownerVars, turnVars, replyVars, specVars
<1>0. /\ TypeOK /\ ReplyTellsOutcome
      /\ status \in [Turns -> TurnStatus] /\ reply \in [Turns -> ReplyStatus]
  BY DEF DiscussionInv, TypeOK
<1>1. \A t \in Turns : Live(t) => reply[t] \in {"ABSENT", "STREAMING", "INTERRUPTED"}
  BY DEF DiscussionInv, RepliesAreOpen
<1>2. ASSUME NEW w \in Workers, NEW t \in Turns, Recover(w, t) PROVE ReplyTellsOutcome'
  BY <1>0, <1>1, <1>2 DEF Recover, Abandoned, Superseded, ClosedReply
<1>3. CASE Cancel
  BY <1>0, <1>1, <1>3 DEF Cancel, CancelledStatus, ClosedReply
<1>4. ASSUME NEW w \in Workers, Ends(w) PROVE ReplyTellsOutcome'
  BY <1>0, <1>1, <1>4, EndsWrites DEF Ends
<1>5. ASSUME status' = status, NEW t \in Turns, Active(t), reply' = [reply EXCEPT ![t] = "STREAMING"]
      PROVE  ReplyTellsOutcome'
  BY <1>0, <1>1, <1>5
<1>6. CASE UNCHANGED reply
  <2>1. CASE QueueTurn
    BY <1>0, <1>1, <1>6, <2>1, NextIsNew DEF QueueTurn, DiscussionOpen
  <2>2. ASSUME NEW w \in Workers, NEW t \in Turns, NEW k \in Tokens, Claim(w, t, k)
        PROVE  ReplyTellsOutcome'
    BY <1>0, <1>1, <1>6, <2>2 DEF Claim, OthersIdle
  <2>3. CASE UNCHANGED status
    BY <1>0, <1>1, <1>6, <2>3
  <2>4. QED
    BY <1>0, <1>2, <1>3, <1>4, <2>1, <2>2, <2>3, StepKinds DEF Approve, SpecAccepted, DiscussionOpen, Approvable, Accepting, IsNewest, Recorded
<1>7. QED
  BY <1>0, <1>2, <1>3, <1>4, <1>5, <1>6, ReplyKinds

\* In a discussion that the approval closed, no turn is left.
LEMMA ApprovedIsQuiet ==
  ASSUME DiscussionInv, job = "ANALYZING"
  PROVE  \A t \in Turns : ~Live(t)
BY DEF DiscussionInv, NewestMessageWins, Live, LiveStatus, ActiveStatus, TypeOK

LEMMA ApprovalStep == DiscussionInv /\ [Next]_vars => ApprovalIsRepresentative'
<1> SUFFICES ASSUME DiscussionInv, [Next]_vars PROVE ApprovalIsRepresentative'
  OBVIOUS
<1> USE DEF ApprovalIsRepresentative, OwnerInputRepresented, Active, ActiveStatus,
            ownerVars, turnVars, replyVars, specVars
<1>0. /\ TypeOK /\ ApprovalIsRepresentative /\ status \in [Turns -> TurnStatus]
  BY DEF DiscussionInv, TypeOK
<1>1. ASSUME NEW s \in Specs, Approve(s) PROVE ApprovalIsRepresentative'
  BY <1>1 DEF Approve, DiscussionOpen, Approvable
<1>2. CASE QueueTurn
  BY <1>2 DEF QueueTurn, DiscussionOpen
<1>3. CASE Cancel
  BY <1>0, <1>3 DEF Cancel, CancelledStatus, ClosedReply
<1>4. ASSUME NEW w \in Workers, NEW t \in Turns, Recover(w, t) PROVE ApprovalIsRepresentative'
  BY <1>0, <1>4 DEF Recover, Abandoned, Superseded, ClosedReply
<1>5. ASSUME NEW w \in Workers, NEW t \in Turns, NEW k \in Tokens, Claim(w, t, k)
      PROVE  ApprovalIsRepresentative'
  BY <1>0, <1>5 DEF Claim, OthersIdle
<1>6. ASSUME NEW w \in Workers, NEW s \in Specs, SpecAccepted(w, s)
      PROVE  ApprovalIsRepresentative'
  BY <1>0, <1>6 DEF SpecAccepted, Accepting, IsNewest, Recorded
<1>7. ASSUME NEW w \in Workers, Ends(w) PROVE ApprovalIsRepresentative'
  BY <1>0, <1>7 DEF Ends, Finalize, OwnsLease, OpenReply
<1>8. CASE UNCHANGED <<ownerVars, status, specVars>>
  BY <1>0, <1>8
<1>9. QED
  BY <1>0, <1>1, <1>2, <1>3, <1>4, <1>5, <1>6, <1>7, <1>8, StepKinds

\* The inductive invariant holds in every reachable state.
THEOREM Invariance == Spec => []DiscussionInv
<1>1. Init => DiscussionInv
  BY InitInv
<1>2. DiscussionInv /\ [Next]_vars => DiscussionInv'
  <2> SUFFICES ASSUME DiscussionInv, [Next]_vars PROVE DiscussionInv'
    OBVIOUS
  <2>1. TypeOK'
    BY TypingStep DEF DiscussionInv
  <2>2. QED
    BY <2>1, AskedInOrderStep, SingleActiveStep, NewestMessageWinsStep, TokensFenceStep,
       RepliesAreOpenStep, ReplyTellsOutcomeStep, ApprovalStep DEF DiscussionInv
<1>3. QED
  BY <1>1, <1>2, PTL DEF Spec

-----------------------------------------------------------------------------
(* What the OWNER can rely on.                                               *)

\* Whatever crashes, stalls or steers happen, one turn is active and at most one
\* worker passes the lease check.
THEOREM SingleWriterHolds == Spec => []SingleWriter
<1>1. DiscussionInv => SingleWriter
  <2> SUFFICES ASSUME DiscussionInv PROVE SingleWriter
    OBVIOUS
  <2>1. SingleActive /\ TokensFence /\ TypeOK
    BY DEF DiscussionInv
  <2>2. ASSUME NEW w \in Workers, NEW v \in Workers, OwnsLease(w), OwnsLease(v) PROVE w = v
    <3>1. worker[w].turn \in Turns /\ worker[v].turn \in Turns
      BY <2>1, <2>2, WorkerTyping DEF OwnsLease, WorkerState, Turns
    <3>2. worker[w].turn = worker[v].turn
      BY <2>1, <2>2, <3>1 DEF OwnsLease, SingleActive
    <3>3. worker[w].token = worker[v].token
      BY <2>2, <3>2 DEF OwnsLease
    <3>4. worker[w].pc # "idle"
      BY <2>1, <2>2 DEF OwnsLease, TokensFence
    <3>5. QED
      BY <2>1, <3>3, <3>4 DEF TokensFence
  <2>3. QED
    BY <2>1, <2>2 DEF SingleWriter
<1>2. QED
  BY <1>1, Invariance, PTL

\* Only the newest message is queued or answered; a steered turn has a successor.
THEOREM NewestMessageWinsHolds == Spec => []NewestMessageWins
<1>1. DiscussionInv => NewestMessageWins
  BY DEF DiscussionInv
<1>2. QED
  BY <1>1, Invariance, PTL

\* A reply is complete, or failed, exactly when its turn is.
THEOREM ReplyTellsOutcomeHolds == Spec => []ReplyTellsOutcome
<1>1. DiscussionInv => ReplyTellsOutcome
  BY DEF DiscussionInv
<1>2. QED
  BY <1>1, Invariance, PTL

\* What was approved is what the OWNER sees, without open questions, and answers
\* every message the OWNER wrote before approving.
THEOREM ApprovalIsRepresentativeHolds == Spec => []ApprovalIsRepresentative
<1>1. DiscussionInv => ApprovalIsRepresentative
  BY DEF DiscussionInv
<1>2. QED
  BY <1>1, Invariance, PTL

\* After the approval no message, revision or pointer changes.
THEOREM ApprovalFreezesHolds == Spec => ApprovalFreezes
<1>1. DiscussionInv /\ [Next]_vars => (approved # NoSpec => UNCHANGED <<asked, specVars>>)
  <2> SUFFICES ASSUME DiscussionInv, [Next]_vars, approved # NoSpec
               PROVE  UNCHANGED <<asked, specVars>>
    OBVIOUS
  <2>1. job # "DISCUSSING" /\ TypeOK
    BY DEF DiscussionInv, ApprovalIsRepresentative
  <2>2. QED
    BY <2>1, StepKinds DEF QueueTurn, Cancel, Approve, Recover, Claim, SpecAccepted, Ends, Finalize,
                           ownerVars, specVars, DiscussionOpen, CancelledStatus, ClosedReply, Approvable, Abandoned, Superseded, OthersIdle, Accepting, IsNewest, Recorded, OpenReply
<1>2. QED
  BY <1>1, Invariance, PTL DEF Spec, ApprovalFreezes

LEMMA EndedTurnStep ==
  ASSUME DiscussionInv, [Next]_vars, NEW t \in Turns, status[t] \in TerminalStatus
  PROVE  /\ status'[t] = status[t] /\ text'[t] = text[t]
         /\ reply'[t] = reply[t] \/ reply[t] = "STREAMING"
<1> USE DEF TerminalStatus, Active, ActiveStatus, ownerVars, turnVars, replyVars, specVars
<1>0. /\ TypeOK /\ status \in [Turns -> TurnStatus] /\ reply \in [Turns -> ReplyStatus]
      /\ text \in [Turns -> 0..MaxText] /\ status[t] # "ABSENT" /\ ~Active(t)
  BY DEF DiscussionInv, TypeOK
<1>1. status'[t] = status[t]
  <2>1. CASE QueueTurn
    BY <1>0, <2>1, NextIsNew DEF QueueTurn, DiscussionOpen
  <2>2. CASE Cancel
    BY <1>0, <2>2 DEF Cancel, CancelledStatus, ClosedReply
  <2>3. ASSUME NEW w \in Workers, NEW u \in Turns, Recover(w, u) PROVE status'[t] = status[t]
    BY <1>0, <2>3 DEF Recover, Abandoned, Superseded, ClosedReply
  <2>4. ASSUME NEW w \in Workers, NEW u \in Turns, NEW k \in Tokens, Claim(w, u, k)
        PROVE  status'[t] = status[t]
    BY <1>0, <2>4 DEF Claim, OthersIdle
  <2>5. ASSUME NEW w \in Workers, Ends(w) PROVE status'[t] = status[t]
    BY <1>0, <2>5, EndsWrites DEF Ends
  <2>6. QED
    BY <1>0, <2>1, <2>2, <2>3, <2>4, <2>5, StepKinds DEF Approve, SpecAccepted, DiscussionOpen, Approvable, Accepting, IsNewest, Recorded
<1>2. reply'[t] = reply[t] \/ reply[t] = "STREAMING"
  <2>1. CASE Cancel
    BY <1>0, <2>1 DEF Cancel, CancelledStatus, ClosedReply
  <2>2. ASSUME NEW w \in Workers, NEW u \in Turns, Recover(w, u)
        PROVE  reply'[t] = reply[t] \/ reply[t] = "STREAMING"
    BY <1>0, <2>2 DEF Recover, Abandoned, Superseded, ClosedReply
  <2>3. ASSUME NEW w \in Workers, Ends(w) PROVE reply'[t] = reply[t]
    BY <1>0, <2>3, EndsWrites DEF Ends
  <2>4. QED
    BY <1>0, <2>1, <2>2, <2>3, ReplyKinds
<1>3. text'[t] = text[t]
  <2>1. ASSUME NEW w \in Workers, PersistDelta(w) \/ FlushDelta(w) \/ Complete(w) \/ End(w)
        PROVE  text'[t] = text[t]
    <3>1. OwnsLease(w) => worker[w].turn # t
      BY <1>0 DEF OwnsLease
    <3>2. QED
      BY <1>0, <2>1, <3>1 DEF PersistDelta, FlushDelta, Complete, End, Finalize, LeaseValid, OpenReply
  <2>2. ASSUME NEW w \in Workers,
               \/ CreateReply(w) \/ MarkStreaming(w) \/ CheckFrame(w) \/ RejectProposal(w)
               \/ (\E s \in Specs : SpecAccepted(w, s)) \/ SpecRefused(w) \/ CheckTerminal(w)
               \/ Heartbeat(w) \/ ProviderError(w)
               \/ \E u \in Turns : Recover(w, u) \/ \E k \in Tokens : Claim(w, u, k)
        PROVE  text' = text
    BY <2>2 DEF CreateReply, MarkStreaming, CheckFrame, RejectProposal, SpecAccepted, SpecRefused,
                CheckTerminal, Heartbeat, ProviderError, Recover, Claim, OpenReply, Accepting, IsNewest, Recorded, Abandoned, Superseded, ClosedReply, OthersIdle
  <2>3. CASE Environment \/ Owner \/ UNCHANGED vars
    BY <2>3 DEF Environment, Crash, FinalWriteFails, Stall, LeaseExpires,
                Owner, QueueTurn, Approve, Cancel, vars, DiscussionOpen, Approvable, CancelledStatus, ClosedReply
  <2>4. QED
    BY <2>1, <2>2, <2>3 DEF Next, Poll, Attempt, Progress
<1>4. QED
  BY <1>1, <1>2, <1>3

\* What an ended turn wrote stays as it is, whichever stale worker comes back.
THEOREM EndedTurnsAreFinalHolds == Spec => EndedTurnsAreFinal
<1>1. DiscussionInv /\ [Next]_vars =>
        \A t \in Turns : status[t] \in TerminalStatus =>
          /\ status'[t] = status[t] /\ text'[t] = text[t]
          /\ reply'[t] = reply[t] \/ reply[t] = "STREAMING"
  BY EndedTurnStep
<1>2. QED
  BY <1>1, Invariance, PTL DEF Spec, EndedTurnsAreFinal

-----------------------------------------------------------------------------
(* The revision log.                                                         *)

LEMMA RevisionAppended ==
  ASSUME TypeOK, NEW s \in Specs, revisions' = Append(revisions, s)
  PROVE  /\ Len(revisions') = Len(revisions) + 1
         /\ \A i \in 1..Len(revisions) : revisions'[i] = revisions[i]
         /\ revisions'[Len(revisions) + 1] = s
         /\ Proposed' = Proposed \union {s}
         /\ revisions' # <<>>
<1>1. revisions \in Seq(Specs) /\ Len(revisions) \in Nat
  BY DEF TypeOK
<1>2. /\ Len(revisions') = Len(revisions) + 1
      /\ \A i \in 1..Len(revisions) : revisions'[i] = revisions[i]
      /\ revisions'[Len(revisions) + 1] = s
  BY <1>1
<1>3. Proposed' = Proposed \union {s}
  BY <1>1, <1>2 DEF Proposed
<1>4. QED
  BY <1>1, <1>2, <1>3

LEMMA RevisionLogStep == DiscussionInv /\ RevisionLogSound /\ [Next]_vars => RevisionLogSound'
<1> SUFFICES ASSUME DiscussionInv, RevisionLogSound, [Next]_vars PROVE RevisionLogSound'
  OBVIOUS
<1> USE DEF ownerVars, turnVars, replyVars, specVars
<1>0. /\ TypeOK /\ asked \in Turns /\ revisions \in Seq(Specs) /\ Len(revisions) \in Nat
      /\ source \in [Specs -> 0..MaxTurns]
  BY DEF DiscussionInv, TypeOK
<1>1. CASE UNCHANGED <<revisions, source, current>> /\ (asked' = asked \/ asked' = asked + 1)
  BY <1>0, <1>1 DEF RevisionLogSound, Proposed, Turns
<1>2. ASSUME NEW w \in Workers, NEW s \in Specs, SpecAccepted(w, s) PROVE RevisionLogSound'
  <2>1. worker[w].turn \in 1..asked
    <3>1. worker[w].turn \in Turns /\ Active(worker[w].turn)
      BY <1>0, <1>2, WorkerTyping DEF SpecAccepted, LeaseValid, OwnsLease, WorkerState, Turns, Accepting, IsNewest, Recorded
    <3>2. QED
      BY <1>0, <3>1 DEF DiscussionInv, AskedInOrder, Active, ActiveStatus, Turns
  <2>2. CASE UNCHANGED <<revisions, source, current>>
    BY <1>1, <1>2, <2>2 DEF SpecAccepted, Accepting, IsNewest, Recorded
  <2>3. CASE s \in Proposed /\ current' = s /\ UNCHANGED <<revisions, source>>
    <3>1. revisions # <<>>
      BY <2>3 DEF Proposed
    <3>2. QED
      BY <1>0, <1>2, <2>3, <3>1, NullAssumption DEF RevisionLogSound, Proposed, SpecAccepted, Accepting, IsNewest, Recorded
  <2>4. CASE /\ s \notin Proposed
             /\ revisions' = Append(revisions, s)
             /\ source' = [source EXCEPT ![s] = worker[w].turn]
             /\ current' = s
    <3>1. /\ Len(revisions') = Len(revisions) + 1
          /\ \A i \in 1..Len(revisions) : revisions'[i] = revisions[i]
          /\ revisions'[Len(revisions) + 1] = s
          /\ Proposed' = Proposed \union {s} /\ revisions' # <<>>
      BY <1>0, <2>4, RevisionAppended
    <3>2. \A i \in 1..Len(revisions) : revisions[i] # s
      BY <2>4 DEF Proposed
    <3>3. \A i, j \in 1..Len(revisions') : revisions'[i] = revisions'[j] => i = j
      BY SMTT(30), <1>0, <3>1, <3>2 DEF RevisionLogSound
    <3>4. \A c \in Specs : IF c \in Proposed' THEN source'[c] \in 1..asked ELSE source'[c] = 0
      BY <1>0, <2>1, <2>4, <3>1 DEF RevisionLogSound
    <3>5. asked' = asked /\ current' \in Proposed' /\ current' # NoSpec
      BY <1>2, <2>4, <3>1, NullAssumption DEF SpecAccepted, Accepting, IsNewest, Recorded
    <3>6. QED
      BY <3>1, <3>3, <3>4, <3>5 DEF RevisionLogSound
  <2>5. QED
    BY <1>2, <2>2, <2>3, <2>4 DEF SpecAccepted, Accepting, IsNewest, Recorded
<1>3. QED
  BY <1>1, <1>2, <1>0, StepKinds DEF QueueTurn, Cancel, Approve, Recover, Claim, Ends, Finalize, DiscussionOpen, CancelledStatus, ClosedReply, Approvable, Abandoned, Superseded, OthersIdle, OpenReply

\* The revision log has no repeated content and the current pointer is in it.
THEOREM RevisionLogSoundHolds == Spec => []RevisionLogSound
<1>1. Init => RevisionLogSound
  BY DEF Init, RevisionLogSound, Proposed
<1>2. QED
  BY <1>1, RevisionLogStep, Invariance, PTL DEF Spec

-----------------------------------------------------------------------------
(* Refinement.                                                               *)

\* Every step of the discussion is a step of its contract, or none.
LEMMA ContractStep ==
  ASSUME DiscussionInv, [Next]_vars
  PROVE  Contract!Next \/ UNCHANGED Contract!vars
<1> DEFINE dropped == {t \in Turns : status[t] = "QUEUED"}
<1> USE DEF Active, ActiveStatus, Contract!Turns, ownerVars, turnVars, replyVars, specVars
<1>0. /\ TypeOK /\ job \in JobState /\ status \in [Turns -> TurnStatus] /\ AskedInOrder
      /\ asked \in Turns
  BY DEF DiscussionInv, TypeOK
<1>a. \A t \in Turns : Answer[t] = IF Live(t) THEN "PENDING" ELSE status[t]
  BY DEF Answer
<1>b. dropped \in SUBSET Turns /\ \A u \in dropped : Answer[u] = "PENDING"
  BY <1>a DEF Live, LiveStatus
<1>1. CASE QueueTurn
  <2>1. asked + 1 \in Turns /\ Openness = "open" /\ UNCHANGED <<Openness, current, approved>>
    BY <1>0, <1>1, TurnAssumption DEF QueueTurn, Turns, Openness, DiscussionOpen
  <2>2. Answer[asked + 1] = "ABSENT"
    BY <1>0, <1>a, <2>1, NextIsNew DEF Live, LiveStatus
  <2>3. \A u \in Turns : u < asked + 1 <=> Answer[u] # "ABSENT"
    BY <1>0, <1>a DEF AskedInOrder, Turns, Live, LiveStatus
  <2>4. Answer' = [u \in Turns |-> CASE u = asked + 1 -> "PENDING"
                                      [] u \in dropped -> "INTERRUPTED"
                                      [] OTHER         -> Answer[u]]
    BY <1>0, <1>1, <2>1 DEF QueueTurn, Answer, Live, LiveStatus, DiscussionOpen
  <2>5. Contract!Ask
    <3> DEFINE k == asked + 1
    <3> HIDE DEF k, dropped
    <3>1. /\ k \in Turns /\ Answer[k] = "ABSENT" /\ \A u \in Turns : u < k <=> Answer[u] # "ABSENT"
          /\ Answer' = [u \in Turns |-> CASE u = k       -> "PENDING"
                                            [] u \in dropped -> "INTERRUPTED"
                                            [] OTHER         -> Answer[u]]
      BY <2>1, <2>2, <2>3, <2>4 DEF k
    <3>2. QED
      BY <1>b, <2>1, <3>1, Zenon DEF Contract!Ask, Turns
  <2>6. QED
    BY <2>5 DEF Contract!Next
<1>2. CASE Cancel
  <2>1. Openness # "cancelled" /\ Openness' = "cancelled" /\ UNCHANGED <<current, approved>>
    BY <1>0, <1>2 DEF Cancel, JobState, Openness, CancelledStatus, ClosedReply
  <2>2. Answer' = [u \in Turns |-> IF u \in dropped THEN "CANCELLED" ELSE Answer[u]]
    BY <1>0, <1>2 DEF Cancel, Answer, Live, LiveStatus, CancelledStatus, ClosedReply
  <2>3. Contract!Cancel
    <3> HIDE DEF dropped
    <3> QED
      BY <1>b, <2>1, <2>2, Zenon DEF Contract!Cancel, Turns
  <2>4. QED
    BY <2>3 DEF Contract!Next
<1>3. ASSUME NEW s \in Specs, Approve(s) PROVE Contract!Approve
  <2>1. Openness = "open" /\ Openness' = "approved" /\ Answer' = Answer
    BY <1>3 DEF Approve, Openness, Answer, Live, DiscussionOpen, Approvable
  <2>2. \A t \in Turns : Answer[t] # "PENDING"
    BY <1>0, <1>3, <1>a DEF Approve, TurnStatus, LiveStatus, TerminalStatus, DiscussionOpen, Approvable
  <2>3. current = s /\ current # NoSpec /\ approved' = current /\ current' = current
    BY <1>3, NullAssumption DEF Approve, DiscussionOpen, Approvable
  <2>4. QED
    BY <2>1, <2>2, <2>3 DEF Contract!Approve, Turns
<1>4. ASSUME NEW t \in Turns, NEW o \in {"COMPLETED", "INTERRUPTED", "FAILED"},
             Active(t), status' = [status EXCEPT ![t] = o], UNCHANGED <<job, current, approved>>
      PROVE  Contract!EndAnswer(t, o)
  BY <1>0, <1>4 DEF Contract!EndAnswer, Answer, Openness, Live, LiveStatus
<1>5. ASSUME NEW w \in Workers, NEW t \in Turns, Recover(w, t)
      PROVE  Contract!EndAnswer(t, "INTERRUPTED") \/ UNCHANGED Contract!vars
  <2>1. CASE status' = [status EXCEPT ![t] = "INTERRUPTED"]
    BY <1>4, <1>5, <2>1 DEF Recover, Abandoned, Superseded, ClosedReply
  <2>2. CASE status' = [status EXCEPT ![t] = "QUEUED"]
    BY <1>0, <1>5, <2>2 DEF Recover, Contract!vars, Answer, Openness, Live, LiveStatus, Abandoned, Superseded, ClosedReply
  <2>3. QED
    BY <1>5, <2>1, <2>2 DEF Recover, Abandoned, Superseded, ClosedReply
<1>6. ASSUME NEW w \in Workers, NEW t \in Turns, NEW k \in Tokens, Claim(w, t, k)
      PROVE  UNCHANGED Contract!vars
  BY <1>0, <1>6 DEF Claim, Contract!vars, Answer, Openness, Live, LiveStatus, OthersIdle
<1>7. ASSUME NEW w \in Workers, NEW s \in Specs, SpecAccepted(w, s)
      PROVE  Contract!Propose(s) \/ UNCHANGED Contract!vars
  <2>1. worker[w].turn \in Turns /\ Active(worker[w].turn)
    BY <1>0, <1>7, WorkerTyping DEF SpecAccepted, LeaseValid, OwnsLease, WorkerState, Turns, Accepting, IsNewest, Recorded
  <2>2. Answer[worker[w].turn] = "PENDING" /\ Openness = "open" /\ UNCHANGED <<Openness, Answer, approved>>
    BY <1>a, <1>7, <2>1 DEF SpecAccepted, Openness, Answer, Live, LiveStatus, Accepting, IsNewest, Recorded
  <2>3. current' = s \/ current' = current
    BY <1>7 DEF SpecAccepted, Accepting, IsNewest, Recorded
  <2>4. QED
    BY <2>1, <2>2, <2>3 DEF Contract!Propose, Contract!vars, Turns
<1>8. ASSUME NEW w \in Workers, Ends(w)
      PROVE  \/ \E t \in Turns, o \in {"COMPLETED", "INTERRUPTED", "FAILED"} : Contract!EndAnswer(t, o)
             \/ UNCHANGED Contract!vars
  <2>1. UNCHANGED <<job, current, approved>>
    BY <1>8 DEF Ends, Finalize, OpenReply
  <2>2. CASE UNCHANGED status
    BY <2>1, <2>2 DEF Contract!vars, Answer, Openness, Live
  <2>3. QED
    BY <1>4, <1>8, <2>1, <2>2, EndsWrites DEF Ends
<1>9. CASE UNCHANGED <<ownerVars, status, lease, specVars>>
  BY <1>9 DEF Contract!vars, Answer, Openness, Live
<1>10. QED
  BY <1>0, <1>1, <1>2, <1>3, <1>5, <1>6, <1>7, <1>8, <1>9, StepKinds DEF Contract!Next, Turns

\* The leased, crash-prone discussion implements the promises of the contract.
THEOREM ContractKept == Spec => KeepsContract
<1>1. Init => Contract!Init
  BY TurnAssumption DEF Init, Contract!Init, Contract!Turns, Turns, Answer, Openness, Live, LiveStatus, ActiveStatus
<1>2. DiscussionInv /\ [Next]_vars => [Contract!Next]_(Contract!vars)
  BY ContractStep
<1>3. QED
  BY <1>1, <1>2, Invariance, PTL DEF Spec, KeepsContract, Contract!Spec
=============================================================================
