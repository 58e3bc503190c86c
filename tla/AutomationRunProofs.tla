------------------------ MODULE AutomationRunProofs ------------------------
(***************************************************************************)
(* Proofs about AutomationRun, for every set of workers, runs and tokens,  *)
(* every manifest and every number of faults.                              *)
(***************************************************************************)
EXTENDS AutomationRun, TLAPS

-----------------------------------------------------------------------------
(* Types.                                                                   *)

\* The manifest is a non-empty sequence of step kinds.
LEMMA StepsTyping == Len(Steps) \in Nat /\ Len(Steps) > 0 /\ 1 \in 1..Len(Steps) + 1
BY StepsAssumption

\* The state a worker returns to is one of its states.
LEMMA IdleTyping == IdleWorker \in WorkerState
BY StepsTyping DEF IdleWorker, WorkerState, Outcomes, TerminalStatus

\* The empty database is well typed.
LEMMA TypingInit == Init => TypeOK
BY IdleTyping, FaultAssumption
DEF Init, TypeOK, RunStatus, TerminalStatus, NoEvidence, Outcomes, StepIndex

\* Whatever the site has counted is a table of numbers.
LEMMA SiteTyping ==
  ASSUME TypeOK, NEW w \in Workers, worker[w].pc # "idle" => worker[w].run \in Runs
  PROVE  worker[w].pc # "idle" /\ Mutating(w) => Performed(w) \in [Runs -> [StepIndex -> Nat]]
BY DEF TypeOK, Performed, Mutating

\* A busy worker has a run and a lease token.
LEMMA BusyHasRun ==
  ASSUME TypeOK, TokensFence, NEW w \in Workers, worker[w].pc # "idle"
  PROVE  /\ worker[w].run \in Runs
         /\ worker[w].token \in Tokens
<1>1. worker[w] \in WorkerState
  BY DEF TypeOK
<1>2. QED
  BY <1>1, NullAssumption DEF TokensFence, WorkerState

\* No step of a caller, a worker or a fault leaves the types.
LEMMA TypingStep == TypeOK /\ TokensFence /\ [Next]_vars => TypeOK'
<1> SUFFICES ASSUME TypeOK, TokensFence, [Next]_vars PROVE TypeOK'
  OBVIOUS
<1>1. ASSUME NEW r \in Runs, Create(r) PROVE TypeOK'
  BY <1>1 DEF Create, TypeOK, RunStatus
<1>2. ASSUME NEW r \in Runs, RequestCancel(r) PROVE TypeOK'
  BY <1>2 DEF RequestCancel, TypeOK, RunStatus, TerminalStatus
<1>3. ASSUME NEW r \in Runs, LeaseExpires(r) PROVE TypeOK'
  BY <1>3 DEF LeaseExpires, TypeOK
<1>4. ASSUME NEW w \in Workers, NEW r \in Runs, NEW t \in Tokens, Claim(w, r, t) PROVE TypeOK'
  <2>1. [IdleWorker EXCEPT !.pc = "running", !.run = r, !.token = t] \in WorkerState
    BY IdleTyping DEF WorkerState
  <2>2. worker' \in [Workers -> WorkerState]
    BY <1>4, <2>1 DEF Claim, LeaseToken, TypeOK
  <2>3. QED
    BY <1>4, <2>2 DEF Claim, LeaseToken, TypeOK, RunStatus
<1>5. ASSUME NEW w \in Workers, TimerCheck(w) PROVE TypeOK'
  <2>1. worker[w] \in WorkerState
    BY DEF TypeOK
  <2>2. worker' \in [Workers -> WorkerState]
    BY <1>5, <2>1 DEF TimerCheck, TypeOK, WorkerState
  <2>3. QED
    BY <1>5, <2>2 DEF TimerCheck, TypeOK, runVars
<1>6. ASSUME NEW w \in Workers, TimerRenew(w) PROVE TypeOK'
  <2>1. worker[w] \in WorkerState /\ worker \in [Workers -> WorkerState]
    BY DEF TypeOK
  <2>2. worker' \in [Workers -> WorkerState]
    <3>1. [worker EXCEPT ![w].checked = FALSE] \in [Workers -> WorkerState]
      BY <2>1 DEF WorkerState
    <3>2. [worker EXCEPT ![w].checked = FALSE, ![w].abort = "lost"] \in [Workers -> WorkerState]
      BY <2>1 DEF WorkerState
    <3>3. QED
      BY <1>6, <3>1, <3>2 DEF TimerRenew
  <2>3. QED
    BY <1>6, <2>2 DEF TimerRenew, TypeOK
<1>7. ASSUME NEW w \in Workers, Attempt(w) PROVE TypeOK'
  <2>0. worker[w] \in WorkerState /\ worker \in [Workers -> WorkerState]
    BY DEF TypeOK
  <2>1. CASE StepSucceeds(w)
    <3>1. worker[w].step + 1 \in 1..Len(Steps) + 1
      BY <2>0, <2>1, StepsTyping DEF StepSucceeds, AllStepsDone, WorkerState
    <3>2. worker' \in [Workers -> WorkerState]
      BY <2>0, <2>1, <3>1 DEF StepSucceeds, WorkerState
    <3>3. performed' \in [Runs -> [StepIndex -> Nat]]
      BY <2>1, BusyHasRun, SiteTyping DEF StepSucceeds, TypeOK
    <3>4. QED
      BY <2>1, <3>2, <3>3 DEF StepSucceeds, TypeOK, runVars
  <2>2. CASE StepFails(w)
    <3>1. worker' \in [Workers -> WorkerState]
      BY SMTT(30), <2>0, <2>2 DEF StepFails, WorkerState
    <3>2. performed' \in [Runs -> [StepIndex -> Nat]]
      BY <2>2, BusyHasRun, SiteTyping DEF StepFails, TypeOK
    <3>3. QED
      BY <2>2, <3>1, <3>2 DEF StepFails, TypeOK, runVars
  <2>3. CASE StepAborted(w)
    <3>1. worker[w].abort \in {"cancelled", "lost"} /\ BrokenOff(worker[w].abort) \in {"cancelled", "uncertain"}
      BY <2>0, <2>3 DEF StepAborted, WorkerState, BrokenOff
    <3>2. worker' \in [Workers -> WorkerState]
      <4>1. \A e \in {"cancelled", "lost"} :
              [worker EXCEPT ![w].pc = "caught", ![w].error = e] \in [Workers -> WorkerState]
        BY <2>0 DEF WorkerState
      <4>2. \A e \in {"cancelled", "uncertain"} :
              [worker EXCEPT ![w].pc = "caught", ![w].doubt = TRUE, ![w].error = e]
                \in [Workers -> WorkerState]
        BY <2>0 DEF WorkerState
      <4>3. CASE worker' = [worker EXCEPT ![w].pc = "caught", ![w].error = worker[w].abort]
        BY <3>1, <4>1, <4>3
      <4>4. CASE worker' = [worker EXCEPT ![w].pc = "caught", ![w].doubt = TRUE,
                                          ![w].error = BrokenOff(worker[w].abort)]
        BY <3>1, <4>2, <4>4
      <4>5. QED
        BY <2>3, <4>3, <4>4 DEF StepAborted
    <3>3. performed' \in [Runs -> [StepIndex -> Nat]]
      BY <2>3, BusyHasRun, SiteTyping DEF StepAborted, TypeOK
    <3>4. QED
      BY <2>3, <3>2, <3>3 DEF StepAborted, TypeOK, runVars
  <2>4. CASE Decide(w)
    <3>1. \A c : FinalStatus(worker[w].error, c) \in Outcomes
      BY DEF FinalStatus, Outcomes, TerminalStatus
    <3>2. worker' \in [Workers -> WorkerState]
      BY <2>0, <2>4, <3>1 DEF Decide, WorkerState
    <3>3. QED
      BY <2>4, <3>2 DEF Decide, TypeOK, runVars
  <2>5. CASE WriteEvidence(w)
    <3>1. worker' \in [Workers -> WorkerState]
      BY <2>0, <2>5 DEF WriteEvidence, WorkerState
    <3>2. [by |-> worker[w].token, outcome |-> worker[w].outcome]
            \in [by : Tokens \union {NoToken}, outcome : Outcomes]
      BY <2>0 DEF WorkerState
    <3>3. QED
      BY <2>5, <3>1, <3>2 DEF WriteEvidence, TypeOK, runVars
  <2>6. CASE Finalize(w)
    <3>1. worker' \in [Workers -> WorkerState]
      BY <2>0, <2>6, IdleTyping DEF Finalize
    <3>2. worker[w].outcome \in RunStatus
      BY <2>0 DEF WorkerState, RunStatus, Outcomes
    <3>3. QED
      BY <2>6, <3>1, <3>2 DEF Finalize, TypeOK
  <2>7. QED
    BY <1>7, <2>1, <2>2, <2>3, <2>4, <2>5, <2>6 DEF Attempt
<1>8. ASSUME NEW w \in Workers, Crash(w) PROVE TypeOK'
  <2>1. worker' \in [Workers -> WorkerState]
    BY <1>8, IdleTyping DEF Crash, TypeOK
  <2>2. performed' \in [Runs -> [StepIndex -> Nat]]
    BY <1>8, BusyHasRun, SiteTyping DEF Crash, TypeOK
  <2>3. QED
    BY <1>8, <2>1, <2>2, FaultAssumption DEF Crash, Fault, TypeOK, runVars
<1>9. ASSUME NEW w \in Workers, FinalWriteFails(w) PROVE TypeOK'
  <2>1. worker[w] \in WorkerState /\ worker \in [Workers -> WorkerState]
    BY DEF TypeOK
  <2>2. worker' \in [Workers -> WorkerState]
    BY <1>9, <2>1 DEF FinalWriteFails, WorkerState
  <2>3. QED
    BY <1>9, <2>2, FaultAssumption DEF FinalWriteFails, Fault, TypeOK, runVars
<1>10. ASSUME NEW w \in Workers, Stall(w) PROVE TypeOK'
  <2>1. expired' \in [Runs -> BOOLEAN]
    BY <1>10 DEF Stall, TypeOK
  <2>2. faults' \in 0..MaxFaults
    BY <1>10, FaultAssumption DEF Stall, Fault, TypeOK
  <2>3. QED
    BY <1>10, <2>1, <2>2 DEF Stall, TypeOK
<1>11. CASE UNCHANGED vars
  BY <1>11 DEF vars, TypeOK
<1>12. QED
  BY <1>1, <1>2, <1>3, <1>4, <1>5, <1>6, <1>7, <1>8, <1>9, <1>10, <1>11
  DEF Next, Poll, Timer

-----------------------------------------------------------------------------
(* Fencing.                                                                 *)

\* A step that only moves worker w on keeps everybody's run and token.
KeepsPlaces(w) ==
  \A v \in Workers : /\ v # w => worker'[v] = worker[v]
                     /\ worker'[v].token = worker[v].token
                     /\ worker'[v].run = worker[v].run
                     /\ worker'[v].pc = "idle" <=> worker[v].pc = "idle"

Moves(w) == \/ TimerCheck(w) \/ TimerRenew(w) \/ StepSucceeds(w) \/ StepFails(w)
            \/ StepAborted(w) \/ Decide(w) \/ WriteEvidence(w) \/ FinalWriteFails(w)

\* What a worker does between claim and final write keeps its run and its token.
LEMMA MovesKeepPlaces ==
  ASSUME TypeOK, TokensFence, NEW w \in Workers, Moves(w) PROVE KeepsPlaces(w)
<1>0. worker[w] \in WorkerState /\ worker \in [Workers -> WorkerState]
  BY DEF TypeOK
<1>1. CASE TimerCheck(w)
  BY <1>0, <1>1 DEF TimerCheck, KeepsPlaces, WorkerState
<1>2. CASE TimerRenew(w)
  BY <1>0, <1>2 DEF TimerRenew, KeepsPlaces, WorkerState
<1>3. CASE StepSucceeds(w)
  BY <1>0, <1>3 DEF StepSucceeds, KeepsPlaces, WorkerState
<1>4. CASE StepFails(w)
  BY <1>0, <1>4 DEF StepFails, KeepsPlaces, WorkerState
<1>5. CASE StepAborted(w)
  BY <1>0, <1>5 DEF StepAborted, KeepsPlaces, WorkerState
<1>6. CASE Decide(w)
  BY <1>0, <1>6 DEF Decide, KeepsPlaces, WorkerState
<1>7. CASE WriteEvidence(w)
  BY <1>0, <1>7 DEF WriteEvidence, KeepsPlaces, WorkerState
<1>8. CASE FinalWriteFails(w)
  BY <1>0, <1>8 DEF FinalWriteFails, KeepsPlaces, WorkerState
<1>9. QED
  BY <1>1, <1>2, <1>3, <1>4, <1>5, <1>6, <1>7, <1>8 DEF Moves

\* Tokens stay distinct: a claim draws one that nobody uses.
LEMMA FencingStep == TypeOK /\ TokensFence /\ [Next]_vars => TokensFence'
<1> SUFFICES ASSUME TypeOK, TokensFence, [Next]_vars PROVE TokensFence'
  OBVIOUS
<1>1. ASSUME NEW w \in Workers, Moves(w) PROVE TokensFence'
  <2>1. KeepsPlaces(w)
    BY <1>1, MovesKeepPlaces
  <2>2. QED
    BY <2>1 DEF KeepsPlaces, TokensFence
<1>2. ASSUME NEW w \in Workers, worker' = [worker EXCEPT ![w] = IdleWorker] PROVE TokensFence'
  <2>1. /\ worker'[w] = IdleWorker
        /\ \A v \in Workers : v # w => worker'[v] = worker[v]
    BY <1>2 DEF TypeOK
  <2>2. IdleWorker.pc = "idle" /\ IdleWorker.token = NoToken /\ IdleWorker.run = NoRun
    BY DEF IdleWorker
  <2>3. QED
    BY <2>1, <2>2 DEF TokensFence
<1>3. ASSUME NEW w \in Workers, NEW r \in Runs, NEW t \in Tokens, Claim(w, r, t)
      PROVE  TokensFence'
  <2>1. /\ worker'[w].pc = "running" /\ worker'[w].token = t /\ worker'[w].run = r
        /\ \A v \in Workers : v # w => worker'[v] = worker[v]
    BY <1>3 DEF Claim, LeaseToken, TypeOK, IdleWorker
  <2>2. \A v \in Workers : worker[v].token # t
    BY <1>3 DEF Claim, TokensInUse
  <2>3. t # NoToken /\ r # NoRun
    BY NullAssumption
  <2>4. QED
    BY <2>1, <2>2, <2>3 DEF TokensFence
<1>4. CASE UNCHANGED worker
  BY <1>4 DEF TokensFence
<1>5. QED
  <2>1. \A w \in Workers : Crash(w) \/ Finalize(w) => worker' = [worker EXCEPT ![w] = IdleWorker]
    BY DEF Crash, Finalize
  <2>2. \A w \in Workers : Stall(w) => UNCHANGED worker
    BY DEF Stall
  <2>3. \A r \in Runs : Create(r) \/ RequestCancel(r) \/ LeaseExpires(r) => UNCHANGED worker
    BY DEF Create, RequestCancel, LeaseExpires
  <2>4. UNCHANGED vars => UNCHANGED worker
    BY DEF vars
  <2>5. QED
    BY <1>1, <1>2, <1>3, <1>4, <2>1, <2>2, <2>3, <2>4 DEF Next, Poll, Attempt, Timer, Moves

\* Owning a run is never given back: what v owns after a step of others it owned
\* before.
LEMMA OwnershipOnlyLost ==
  ASSUME TypeOK, TokensFence, [Next]_vars, NEW v \in Workers, worker'[v] = worker[v], OwnsRun(v)'
  PROVE  OwnsRun(v)
<1>0. /\ worker[v].pc # "idle" /\ worker[v].run \in Runs
      /\ token'[worker[v].run] = worker[v].token
      /\ status'[worker[v].run] \in {"RUNNING", "CANCEL_REQUESTED"}
  BY BusyHasRun DEF OwnsRun, HoldsToken
<1>1. ASSUME NEW r \in Runs, Create(r) PROVE OwnsRun(v)
  BY <1>0, <1>1 DEF Create, OwnsRun, HoldsToken, TypeOK
<1>2. ASSUME NEW r \in Runs, RequestCancel(r) PROVE OwnsRun(v)
  BY <1>0, <1>2 DEF RequestCancel, OwnsRun, HoldsToken, TypeOK
<1>3. ASSUME NEW w \in Workers, NEW r \in Runs, NEW t \in Tokens, Claim(w, r, t) PROVE OwnsRun(v)
  <2>1. worker[v].token # t
    BY <1>3 DEF Claim, TokensInUse
  <2>2. QED
    BY <1>0, <1>3, <2>1 DEF Claim, LeaseToken, OwnsRun, HoldsToken, TypeOK
<1>4. ASSUME NEW w \in Workers, Finalize(w) PROVE OwnsRun(v)
  <2>1. worker[w].outcome \in Outcomes
    BY DEF TypeOK, WorkerState
  <2>2. QED
    BY <1>0, <1>4, <2>1
    DEF Finalize, MayFinalize, OwnsRun, HoldsToken, TypeOK, Outcomes, TerminalStatus
<1>5. CASE UNCHANGED <<status, token>>
  BY <1>0, <1>5 DEF OwnsRun, HoldsToken
<1>6. QED
  <2>1. \A w \in Workers : Moves(w) \/ Crash(w) \/ Stall(w) => UNCHANGED <<status, token>>
    BY DEF Moves, Crash, Stall, TimerCheck, TimerRenew, StepSucceeds, StepFails, StepAborted, Decide,
           WriteEvidence, FinalWriteFails, runVars
  <2>2. \A r \in Runs : LeaseExpires(r) => UNCHANGED <<status, token>>
    BY DEF LeaseExpires
  <2>3. UNCHANGED vars => UNCHANGED <<status, token>>
    BY DEF vars
  <2>4. QED
    BY <1>1, <1>2, <1>3, <1>4, <1>5, <2>1, <2>2, <2>3 DEF Next, Poll, Attempt, Timer, Moves

-----------------------------------------------------------------------------
(* What is reported is true.                                                *)

\* Neither the site nor a cancellation is ever undone.
LEMMA NothingUndone ==
  ASSUME TypeOK, TokensFence, [Next]_vars
  PROVE  /\ \A r \in Runs, i \in StepIndex : performed[r][i] > 0 => performed'[r][i] > 0
         /\ \A r \in Runs : intent[r] => intent'[r]
<1>1. ASSUME NEW w \in Workers, worker[w].pc # "idle", Mutating(w), performed' = Performed(w)
      PROVE  \A r \in Runs, i \in StepIndex : performed[r][i] > 0 => performed'[r][i] > 0
  <2>1. worker[w].run \in Runs /\ worker[w].step \in StepIndex
    BY <1>1, BusyHasRun DEF Mutating
  <2>2. QED
    BY <1>1, <2>1 DEF Performed, TypeOK
<1>2. \/ UNCHANGED performed
      \/ \E w \in Workers : worker[w].pc # "idle" /\ Mutating(w) /\ performed' = Performed(w)
  BY ZenonT(60) DEF Next, Poll, Attempt, Timer, Create, RequestCancel, LeaseExpires, Claim, TimerCheck,
         TimerRenew, StepSucceeds, StepFails, StepAborted, Decide, WriteEvidence, Finalize,
         Crash, FinalWriteFails, Stall, vars
<1>3. \A r \in Runs : intent[r] => intent'[r]
  <2>1. ASSUME NEW q \in Runs, RequestCancel(q) PROVE \A r \in Runs : intent[r] => intent'[r]
    BY <2>1 DEF RequestCancel, TypeOK
  <2>2. UNCHANGED intent \/ \E q \in Runs : RequestCancel(q)
    BY ZenonT(60) DEF Next, Poll, Attempt, Timer, Create, LeaseExpires, Claim, TimerCheck, TimerRenew,
           StepSucceeds, StepFails, StepAborted, Decide, WriteEvidence, Finalize, Crash,
           FinalWriteFails, Stall, runVars, vars
  <2>3. QED
    BY <2>1, <2>2
<1>4. QED
  BY <1>1, <1>2, <1>3

\* A worker that is not touched by a step reports the truth after it.
LEMMA BystanderReport ==
  ASSUME TypeOK, TokensFence, [Next]_vars, NEW v \in Workers, worker'[v] = worker[v],
         ReportIsTrue(v)
  PROVE  ReportIsTrue(v)'
<1>1. OwnsRun(v)' => OwnsRun(v)
  BY OwnershipOnlyLost
<1>2. CASE worker[v].pc = "idle"
  <2>1. ~OwnsRun(v) /\ ~OwnsRun(v)'
    BY <1>2 DEF OwnsRun, HoldsToken
  <2>2. QED
    BY <1>2, <2>1 DEF ReportIsTrue
<1>3. CASE worker[v].pc # "idle"
  <2>1. worker[v].run \in Runs
    BY <1>3, BusyHasRun
  <2>2. QED
    BY <1>1, <2>1, NothingUndone DEF ReportIsTrue, AllStepsDone
<1>4. QED
  BY <1>2, <1>3
\* An idle worker reports nothing.
LEMMA IdleReport == \A w \in Workers : worker[w].pc = "idle" => ReportIsTrue(w)
BY DEF ReportIsTrue, OwnsRun, HoldsToken

\* While neither rows nor tokens change, a worker owns what it owned.
LEMMA MoveKeepsOwnership ==
  ASSUME TypeOK, TokensFence, NEW w \in Workers, Moves(w)
  PROVE  OwnsRun(w)' <=> OwnsRun(w)
<1>1. UNCHANGED <<status, token>>
  BY DEF Moves, TimerCheck, TimerRenew, StepSucceeds, StepFails, StepAborted, Decide,
         WriteEvidence, FinalWriteFails, runVars
<1>2. KeepsPlaces(w)
  BY MovesKeepPlaces
<1>3. QED
  BY <1>1, <1>2 DEF KeepsPlaces, OwnsRun, HoldsToken

\* A worker that moves on reports the truth afterwards.
LEMMA MoverReport ==
  ASSUME TypeOK, TokensFence, [Next]_vars, NEW w \in Workers, Moves(w), OutcomeIsTrue, ReportIsTrue(w)
  PROVE  ReportIsTrue(w)'
<1> DEFINE r == worker[w].run
<1>0. worker[w] \in WorkerState /\ worker \in [Workers -> WorkerState]
  BY DEF TypeOK
<1>1. worker[w].pc # "idle" /\ r \in Runs
  <2>1. worker[w].pc # "idle"
    BY DEF Moves, TimerCheck, TimerRenew, StepSucceeds, StepFails, StepAborted, Decide,
           WriteEvidence, FinalWriteFails
  <2>2. QED
    BY <2>1, BusyHasRun
<1>2. worker'[w].run = r /\ worker'[w].pc # "idle" /\ (OwnsRun(w)' <=> OwnsRun(w))
  BY <1>1, MovesKeepPlaces, MoveKeepsOwnership DEF KeepsPlaces
<1>3. /\ \A i \in StepIndex : performed[r][i] > 0 => performed'[r][i] > 0
      /\ intent[r] => intent'[r]
  BY <1>1, NothingUndone
<1>4. OwnsRun(w) /\ SeesCancel(w) => intent[r]
  BY <1>1 DEF OwnsRun, SeesCancel, OutcomeIsTrue
<1>5. CASE TimerCheck(w)
  <2>1. worker'[w] \in {[worker[w] EXCEPT !.abort = "cancelled"], [worker[w] EXCEPT !.checked = TRUE]}
    BY <1>0, <1>5 DEF TimerCheck
  <2>2. /\ worker'[w].step = worker[w].step /\ worker'[w].pc = worker[w].pc
        /\ worker'[w].error = worker[w].error /\ worker'[w].outcome = worker[w].outcome
    BY <1>0, <2>1 DEF WorkerState
  <2>3. worker'[w].abort = "cancelled" => worker[w].abort = "cancelled" \/ SeesCancel(w)
    BY <1>0, <1>5 DEF TimerCheck, WorkerState
  <2>4. QED
    BY <1>1, <1>2, <1>3, <1>4, <2>2, <2>3 DEF ReportIsTrue, AllStepsDone
<1>6. CASE TimerRenew(w)
  <2>1. /\ worker'[w].step = worker[w].step /\ worker'[w].pc = worker[w].pc
        /\ worker'[w].error = worker[w].error /\ worker'[w].outcome = worker[w].outcome
        /\ worker'[w].abort \in {worker[w].abort, "lost"}
    BY <1>0, <1>6 DEF TimerRenew, WorkerState
  <2>2. QED
    BY <1>1, <1>2, <1>3, <2>1 DEF ReportIsTrue, AllStepsDone
<1>7. CASE StepSucceeds(w)
  <2>1. /\ worker'[w].step = worker[w].step + 1 /\ worker'[w].pc = "running"
        /\ worker'[w].error = worker[w].error /\ worker'[w].abort = worker[w].abort
    BY <1>0, <1>7 DEF StepSucceeds, WorkerState
  <2>2. ASSUME NEW i \in StepIndex, i < worker[w].step + 1, Steps[i] = "MUTATE"
        PROVE  performed'[r][i] > 0
    <3>1. CASE i < worker[w].step
      BY <1>1, <1>3, <2>2, <3>1 DEF ReportIsTrue
    <3>2. CASE i = worker[w].step
      <4>1. performed' = Performed(w)
        BY <1>7, <2>2, <3>2 DEF StepSucceeds, Mutating
      <4>2. QED
        BY <1>1, <3>2, <4>1 DEF Performed, TypeOK
    <3>3. QED
      BY <1>0, <2>2, <3>1, <3>2, StepsTyping DEF WorkerState, StepIndex
  <2>3. QED
    BY <1>1, <1>2, <1>3, <2>1, <2>2 DEF ReportIsTrue
<1>8. CASE StepFails(w)
  <2>1. /\ worker'[w].step = worker[w].step /\ worker'[w].pc = "caught"
        /\ worker'[w].error \in {"uncertain", "failed"} /\ worker'[w].abort = worker[w].abort
    BY <1>0, <1>8 DEF StepFails, WorkerState
  <2>2. QED
    BY <1>1, <1>2, <1>3, <2>1 DEF ReportIsTrue
<1>9. CASE StepAborted(w)
  <2>1. /\ worker'[w].step = worker[w].step /\ worker'[w].pc = "caught"
        /\ worker'[w].abort = worker[w].abort
        /\ worker'[w].error \in {worker[w].abort, BrokenOff(worker[w].abort)}
    BY <1>0, <1>9 DEF StepAborted, WorkerState
  <2>2. worker[w].abort # "none"
    BY <1>9 DEF StepAborted
  <2>3. worker'[w].error # "none" /\ (worker'[w].error = "cancelled" => worker[w].abort = "cancelled")
    BY <2>1, <2>2 DEF BrokenOff
  <2>4. QED
    BY <1>1, <1>2, <1>3, <2>1, <2>3 DEF ReportIsTrue
<1>10. CASE Decide(w)
  <2>1. PICK c \in {"yes", "no"} :
          /\ c = IF worker[w].error = "cancelled" \/ SeesCancel(w) THEN "yes" ELSE "no"
          /\ worker' = [worker EXCEPT ![w].pc = "evidence",
                                      ![w].outcome = FinalStatus(worker[w].error, c)]
    BY <1>10 DEF Decide
  <2>2. /\ worker'[w].step = worker[w].step /\ worker'[w].pc = "evidence"
        /\ worker'[w].error = worker[w].error /\ worker'[w].abort = worker[w].abort
        /\ worker'[w].outcome = FinalStatus(worker[w].error, c)
    BY <1>0, <2>1 DEF WorkerState
  <2>3. worker'[w].outcome = "CANCELLED" => worker[w].error = "cancelled" \/ SeesCancel(w)
    BY <2>1, <2>2 DEF FinalStatus
  <2>4. worker'[w].outcome = "SUCCEEDED" => AllStepsDone(w)
    <3>1. worker'[w].outcome = "SUCCEEDED" => worker[w].error = "none"
      BY <2>1, <2>2 DEF FinalStatus
    <3>2. QED
      BY <1>10, <3>1 DEF Decide, ReportIsTrue
  <2>5. QED
    BY <1>1, <1>2, <1>3, <1>4, <2>2, <2>3, <2>4 DEF ReportIsTrue, AllStepsDone
<1>11. CASE WriteEvidence(w)
  <2>1. /\ worker'[w].step = worker[w].step /\ worker'[w].pc = "finalizing"
        /\ worker'[w].error = worker[w].error /\ worker'[w].abort = worker[w].abort
        /\ worker'[w].outcome = worker[w].outcome /\ worker[w].pc = "evidence"
    BY <1>0, <1>11 DEF WriteEvidence, WorkerState
  <2>2. QED
    BY <1>1, <1>2, <1>3, <2>1 DEF ReportIsTrue, AllStepsDone
<1>12. CASE FinalWriteFails(w)
  <2>1. /\ worker'[w].step = worker[w].step /\ worker'[w].pc = "caught"
        /\ worker'[w].error = "failed" /\ worker'[w].abort = worker[w].abort
    BY <1>0, <1>12 DEF FinalWriteFails, WorkerState
  <2>2. QED
    BY <1>1, <1>2, <1>3, <2>1 DEF ReportIsTrue
<1>13. QED
  BY <1>5, <1>6, <1>7, <1>8, <1>9, <1>10, <1>11, <1>12 DEF Moves

\* Every worker goes on reporting the truth.
LEMMA ReportsStep ==
  TypeOK /\ TokensFence /\ OutcomeIsTrue /\ ReportsAreTrue /\ [Next]_vars => ReportsAreTrue'
<1> SUFFICES ASSUME TypeOK, TokensFence, OutcomeIsTrue, ReportsAreTrue, [Next]_vars
             PROVE  ReportsAreTrue'
  OBVIOUS
<1>1. ASSUME NEW w \in Workers, Moves(w) PROVE ReportsAreTrue'
  <2>1. \A v \in Workers : v # w => worker'[v] = worker[v]
    BY <1>1, MovesKeepPlaces DEF KeepsPlaces
  <2>2. QED
    BY <1>1, <2>1, MoverReport, BystanderReport DEF ReportsAreTrue
<1>2. ASSUME NEW w \in Workers, worker' = [worker EXCEPT ![w] = IdleWorker]
      PROVE  ReportsAreTrue'
  <2>1. /\ worker'[w] = IdleWorker
        /\ \A v \in Workers : v # w => worker'[v] = worker[v]
    BY <1>2 DEF TypeOK
  <2>2. ReportIsTrue(w)'
    BY <2>1 DEF IdleWorker, ReportIsTrue, OwnsRun, HoldsToken
  <2>3. QED
    BY <2>1, <2>2, BystanderReport DEF ReportsAreTrue
<1>3. ASSUME NEW w \in Workers, NEW r \in Runs, NEW t \in Tokens, Claim(w, r, t)
      PROVE  ReportsAreTrue'
  <2>1. /\ worker'[w] = [IdleWorker EXCEPT !.pc = "running", !.run = r, !.token = t]
        /\ \A v \in Workers : v # w => worker'[v] = worker[v]
    BY <1>3 DEF Claim, LeaseToken, TypeOK
  <2>2. /\ worker'[w].pc = "running" /\ worker'[w].step = 1
        /\ worker'[w].error = "none" /\ worker'[w].abort = "none"
    BY <2>1 DEF IdleWorker
  <2>3. \A i \in StepIndex : ~(i < 1)
    BY StepsTyping DEF StepIndex
  <2>4. ReportIsTrue(w)'
    BY <2>2, <2>3 DEF ReportIsTrue
  <2>5. QED
    BY <2>1, <2>4, BystanderReport DEF ReportsAreTrue
<1>4. CASE UNCHANGED worker
  BY <1>4, BystanderReport DEF ReportsAreTrue
<1>5. QED
  <2>1. \A w \in Workers : Crash(w) \/ Finalize(w) => worker' = [worker EXCEPT ![w] = IdleWorker]
    BY DEF Crash, Finalize
  <2>2. \A w \in Workers : Stall(w) => UNCHANGED worker
    BY DEF Stall
  <2>3. \A r \in Runs : Create(r) \/ RequestCancel(r) \/ LeaseExpires(r) => UNCHANGED worker
    BY DEF Create, RequestCancel, LeaseExpires
  <2>4. UNCHANGED vars => UNCHANGED worker
    BY DEF vars
  <2>5. QED
    BY <1>1, <1>2, <1>3, <1>4, <2>1, <2>2, <2>3, <2>4 DEF Next, Poll, Attempt, Timer, Moves

\* The rows stay true: only the final write of the owner sets an outcome.
LEMMA OutcomeStep ==
  TypeOK /\ TokensFence /\ OutcomeIsTrue /\ ReportsAreTrue /\ [Next]_vars => OutcomeIsTrue'
<1> SUFFICES ASSUME TypeOK, TokensFence, OutcomeIsTrue, ReportsAreTrue, [Next]_vars
             PROVE  OutcomeIsTrue'
  OBVIOUS
<1> USE NothingUndone
<1>1. ASSUME NEW r \in Runs, Create(r) PROVE OutcomeIsTrue'
  BY <1>1 DEF Create, OutcomeIsTrue, TypeOK
<1>2. ASSUME NEW r \in Runs, RequestCancel(r) PROVE OutcomeIsTrue'
  BY <1>2 DEF RequestCancel, OutcomeIsTrue, TypeOK
<1>3. ASSUME NEW w \in Workers, NEW r \in Runs, NEW t \in Tokens, Claim(w, r, t)
      PROVE  OutcomeIsTrue'
  BY <1>3 DEF Claim, OutcomeIsTrue, TypeOK
<1>4. ASSUME NEW w \in Workers, Finalize(w) PROVE OutcomeIsTrue'
  <2> DEFINE q == worker[w].run
  <2>0. worker[w] \in WorkerState /\ q \in Runs /\ ReportIsTrue(w)
    BY <1>4, BusyHasRun DEF Finalize, TypeOK, ReportsAreTrue
  <2>1. CASE OwnsRun(w)
    <3>1. status' = [status EXCEPT ![q] = worker[w].outcome] /\ UNCHANGED <<intent, performed>>
      BY <1>4, <2>1 DEF Finalize, MayFinalize
    <3>2. worker[w].outcome = "CANCELLED" => intent[q]
      BY <1>4, <2>0, <2>1 DEF Finalize, ReportIsTrue
    <3>3. worker[w].outcome # "CANCEL_REQUESTED"
      BY <2>0 DEF WorkerState, Outcomes, TerminalStatus
    <3>4. worker[w].outcome = "SUCCEEDED" =>
            \A i \in StepIndex : Steps[i] = "MUTATE" => performed[q][i] > 0
      <4>1. SUFFICES ASSUME worker[w].outcome = "SUCCEEDED", NEW i \in StepIndex, Steps[i] = "MUTATE"
                     PROVE  performed[q][i] > 0
        OBVIOUS
      <4>2. AllStepsDone(w) /\ worker[w].pc # "idle"
        BY <1>4, <2>0, <4>1 DEF Finalize, ReportIsTrue
      <4>3. i < worker[w].step
        BY <2>0, <4>2, StepsTyping DEF AllStepsDone, StepIndex, WorkerState
      <4>4. QED
        BY <2>0, <4>1, <4>2, <4>3 DEF ReportIsTrue
    <3>5. QED
      BY <2>0, <3>1, <3>2, <3>3, <3>4 DEF OutcomeIsTrue, TypeOK
  <2>2. CASE ~OwnsRun(w)
    BY <1>4, <2>2 DEF Finalize, MayFinalize, OutcomeIsTrue
  <2>3. QED
    BY <2>1, <2>2
<1>5. CASE UNCHANGED status
  BY <1>5 DEF OutcomeIsTrue
<1>6. QED
  <2>1. \A w \in Workers : Moves(w) \/ Crash(w) \/ Stall(w) => UNCHANGED status
    BY DEF Moves, Crash, Stall, TimerCheck, TimerRenew, StepSucceeds, StepFails, StepAborted, Decide,
           WriteEvidence, FinalWriteFails, runVars
  <2>2. \A r \in Runs : LeaseExpires(r) => UNCHANGED status
    BY DEF LeaseExpires
  <2>3. UNCHANGED vars => UNCHANGED status
    BY DEF vars
  <2>4. QED
    BY <1>1, <1>2, <1>3, <1>4, <1>5, <2>1, <2>2, <2>3 DEF Next, Poll, Attempt, Timer, Moves

-----------------------------------------------------------------------------
(* What is uncertain is reported as such.                                   *)

\* A worker never forgets that it broke a mutation off.
LEMMA DoubtStep == TypeOK /\ TokensFence /\ DoubtIsKnown /\ [Next]_vars => DoubtIsKnown'
<1> SUFFICES ASSUME TypeOK, TokensFence, DoubtIsKnown, [Next]_vars PROVE DoubtIsKnown'
  OBVIOUS
<1> DEFINE Known(v) == worker[v].doubt =>
      /\ worker[v].pc # "running"
      /\ worker[v].error \in {"uncertain", "cancelled"}
      /\ worker[v].pc \in {"evidence", "finalizing"} => worker[v].outcome \in {"MANUAL_REVIEW", "CANCELLED"}
<1>0. \A v \in Workers : Known(v)
  BY DEF DoubtIsKnown
<1>1. ASSUME NEW w \in Workers, \A v \in Workers : v # w => worker'[v] = worker[v], Known(w)'
      PROVE  DoubtIsKnown'
  BY <1>0, <1>1 DEF DoubtIsKnown
<1>2. ASSUME NEW w \in Workers, Moves(w) PROVE Known(w)'
  <2>0. worker[w] \in WorkerState /\ worker \in [Workers -> WorkerState] /\ Known(w)
    BY <1>0 DEF TypeOK
  <2> HIDE DEF Known
  <2>1. CASE TimerCheck(w) \/ TimerRenew(w)
    <3>1. /\ worker'[w].doubt = worker[w].doubt /\ worker'[w].pc = worker[w].pc
          /\ worker'[w].error = worker[w].error /\ worker'[w].outcome = worker[w].outcome
      BY <2>0, <2>1 DEF TimerCheck, TimerRenew, WorkerState
    <3>2. QED
      BY <2>0, <3>1 DEF Known
  <2>2. CASE StepSucceeds(w)
    <3>1. worker'[w].doubt = worker[w].doubt /\ worker[w].pc = "running"
      BY <2>0, <2>2 DEF StepSucceeds, WorkerState
    <3>2. QED
      BY <2>0, <3>1 DEF Known
  <2>3. CASE StepFails(w)
    <3>1. /\ worker[w].pc = "running" /\ worker'[w].pc = "caught"
          /\ worker'[w].error = "uncertain" \/ worker'[w].doubt = worker[w].doubt
      BY <2>0, <2>3 DEF StepFails, WorkerState
    <3>2. QED
      BY <2>0, <3>1 DEF Known
  <2>4. CASE StepAborted(w)
    <3>1. /\ worker[w].pc = "running" /\ worker'[w].pc = "caught"
          /\ \/ worker'[w].error = BrokenOff(worker[w].abort)
             \/ worker'[w].doubt = worker[w].doubt
      BY <2>0, <2>4 DEF StepAborted, WorkerState
    <3>2. QED
      BY <2>0, <3>1 DEF Known, BrokenOff
  <2>5. CASE Decide(w)
    <3>1. PICK c \in {"yes", "no"} :
            worker' = [worker EXCEPT ![w].pc = "evidence",
                                     ![w].outcome = FinalStatus(worker[w].error, c)]
      BY <2>5 DEF Decide
    <3>2. /\ worker'[w].pc = "evidence" /\ worker'[w].doubt = worker[w].doubt
          /\ worker'[w].error = worker[w].error
          /\ worker'[w].outcome = FinalStatus(worker[w].error, c)
      BY <2>0, <3>1 DEF WorkerState
    <3>3. CASE worker[w].error = "uncertain"
      BY <3>1, <3>2, <3>3 DEF Known, FinalStatus
    <3>4. CASE worker[w].error = "cancelled"
      <4>1. c = "yes"
        BY <2>0, <2>5, <3>2, <3>4 DEF Decide, WorkerState, FinalStatus
      <4>2. QED
        BY <3>2, <3>4, <4>1 DEF Known, FinalStatus
    <3>5. QED
      BY <2>0, <3>2, <3>3, <3>4 DEF Known
  <2>6. CASE WriteEvidence(w)
    <3>1. /\ worker'[w].doubt = worker[w].doubt /\ worker[w].pc = "evidence"
          /\ worker'[w].pc = "finalizing"
          /\ worker'[w].error = worker[w].error /\ worker'[w].outcome = worker[w].outcome
      BY <2>0, <2>6 DEF WriteEvidence, WorkerState
    <3>2. QED
      BY <2>0, <3>1 DEF Known
  <2>7. CASE FinalWriteFails(w)
    <3>1. worker'[w].doubt = worker[w].doubt /\ worker[w].error = "none"
      BY <2>0, <2>7 DEF FinalWriteFails, WorkerState
    <3>2. QED
      BY <2>0, <3>1 DEF Known
  <2>8. QED
    BY <1>2, <2>1, <2>2, <2>3, <2>4, <2>5, <2>6, <2>7 DEF Moves
<1>3. ASSUME NEW w \in Workers, Crash(w) \/ Finalize(w) PROVE DoubtIsKnown'
  <2>1. worker'[w] = IdleWorker /\ \A v \in Workers : v # w => worker'[v] = worker[v]
    BY <1>3 DEF Crash, Finalize, TypeOK
  <2>2. Known(w)'
    BY <2>1 DEF IdleWorker
  <2>3. QED
    BY <1>1, <2>1, <2>2
<1>4. ASSUME NEW w \in Workers, NEW r \in Runs, NEW t \in Tokens, Claim(w, r, t)
      PROVE  DoubtIsKnown'
  <2>1. /\ worker'[w] = [IdleWorker EXCEPT !.pc = "running", !.run = r, !.token = t]
        /\ \A v \in Workers : v # w => worker'[v] = worker[v]
    BY <1>4 DEF Claim, LeaseToken, TypeOK
  <2>2. Known(w)'
    BY <2>1 DEF IdleWorker
  <2>3. QED
    BY <1>1, <2>1, <2>2
<1>5. CASE UNCHANGED worker
  BY <1>5 DEF DoubtIsKnown
<1>6. QED
  <2>1. \A w \in Workers : Stall(w) => UNCHANGED worker
    BY DEF Stall
  <2>2. \A r \in Runs : Create(r) \/ RequestCancel(r) \/ LeaseExpires(r) => UNCHANGED worker
    BY DEF Create, RequestCancel, LeaseExpires
  <2>3. UNCHANGED vars => UNCHANGED worker
    BY DEF vars
  <2>4. ASSUME NEW w \in Workers, Moves(w) PROVE DoubtIsKnown'
    BY <1>1, <1>2, <2>4, MovesKeepPlaces DEF KeepsPlaces
  <2>5. QED
    BY <1>3, <1>4, <1>5, <2>1, <2>2, <2>3, <2>4 DEF Next, Poll, Attempt, Timer, Moves

-----------------------------------------------------------------------------
(* The theorems.                                                            *)

\* RunInv holds before the first run is created.
LEMMA InvariantInit == Init => RunInv
<1> SUFFICES ASSUME Init PROVE RunInv
  OBVIOUS
<1>1. ASSUME NEW w \in Workers
      PROVE  /\ worker[w].pc = "idle" /\ worker[w].token = NoToken /\ worker[w].run = NoRun
             /\ ~worker[w].doubt
  <2>1. worker[w] = IdleWorker
    BY DEF Init
  <2>2. QED
    BY <2>1 DEF IdleWorker
<1>2. TokensFence
  BY <1>1 DEF TokensFence
<1>3. ReportsAreTrue
  BY <1>1, IdleReport DEF ReportsAreTrue
<1>4. OutcomeIsTrue
  BY DEF Init, OutcomeIsTrue
<1>5. DoubtIsKnown
  BY <1>1 DEF DoubtIsKnown
<1>6. QED
  BY <1>2, <1>3, <1>4, <1>5, TypingInit DEF RunInv

\* RunInv is inductive: types, the fencing by tokens, the truth of the rows and of
\* what the workers are about to write into them.
THEOREM Invariance == Spec => []RunInv
<1>1. Init => RunInv
  BY InvariantInit
<1>2. RunInv /\ [Next]_vars => RunInv'
  BY TypingStep, FencingStep, ReportsStep, OutcomeStep, DoubtStep DEF RunInv
<1>3. QED
  BY <1>1, <1>2, PTL DEF Spec

\* Every variable stays in its type.
THEOREM TypeCorrect == Spec => []TypeOK
<1>1. RunInv => TypeOK
  BY DEF RunInv
<1>2. QED
  BY <1>1, Invariance, PTL

\* Through any number of stalls, crashes and takeovers, at most one worker can
\* write the outcome of a run.
THEOREM SingleFinisherHolds == Spec => []SingleFinisher
<1>1. RunInv => SingleFinisher
  BY DEF RunInv, TokensFence, SingleFinisher, HoldsToken
<1>2. QED
  BY <1>1, Invariance, PTL

\* No run is CANCELLED that nobody cancelled, none SUCCEEDED whose mutations did
\* not take place.
THEOREM OutcomeIsTrueHolds == Spec => []OutcomeIsTrue
<1>1. RunInv => OutcomeIsTrue
  BY DEF RunInv
<1>2. QED
  BY <1>1, Invariance, PTL

\* The status of a finished run never changes: every write to it is guarded by the
\* status, and the claim by QUEUED or RUNNING.
THEOREM TerminalIsFinalHolds == Spec => TerminalIsFinal
<1>1. ASSUME RunInv, [Next]_vars, NEW r \in Runs, status[r] \in TerminalStatus
      PROVE  status'[r] = status[r]
  <2>0. TypeOK /\ TokensFence
    BY <1>1 DEF RunInv
  <2>1. ASSUME NEW q \in Runs, Create(q) \/ RequestCancel(q) PROVE status'[r] = status[r]
    BY <1>1, <2>0, <2>1 DEF Create, RequestCancel, TypeOK, TerminalStatus
  <2>2. ASSUME NEW w \in Workers, NEW q \in Runs, NEW t \in Tokens, Claim(w, q, t)
        PROVE  status'[r] = status[r]
    BY <1>1, <2>0, <2>2 DEF Claim, Claimable, TypeOK, TerminalStatus
  <2>3. ASSUME NEW w \in Workers, Finalize(w) PROVE status'[r] = status[r]
    BY <1>1, <2>0, <2>3 DEF Finalize, MayFinalize, OwnsRun, TypeOK, TerminalStatus
  <2>4. CASE UNCHANGED status
    BY <2>4
  <2>5. \A w \in Workers : Moves(w) \/ Crash(w) \/ Stall(w) => UNCHANGED status
    BY DEF Moves, Crash, Stall, TimerCheck, TimerRenew, StepSucceeds, StepFails, StepAborted, Decide,
           WriteEvidence, FinalWriteFails, runVars
  <2>6. (\A q \in Runs : LeaseExpires(q) => UNCHANGED status) /\ (UNCHANGED vars => UNCHANGED status)
    BY DEF LeaseExpires, vars
  <2>7. QED
    BY <1>1, <2>1, <2>2, <2>3, <2>4, <2>5, <2>6 DEF Next, Poll, Attempt, Timer, Moves
<1>2. RunInv /\ [Next]_vars =>
        [\A r \in Runs : status[r] \in TerminalStatus => status'[r] = status[r]]_vars
  BY <1>1
<1>3. QED
  BY <1>2, Invariance, PTL DEF Spec, TerminalIsFinal

\* The final write of the worker that owns a run never hides a mutation that was
\* broken off.
THEOREM DoubtIsReportedHolds == Spec => DoubtIsReported
<1>1. ASSUME RunInv, NEW w \in Workers, worker[w].doubt, OwnsRun(w), Finalize(w)
      PROVE  status'[worker[w].run] \in {"MANUAL_REVIEW", "CANCELLED"}
  <2>1. worker[w].outcome \in {"MANUAL_REVIEW", "CANCELLED"}
    BY <1>1 DEF RunInv, DoubtIsKnown, Finalize
  <2>2. worker[w].run \in Runs /\ status \in [Runs -> RunStatus]
    BY <1>1, BusyHasRun DEF RunInv, TypeOK, Finalize
  <2>3. QED
    BY <1>1, <2>1, <2>2 DEF Finalize, MayFinalize
<1>2. RunInv =>
        [\A w \in Workers : worker[w].doubt /\ OwnsRun(w) /\ Finalize(w) =>
           status'[worker[w].run] \in {"MANUAL_REVIEW", "CANCELLED"}]_vars
  BY <1>1
<1>3. QED
  BY <1>2, Invariance, PTL DEF Spec, DoubtIsReported
=============================================================================
