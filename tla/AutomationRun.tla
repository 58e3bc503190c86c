---------------------------- MODULE AutomationRun ----------------------------
(***************************************************************************)
(* Production runs of one browser automation                               *)
(* (domain/browser-automation.ts, generation/browser-automation-runtime.mjs): *)
(* callers queue runs, workers lease them, execute the steps of the        *)
(* manifest in a browser and write the outcome; the OWNER may cancel.      *)
(*                                                                         *)
(* The web site is outside the program: performed counts how often it has  *)
(* carried out a mutating step.  All runs execute the same manifest.       *)
(***************************************************************************)
EXTENDS Integers, Sequences

CONSTANTS
  Workers,     \* processes that call processNextBrowserAutomationRun
  Runs,        \* rows of browser_automation_run (definition, caller and key)
  Tokens,      \* lease tokens (randomUUID); a token in use is never drawn
  Steps,       \* the manifest: for every step READ or MUTATE
  MaxFaults,   \* bound: crashes, stalls and failed final writes
  NoToken, NoRun

ASSUME StepsAssumption == Steps \in Seq({"READ", "MUTATE"}) /\ Steps # <<>>
ASSUME FaultAssumption == MaxFaults \in Nat
ASSUME NullAssumption  == NoToken \notin Tokens /\ NoRun \notin Runs

VARIABLES
  status,     \* browser_automation_run.status, ABSENT before the insert
  token,      \* lease_token, which the final write leaves in place
  expired,    \* lease_until < now()
  intent,     \* cancellation_requested_at is set
  evidence,   \* evidence.json of the run: which attempt wrote which outcome
  performed,  \* the web site: how often each step of each run took effect
  worker,     \* local state of processNextBrowserAutomationRun
  faults      \* environment: faults so far

runVars == <<status, token, expired, intent>>
vars == <<status, token, expired, intent, evidence, performed, worker, faults>>

StepIndex == 1..Len(Steps)

TerminalStatus == {"SUCCEEDED", "FAILED", "CANCELLED", "MANUAL_REVIEW"}
RunStatus      == TerminalStatus \union {"ABSENT", "QUEUED", "RUNNING", "CANCEL_REQUESTED"}
Outcomes       == TerminalStatus

-----------------------------------------------------------------------------
(* The local state of a worker.  pc names what it does next.                *)

WorkerState ==
  [pc      : {"idle", "running", "caught", "evidence", "finalizing"},
   run     : Runs \union {NoRun},
   token   : Tokens \union {NoToken},
   step    : 1..Len(Steps) + 1,
   checked : BOOLEAN,                            \* the timer is between its two queries
   abort   : {"none", "cancelled", "lost"},      \* the reason of controller.abort
   error   : {"none", "failed", "uncertain", "cancelled", "lost"},
   doubt   : BOOLEAN,                            \* a mutating step was broken off
   outcome : Outcomes]

IdleWorker == [pc |-> "idle", run |-> NoRun, token |-> NoToken, step |-> 1, checked |-> FALSE,
               abort |-> "none", error |-> "none", doubt |-> FALSE, outcome |-> "FAILED"]

\* The row still carries this worker's token.
HoldsToken(w) == worker[w].pc # "idle" /\ token[worker[w].run] = worker[w].token

\* The guard of the final write.
OwnsRun(w) == HoldsToken(w) /\ status[worker[w].run] \in {"RUNNING", "CANCEL_REQUESTED"}

\* isCancelled: a row that another worker took over also counts as cancelled.
SeesCancel(w) ==
  ~HoldsToken(w) \/ status[worker[w].run] = "CANCEL_REQUESTED" \/ intent[worker[w].run]

TokensInUse == {token[r] : r \in Runs} \union {worker[w].token : w \in Workers}

NoEvidence == [by |-> NoToken, outcome |-> "FAILED"]

-----------------------------------------------------------------------------
Init ==
  /\ status    = [r \in Runs |-> "ABSENT"]
  /\ token     = [r \in Runs |-> NoToken]
  /\ expired   = [r \in Runs |-> FALSE]
  /\ intent    = [r \in Runs |-> FALSE]
  /\ evidence  = [r \in Runs |-> NoEvidence]
  /\ performed = [r \in Runs |-> [i \in StepIndex |-> 0]]
  /\ worker    = [w \in Workers |-> IdleWorker]
  /\ faults = 0

-----------------------------------------------------------------------------
(* Callers and the OWNER.  An operator with a suffix (_AnyStatus, ...) is a *)
(* slip the code could have made in the definition that follows it, kept to *)
(* see that a property would notice; no action uses it.                     *)

\* The definition is enabled and its active revision verified; a repeated
\* idempotency key returns the existing run.
Create(r) ==
  /\ status[r] = "ABSENT"
  /\ status' = [status EXCEPT ![r] = "QUEUED"]
  /\ UNCHANGED <<token, expired, intent, evidence, performed, worker, faults>>

RequestCancel(r) ==
  /\ status[r] \in {"QUEUED", "RUNNING"}
  /\ status' = [status EXCEPT ![r] = IF status[r] = "QUEUED" THEN "CANCELLED" ELSE "CANCEL_REQUESTED"]
  /\ intent' = [intent EXCEPT ![r] = TRUE]
  /\ UNCHANGED <<token, expired, evidence, performed, worker, faults>>

-----------------------------------------------------------------------------
(* A worker.                                                                *)

Claimable_QueuedOnly(r) == status[r] = "QUEUED"

\* A queued run, or one whose worker let its lease expire.
Claimable(r) == status[r] = "QUEUED" \/ (status[r] = "RUNNING" /\ expired[r])

LeaseToken_Kept(r, t) == IF token[r] = NoToken THEN t ELSE token[r]

\* A takeover replaces the token, which fences the previous worker off.
LeaseToken(r, t) == t

\* Every attempt starts at the first step.
Claim(w, r, t) ==
  /\ worker[w].pc = "idle"
  /\ Claimable(r)
  /\ t \notin TokensInUse
  /\ status'  = [status EXCEPT ![r] = "RUNNING"]
  /\ token'   = [token EXCEPT ![r] = LeaseToken(r, t)]
  /\ expired' = [expired EXCEPT ![r] = FALSE]
  /\ worker'  = [worker EXCEPT ![w] =
       [IdleWorker EXCEPT !.pc = "running", !.run = r, !.token = LeaseToken(r, t)]]
  /\ UNCHANGED <<intent, evidence, performed, faults>>

\* The timer's first query.
TimerCheck(w) ==
  /\ worker[w].pc # "idle"
  /\ ~worker[w].checked /\ worker[w].abort = "none"
  /\ worker' = [worker EXCEPT ![w] =
       IF SeesCancel(w) THEN [worker[w] EXCEPT !.abort = "cancelled"]
                        ELSE [worker[w] EXCEPT !.checked = TRUE]]
  /\ UNCHANGED <<runVars, evidence, performed, faults>>

\* The timer's second query; it does not ask whether the lease has expired.
TimerRenew(w) ==
  LET r == worker[w].run IN
  /\ worker[w].pc # "idle" /\ worker[w].checked
  /\ IF HoldsToken(w) /\ status[r] = "RUNNING"
       THEN /\ expired' = [expired EXCEPT ![r] = FALSE]
            /\ worker' = [worker EXCEPT ![w].checked = FALSE]
       ELSE /\ worker' = [worker EXCEPT ![w].checked = FALSE, ![w].abort = "lost"]
            /\ UNCHANGED expired
  /\ UNCHANGED <<status, token, intent, evidence, performed, faults>>

Performed(w) == [performed EXCEPT ![worker[w].run][worker[w].step] = @ + 1]

Mutating(w) == worker[w].step \in StepIndex /\ Steps[worker[w].step] = "MUTATE"

AllStepsDone(w) == worker[w].step > Len(Steps)

\* The next step succeeds.
StepSucceeds(w) ==
  /\ worker[w].pc = "running"
  /\ worker[w].abort = "none"
  /\ ~AllStepsDone(w)
  /\ performed' = IF Mutating(w) THEN Performed(w) ELSE performed
  /\ worker' = [worker EXCEPT ![w].step = @ + 1]
  /\ UNCHANGED <<runVars, evidence, faults>>

\* A mutation that fails is uncertain, whatever the site made of it.
StepFails(w) ==
  /\ worker[w].pc = "running"
  /\ worker[w].abort = "none"
  /\ ~AllStepsDone(w)
  /\ \/ /\ Mutating(w)
        /\ worker' = [worker EXCEPT ![w].pc = "caught", ![w].doubt = TRUE, ![w].error = "uncertain"]
        /\ performed' = Performed(w) \/ UNCHANGED performed
     \/ /\ ~Mutating(w)
        /\ worker' = [worker EXCEPT ![w].pc = "caught", ![w].error = "failed"]
        /\ UNCHANGED performed
  /\ UNCHANGED <<runVars, evidence, faults>>

\* What a mutation that was broken off by an abort is reported as.
BrokenOff(reason) == IF reason = "cancelled" THEN "cancelled" ELSE "uncertain"

\* The abort signal is seen before the next step or in the middle of it.
StepAborted(w) ==
  /\ worker[w].pc = "running"
  /\ worker[w].abort # "none"
  /\ ~AllStepsDone(w)
  /\ \/ /\ worker' = [worker EXCEPT ![w].pc = "caught", ![w].error = worker[w].abort]
        /\ UNCHANGED performed
     \/ /\ Mutating(w)
        /\ worker' = [worker EXCEPT ![w].pc = "caught", ![w].doubt = TRUE,
                                    ![w].error = BrokenOff(worker[w].abort)]
        /\ performed' = Performed(w) \/ UNCHANGED performed
  /\ UNCHANGED <<runVars, evidence, faults>>

FinalStatus_NoReview(error, cancelled) ==
  CASE cancelled = "yes" -> "CANCELLED"
    [] error = "none"    -> "SUCCEEDED"
    [] OTHER             -> "FAILED"

\* finalStatusForAutomationError; the runtime throws none of the errors that
\* would map to CHALLENGE_REQUIRED, DRIFT or REAUTH_REQUIRED.
FinalStatus(error, cancelled) ==
  CASE cancelled = "yes"     -> "CANCELLED"
    [] error = "uncertain"   -> "MANUAL_REVIEW"
    [] error = "none"        -> "SUCCEEDED"
    [] OTHER                 -> "FAILED"

\* All steps are done, or an exception was caught: an unlocked read of the
\* cancellation decides the outcome.
Decide(w) ==
  /\ \/ worker[w].pc = "running" /\ AllStepsDone(w)
     \/ worker[w].pc = "caught"
  /\ LET cancelled == IF worker[w].error = "cancelled" \/ SeesCancel(w) THEN "yes" ELSE "no"
     IN  worker' = [worker EXCEPT ![w].pc = "evidence",
                                  ![w].outcome = FinalStatus(worker[w].error, cancelled)]
  /\ UNCHANGED <<runVars, evidence, performed, faults>>

\* The evidence file is written before the row is looked at.
WriteEvidence(w) ==
  /\ worker[w].pc = "evidence"
  /\ evidence' = [evidence EXCEPT ![worker[w].run] =
       [by |-> worker[w].token, outcome |-> worker[w].outcome]]
  /\ worker' = [worker EXCEPT ![w].pc = "finalizing"]
  /\ UNCHANGED <<runVars, performed, faults>>

MayFinalize_AnyToken(w) == status[worker[w].run] \in {"RUNNING", "CANCEL_REQUESTED"}

MayFinalize(w) == OwnsRun(w)

Finalize(w) ==
  LET r == worker[w].run IN
  /\ worker[w].pc = "finalizing"
  /\ IF MayFinalize(w)
       THEN /\ status' = [status EXCEPT ![r] = worker[w].outcome]
            /\ expired' = [expired EXCEPT ![r] = FALSE]
       ELSE UNCHANGED <<status, expired>>
  /\ worker' = [worker EXCEPT ![w] = IdleWorker]
  /\ UNCHANGED <<token, intent, evidence, performed, faults>>

-----------------------------------------------------------------------------
(* Faults.                                                                  *)

Fault == faults < MaxFaults /\ faults' = faults + 1

\* The process dies, possibly in the middle of a step.
Crash(w) ==
  /\ Fault
  /\ worker[w].pc # "idle"
  /\ worker' = [worker EXCEPT ![w] = IdleWorker]
  /\ \/ worker[w].pc = "running" /\ Mutating(w) /\ performed' = Performed(w)
     \/ UNCHANGED performed
  /\ UNCHANGED <<runVars, evidence>>

\* Reporting a run without error fails and is caught.
FinalWriteFails(w) ==
  /\ Fault
  /\ worker[w].pc \in {"evidence", "finalizing"} /\ worker[w].error = "none"
  /\ worker' = [worker EXCEPT ![w].pc = "caught", ![w].error = "failed"]
  /\ UNCHANGED <<runVars, evidence, performed>>

\* A worker is held up for longer than its lease.
Stall(w) ==
  LET r == worker[w].run IN
  /\ Fault
  /\ HoldsToken(w) /\ status[r] = "RUNNING" /\ ~expired[r]
  /\ expired' = [expired EXCEPT ![r] = TRUE]
  /\ UNCHANGED <<status, token, intent, evidence, performed, worker>>

\* Nobody is left to renew the lease.
LeaseExpires(r) ==
  /\ status[r] = "RUNNING" /\ ~expired[r]
  /\ \A w \in Workers : worker[w].token # token[r]
  /\ expired' = [expired EXCEPT ![r] = TRUE]
  /\ UNCHANGED <<status, token, intent, evidence, performed, worker, faults>>

-----------------------------------------------------------------------------
Poll(w) == \E r \in Runs, t \in Tokens : Claim(w, r, t)

Attempt(w) ==
  StepSucceeds(w) \/ StepFails(w) \/ StepAborted(w)
  \/ Decide(w) \/ WriteEvidence(w) \/ Finalize(w)

Timer(w) == TimerCheck(w) \/ TimerRenew(w)

Next ==
  \/ \E r \in Runs : Create(r) \/ RequestCancel(r) \/ LeaseExpires(r)
  \/ \E w \in Workers : Poll(w) \/ Attempt(w) \/ Timer(w)
                        \/ Crash(w) \/ FinalWriteFails(w) \/ Stall(w)

Spec == Init /\ [][Next]_vars

\* Workers poll for ever, steps have timeouts, the timer fires, time passes.
Fairness ==
  /\ \A w \in Workers : WF_vars(Poll(w)) /\ WF_vars(Attempt(w)) /\ WF_vars(Timer(w))
  /\ \A r \in Runs : WF_vars(LeaseExpires(r))

FairSpec == Spec /\ Fairness

-----------------------------------------------------------------------------
(* Properties.                                                              *)

\* Every variable stays in its type.
TypeOK ==
  /\ status \in [Runs -> RunStatus]
  /\ token \in [Runs -> Tokens \union {NoToken}]
  /\ expired \in [Runs -> BOOLEAN]
  /\ intent \in [Runs -> BOOLEAN]
  /\ evidence \in [Runs -> [by : Tokens \union {NoToken}, outcome : Outcomes]]
  /\ performed \in [Runs -> [StepIndex -> Nat]]
  /\ worker \in [Workers -> WorkerState]
  /\ faults \in 0..MaxFaults

\* A run has one worker whose final write counts, through stalls and takeovers.
SingleFinisher ==
  \A w, v \in Workers :
    HoldsToken(w) /\ HoldsToken(v) /\ worker[w].run = worker[v].run => w = v

\* The outcome of a run is true: CANCELLED only if somebody asked for it (a lost
\* lease, which its worker takes for a cancellation, never reaches the row), and
\* SUCCEEDED only if the site performed every mutating step.
OutcomeIsTrue ==
  \A r \in Runs :
    /\ status[r] \in {"CANCELLED", "CANCEL_REQUESTED"} => intent[r]
    /\ status[r] = "SUCCEEDED" =>
         \A i \in StepIndex : Steps[i] = "MUTATE" => performed[r][i] > 0

\* The result of a run never changes, whoever still holds an old lease.
TerminalIsFinal ==
  [][\A r \in Runs : status[r] \in TerminalStatus => status'[r] = status[r]]_vars

\* A run whose last step is a mutation nobody can vouch for is never reported as
\* a success or a plain failure.
DoubtIsReported ==
  [][\A w \in Workers : worker[w].doubt /\ OwnsRun(w) /\ Finalize(w) =>
       status'[worker[w].run] \in {"MANUAL_REVIEW", "CANCELLED"}]_vars

\* A run that nobody cancels ends, through crashes and stalls.
EveryRunEnds ==
  \A r \in Runs :
    status[r] \in {"QUEUED", "RUNNING"} ~> status[r] \in TerminalStatus \union {"CANCEL_REQUESTED"}

-----------------------------------------------------------------------------
(* What makes the properties inductive.                                     *)

\* A worker has a run and a token exactly while it is busy, no two workers hold
\* the same token, and no two rows carry the same one.
TokensFence ==
  /\ \A w \in Workers :
       /\ worker[w].pc = "idle" <=> worker[w].token = NoToken
       /\ worker[w].pc = "idle" <=> worker[w].run = NoRun
  /\ \A w, v \in Workers : worker[w].token = worker[v].token => w = v \/ worker[w].pc = "idle"

\* What a worker knows, or is about to report, is true of the run it owns.
ReportIsTrue(w) ==
  LET r == worker[w].run
      deciding == worker[w].pc \in {"evidence", "finalizing"}
  IN
  /\ worker[w].pc # "idle" =>
       \A i \in StepIndex : i < worker[w].step /\ Steps[i] = "MUTATE" => performed[r][i] > 0
  /\ worker[w].pc = "caught" => worker[w].error # "none"
  /\ deciding /\ worker[w].outcome = "SUCCEEDED" => AllStepsDone(w)
  /\ OwnsRun(w) /\ worker[w].error = "cancelled" => intent[r]
  /\ OwnsRun(w) /\ worker[w].abort = "cancelled" => intent[r]
  /\ OwnsRun(w) /\ deciding /\ worker[w].outcome = "CANCELLED" => intent[r]

ReportsAreTrue == \A w \in Workers : ReportIsTrue(w)

\* A worker whose mutation was broken off has left the steps with an error that
\* says so, and reports it.
DoubtIsKnown ==
  \A w \in Workers : worker[w].doubt =>
    /\ worker[w].pc # "running"
    /\ worker[w].error \in {"uncertain", "cancelled"}
    /\ worker[w].pc \in {"evidence", "finalizing"} => worker[w].outcome \in {"MANUAL_REVIEW", "CANCELLED"}

RunInv == TypeOK /\ TokensFence /\ OutcomeIsTrue /\ ReportsAreTrue /\ DoubtIsKnown

-----------------------------------------------------------------------------
(* What the documentation says and the code does not do.                    *)

\* SSOT_CURRENT.md 10.14 and 24.10: a mutation is not blindly repeated after a
\* crash of its worker.
MutationNotRepeated ==
  \A r \in Runs, i \in StepIndex : performed[r][i] <= 1

\* SSOT_CURRENT.md 10.13: the result of a run, of which the evidence file is a
\* part, is immutable.
EvidenceIsFinal ==
  [][\A r \in Runs : status[r] \in TerminalStatus => evidence'[r] = evidence[r]]_vars

\* SSOT_CURRENT.md 10.21: a run is taken over when its worker is gone; so a
\* cancellation takes effect.
CancellationEnds ==
  \A r \in Runs : status[r] = "CANCEL_REQUESTED" ~> status[r] \in TerminalStatus
=============================================================================
