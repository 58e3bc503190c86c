------------------------- MODULE GenerationPipeline -------------------------
(***************************************************************************)
(* The generation jobs of one component (domain/generation.ts,             *)
(* generation/worker.ts, domain/generated-component.ts).  A worker leases  *)
(* a job and takes it through its phases: plan, implement, deploy a        *)
(* candidate release, integrate, validate, conformance, activate.  A       *)
(* failure removes the candidate and tries again or ends the job; the      *)
(* OWNER cancels, answers questions and starts follow-ups; the monitor     *)
(* queues repairs.                                                         *)
(*                                                                         *)
(* One action is one transaction or one step of the privileged helper.     *)
(* Discussion and approval are modelled in GenerationDiscussion, the       *)
(* confirmation of an activation in ComponentControl: here they are single *)
(* steps.  Workspaces, grants and dependencies change no state that this   *)
(* module keeps and are part of the step they belong to.                   *)
(***************************************************************************)
EXTENDS Integers, Sequences

CONSTANTS
  Workers,       \* generation workers
  NoWorker,      \* null of lease_owner
  MaxJobs,       \* bound: jobs of the component
  MaxAttempts,   \* MAX_REMEDIATION_ATTEMPTS
  MaxQuestions,  \* bound: inputs that the model asks for
  MaxOrders,     \* bound: what the OWNER and the monitor do
  MaxCrashes,    \* bound: restarts of a worker
  MaxStalls      \* bound: leases that run out while their worker is alive

ASSUME PipelineAssumption ==
  /\ NoWorker \notin Workers
  /\ MaxJobs \in Nat \ {0} /\ MaxAttempts \in Nat /\ MaxQuestions \in Nat
  /\ MaxOrders \in Nat /\ MaxCrashes \in Nat /\ MaxStalls \in Nat

VARIABLES
  job,        \* generation_job with its inputs and its lease
  release,    \* local_component_release, in the order of insertion
  runtime,    \* the release that the component's current link and service run; 0: none
  component,  \* the component's activation and active revision
  revisions,  \* how many revisions the component has
  worker,     \* local state of processNextGenerationJob
  budget      \* environment: what the bounds count

vars == <<job, release, runtime, component, revisions, worker, budget>>

Jobs == 1..MaxJobs

-----------------------------------------------------------------------------
Phases   == {"ANALYZING", "IMPLEMENTING", "INTEGRATING", "VALIDATING",
             "CML_CONFORMANCE", "ACTIVATING"}
Ended    == {"COMPLETED", "FAILED", "BLOCKED", "CANCELLED"}
JobKind  == {"CREATE", "RETRY", "REPAIR"}

Component ==
  [activation : {"NONE", "INACTIVE", "READY_FOR_ACTIVATION", "ENABLE_REQUESTED", "ACTIVE",
                 "BLOCKED", "DISABLE_REQUESTED"},
   rev : Nat]
NoBase == [activation |-> "NONE", rev |-> 0]

JobState ==
  [state    : Phases \union Ended \union {"ABSENT", "DISCUSSING"},
   kind     : JobKind,
   source   : 0..MaxJobs,                       \* parent_job_id
   plan     : BOOLEAN,                          \* plan is not null
   reserved : BOOLEAN,                          \* its generation_component exists
   inputs   : {"none", "missing", "supplied"},  \* generation_job_input
   resume   : {"none"} \union Phases,
   attempts : Nat,                              \* remediation_attempts
   base     : Component,                        \* _kcmlBaseComponentState
   uncleaned : BOOLEAN,                         \* blocker generation_candidate_cleanup_failed
   owner    : Workers \union {NoWorker},
   leased   : BOOLEAN]                          \* lease_until >= now()

NoJob ==
  [state |-> "ABSENT", kind |-> "CREATE", source |-> 0, plan |-> FALSE, reserved |-> FALSE,
   inputs |-> "none", resume |-> "none", attempts |-> 0, base |-> NoBase, uncleaned |-> FALSE,
   owner |-> NoWorker, leased |-> FALSE]

ReleaseState ==
  [state  : {"STAGED", "ACTIVE", "SUPERSEDED", "ROLLED_BACK", "FAILED"},
   job    : Jobs,     \* generation_job_id
   rev    : Nat,
   previous : Nat,    \* previous_release_id
   passed : BOOLEAN]  \* conformance_passed_at

WorkerState ==
  [pc   : {"idle", "claimed", "analyze", "plan", "implement", "replan", "generate", "deploy",
           "switch", "activate", "undo", "integrate", "integrating", "validate", "conform",
           "test", "order", "enable", "verify", "reach", "complete", "failed", "clean", "switchBack",
           "mark", "restore", "settle", "release"},
   job  : 0..MaxJobs,
   rev  : Nat,           \* the revision it registered
   new  : Nat,           \* the release it deploys or removes
   prev : Nat,           \* the release before that
   goal : {"none", "INTEGRATING", "IMPLEMENTING", "FAILED", "BLOCKED"},
   tries : Nat,
   dirty : BOOLEAN]      \* the candidate could not be removed
IdleWorker == [pc |-> "idle", job |-> 0, rev |-> 0, new |-> 0, prev |-> 0,
               goal |-> "none", tries |-> 0, dirty |-> FALSE]

Budget == [questions : 0..MaxQuestions, orders : 0..MaxOrders,
           crashes : 0..MaxCrashes, stalls : 0..MaxStalls]

\* The first job was approved; the component has no release yet.
Init ==
  /\ job = [j \in Jobs |-> IF j = 1 THEN [NoJob EXCEPT !.state = "ANALYZING"] ELSE NoJob]
  /\ release = <<>> /\ runtime = 0
  /\ component = NoBase /\ revisions = 0
  /\ worker = [w \in Workers |-> IdleWorker]
  /\ budget = [questions |-> 0, orders |-> 0, crashes |-> 0, stalls |-> 0]

-----------------------------------------------------------------------------
Is(r, s)  == r \in 1..Len(release) /\ release[r].state = s
Active    == {r \in 1..Len(release) : release[r].state = "ACTIVE"}
\* The ACTIVE release, 0 when there is none (local_component_release_active_idx).
ActiveRelease == IF Active = {} THEN 0 ELSE CHOOSE r \in Active : TRUE

At(w, pc)   == worker[w].pc = pc
Mine(w)     == worker[w].job
Goto(w, pc) == worker' = [worker EXCEPT ![w].pc = pc]

\* cancellationCheckpoint, and the guard state<>'CANCELLED' of every update.
Alive(w) == job[Mine(w)].state # "CANCELLED"

\* setGenerationState: it looks at neither the lease nor the present phase.
SetState(j, s) == job' = [job EXCEPT ![j].state = s, ![j].uncleaned = FALSE]

\* A step that only moves the job to its next phase.
Phase(w, from, s, to) ==
  /\ At(w, from) /\ Alive(w)
  /\ SetState(Mine(w), s)
  /\ Goto(w, to)
  /\ UNCHANGED <<release, runtime, component, revisions, budget>>

-----------------------------------------------------------------------------
(* Claim, dispatch, release.                                                *)

Claim(w, j) ==
  /\ At(w, "idle")
  /\ job[j].state \in Phases
  /\ ~job[j].leased \/ job[j].owner = w
  /\ job' = [job EXCEPT ![j].owner = w, ![j].leased = TRUE]
  /\ worker' = [worker EXCEPT ![w] = [IdleWorker EXCEPT !.pc = "claimed", !.job = j]]
  /\ UNCHANGED <<release, runtime, component, revisions, budget>>

Entry(s) ==
  CASE s = "ANALYZING"       -> "analyze"
    [] s = "IMPLEMENTING"    -> "implement"
    [] s = "INTEGRATING"     -> "integrate"
    [] s = "VALIDATING"      -> "validate"
    [] s = "CML_CONFORMANCE" -> "conform"
    [] s = "ACTIVATING"      -> "verify"
    [] OTHER                 -> "release"

\* The candidate of a phase after IMPLEMENTING is the job's ACTIVE release.
Candidate_AnyJob(j) == Active
Candidate(j) == {r \in Active : release[r].job = j}

Dispatch(w) ==
  LET j == Mine(w)  s == job[j].state IN
  /\ At(w, "claimed") /\ Alive(w)
  /\ IF s \in {"INTEGRATING", "VALIDATING", "CML_CONFORMANCE"}
       THEN IF ~job[j].plan \/ Candidate(j) = {}
              THEN Goto(w, "failed")
              ELSE worker' = [worker EXCEPT ![w].pc = Entry(s),
                     ![w].rev = release[ActiveRelease].rev]
       ELSE Goto(w, Entry(s))
  /\ UNCHANGED <<job, release, runtime, component, revisions, budget>>

\* The job was cancelled: the poll or the next checkpoint aborts the phase.
Checkpoints == {"claimed", "analyze", "plan", "implement", "replan", "generate", "deploy",
                "integrate", "integrating", "validate", "conform", "test", "order", "enable", "verify", "reach", "complete"}

Aborted(w) ==
  /\ worker[w].pc \in Checkpoints /\ ~Alive(w)
  /\ worker' = [worker EXCEPT ![w].pc = "clean", ![w].goal = "none"]
  /\ UNCHANGED <<job, release, runtime, component, revisions, budget>>

ReleaseLease(w) ==
  /\ At(w, "release")
  /\ job' = [job EXCEPT ![Mine(w)] =
       IF @.owner = w THEN [@ EXCEPT !.owner = NoWorker, !.leased = FALSE] ELSE @]
  /\ worker' = [worker EXCEPT ![w] = IdleWorker]
  /\ UNCHANGED <<release, runtime, component, revisions, budget>>

-----------------------------------------------------------------------------
(* ANALYZING and IMPLEMENTING.                                              *)

StartAnalysis(w) == Phase(w, "analyze", "ANALYZING", "plan")

\* An implementation that finds no plan (its analysis failed) makes one first.
StartReplan(w) ==
  /\ At(w, "implement") /\ ~job[Mine(w)].plan
  /\ Phase(w, "implement", "ANALYZING", "replan")

\* setGenerationPlan.  After a new plan in IMPLEMENTING the worker goes on, also
\* when the plan has an input that only the OWNER can give.
SetPlan(w) ==
  LET j == Mine(w) IN
  /\ worker[w].pc \in {"plan", "replan"} /\ Alive(w)
  /\ \/ /\ job' = [job EXCEPT ![j] = [@ EXCEPT !.plan = TRUE, !.inputs = "none",
                     !.state = "IMPLEMENTING", !.resume = "none"]]
        /\ UNCHANGED budget
     \/ /\ budget.questions < MaxQuestions
        /\ budget' = [budget EXCEPT !.questions = @ + 1]
        /\ job' = [job EXCEPT ![j] = [@ EXCEPT !.plan = TRUE, !.inputs = "missing",
                     !.state = "BLOCKED", !.resume = "ANALYZING"]]
  /\ Goto(w, IF At(w, "plan") THEN "release" ELSE "implement")
  /\ UNCHANGED <<release, runtime, component, revisions>>

\* Reservation, runtime identity, grants and workspace, then the model works.
Implement(w) ==
  LET j == Mine(w) IN
  /\ At(w, "implement") /\ Alive(w)
  /\ job[j].plan
  /\ job' = [job EXCEPT ![j] = [@ EXCEPT !.reserved = TRUE, !.state = "IMPLEMENTING",
                                         !.uncleaned = FALSE]]
  /\ component' = IF component = NoBase THEN [NoBase EXCEPT !.activation = "INACTIVE"]
                  ELSE component
  /\ Goto(w, "generate")
  /\ UNCHANGED <<release, runtime, revisions, budget>>

\* setGenerationNeedsInput: the OWNER has to give an input, or Secret Manager
\* already has it and the phase starts again.  Either way the lease is given up.
AskOwner(w) ==
  LET j == Mine(w)
      resume == IF At(w, "generate") THEN "IMPLEMENTING" ELSE "INTEGRATING" IN
  /\ worker[w].pc \in {"generate", "integrating"} /\ Alive(w)
  /\ budget.questions < MaxQuestions
  /\ budget' = [budget EXCEPT !.questions = @ + 1]
  /\ \/ job' = [job EXCEPT ![j] = [@ EXCEPT !.inputs = "missing", !.state = "BLOCKED",
                  !.resume = resume, !.owner = NoWorker, !.leased = FALSE]]
     \/ /\ job[j].inputs # "missing"
        /\ job' = [job EXCEPT ![j] = [@ EXCEPT !.inputs = "supplied", !.state = resume,
                     !.resume = "none", !.owner = NoWorker, !.leased = FALSE]]
  /\ Goto(w, "release")
  /\ UNCHANGED <<release, runtime, component, revisions>>

\* registerGeneratedRevision takes the component out of service.
Registered == [activation |-> "INACTIVE", rev |-> revisions + 1]

Register(w) ==
  /\ At(w, "generate") /\ Alive(w)
  /\ revisions' = revisions + 1
  /\ component' = Registered
  /\ worker' = [worker EXCEPT ![w].pc = "deploy", ![w].rev = revisions']
  /\ UNCHANGED <<job, release, runtime, budget>>

-----------------------------------------------------------------------------
(* deployGeneratedRelease.                                                  *)

Stage(w) ==
  /\ At(w, "deploy") /\ Alive(w)
  /\ release' = Append(release, [state |-> "STAGED", job |-> Mine(w), rev |-> worker[w].rev,
                                 previous |-> ActiveRelease, passed |-> FALSE])
  /\ worker' = [worker EXCEPT ![w].pc = "switch", ![w].new = Len(release) + 1,
                              ![w].prev = ActiveRelease]
  /\ UNCHANGED <<job, runtime, component, revisions, budget>>

SwitchRuntime(w) ==
  /\ At(w, "switch")
  /\ runtime' = worker[w].new
  /\ Goto(w, "activate")
  /\ UNCHANGED <<job, release, component, revisions, budget>>

\* The service does not start: the release before it is put back.
StartFails(w) ==
  /\ At(w, "switch")
  /\ runtime' = worker[w].prev
  /\ release' = [release EXCEPT ![worker[w].new].state = "FAILED"]
  /\ Goto(w, "failed")
  /\ UNCHANGED <<job, component, revisions, budget>>

\* A release that becomes ACTIVE supersedes the ACTIVE one.
Superseded(new) ==
  [r \in 1..Len(release) |->
     IF r = new THEN [release[r] EXCEPT !.state = "ACTIVE"]
     ELSE IF r \in Active THEN [release[r] EXCEPT !.state = "SUPERSEDED"] ELSE release[r]]

\* The job's row is locked: a cancelled job activates nothing.
ActivateRelease(w) ==
  /\ At(w, "activate")
  /\ IF Alive(w)
       THEN release' = Superseded(worker[w].new) /\ Goto(w, "integrate")
       ELSE Goto(w, "undo") /\ UNCHANGED release
  /\ UNCHANGED <<job, runtime, component, revisions, budget>>

UndoDeploy(w) ==
  /\ At(w, "undo")
  /\ runtime' = worker[w].prev
  /\ release' = [release EXCEPT ![worker[w].new].state = "ROLLED_BACK"]
  /\ worker' = [worker EXCEPT ![w].pc = "clean", ![w].goal = "none"]
  /\ UNCHANGED <<job, component, revisions, budget>>

-----------------------------------------------------------------------------
(* INTEGRATING to COMPLETED.                                                *)

StartIntegration(w) == Phase(w, "integrate", "INTEGRATING", "integrating")
StartValidation(w)  == Phase(w, "integrating", "VALIDATING", "validate")
Validated(w)        == Phase(w, "validate", "CML_CONFORMANCE", "test")
StartConformance(w) == Phase(w, "conform", "CML_CONFORMANCE", "test")

\* verifyGeneratedComponentConformance: all gates of the revision passed.
Approve(w) ==
  /\ At(w, "test")
  /\ component' = [component EXCEPT !.activation = "READY_FOR_ACTIVATION"]
  /\ release' = [r \in 1..Len(release) |->
       IF r \in Active /\ release[r].rev = worker[w].rev
         THEN [release[r] EXCEPT !.passed = TRUE] ELSE release[r]]
  /\ Goto(w, "order")
  /\ UNCHANGED <<job, runtime, revisions, budget>>

StartActivation(w) == Phase(w, "order", "ACTIVATING", "enable")

\* A cancellation that comes after the last checkpoint does not stop it.
Enable(w) ==
  /\ At(w, "enable")
  /\ component' = IF component.activation = "READY_FOR_ACTIVATION"
                    THEN [component EXCEPT !.activation = "ENABLE_REQUESTED"] ELSE component
  /\ Goto(w, "release")
  /\ UNCHANGED <<job, release, runtime, revisions, budget>>

\* finalizeActivation: the activation failed, is not confirmed yet, or is.
Verify(w) ==
  /\ At(w, "verify") /\ Alive(w)
  /\ Goto(w, CASE component.activation = "BLOCKED" -> "failed"
               [] component.activation = "ACTIVE"  -> "reach"
               [] OTHER                            -> "release")
  /\ UNCHANGED <<job, release, runtime, component, revisions, budget>>

\* The active component is called at its public address.
Reach(w) ==
  /\ At(w, "reach") /\ Alive(w)
  /\ Goto(w, IF component.activation = "ACTIVE" /\ runtime # 0 THEN "complete" ELSE "failed")
  /\ UNCHANGED <<job, release, runtime, component, revisions, budget>>

Complete(w) == Phase(w, "complete", "COMPLETED", "release")

-----------------------------------------------------------------------------
(* Failure and cancellation.                                                *)

\* The model, the helper, a probe or a gate fails.
Fails(w) ==
  /\ worker[w].pc \in {"analyze", "plan", "implement", "replan", "generate", "deploy",
                       "integrate", "integrating", "validate", "test", "enable", "reach"}
  /\ Goto(w, "failed")
  /\ UNCHANGED <<job, release, runtime, component, revisions, budget>>

\* recoverGenerationTechnicalFailure, for the phase the job is in by now.
Goal(j, tries) ==
  CASE job[j].state = "ACTIVATING" /\ job[j].kind = "CREATE" -> "FAILED"
    [] tries <= MaxAttempts -> "IMPLEMENTING"
    [] OTHER -> "FAILED"

KeepsCandidate(j, tries) == job[j].state = "INTEGRATING" /\ tries <= MaxAttempts

Attempt_NotCounted(j) == job[j].attempts
Attempt(j) == job[j].attempts + 1

\* An invalid manifest with the same errors a second time blocks the job.
HandleFailure(w) ==
  LET j == Mine(w)  tries == Attempt(j) IN
  /\ At(w, "failed")
  /\ \/ /\ job[j].state = "IMPLEMENTING" /\ job[j].attempts > 0
        /\ worker' = [worker EXCEPT ![w].pc = "clean", ![w].goal = "BLOCKED", ![w].tries = tries]
        /\ UNCHANGED component
     \/ /\ KeepsCandidate(j, tries)
        /\ worker' = [worker EXCEPT ![w].pc = "settle", ![w].goal = "INTEGRATING", ![w].tries = tries]
        /\ UNCHANGED component
     \/ /\ ~KeepsCandidate(j, tries)
        /\ worker' = [worker EXCEPT ![w].pc = "clean", ![w].goal = Goal(j, tries), ![w].tries = tries]
        /\ component' = IF job[j].state = "ACTIVATING"
                          THEN [component EXCEPT !.activation = "DISABLE_REQUESTED"] ELSE component
  /\ UNCHANGED <<job, release, runtime, revisions, budget>>

\* cancelGeneratedCandidateRelease: only the job's own ACTIVE release is removed.
FindCandidate(w) ==
  LET own == Candidate(Mine(w)) IN
  /\ At(w, "clean")
  /\ worker' = [worker EXCEPT ![w] =
       IF own = {} THEN [@ EXCEPT !.pc = "restore"]
       ELSE [@ EXCEPT !.pc = "switchBack", !.new = ActiveRelease,
                      !.prev = release[ActiveRelease].previous]]
  /\ UNCHANGED <<job, release, runtime, component, revisions, budget>>

Restored_Stopped(w) == 0
Restored(w) == worker[w].prev

SwitchBack(w) ==
  /\ At(w, "switchBack")
  /\ runtime' = Restored(w)
  /\ Goto(w, "mark")
  /\ UNCHANGED <<job, release, component, revisions, budget>>

\* The unique index refuses a second ACTIVE release; the cleanup then starts again.
MarkRemoved(w) ==
  LET new == worker[w].new  prev == worker[w].prev IN
  /\ At(w, "mark")
  /\ IF prev = 0
       THEN /\ release' = IF Is(new, "ACTIVE") THEN [release EXCEPT ![new].state = "ROLLED_BACK"]
                          ELSE release
            /\ Goto(w, "restore") /\ UNCHANGED component
       ELSE IF Active \subseteq {new, prev}
              THEN /\ release' = [release EXCEPT ![new].state = "ROLLED_BACK",
                                                 ![prev].state = "ACTIVE"]
                   /\ component' = [component EXCEPT !.rev = release[prev].rev]
                   /\ Goto(w, "restore")
              ELSE Goto(w, "clean") /\ UNCHANGED <<release, component>>
  /\ UNCHANGED <<job, runtime, revisions, budget>>

\* The helper failed twice.  A cancellation only logs it, and a failure ends the
\* job; but the cleanup after a repeated validation error ends the process.
CleanupFails(w) ==
  /\ budget.crashes < MaxCrashes
  /\ worker[w].pc \in {"switchBack", "mark"}
  /\ budget' = [budget EXCEPT !.crashes = @ + 1]
  /\ worker' = [worker EXCEPT ![w] =
       CASE worker[w].goal = "none"    -> [@ EXCEPT !.pc = "restore"]
         [] worker[w].goal = "BLOCKED" -> [@ EXCEPT !.pc = "release"]
         [] OTHER -> [@ EXCEPT !.pc = "restore", !.goal = "FAILED", !.dirty = TRUE]]
  /\ UNCHANGED <<job, release, runtime, component, revisions>>

\* restoreRepairBaseState: whatever happened to the component since.
Restore(w) ==
  LET base == job[Mine(w)].base IN
  /\ At(w, "restore")
  /\ component' = IF base = NoBase THEN component ELSE base
  /\ Goto(w, IF worker[w].goal = "none" THEN "release" ELSE "settle")
  /\ UNCHANGED <<job, release, runtime, revisions, budget>>

Smaller(a, b) == IF a < b THEN a ELSE b

Settle(w) ==
  LET j == Mine(w)  me == worker[w] IN
  /\ At(w, "settle")
  /\ job' = IF Alive(w)
       THEN [job EXCEPT ![j] = [@ EXCEPT !.state = me.goal,
               !.uncleaned = me.dirty,
               !.attempts = IF me.goal = "FAILED" THEN Smaller(me.tries, MaxAttempts)
                            ELSE me.tries]]
       ELSE job
  /\ Goto(w, "release")
  /\ UNCHANGED <<release, runtime, component, revisions, budget>>

-----------------------------------------------------------------------------
(* The OWNER, the monitor and the component.                                *)

Order == budget.orders < MaxOrders /\ budget' = [budget EXCEPT !.orders = @ + 1]

Cancel(j) ==
  /\ Order
  /\ job[j].state \notin {"ABSENT", "COMPLETED", "CANCELLED"}
  /\ job' = [job EXCEPT ![j] = [@ EXCEPT !.state = "CANCELLED", !.owner = NoWorker,
                                         !.leased = FALSE]]
  /\ UNCHANGED <<release, runtime, component, revisions, worker>>

\* submitGenerationInputs: the job goes on where it was asked, or from its
\* analysis, whatever state it is in.
ResumeState(j) == IF job[j].resume = "none" THEN "ANALYZING" ELSE job[j].resume

SubmitInputs(j) ==
  /\ Order
  /\ job[j].inputs # "none" /\ job[j].state # "CANCELLED"
  /\ job' = [job EXCEPT ![j] = [@ EXCEPT !.inputs = "supplied", !.state = ResumeState(j),
                                         !.resume = "none", !.uncleaned = FALSE]]
  /\ UNCHANGED <<release, runtime, component, revisions, worker>>

\* The base of a repair is what the component is when the repair is ordered.
Base == IF ActiveRelease = 0 THEN NoBase ELSE component

NewJob(row) ==
  \E j \in Jobs :
    /\ job[j].state = "ABSENT" /\ \A i \in Jobs : i < j => job[i].state # "ABSENT"
    /\ job' = [job EXCEPT ![j] = row]

Open == Phases \union {"DISCUSSING"}

\* A follow-up of a job that reserved no component is about another component.
FollowUp(s) ==
  /\ Order
  /\ job[s].reserved
  /\ job[s].state \in {"FAILED", "BLOCKED", "CANCELLED"}
  /\ \A j \in Jobs : job[j].source = s => job[j].state \notin Open
  /\ NewJob([job[s] EXCEPT !.state = "DISCUSSING", !.source = s, !.base = Base,
               !.kind = IF ActiveRelease = 0 THEN "RETRY" ELSE "REPAIR",
               !.resume = "none", !.attempts = 0, !.uncleaned = FALSE,
               !.owner = NoWorker, !.leased = FALSE])
  /\ UNCHANGED <<release, runtime, component, revisions, worker>>

ApproveSpec(j) ==
  /\ job[j].state = "DISCUSSING"
  /\ SetState(j, "ANALYZING")
  /\ UNCHANGED <<release, runtime, component, revisions, worker, budget>>

\* enqueueGeneratedRepairJob, with the component's row locked.
EnqueueRepair ==
  /\ Order
  /\ component.activation = "ACTIVE" /\ ActiveRelease # 0
  /\ \A j \in Jobs : job[j].kind = "REPAIR" => job[j].state \notin Open
  /\ NewJob([NoJob EXCEPT !.state = "IMPLEMENTING", !.kind = "REPAIR", !.base = Base,
               !.plan = TRUE, !.reserved = TRUE])
  /\ UNCHANGED <<release, runtime, component, revisions, worker>>

OwnerDisable ==
  /\ Order
  /\ component.activation = "ACTIVE"
  /\ component' = [component EXCEPT !.activation = "DISABLE_REQUESTED"]
  /\ UNCHANGED <<job, release, runtime, revisions, worker>>

\* The command to enable is confirmed, or fails.
Answer ==
  /\ component.activation = "ENABLE_REQUESTED"
  /\ \E a \in {"ACTIVE", "BLOCKED"} : component' = [component EXCEPT !.activation = a]
  /\ UNCHANGED <<job, release, runtime, revisions, worker, budget>>

-----------------------------------------------------------------------------
(* Faults.                                                                  *)

\* The process is restarted under another name: nobody has its lease.
Crash(w) ==
  /\ budget.crashes < MaxCrashes
  /\ worker[w].pc # "idle"
  /\ budget' = [budget EXCEPT !.crashes = @ + 1]
  /\ worker' = [worker EXCEPT ![w] = IdleWorker]
  /\ job' = [j \in Jobs |-> IF job[j].owner = w THEN [job[j] EXCEPT !.owner = NoWorker] ELSE job[j]]
  /\ UNCHANGED <<release, runtime, component, revisions>>

LeaseExpires(j) ==
  /\ job[j].leased /\ job[j].owner = NoWorker
  /\ job' = [job EXCEPT ![j].leased = FALSE]
  /\ UNCHANGED <<release, runtime, component, revisions, worker, budget>>

\* The heartbeats of a living worker stop for three minutes.
Stall(j) ==
  /\ budget.stalls < MaxStalls
  /\ job[j].leased /\ job[j].owner # NoWorker
  /\ budget' = [budget EXCEPT !.stalls = @ + 1]
  /\ job' = [job EXCEPT ![j].leased = FALSE]
  /\ UNCHANGED <<release, runtime, component, revisions, worker>>

Heartbeat(w) ==
  /\ ~At(w, "idle")
  /\ job[Mine(w)].owner = w /\ ~job[Mine(w)].leased
  /\ job' = [job EXCEPT ![Mine(w)].leased = TRUE]
  /\ UNCHANGED <<release, runtime, component, revisions, worker, budget>>

-----------------------------------------------------------------------------
Work(w) ==
  \/ Dispatch(w) \/ Aborted(w) \/ ReleaseLease(w)
  \/ StartAnalysis(w) \/ StartReplan(w) \/ SetPlan(w) \/ Implement(w) \/ Register(w)
  \/ Stage(w) \/ SwitchRuntime(w) \/ ActivateRelease(w) \/ UndoDeploy(w)
  \/ StartIntegration(w) \/ StartValidation(w) \/ Validated(w) \/ StartConformance(w)
  \/ Approve(w) \/ StartActivation(w) \/ Enable(w) \/ Verify(w) \/ Reach(w) \/ Complete(w)
  \/ HandleFailure(w) \/ FindCandidate(w) \/ SwitchBack(w) \/ MarkRemoved(w)
  \/ Restore(w) \/ Settle(w)

Trouble(w) == AskOwner(w) \/ StartFails(w) \/ Fails(w) \/ CleanupFails(w)

Orders ==
  \/ \E j \in Jobs : Cancel(j) \/ SubmitInputs(j) \/ FollowUp(j) \/ ApproveSpec(j)
  \/ EnqueueRepair \/ OwnerDisable \/ Answer

Environment ==
  \/ \E w \in Workers : Crash(w) \/ Heartbeat(w)
  \/ \E j \in Jobs : LeaseExpires(j) \/ Stall(j)

Next ==
  \/ \E w \in Workers : Work(w) \/ Trouble(w) \/ \E j \in Jobs : Claim(w, j)
  \/ Orders \/ Environment

Spec == Init /\ [][Next]_vars

\* Workers poll and their steps have time limits, leases run out, and the
\* component answers its commands.
Fairness ==
  /\ \A w \in Workers : WF_vars(Work(w))
  /\ \A j \in Jobs : WF_vars(LeaseExpires(j)) /\ SF_vars(\E w \in Workers : Claim(w, j))
  /\ WF_vars(Answer)

FairSpec == Spec /\ Fairness

-----------------------------------------------------------------------------
(* Properties.                                                              *)

TypeOK ==
  /\ job \in [Jobs -> JobState]
  /\ release \in Seq(ReleaseState)
  /\ runtime \in 0..Len(release)
  /\ component \in Component
  /\ revisions \in Nat
  /\ worker \in [Workers -> WorkerState]
  /\ budget \in Budget

NoFault == budget.crashes = 0 /\ budget.stalls = 0
Switching(w) == worker[w].pc \in {"activate", "undo", "switchBack", "mark"}

\* Between two deployments the service runs the release that the database calls
\* ACTIVE, also when a deployment was refused, failed to start, or was rolled
\* back.  (A crash between the two writes breaks this until the next deployment.)
RuntimeIsActive ==
  NoFault /\ (\A w \in Workers : ~Switching(w)) => runtime = ActiveRelease

\* A job becomes COMPLETED only after a release of its own passed the conformance
\* gates, and, unless a worker was restarted or held up, only while the ACTIVE
\* release of the component runs: whatever repairs, failures, cancellations and
\* questions of other jobs did to the component and its releases meanwhile.
Measured(j) == \E r \in 1..Len(release) : release[r].job = j /\ release[r].passed

CompletedIsConformant ==
  [][\A j \in Jobs : job[j].state # "COMPLETED" /\ job'[j].state = "COMPLETED" =>
       /\ Measured(j)
       /\ NoFault => ActiveRelease # 0 /\ runtime = ActiveRelease]_vars

\* The release of a completed job can only be superseded by a later one: as
\* long as there is such a release the component keeps an ACTIVE one, whatever
\* repairs deploy, fail, are cancelled or crash (previous_release_id,
\* generation-release-cleanup.mjs).
Functional(r) ==
  /\ release[r].state \in {"ACTIVE", "SUPERSEDED"}
  /\ job[release[r].job].state = "COMPLETED"

FunctionalReleaseKept == [][(\E r \in DOMAIN release : Functional(r)) => Active' # {}]_vars

\* Whatever crashes, stalls, questions and failures happen, a job that is worked
\* on ends, waits for the OWNER, or awaits the answer to its activation.
EveryJobSettles ==
  \A j \in Jobs :
    job[j].state \in Phases ~> job[j].state \in Ended \union {"ACTIVATING"}

\* docs/ARCHITECTURE.md:52: the candidate of a cancelled job is removed.
CancelledLeavesNoCandidate ==
  \A j \in Jobs :
    job[j].state = "CANCELLED" /\ (\A w \in Workers : Mine(w) # j) => Candidate(j) = {}
=============================================================================
