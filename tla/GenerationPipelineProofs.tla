---------------------- MODULE GenerationPipelineProofs ----------------------
(***************************************************************************)
(* What the pipeline keeps for any number of jobs, releases and orders,    *)
(* with a crash at every step and a fault of every call.                   *)
(*                                                                         *)
(* Nothing in the claim of a job serialises the jobs of one component:     *)
(* what does is that one worker process is deployed, and it takes one job  *)
(* after the other.  That is the hypothesis OneWorker of the theorems.     *)
(*                                                                         *)
(* The argument.  The releases that are ACTIVE or SUPERSEDED form one      *)
(* chain: each names the one before it, and the ACTIVE one is the last     *)
(* (Chain).  A worker between two calls holds what it read before them:    *)
(* Deploys says that the release it stages names the ACTIVE one as its     *)
(* predecessor, Removes that the one it takes back is ACTIVE and its       *)
(* predecessor is the one it will restore, Tests and Passed that the       *)
(* release its job is measured by is its own, and Runs which release runs  *)
(* while the link, the service and the row are switched one after the      *)
(* other.  Two workers would break each of these.                          *)
(***************************************************************************)
EXTENDS GenerationPipeline, TLAPS

\* One worker process is deployed (deploy/systemd/kcml-generation-worker.service).
OneWorker == \E v \in Workers : \A w \in Workers : w = v

\* The releases that were ACTIVE and were not removed.
Live == {r \in 1..Len(release) : release[r].state \in {"ACTIVE", "SUPERSEDED"}}

Chain ==
  /\ Active = {} => Live = {}
  /\ \A a \in Active, s \in Live : s <= a
  /\ \A r \in 1..Len(release) : release[r].previous \in 0..(r - 1)
  /\ \A r \in Live : release[r].previous \in Live \union {0}
  /\ \A r, s \in Live : ~(release[r].previous < s /\ s < r)

AllMeasured == \A j \in Jobs : job[j].state \in {"ACTIVATING", "COMPLETED"} => Measured(j)

\* A question sends a job back, never to its activation.
Early == {"none", "ANALYZING", "IMPLEMENTING", "INTEGRATING"}
Resumes == \A j \in Jobs : job[j].resume \in Early

\* What a worker's local state promises.
Deploys(m) == m.pc \in {"switch", "activate", "undo"} =>
  /\ Is(m.new, "STAGED") /\ release[m.new].job = m.job
  /\ release[m.new].rev = m.rev
  /\ release[m.new].previous = ActiveRelease /\ m.prev = ActiveRelease
Removes(m) == m.pc \in {"switchBack", "mark"} =>
  /\ Is(m.new, "ACTIVE") /\ release[m.new].job = m.job
  /\ release[m.new].previous = m.prev
Tests(m) == m.pc \in {"integrate", "integrating", "validate", "conform", "test"} =>
  /\ ActiveRelease # 0 /\ release[ActiveRelease].job = m.job
  /\ release[ActiveRelease].rev = m.rev
Passed(m) == m.pc \in {"order", "enable", "verify", "reach", "complete"} => Measured(m.job)
Reached(m) == m.pc = "complete" => runtime # 0
Works(m) ==
  /\ m.pc # "idle" => m.job \in Jobs
  /\ m.pc \notin {"idle", "release"} => job[m.job].state # "COMPLETED"
  /\ m.pc = "settle" => m.goal # "none"
Runs(m) == NoFault =>
  runtime = CASE m.pc \in {"activate", "undo", "switchBack"} -> m.new
              [] m.pc = "mark" -> m.prev
              [] OTHER -> ActiveRelease
Good(m) ==
  /\ Works(m) /\ Deploys(m) /\ Removes(m) /\ Tests(m) /\ Passed(m) /\ Reached(m) /\ Runs(m)

Inv == TypeOK /\ Chain /\ AllMeasured /\ Resumes /\ \A w \in Workers : Good(worker[w])

-----------------------------------------------------------------------------
(* Types.                                                                   *)

\* The steps of a worker.
Steps ==
  {"idle", "claimed", "analyze", "plan", "implement", "replan", "generate", "deploy", "switch",
   "activate", "undo", "integrate", "integrating", "validate", "conform", "test", "order", "enable",
   "verify", "reach", "complete", "failed", "clean", "switchBack", "mark", "restore", "settle",
   "release"}

\* A job's row with another state, and a worker at another step.
LEMMA RowWith ==
  ASSUME NEW r \in JobState, NEW s \in Phases \union Ended
  PROVE  LET q == [[r EXCEPT !.state = s] EXCEPT !.uncleaned = FALSE] IN
         q \in JobState /\ q.state = s /\ q.resume = r.resume
BY DEF JobState

LEMMA WorkerAt ==
  ASSUME NEW m \in WorkerState, NEW p \in Steps, NEW q, q = [m EXCEPT !.pc = p]
  PROVE  /\ q \in WorkerState /\ q.pc = p /\ q.job = m.job /\ q.rev = m.rev /\ q.new = m.new
         /\ q.prev = m.prev /\ q.goal = m.goal
BY DEF WorkerState, Steps

LEMMA WorkerRev ==
  ASSUME NEW m \in WorkerState, NEW p \in Steps, NEW r \in Nat
  PROVE  LET q == [[m EXCEPT !.pc = p] EXCEPT !.rev = r] IN
         q \in WorkerState /\ q.pc = p /\ q.job = m.job /\ q.rev = r
BY DEF WorkerState, Steps

LEMMA WorkerJob ==
  ASSUME NEW m \in WorkerState, NEW p \in Steps, NEW j \in 0..MaxJobs
  PROVE  LET q == [[m EXCEPT !.pc = p] EXCEPT !.job = j] IN
         q \in WorkerState /\ q.pc = p /\ q.job = j
BY DEF WorkerState, Steps

LEMMA WorkerTyped ==
  ASSUME Inv, NEW w \in Workers
  PROVE  worker[w] \in WorkerState /\ Mine(w) = worker[w].job
BY DEF Inv, TypeOK, Mine

LEMMA Idle ==
  IdleWorker \in WorkerState /\ IdleWorker.pc = "idle" /\ IdleWorker.new = 0 /\ IdleWorker.job = 0
BY PipelineAssumption DEF IdleWorker, WorkerState

LEMMA NoJobTyped == NoJob \in JobState /\ NoJob.state = "ABSENT"
BY PipelineAssumption DEF NoJob, JobState, NoBase, Component, JobKind, Phases, Ended

\* A sequence of as many releases.
LEMMA Rewritten ==
  ASSUME NEW s \in Seq(ReleaseState), NEW f \in [1..Len(s) -> ReleaseState]
  PROVE  f \in Seq(ReleaseState) /\ Len(f) = Len(s)
OBVIOUS

LEMMA OneRelease ==
  ASSUME NEW s \in Seq(ReleaseState), NEW n \in 1..Len(s), NEW x \in ReleaseState,
         NEW t, t = [s EXCEPT ![n] = x]
  PROVE  /\ t \in Seq(ReleaseState) /\ Len(t) = Len(s)
         /\ \A r \in 1..Len(s) : t[r] = IF r = n THEN x ELSE s[r]
OBVIOUS

LEMMA Releases ==
  ASSUME TypeOK
  PROVE  /\ Len(release) \in Nat /\ DOMAIN release = 1..Len(release)
         /\ \A r \in 1..Len(release) : release[r] \in ReleaseState
BY DEF TypeOK

LEMMA TheActive ==
  ASSUME TypeOK, Chain
  PROVE  /\ Active \subseteq Live /\ Live \subseteq 1..Len(release)
         /\ ActiveRelease = 0 <=> Active = {}
         /\ ActiveRelease # 0 => ActiveRelease \in Active
         /\ \A a \in Active : a = ActiveRelease
         /\ ActiveRelease \in 0..Len(release)
<1>1. Active \subseteq Live /\ Live \subseteq 1..Len(release)
  BY DEF Active, Live
<1>2. Active # {} => ActiveRelease \in Active
  BY DEF ActiveRelease
<1>3. ASSUME NEW a \in Active
      PROVE  a = ActiveRelease
  <2>1. Len(release) \in Nat
    BY Releases
  <2>2. a \in Live /\ ActiveRelease \in Active /\ ActiveRelease \in Live
    BY <1>1, <1>2
  <2>3. a \in 1..Len(release) /\ ActiveRelease \in 1..Len(release)
    BY <1>1, <2>2
  <2>4. a <= ActiveRelease /\ ActiveRelease <= a
    BY <2>2 DEF Chain
  <2> QED
    BY <2>1, <2>3, <2>4
<1>4. Active = {} => ActiveRelease = 0
  BY DEF ActiveRelease
<1>5. 0 \notin Active
  BY <1>1, Releases
<1> QED
  BY <1>1, <1>2, <1>3, <1>4, <1>5, Releases

\* Nothing that is said of the releases changes when they do not.
LEMMA SameReleases ==
  ASSUME UNCHANGED release
  PROVE  /\ Active' = Active /\ ActiveRelease' = ActiveRelease /\ Live' = Live
         /\ \A j : Measured(j)' <=> Measured(j)
         /\ \A r, s : Is(r, s)' <=> Is(r, s)
         /\ Chain => Chain'
<1>1. Active' = Active
  BY DEF Active
<1>2. Live' = Live
  BY DEF Live
<1>3. ActiveRelease' = ActiveRelease
  BY <1>1 DEF ActiveRelease
<1> QED
  BY <1>1, <1>2, <1>3 DEF Measured, Is, Chain

-----------------------------------------------------------------------------
(* Steps that leave the releases and the service alone.                     *)

LEMMA Spent ==
  ASSUME budget \in Budget,
         \/ budget.questions < MaxQuestions /\ budget' = [budget EXCEPT !.questions = @ + 1]
         \/ budget.orders < MaxOrders /\ budget' = [budget EXCEPT !.orders = @ + 1]
         \/ budget.crashes < MaxCrashes /\ budget' = [budget EXCEPT !.crashes = @ + 1]
         \/ budget.stalls < MaxStalls /\ budget' = [budget EXCEPT !.stalls = @ + 1]
         \/ UNCHANGED budget
  PROVE  budget' \in Budget /\ (NoFault' => NoFault)
<1>1. CASE budget.questions < MaxQuestions /\ budget' = [budget EXCEPT !.questions = @ + 1]
  BY <1>1, PipelineAssumption DEF Budget, NoFault
<1>2. CASE budget.orders < MaxOrders /\ budget' = [budget EXCEPT !.orders = @ + 1]
  BY <1>2, PipelineAssumption DEF Budget, NoFault
<1>3. CASE budget.crashes < MaxCrashes /\ budget' = [budget EXCEPT !.crashes = @ + 1]
  BY <1>3, PipelineAssumption DEF Budget, NoFault
<1>4. CASE budget.stalls < MaxStalls /\ budget' = [budget EXCEPT !.stalls = @ + 1]
  BY <1>4, PipelineAssumption DEF Budget, NoFault
<1> QED
  BY <1>1, <1>2, <1>3, <1>4 DEF NoFault

\* What happens to the rows of the jobs.
JobsKept ==
  /\ job' \in [Jobs -> JobState]
  /\ \A j \in Jobs : job'[j].state \in {"ACTIVATING", "COMPLETED"} =>
       Measured(j)
  /\ \A j \in Jobs : job'[j].resume \in Early

Others ==
  /\ component' \in Component /\ revisions' \in Nat /\ budget' \in Budget
  /\ NoFault' => NoFault

LEMMA QuietStep ==
  ASSUME Inv, OneWorker, UNCHANGED <<release, runtime>>, JobsKept, Others,
         NEW w \in Workers, NEW q \in WorkerState, worker' = [worker EXCEPT ![w] = q],
         Good(q)'
  PROVE  Inv'
<1>1. TypeOK'
  BY DEF Inv, TypeOK, JobsKept, Others
<1>2. Chain' /\ AllMeasured' /\ Resumes'
  BY SameReleases DEF Inv, JobsKept, AllMeasured, Resumes
<1>3. \A v \in Workers : worker'[v] = q
  BY DEF OneWorker, Inv, TypeOK
<1>4. \A v \in Workers : Good(worker[v])'
  BY <1>3
<1> QED
  BY <1>1, <1>2, <1>4 DEF Inv

\* A worker only moves on, to a step that needs nothing of the releases.
Plain == {"claimed", "analyze", "plan", "implement", "replan", "generate", "deploy", "failed", "clean",
          "restore", "settle", "release"}

LEMMA PlainGood ==
  ASSUME Inv, NEW w \in Workers, worker[w].pc \notin {"activate", "undo", "switchBack", "mark"},
         UNCHANGED <<release, runtime>>, NoFault' => NoFault,
         NEW q \in WorkerState, q.pc \in Plain, q.job \in Jobs,
         q.pc # "release" => job'[q.job].state # "COMPLETED",
         q.pc = "settle" => q.goal # "none"
  PROVE  Good(q)'
<1>1. NoFault => runtime = ActiveRelease
  BY DEF Inv, Good, Runs
<1> QED
  BY <1>1, SameReleases DEF Good, Works, Deploys, Removes, Tests, Passed, Reached, Runs, Plain

LEMMA PlainMove ==
  ASSUME Inv, OneWorker, UNCHANGED <<release, runtime>>, JobsKept, Others,
         NEW w \in Workers, NEW p \in Plain, Goto(w, p),
         worker[w].pc \notin {"idle", "activate", "undo", "switchBack", "mark"},
         p # "release" => job'[Mine(w)].state # "COMPLETED",
         p = "settle" => worker[w].goal # "none"
  PROVE  Inv'
<1>1. PICK q : q = [worker[w] EXCEPT !.pc = p]
  OBVIOUS
<1>2. q \in WorkerState /\ q.pc = p /\ q.job = Mine(w) /\ q.goal = worker[w].goal
  <2>1. p \in Steps
    BY DEF Plain, Steps
  <2> QED
    BY <1>1, <2>1, WorkerAt, WorkerTyped
<1>3. worker' = [worker EXCEPT ![w] = q]
  BY <1>1 DEF Goto
<1>4. Mine(w) \in Jobs
  BY DEF Inv, Good, Works, Mine
<1>5. Good(q)'
  BY <1>2, <1>4, PlainGood DEF Others
<1> QED
  BY <1>2, <1>3, <1>5, QuietStep

\* The rows when no job changes, or one changes its state.
LEMMA NoRow ==
  ASSUME Inv, UNCHANGED job
  PROVE  JobsKept
BY DEF Inv, TypeOK, JobsKept, AllMeasured, Resumes

LEMMA OneRow ==
  ASSUME Inv, NEW j \in Jobs, NEW r \in JobState, job' = [job EXCEPT ![j] = r],
         r.state \in {"ACTIVATING", "COMPLETED"} => Measured(j),
         r.resume \in Early
  PROVE  JobsKept /\ job'[j] = r
BY DEF Inv, TypeOK, JobsKept, AllMeasured, Resumes

\* The worker takes its job to the next phase.
LEMMA PhaseRow ==
  ASSUME Inv, NEW w \in Workers, NEW s \in Phases \union Ended, SetState(Mine(w), s),
         Mine(w) \in Jobs,
         s \in {"ACTIVATING", "COMPLETED"} => Measured(Mine(w))
  PROVE  JobsKept /\ job'[Mine(w)].state = s
<1>1. PICK r : r = [[job[Mine(w)] EXCEPT !.state = s] EXCEPT !.uncleaned = FALSE]
  OBVIOUS
<1>2. r \in JobState /\ r.state = s /\ r.resume \in Early
  <2>1. job[Mine(w)] \in JobState /\ job[Mine(w)].resume \in Early
    BY DEF Inv, TypeOK, Resumes
  <2> QED
    BY <1>1, <2>1, RowWith
<1>3. job' = [job EXCEPT ![Mine(w)] = r]
  BY <1>1 DEF SetState, Inv, TypeOK
<1> QED
  BY <1>2, <1>3, OneRow

\* The row with the fields that an action writes.
LEMMA RowTyped ==
  ASSUME Inv, NEW j \in Jobs
  PROVE  /\ job[j] \in JobState
         /\ job[j].state \in Phases \union Ended \union {"ABSENT", "DISCUSSING"}
         /\ job[j].resume \in Early
         /\ job[j].owner \in Workers \union {NoWorker} /\ job[j].base \in Component
BY DEF Inv, TypeOK, JobState, Resumes

LEMMA ClaimStep ==
  ASSUME Inv, OneWorker, NEW w \in Workers, NEW j \in Jobs, Claim(w, j)
  PROVE  Inv'
<1>1. PICK q : q = [[IdleWorker EXCEPT !.pc = "claimed"] EXCEPT !.job = j]
  OBVIOUS
<1>2. q \in WorkerState /\ q.pc = "claimed" /\ q.job = j
  <2>1. "claimed" \in Steps /\ j \in 0..MaxJobs
    BY PipelineAssumption DEF Steps, Jobs
  <2> QED
    BY <1>1, <2>1, Idle, WorkerJob
<1>3. PICK r : r = [job[j] EXCEPT !.owner = w, !.leased = TRUE]
  OBVIOUS
<1>4. r \in JobState /\ r.state = job[j].state /\ r.resume \in Early
  BY <1>3, RowTyped DEF JobState
<1>5. job' = [job EXCEPT ![j] = r] /\ worker' = [worker EXCEPT ![w] = q]
  BY <1>1, <1>3 DEF Claim, Inv, TypeOK
<1>6. JobsKept /\ job'[j] = r
  BY <1>4, <1>5, OneRow DEF Inv, AllMeasured
<1>7. Others /\ UNCHANGED <<release, runtime>>
  BY DEF Claim, Others, Inv, TypeOK, NoFault
<1>8. Good(q)'
  BY <1>2, <1>4, <1>6, <1>7, PlainGood DEF Claim, At, Others, Plain, Phases
<1> QED
  BY <1>2, <1>5, <1>6, <1>7, <1>8, QuietStep

LEMMA ReleaseLeaseStep ==
  ASSUME Inv, OneWorker, NEW w \in Workers, ReleaseLease(w)
  PROVE  Inv'
<1>1. Mine(w) \in Jobs
  BY DEF Inv, Good, Works, ReleaseLease, At, Mine
<1>2. PICK r : r = IF job[Mine(w)].owner = w
                     THEN [job[Mine(w)] EXCEPT !.owner = NoWorker, !.leased = FALSE] ELSE job[Mine(w)]
  OBVIOUS
<1>3. r \in JobState /\ r.state = job[Mine(w)].state /\ r.resume \in Early
  BY <1>1, <1>2, RowTyped DEF JobState
<1>4. job' = [job EXCEPT ![Mine(w)] = r]
  BY <1>2 DEF ReleaseLease, Inv, TypeOK
<1>5. JobsKept
  BY <1>1, <1>3, <1>4, OneRow DEF Inv, AllMeasured
<1>6. Others /\ UNCHANGED <<release, runtime>>
  BY DEF ReleaseLease, Others, Inv, TypeOK, NoFault
<1>7. PICK q : q = IdleWorker
  OBVIOUS
<1>8. Good(q)'
  BY <1>6, <1>7, Idle, SameReleases
     DEF Inv, Good, Works, Deploys, Removes, Tests, Passed, Reached, Runs, ReleaseLease, At, Others
<1> QED
  BY <1>5, <1>6, <1>7, <1>8, Idle, QuietStep DEF ReleaseLease

LEMMA DispatchStep ==
  ASSUME Inv, OneWorker, NEW w \in Workers, Dispatch(w)
  PROVE  Inv'
<1> DEFINE s == job[Mine(w)].state
<1>1. Mine(w) \in Jobs /\ s # "COMPLETED"
  BY DEF Inv, Good, Works, Dispatch, At, Mine
<1>2. JobsKept /\ Others /\ UNCHANGED <<release, runtime>> /\ UNCHANGED job
  BY NoRow DEF Dispatch, Others, Inv, TypeOK, NoFault
<1>3. CASE s \in {"INTEGRATING", "VALIDATING", "CML_CONFORMANCE"} /\ (~job[Mine(w)].plan \/ Candidate(Mine(w)) = {})
  BY <1>1, <1>2, <1>3, PlainMove DEF Dispatch, At, Plain
<1>4. CASE s \in {"INTEGRATING", "VALIDATING", "CML_CONFORMANCE"} /\ Candidate(Mine(w)) # {} /\ job[Mine(w)].plan
  <2>1. ActiveRelease # 0 /\ release[ActiveRelease].job = Mine(w) /\ release[ActiveRelease] \in ReleaseState
    BY <1>4, TheActive, Releases DEF Candidate, Inv
  <2>2. PICK q : q = [[worker[w] EXCEPT !.pc = Entry(s)] EXCEPT !.rev = release[ActiveRelease].rev]
    OBVIOUS
  <2>3. Entry(s) \in {"integrate", "validate", "conform"}
    BY <1>4 DEF Entry
  <2>4. q \in WorkerState /\ q.pc = Entry(s) /\ q.job = Mine(w) /\ q.rev = release[ActiveRelease].rev
    <3>1. release[ActiveRelease].rev \in Nat
      BY <2>1 DEF ReleaseState
    <3>2. Entry(s) \in Steps
      BY <2>3 DEF Steps
    <3>3. worker[w] \in WorkerState /\ Mine(w) = worker[w].job
      BY WorkerTyped
    <3>4. PICK p \in Steps, r \in Nat : p = Entry(s) /\ r = release[ActiveRelease].rev
      BY <3>1, <3>2
    <3>5. q = [[worker[w] EXCEPT !.pc = p] EXCEPT !.rev = r]
      BY <2>2, <3>4
    <3>6. q \in WorkerState /\ q.pc = p /\ q.job = worker[w].job /\ q.rev = r
      <4> HIDE DEF s
      <4> QED
        BY <3>3, <3>5 DEF WorkerState, Steps
    <3> QED
      BY <3>3, <3>4, <3>6
  <2>5. worker' = [worker EXCEPT ![w] = q]
    BY <1>4, <2>2 DEF Dispatch, Inv, TypeOK
  <2>6. NoFault => runtime = ActiveRelease
    BY DEF Inv, Good, Runs, Dispatch, At
  <2>7. Good(q)'
    BY <1>1, <1>2, <2>1, <2>3, <2>4, <2>6, SameReleases
       DEF Good, Works, Deploys, Removes, Tests, Passed, Reached, Runs, Others
  <2> QED
    BY <1>2, <2>4, <2>5, <2>7, QuietStep
<1>5. CASE s \notin {"INTEGRATING", "VALIDATING", "CML_CONFORMANCE", "ACTIVATING"}
  <2>1. Entry(s) \in Plain \ {"settle"}
    BY <1>5 DEF Entry, Plain
  <2>2. Goto(w, Entry(s))
    BY <1>5 DEF Dispatch
  <2> QED
    BY <1>1, <1>2, <2>1, <2>2, PlainMove DEF Dispatch, At
<1>6. CASE s = "ACTIVATING"
  <2>1. PICK q : q = [worker[w] EXCEPT !.pc = "verify"]
    OBVIOUS
  <2>2. q \in WorkerState /\ q.pc = "verify" /\ q.job = Mine(w)
    BY <2>1, WorkerAt, WorkerTyped DEF Steps
  <2>3. worker' = [worker EXCEPT ![w] = q]
    BY <1>6, <2>1 DEF Dispatch, Entry, Goto
  <2>4. NoFault => runtime = ActiveRelease
    BY DEF Inv, Good, Runs, Dispatch, At
  <2>5. Measured(Mine(w))
    BY <1>1, <1>6 DEF Inv, AllMeasured
  <2>6. Good(q)'
    BY <1>1, <1>2, <2>2, <2>4, <2>5, SameReleases
       DEF Good, Works, Deploys, Removes, Tests, Passed, Reached, Runs, Others
  <2> QED
    BY <1>2, <2>2, <2>3, <2>6, QuietStep
<1> QED
  BY <1>3, <1>4, <1>5, <1>6

\* A step of a phase: the row's state, then a plain step.
LEMMA PhasePlain ==
  ASSUME Inv, OneWorker, NEW w \in Workers, NEW from, NEW s \in Phases \union Ended, NEW to \in Plain \ {"settle"},
         from \in Steps \ {"idle", "activate", "undo", "switchBack", "mark"},
         Phase(w, from, s, to), s # "ACTIVATING",
         s = "COMPLETED" => to = "release" /\ Measured(Mine(w))
  PROVE  Inv'
<1>1. Mine(w) \in Jobs
  BY DEF Inv, Good, Works, Phase, At, Mine
<1>2. JobsKept /\ job'[Mine(w)].state = s
  BY <1>1, PhaseRow DEF Phase
<1>3. Others /\ UNCHANGED <<release, runtime>> /\ Goto(w, to)
  BY DEF Phase, Others, Inv, TypeOK, NoFault
<1> QED
  BY <1>2, <1>3, PlainMove DEF Phase, At

\* A step between INTEGRATING and ACTIVATING.
LEMMA PhaseTests ==
  ASSUME Inv, OneWorker, NEW w \in Workers,
         NEW from, NEW s \in {"INTEGRATING", "VALIDATING", "CML_CONFORMANCE", "ACTIVATING"}, NEW to,
         \/ /\ from \in {"integrate", "integrating", "validate", "conform"}
            /\ to \in {"integrating", "validate", "test"} /\ s # "ACTIVATING"
         \/ from = "order" /\ to = "enable",
         Phase(w, from, s, to)
  PROVE  Inv'
<1>1. Mine(w) \in Jobs /\ worker[w].pc = from
  BY DEF Inv, Good, Works, Phase, At, Mine
<1>2. s \in Phases \union Ended /\ s # "COMPLETED"
  BY DEF Phases
<1>3. s = "ACTIVATING" => Measured(Mine(w))
  BY <1>1 DEF Inv, Good, Passed, Mine
<1>4. JobsKept /\ job'[Mine(w)].state = s
  BY <1>1, <1>2, <1>3, PhaseRow DEF Phase
<1>5. Others /\ UNCHANGED <<release, runtime>>
  BY DEF Phase, Others, Inv, TypeOK, NoFault
<1>6. PICK q : q = [worker[w] EXCEPT !.pc = to]
  OBVIOUS
<1>7. q \in WorkerState /\ q.pc = to /\ q.job = Mine(w) /\ q.rev = worker[w].rev
  BY <1>6, WorkerAt, WorkerTyped DEF Steps
<1>8. worker' = [worker EXCEPT ![w] = q]
  BY <1>6 DEF Phase, Goto
<1>9. /\ NoFault => runtime = ActiveRelease
      /\ to # "enable" => ActiveRelease # 0 /\ release[ActiveRelease].job = Mine(w)
                          /\ release[ActiveRelease].rev = worker[w].rev
      /\ to = "enable" => Measured(Mine(w))
  BY <1>1 DEF Inv, Good, Runs, Tests, Passed, Mine
<1>10. Good(q)'
  BY <1>1, <1>2, <1>4, <1>5, <1>7, <1>9, SameReleases
     DEF Good, Works, Deploys, Removes, Tests, Passed, Reached, Runs, Others
<1> QED
  BY <1>4, <1>5, <1>7, <1>8, <1>10, QuietStep

LEMMA PhaseSteps ==
  ASSUME Inv, OneWorker, NEW w \in Workers,
         \/ StartAnalysis(w) \/ StartReplan(w) \/ Complete(w)
         \/ StartIntegration(w) \/ StartValidation(w) \/ Validated(w)
         \/ StartConformance(w) \/ StartActivation(w)
  PROVE  Inv'
<1>1. CASE StartAnalysis(w)
  BY <1>1, PhasePlain DEF StartAnalysis, Phases, Plain, Steps
<1>2. CASE StartReplan(w)
  BY <1>2, PhasePlain DEF StartReplan, Phases, Plain, Steps
<1>3. CASE Complete(w)
  <2>1. Measured(Mine(w))
    BY <1>3 DEF Complete, Phase, At, Inv, Good, Passed, Mine
  <2> QED
    BY <1>3, <2>1, PhasePlain DEF Complete, Ended, Plain, Steps
<1>4. CASE StartIntegration(w)
  BY <1>4, PhaseTests DEF StartIntegration
<1>5. CASE StartValidation(w)
  BY <1>5, PhaseTests DEF StartValidation
<1>6. CASE Validated(w)
  BY <1>6, PhaseTests DEF Validated
<1>7. CASE StartConformance(w)
  BY <1>7, PhaseTests DEF StartConformance
<1>8. CASE StartActivation(w)
  BY <1>8, PhaseTests DEF StartActivation
<1> QED
  BY <1>1, <1>2, <1>3, <1>4, <1>5, <1>6, <1>7, <1>8

\* Steps of a worker that only move on.
LEMMA PlainSteps ==
  ASSUME Inv, OneWorker, NEW w \in Workers,
         \/ Verify(w) /\ component.activation # "ACTIVE"
         \/ Enable(w) \/ Restore(w) \/ Fails(w)
         \/ Reach(w) /\ ~(component.activation = "ACTIVE" /\ runtime # 0)
  PROVE  Inv'
<1>1. Mine(w) \in Jobs /\ JobsKept /\ (worker[w].pc # "release" => job[Mine(w)].state # "COMPLETED")
      /\ UNCHANGED <<job, release, runtime>> /\ worker[w].pc # "idle"
  BY NoRow DEF Inv, Good, Works, Mine, Verify, Enable, Restore, Fails, Reach, At
<1>2. Others
  <2>1. CASE Verify(w) \/ Fails(w) \/ Reach(w)
    BY <2>1 DEF Verify, Fails, Reach, Inv, TypeOK, Others, NoFault
  <2>2. CASE Enable(w)
    BY <2>2 DEF Enable, Inv, TypeOK, Others, NoFault, Component
  <2>3. CASE Restore(w)
    BY <2>3, <1>1, RowTyped DEF Restore, Inv, TypeOK, Others, NoFault
  <2> QED
    BY <2>1, <2>2, <2>3
<1>3. PICK p \in Plain : Goto(w, p) /\ (p = "settle" => worker[w].goal # "none")
  BY DEF Verify, Fails, Reach, Enable, Restore, Plain
<1> QED
  BY <1>1, <1>2, <1>3, PlainMove DEF Verify, Fails, Reach, Enable, Restore, At

\* The worker goes on to look whether the activation is complete.
LEMMA ReachStep ==
  ASSUME Inv, OneWorker, NEW w \in Workers,
         \/ Verify(w) /\ component.activation = "ACTIVE"
         \/ Reach(w) /\ component.activation = "ACTIVE" /\ runtime # 0
  PROVE  Inv'
<1>1. Mine(w) \in Jobs /\ JobsKept /\ job[Mine(w)].state # "COMPLETED"
      /\ UNCHANGED <<job, release, runtime>>
  BY NoRow DEF Inv, Good, Works, Mine, Verify, Reach, At
<1>2. Others
  BY DEF Verify, Reach, Inv, TypeOK, Others, NoFault
<1>3. PICK q : q = [worker[w] EXCEPT !.pc = IF At(w, "verify") THEN "reach" ELSE "complete"]
  OBVIOUS
<1>4. q \in WorkerState /\ q.pc = (IF At(w, "verify") THEN "reach" ELSE "complete") /\ q.job = Mine(w)
  BY <1>3, WorkerAt, WorkerTyped DEF Steps
<1>5. worker' = [worker EXCEPT ![w] = q]
  BY <1>3 DEF Verify, Reach, Goto, At
<1>6. (NoFault => runtime = ActiveRelease) /\ Measured(Mine(w)) /\ (q.pc = "complete" => runtime # 0)
  BY <1>4 DEF Inv, Good, Runs, Passed, Verify, Reach, At, Mine
<1>7. Good(q)'
  BY <1>1, <1>2, <1>4, <1>6, SameReleases
     DEF Good, Works, Deploys, Removes, Tests, Passed, Reached, Runs, Others
<1> QED
  BY <1>1, <1>2, <1>4, <1>5, <1>7, QuietStep

\* Analysis, implementation and the questions to the OWNER.
LEMMA SetPlanStep ==
  ASSUME Inv, OneWorker, NEW w \in Workers, SetPlan(w)
  PROVE  Inv'
<1>1. Mine(w) \in Jobs
  BY DEF Inv, Good, Works, SetPlan, Mine
<1>2. PICK r : /\ \/ r = [job[Mine(w)] EXCEPT !.plan = TRUE, !.inputs = "none", !.state = "IMPLEMENTING",
                                              !.resume = "none"]
                  \/ r = [job[Mine(w)] EXCEPT !.plan = TRUE, !.inputs = "missing", !.state = "BLOCKED",
                                              !.resume = "ANALYZING"]
               /\ job' = [job EXCEPT ![Mine(w)] = r]
  BY DEF SetPlan
<1>3. r \in JobState /\ r.state \in {"IMPLEMENTING", "BLOCKED"} /\ r.resume \in Early
  <2>1. job[Mine(w)] \in JobState
    BY <1>1, RowTyped
  <2> QED
    BY <1>2, <2>1 DEF JobState, Phases, Ended, Early
<1>4. JobsKept /\ job'[Mine(w)] = r
  BY <1>1, <1>2, <1>3, OneRow
<1>5. Others /\ UNCHANGED <<release, runtime>>
  BY Spent DEF SetPlan, Others, Inv, TypeOK
<1>6. PICK p \in Plain \ {"settle"} : Goto(w, p)
  BY DEF SetPlan, Plain
<1> QED
  BY <1>3, <1>4, <1>5, <1>6, PlainMove DEF SetPlan

LEMMA ImplementStep ==
  ASSUME Inv, OneWorker, NEW w \in Workers, Implement(w)
  PROVE  Inv'
<1>1. Mine(w) \in Jobs
  BY DEF Inv, Good, Works, Implement, At, Mine
<1>2. PICK r : /\ r = [job[Mine(w)] EXCEPT !.reserved = TRUE, !.state = "IMPLEMENTING", !.uncleaned = FALSE]
               /\ job' = [job EXCEPT ![Mine(w)] = r]
  BY DEF Implement
<1>3. r \in JobState /\ r.state = "IMPLEMENTING" /\ r.resume \in Early
  <2>1. job[Mine(w)] \in JobState /\ job[Mine(w)].resume \in Early
    BY <1>1, RowTyped
  <2> QED
    BY <1>2, <2>1 DEF JobState, Phases, Ended
<1>4. JobsKept /\ job'[Mine(w)] = r
  BY <1>1, <1>2, <1>3, OneRow
<1>5. Others /\ UNCHANGED <<release, runtime>>
  BY DEF Implement, Others, Inv, TypeOK, NoFault, Component, NoBase
<1> QED
  BY <1>3, <1>4, <1>5, PlainMove DEF Implement, At, Plain

LEMMA AskOwnerStep ==
  ASSUME Inv, OneWorker, NEW w \in Workers, AskOwner(w)
  PROVE  Inv'
<1>1. Mine(w) \in Jobs
  BY DEF Inv, Good, Works, AskOwner, Mine
<1> DEFINE resume == IF At(w, "generate") THEN "IMPLEMENTING" ELSE "INTEGRATING"
<1>2. PICK r : /\ \/ r = [job[Mine(w)] EXCEPT !.inputs = "missing", !.state = "BLOCKED",
                                              !.resume = resume, !.owner = NoWorker, !.leased = FALSE]
                  \/ r = [job[Mine(w)] EXCEPT !.inputs = "supplied", !.state = resume,
                                              !.resume = "none", !.owner = NoWorker, !.leased = FALSE]
               /\ job' = [job EXCEPT ![Mine(w)] = r]
  BY DEF AskOwner
<1>3. r \in JobState /\ r.state \in {"IMPLEMENTING", "INTEGRATING", "BLOCKED"} /\ r.resume \in Early
  <2>1. resume \in {"IMPLEMENTING", "INTEGRATING"}
    OBVIOUS
  <2>2. job[Mine(w)] \in JobState
    BY <1>1, RowTyped
  <2> HIDE DEF resume
  <2> QED
    BY <1>2, <2>1, <2>2 DEF JobState, Phases, Ended, Early
<1>4. JobsKept /\ job'[Mine(w)] = r
  BY <1>1, <1>2, <1>3, OneRow
<1>5. Others /\ UNCHANGED <<release, runtime>>
  BY Spent DEF AskOwner, Others, Inv, TypeOK
<1> QED
  BY <1>3, <1>4, <1>5, PlainMove DEF AskOwner, Plain

LEMMA AbortedStep ==
  ASSUME Inv, OneWorker, NEW w \in Workers, Aborted(w)
  PROVE  Inv'
<1>1. PICK q : q = [[worker[w] EXCEPT !.pc = "clean"] EXCEPT !.goal = "none"]
  OBVIOUS
<1>2. q \in WorkerState /\ q.pc = "clean" /\ q.job = Mine(w)
  <2>1. worker[w] \in WorkerState /\ Mine(w) = worker[w].job
    BY WorkerTyped
  <2> QED
    BY <1>1, <2>1 DEF WorkerState
<1>3. worker' = [worker EXCEPT ![w] = q]
  BY <1>1 DEF Aborted, Inv, TypeOK
<1>4. Mine(w) \in Jobs /\ JobsKept /\ Others /\ UNCHANGED <<job, release, runtime>>
      /\ job[Mine(w)].state # "COMPLETED"
  BY NoRow DEF Aborted, Others, Inv, TypeOK, NoFault, Good, Works, Mine, Checkpoints
<1>5. Good(q)'
  BY <1>2, <1>4, PlainGood DEF Aborted, Checkpoints, Plain, Others
<1> QED
  BY <1>2, <1>3, <1>4, <1>5, QuietStep

LEMMA RegisterStep ==
  ASSUME Inv, OneWorker, NEW w \in Workers, Register(w)
  PROVE  Inv'
<1>1. PICK q : q = [[worker[w] EXCEPT !.pc = "deploy"] EXCEPT !.rev = revisions + 1]
  OBVIOUS
<1>2. q \in WorkerState /\ q.pc = "deploy" /\ q.job = Mine(w)
  <2>1. worker[w] \in WorkerState /\ Mine(w) = worker[w].job
    BY WorkerTyped
  <2>2. revisions + 1 \in Nat
    BY DEF Inv, TypeOK
  <2> QED
    BY <1>1, <2>1, <2>2 DEF WorkerState
<1>3. worker' = [worker EXCEPT ![w] = q]
  BY <1>1 DEF Register, Inv, TypeOK
<1>4. Mine(w) \in Jobs /\ JobsKept /\ UNCHANGED <<job, release, runtime>>
      /\ job[Mine(w)].state # "COMPLETED"
  BY NoRow DEF Register, Inv, Good, Works, Mine, At
<1>5. Others
  BY DEF Register, Registered, Component, Others, Inv, TypeOK, NoFault
<1>6. Good(q)'
  BY <1>2, <1>4, <1>5, PlainGood DEF Register, At, Plain, Others
<1> QED
  BY <1>2, <1>3, <1>4, <1>5, <1>6, QuietStep

LEMMA HandleFailureStep ==
  ASSUME Inv, OneWorker, NEW w \in Workers, HandleFailure(w)
  PROVE  Inv'
<1>0. Mine(w) \in Jobs /\ JobsKept /\ UNCHANGED <<job, release, runtime>>
      /\ job[Mine(w)].state # "COMPLETED"
  BY NoRow DEF HandleFailure, Inv, Good, Works, Mine, At
<1> DEFINE tries == Attempt(Mine(w))
<1>1. tries \in Nat
  <2>1. job[Mine(w)].attempts \in Nat
    BY <1>0, RowTyped DEF JobState
  <2> QED
    BY <2>1 DEF Attempt
<1>2. Goal(Mine(w), tries) \in {"IMPLEMENTING", "FAILED"}
  BY DEF Goal
<1> HIDE DEF tries
<1>3. PICK p \in {"clean", "settle"}, g \in {"INTEGRATING", "IMPLEMENTING", "FAILED", "BLOCKED"} :
        worker' = [worker EXCEPT ![w].pc = p, ![w].goal = g, ![w].tries = tries]
  BY <1>2 DEF HandleFailure, tries
<1>4. PICK q : q = [[[worker[w] EXCEPT !.pc = p] EXCEPT !.goal = g] EXCEPT !.tries = tries]
  OBVIOUS
<1>5. q \in WorkerState /\ q.pc = p /\ q.job = Mine(w) /\ q.goal = g
  <2>1. worker[w] \in WorkerState /\ Mine(w) = worker[w].job
    BY WorkerTyped
  <2> QED
    BY <1>1, <1>4, <2>1 DEF WorkerState
<1>6. worker' = [worker EXCEPT ![w] = q]
  BY <1>3, <1>4 DEF Inv, TypeOK
<1>7. Others
  BY DEF HandleFailure, Component, Others, Inv, TypeOK, NoFault
<1>8. Good(q)'
  BY <1>0, <1>5, <1>7, PlainGood DEF HandleFailure, At, Plain, Others
<1> QED
  BY <1>0, <1>5, <1>6, <1>7, <1>8, QuietStep

LEMMA FindCandidateStep ==
  ASSUME Inv, OneWorker, NEW w \in Workers, FindCandidate(w)
  PROVE  Inv'
<1>0. Mine(w) \in Jobs /\ JobsKept /\ Others /\ UNCHANGED <<job, release, runtime>>
      /\ job[Mine(w)].state # "COMPLETED" /\ (NoFault => runtime = ActiveRelease)
  BY NoRow DEF FindCandidate, Inv, Good, Works, Runs, Mine, At, Others, NoFault, TypeOK
<1>1. CASE Candidate(Mine(w)) = {}
  BY <1>0, <1>1, PlainMove DEF FindCandidate, At, Plain, Goto
<1>2. CASE Candidate(Mine(w)) # {}
  <2>1. ActiveRelease \in Active /\ release[ActiveRelease].job = Mine(w) /\ ActiveRelease \in 1..Len(release)
    BY <1>2, TheActive DEF Candidate, Inv
  <2>2. release[ActiveRelease].previous \in Nat /\ ActiveRelease \in Nat
    BY <2>1, Releases DEF ReleaseState, Inv
  <2>3. PICK q : q = [[[worker[w] EXCEPT !.pc = "switchBack"] EXCEPT !.new = ActiveRelease]
                        EXCEPT !.prev = release[ActiveRelease].previous]
    OBVIOUS
  <2>4. /\ q \in WorkerState /\ q.pc = "switchBack" /\ q.job = Mine(w)
        /\ q.new = ActiveRelease /\ q.prev = release[ActiveRelease].previous
    <3>1. worker[w] \in WorkerState /\ Mine(w) = worker[w].job
      BY WorkerTyped
    <3> QED
      BY <2>2, <2>3, <3>1 DEF WorkerState
  <2>5. worker' = [worker EXCEPT ![w] = q]
    BY <1>2, <2>3 DEF FindCandidate, Inv, TypeOK
  <2>6. Is(ActiveRelease, "ACTIVE")
    BY <2>1 DEF Is, Active
  <2>7. Good(q)'
    BY <1>0, <2>1, <2>4, <2>6, SameReleases
       DEF Good, Works, Deploys, Removes, Tests, Passed, Reached, Runs, Others
  <2> QED
    BY <1>0, <2>4, <2>5, <2>7, QuietStep
<1> QED
  BY <1>1, <1>2

LEMMA SettleStep ==
  ASSUME Inv, OneWorker, NEW w \in Workers, Settle(w)
  PROVE  Inv'
<1>0. Mine(w) \in Jobs
  BY DEF Settle, Inv, Good, Works, Mine, At
<1>1. worker[w].goal \in {"INTEGRATING", "IMPLEMENTING", "FAILED", "BLOCKED"} /\ worker[w].tries \in Nat
      /\ worker[w].dirty \in BOOLEAN
  BY WorkerTyped DEF WorkerState, Settle, At, Inv, Good, Works
<1>2. JobsKept
  <2>1. CASE ~Alive(w)
    BY <2>1, NoRow DEF Settle
  <2>2. CASE Alive(w)
    <3> DEFINE n == IF worker[w].goal = "FAILED" THEN Smaller(worker[w].tries, MaxAttempts) ELSE worker[w].tries
    <3>1. n \in Nat
      BY <1>1, PipelineAssumption DEF Smaller
    <3> HIDE DEF n
    <3>2. PICK g \in {"INTEGRATING", "IMPLEMENTING", "FAILED", "BLOCKED"}, b \in BOOLEAN :
            g = worker[w].goal /\ b = worker[w].dirty
      BY <1>1
    <3>3. PICK r : r = [job[Mine(w)] EXCEPT !.state = g, !.uncleaned = b, !.attempts = n]
      OBVIOUS
    <3>4. r \in JobState /\ r.state = g /\ r.resume \in Early
      <4>1. job[Mine(w)] \in JobState /\ job[Mine(w)].resume \in Early
        BY <1>0, RowTyped
      <4>2. g \in Phases \union Ended
        BY DEF Phases, Ended
      <4> QED
        BY <3>1, <3>3, <4>1, <4>2 DEF JobState
    <3>5. job' = [job EXCEPT ![Mine(w)] = r]
      BY <2>2, <3>2, <3>3 DEF Settle, n
    <3> QED
      BY <1>0, <3>4, <3>5, OneRow
  <2> QED
    BY <2>1, <2>2
<1>3. Others /\ UNCHANGED <<release, runtime>>
  BY DEF Settle, Others, Inv, TypeOK, NoFault
<1> QED
  BY <1>2, <1>3, PlainMove DEF Settle, At, Plain

LEMMA CleanupFailsStep ==
  ASSUME Inv, OneWorker, NEW w \in Workers, CleanupFails(w)
  PROVE  Inv'
<1>0. Mine(w) \in Jobs /\ JobsKept /\ UNCHANGED <<job, release, runtime>>
      /\ job[Mine(w)].state # "COMPLETED"
  BY NoRow DEF CleanupFails, Inv, Good, Works, Mine
<1>1. Others /\ ~NoFault'
  <2>1. budget \in Budget
    BY DEF Inv, TypeOK
  <2>2. budget'.crashes = budget.crashes + 1 /\ budget.crashes \in Nat
    BY <2>1, PipelineAssumption DEF CleanupFails, Budget
  <2>3. Others
    BY Spent DEF CleanupFails, Others, Inv, TypeOK
  <2> QED
    BY <2>2, <2>3 DEF NoFault
<1>2. PICK p \in {"restore", "release"}, g \in {"none", "BLOCKED", "FAILED"}, b \in BOOLEAN :
        worker' = [worker EXCEPT ![w] = [worker[w] EXCEPT !.pc = p, !.goal = g, !.dirty = b]]
  <2>1. worker[w] \in WorkerState
    BY WorkerTyped
  <2>2. CASE worker[w].goal = "none"
    <3>1. worker' = [worker EXCEPT ![w] = [worker[w] EXCEPT !.pc = "restore"]]
      BY <2>2 DEF CleanupFails
    <3>2. PICK b \in BOOLEAN : b = worker[w].dirty
      BY <2>1 DEF WorkerState
    <3>3. [worker[w] EXCEPT !.pc = "restore"] = [worker[w] EXCEPT !.pc = "restore", !.goal = "none", !.dirty = b]
      BY <2>1, <2>2, <3>2 DEF WorkerState
    <3> QED
      BY <3>1, <3>3
  <2>3. CASE worker[w].goal = "BLOCKED"
    <3>1. worker' = [worker EXCEPT ![w] = [worker[w] EXCEPT !.pc = "release"]]
      BY <2>3 DEF CleanupFails
    <3>2. PICK b \in BOOLEAN : b = worker[w].dirty
      BY <2>1 DEF WorkerState
    <3>3. [worker[w] EXCEPT !.pc = "release"] = [worker[w] EXCEPT !.pc = "release", !.goal = "BLOCKED", !.dirty = b]
      BY <2>1, <2>3, <3>2 DEF WorkerState
    <3> QED
      BY <3>1, <3>3
  <2>4. CASE worker[w].goal \notin {"none", "BLOCKED"}
    BY <2>4 DEF CleanupFails
  <2> QED
    BY <2>2, <2>3, <2>4
<1>3. PICK q : q = [worker[w] EXCEPT !.pc = p, !.goal = g, !.dirty = b]
  OBVIOUS
<1>4. q \in WorkerState /\ q.pc = p /\ q.job = Mine(w)
  <2>1. worker[w] \in WorkerState /\ Mine(w) = worker[w].job
    BY WorkerTyped
  <2> QED
    BY <1>3, <2>1 DEF WorkerState
<1>5. Good(q)'
  BY <1>0, <1>1, <1>4 DEF Good, Works, Deploys, Removes, Tests, Passed, Reached, Runs
<1> QED
  BY <1>0, <1>1, <1>2, <1>3, <1>4, <1>5, QuietStep

-----------------------------------------------------------------------------
(* Steps of the OWNER, the monitor, the component and the clock.            *)

LEMMA StillStep ==
  ASSUME Inv, UNCHANGED <<release, runtime, worker>>, JobsKept, Others,
         \A j \in Jobs : job'[j].state = "COMPLETED" => job[j].state = "COMPLETED"
  PROVE  Inv'
<1>1. TypeOK'
  BY DEF Inv, TypeOK, JobsKept, Others
<1>2. Chain' /\ AllMeasured' /\ Resumes'
  BY SameReleases DEF Inv, JobsKept, AllMeasured, Resumes
<1>3. ASSUME NEW v \in Workers
      PROVE  Good(worker[v])'
  <2>1. Good(worker[v]) /\ worker'[v] = worker[v]
    BY DEF Inv
  <2>2. Deploys(worker[v])' /\ Removes(worker[v])' /\ Tests(worker[v])' /\ Passed(worker[v])'
        /\ Reached(worker[v])'
    BY <2>1, SameReleases DEF Good, Deploys, Removes, Tests, Passed, Reached
  <2>3. Works(worker[v])'
    BY <2>1 DEF Good, Works
  <2>4. Runs(worker[v])'
    BY <2>1, SameReleases DEF Good, Runs, Others
  <2> QED
    BY <2>2, <2>3, <2>4 DEF Good
<1> QED
  BY <1>1, <1>2, <1>3 DEF Inv

LEMMA OwnerStep ==
  ASSUME Inv, NEW j \in Jobs, Cancel(j) \/ SubmitInputs(j) \/ ApproveSpec(j)
  PROVE  Inv'
<1>1. PICK s \in Phases \union Ended, r \in JobState :
        s \notin {"COMPLETED", "ACTIVATING"} /\ r.state = s /\ r.resume \in Early /\ job' = [job EXCEPT ![j] = r]
  <2>0. job[j] \in JobState /\ job[j].resume \in Early
    BY RowTyped
  <2>1. CASE Cancel(j)
    <3>1. PICK r : r = [job[j] EXCEPT !.state = "CANCELLED", !.owner = NoWorker, !.leased = FALSE]
      OBVIOUS
    <3>2. r \in JobState /\ r.state = "CANCELLED" /\ r.resume \in Early
      BY <2>0, <3>1 DEF JobState, Ended
    <3> QED
      BY <2>1, <3>1, <3>2 DEF Cancel, Ended
  <2>2. CASE SubmitInputs(j)
    <3>1. PICK s \in Early \ {"none"} : s = ResumeState(j)
      BY RowTyped DEF ResumeState, Early
    <3>2. s # "COMPLETED" /\ s # "ACTIVATING" /\ s \in Phases
      BY DEF Early, Phases
    <3>3. PICK r : r = [job[j] EXCEPT !.inputs = "supplied", !.state = s, !.resume = "none", !.uncleaned = FALSE]
      OBVIOUS
    <3>4. r \in JobState /\ r.state = s /\ r.resume = "none"
      BY <2>0, <3>2, <3>3 DEF JobState
    <3> QED
      BY <2>2, <3>1, <3>2, <3>3, <3>4 DEF SubmitInputs, Early
  <2>3. CASE ApproveSpec(j)
    <3>1. PICK r : r = [[job[j] EXCEPT !.state = "ANALYZING"] EXCEPT !.uncleaned = FALSE]
      OBVIOUS
    <3>2. "ANALYZING" \in Phases \union Ended
      BY DEF Phases
    <3>3. r \in JobState /\ r.state = "ANALYZING" /\ r.resume \in Early
      BY <2>0, <3>1, <3>2, RowWith
    <3>4. job' = [job EXCEPT ![j] = r]
      BY <2>3, <3>1 DEF ApproveSpec, SetState, Inv, TypeOK
    <3> QED
      BY <3>2, <3>3, <3>4
  <2> QED
    BY <2>1, <2>2, <2>3
<1>2. JobsKept /\ job'[j] = r
  BY <1>1, OneRow
<1>3. Others /\ UNCHANGED <<release, runtime, worker>>
  BY Spent DEF Cancel, SubmitInputs, ApproveSpec, Order, Others, Inv, TypeOK
<1>4. \A i \in Jobs : job'[i].state = "COMPLETED" => job[i].state = "COMPLETED"
  BY <1>1, <1>2 DEF Inv, TypeOK
<1> QED
  BY <1>2, <1>3, <1>4, StillStep

LEMMA NewJobStep ==
  ASSUME Inv, NEW row \in JobState, row.state \in {"DISCUSSING", "IMPLEMENTING"}, row.resume \in Early,
         NewJob(row), UNCHANGED <<release, runtime, worker>>, Others
  PROVE  Inv'
<1>1. PICK j \in Jobs : job' = [job EXCEPT ![j] = row]
  BY DEF NewJob
<1>2. JobsKept /\ job'[j] = row
  BY <1>1, OneRow
<1>3. \A i \in Jobs : job'[i].state = "COMPLETED" => job[i].state = "COMPLETED"
  BY <1>1, <1>2 DEF Inv, TypeOK
<1> QED
  BY <1>2, <1>3, StillStep

LEMMA BaseTyped ==
  ASSUME Inv PROVE Base \in Component
BY DEF Inv, TypeOK, Base, NoBase, Component

LEMMA FollowUpStep ==
  ASSUME Inv, NEW s \in Jobs, FollowUp(s)
  PROVE  Inv'
<1>1. PICK k \in JobKind, b \in Component, src \in 0..MaxJobs :
        k = (IF ActiveRelease = 0 THEN "RETRY" ELSE "REPAIR") /\ b = Base /\ src = s
  BY BaseTyped, PipelineAssumption DEF JobKind, Jobs
<1>2. PICK row : row = [job[s] EXCEPT !.state = "DISCUSSING", !.source = src, !.base = b,
               !.kind = k, !.resume = "none", !.attempts = 0, !.uncleaned = FALSE,
               !.owner = NoWorker, !.leased = FALSE]
  OBVIOUS
<1>3. row \in JobState /\ row.state = "DISCUSSING" /\ row.resume = "none"
  <2>1. job[s] \in JobState
    BY RowTyped
  <2> QED
    BY <1>2, <2>1 DEF JobState
<1>4. NewJob(row) /\ UNCHANGED <<release, runtime, worker>>
  BY <1>1, <1>2 DEF FollowUp
<1>5. Others
  BY Spent DEF FollowUp, Order, Others, Inv, TypeOK
<1> QED
  BY <1>3, <1>4, <1>5, NewJobStep DEF Early

LEMMA EnqueueRepairStep ==
  ASSUME Inv, EnqueueRepair
  PROVE  Inv'
<1>1. PICK b \in Component : b = Base
  BY BaseTyped
<1>2. PICK row : row = [NoJob EXCEPT !.state = "IMPLEMENTING", !.kind = "REPAIR", !.base = b,
               !.plan = TRUE, !.reserved = TRUE]
  OBVIOUS
<1>3. row \in JobState /\ row.state = "IMPLEMENTING" /\ row.resume = "none"
  <2>1. "IMPLEMENTING" \in Phases \union Ended
    BY DEF Phases
  <2>2. NoJob \in JobState /\ NoJob.resume = "none"
    BY NoJobTyped DEF NoJob
  <2> QED
    BY <1>2, <2>1, <2>2 DEF JobState, JobKind
<1>4. NewJob(row) /\ UNCHANGED <<release, runtime, worker>>
  BY <1>1, <1>2 DEF EnqueueRepair
<1>5. Others
  BY Spent DEF EnqueueRepair, Order, Others, Inv, TypeOK
<1> QED
  BY <1>3, <1>4, <1>5, NewJobStep DEF Early

LEMMA ComponentStep ==
  ASSUME Inv, OwnerDisable \/ Answer
  PROVE  Inv'
<1>1. JobsKept /\ UNCHANGED <<job, release, runtime, worker>>
  BY NoRow DEF OwnerDisable, Answer
<1>2. component' \in Component
  BY DEF OwnerDisable, Answer, Component, Inv, TypeOK
<1>3. Others
  BY <1>2, Spent DEF OwnerDisable, Answer, Order, Others, Inv, TypeOK
<1> QED
  BY <1>1, <1>3, StillStep

LEMMA LeaseStep ==
  ASSUME Inv,
         (\E j \in Jobs : LeaseExpires(j) \/ Stall(j)) \/ \E w \in Workers : Heartbeat(w)
  PROVE  Inv'
<1>1. PICK j \in Jobs, b \in BOOLEAN : job' = [job EXCEPT ![j].leased = b]
  <2>1. CASE \E i \in Jobs : LeaseExpires(i) \/ Stall(i)
    BY <2>1 DEF LeaseExpires, Stall
  <2>2. CASE \E w \in Workers : Heartbeat(w)
    BY <2>2 DEF Heartbeat, At, Inv, Good, Works, Mine
  <2> QED
    BY <2>1, <2>2
<1>2. PICK r : r = [job[j] EXCEPT !.leased = b]
  OBVIOUS
<1>3. r \in JobState /\ r.state = job[j].state /\ r.resume \in Early
  <2>1. job[j] \in JobState /\ job[j].resume \in Early
    BY RowTyped
  <2> QED
    BY <1>2, <2>1 DEF JobState
<1>4. job' = [job EXCEPT ![j] = r]
  BY <1>1, <1>2
<1>5. JobsKept /\ job'[j] = r
  BY <1>3, <1>4, OneRow DEF Inv, AllMeasured
<1>6. Others /\ UNCHANGED <<release, runtime, worker>>
  BY Spent DEF LeaseExpires, Stall, Heartbeat, Others, Inv, TypeOK
<1>7. \A i \in Jobs : job'[i].state = "COMPLETED" => job[i].state = "COMPLETED"
  BY <1>3, <1>4, <1>5 DEF Inv, TypeOK
<1> QED
  BY <1>5, <1>6, <1>7, StillStep

LEMMA CrashStep ==
  ASSUME Inv, OneWorker, NEW w \in Workers, Crash(w)
  PROVE  Inv'
<1>1. Others /\ ~NoFault' /\ UNCHANGED <<release, runtime>>
  <2>1. budget'.crashes = budget.crashes + 1 /\ budget.crashes \in Nat
    BY PipelineAssumption DEF Crash, Budget, Inv, TypeOK
  <2>2. Others /\ UNCHANGED <<release, runtime>>
    BY Spent DEF Crash, Others, Inv, TypeOK
  <2> QED
    BY <2>1, <2>2 DEF NoFault
<1>2. ASSUME NEW j \in Jobs
      PROVE  job'[j] \in JobState /\ job'[j].state = job[j].state /\ job'[j].resume \in Early
  <2>1. job[j] \in JobState /\ job[j].resume \in Early
    BY RowTyped
  <2>2. job'[j] = IF job[j].owner = w THEN [job[j] EXCEPT !.owner = NoWorker] ELSE job[j]
    BY DEF Crash
  <2> QED
    BY <2>1, <2>2 DEF JobState
<1>3. JobsKept
  BY <1>2 DEF Crash, JobsKept, Inv, AllMeasured
<1>4. PICK q : q = IdleWorker
  OBVIOUS
<1>5. Good(q)'
  BY <1>1, <1>4, Idle DEF Good, Works, Deploys, Removes, Tests, Passed, Reached, Runs
<1> QED
  BY <1>1, <1>3, <1>4, <1>5, Idle, QuietStep DEF Crash

-----------------------------------------------------------------------------
(* Steps that switch the service.                                           *)

\* The service changes, or the releases, with what they must keep.
LEMMA SwitchStep ==
  ASSUME Inv, OneWorker, UNCHANGED job, Others,
         release' \in Seq(ReleaseState), runtime' \in 0..Len(release'), Chain',
         \A j \in Jobs : Measured(j) => Measured(j)',
         NEW w \in Workers, NEW q \in WorkerState, worker' = [worker EXCEPT ![w] = q],
         Good(q)'
  PROVE  Inv'
<1>1. TypeOK'
  BY DEF Inv, TypeOK, Others
<1>2. AllMeasured' /\ Resumes'
  BY DEF Inv, AllMeasured, Resumes
<1>3. \A v \in Workers : worker'[v] = q
  BY DEF OneWorker, Inv, TypeOK
<1>4. \A v \in Workers : Good(worker[v])'
  BY <1>3
<1> QED
  BY <1>1, <1>2, <1>4 DEF Inv

\* A worker's step is another one.
LEMMA MoveTo ==
  ASSUME Inv, NEW w \in Workers, NEW p \in Steps, Goto(w, p)
  PROVE  \E q \in WorkerState :
           /\ worker' = [worker EXCEPT ![w] = q]
           /\ q.pc = p /\ q.job = Mine(w) /\ q.rev = worker[w].rev /\ q.new = worker[w].new
           /\ q.prev = worker[w].prev /\ q.goal = worker[w].goal
<1>1. PICK q : q = [worker[w] EXCEPT !.pc = p]
  OBVIOUS
<1>2. q \in WorkerState /\ q.pc = p /\ q.job = Mine(w) /\ q.rev = worker[w].rev /\ q.new = worker[w].new
      /\ q.prev = worker[w].prev /\ q.goal = worker[w].goal
  BY <1>1, WorkerAt, WorkerTyped
<1>3. worker' = [worker EXCEPT ![w] = q]
  BY <1>1 DEF Goto
<1> QED
  BY <1>2, <1>3

\* Only the link and the service change.
LEMMA RuntimeStep ==
  ASSUME Inv, OneWorker, NEW w \in Workers, SwitchRuntime(w) \/ SwitchBack(w)
  PROVE  Inv'
<1> DEFINE p == IF At(w, "switch") THEN "activate" ELSE "mark"
<1>1. Goto(w, p) /\ p \in Steps
  BY DEF SwitchRuntime, SwitchBack, At, Steps
<1>2. PICK q \in WorkerState :
           /\ worker' = [worker EXCEPT ![w] = q]
           /\ q.pc = p /\ q.job = Mine(w) /\ q.rev = worker[w].rev /\ q.new = worker[w].new
           /\ q.prev = worker[w].prev /\ q.goal = worker[w].goal
  BY <1>1, MoveTo
<1>3. /\ Mine(w) \in Jobs /\ job[Mine(w)].state # "COMPLETED"
      /\ Is(worker[w].new, IF At(w, "switch") THEN "STAGED" ELSE "ACTIVE")
      /\ release[worker[w].new].job = Mine(w) /\ release[worker[w].new].previous = worker[w].prev
      /\ At(w, "switch") => worker[w].prev = ActiveRelease /\ release[worker[w].new].rev = worker[w].rev
  BY DEF Inv, Good, Works, Deploys, Removes, SwitchRuntime, SwitchBack, At, Mine
<1>4. worker[w].new \in 1..Len(release) /\ Len(release) \in Nat /\ worker[w].prev \in 0..Len(release)
  BY <1>3, Releases DEF Is, Inv, Chain
<1>5. runtime' = (IF At(w, "switch") THEN worker[w].new ELSE worker[w].prev)
      /\ UNCHANGED <<job, release>> /\ Others
  BY DEF SwitchRuntime, SwitchBack, Restored, At, Others, Inv, TypeOK, NoFault
<1>6. Good(q)'
  BY <1>2, <1>3, <1>5, SameReleases DEF Good, Works, Deploys, Removes, Tests, Passed, Reached, Runs
<1>7. release' \in Seq(ReleaseState) /\ runtime' \in 0..Len(release')
  BY <1>4, <1>5 DEF Inv, TypeOK
<1> QED
  BY <1>2, <1>5, <1>6, <1>7, SwitchStep, SameReleases DEF Inv

-----------------------------------------------------------------------------
(* Steps that write the releases.                                           *)

\* One release goes from a state that is not live to another one.
LEMMA DeadWrite ==
  ASSUME Inv, NEW n \in 1..Len(release), release[n].state = "STAGED",
         NEW s \in {"ROLLED_BACK", "FAILED"}, release' = [release EXCEPT ![n].state = s]
  PROVE  /\ release' \in Seq(ReleaseState) /\ Len(release') = Len(release)
         /\ Active' = Active /\ Live' = Live /\ ActiveRelease' = ActiveRelease /\ Chain'
         /\ \A j \in Jobs : Measured(j) => Measured(j)'
<1>1. Len(release) \in Nat /\ release \in Seq(ReleaseState)
  BY Releases DEF Inv, TypeOK
<1>2. PICK x : x = [release[n] EXCEPT !.state = s]
  OBVIOUS
<1>3. x \in ReleaseState /\ x.state = s /\ x.job = release[n].job /\ x.previous = release[n].previous
      /\ x.passed = release[n].passed
  <2>1. release[n] \in ReleaseState
    BY <1>1
  <2> QED
    BY <1>2, <2>1 DEF ReleaseState
<1>4. /\ release' \in Seq(ReleaseState) /\ Len(release') = Len(release)
      /\ \A r \in 1..Len(release) : release'[r] = IF r = n THEN x ELSE release[r]
  BY <1>1, <1>2, <1>3
<1>5. Active' = Active /\ Live' = Live
  BY <1>3, <1>4 DEF Active, Live
<1>6. ActiveRelease' = ActiveRelease
  BY <1>5 DEF ActiveRelease
<1>7. \A r \in 1..Len(release) : release'[r].previous = release[r].previous /\ release'[r].job = release[r].job
        /\ release'[r].passed = release[r].passed
  BY <1>3, <1>4
<1>8. Chain'
  BY <1>4, <1>5, <1>7 DEF Inv, Chain, Live
<1>9. \A j \in Jobs : Measured(j) => Measured(j)'
  BY <1>4, <1>7 DEF Measured
<1> QED
  BY <1>4, <1>5, <1>6, <1>8, <1>9

\* The candidate did not start, or its job was cancelled: the release before it runs.
LEMMA UndoStep ==
  ASSUME Inv, OneWorker, NEW w \in Workers, StartFails(w) \/ UndoDeploy(w)
  PROVE  Inv'
<1>1. /\ Mine(w) \in Jobs /\ job[Mine(w)].state # "COMPLETED"
      /\ Is(worker[w].new, "STAGED") /\ worker[w].prev = ActiveRelease
  BY DEF Inv, Good, Works, Deploys, StartFails, UndoDeploy, At, Mine
<1>2. PICK s \in {"ROLLED_BACK", "FAILED"} : release' = [release EXCEPT ![worker[w].new].state = s]
  BY DEF StartFails, UndoDeploy
<1>3. /\ release' \in Seq(ReleaseState) /\ Len(release') = Len(release)
      /\ ActiveRelease' = ActiveRelease /\ Chain'
      /\ \A j \in Jobs : Measured(j) => Measured(j)'
  BY <1>1, <1>2, DeadWrite DEF Is
<1>4. runtime' = ActiveRelease /\ UNCHANGED job /\ Others
  BY <1>1 DEF StartFails, UndoDeploy, Others, Inv, TypeOK, NoFault
<1>5. runtime' \in 0..Len(release')
  BY <1>3, <1>4, TheActive DEF Inv
<1>6. PICK q \in WorkerState : worker' = [worker EXCEPT ![w] = q] /\ q.pc \in {"failed", "clean"} /\ q.job = Mine(w)
  <2>1. CASE StartFails(w)
    BY <2>1, MoveTo DEF StartFails, Steps
  <2>2. CASE UndoDeploy(w)
    <3>1. PICK q : q = [[worker[w] EXCEPT !.pc = "clean"] EXCEPT !.goal = "none"]
      OBVIOUS
    <3>2. worker[w] \in WorkerState /\ Mine(w) = worker[w].job
      BY WorkerTyped
    <3>3. q \in WorkerState /\ q.pc = "clean" /\ q.job = Mine(w)
      BY <3>1, <3>2 DEF WorkerState
    <3>4. worker' = [worker EXCEPT ![w] = q]
      BY <2>2, <3>1 DEF UndoDeploy, Inv, TypeOK
    <3> QED
      BY <3>3, <3>4
  <2> QED
    BY <2>1, <2>2
<1>7. Good(q)'
  BY <1>1, <1>3, <1>4, <1>6 DEF Good, Works, Deploys, Removes, Tests, Passed, Reached, Runs
<1> QED
  BY <1>3, <1>4, <1>5, <1>6, <1>7, SwitchStep

LEMMA StageStep ==
  ASSUME Inv, OneWorker, NEW w \in Workers, Stage(w)
  PROVE  Inv'
<1>0. PICK n : n = Len(release) + 1
  OBVIOUS
<1>1. /\ Mine(w) \in Jobs /\ job[Mine(w)].state # "COMPLETED"
      /\ NoFault => runtime = ActiveRelease
  BY DEF Inv, Good, Works, Runs, Stage, At, Mine
<1>2. Len(release) \in Nat /\ release \in Seq(ReleaseState) /\ n \in Nat
  BY <1>0, Releases DEF Inv, TypeOK
<1>3. ActiveRelease \in 0..Len(release) /\ worker[w].rev \in Nat /\ worker[w] \in WorkerState
  BY TheActive, WorkerTyped DEF Inv, WorkerState
<1>4. PICK x : x = [state |-> "STAGED", job |-> Mine(w), rev |-> worker[w].rev,
                    previous |-> ActiveRelease, passed |-> FALSE]
  OBVIOUS
<1>5. x \in ReleaseState /\ x.state = "STAGED" /\ x.job = Mine(w) /\ x.previous = ActiveRelease
      /\ x.rev = worker[w].rev
  BY <1>1, <1>3, <1>4 DEF ReleaseState
<1>6. release' = Append(release, x)
  BY <1>4 DEF Stage
<1>7. /\ release' \in Seq(ReleaseState) /\ Len(release') = n /\ release'[n] = x
      /\ \A r \in 1..Len(release) : release'[r] = release[r]
  BY <1>0, <1>2, <1>5, <1>6
<1>8. Active' = Active /\ Live' = Live
  BY <1>0, <1>2, <1>5, <1>7 DEF Active, Live
<1>9. ActiveRelease' = ActiveRelease
  BY <1>8 DEF ActiveRelease
<1>10. Chain'
  <2>1. \A r \in 1..n : release'[r].previous \in 0..(r - 1)
    BY <1>0, <1>2, <1>3, <1>5, <1>7 DEF Inv, Chain
  <2>2. \A r \in Live : release'[r].previous = release[r].previous
    BY <1>7 DEF Live
  <2> QED
    BY <1>7, <1>8, <2>1, <2>2 DEF Inv, Chain
<1>11. \A j \in Jobs : Measured(j) => Measured(j)'
  BY <1>0, <1>2, <1>7 DEF Measured
<1>12. UNCHANGED <<job, runtime>> /\ Others /\ runtime' \in 0..Len(release')
  BY <1>0, <1>2, <1>7 DEF Stage, Others, Inv, TypeOK, NoFault
<1>13. PICK q : q = [[[worker[w] EXCEPT !.pc = "switch"] EXCEPT !.new = n] EXCEPT !.prev = ActiveRelease]
  OBVIOUS
<1>14. q \in WorkerState /\ q.pc = "switch" /\ q.job = Mine(w) /\ q.new = n /\ q.prev = ActiveRelease
       /\ q.rev = worker[w].rev
  <2>1. ActiveRelease \in Nat
    BY <1>3
  <2>2. worker[w].job = Mine(w)
    BY DEF Mine
  <2> QED
    BY <1>2, <1>3, <1>13, <2>1, <2>2 DEF WorkerState
<1>15. worker' = [worker EXCEPT ![w] = q]
  BY <1>0, <1>13 DEF Stage, Inv, TypeOK
<1>16. Is(n, "STAGED")'
  BY <1>0, <1>2, <1>5, <1>7 DEF Is
<1>17. Good(q)'
  BY <1>1, <1>5, <1>7, <1>9, <1>12, <1>14, <1>16
     DEF Good, Works, Deploys, Removes, Tests, Passed, Reached, Runs, Others
<1> QED
  BY <1>7, <1>10, <1>11, <1>12, <1>14, <1>15, <1>17, SwitchStep

\* The new release is ACTIVE and what was ACTIVE is superseded.
LEMMA Supersedes ==
  ASSUME Inv, NEW n \in 1..Len(release), release[n].state = "STAGED", release[n].previous = ActiveRelease,
         release' = Superseded(n)
  PROVE  /\ release' \in Seq(ReleaseState) /\ Len(release') = Len(release)
         /\ Active' = {n} /\ ActiveRelease' = n /\ Live' = Live \union {n}
         /\ \A r \in 1..Len(release) : /\ release'[r].job = release[r].job
                                       /\ release'[r].rev = release[r].rev
                                       /\ release'[r].passed = release[r].passed
                                       /\ release'[r].previous = release[r].previous
         /\ Chain'
<1>1. Len(release) \in Nat /\ release \in Seq(ReleaseState)
  BY Releases DEF Inv, TypeOK
<1>2. ASSUME NEW r \in 1..Len(release)
      PROVE  /\ Superseded(n)[r] \in ReleaseState
             /\ Superseded(n)[r].state = IF r = n THEN "ACTIVE" ELSE IF r \in Active THEN "SUPERSEDED" ELSE release[r].state
             /\ Superseded(n)[r].job = release[r].job /\ Superseded(n)[r].rev = release[r].rev
             /\ Superseded(n)[r].passed = release[r].passed /\ Superseded(n)[r].previous = release[r].previous
  <2>1. release[r] \in ReleaseState
    BY <1>1
  <2>2. Superseded(n)[r] = IF r = n THEN [release[r] EXCEPT !.state = "ACTIVE"]
                           ELSE IF r \in Active THEN [release[r] EXCEPT !.state = "SUPERSEDED"] ELSE release[r]
    BY DEF Superseded
  <2> QED
    BY <2>1, <2>2 DEF ReleaseState
<1>3. Superseded(n) \in [1..Len(release) -> ReleaseState]
  BY <1>2 DEF Superseded
<1>4. release' \in Seq(ReleaseState) /\ Len(release') = Len(release)
  BY <1>1, <1>3, Rewritten
<1>5. Active' = {n}
  BY <1>2, <1>4 DEF Active
<1>6. Live' = Live \union {n}
  BY <1>2, <1>4 DEF Active, Live
<1>7. ActiveRelease' = n
  BY <1>5 DEF ActiveRelease
<1>8. \A s \in Live : s <= release[n].previous
  BY TheActive DEF Inv, Chain
<1>9. \A r \in 1..Len(release) : release[r].previous \in 0..(r - 1)
  BY DEF Inv, Chain
<1>10. Chain'
  <2>1. \A r \in 1..Len(release) : release'[r].previous = release[r].previous
    BY <1>2
  <2>2. release[n].previous \in Live \union {0}
    BY TheActive DEF Inv
  <2>3. Live \subseteq 1..Len(release)
    BY DEF Live
  <2>4. \A a \in Active', s \in Live' : s <= a
    BY <1>1, <1>5, <1>6, <1>8, <1>9, <2>3
  <2>5. \A r \in Live' : release'[r].previous \in Live' \union {0}
    BY <1>6, <2>1, <2>2, <2>3 DEF Inv, Chain
  <2>6. ASSUME NEW r \in Live', NEW s \in Live'
        PROVE  ~(release'[r].previous < s /\ s < r)
    <3>1. r \in 1..Len(release) /\ s \in 1..Len(release)
      BY <1>6, <2>3
    <3>2. CASE r = n
      BY <1>1, <1>6, <1>8, <2>1, <2>3, <3>1, <3>2, <1>9
    <3>3. CASE r # n /\ s = n
      BY <1>1, <1>6, <1>8, <1>9, <2>3, <3>1, <3>3
    <3>4. CASE r # n /\ s # n
      BY <1>6, <2>1, <3>1, <3>4 DEF Inv, Chain
    <3> QED
      BY <3>2, <3>3, <3>4
  <2> QED
    BY <1>4, <1>5, <1>9, <2>1, <2>4, <2>5, <2>6 DEF Chain
<1> QED
  BY <1>2, <1>4, <1>5, <1>6, <1>7, <1>10

LEMMA ActivateStep ==
  ASSUME Inv, OneWorker, NEW w \in Workers, ActivateRelease(w)
  PROVE  Inv'
<1>1. /\ Mine(w) \in Jobs /\ job[Mine(w)].state # "COMPLETED"
      /\ Is(worker[w].new, "STAGED") /\ release[worker[w].new].job = Mine(w)
      /\ release[worker[w].new].previous = ActiveRelease /\ worker[w].prev = ActiveRelease
      /\ NoFault => runtime = worker[w].new
      /\ release[worker[w].new].rev = worker[w].rev
  BY DEF Inv, Good, Works, Deploys, Runs, ActivateRelease, At, Mine
<1>2. UNCHANGED <<job, runtime>> /\ Others
  BY DEF ActivateRelease, Others, Inv, TypeOK, NoFault
<1>3. CASE ~Alive(w)
  <2>1. Goto(w, "undo") /\ UNCHANGED release
    BY <1>3 DEF ActivateRelease
  <2>2. PICK q \in WorkerState :
           /\ worker' = [worker EXCEPT ![w] = q]
           /\ q.pc = "undo" /\ q.job = Mine(w) /\ q.new = worker[w].new /\ q.prev = worker[w].prev
           /\ q.rev = worker[w].rev
    BY <2>1, MoveTo DEF Steps
  <2>3. Good(q)'
    BY <1>1, <1>2, <2>1, <2>2, SameReleases
       DEF Good, Works, Deploys, Removes, Tests, Passed, Reached, Runs, Others
  <2>4. JobsKept
    BY <1>2, NoRow
  <2> QED
    BY <1>2, <2>1, <2>2, <2>3, <2>4, QuietStep
<1>4. CASE Alive(w)
  <2>1. Goto(w, "integrate") /\ release' = Superseded(worker[w].new)
    BY <1>4 DEF ActivateRelease
  <2>2. worker[w].new \in 1..Len(release) /\ release[worker[w].new].state = "STAGED"
    BY <1>1 DEF Is
  <2>3. /\ release' \in Seq(ReleaseState) /\ Len(release') = Len(release)
        /\ ActiveRelease' = worker[w].new /\ Chain'
        /\ \A r \in 1..Len(release) : /\ release'[r].job = release[r].job /\ release'[r].rev = release[r].rev
                                      /\ release'[r].passed = release[r].passed
    BY <1>1, <2>1, <2>2, Supersedes
  <2>4. PICK q \in WorkerState :
           /\ worker' = [worker EXCEPT ![w] = q]
           /\ q.pc = "integrate" /\ q.job = Mine(w) /\ q.rev = worker[w].rev
    BY <2>1, MoveTo DEF Steps
  <2>5. release[worker[w].new].rev = worker[w].rev
    BY DEF Inv, Good, Deploys, ActivateRelease, At
  <2>6. Good(q)'
    BY <1>1, <1>2, <2>2, <2>3, <2>4, <2>5, Releases
       DEF Good, Works, Deploys, Removes, Tests, Passed, Reached, Runs, Others, Inv
  <2>7. \A j \in Jobs : Measured(j) => Measured(j)'
    BY <2>3 DEF Measured
  <2>8. runtime' \in 0..Len(release')
    BY <1>2, <2>3 DEF Inv, TypeOK
  <2> QED
    BY <1>2, <2>3, <2>4, <2>6, <2>7, <2>8, SwitchStep
<1> QED
  BY <1>3, <1>4

\* The gates passed: the ACTIVE release, which is the worker's own, says so.
LEMMA ApproveStep ==
  ASSUME Inv, OneWorker, NEW w \in Workers, Approve(w)
  PROVE  Inv'
<1>1. /\ Mine(w) \in Jobs /\ job[Mine(w)].state # "COMPLETED"
      /\ ActiveRelease # 0 /\ release[ActiveRelease].job = Mine(w)
      /\ release[ActiveRelease].rev = worker[w].rev
      /\ NoFault => runtime = ActiveRelease
  BY DEF Inv, Good, Works, Tests, Runs, Approve, At, Mine
<1>2. Len(release) \in Nat /\ release \in Seq(ReleaseState)
  BY Releases DEF Inv, TypeOK
<1>3. PICK f : f = [r \in 1..Len(release) |->
                      IF r \in Active /\ release[r].rev = worker[w].rev
                        THEN [release[r] EXCEPT !.passed = TRUE] ELSE release[r]]
  OBVIOUS
<1>4. ASSUME NEW r \in 1..Len(release)
      PROVE  /\ f[r] \in ReleaseState /\ f[r].state = release[r].state /\ f[r].job = release[r].job
             /\ f[r].previous = release[r].previous
             /\ f[r].passed = IF r \in Active /\ release[r].rev = worker[w].rev THEN TRUE ELSE release[r].passed
  <2>1. release[r] \in ReleaseState
    BY <1>2
  <2>2. f[r] = IF r \in Active /\ release[r].rev = worker[w].rev
                 THEN [release[r] EXCEPT !.passed = TRUE] ELSE release[r]
    BY <1>3
  <2> QED
    BY <2>1, <2>2 DEF ReleaseState
<1>5. f \in [1..Len(release) -> ReleaseState] /\ release' = f
  BY <1>3, <1>4 DEF Approve
<1>6. release' \in Seq(ReleaseState) /\ Len(release') = Len(release)
  BY <1>2, <1>5, Rewritten
<1>7. Active' = Active /\ Live' = Live
  BY <1>4, <1>5, <1>6 DEF Active, Live
<1>8. ActiveRelease' = ActiveRelease
  BY <1>7 DEF ActiveRelease
<1>9. Chain'
  BY <1>4, <1>5, <1>6, <1>7 DEF Inv, Chain, Live
<1>10. ActiveRelease \in Active /\ ActiveRelease \in 1..Len(release)
  BY <1>1, TheActive DEF Inv
<1>14. PICK j : j = Mine(w)
  OBVIOUS
<1>11. (\A i \in Jobs : Measured(i) => Measured(i)') /\ Measured(j)'
  BY <1>1, <1>4, <1>5, <1>6, <1>10, <1>14 DEF Measured
<1>12. UNCHANGED <<job, runtime>> /\ Others /\ runtime' \in 0..Len(release')
  BY <1>6 DEF Approve, Others, Component, Inv, TypeOK, NoFault
<1>13. PICK q \in WorkerState : worker' = [worker EXCEPT ![w] = q] /\ q.pc = "order" /\ q.job = Mine(w)
  BY MoveTo DEF Approve, Steps
<1>15. Good(q)'
  BY <1>1, <1>8, <1>11, <1>12, <1>13, <1>14
     DEF Good, Works, Deploys, Removes, Tests, Passed, Reached, Runs, Others
<1> QED
  BY <1>6, <1>9, <1>11, <1>12, <1>13, <1>15, SwitchStep

\* The candidate is removed and the release before it is ACTIVE again.
LEMMA PutBack ==
  ASSUME Inv, NEW n \in Active, release[n].previous # 0,
         release' = [release EXCEPT ![n].state = "ROLLED_BACK",
                                    ![release[n].previous].state = "ACTIVE"]
  PROVE  /\ release' \in Seq(ReleaseState) /\ Len(release') = Len(release)
         /\ ActiveRelease' = release[n].previous /\ Chain'
         /\ \A j \in Jobs : Measured(j) => Measured(j)'
         /\ Active' = {release[n].previous} /\ Live' = Live \ {n}
<1>1. Len(release) \in Nat /\ release \in Seq(ReleaseState)
  BY Releases DEF Inv, TypeOK
<1>2. PICK p : p = release[n].previous
  OBVIOUS
<1>3. n \in Live /\ n \in 1..Len(release) /\ p \in Live /\ p \in 1..Len(release) /\ p < n /\ Active = {n}
      /\ Live \subseteq 1..Len(release)
  <2>1. n \in Live /\ Live \subseteq 1..Len(release) /\ Active = {n}
    BY TheActive DEF Inv
  <2>2. p \in Live /\ p \in 0..(n - 1)
    BY <1>2, <2>1 DEF Inv, Chain
  <2> QED
    BY <1>1, <2>1, <2>2
<1>4. PICK x, y : x = [release[n] EXCEPT !.state = "ROLLED_BACK"] /\ y = [release[p] EXCEPT !.state = "ACTIVE"]
  OBVIOUS
<1>5. /\ x \in ReleaseState /\ x.state = "ROLLED_BACK" /\ x.job = release[n].job
      /\ x.previous = release[n].previous /\ x.passed = release[n].passed
      /\ y \in ReleaseState /\ y.state = "ACTIVE" /\ y.job = release[p].job
      /\ y.previous = release[p].previous /\ y.passed = release[p].passed
  <2>1. release[n] \in ReleaseState /\ release[p] \in ReleaseState
    BY <1>1, <1>3
  <2> QED
    BY <1>4, <2>1 DEF ReleaseState
<1>6. /\ release' \in Seq(ReleaseState) /\ Len(release') = Len(release)
      /\ \A r \in 1..Len(release) : release'[r] = IF r = n THEN x ELSE IF r = p THEN y ELSE release[r]
  <2>1. n # p
    BY <1>1, <1>3
  <2>2. PICK g : g = [release EXCEPT ![n] = x]
    OBVIOUS
  <2>3. /\ g \in Seq(ReleaseState) /\ Len(g) = Len(release)
        /\ \A r \in 1..Len(release) : g[r] = IF r = n THEN x ELSE release[r]
    BY <1>1, <1>3, <1>5, <2>2, OneRelease
  <2>4. release' = [[release EXCEPT ![n].state = "ROLLED_BACK"] EXCEPT ![p].state = "ACTIVE"]
    BY <1>2
  <2>5. release' = [g EXCEPT ![p] = [g[p] EXCEPT !.state = "ACTIVE"]]
    BY <1>4, <2>2, <2>4
  <2>6. release' = [g EXCEPT ![p] = y]
    BY <1>3, <1>4, <2>1, <2>3, <2>5
  <2>7. /\ release' \in Seq(ReleaseState) /\ Len(release') = Len(g)
        /\ \A r \in 1..Len(g) : release'[r] = IF r = p THEN y ELSE g[r]
    <3>1. g \in Seq(ReleaseState) /\ p \in 1..Len(g) /\ y \in ReleaseState
      BY <1>3, <1>5, <2>3
    <3>2. PICK t : t = [g EXCEPT ![p] = y]
      OBVIOUS
    <3>3. t \in Seq(ReleaseState) /\ Len(t) = Len(g) /\ \A r \in 1..Len(g) : t[r] = IF r = p THEN y ELSE g[r]
      BY <3>1, <3>2, OneRelease
    <3> QED
      BY <2>6, <3>2, <3>3
  <2> QED
    BY <2>1, <2>3, <2>7
<1>7. \A r \in 1..Len(release) : release'[r].previous = release[r].previous /\ release'[r].job = release[r].job
        /\ release'[r].passed = release[r].passed
  BY <1>5, <1>6
<1>8. Active' = {p}
  <2>1. \A r \in 1..Len(release) : release[r].state = "ACTIVE" <=> r = n
    BY <1>3 DEF Active
  <2>2. n # p
    BY <1>1, <1>3
  <2>3. \A r \in 1..Len(release) : release'[r].state = "ACTIVE" <=> r = p
    BY <1>5, <1>6, <2>1, <2>2
  <2>4. Active' \subseteq 1..Len(release)
    BY <1>6 DEF Active
  <2>5. \A r \in 1..Len(release) : r \in Active' <=> r = p
    BY <1>6, <2>3 DEF Active
  <2> QED
    BY <1>3, <2>4, <2>5
<1>9. Live' = Live \ {n}
  <2>1. n # p
    BY <1>1, <1>3
  <2>2. \A r \in 1..Len(release) : r # n => (r \in Live' <=> r \in Live)
    BY <1>3, <1>5, <1>6, <2>1 DEF Live
  <2>3. n \notin Live'
    BY <1>3, <1>5, <1>6 DEF Live
  <2>4. Live' \subseteq 1..Len(release)
    BY <1>6 DEF Live
  <2> QED
    BY <1>3, <2>2, <2>3, <2>4
<1>10. ActiveRelease' = p
  BY <1>8 DEF ActiveRelease
<1>11. \A s \in Live \ {n} : s <= p
  BY <1>1, <1>2, <1>3 DEF Inv, Chain
<1>12. \A r \in Live \ {n} : release[r].previous # n
  BY <1>1, <1>3 DEF Inv, Chain
<1>13. Chain'
  <2>1. \A a \in Active', s \in Live' : s <= a
    BY <1>8, <1>9, <1>11
  <2>2. \A r \in 1..Len(release) : release'[r].previous \in 0..(r - 1)
    BY <1>7 DEF Inv, Chain
  <2>3. ASSUME NEW r \in Live'
        PROVE  release'[r].previous \in Live' \union {0}
    <3>1. r \in Live /\ r # n
      BY <1>9
    <3>2. release[r].previous \in Live \union {0} /\ release[r].previous # n
      BY <1>12, <3>1 DEF Inv, Chain
    <3>3. release'[r].previous = release[r].previous
      BY <1>3, <1>7, <3>1
    <3> QED
      BY <1>9, <3>2, <3>3
  <2>4. \A r, s \in Live' : ~(release'[r].previous < s /\ s < r)
    BY <1>3, <1>7, <1>9 DEF Inv, Chain
  <2> QED
    BY <1>6, <1>8, <2>1, <2>2, <2>3, <2>4 DEF Chain
<1>14. \A j \in Jobs : Measured(j) => Measured(j)'
  BY <1>6, <1>7 DEF Measured
<1> QED
  BY <1>2, <1>6, <1>8, <1>9, <1>10, <1>13, <1>14

\* The candidate is removed and there was no release before it.
LEMMA TakenAway ==
  ASSUME Inv, NEW n \in Active, release[n].previous = 0,
         release' = [release EXCEPT ![n].state = "ROLLED_BACK"]
  PROVE  /\ release' \in Seq(ReleaseState) /\ Len(release') = Len(release)
         /\ ActiveRelease' = 0 /\ Chain'
         /\ \A j \in Jobs : Measured(j) => Measured(j)'
         /\ Live = {n}
<1>1. Len(release) \in Nat /\ release \in Seq(ReleaseState)
  BY Releases DEF Inv, TypeOK
<1>2. n \in Live /\ n \in 1..Len(release) /\ Active = {n} /\ Live \subseteq 1..Len(release)
  BY TheActive DEF Inv
<1>3. Live = {n}
  BY <1>1, <1>2 DEF Inv, Chain
<1>4. PICK x : x = [release[n] EXCEPT !.state = "ROLLED_BACK"]
  OBVIOUS
<1>5. /\ x \in ReleaseState /\ x.state = "ROLLED_BACK" /\ x.job = release[n].job
      /\ x.previous = release[n].previous /\ x.passed = release[n].passed
  <2>1. release[n] \in ReleaseState
    BY <1>1, <1>2
  <2> QED
    BY <1>4, <2>1 DEF ReleaseState
<1>6. /\ release' \in Seq(ReleaseState) /\ Len(release') = Len(release)
      /\ \A r \in 1..Len(release) : release'[r] = IF r = n THEN x ELSE release[r]
  BY <1>1, <1>2, <1>4, <1>5
<1>7. \A r \in 1..Len(release) : release'[r].previous = release[r].previous /\ release'[r].job = release[r].job
        /\ release'[r].passed = release[r].passed
  BY <1>5, <1>6
<1>8. Active' = {} /\ Live' = {}
  BY <1>2, <1>3, <1>5, <1>6 DEF Active, Live
<1>9. ActiveRelease' = 0
  BY <1>8 DEF ActiveRelease
<1>10. Chain'
  BY <1>6, <1>7, <1>8 DEF Inv, Chain
<1>11. \A j \in Jobs : Measured(j) => Measured(j)'
  BY <1>6, <1>7 DEF Measured
<1> QED
  BY <1>3, <1>6, <1>9, <1>10, <1>11

LEMMA MarkRemovedStep ==
  ASSUME Inv, OneWorker, NEW w \in Workers, MarkRemoved(w)
  PROVE  Inv'
<1> DEFINE n == worker[w].new
<1>1. /\ Mine(w) \in Jobs /\ job[Mine(w)].state # "COMPLETED"
      /\ Is(n, "ACTIVE") /\ release[n].previous = worker[w].prev
      /\ NoFault => runtime = worker[w].prev
  BY DEF Inv, Good, Works, Removes, Runs, MarkRemoved, At, Mine
<1>2. n \in Active /\ Active = {n}
  <2>1. n \in Active
    BY <1>1 DEF Is, Active
  <2> QED
    BY <2>1, TheActive DEF Inv
<1>3. Goto(w, "restore")
      /\ release' = IF worker[w].prev = 0 THEN [release EXCEPT ![n].state = "ROLLED_BACK"]
                    ELSE [release EXCEPT ![n].state = "ROLLED_BACK", ![worker[w].prev].state = "ACTIVE"]
  BY <1>1, <1>2 DEF MarkRemoved
<1>4. /\ release' \in Seq(ReleaseState) /\ Len(release') = Len(release)
      /\ ActiveRelease' = worker[w].prev /\ Chain'
      /\ \A j \in Jobs : Measured(j) => Measured(j)'
  BY <1>1, <1>2, <1>3, PutBack, TakenAway
<1>5. component' \in Component
  <2>1. worker[w].prev = 0 \/ worker[w].prev \in 1..Len(release)
    BY <1>1, Releases DEF Is, Inv, Chain
  <2>2. CASE worker[w].prev \in 1..Len(release)
    <3>1. release[worker[w].prev].rev \in Nat
      BY <2>2, Releases DEF Inv, ReleaseState
    <3> QED
      BY <3>1 DEF MarkRemoved, Inv, TypeOK, Component
  <2> QED
    BY <2>1, <2>2 DEF MarkRemoved, Inv, TypeOK
<1>6. UNCHANGED <<job, runtime>> /\ Others /\ runtime' \in 0..Len(release')
  BY <1>4, <1>5 DEF MarkRemoved, Others, Inv, TypeOK, NoFault
<1>7. PICK q \in WorkerState : worker' = [worker EXCEPT ![w] = q] /\ q.pc = "restore" /\ q.job = Mine(w)
  BY <1>3, MoveTo DEF Steps
<1>8. Good(q)'
  BY <1>1, <1>4, <1>6, <1>7
     DEF Good, Works, Deploys, Removes, Tests, Passed, Reached, Runs, Others
<1> QED
  BY <1>4, <1>6, <1>7, <1>8, SwitchStep

-----------------------------------------------------------------------------
(* The invariant.                                                           *)

LEMMA InitInv == Init => Inv
<1> SUFFICES ASSUME Init PROVE Inv
  OBVIOUS
<1>1. PICK r : r = [NoJob EXCEPT !.state = "ANALYZING"]
  OBVIOUS
<1>2. r \in JobState /\ r.state = "ANALYZING" /\ r.resume = "none" /\ NoJob.resume = "none"
  <2>1. NoJob \in JobState /\ NoJob.resume = "none"
    BY NoJobTyped DEF NoJob
  <2> QED
    BY <1>1, <2>1 DEF JobState, Phases
<1>3. \A j \in Jobs : job[j] = IF j = 1 THEN r ELSE NoJob
  BY <1>1 DEF Init
<1>4. job \in [Jobs -> JobState]
  BY <1>1, <1>2, NoJobTyped DEF Init
<1>5. TypeOK
  BY <1>4, Idle, PipelineAssumption DEF Init, TypeOK, NoBase, Component, Budget
<1>6. Len(release) = 0 /\ Active = {} /\ Live = {} /\ ActiveRelease = 0
  BY DEF Init, Active, Live, ActiveRelease
<1>7. Chain /\ AllMeasured /\ Resumes
  BY <1>2, <1>3, <1>6, NoJobTyped DEF Chain, AllMeasured, Resumes, Early
<1>8. ASSUME NEW w \in Workers
      PROVE  Good(worker[w])
  <2>1. worker[w] = IdleWorker
    BY DEF Init
  <2> QED
    BY <1>6, <2>1, Idle DEF Good, Works, Deploys, Removes, Tests, Passed, Reached, Runs, Init
<1> QED
  BY <1>5, <1>7, <1>8 DEF Inv

LEMMA StutterStep ==
  ASSUME Inv, UNCHANGED vars
  PROVE  Inv'
<1>1. JobsKept /\ UNCHANGED <<job, release, runtime, worker>>
  BY NoRow DEF vars
<1>2. Others
  BY DEF vars, Others, Inv, TypeOK, NoFault
<1> QED
  BY <1>1, <1>2, StillStep

LEMMA InvStep ==
  ASSUME Inv, OneWorker, [Next]_vars
  PROVE  Inv'
<1>1. ASSUME NEW w \in Workers, Verify(w) \/ Reach(w)
      PROVE  Inv'
  <2>1. CASE component.activation = "ACTIVE" /\ runtime # 0
    BY <1>1, <2>1, ReachStep
  <2>2. CASE component.activation = "ACTIVE" /\ runtime = 0
    BY <1>1, <2>2, PlainSteps, ReachStep
  <2>3. CASE component.activation # "ACTIVE"
    BY <1>1, <2>3, PlainSteps
  <2> QED
    BY <2>1, <2>2, <2>3
<1>2. ASSUME NEW w \in Workers, Work(w)
      PROVE  Inv'
  <2>1. CASE Dispatch(w) \/ Aborted(w) \/ ReleaseLease(w) \/ SetPlan(w) \/ Implement(w) \/ Register(w)
    BY <2>1, DispatchStep, AbortedStep, ReleaseLeaseStep, SetPlanStep, ImplementStep, RegisterStep
  <2>2. CASE StartAnalysis(w) \/ StartReplan(w) \/ StartIntegration(w) \/ StartValidation(w)
             \/ Validated(w) \/ StartConformance(w) \/ StartActivation(w) \/ Complete(w)
    BY <2>2, PhaseSteps
  <2>3. CASE Stage(w) \/ SwitchRuntime(w) \/ ActivateRelease(w) \/ UndoDeploy(w) \/ Approve(w)
    BY <2>3, StageStep, RuntimeStep, ActivateStep, UndoStep, ApproveStep
  <2>4. CASE Enable(w) \/ Restore(w)
    BY <2>4, PlainSteps
  <2>5. CASE HandleFailure(w) \/ FindCandidate(w) \/ SwitchBack(w) \/ MarkRemoved(w) \/ Settle(w)
    BY <2>5, HandleFailureStep, FindCandidateStep, RuntimeStep, MarkRemovedStep, SettleStep
  <2> QED
    BY <1>1, <1>2, <2>1, <2>2, <2>3, <2>4, <2>5 DEF Work
<1>3. ASSUME NEW w \in Workers, Trouble(w)
      PROVE  Inv'
  <2>1. CASE AskOwner(w) \/ StartFails(w) \/ CleanupFails(w)
    BY <2>1, AskOwnerStep, UndoStep, CleanupFailsStep
  <2>2. CASE Fails(w)
    BY <2>2, PlainSteps
  <2> QED
    BY <1>3, <2>1, <2>2 DEF Trouble
<1>4. ASSUME NEW w \in Workers, NEW j \in Jobs, Claim(w, j)
      PROVE  Inv'
  BY <1>4, ClaimStep
<1>5. CASE Orders
  BY <1>5, OwnerStep, FollowUpStep, EnqueueRepairStep, ComponentStep DEF Orders
<1>6. CASE Environment
  BY <1>6, CrashStep, LeaseStep DEF Environment
<1> QED
  BY <1>2, <1>3, <1>4, <1>5, <1>6, StutterStep DEF Next

-----------------------------------------------------------------------------
(* Theorems, for the one worker process that is deployed                    *)
(* (deploy/systemd/kcml-generation-worker.service).                         *)

THEOREM Invariance == OneWorker => (Spec => []Inv)
<1> SUFFICES ASSUME OneWorker PROVE Spec => []Inv
  OBVIOUS
<1>1. Inv /\ [Next]_vars => Inv'
  BY InvStep
<1> QED
  BY <1>1, InitInv, PTL DEF Spec

\* Every variable keeps the type of its rows, whatever crashes and stalls.
THEOREM TypeCorrect == OneWorker => (Spec => []TypeOK)
<1> SUFFICES ASSUME OneWorker PROVE Spec => []TypeOK
  OBVIOUS
<1>1. Inv => TypeOK
  BY DEF Inv
<1> QED
  BY <1>1, Invariance, PTL

\* Between two deployments the service runs the release that the database calls
\* ACTIVE (deployGeneratedRelease, cancelGeneratedCandidateRelease), for any
\* number of jobs, attempts, questions and orders.
THEOREM RuntimeIsActiveHolds == OneWorker => (Spec => []RuntimeIsActive)
<1> SUFFICES ASSUME OneWorker PROVE Spec => []RuntimeIsActive
  OBVIOUS
<1>1. Inv => RuntimeIsActive
  <2> SUFFICES ASSUME Inv, NoFault, \A w \in Workers : ~Switching(w)
               PROVE  runtime = ActiveRelease
    BY DEF RuntimeIsActive
  <2>1. PICK w \in Workers : TRUE
    BY DEF OneWorker
  <2> QED
    BY <2>1 DEF Inv, Good, Runs, Switching
<1> QED
  BY <1>1, Invariance, PTL

\* A release becomes ACTIVE, or the ACTIVE one is removed, only in these steps.
LEMMA ActiveSteps ==
  ASSUME Inv, [Next]_vars, release' # release
  PROVE  \E w \in Workers :
           \/ Stage(w) \/ StartFails(w) \/ ActivateRelease(w) \/ UndoDeploy(w) \/ Approve(w)
           \/ MarkRemoved(w)
<1>1. ASSUME NEW w \in Workers, Work(w) \/ Trouble(w)
      PROVE  \/ Stage(w) \/ StartFails(w) \/ ActivateRelease(w) \/ UndoDeploy(w) \/ Approve(w)
             \/ MarkRemoved(w)
  BY <1>1 DEF Work, Trouble, Phase, Dispatch, Aborted, ReleaseLease, StartAnalysis, StartReplan, SetPlan, Implement,
     Register, SwitchRuntime, StartIntegration, StartValidation, Validated, StartConformance, StartActivation,
     Enable, Verify, Reach, Complete, HandleFailure, FindCandidate, SwitchBack, Restore, Settle,
     AskOwner, Fails, CleanupFails
<1>2. ASSUME NEW w \in Workers, NEW j \in Jobs PROVE ~Claim(w, j)
  BY DEF Claim
<1>3. ~Orders
  BY DEF Orders, Cancel, SubmitInputs, FollowUp, ApproveSpec, EnqueueRepair, OwnerDisable, Answer
<1>4. ~Environment
  BY DEF Environment, Crash, Heartbeat, LeaseExpires, Stall
<1> QED
  BY <1>1, <1>2, <1>3, <1>4 DEF Next, vars

LEMMA FunctionalStep ==
  ASSUME Inv, [Next]_vars, NEW r \in DOMAIN release, Functional(r)
  PROVE  Active' # {}
<1>1. Len(release) \in Nat /\ release \in Seq(ReleaseState) /\ r \in 1..Len(release)
  BY Releases DEF Inv, TypeOK
<1>2. r \in Live /\ job[release[r].job].state = "COMPLETED" /\ Active # {}
  <2>1. r \in Live
    BY <1>1 DEF Functional, Live
  <2> QED
    BY <2>1 DEF Functional, Inv, Chain
<1>3. CASE UNCHANGED release
  BY <1>2, <1>3, SameReleases
<1>4. ASSUME NEW w \in Workers, Stage(w)
      PROVE  Active' # {}
  <2>1. PICK x : release' = Append(release, x)
    BY <1>4 DEF Stage
  <2> QED
    BY <1>1, <1>2, <2>1 DEF Active
<1>5. ASSUME NEW w \in Workers, StartFails(w) \/ UndoDeploy(w)
      PROVE  Active' # {}
  <2>1. Is(worker[w].new, "STAGED")
    BY <1>5 DEF Inv, Good, Deploys, StartFails, UndoDeploy, At
  <2>2. PICK s \in {"ROLLED_BACK", "FAILED"} : release' = [release EXCEPT ![worker[w].new].state = s]
    BY <1>5 DEF StartFails, UndoDeploy
  <2>3. Active' = Active
    BY <2>1, <2>2, DeadWrite DEF Is
  <2> QED
    BY <1>2, <2>3
<1>6. ASSUME NEW w \in Workers, ActivateRelease(w), release' # release
      PROVE  Active' # {}
  <2>1. Is(worker[w].new, "STAGED") /\ release[worker[w].new].previous = ActiveRelease
        /\ release' = Superseded(worker[w].new)
    BY <1>6 DEF Inv, Good, Deploys, ActivateRelease, At
  <2>2. Active' = {worker[w].new}
    BY <2>1, Supersedes DEF Is
  <2> QED
    BY <2>2
<1>7. ASSUME NEW w \in Workers, Approve(w)
      PROVE  Active' # {}
  <2>1. PICK f : f = [s \in 1..Len(release) |->
                        IF s \in Active /\ release[s].rev = worker[w].rev
                          THEN [release[s] EXCEPT !.passed = TRUE] ELSE release[s]]
    OBVIOUS
  <2>2. PICK a \in 1..Len(release) : a \in Active /\ release[a].state = "ACTIVE" /\ release[a] \in ReleaseState
    BY <1>1, <1>2 DEF Active
  <2>3. f[a].state = "ACTIVE" /\ Len(f) = Len(release)
    <3>1. Len(f) = Len(release)
      BY <1>1, <2>1
    <3>2. f[a] = IF release[a].rev = worker[w].rev THEN [release[a] EXCEPT !.passed = TRUE] ELSE release[a]
      BY <2>1, <2>2
    <3> QED
      BY <2>2, <3>1, <3>2 DEF ReleaseState
  <2>4. release' = f
    BY <1>7, <2>1 DEF Approve
  <2> QED
    BY <2>2, <2>3, <2>4 DEF Active
<1>8. ASSUME NEW w \in Workers, MarkRemoved(w)
      PROVE  Active' # {}
  <2> DEFINE n == worker[w].new
  <2>1. /\ Is(n, "ACTIVE") /\ release[n].previous = worker[w].prev /\ release[n].job = Mine(w)
        /\ job[Mine(w)].state # "COMPLETED"
    BY <1>8 DEF Inv, Good, Works, Removes, MarkRemoved, At, Mine
  <2>2. n \in Active /\ Active = {n}
    <3>1. n \in Active
      BY <2>1 DEF Is, Active
    <3> QED
      BY <3>1, TheActive DEF Inv
  <2>3. worker[w].prev # 0
    <3>1. SUFFICES ASSUME worker[w].prev = 0 PROVE FALSE
      OBVIOUS
    <3>2. release' = [release EXCEPT ![n].state = "ROLLED_BACK"]
      BY <1>8, <2>1, <3>1 DEF MarkRemoved
    <3>3. Live = {n}
      BY <2>1, <2>2, <3>1, <3>2, TakenAway
    <3> QED
      BY <1>2, <2>1, <3>3
  <2>4. release' = [release EXCEPT ![n].state = "ROLLED_BACK", ![worker[w].prev].state = "ACTIVE"]
    BY <1>8, <2>2, <2>3 DEF MarkRemoved
  <2>5. Active' = {release[n].previous}
    BY <2>1, <2>2, <2>3, <2>4, PutBack
  <2> QED
    BY <2>5
<1> QED
  BY <1>3, <1>4, <1>5, <1>6, <1>7, <1>8, ActiveSteps

\* As long as a completed job has a release that was not removed, no step takes
\* the last ACTIVE release away (deployGeneratedRelease,
\* cancelGeneratedCandidateRelease).
THEOREM FunctionalReleaseKeptHolds == OneWorker => (Spec => FunctionalReleaseKept)
<1> SUFFICES ASSUME OneWorker PROVE Spec => FunctionalReleaseKept
  OBVIOUS
<1>1. Inv /\ [Next]_vars => [(\E r \in DOMAIN release : Functional(r)) => Active' # {}]_vars
  BY FunctionalStep
<1> QED
  BY <1>1, Invariance, PTL DEF Spec, FunctionalReleaseKept

\* Only Complete makes a job COMPLETED.
LEMMA CompletingRow ==
  ASSUME Inv, NEW j \in Jobs, job[j].state # "COMPLETED", job'[j].state = "COMPLETED",
         NEW i \in Jobs, NEW r, job' = [job EXCEPT ![i] = r]
  PROVE  i = j /\ r.state = "COMPLETED"
BY DEF Inv, TypeOK

LEMMA CompletingState ==
  ASSUME Inv, NEW j \in Jobs, job[j].state # "COMPLETED", job'[j].state = "COMPLETED",
         NEW i \in Jobs, NEW s, SetState(i, s)
  PROVE  i = j /\ s = "COMPLETED"
<1>1. PICK r : r = [[job[i] EXCEPT !.state = s] EXCEPT !.uncleaned = FALSE]
  OBVIOUS
<1>2. i = j /\ r.state = "COMPLETED"
  <2>1. job' = [job EXCEPT ![i] = r]
    BY <1>1 DEF SetState, Inv, TypeOK
  <2> QED
    BY <2>1, CompletingRow
<1>3. job[i] \in JobState
  BY RowTyped
<1> QED
  BY <1>1, <1>2, <1>3 DEF JobState

LEMMA CompletingWork ==
  ASSUME Inv, NEW j \in Jobs, job[j].state # "COMPLETED", job'[j].state = "COMPLETED",
         NEW w \in Workers, Work(w) \/ Trouble(w)
  PROVE  Complete(w) /\ Mine(w) = j
<1>1. job' # job
  OBVIOUS
<1>2. worker[w].pc # "idle" => Mine(w) \in Jobs /\ job[Mine(w)] \in JobState
  BY RowTyped DEF Inv, Good, Works, Mine
<1>3. CASE \/ StartAnalysis(w) \/ StartReplan(w) \/ StartIntegration(w) \/ StartValidation(w) \/ Validated(w)
           \/ StartConformance(w) \/ StartActivation(w) \/ Complete(w)
  <2>1. ASSUME NEW from, NEW s, NEW to, Phase(w, from, s, to), from # "idle"
        PROVE  s = "COMPLETED" /\ Mine(w) = j
    BY <1>2, <2>1, CompletingState DEF Phase, At
  <2> QED
    BY <1>3, <2>1 DEF StartAnalysis, StartReplan, StartIntegration, StartValidation, Validated, StartConformance,
       StartActivation, Complete
<1>4. CASE ReleaseLease(w)
  <2>1. PICK r : r = IF job[Mine(w)].owner = w
                       THEN [job[Mine(w)] EXCEPT !.owner = NoWorker, !.leased = FALSE] ELSE job[Mine(w)]
    OBVIOUS
  <2>2. Mine(w) \in Jobs /\ r.state = job[Mine(w)].state
    BY <1>2, <1>4, <2>1 DEF JobState, ReleaseLease, At
  <2> QED
    BY <1>4, <2>1, <2>2, CompletingRow DEF ReleaseLease
<1>5. CASE SetPlan(w)
  <2>1. Mine(w) \in Jobs /\ job[Mine(w)] \in JobState
    BY <1>2, <1>5 DEF SetPlan
  <2>2. PICK r : /\ job' = [job EXCEPT ![Mine(w)] = r]
                 /\ \/ r = [job[Mine(w)] EXCEPT !.plan = TRUE, !.inputs = "none",
                              !.state = "IMPLEMENTING", !.resume = "none"]
                    \/ r = [job[Mine(w)] EXCEPT !.plan = TRUE, !.inputs = "missing",
                              !.state = "BLOCKED", !.resume = "ANALYZING"]
    BY <1>5 DEF SetPlan
  <2>3. r.state # "COMPLETED"
    BY <2>1, <2>2 DEF JobState
  <2> QED
    BY <2>1, <2>2, <2>3, CompletingRow
<1>6. CASE Implement(w)
  <2>1. Mine(w) \in Jobs /\ job[Mine(w)] \in JobState
    BY <1>2, <1>6 DEF Implement, At
  <2>2. PICK r : /\ job' = [job EXCEPT ![Mine(w)] = r]
                 /\ r = [job[Mine(w)] EXCEPT !.reserved = TRUE, !.state = "IMPLEMENTING", !.uncleaned = FALSE]
    BY <1>6 DEF Implement
  <2>3. r.state # "COMPLETED"
    BY <2>1, <2>2 DEF JobState
  <2> QED
    BY <2>1, <2>2, <2>3, CompletingRow
<1>7. CASE AskOwner(w)
  <2>1. Mine(w) \in Jobs /\ job[Mine(w)] \in JobState
    BY <1>2, <1>7 DEF AskOwner
  <2> DEFINE resume == IF At(w, "generate") THEN "IMPLEMENTING" ELSE "INTEGRATING"
  <2>2. PICK r : /\ job' = [job EXCEPT ![Mine(w)] = r]
                 /\ \/ r = [job[Mine(w)] EXCEPT !.inputs = "missing", !.state = "BLOCKED",
                              !.resume = resume, !.owner = NoWorker, !.leased = FALSE]
                    \/ r = [job[Mine(w)] EXCEPT !.inputs = "supplied", !.state = resume,
                              !.resume = "none", !.owner = NoWorker, !.leased = FALSE]
    BY <1>7 DEF AskOwner
  <2>3. r.state # "COMPLETED"
    BY <2>1, <2>2 DEF JobState
  <2> QED
    BY <2>1, <2>2, <2>3, CompletingRow
<1>8. CASE Settle(w)
  <2>1. Mine(w) \in Jobs /\ job[Mine(w)] \in JobState /\ worker[w] \in WorkerState
    BY <1>2, <1>8, WorkerTyped DEF Settle, At
  <2>2. PICK r, t : /\ job' = [job EXCEPT ![Mine(w)] = r]
                    /\ r = [job[Mine(w)] EXCEPT !.state = worker[w].goal, !.uncleaned = worker[w].dirty,
                              !.attempts = t]
    BY <1>1, <1>8 DEF Settle
  <2>3. r.state # "COMPLETED"
    BY <2>1, <2>2 DEF JobState, WorkerState
  <2> QED
    BY <2>1, <2>2, <2>3, CompletingRow
<1> QED
  BY <1>1, <1>3, <1>4, <1>5, <1>6, <1>7, <1>8
  DEF Work, Trouble, Dispatch, Aborted, Register, Stage, SwitchRuntime, ActivateRelease, UndoDeploy, Approve,
      Enable, Verify, Reach, HandleFailure, FindCandidate, SwitchBack, MarkRemoved, Restore, StartFails,
      Fails, CleanupFails

LEMMA CompletingStep ==
  ASSUME Inv, [Next]_vars, NEW j \in Jobs, job[j].state # "COMPLETED", job'[j].state = "COMPLETED"
  PROVE  \E w \in Workers : Complete(w) /\ Mine(w) = j
<1>1. job' # job
  OBVIOUS
<1>2. \A i \in Jobs : job[i] \in JobState
  BY RowTyped
<1>3. ASSUME NEW w \in Workers, NEW i \in Jobs, Claim(w, i)
      PROVE  FALSE
  <2>1. PICK r : r = [job[i] EXCEPT !.owner = w, !.leased = TRUE]
    OBVIOUS
  <2>2. job' = [job EXCEPT ![i] = r]
    BY <1>3, <2>1 DEF Claim, Inv, TypeOK
  <2>3. r.state = job[i].state
    BY <1>2, <2>1 DEF JobState
  <2> QED
    BY <2>2, <2>3, CompletingRow
<1>4. ASSUME NEW i \in Jobs, Cancel(i) \/ SubmitInputs(i)
      PROVE  FALSE
  <2>1. PICK r : /\ job' = [job EXCEPT ![i] = r]
                 /\ \/ r = [job[i] EXCEPT !.state = "CANCELLED", !.owner = NoWorker, !.leased = FALSE]
                    \/ r = [job[i] EXCEPT !.inputs = "supplied", !.state = ResumeState(i),
                              !.resume = "none", !.uncleaned = FALSE]
    BY <1>4 DEF Cancel, SubmitInputs
  <2>2. ResumeState(i) # "COMPLETED"
    BY RowTyped DEF ResumeState, Early
  <2>3. r.state # "COMPLETED"
    BY <1>2, <2>1, <2>2 DEF JobState
  <2> QED
    BY <2>1, <2>3, CompletingRow
<1>5. ASSUME NEW i \in Jobs, ApproveSpec(i)
      PROVE  FALSE
  BY <1>5, CompletingState DEF ApproveSpec
<1>6. ASSUME NEW row, NewJob(row), row.state # "COMPLETED"
      PROVE  FALSE
  BY <1>6, CompletingRow DEF NewJob
<1>7. ASSUME NEW s \in Jobs, FollowUp(s)
      PROVE  FALSE
  <2>1. PICK k, b : NewJob([job[s] EXCEPT !.state = "DISCUSSING", !.source = s, !.base = b,
               !.kind = k, !.resume = "none", !.attempts = 0, !.uncleaned = FALSE,
               !.owner = NoWorker, !.leased = FALSE])
    BY <1>7 DEF FollowUp
  <2> QED
    BY <1>2, <1>6, <2>1 DEF JobState
<1>8. ASSUME EnqueueRepair
      PROVE  FALSE
  <2>1. PICK b : NewJob([NoJob EXCEPT !.state = "IMPLEMENTING", !.kind = "REPAIR", !.base = b,
               !.plan = TRUE, !.reserved = TRUE])
    BY <1>8 DEF EnqueueRepair
  <2> QED
    BY <1>6, <2>1, NoJobTyped DEF JobState
<1>9. ASSUME NEW i \in Jobs, NEW b, job' = [job EXCEPT ![i].leased = b]
      PROVE  FALSE
  <2>1. PICK r : r = [job[i] EXCEPT !.leased = b]
    OBVIOUS
  <2>2. r.state = job[i].state
    BY <1>2, <2>1 DEF JobState
  <2> QED
    BY <1>9, <2>1, <2>2, CompletingRow
<1>10. ~Environment
  <2>1. ASSUME NEW w \in Workers, Crash(w)
        PROVE  FALSE
    <3>1. job'[j] = IF job[j].owner = w THEN [job[j] EXCEPT !.owner = NoWorker] ELSE job[j]
      BY <2>1 DEF Crash
    <3> QED
      BY <1>2, <3>1 DEF JobState
  <2>2. ASSUME NEW w \in Workers, Heartbeat(w)
        PROVE  FALSE
    <3>1. Mine(w) \in Jobs
      BY <2>2 DEF Heartbeat, At, Inv, Good, Works, Mine
    <3> QED
      BY <1>9, <2>2, <3>1 DEF Heartbeat
  <2>3. ASSUME NEW i \in Jobs, LeaseExpires(i) \/ Stall(i)
        PROVE  FALSE
    BY <1>9, <2>3 DEF LeaseExpires, Stall
  <2> QED
    BY <2>1, <2>2, <2>3 DEF Environment
<1>11. ~Orders
  <2>1. ~OwnerDisable /\ ~Answer
    BY <1>1 DEF OwnerDisable, Answer
  <2> QED
    BY <1>4, <1>5, <1>7, <1>8, <2>1 DEF Orders
<1>12. PICK w \in Workers : Work(w) \/ Trouble(w)
  BY <1>1, <1>3, <1>10, <1>11 DEF Next, vars
<1> QED
  BY <1>12, CompletingWork

\* A job becomes COMPLETED only with a release of its own that passed the gates,
\* and without a restart only while the ACTIVE release runs (finalizeActivation).
THEOREM CompletedIsConformantHolds == OneWorker => (Spec => CompletedIsConformant)
<1> SUFFICES ASSUME OneWorker PROVE Spec => CompletedIsConformant
  OBVIOUS
<1>1. Inv /\ [Next]_vars =>
        [\A j \in Jobs : job[j].state # "COMPLETED" /\ job'[j].state = "COMPLETED" =>
           /\ Measured(j)
           /\ NoFault => ActiveRelease # 0 /\ runtime = ActiveRelease]_vars
  <2> SUFFICES ASSUME Inv, [Next]_vars, NEW j \in Jobs, job[j].state # "COMPLETED", job'[j].state = "COMPLETED"
               PROVE  Measured(j) /\ (NoFault => ActiveRelease # 0 /\ runtime = ActiveRelease)
    OBVIOUS
  <2>1. PICK w \in Workers : At(w, "complete") /\ Mine(w) = j
    BY CompletingStep DEF Complete, Phase
  <2> QED
    BY <2>1 DEF Inv, Good, Passed, Reached, Runs, At, Mine
<1> QED
  BY <1>1, Invariance, PTL DEF Spec, CompletedIsConformant
=============================================================================
