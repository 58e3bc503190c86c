------------------------------ MODULE E2ERun ------------------------------
(***************************************************************************)
(* End-to-end runs of one component revision: queued by requests, claimed  *)
(* under a lease by the worker processes and by the generation pipeline,   *)
(* executed scenario by scenario, and turned into readiness evidence       *)
(* (onboarding/component-e2e-worker.ts, queueComponentE2ERun), with the    *)
(* access token of the platform worker, which the OWNER may rotate         *)
(* (domain/platform-worker-access.ts).                                     *)
(***************************************************************************)
EXTENDS Naturals, FiniteSets

CONSTANTS
  Runs,         \* rows of component_e2e_run that may be inserted
  Scenarios,    \* component_e2e_fixture of the revision
  Workers,      \* component-e2e worker and generation workers
  Requests,     \* callers of queueComponentE2ERun
  MaxRotations  \* bound: rotations of the platform worker's token

VARIABLES
  run,      \* status, lease and deadline of each run
  evidence, \* component_readiness_gate_evidence under the run's correlation id
  worker,   \* what each worker executes
  request,  \* what each caller does
  token     \* number of the platform worker's current token, 0 before there is one

e2eVars == <<run, evidence, worker, request, token>>

Idle == [pc |-> "idle", run |-> CHOOSE r \in Runs : TRUE, todo |-> {}, passed |-> {},
         on |-> CHOOSE s \in Scenarios : TRUE, token |-> 0]

Init ==
  /\ run = [r \in Runs |-> [status |-> "none", lease |-> "none", due |-> FALSE]]
  /\ evidence = [r \in Runs |-> "none"]
  /\ worker = [w \in Workers |-> Idle]
  /\ request = [q \in Requests |-> [pc |-> "idle", active |-> {}]]
  /\ token \in {0, 1}

Active == {r \in Runs : run[r].status \in {"QUEUED", "RUNNING"}}

-----------------------------------------------------------------------------
(* queueComponentE2ERun.                                                    *)

\* the component's row is locked until the transaction ends
ComponentFree(q) == \A p \in Requests \ {q} : request[p].pc # "queueing"

Look(q) ==
  /\ request[q].pc = "idle" /\ ComponentFree(q)
  /\ request' = [request EXCEPT ![q] = [pc |-> "queueing", active |-> Active]]
  /\ UNCHANGED <<run, evidence, worker, token>>

\* an active run is returned, otherwise one is inserted with a deadline of fifteen minutes
Queue(q) ==
  /\ request[q].pc = "queueing"
  /\ \E r \in {x \in Runs : run[x].status = "none"} :
       run' = IF request[q].active = {} THEN [run EXCEPT ![r].status = "QUEUED"] ELSE run
  /\ request' = [request EXCEPT ![q].pc = "idle", ![q].active = {}]
  /\ UNCHANGED <<evidence, worker, token>>

QueueFails(q) ==
  /\ request[q].pc = "queueing"
  /\ request' = [request EXCEPT ![q].pc = "idle", ![q].active = {}]
  /\ UNCHANGED <<run, evidence, worker, token>>

-----------------------------------------------------------------------------
(* processNextComponentE2ERun.                                              *)

\* every run past its deadline fails, whoever is working on it
Expired_Queued(r) == run[r].status = "QUEUED" /\ run[r].due
Expired(r) == r \in Active /\ run[r].due

Claimable(r) == r \in Active /\ ~run[r].due /\ run[r].lease # "held"

Claim(w) ==
  /\ worker[w].pc = "idle"
  /\ LET swept == [r \in Runs |-> IF Expired(r) THEN [run[r] EXCEPT !.status = "FAIL", !.lease = "none"] ELSE run[r]]
     IN \/ \E r \in Runs :
             /\ Claimable(r)
             /\ run' = [swept EXCEPT ![r].status = "RUNNING", ![r].lease = "held"]
             /\ worker' = [worker EXCEPT ![w] = [Idle EXCEPT !.pc = "next", !.run = r, !.todo = Scenarios]]
        \/ /\ \A r \in Runs : ~Claimable(r)
           /\ run' = swept
           /\ worker' = worker
  /\ UNCHANGED <<evidence, request, token>>

Step(w, pc) == worker[w].pc = pc /\ UNCHANGED <<request, token>>

\* the token is read and, in a transaction of its own, decided about; without a token, and with
\* one that has been rotated in between, the scenario is recorded as an error
LoadToken(w, s) ==
  /\ Step(w, "next") /\ s \in worker[w].todo
  /\ worker' = [worker EXCEPT ![w].pc = IF token = 0 THEN "error" ELSE "authorizing",
                              ![w].on = s, ![w].token = token]
  /\ UNCHANGED <<run, evidence>>

Authorize(w) ==
  /\ Step(w, "authorizing")
  /\ worker' = [worker EXCEPT ![w].pc = IF worker[w].token = token THEN "invoking" ELSE "error"]
  /\ UNCHANGED <<run, evidence>>

\* the component answers as expected and is cleaned up, or not
Invoke(w, ok) ==
  /\ Step(w, "invoking")
  /\ worker' = [worker EXCEPT ![w].pc = IF ok THEN "ok" ELSE "error"]
  /\ UNCHANGED <<run, evidence>>

\* component_e2e_run_result is written, for whoever looks at the run
Record(w) ==
  LET ok == worker[w].pc = "ok" IN
  /\ worker[w].pc \in {"ok", "error"}
  /\ worker' = [worker EXCEPT ![w].pc = "renew", ![w].todo = @ \ {worker[w].on},
                              ![w].passed = IF ok THEN @ \union {worker[w].on} ELSE @]
  /\ UNCHANGED <<run, evidence, request, token>>

\* the lease is renewed by the run's id, whoever holds it
Renew(w) ==
  /\ Step(w, "renew")
  /\ run' = [run EXCEPT ![worker[w].run].lease = "held"]
  /\ worker' = [worker EXCEPT ![w].pc = IF worker[w].todo = {} THEN "conclude" ELSE "next"]
  /\ UNCHANGED <<evidence>>

Verdict(w) == IF worker[w].passed = Scenarios THEN "PASS" ELSE "FAIL"

\* so is the status of the run ...
Conclude(w) ==
  /\ Step(w, "conclude")
  /\ run' = [run EXCEPT ![worker[w].run].status = Verdict(w), ![worker[w].run].lease = "none"]
  /\ worker' = [worker EXCEPT ![w].pc = "evidence"]
  /\ UNCHANGED <<evidence>>

\* ... and then the evidence of the gates
Attest(w) ==
  /\ Step(w, "evidence")
  /\ evidence' = [evidence EXCEPT ![worker[w].run] = Verdict(w)]
  /\ worker' = [worker EXCEPT ![w] = Idle]
  /\ UNCHANGED run

\* an exception outside a scenario ends the process, which is started again
BreakOff(w) ==
  /\ worker[w] # Idle
  /\ worker' = [worker EXCEPT ![w] = Idle]
  /\ UNCHANGED <<run, evidence, request, token>>

-----------------------------------------------------------------------------
(* Time and the OWNER.                                                      *)

\* 45 seconds without a renewal
LeaseRunsOut(r) ==
  /\ run[r].lease = "held"
  /\ run' = [run EXCEPT ![r].lease = "over"]
  /\ UNCHANGED <<evidence, worker, request, token>>

DeadlinePasses(r) ==
  /\ run[r].status # "none" /\ ~run[r].due
  /\ run' = [run EXCEPT ![r].due = TRUE]
  /\ UNCHANGED <<evidence, worker, request, token>>

\* ensurePlatformWorkerAccessToken leaves a usable token alone; a rotation revokes the one before
EnsureToken ==
  /\ token = 0
  /\ token' = 1
  /\ UNCHANGED <<run, evidence, worker, request>>

RotateToken ==
  /\ token \in 1..MaxRotations
  /\ token' = token + 1
  /\ UNCHANGED <<run, evidence, worker, request>>

Execute(w) ==
  \/ \E s \in Scenarios : LoadToken(w, s)
  \/ Authorize(w) \/ \E ok \in BOOLEAN : Invoke(w, ok)
  \/ Record(w) \/ Renew(w) \/ Conclude(w) \/ Attest(w)

Next ==
  \/ \E q \in Requests : Look(q) \/ Queue(q) \/ QueueFails(q)
  \/ \E w \in Workers : Claim(w) \/ Execute(w) \/ BreakOff(w)
  \/ \E r \in Runs : LeaseRunsOut(r) \/ DeadlinePasses(r)
  \/ EnsureToken \/ RotateToken

Spec == Init /\ [][Next]_e2eVars

\* the worker loops and is restarted, requests and scenarios have timeouts, and time passes
FairSpec ==
  /\ Spec
  /\ \A w \in Workers : WF_e2eVars(Claim(w)) /\ WF_e2eVars(Execute(w))
  /\ \A r \in Runs : WF_e2eVars(DeadlinePasses(r))

-----------------------------------------------------------------------------
(* Properties.                                                              *)

E2ETypeOK ==
  /\ run \in [Runs -> [status : {"none", "QUEUED", "RUNNING", "PASS", "FAIL"},
                       lease : {"none", "held", "over"}, due : BOOLEAN]]
  /\ evidence \in [Runs -> {"none", "PASS", "FAIL"}]
  /\ token \in 0..(MaxRotations + 1)

\* A run that is queued ends, though workers die, lose the lease to one another and overtake the
\* deadline.
EveryRunEnds == \A r \in Runs : [](r \in Active => <>(r \notin Active))
=============================================================================
