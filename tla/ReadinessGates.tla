--------------------------- MODULE ReadinessGates ---------------------------
(***************************************************************************)
(* The activation gates of a generated component: a new release is         *)
(* registered, switched to, exercised and probed; every probe records      *)
(* evidence for the revision that is active in the database; then the      *)
(* gates are evaluated, the result replaces the evidence, the revision is  *)
(* approved and the component may be enabled (generation/worker.ts,        *)
(* generated-component.ts, component.ts).  Meanwhile the monitor probes    *)
(* the runtime, heartbeat challenges are answered and the OWNER grants and *)
(* revokes secrets, enables and disables.                                  *)
(*                                                                         *)
(* One component, one generation job at a time.  A release stands for a    *)
(* revision and its manifest and runtime digests.  Of the rows of a gate   *)
(* for one revision and digest the model keeps the latest.                 *)
(***************************************************************************)
EXTENDS Naturals, Sequences, SequencesExt, FiniteSets

CONSTANTS
    MaxRelease,     \* bound: releases registered
    MaxFaults,      \* bound: failing probes, failed and interrupted jobs
    MaxChallenges,  \* bound: heartbeat challenges
    MaxOwner        \* bound: grants, revocations, enable and disable requests

VARIABLES
    last,       \* the release registered last
    revision,   \* the release whose revision is active, 0 before the first
    running,    \* the release the runtime runs, 0 if none
    approved,   \* releases whose revision is APPROVED
    evidence,   \* per release and gate: "none" | "PASS" | "FAIL" | "NA"
    healthy,    \* component.monitoring_state is HEALTHY
    enabled,    \* setComponentActivation has admitted the component
    base,       \* repair_evidence: [revision, enabled] before the job's release
    pc,         \* the step of the generation job, see Steps
    view,       \* the evaluation the job is about to store
    watch,      \* the monitor's probe not yet recorded: "none" | "PASS" | "FAIL"
    beat,       \* the heartbeat challenge: 0 none, Asked, or the release that answered
    grants,     \* the component holds a secret grant
    recorded,   \* <<r, g>>: a PASS or NA was recorded for r
    measured,   \* <<r, g>>: a PASS of g was measured on r itself, or NA
    faults, challenges, acts

vars == <<last, revision, running, approved, evidence, healthy, enabled, base, pc, view,
          watch, beat, grants, recorded, measured, faults, challenges, acts>>

\* verifyGeneratedComponentConformance's probes in their order.
Probes == <<"watchdog", "mcp", "control", "states", "worker", "auth",
            "secret", "storage", "webhook">>
ProbeGates == ToSet(Probes)
Gates == ProbeGates \union {"dependency", "e2e", "heartbeat", "contract"}
Releases == 1..MaxRelease
Asked == MaxRelease + 1
Outcome == {"PASS", "FAIL"}
Steps == {"idle", "registered", "dependency", "e2e", "challenge", "evaluate", "persist",
          "approve", "activate", "failed"} \union ProbeGates

After(step) ==
    CASE step = "webhook" -> "evaluate"
      [] step \in ProbeGates \ {"webhook"} ->
            Probes[1 + CHOOSE i \in 1..Len(Probes) : Probes[i] = step]
      [] OTHER -> step

NoBase == [revision |-> 0, enabled |-> FALSE]
Nothing == [g \in Gates |-> "none"]

Init ==
    /\ last = 0 /\ revision = 0 /\ running = 0 /\ approved = {}
    /\ evidence = [r \in Releases |-> Nothing]
    /\ healthy = FALSE /\ enabled = FALSE /\ base = NoBase
    /\ pc = "idle" /\ view = Nothing
    /\ watch = "none" /\ beat = 0 /\ grants = FALSE
    /\ recorded = {} /\ measured = {}
    /\ faults = 0 /\ challenges = 0 /\ acts = 0

others == <<watch, beat, grants, challenges, acts>>
release == <<last, revision, running, approved, enabled, base>>

\* recordActiveGateEvidence: the row carries the digests of the revision that
\* is active when it is written; `of` is the release that was measured.
Record(g, result, of) ==
    /\ evidence' = [evidence EXCEPT ![revision][g] = result]
    /\ recorded' = IF result = "FAIL" THEN recorded ELSE recorded \union {<<revision, g>>}
    /\ measured' = IF result = "FAIL" THEN measured ELSE measured \union {<<of, g>>}

----------------------------------------------------------------------------
(* A release is registered and deployed. *)

\* registerGeneratedRevision: the contracts of the revision are replaced, the
\* revision is PENDING, the component goes to REVIEW and is not enabled.
\* Challenges of the earlier policy epoch are void.
Register ==
    /\ pc = "idle" /\ last < MaxRelease
    /\ base' = [revision |-> revision, enabled |-> enabled]
    /\ last' = last + 1 /\ revision' = last' /\ enabled' = FALSE
    /\ pc' = "registered" /\ beat' = 0
    /\ UNCHANGED <<running, approved, evidence, healthy, view, watch, grants,
                   recorded, measured, faults, challenges, acts>>

\* deployGeneratedRelease switches the runtime to the release.
Switch ==
    /\ pc = "registered"
    /\ running' = revision /\ pc' = "dependency"
    /\ UNCHANGED <<last, revision, approved, evidence, healthy, enabled, base, view, others,
                   recorded, measured, faults>>

----------------------------------------------------------------------------
(* Conformance. *)

\* A failing measurement is recorded where the code records it, and ends the job.
Measure(step, g, next) ==
    /\ pc = step
    /\ \/ Record(g, "PASS", running) /\ pc' = next /\ UNCHANGED faults
       \/ /\ faults < MaxFaults /\ faults' = faults + 1
          /\ \/ Record(g, "FAIL", running)
             \/ UNCHANGED <<evidence, recorded, measured>>
          /\ pc' = "failed"
    /\ UNCHANGED <<release, view, others>>

\* A gate whose subject the release lacks is not measured (no dependency, no
\* secret grant, no webhook).
Skip(step, next) ==
    /\ pc = step /\ pc' = next
    /\ UNCHANGED <<release, healthy, evidence, view, others, recorded, measured, faults>>

VerifyDependencies ==
    UNCHANGED healthy /\ Measure("dependency", "dependency", "e2e")
RunScenarios == UNCHANGED healthy /\ Measure("e2e", "e2e", "challenge")

\* The challenge is queued unless one is open, and the worker waits for its
\* acknowledgement, not for the heartbeat.
Challenged == beat' = IF beat = 0 THEN Asked ELSE beat
Challenge ==
    /\ pc = "challenge" /\ pc' = Head(Probes)
    /\ Challenged
    /\ UNCHANGED <<release, healthy, evidence, view, watch, grants, recorded, measured,
                   faults, challenges, acts>>

ProbeRuntime ==
    /\ Measure("watchdog", "watchdog", After("watchdog"))
    /\ healthy' = (pc' # "failed")
ProbePublicMcp == UNCHANGED healthy /\ Measure("mcp", "mcp", After("mcp"))
ProbeControl == UNCHANGED healthy /\ Measure("control", "control", After("control"))
ProbeStates == UNCHANGED healthy /\ Measure("states", "states", After("states"))
ProbeWorker == UNCHANGED healthy /\ Measure("worker", "worker", After("worker"))
ProbeAuthorization == UNCHANGED healthy /\ Measure("auth", "auth", After("auth"))
ProbeSecrets ==
    \/ grants /\ UNCHANGED healthy /\ Measure("secret", "secret", After("secret"))
    \/ ~grants /\ Skip("secret", After("secret"))
ProbeStorage == UNCHANGED healthy /\ Measure("storage", "storage", After("storage"))
ProbeWebhook == UNCHANGED healthy /\ Measure("webhook", "webhook", After("webhook"))

\* gateResults: contracts are recomputed, a gate without a subject is not
\* applicable, every other gate needs a PASS that has not expired.
Missing_Passes == "PASS"
Missing == "FAIL"
Reused(g, expired) ==
    IF evidence[revision][g] = "PASS" /\ g \notin expired THEN "PASS" ELSE Missing
Evaluation(contract, expired) ==
    [g \in Gates |-> IF g = "contract" THEN contract
                     ELSE IF g = "secret" /\ ~grants THEN "NA"
                     ELSE Reused(g, expired)]
Evaluate ==
    /\ pc = "evaluate"
    /\ \E contract \in Outcome, expired \in {{}} \union {{g} : g \in ProbeGates} :
          /\ expired # {} \/ contract = "FAIL" => faults < MaxFaults
          /\ faults' = IF expired # {} \/ contract = "FAIL" THEN faults + 1 ELSE faults
          /\ view' = Evaluation(contract, expired)
    /\ pc' = "persist"
    /\ UNCHANGED <<release, healthy, evidence, others, recorded, measured>>

\* persistGateEvidence, in a transaction of its own: all rows of the revision
\* are deleted and the evaluation is inserted.
Fine(result) == result \in {"PASS", "NA"}
Persist ==
    /\ pc = "persist"
    /\ evidence' = [evidence EXCEPT ![revision] = view]
    /\ LET new == {<<revision, g>> : g \in {h \in Gates : h = "contract" \/ view[h] = "NA"}}
       IN  recorded' = recorded \union new /\ measured' = measured \union new
    /\ pc' = IF \A g \in Gates : Fine(view[g]) THEN "approve" ELSE "failed"
    /\ view' = Nothing
    /\ UNCHANGED <<release, healthy, others, faults>>

\* The revision is APPROVED and the component HEALTHY.
Approve ==
    /\ pc = "approve"
    /\ approved' = approved \union {revision} /\ healthy' = TRUE
    /\ pc' = "activate"
    /\ UNCHANGED <<last, revision, running, enabled, base, evidence, view, others,
                   recorded, measured, faults>>

\* The job fails or is cancelled: the runtime is switched back and the
\* component gets the state it had before (rollbackGeneratedRelease,
\* restoreRepairBaseState).  Without a previous release the runtime is
\* stopped and the revision stays active.
Fail ==
    /\ pc \notin {"idle", "registered"}
    /\ IF pc = "failed" THEN UNCHANGED faults ELSE faults < MaxFaults /\ faults' = faults + 1
    /\ running' = base.revision
    /\ IF base.revision = 0 THEN UNCHANGED <<revision, enabled>>
       ELSE revision' = base.revision /\ enabled' = base.enabled
    /\ pc' = "idle" /\ view' = Nothing /\ base' = NoBase /\ beat' = 0
    /\ UNCHANGED <<last, approved, evidence, healthy, watch, grants,
                   recorded, measured, challenges, acts>>

\* The worker dies: the next one takes the job up with the deployed candidate.
Resume ==
    /\ pc \notin {"idle", "registered", "failed"}
    /\ faults < MaxFaults /\ faults' = faults + 1
    /\ pc' = "dependency" /\ view' = Nothing
    /\ UNCHANGED <<release, healthy, evidence, others, recorded, measured>>

----------------------------------------------------------------------------
(* Enabling. *)

\* setComponentActivation: the revision is approved, every gate's latest
\* evidence for its digests passes, monitoring is healthy.  The request moves
\* the policy epoch, which voids an open challenge.
Complete == \A g \in Gates : Fine(evidence[revision][g])
Allowed == revision \in approved /\ Complete /\ healthy

Activate ==
    /\ pc = "activate" /\ pc' = "idle" /\ base' = NoBase
    /\ enabled' = (enabled \/ Allowed)
    /\ beat' = IF enabled' = enabled THEN beat ELSE 0
    /\ UNCHANGED <<last, revision, running, approved, healthy, evidence, view, watch, grants,
                   recorded, measured, faults, challenges, acts>>

OwnerSwitches ==
    /\ acts < MaxOwner /\ acts' = acts + 1
    /\ revision > 0
    /\ \/ enabled' = FALSE
       \/ ~enabled /\ Allowed /\ enabled' = TRUE
    /\ beat' = 0
    /\ UNCHANGED <<last, revision, running, approved, base, healthy, evidence, pc, view, watch,
                   grants, recorded, measured, faults, challenges>>

OwnerGrants ==
    /\ acts < MaxOwner /\ acts' = acts + 1
    /\ grants' = ~grants
    /\ UNCHANGED <<release, healthy, evidence, pc, view, watch, beat, recorded, measured,
                   faults, challenges>>

----------------------------------------------------------------------------
(* The monitor and the heartbeat. *)

\* The monitor probes the runtime; the result is recorded after the answer.
Watch ==
    /\ watch = "none" /\ running > 0 /\ revision > 0
    /\ \/ watch' = "PASS" /\ UNCHANGED faults
       \/ watch' = "FAIL" /\ faults < MaxFaults /\ faults' = faults + 1
    /\ UNCHANGED <<release, healthy, evidence, pc, view, beat, grants, recorded, measured,
                   challenges, acts>>
RecordWatch ==
    /\ watch # "none" /\ watch' = "none"
    /\ Record("watchdog", watch, running)
    /\ healthy' = (watch = "PASS")
    /\ UNCHANGED <<release, pc, view, beat, grants, faults, challenges, acts>>

\* The OWNER, or the monitor, asks for a heartbeat.
Ask ==
    /\ revision > 0 /\ beat = 0 /\ challenges < MaxChallenges
    /\ challenges' = challenges + 1 /\ beat' = Asked
    /\ UNCHANGED <<release, healthy, evidence, pc, view, watch, grants, recorded, measured,
                   faults, acts>>
Beat ==
    /\ beat = Asked /\ running > 0
    /\ beat' = running
    /\ UNCHANGED <<release, healthy, evidence, pc, view, watch, grants, recorded, measured,
                   faults, challenges, acts>>
RecordBeat ==
    /\ beat \in Releases /\ beat' = 0
    /\ Record("heartbeat", "PASS", beat)
    /\ UNCHANGED <<release, healthy, pc, view, watch, grants, faults, challenges, acts>>
\* A heartbeat of an earlier epoch, or with a skewed clock, records nothing
\* and degrades monitoring.
RejectBeat ==
    /\ revision > 0 /\ healthy /\ faults < MaxFaults
    /\ faults' = faults + 1 /\ healthy' = FALSE
    /\ UNCHANGED <<release, evidence, pc, view, others, recorded, measured>>

----------------------------------------------------------------------------
Conformance ==
    \/ VerifyDependencies \/ RunScenarios \/ Challenge
    \/ ProbeRuntime \/ ProbePublicMcp \/ ProbeControl \/ ProbeStates \/ ProbeWorker
    \/ ProbeAuthorization \/ ProbeSecrets \/ ProbeStorage \/ ProbeWebhook
    \/ Evaluate \/ Persist \/ Approve
Job == Register \/ Switch \/ Conformance \/ Activate \/ Fail \/ Resume
Others == OwnerSwitches \/ OwnerGrants \/ Watch \/ RecordWatch \/ Ask \/ Beat
          \/ RecordBeat \/ RejectBeat

Next == Job \/ Others
Spec == Init /\ [][Next]_vars

----------------------------------------------------------------------------
\* No gate is passed by default: while a component is enabled, every gate of
\* its release has a result that was recorded for that release, whatever was
\* measured, deleted, replaced or restored in between (gateResults,
\* persistGateEvidence, setComponentActivation).
GatesWereRecorded ==
    enabled => \A g \in Gates : <<revision, g>> \in recorded

\* Refuted: every result was measured on the release that is enabled.  A
\* heartbeat that the old runtime answers between the registration and the
\* switch counts for the new release.
GatesWereMeasured ==
    enabled => \A g \in Gates : <<revision, g>> \in measured
=============================================================================
