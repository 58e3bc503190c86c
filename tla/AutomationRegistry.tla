------------------------- MODULE AutomationRegistry -------------------------
(***************************************************************************)
(* The registry of one browser automation: its definition, the revisions   *)
(* of its manifest, their verification and activation, and the commands    *)
(* that enable, disable and repair it (domain/browser-automation.ts).      *)
(* Some commands decide on rows that they read before their transaction;   *)
(* activation is one READ COMMITTED transaction of four statements.        *)
(* Runs are modelled in AutomationRun; here only that one is queued.       *)
(***************************************************************************)
EXTENDS Naturals, FiniteSets

CONSTANTS
  Revisions,  \* rows of browser_automation_revision
  Sessions,   \* OWNER requests at the same time
  None

VARIABLES
  definition,  \* active_revision_id and status of the definition
  status,      \* status of each revision, "none" before it is created
  verified,    \* verification_status
  session,     \* what a request does, with which revision and what it found
  queued       \* revisions that runs were queued with

registryVars == <<definition, status, verified, session, queued>>

Idle == [pc |-> "idle", revision |-> None, found |-> {}]

Init ==
  /\ definition = [active |-> None, status |-> "DISABLED"]
  /\ status = [r \in Revisions |-> "none"]
  /\ verified = [r \in Revisions |-> "PENDING"]
  /\ session = [s \in Sessions |-> Idle]
  /\ queued = {}

ActiveOnes == {r \in Revisions : status[r] = "ACTIVE"}

\* a revision is locked by the activation that names it and by the one that supersedes it
Locks(s) ==
  CASE session[s].pc \in {"look", "supersede"} -> {session[s].revision}
    [] session[s].pc = "point"                 -> {session[s].revision} \union session[s].found
    [] OTHER                                   -> {}
Unlocked(s, rows) == \A t \in Sessions \ {s} : Locks(t) \intersect rows = {}

Goto(s, pc, r, found) ==
  /\ session' = [session EXCEPT ![s] = [pc |-> pc, revision |-> r, found |-> found]]
  /\ UNCHANGED <<definition, status, verified, queued>>

\* the definition's status is written whatever it was, in a transaction of its own
Put(value) == definition' = [definition EXCEPT !.status = value]

-----------------------------------------------------------------------------
(* createBrowserAutomationRevision and verifyBrowserAutomationRevision.     *)

CreateRevision(r) ==
  /\ status[r] = "none"
  /\ status' = [status EXCEPT ![r] = "DRAFT"]
  /\ UNCHANGED <<definition, verified, session, queued>>

\* the browser is run on the immutable manifest; only the result is written
Verify(s, r, result) ==
  /\ session[s] = Idle /\ status[r] # "none" /\ Unlocked(s, {r})
  /\ verified' = [verified EXCEPT ![r] = result]
  /\ status' = [status EXCEPT ![r] = IF result = "PASS" /\ @ = "DRAFT" THEN "PREFLIGHTED" ELSE @]
  /\ UNCHANGED <<definition, session, queued>>

-----------------------------------------------------------------------------
(* activateBrowserAutomationRevision.                                       *)

LockRevision(s, r) ==
  /\ session[s] = Idle /\ status[r] # "none" /\ Unlocked(s, {r})
  /\ verified[r] = "PASS"
  /\ Goto(s, "look", r, {})

\* the update that supersedes sees the revisions whose activation is committed when it begins ...
Look(s) ==
  /\ session[s].pc = "look"
  /\ Goto(s, "supersede", session[s].revision, ActiveOnes \ {session[s].revision})

\* ... waits for their rows, and looks at them again
Supersede(s) ==
  /\ session[s].pc = "supersede" /\ Unlocked(s, session[s].found)
  /\ Goto(s, "point", session[s].revision, session[s].found \intersect ActiveOnes)

Activated_Swapped(r, others) ==
  [q \in Revisions |-> IF q \in others \union {r} THEN "SUPERSEDED" ELSE status[q]]
Activated(r, others) ==
  [q \in Revisions |-> IF q = r THEN "ACTIVE" ELSE IF q \in others THEN "SUPERSEDED" ELSE status[q]]

\* the definition is written last, and the transaction commits
Point(s) ==
  /\ session[s].pc = "point"
  /\ status' = Activated(session[s].revision, session[s].found)
  /\ definition' = [active |-> session[s].revision, status |-> "DISABLED"]
  /\ session' = [session EXCEPT ![s] = Idle]
  /\ UNCHANGED <<verified, queued>>

-----------------------------------------------------------------------------
(* setBrowserAutomationEnabled, in three statements.                        *)

ReadPointer(s) ==
  /\ session[s] = Idle /\ definition.active # None
  /\ Goto(s, "check", definition.active, {})

CheckRevision(s) ==
  /\ session[s].pc = "check"
  /\ IF status[session[s].revision] = "ACTIVE" /\ verified[session[s].revision] = "PASS"
     THEN Goto(s, "enable", session[s].revision, {})
     ELSE Goto(s, "idle", None, {})

Enable(s) ==
  /\ session[s].pc = "enable"
  /\ Put("ENABLED")
  /\ session' = [session EXCEPT ![s] = Idle]
  /\ UNCHANGED <<status, verified, queued>>

Disable == Put("DISABLED") /\ UNCHANGED <<status, verified, session, queued>>

-----------------------------------------------------------------------------
(* preflightBrowserAutomation, repairBrowserAutomation and the others.      *)

\* the active manifest no longer passes the static validation, or the transaction that notes that
\* it does fails: the revision fails first ...
PreflightFails(s) ==
  /\ session[s] = Idle /\ definition.active # None
  /\ Goto(s, "fail", definition.active, {})

FailRevision(s) ==
  /\ session[s].pc = "fail" /\ Unlocked(s, {session[s].revision})
  /\ verified' = [verified EXCEPT ![session[s].revision] = "FAIL"]
  /\ session' = [session EXCEPT ![s].pc = "blame"]
  /\ UNCHANGED <<definition, status, queued>>

\* ... and then the definition, in another transaction
BlameDefinition(s) ==
  /\ session[s].pc = "blame"
  /\ Put("REPAIR_REQUIRED")
  /\ session' = [session EXCEPT ![s] = Idle]
  /\ UNCHANGED <<status, verified, queued>>

\* a repair is asked for after a preflight that passed; the repair job is GenerationPipeline's
Repair ==
  /\ definition.active # None
  /\ Put("REPAIR_REQUIRED")
  /\ UNCHANGED <<status, verified, session, queued>>

Reauthenticate ==
  /\ Put(IF definition.active = None THEN "REAUTH_REQUIRED" ELSE "DISABLED")
  /\ UNCHANGED <<status, verified, session, queued>>

\* createBrowserAutomationRun locks the definition and looks at the revision once more
QueueRun ==
  /\ definition.status = "ENABLED" /\ definition.active # None
  /\ status[definition.active] = "ACTIVE" /\ verified[definition.active] = "PASS"
  /\ queued' = queued \union {definition.active}
  /\ UNCHANGED <<definition, status, verified, session>>

\* a process that dies, a transaction that fails or is the victim of a deadlock
BreakOff(s) == session[s].pc # "idle" /\ Goto(s, "idle", None, {})

Next ==
  \/ \E r \in Revisions :
       \/ CreateRevision(r)
       \/ \E s \in Sessions :
            LockRevision(s, r) \/ \E result \in {"PASS", "FAIL"} : Verify(s, r, result)
  \/ \E s \in Sessions :
       \/ Look(s) \/ Supersede(s) \/ Point(s) \/ ReadPointer(s) \/ CheckRevision(s) \/ Enable(s)
       \/ PreflightFails(s) \/ FailRevision(s) \/ BlameDefinition(s) \/ BreakOff(s)
  \/ Disable \/ Repair \/ Reauthenticate \/ QueueRun

Spec == Init /\ [][Next]_registryVars

-----------------------------------------------------------------------------
(* Properties.                                                              *)

\* The rows of the registry have their types.
RegistryTypeOK ==
  /\ definition \in [active : Revisions \union {None},
                     status : {"DISABLED", "ENABLED", "REPAIR_REQUIRED", "REAUTH_REQUIRED"}]
  /\ status \in [Revisions -> {"none", "DRAFT", "PREFLIGHTED", "ACTIVE", "SUPERSEDED"}]
  /\ verified \in [Revisions -> {"PENDING", "PASS", "FAIL"}]
  /\ queued \subseteq Revisions

\* The revision that the definition points at is an activated one, an enabled automation points at
\* one, and what it ran was verified, although enabling looks at the revision before its
\* transaction and other requests activate, supersede and fail revisions in between.
PointerIsActive ==
  /\ definition.active # None => definition.active \in ActiveOnes
  /\ definition.status = "ENABLED" => definition.active # None
  /\ \A r \in queued : status[r] \in {"ACTIVE", "SUPERSEDED"} /\ verified[r] # "PENDING"

\* At most one revision of a definition is active, however activations overlap
\* (IMPLEMENTATION_CONTRACT.md:23: "immutable declarative manifest revisions with one active
\* revision"; domain/browser-automation.ts:325).
OneActiveRevision == Cardinality(ActiveOnes) <= 1
=============================================================================
