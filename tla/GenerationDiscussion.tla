------------------------ MODULE GenerationDiscussion ------------------------
(***************************************************************************)
(* The persistent OWNER discussion of one generation job                   *)
(* (domain/generation-discussion.ts): the OWNER posts messages, every      *)
(* message queues one turn, discussion workers lease the turns, stream a   *)
(* reply and propose specification revisions, the OWNER approves one of    *)
(* them or cancels the job.                                                *)
(*                                                                         *)
(* One action is one database transaction or one unlocked read followed by *)
(* the worker's decision, so every gap between two awaits of the code is a *)
(* gap between two actions.  Turn t answers OWNER message t: both rows are *)
(* inserted under the job's row lock, hence in the same order.  A          *)
(* revision is named by its content, which UNIQUE(job_id, digest) allows.  *)
(***************************************************************************)
EXTENDS Integers, Sequences, FiniteSets

CONSTANTS
  Workers,        \* processes that call processNextDiscussionTurn
  Tokens,         \* lease tokens (randomUUID); a token in use is never drawn
  Specs,          \* contents of generation specifications
  OpenSpecs,      \* the specifications with open questions
  MaxTurns,       \* bound: OWNER messages of the job
  MaxText,        \* bound: text deltas of one attempt
  MaxFaults,      \* bound: crashes, stalls and failed final writes
  NoToken, NoSpec

ASSUME TurnAssumption  == MaxTurns \in Nat \ {0}
ASSUME BoundAssumption == MaxText \in Nat /\ MaxFaults \in Nat
ASSUME NullAssumption  == /\ NoToken \notin Tokens
                          /\ NoSpec \notin Specs
                          /\ OpenSpecs \subseteq Specs

VARIABLES
  job,        \* generation_job.state; ANALYZING stands for the whole pipeline
  asked,      \* number of OWNER messages, and of turns
  status,     \* generation_discussion_turn.status, ABSENT before the insert
  lease,      \* generation_discussion_turn.lease_token
  expired,    \* lease_until < now()
  reply,      \* status of the turn's ASSISTANT message, ABSENT before it
  text,       \* length of the ASSISTANT message's persisted content
  revisions,  \* generation_spec_revision, in revision order
  source,     \* generation_spec_revision.source_turn_id
  current,    \* generation_job.current_spec_revision_id
  approved,   \* generation_job.approved_spec_revision_id
  worker,     \* local state of processNextDiscussionTurn
  faults      \* environment: faults so far

ownerVars  == <<job, asked>>
turnVars   == <<status, lease, expired>>
replyVars  == <<reply, text>>
specVars   == <<revisions, source, current, approved>>
vars == <<job, asked, status, lease, expired, reply, text,
          revisions, source, current, approved, worker, faults>>

Turns == 1..MaxTurns

ActiveStatus   == {"RUNNING", "INTERRUPT_REQUESTED"}
LiveStatus     == ActiveStatus \union {"QUEUED"}
TerminalStatus == {"COMPLETED", "INTERRUPTED", "FAILED", "CANCELLED"}
TurnStatus     == LiveStatus \union TerminalStatus \union {"ABSENT"}
ReplyStatus    == {"ABSENT", "STREAMING", "COMPLETED", "INTERRUPTED", "FAILED"}
JobState       == {"DISCUSSING", "ANALYZING", "CANCELLED"}

Active(t) == status[t] \in ActiveStatus
Live(t)   == status[t] \in LiveStatus
Proposed  == {revisions[i] : i \in 1..Len(revisions)}

-----------------------------------------------------------------------------
(* The local state of a worker.  pc names the await it is about to perform. *)

WorkerPc == {"idle", "claimed", "created", "streaming", "frame", "finishing", "ending"}

Outcomes == {"INTERRUPTED", "FAILED"}  \* of a turn that is not completed

WorkerState ==
  [pc         : WorkerPc,
   turn       : 0..MaxTurns,
   token      : Tokens \union {NoToken},
   text       : 0..MaxText,            \* accumulated
   leaseLost  : BOOLEAN,
   steered    : BOOLEAN,               \* interruptedBySteer
   unresolved : BOOLEAN,               \* unresolvedProposalError
   outcome    : Outcomes]

IdleWorker == [pc |-> "idle", turn |-> 0, token |-> NoToken, text |-> 0, leaseLost |-> FALSE,
               steered |-> FALSE, unresolved |-> FALSE, outcome |-> "FAILED"]

\* The turn row still carries this worker's token and is not terminal.
OwnsLease(w) == LET t == worker[w].turn IN
  t # 0 /\ Active(t) /\ lease[t] = worker[w].token

\* The check every leased write repeats inside its transaction.
LeaseValid(w) == OwnsLease(w) /\ ~expired[worker[w].turn]

Goto(w, pc) == worker' = [worker EXCEPT ![w].pc = pc]

\* An exception reaches the catch block: a worker that has an ASSISTANT message
\* and does not know that its lease is lost goes on to finalize the turn.
ThrowAfter(w, n, outcome) ==
  worker' = [worker EXCEPT ![w] =
    IF worker[w].leaseLost THEN IdleWorker
    ELSE [worker[w] EXCEPT !.pc = "ending", !.text = n,
            !.outcome = IF worker[w].steered THEN "INTERRUPTED" ELSE outcome]]
Throw(w, outcome) == ThrowAfter(w, worker[w].text, outcome)

TokensInUse == {lease[t] : t \in Turns} \union {worker[w].token : w \in Workers}

-----------------------------------------------------------------------------
Init ==
  /\ job = "DISCUSSING"
  /\ asked = 1
  /\ status  = [t \in Turns |-> IF t = 1 THEN "QUEUED" ELSE "ABSENT"]
  /\ lease   = [t \in Turns |-> NoToken]
  /\ expired = [t \in Turns |-> FALSE]
  /\ reply   = [t \in Turns |-> "ABSENT"]
  /\ text    = [t \in Turns |-> 0]
  /\ revisions = <<>>
  /\ source   = [s \in Specs |-> 0]
  /\ current  = NoSpec
  /\ approved = NoSpec
  /\ worker = [w \in Workers |-> IdleWorker]
  /\ faults = 0

-----------------------------------------------------------------------------
(* The OWNER.  An operator whose name has a suffix (_StateOnly, ...) is *)
(* a slip the code could have made in the definition that follows it, kept  *)
(* to see that a property would notice; no action uses it.                  *)

DiscussionOpen == job = "DISCUSSING" /\ approved = NoSpec

\* A new message supersedes the queued turn, interrupts the running one and
\* queues its own.  A replayed idempotency key changes nothing.
QueueTurn ==
  /\ DiscussionOpen
  /\ asked < MaxTurns
  /\ asked' = asked + 1
  /\ status' = [t \in Turns |->
       CASE t = asked + 1           -> "QUEUED"
         [] status[t] = "QUEUED"    -> "INTERRUPTED"
         [] status[t] = "RUNNING"   -> "INTERRUPT_REQUESTED"
         [] OTHER                   -> status[t]]
  /\ UNCHANGED <<job, lease, expired, replyVars, specVars, worker, faults>>

\* Every OWNER message later than the one the revision answers was itself
\* answered by a completed turn.
OwnerInputRepresented(s) ==
  \A t \in Turns : source[s] < t /\ t <= asked => status[t] = "COMPLETED"

Approvable_Stale(s) == s \in Proposed \ OpenSpecs

Approvable(s) == current = s /\ s \notin OpenSpecs

\* The capability contracts a specification refers to may be stale at any
\* moment; approval then rolls back, so only the current case is a step.
Approve(s) ==
  /\ DiscussionOpen
  /\ Approvable(s)
  /\ \A t \in Turns : ~Live(t)
  /\ OwnerInputRepresented(s)
  /\ job' = "ANALYZING"
  /\ approved' = s
  /\ UNCHANGED <<asked, turnVars, replyVars, revisions, source, current, worker, faults>>

\* A message nobody will finish.
ClosedReply(t) == IF reply[t] = "STREAMING" THEN "INTERRUPTED" ELSE reply[t]

CancelledStatus(t) ==
  CASE status[t] = "QUEUED" -> "CANCELLED"
    [] Active(t)            -> "INTERRUPT_REQUESTED"
    [] OTHER                -> status[t]

Cancel ==
  /\ job # "CANCELLED"
  /\ job' = "CANCELLED"
  /\ status' = [t \in Turns |-> CancelledStatus(t)]
  /\ reply' = [t \in Turns |-> ClosedReply(t)]
  /\ UNCHANGED <<asked, lease, expired, text, specVars, worker, faults>>

-----------------------------------------------------------------------------
(* A worker between two turns: recovery of expired leases, then the claim.  *)

Abandoned_RunningOnly(t) == status[t] = "RUNNING" /\ expired[t]

Abandoned(t) == Active(t) /\ expired[t]

Superseded_JobOnly == job # "DISCUSSING"

\* An abandoned turn is not worth answering any more.
Superseded == job # "DISCUSSING" \/ \E u \in Turns : status[u] = "QUEUED"

\* An abandoned turn of a closed discussion, or one with a queued successor,
\* ends; any other is queued again with its message left as it is.
Recover(w, t) ==
  /\ worker[w].pc = "idle"
  /\ Abandoned(t)
  /\ status' = [status EXCEPT ![t] = IF Superseded THEN "INTERRUPTED" ELSE "QUEUED"]
  /\ reply' = [reply EXCEPT ![t] = IF Superseded THEN ClosedReply(t) ELSE reply[t]]
  /\ lease' = [lease EXCEPT ![t] = NoToken]
  /\ expired' = [expired EXCEPT ![t] = FALSE]
  /\ UNCHANGED <<ownerVars, text, specVars, worker, faults>>

OthersIdle_RunningOnly(t) == \A u \in Turns : u # t => status[u] # "RUNNING"

OthersIdle(t) == \A u \in Turns : u # t => ~Active(u)

Claim(w, t, token) ==
  /\ worker[w].pc = "idle"
  /\ job = "DISCUSSING"
  /\ status[t] = "QUEUED"
  /\ OthersIdle(t)
  /\ token \notin TokensInUse
  /\ status' = [status EXCEPT ![t] = "RUNNING"]
  /\ lease' = [lease EXCEPT ![t] = token]
  /\ worker' = [worker EXCEPT ![w] =
       [IdleWorker EXCEPT !.pc = "claimed", !.turn = t, !.token = token]]
  /\ UNCHANGED <<ownerVars, expired, replyVars, specVars, faults>>

-----------------------------------------------------------------------------
(* A worker inside a turn.                                                  *)

\* An existing message (of an earlier attempt) is reused without a lease check.
CreateReply(w) ==
  LET t == worker[w].turn IN
  /\ worker[w].pc = "claimed"
  /\ \/ /\ reply[t] # "ABSENT"
        /\ Goto(w, "created")
        /\ UNCHANGED replyVars
     \/ /\ reply[t] = "ABSENT" /\ LeaseValid(w)
        /\ reply' = [reply EXCEPT ![t] = "STREAMING"]
        /\ Goto(w, "created")
        /\ UNCHANGED text
     \/ /\ reply[t] = "ABSENT" /\ ~LeaseValid(w)
        /\ worker' = [worker EXCEPT ![w] = IdleWorker]
        /\ UNCHANGED replyVars
  /\ UNCHANGED <<ownerVars, turnVars, specVars, faults>>

OpenReply_StreamingOnly == {"STREAMING"}

\* The messages a worker may still write.
OpenReply == {"STREAMING", "INTERRUPTED"}

MarkStreaming(w) ==
  LET t == worker[w].turn IN
  /\ worker[w].pc = "created"
  /\ IF LeaseValid(w) /\ reply[t] \in OpenReply
       THEN /\ reply' = [reply EXCEPT ![t] = "STREAMING"]
            /\ Goto(w, "streaming")
       ELSE /\ Throw(w, "INTERRUPTED")
            /\ UNCHANGED reply
  /\ UNCHANGED <<ownerVars, turnVars, text, specVars, faults>>

\* The start of every provider frame: the lease, then the steer and the cancel.
CheckFrame(w) ==
  LET t == worker[w].turn IN
  /\ worker[w].pc = "streaming"
  /\ ~worker[w].leaseLost /\ ~worker[w].steered
  /\ IF LeaseValid(w) /\ status[t] = "RUNNING" /\ job # "CANCELLED"
       THEN Goto(w, "frame")
       ELSE Throw(w, "INTERRUPTED")
  /\ UNCHANGED <<ownerVars, turnVars, replyVars, specVars, faults>>

\* persistLeasedDelta: the accumulated text grows before it is persisted.
PersistDelta(w) ==
  LET t == worker[w].turn  n == worker[w].text + 1 IN
  /\ worker[w].pc = "frame"
  /\ worker[w].text < MaxText
  /\ IF LeaseValid(w) /\ reply[t] = "STREAMING"
       THEN /\ text' = [text EXCEPT ![t] = n]
            /\ worker' = [worker EXCEPT ![w].pc = "streaming", ![w].text = n]
       ELSE /\ ThrowAfter(w, n, "INTERRUPTED")
            /\ UNCHANGED text
  /\ UNCHANGED <<ownerVars, turnVars, reply, specVars, faults>>

\* The model's proposal fails the capability or the schema validation.
RejectProposal(w) ==
  /\ worker[w].pc = "streaming"
  /\ LeaseValid(w)
  /\ ~worker[w].unresolved
  /\ worker' = [worker EXCEPT ![w].unresolved = TRUE]
  /\ UNCHANGED <<ownerVars, turnVars, replyVars, specVars, faults>>

\* The newest revision, which getCurrentSpec returns.
IsNewest(s) == revisions # <<>> /\ revisions[Len(revisions)] = s

\* Some revision of the job has this content.
Recorded(s) == s \in Proposed

Accepting_AnyJob(w) == LeaseValid(w)

Accepting(w) == job = "DISCUSSING" /\ LeaseValid(w)

\* createSpecRevisionLocked, under the job's row lock.  The newest revision is
\* what the proposal is compared with first; the current pointer is not read.
SpecAccepted(w, s) ==
  /\ worker[w].pc = "streaming"
  /\ Accepting(w)
  /\ \/ /\ IsNewest(s)
        /\ UNCHANGED <<revisions, source, current>>
     \/ /\ Recorded(s) /\ ~IsNewest(s)
        /\ current' = s
        /\ UNCHANGED <<revisions, source>>
     \/ /\ ~Recorded(s) /\ ~IsNewest(s)
        /\ revisions' = Append(revisions, s)
        /\ source' = [source EXCEPT ![s] = worker[w].turn]
        /\ current' = s
  /\ worker' = [worker EXCEPT ![w].unresolved = FALSE]
  /\ UNCHANGED <<ownerVars, turnVars, replyVars, approved, faults>>

\* A lost lease escapes the tool loop; a closed discussion is reported to the
\* model like a validation error.
SpecRefused(w) ==
  /\ worker[w].pc = "streaming"
  /\ \/ ~LeaseValid(w) /\ Throw(w, "INTERRUPTED")
     \/ /\ LeaseValid(w) /\ job # "DISCUSSING"
        /\ ~worker[w].unresolved
        /\ worker' = [worker EXCEPT ![w].unresolved = TRUE]
  /\ UNCHANGED <<ownerVars, turnVars, replyVars, specVars, faults>>

\* The model's answer is complete: an unlocked read decides how the turn ends.
CheckTerminal(w) ==
  LET t == worker[w].turn IN
  /\ worker[w].pc = "streaming"
  /\ ~worker[w].unresolved
  /\ IF job = "DISCUSSING" /\ status[t] = "RUNNING"
       THEN Goto(w, "finishing")
       ELSE Throw(w, "INTERRUPTED")
  /\ UNCHANGED <<ownerVars, turnVars, replyVars, specVars, faults>>

\* The text held back by the stream filter is persisted before the final write.
FlushDelta(w) ==
  LET t == worker[w].turn  n == worker[w].text + 1 IN
  /\ worker[w].pc = "finishing"
  /\ worker[w].text < MaxText
  /\ IF LeaseValid(w) /\ reply[t] = "STREAMING"
       THEN /\ text' = [text EXCEPT ![t] = n]
            /\ worker' = [worker EXCEPT ![w].text = n]
       ELSE /\ ThrowAfter(w, n, "INTERRUPTED")
            /\ UNCHANGED text
  /\ UNCHANGED <<ownerVars, turnVars, reply, specVars, faults>>

\* finalizeLeasedDiscussionTurn: the turn's status, owner and token are checked,
\* the expiry and the job are not.
Finalize(w, outcome) ==
  LET t == worker[w].turn IN
  /\ IF OwnsLease(w)
       THEN /\ status' = [status EXCEPT ![t] = outcome]
            /\ lease' = [lease EXCEPT ![t] = NoToken]
            /\ expired' = [expired EXCEPT ![t] = FALSE]
            /\ IF reply[t] \in OpenReply
                 THEN /\ reply' = [reply EXCEPT ![t] = outcome]
                      /\ text' = [text EXCEPT ![t] = worker[w].text]
                 ELSE UNCHANGED replyVars
       ELSE UNCHANGED <<turnVars, replyVars>>
  /\ worker' = [worker EXCEPT ![w] = IdleWorker]
  /\ UNCHANGED <<ownerVars, specVars, faults>>

Complete(w) == worker[w].pc = "finishing" /\ Finalize(w, "COMPLETED")
End(w)      == worker[w].pc = "ending" /\ Finalize(w, worker[w].outcome)

\* The heartbeat renews only an unexpired RUNNING turn, so a steer looks to it
\* like a lost lease; only a steer that lands between its two queries is seen.
Heartbeat(w) ==
  LET t == worker[w].turn IN
  /\ worker[w].pc # "idle"
  /\ \/ /\ ~(LeaseValid(w) /\ status[t] = "RUNNING")
        /\ ~worker[w].leaseLost
        /\ worker' = [worker EXCEPT ![w].leaseLost = TRUE]
     \/ /\ status[t] = "INTERRUPT_REQUESTED"
        /\ ~worker[w].steered /\ ~worker[w].leaseLost
        /\ worker' = [worker EXCEPT ![w].steered = TRUE]
  /\ UNCHANGED <<ownerVars, turnVars, replyVars, specVars, faults>>

\* The provider fails, the model runs out of rounds, the 180 s timer or the
\* heartbeat aborts the stream.
ProviderError(w) ==
  /\ worker[w].pc \in {"streaming", "frame"}
  /\ Throw(w, "FAILED")
  /\ UNCHANGED <<ownerVars, turnVars, replyVars, specVars, faults>>

-----------------------------------------------------------------------------
(* Faults.                                                                  *)

Fault == faults < MaxFaults /\ faults' = faults + 1

\* The process dies, or a database error strikes before the message exists.
Crash(w) ==
  /\ Fault
  /\ worker[w].pc # "idle"
  /\ worker' = [worker EXCEPT ![w] = IdleWorker]
  /\ UNCHANGED <<ownerVars, turnVars, replyVars, specVars>>

\* The final write fails (deadlock victim, lost connection): a completion is
\* retried as a failure, a failed failure leaves the turn to its lease.
FinalWriteFails(w) ==
  /\ Fault
  /\ \/ worker[w].pc = "finishing" /\ Throw(w, "FAILED")
     \/ worker[w].pc = "ending" /\ worker' = [worker EXCEPT ![w] = IdleWorker]
  /\ UNCHANGED <<ownerVars, turnVars, replyVars, specVars>>

\* A worker stalls for 180 s while its turn is still RUNNING.
Stall(w) ==
  LET t == worker[w].turn IN
  /\ Fault
  /\ worker[w].pc # "idle"
  /\ LeaseValid(w) /\ status[t] = "RUNNING"
  /\ expired' = [expired EXCEPT ![t] = TRUE]
  /\ UNCHANGED <<ownerVars, status, lease, replyVars, specVars, worker>>

\* 180 s pass and no heartbeat renews the lease: its worker is gone, or the
\* steer makes the renewal miss the row.
LeaseExpires(t) ==
  /\ Active(t) /\ ~expired[t]
  /\ status[t] = "RUNNING" => \A w \in Workers : worker[w].token # lease[t]
  /\ expired' = [expired EXCEPT ![t] = TRUE]
  /\ UNCHANGED <<ownerVars, status, lease, replyVars, specVars, worker, faults>>

-----------------------------------------------------------------------------
Owner == QueueTurn \/ (\E s \in Specs : Approve(s)) \/ Cancel

\* What drives an attempt to its end, whatever the model does.
Progress(w) ==
  CreateReply(w) \/ MarkStreaming(w) \/ CheckTerminal(w) \/ PersistDelta(w)
  \/ Complete(w) \/ End(w) \/ ProviderError(w)

Attempt(w) ==
  \/ Progress(w)
  \/ CheckFrame(w) \/ RejectProposal(w) \/ SpecRefused(w)
  \/ FlushDelta(w) \/ Heartbeat(w)
  \/ \E s \in Specs : SpecAccepted(w, s)

Poll(w) == \E t \in Turns : Recover(w, t) \/ \E token \in Tokens : Claim(w, t, token)

Environment ==
  \/ \E w \in Workers : Crash(w) \/ FinalWriteFails(w) \/ Stall(w)
  \/ \E t \in Turns : LeaseExpires(t)

Next == Owner \/ (\E w \in Workers : Poll(w) \/ Attempt(w)) \/ Environment

Spec == Init /\ [][Next]_vars

\* Workers keep polling and every attempt is bounded by the 180 s timer; time
\* passes.  Neither the OWNER nor a fault is ever obliged to happen.
Fairness ==
  /\ \A w \in Workers : WF_vars(Poll(w)) /\ WF_vars(Progress(w))
  /\ \A t \in Turns : WF_vars(LeaseExpires(t))

FairSpec == Spec /\ Fairness

-----------------------------------------------------------------------------
(* Properties.                                                              *)

\* Every variable stays in its type.
TypeOK ==
  /\ job \in JobState
  /\ asked \in Turns
  /\ status \in [Turns -> TurnStatus]
  /\ lease \in [Turns -> Tokens \union {NoToken}]
  /\ expired \in [Turns -> BOOLEAN]
  /\ reply \in [Turns -> ReplyStatus]
  /\ text \in [Turns -> 0..MaxText]
  /\ revisions \in Seq(Specs)
  /\ source \in [Specs -> 0..MaxTurns]
  /\ current \in Specs \union {NoSpec}
  /\ approved \in Specs \union {NoSpec}
  /\ worker \in [Workers -> WorkerState]
  /\ faults \in 0..MaxFaults

\* One turn of the job is being answered.
SingleActive == \A t, u \in Turns : Active(t) /\ Active(u) => t = u

\* At most one worker of all may write to the job, and only one turn of the job
\* is being answered, through crashes, recoveries and steers (the partial unique
\* index of migration 017 is never what prevents it).
SingleWriter ==
  /\ SingleActive
  /\ \A w, v \in Workers : OwnsLease(w) /\ OwnsLease(v) => w = v

\* Only the newest message is waiting or being answered without objection; a
\* turn that was asked to stop in an open discussion has a queued successor, so
\* recovery never puts a superseded message back in the queue.
NewestMessageWins ==
  \A t \in Turns :
    /\ status[t] \in {"QUEUED", "RUNNING"} => t = asked /\ job = "DISCUSSING"
    /\ status[t] = "INTERRUPT_REQUESTED" =>
         job = "CANCELLED" \/ (t < asked /\ status[asked] = "QUEUED")

\* The OWNER reads on the message what happened to the turn: a reply is complete
\* or failed exactly when its turn is.
ReplyTellsOutcome ==
  \A t \in Turns :
    /\ status[t] = "COMPLETED" <=> reply[t] = "COMPLETED"
    /\ reply[t] = "FAILED" => status[t] = "FAILED"
    /\ status[t] = "FAILED" => reply[t] = "FAILED"

\* An approved specification is the one the OWNER sees, has no open question,
\* and every message written after its source was answered to the end, for as
\* long as the job lives and whatever the workers were doing at the approval.
ApprovalIsRepresentative ==
  approved # NoSpec =>
    /\ job # "DISCUSSING"
    /\ current = approved
    /\ approved \notin OpenSpecs
    /\ OwnerInputRepresented(approved)

\* The revision log has no repeated content, the current pointer is one of its
\* entries, and every entry answers a message that was asked.
RevisionLogSound ==
  /\ \A i, j \in 1..Len(revisions) : revisions[i] = revisions[j] => i = j
  /\ current = NoSpec <=> revisions = <<>>
  /\ current # NoSpec => current \in Proposed
  /\ \A s \in Specs : IF s \in Proposed THEN source[s] \in 1..asked ELSE source[s] = 0

\* Nothing of a turn that ended changes afterwards, not even by a worker that
\* was stalled or recovered from; only Cancel still closes a message left open.
EndedTurnsAreFinal ==
  [][\A t \in Turns : status[t] \in TerminalStatus =>
       /\ status'[t] = status[t] /\ text'[t] = text[t]
       /\ reply'[t] = reply[t] \/ reply[t] = "STREAMING"]_vars

\* Approval closes the discussion: no message, revision or pointer moves after it.
ApprovalFreezes ==
  [][approved # NoSpec => UNCHANGED <<asked, specVars>>]_vars

\* Every message is answered, given up or cancelled in the end, whatever the
\* model says, as long as the faults stop.
EveryTurnEnds == \A t \in Turns : Live(t) ~> status[t] \in TerminalStatus

\* The discussion as its OWNER sees it.
Openness == CASE job = "DISCUSSING" -> "open"
              [] job = "ANALYZING"  -> "approved"
              [] OTHER              -> "cancelled"
Answer == [t \in Turns |-> IF Live(t) THEN "PENDING" ELSE status[t]]

Contract == INSTANCE DiscussionContract WITH open <- Openness, answer <- Answer

\* The discussion keeps the promises of DiscussionContract.
KeepsContract == Contract!Spec

-----------------------------------------------------------------------------
(* What makes the properties inductive.                                     *)

\* Turns are asked one after the other and never forgotten.
AskedInOrder == \A t \in Turns : status[t] = "ABSENT" <=> t > asked

\* A turn has a token exactly while it is active, a worker exactly while it is
\* busy, and no two workers hold the same one.
TokensFence ==
  /\ \A t \in Turns : Active(t) <=> lease[t] # NoToken
  /\ \A w \in Workers : worker[w].pc = "idle" <=> worker[w].token = NoToken
  /\ \A w \in Workers : worker[w].pc = "idle" <=> worker[w].turn = 0
  /\ \A w, v \in Workers : worker[w].token = worker[v].token => w = v \/ worker[w].pc = "idle"

\* The message of a turn that may still end is open to the final write, and a
\* worker past its creation finds one.
RepliesAreOpen ==
  /\ \A t \in Turns : Live(t) => reply[t] \in {"ABSENT", "STREAMING", "INTERRUPTED"}
  /\ \A w \in Workers : worker[w].pc \notin {"idle", "claimed"} => reply[worker[w].turn] # "ABSENT"

DiscussionInv ==
  /\ TypeOK /\ AskedInOrder /\ SingleActive /\ NewestMessageWins /\ TokensFence
  /\ RepliesAreOpen /\ ReplyTellsOutcome /\ ApprovalIsRepresentative

-----------------------------------------------------------------------------
(* What the documentation says and the code does not do.                    *)

\* SSOT_CURRENT.md: an accepted proposal that differs from the current
\* revision becomes the current one.
AcceptedProposalIsCurrent ==
  [][\A w \in Workers, s \in Specs : SpecAccepted(w, s) => current' = s]_vars
=============================================================================
