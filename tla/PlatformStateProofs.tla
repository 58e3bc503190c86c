---- MODULE PlatformStateProofs ----
(***************************************************************************)
(* Proofs about state that outlives a request: DNS records, connections,   *)
(* releases, evidence, the lease of a worker, audit events and automations. *)
(* The theorems are about the composed specification, where one component  *)
(* moves and the others keep None; every invariant is about one component. *)
(***************************************************************************)
EXTENDS MCPlatform, FiniteSetTheorems, SequenceTheorems, TLAPS

\* The component that moves takes its own steps, and the others none.
LEMMA Moves ==
  ASSUME [Next]_all
  PROVE  /\ part' = part
         /\ part = "dns" => [Dns!Next]_dnsVars
         /\ part = "topology" => [Topologies!Next]_topologyVars
         /\ part = "release" => [Release!Next]_releaseVars
         /\ part = "gates" => [Gates!Next]_gatesVars
         /\ part = "lease" => [Lease!Next]_leaseVars
         /\ part = "reports" => [Reports!Next]_reportsVars
         /\ part = "registry" => [Registry!Next]_registryVars
<1>1. CASE Next
  BY <1>1 DEF Next
<1>2. CASE UNCHANGED all
  BY <1>2 DEF all
<1> QED
  BY <1>1, <1>2

LEMMA Starts ==
  ASSUME Init
  PROVE  /\ part = "dns" => Dns!Init
         /\ part = "topology" => Topologies!Init
         /\ part = "release" => Release!Init
         /\ part = "gates" => Gates!Init
         /\ part = "lease" => Lease!Init
         /\ part = "reports" => Reports!Init
         /\ part = "registry" => Registry!Init
BY DEF Init

-----------------------------------------------------------------------------
(***************************************************************************)
(* WedosDns: the TXT records of an operation.                              *)
(*                                                                         *)
(* The lock of an operation belongs to a process, and dies with it.  What  *)
(* the holder read of the zone stays so while it holds the lock, though    *)
(* the ledger is written in transactions of its own; the last step of a    *)
(* cleanup comes after the lock is given back, and is harmless because     *)
(* nothing brings a removed record back.                                   *)
(***************************************************************************)

LedgerStates == {"none", "CREATED", "FAILED"} \union Dns!Added \union Dns!Removed
Calm  == {"idle", "add", "commit", "mark", "cleanup", "catch", "recover", "fail"}
DnsPlaces == Calm \union Dns!Locking \union {"terminalize"}
CommandState ==
  [pc : DnsPlaces, op : Operations \union {Dns!Done.op}, next : Seq({"commit", "mark", "cleanup"}),
   catch : {"end", "rethrow", "cleanup"}]
DnsTyped ==
  /\ ledger \in [Operations -> [state : LedgerStates, row : Nat]]
  /\ rows \subseteq [op : Operations, id : Nat]
  /\ process \in [Actors -> CommandState]
  /\ \A p \in Actors : process[p].pc # "idle" => process[p].op \in Operations
  /\ added \in Nat

\* Rows have numbers of their own.
Numbered == \A r, s \in rows : r.id <= added /\ (r.id = s.id => r = s)

\* Two processes that hold the lock hold it for two operations.
Exclusive ==
  \A p, q \in Actors :
    p # q /\ process[p].pc \in Dns!Locking /\ process[q].pc \in Dns!Locking => process[p].op # process[q].op

\* A row that is there once the operation knows its number is the one with that number.
OperationOK(o) ==
  /\ \A r, s \in Dns!Owned(o) : r = s
  /\ ledger[o].state \in Dns!Added => Dns!Owned(o) # {}
  /\ ledger[o].state \in Dns!Added \union {"CLEANUP_REQUESTED"} => \A r \in Dns!Owned(o) : r.id = ledger[o].row
  /\ ledger[o].state \in {"none", "DELETED", "CLEANUP_PROPAGATED"} => Dns!Owned(o) = {}

\* What a process that holds the lock has read, and what stays so without it.
Gone(o) == Dns!Owned(o) = {} /\ ledger[o].state \in Dns!Removed \union {"FAILED"}
CommandOK(p) ==
  LET o == process[p].op IN
  /\ process[p].pc = "missing" => Dns!Owned(o) = {}
  /\ process[p].pc \in {"missing", "adding"} => ledger[o].state = "CREATED"
  /\ process[p].pc = "publishing" => ledger[o].state = "ROW_ADDED"
  /\ process[p].pc = "waiting" => ledger[o].state = "COMMITTED"
  /\ process[p].pc \in {"deleting", "unpublishing"} => ledger[o].state = "CLEANUP_REQUESTED"
  /\ process[p].pc = "unpublishing" => Dns!Owned(o) = {}
  /\ process[p].pc = "vanishing" => ledger[o].state = "DELETED"
  /\ process[p].pc = "terminalize" => Gone(o)

DnsInv ==
  /\ DnsTyped /\ Numbered /\ Exclusive
  /\ \A o \in Operations : OperationOK(o)
  /\ \A p \in Actors : CommandOK(p)

-----------------------------------------------------------------------------
(* What a step does to the process that takes it.                           *)

\* The size of a set is the same in the component and here.
LEMMA SameSize == ASSUME NEW S PROVE Dns!Cardinality(S) = Cardinality(S)
BY DEF Dns!Cardinality, Cardinality

LEMMA DnsSize == ASSUME NEW S, \A r, s \in S : r = s
                 PROVE  IF S = {} THEN Dns!Cardinality(S) = 0 ELSE Dns!Cardinality(S) = 1
<1>1. CASE S = {}
  BY <1>1, FS_EmptySet, SameSize
<1>2. ASSUME NEW r \in S PROVE S = {r} /\ Dns!Cardinality({r}) = 1
  BY FS_Singleton, SameSize
<1> QED
  BY <1>1, <1>2

\* The process goes on with the operation o, or ends; the others stay.
DnsGoes(p, o, pcs) ==
  /\ process' \in [Actors -> CommandState] /\ \A q \in Actors : process'[q].pc # "idle"
       => process'[q].op \in Operations
  /\ \A q \in Actors : q # p => process'[q] = process[q]
  /\ process'[p].pc \in pcs
  /\ process'[p].pc = "idle" \/ process'[p].op = o

LEMMA EndEffect ==
  ASSUME DnsTyped, NEW p \in Actors, process' = [process EXCEPT ![p] = Dns!Done]
  PROVE  DnsGoes(p, process[p].op, {"idle"})
<1>1. Dns!Done \in CommandState /\ Dns!Done.pc = "idle"
  BY DEF Dns!Done, CommandState, DnsPlaces, Calm
<1> QED
  BY <1>1 DEF DnsTyped, DnsGoes

LEMMA ToEffect ==
  ASSUME DnsTyped, NEW p \in Actors, NEW to \in DnsPlaces, process[p].pc # "idle", Dns!To(p, to)
  PROVE  DnsGoes(p, process[p].op, {to})
<1>1. [process[p] EXCEPT !.pc = to] \in CommandState /\ [process[p] EXCEPT !.pc = to].pc = to
      /\ [process[p] EXCEPT !.pc = to].op = process[p].op
  BY DEF DnsTyped, CommandState
<1>2. process' = [process EXCEPT ![p] = [process[p] EXCEPT !.pc = to]]
  BY DEF Dns!To, DnsTyped
<1> QED
  BY <1>1, <1>2 DEF DnsTyped, DnsGoes

LEMMA GoEffect ==
  ASSUME DnsTyped, NEW p \in Actors, process[p].pc # "idle", Dns!Go(p) PROVE DnsGoes(p, process[p].op, Calm)
<1> DEFINE job == process[p]
           x == [job EXCEPT !.pc = Head(job.next), !.next = Tail(job.next)]
<1>1. CASE job.next = <<>>
  <2>1. DnsGoes(p, process[p].op, {"idle"})
    BY <1>1, EndEffect DEF Dns!Go
  <2> QED
    BY <2>1 DEF DnsGoes, Calm
<1>2. CASE job.next # <<>>
  <2>1. Head(job.next) \in {"commit", "mark", "cleanup"} /\ Tail(job.next) \in Seq({"commit", "mark", "cleanup"})
    <3>1. job.next \in Seq({"commit", "mark", "cleanup"})
      BY DEF DnsTyped, CommandState
    <3> QED
      BY <1>2, <3>1, HeadTailProperties
  <2>2. job \in CommandState
    BY DEF DnsTyped
  <2>3. x \in CommandState /\ x.pc \in Calm /\ x.op = job.op
    BY <2>1, <2>2 DEF CommandState, DnsPlaces, Calm
  <2>4. process' = [process EXCEPT ![p] = x]
    BY <1>2 DEF Dns!Go
  <2> HIDE DEF x
  <2> QED
    BY <2>3, <2>4 DEF DnsTyped, DnsGoes
<1> QED
  BY <1>1, <1>2

LEMMA ThrowEffect ==
  ASSUME DnsTyped, NEW p \in Actors, process[p].pc # "idle", Dns!Throw(p) PROVE DnsGoes(p, process[p].op, Calm)
<1>1. CASE process[p].catch = "end" \/ process[p].pc \in Dns!Cleaning
  <2>1. process' = [process EXCEPT ![p] = Dns!Done]
    BY <1>1 DEF Dns!Throw, DnsTyped
  <2>2. DnsGoes(p, process[p].op, {"idle"})
    BY <2>1, EndEffect
  <2> QED
    BY <2>2 DEF DnsGoes, Calm
<1>2. CASE ~(process[p].catch = "end" \/ process[p].pc \in Dns!Cleaning)
  <2> DEFINE x == [process[p] EXCEPT !.pc = "catch", !.next = <<>>]
  <2>1. process[p] \in CommandState /\ <<>> \in Seq({"commit", "mark", "cleanup"})
    BY EmptySeq DEF DnsTyped
  <2>2. x \in CommandState /\ x.pc \in Calm /\ x.op = process[p].op
    BY <2>1 DEF CommandState, DnsPlaces, Calm
  <2>3. process' = [process EXCEPT ![p] = x]
    BY <1>2 DEF Dns!Throw, DnsTyped
  <2> HIDE DEF x
  <2> QED
    BY <2>2, <2>3 DEF DnsTyped, DnsGoes
<1> QED
  BY <1>1, <1>2

-----------------------------------------------------------------------------
(* What a step leaves alone.                                                *)

\* Only what is about the operation o changes; what is gone stays gone.
Only(o) ==
  /\ DnsTyped' /\ Numbered'
  /\ \A u \in Operations \ {o} : ledger'[u] = ledger[u] /\ Dns!Owned(u)' = Dns!Owned(u)
  /\ Gone(o) => Gone(o)'
Still == UNCHANGED <<ledger, rows>>

\* Nobody else holds the lock of the operation: who takes a step under the lock has it to himself.
Free(p, o) == \A q \in Actors \ {p} : process[q].op = o => process[q].pc \notin Dns!Locking

LEMMA Locked ==
  ASSUME DnsInv, NEW p \in Actors, NEW o, process[p].op = o, process[p].pc \in Dns!Locking \/ Dns!LockFree(p)
  PROVE  Free(p, o)
BY DEF DnsInv, Exclusive, Dns!LockFree, Free

LEMMA Alone ==
  ASSUME DnsInv, NEW p \in Actors, NEW o \in Operations, NEW pcs, DnsGoes(p, o, pcs), DnsTyped', Numbered',
         pcs \subseteq Calm \union {"terminalize"} \/ Free(p, o),
         Still \/ (Free(p, o) /\ Only(o)), OperationOK(o)', CommandOK(p)'
  PROVE  DnsInv'
<1>1. Exclusive'
  <2>1. ASSUME NEW q \in Actors, q # p, process'[p].pc \in Dns!Locking, process[q].pc \in Dns!Locking
        PROVE  process'[p].op # process[q].op
    <3>1. process'[p].op = o
      BY <2>1 DEF DnsGoes, Dns!Locking
    <3>2. Free(p, o)
      BY <2>1 DEF DnsGoes, Dns!Locking, Calm
    <3> QED
      BY <2>1, <3>1, <3>2 DEF Free
  <2> QED
    BY <2>1 DEF DnsGoes, DnsInv, Exclusive
<1>2. ASSUME NEW u \in Operations PROVE OperationOK(u)'
  <2>1. CASE u = o
    BY <2>1
  <2>2. CASE u # o
    <3>1. ledger'[u] = ledger[u] /\ Dns!Owned(u)' = Dns!Owned(u)
      BY <2>2 DEF Only, Still, Dns!Owned
    <3> QED
      BY <3>1 DEF DnsInv, OperationOK
  <2> QED
    BY <2>1, <2>2
<1>3. ASSUME NEW q \in Actors, q # p PROVE CommandOK(q)'
  <2>1. process'[q] = process[q]
    BY <1>3 DEF DnsGoes
  <2> PICK u : u = process[q].op
    OBVIOUS
  <2>2. CASE process[q].pc \in Calm
    BY <2>1, <2>2 DEF CommandOK, Calm
  <2>3. CASE process[q].pc \notin Calm /\ (Still \/ u # o)
    <3>1. u \in Operations
      BY <2>3 DEF DnsInv, DnsTyped, Calm
    <3>2. ledger'[u] = ledger[u] /\ Dns!Owned(u)' = Dns!Owned(u)
      BY <2>3, <3>1 DEF Only, Still, Dns!Owned
    <3>3. Gone(u) => Gone(u)'
      BY <3>2 DEF Gone
    <3> QED
      BY <2>1, <3>2, <3>3 DEF DnsInv, CommandOK
  <2>4. CASE process[q].pc \notin Calm /\ ~Still /\ u = o
    <3>1. process[q].pc \notin Dns!Locking
      BY <1>3, <2>4 DEF Free
    <3>2. process[q].pc = "terminalize"
      BY <2>4, <3>1 DEF DnsInv, DnsTyped, CommandState, DnsPlaces
    <3>3. Gone(o)'
      BY <2>4, <3>2 DEF DnsInv, CommandOK, Only
    <3> QED
      BY <2>1, <2>4, <3>2, <3>3 DEF CommandOK
  <2> QED
    BY <2>2, <2>3, <2>4
<1> QED
  BY <1>1, <1>2, <1>3 DEF DnsInv

\* A step that only reads.
LEMMA Reading ==
  ASSUME DnsInv, NEW p \in Actors, NEW o \in Operations, NEW pcs, DnsGoes(p, o, pcs),
         UNCHANGED <<ledger, rows, added>>,
         pcs \subseteq Calm \union {"terminalize"} \/ Free(p, o), CommandOK(p)'
  PROVE  DnsInv'
<1>1. DnsTyped' /\ Numbered'
  BY DEF DnsInv, DnsTyped, Numbered, DnsGoes
<1>2. OperationOK(o)'
  BY DEF DnsInv, OperationOK, Dns!Owned
<1> QED
  BY <1>1, <1>2, Alone DEF Still

LEMMA Calming ==
  ASSUME DnsInv, NEW p \in Actors, NEW o \in Operations, DnsGoes(p, o, Calm), UNCHANGED <<ledger, rows, added>>
  PROVE  DnsInv'
<1>1. CommandOK(p)'
  BY DEF DnsGoes, Calm, CommandOK
<1> QED
  BY <1>1, Reading

\* A step that writes the row of one operation in the ledger.
LEMMA Writing ==
  ASSUME DnsInv, NEW p \in Actors, NEW o \in Operations, NEW pcs, DnsGoes(p, o, pcs), Free(p, o),
         UNCHANGED <<rows, added>>,
         NEW new \in [state : LedgerStates, row : Nat], ledger' = [ledger EXCEPT ![o] = new],
         Gone(o) => Gone(o)', OperationOK(o)', CommandOK(p)'
  PROVE  DnsInv'
<1>1. DnsTyped' /\ Numbered'
  BY DEF DnsInv, DnsTyped, Numbered, DnsGoes
<1>2. Only(o)
  BY <1>1 DEF DnsInv, DnsTyped, Only, Dns!Owned
<1> QED
  BY <1>1, <1>2, Alone

-----------------------------------------------------------------------------
(* The actions.                                                             *)

\* A process that is busy is so with an operation.
LEMMA Busy ==
  ASSUME DnsInv, NEW p \in Actors, process[p].pc # "idle"
  PROVE  process[p].op \in Operations /\ DnsTyped /\ ledger[process[p].op] \in [state : LedgerStates, row : Nat]
BY DEF DnsInv, DnsTyped

LEMMA Passing ==
  ASSUME DnsInv, NEW p \in Actors, process[p].pc # "idle", UNCHANGED <<ledger, rows, added>>,
         Dns!Go(p) \/ Dns!Throw(p) \/ (\E to \in Calm : Dns!To(p, to))
             \/ process' = [process EXCEPT ![p] = Dns!Done]
  PROVE  DnsInv'
<1> PICK o : o = process[p].op
  OBVIOUS
<1>1. o \in Operations /\ DnsTyped
  BY Busy
<1>2. DnsGoes(p, o, Calm)
  <2>1. CASE Dns!Go(p)
    BY <1>1, <2>1, GoEffect
  <2>2. CASE Dns!Throw(p)
    BY <1>1, <2>2, ThrowEffect
  <2>3. ASSUME NEW to \in Calm, Dns!To(p, to) PROVE DnsGoes(p, o, Calm)
    <3>1. DnsGoes(p, o, {to})
      BY <1>1, <2>3, ToEffect DEF DnsPlaces
    <3> QED
      BY <3>1 DEF DnsGoes
  <2>4. CASE process' = [process EXCEPT ![p] = Dns!Done]
    <3>1. DnsGoes(p, o, {"idle"})
      BY <1>1, <2>4, EndEffect
    <3> QED
      BY <3>1 DEF DnsGoes, Calm
  <2> QED
    BY <2>1, <2>2, <2>3, <2>4
<1> QED
  BY <1>1, <1>2, Calming

\* A process goes on under the lock, or without it with what stays so.
LEMMA Entering ==
  ASSUME DnsInv, NEW p \in Actors, NEW o, o = process[p].op, process[p].pc # "idle",
         UNCHANGED <<ledger, rows, added>>,
         NEW to \in DnsPlaces, Dns!To(p, to), to = "terminalize" \/ Free(p, o),
         to \in {"missing", "adding"} => ledger[o].state = "CREATED",
         to = "missing" => Dns!Owned(o) = {},
         to = "publishing" => ledger[o].state = "ROW_ADDED",
         to = "waiting" => ledger[o].state = "COMMITTED",
         to = "vanishing" => ledger[o].state = "DELETED",
         to = "terminalize" => Gone(o),
         to \notin {"deleting", "unpublishing"}
  PROVE  DnsInv'
<1>1. o \in Operations /\ DnsTyped
  BY Busy
<1>2. DnsGoes(p, o, {to})
  BY <1>1, ToEffect
<1>3. (Dns!Owned(o) = {} => Dns!Owned(o)' = {}) /\ (Gone(o) => Gone(o)')
  BY DEF Dns!Owned, Gone
<1>4. CommandOK(p)'
  BY <1>2, <1>3 DEF DnsGoes, CommandOK
<1> QED
  BY <1>1, <1>2, <1>4, Reading

LEMMA Reads ==
  ASSUME DnsInv, NEW p \in Actors, Dns!Add(p) \/ Dns!Publish(p) \/ Dns!Wait(p) \/ Dns!Catch(p) PROVE DnsInv'
<1> PICK o : o = process[p].op
  OBVIOUS
<1>1. CASE Dns!Add(p)
  <2>1. Free(p, o) /\ process[p].pc # "idle"
    BY <1>1, Locked DEF Dns!Add
  <2>2. CASE Dns!State(p) = "CREATED"
    <3>1. PICK to \in {"missing", "adding"} : Dns!To(p, to) /\ (to = "missing" => Dns!Owned(o) = {})
      BY <1>1, <2>2 DEF Dns!Add, Dns!Added, Dns!Removed
    <3>2. to \in DnsPlaces
      BY DEF DnsPlaces, Dns!Locking
    <3>3. UNCHANGED <<ledger, rows, added>>
      BY <1>1 DEF Dns!Add
    <3> QED
      BY <2>1, <2>2, <3>1, <3>2, <3>3, Entering DEF Dns!State
  <2>3. CASE Dns!State(p) # "CREATED"
    BY <1>1, <2>1, <2>3, Passing DEF Dns!Add
  <2> QED
    BY <2>2, <2>3
<1>2. CASE Dns!Publish(p)
  <2>1. Free(p, o) /\ process[p].pc # "idle" /\ UNCHANGED <<ledger, rows, added>>
    BY <1>2, Locked DEF Dns!Publish
  <2>2. CASE Dns!State(p) = "ROW_ADDED" /\ Dns!To(p, "publishing")
    BY <2>1, <2>2, Entering DEF Dns!State, DnsPlaces, Dns!Locking
  <2>3. CASE Dns!Throw(p) \/ Dns!Go(p)
    BY <2>1, <2>3, Passing
  <2> QED
    BY <1>2, <2>2, <2>3 DEF Dns!Publish
<1>3. CASE Dns!Wait(p)
  <2>1. Free(p, o) /\ process[p].pc # "idle" /\ UNCHANGED <<ledger, rows, added>>
    BY <1>3, Locked DEF Dns!Wait
  <2>2. CASE Dns!State(p) = "COMMITTED" /\ Dns!To(p, "waiting")
    BY <2>1, <2>2, Entering DEF Dns!State, DnsPlaces, Dns!Locking
  <2>3. CASE Dns!Throw(p) \/ Dns!Go(p)
    BY <2>1, <2>3, Passing
  <2> QED
    BY <1>3, <2>2, <2>3 DEF Dns!Wait
<1>4. CASE Dns!Catch(p)
  <2>1. process[p].pc # "idle" /\ UNCHANGED <<ledger, rows, added>> /\ DnsTyped
    BY <1>4 DEF Dns!Catch, DnsInv
  <2>2. Dns!To(p, "fail") \/ Dns!To(p, "cleanup") \/ process' = [process EXCEPT ![p] = Dns!Done]
    BY <1>4, <2>1 DEF Dns!Catch, Dns!To, DnsTyped
  <2> QED
    BY <2>1, <2>2, Passing DEF Calm
<1> QED
  BY <1>1, <1>2, <1>3, <1>4

LEMMA DnsEnds ==
  ASSUME DnsInv, NEW p \in Actors, Dns!Throws(p) \/ Dns!Deadline(p) \/ Dns!Crash(p) PROVE DnsInv'
<1>1. Dns!Done.pc = "idle" /\ UNCHANGED <<ledger, rows, added>>
  BY DEF Dns!Done, Dns!Throws, Dns!Deadline, Dns!Crash
<1>2. CASE process[p].pc = "idle"
  <2>1. Dns!Crash(p)
    BY <1>2 DEF Dns!Throws, Dns!Deadline, Dns!Locking
  <2>2. process' = [process EXCEPT ![p] = Dns!Done]
    BY <2>1 DEF Dns!Crash
  <2>3. DnsGoes(p, process[p].op, {"idle"})
    BY <2>2, EndEffect DEF DnsInv
  <2>4. DnsTyped' /\ Numbered' /\ Exclusive'
    BY <1>1, <2>3 DEF DnsInv, DnsTyped, Numbered, Exclusive, DnsGoes, Dns!Locking
  <2>5. ASSUME NEW u \in Operations PROVE OperationOK(u)'
    BY <1>1 DEF DnsInv, OperationOK, Dns!Owned
  <2>6. ASSUME NEW q \in Actors PROVE CommandOK(q)'
    <3>1. CASE q = p
      BY <2>3, <3>1 DEF DnsGoes, CommandOK
    <3>2. CASE q # p
      BY <1>1, <2>3, <3>2 DEF DnsInv, CommandOK, DnsGoes, Dns!Owned, Gone
    <3> QED
      BY <3>1, <3>2
  <2> QED
    BY <2>4, <2>5, <2>6 DEF DnsInv
<1>3. CASE process[p].pc # "idle"
  <2>1. Dns!Throw(p) \/ process' = [process EXCEPT ![p] = Dns!Done]
    BY DEF Dns!Throws, Dns!Deadline, Dns!Crash
  <2> QED
    BY <1>1, <1>3, <2>1, Passing
<1> QED
  BY <1>2, <1>3

LEMMA Recovering ==
  ASSUME DnsInv, NEW p \in Actors, Dns!Recover(p) PROVE DnsInv'
<1> PICK o : o = process[p].op
  OBVIOUS
<1>1. process[p].pc # "idle" /\ UNCHANGED <<ledger, rows, added>> /\ o \in Operations
  BY Busy DEF Dns!Recover
<1>2. Dns!Throw(p) \/ (\E to \in Calm : Dns!To(p, to))
      \/ (/\ {r \in Dns!Owned(o) : ledger[o].row \in {0, r.id}} = {}
          /\ ledger[o].state \in {"CLEANUP_REQUESTED", "DELETED"}
          /\ Dns!To(p, "terminalize"))
  <2>1. "fail" \in Calm /\ "cleanup" \in Calm
    BY DEF Calm
  <2> QED
    BY <2>1 DEF Dns!Recover, Dns!State
<1>3. CASE Dns!Throw(p) \/ (\E to \in Calm : Dns!To(p, to))
  BY <1>1, <1>3, Passing
<1>4. CASE /\ {r \in Dns!Owned(o) : ledger[o].row \in {0, r.id}} = {}
          /\ ledger[o].state \in {"CLEANUP_REQUESTED", "DELETED"}
          /\ Dns!To(p, "terminalize")
  <2>1. OperationOK(o)
    BY <1>1 DEF DnsInv
  <2>2. Gone(o)
    BY <1>4, <2>1 DEF Gone, OperationOK, Dns!Removed
  <2> QED
    BY <1>1, <1>4, <2>2, Entering DEF DnsPlaces
<1> QED
  BY <1>2, <1>3, <1>4

\* A process that is idle begins with an operation.
LEMMA DnsBegins ==
  ASSUME DnsInv, NEW p \in Actors, NEW o \in Operations, NEW new \in CommandState, new.op = o, new.pc \in Calm,
         process' = [process EXCEPT ![p] = new]
  PROVE  DnsGoes(p, o, Calm)
BY DEF DnsInv, DnsTyped, DnsGoes

LEMMA Chains ==
  ASSUME NEW next \in {<<>>, <<"commit", "mark">>, <<"commit", "mark", "cleanup">>}
  PROVE  next \in Seq({"commit", "mark", "cleanup"})
<1>1. <<>> \in Seq({"commit", "mark", "cleanup"})
  BY EmptySeq
<1>2. <<"commit", "mark">> \in Seq({"commit", "mark", "cleanup"})
  OBVIOUS
<1>3. <<"commit", "mark", "cleanup">> \in Seq({"commit", "mark", "cleanup"})
  OBVIOUS
<1> QED
  BY <1>1, <1>2, <1>3, Zenon

LEMMA Starting ==
  ASSUME DnsInv, NEW p \in Actors, NEW o \in Operations, Dns!CleanupHook(p, o) \/ Dns!Recovery(p, o)
         \/ Dns!Resume(p, o)
  PROVE  DnsInv'
<1>1. PICK place \in {"cleanup", "recover", "add"}, next \in {<<>>, <<"commit", "mark">>} : Dns!Start(p, o, place, next)
  BY DEF Dns!CleanupHook, Dns!Recovery, Dns!Resume
<1> DEFINE new == [Dns!Done EXCEPT !.pc = place, !.op = o, !.next = next]
<1>2. next \in Seq({"commit", "mark", "cleanup"})
  BY Chains
<1>3. new \in CommandState /\ new.op = o /\ new.pc \in Calm
  BY <1>2 DEF CommandState, Dns!Done, DnsPlaces, Calm
<1>4. process' = [process EXCEPT ![p] = new] /\ UNCHANGED <<ledger, rows, added>>
  BY <1>1 DEF Dns!Start
<1> HIDE DEF new
<1> QED
  BY <1>3, <1>4, DnsBegins, Calming

\* A new operation: nobody else is at work for it yet, because it is in no state.
LEMMA Creating ==
  ASSUME DnsInv, NEW p \in Actors, NEW o \in Operations, Dns!Create(p, o) PROVE DnsInv'
<1>1. PICK catch \in {"rethrow", "cleanup"}, next \in {<<"commit", "mark">>, <<"commit", "mark", "cleanup">>} :
        process' = [process EXCEPT ![p] = [pc |-> "add", op |-> o, catch |-> catch, next |-> next]]
  BY DEF Dns!Create
<1> DEFINE new == [pc |-> "add", op |-> o, catch |-> catch, next |-> next]
<1>2. new \in CommandState /\ new.op = o /\ new.pc \in Calm
  <2>1. next \in Seq({"commit", "mark", "cleanup"})
    BY Chains
  <2> QED
    BY <2>1 DEF CommandState, DnsPlaces, Calm
<1> HIDE DEF new
<1>3. DnsGoes(p, o, Calm)
  BY <1>1, <1>2, DnsBegins DEF new
<1>4. ledger[o].state = "none" /\ UNCHANGED <<rows, added>> /\ ledger[o] \in [state : LedgerStates, row : Nat]
  BY DEF Dns!Create, DnsInv, DnsTyped
<1>5. Free(p, o)
  <2> SUFFICES ASSUME NEW q \in Actors, process[q].op = o, process[q].pc \in Dns!Locking PROVE FALSE
    BY DEF Free
  <2>1. CommandOK(q)
    BY DEF DnsInv
  <2> QED
    BY <1>4, <2>1 DEF CommandOK, Dns!Locking
<1> PICK entry : entry = [ledger[o] EXCEPT !.state = "CREATED"]
  OBVIOUS
<1>6. entry \in [state : LedgerStates, row : Nat] /\ entry.state = "CREATED"
  BY <1>4 DEF LedgerStates
<1>7. ledger' = [ledger EXCEPT ![o] = entry]
  BY DEF Dns!Create, Dns!SetState, DnsInv, DnsTyped
<1>8. OperationOK(o) /\ Dns!Owned(o)' = Dns!Owned(o) /\ ledger'[o] = entry
  BY <1>4, <1>7 DEF DnsInv, DnsTyped, Dns!Owned
<1>9. OperationOK(o)'
  BY <1>6, <1>8 DEF OperationOK, Dns!Added
<1>10. ~Gone(o)
  BY <1>4 DEF Gone, Dns!Removed
<1>11. CommandOK(p)'
  BY <1>3 DEF DnsGoes, Calm, CommandOK
<1> QED
  BY <1>3, <1>4, <1>5, <1>6, <1>7, <1>9, <1>10, <1>11, Writing

\* A process that has the operation to itself marks its state.
LEMMA Marking ==
  ASSUME DnsInv, NEW p \in Actors, NEW o \in Operations, NEW pcs, DnsGoes(p, o, pcs), Free(p, o),
         UNCHANGED <<rows, added>>,
         NEW state \in LedgerStates, ledger' = Dns!SetState(o, state),
         state \in Dns!Added => ledger[o].state \in Dns!Added,
         state = "CLEANUP_REQUESTED" => ledger[o].state \in Dns!Added \union {"CLEANUP_REQUESTED"},
         state \in {"none", "DELETED", "CLEANUP_PROPAGATED"} => Dns!Owned(o) = {},
         state \in Dns!Added \union Dns!Removed \union {"FAILED"},
         pcs \subseteq Calm \/ (pcs = {"deleting"} /\ state = "CLEANUP_REQUESTED")
             \/ (pcs = {"vanishing"} /\ state = "DELETED")
  PROVE  DnsInv'
<1> PICK entry : entry = [ledger[o] EXCEPT !.state = state]
  OBVIOUS
<1>1. ledger[o] \in [state : LedgerStates, row : Nat]
  BY DEF DnsInv, DnsTyped
<1>2. entry \in [state : LedgerStates, row : Nat] /\ entry.state = state /\ entry.row = ledger[o].row
  BY <1>1
<1>3. ledger' = [ledger EXCEPT ![o] = entry]
  BY DEF Dns!SetState, DnsInv, DnsTyped
<1>4. OperationOK(o) /\ Dns!Owned(o)' = Dns!Owned(o) /\ ledger'[o] = entry
  BY <1>3 DEF DnsInv, DnsTyped, Dns!Owned
<1>5. OperationOK(o)'
  BY <1>2, <1>4 DEF OperationOK
<1>6. Gone(o) => Gone(o)'
  <2>1. Gone(o) => Dns!Owned(o) = {} /\ state \in Dns!Removed \union {"FAILED"}
    BY <1>4 DEF Gone, OperationOK, Dns!Added, Dns!Removed
  <2> QED
    BY <1>2, <1>4, <2>1 DEF Gone
<1>7. CommandOK(p)'
  <2>1. process'[p].pc \in pcs /\ (process'[p].pc # "idle" => process'[p].op = o)
    BY DEF DnsGoes
  <2> QED
    BY <1>2, <1>4, <2>1 DEF CommandOK, Calm
<1> QED
  BY <1>2, <1>3, <1>5, <1>6, <1>7, Writing

LEMMA DnsRecords ==
  ASSUME DnsInv, NEW p \in Actors, Dns!RecordRow(p) \/ Dns!RecordPublished(p) \/ Dns!RecordPropagated(p)
  PROVE  DnsInv'
<1> PICK o : o = process[p].op
  OBVIOUS
<1>1. /\ process[p].pc \in Dns!Locking \ {"missing"} /\ process[p].pc # "idle" /\ UNCHANGED <<rows, added>>
      /\ o \in Operations /\ DnsTyped /\ CommandOK(p) /\ OperationOK(o) /\ Free(p, o)
  <2>1. process[p].pc \in Dns!Locking \ {"missing"} /\ process[p].pc # "idle" /\ UNCHANGED <<rows, added>>
    BY DEF Dns!RecordRow, Dns!RecordPublished, Dns!RecordPropagated, Dns!Locking
  <2>2. o \in Operations
    BY <2>1, Busy
  <2> QED
    BY <2>1, <2>2, Locked DEF DnsInv
<1>2. CASE Dns!RecordRow(p)
  <2>1. ledger[o].state = "CREATED"
    BY <1>1, <1>2 DEF Dns!RecordRow, CommandOK
  <2>2. CASE Dns!Cardinality(Dns!Owned(o)) = 1 /\ Dns!Go(p)
    <3> PICK id : id = (CHOOSE r \in Dns!Owned(o) : TRUE).id
      OBVIOUS
    <3> DEFINE new == [state |-> "ROW_ADDED", row |-> id]
    <3>1. Dns!Owned(o) # {}
      BY <2>2, FS_EmptySet, SameSize
    <3>2. \A r \in Dns!Owned(o) : r.id = id
      BY <1>1, <3>1 DEF OperationOK
    <3>3. id \in Nat
      BY <1>1, <3>1, <3>2 DEF DnsTyped, Dns!Owned
    <3>4. new \in [state : LedgerStates, row : Nat] /\ new.state = "ROW_ADDED" /\ new.row = id
      BY <3>3 DEF LedgerStates, Dns!Added
    <3>5. ledger' = [ledger EXCEPT ![o] = new]
      BY <1>2, <2>1, <2>2 DEF Dns!RecordRow, Dns!State
    <3> HIDE DEF new
    <3>6. DnsGoes(p, o, Calm)
      BY <1>1, <2>2, GoEffect
    <3>7. Dns!Owned(o)' = Dns!Owned(o) /\ ledger'[o] = new
      BY <1>1, <3>5 DEF Dns!Owned, DnsTyped
    <3>8. OperationOK(o)'
      BY <1>1, <3>1, <3>2, <3>4, <3>7 DEF OperationOK
    <3>9. CommandOK(p)'
      BY <3>6 DEF DnsGoes, Calm, CommandOK
    <3>10. ~Gone(o)
      BY <2>1 DEF Gone, Dns!Removed
    <3> QED
      BY <1>1, <3>4, <3>5, <3>6, <3>8, <3>9, <3>10, Writing
  <2>3. CASE Dns!Cardinality(Dns!Owned(o)) # 1
    BY <1>1, <1>2, <2>3, Passing DEF Dns!RecordRow
  <2> QED
    BY <1>2, <2>2, <2>3 DEF Dns!RecordRow
<1>3. CASE Dns!RecordPublished(p) \/ Dns!RecordPropagated(p)
  <2>1. PICK state \in {"COMMITTED", "PROPAGATED"} : ledger' = Dns!SetState(o, state) /\ Dns!Go(p)
    BY <1>3 DEF Dns!RecordPublished, Dns!RecordPropagated
  <2>2. ledger[o].state \in Dns!Added /\ state \in Dns!Added
    BY <1>1, <1>3 DEF Dns!RecordPublished, Dns!RecordPropagated, CommandOK, Dns!Added
  <2>3. DnsGoes(p, o, Calm)
    BY <1>1, <2>1, GoEffect
  <2> QED
    BY <1>1, <2>1, <2>2, <2>3, Marking DEF LedgerStates
<1> QED
  BY <1>2, <1>3

LEMMA Cleans ==
  ASSUME DnsInv, NEW p \in Actors, Dns!RequestCleanup(p) \/ Dns!Unpublish(p) \/ Dns!RecordGone(p)
         \/ Dns!Fail(p) \/ Dns!Terminalize(p)
  PROVE  DnsInv'
<1> PICK o : o = process[p].op
  OBVIOUS
<1>1. /\ process[p].pc # "idle" /\ UNCHANGED <<rows, added>> /\ Dns!State(p) = ledger[o].state
      /\ o \in Operations /\ DnsTyped /\ CommandOK(p) /\ OperationOK(o) /\ Free(p, o)
  <2>1. process[p].pc # "idle" /\ UNCHANGED <<rows, added>>
    BY DEF Dns!RequestCleanup, Dns!Unpublish, Dns!RecordGone, Dns!Fail, Dns!Terminalize
  <2>2. o \in Operations
    BY <2>1, Busy
  <2>3. process[p].pc \in Dns!Locking \/ Dns!LockFree(p)
    BY DEF Dns!RequestCleanup, Dns!Unpublish, Dns!RecordGone, Dns!Fail, Dns!Terminalize, Dns!Locking
  <2> QED
    BY <2>1, <2>2, <2>3, Locked DEF DnsInv, Dns!State
<1>2. CASE Dns!RequestCleanup(p)
  <2>1. CASE Dns!State(p) \in Dns!Added \union {"CLEANUP_REQUESTED"}
             /\ ledger' = Dns!SetState(o, "CLEANUP_REQUESTED") /\ Dns!To(p, "deleting")
    <3>1. DnsGoes(p, o, {"deleting"})
      BY <1>1, <2>1, ToEffect DEF DnsPlaces, Dns!Locking
    <3> QED
      BY <1>1, <2>1, <3>1, Marking DEF LedgerStates, Dns!Added, Dns!Removed
  <2>2. CASE Dns!State(p) = "DELETED" /\ Dns!To(p, "vanishing") /\ UNCHANGED ledger
    BY <1>1, <2>2, Entering DEF DnsPlaces, Dns!Locking
  <2>3. CASE (Dns!Go(p) \/ Dns!Throw(p)) /\ UNCHANGED ledger
    BY <1>1, <2>3, Passing
  <2> QED
    BY <1>2, <2>1, <2>2, <2>3 DEF Dns!RequestCleanup
<1>3. CASE Dns!Unpublish(p)
  <2>1. DnsGoes(p, o, {"vanishing"})
    BY <1>1, <1>3, ToEffect DEF Dns!Unpublish, DnsPlaces, Dns!Locking
  <2>2. Dns!Owned(o) = {} /\ ledger' = Dns!SetState(o, "DELETED")
    BY <1>1, <1>3 DEF Dns!Unpublish, CommandOK
  <2> QED
    BY <1>1, <2>1, <2>2, Marking DEF LedgerStates, Dns!Added, Dns!Removed
<1>4. CASE Dns!RecordGone(p)
  <2>1. DnsGoes(p, o, Calm)
    BY <1>1, <1>4, GoEffect DEF Dns!RecordGone
  <2>2. Dns!Owned(o) = {} /\ ledger' = Dns!SetState(o, "CLEANUP_PROPAGATED")
    BY <1>1, <1>4 DEF Dns!RecordGone, CommandOK, OperationOK
  <2> QED
    BY <1>1, <2>1, <2>2, Marking DEF LedgerStates, Dns!Added, Dns!Removed
<1>5. CASE Dns!Fail(p) \/ Dns!Terminalize(p)
  <2>1. process' = [process EXCEPT ![p] = Dns!Done]
    BY <1>5 DEF Dns!Fail, Dns!Terminalize
  <2>2. CASE UNCHANGED ledger
    BY <1>1, <2>1, <2>2, Passing
  <2>3. PICK pcs : pcs = {"idle"}
    OBVIOUS
  <2>4. DnsGoes(p, o, pcs) /\ pcs \subseteq Calm
    BY <1>1, <2>1, <2>3, EndEffect DEF Calm
  <2>5. CASE ledger' = Dns!SetState(o, "FAILED")
    BY <1>1, <2>4, <2>5, Marking DEF LedgerStates, Dns!Added, Dns!Removed
  <2>6. CASE ledger' = Dns!SetState(o, "CLEANUP_PROPAGATED") /\ Dns!Terminalize(p)
    <3>1. Dns!Owned(o) = {}
      BY <1>1, <2>6 DEF Dns!Terminalize, CommandOK, Gone
    <3> QED
      BY <1>1, <2>4, <2>6, <3>1, Marking DEF LedgerStates, Dns!Added, Dns!Removed
  <2> QED
    BY <1>5, <2>2, <2>5, <2>6 DEF Dns!Fail, Dns!Terminalize
<1> QED
  BY <1>2, <1>3, <1>4, <1>5

-----------------------------------------------------------------------------
(* The rows of the zone.                                                    *)

LEMMA Adds ==
  ASSUME DnsInv, NEW p \in Actors, Dns!AddRow(p) PROVE DnsInv'
<1> PICK o : o = process[p].op
  OBVIOUS
<1> DEFINE new == [op |-> o, id |-> added + 1]
<1>1. /\ o \in Operations /\ Free(p, o) /\ CommandOK(p) /\ DnsTyped /\ Numbered
      /\ Dns!Owned(o) = {} /\ ledger[o].state = "CREATED"
  <2>1. process[p].pc = "missing" /\ process[p].pc \in Dns!Locking /\ process[p].pc # "idle"
    BY DEF Dns!AddRow, Dns!Locking
  <2>2. o \in Operations
    BY <2>1, Busy
  <2> QED
    BY <2>1, <2>2, Locked DEF DnsInv, CommandOK
<1>2. rows' = rows \union {new} /\ added' = added + 1 /\ ledger' = ledger /\ Dns!To(p, "adding")
           /\ process[p].pc # "idle"
  BY DEF Dns!AddRow
<1>3. new \in [op : Operations, id : Nat] /\ new.op = o /\ new.id = added + 1
  BY <1>1 DEF DnsTyped
<1> HIDE DEF new
<1>4. DnsGoes(p, o, {"adding"})
  BY <1>1, <1>2, ToEffect DEF DnsPlaces, Dns!Locking
<1>5. DnsTyped'
  BY <1>1, <1>2, <1>3, <1>4 DEF DnsTyped, DnsGoes
<1>6. Numbered'
  <2>1. ASSUME NEW r \in rows PROVE r.id \in Nat /\ r.id <= added
    BY <1>1 DEF DnsTyped, Numbered
  <2>2. added \in Nat
    BY <1>1 DEF DnsTyped
  <2>3. ASSUME NEW r \in rows' PROVE r.id <= added'
    BY <1>2, <1>3, <2>1, <2>2
  <2>4. ASSUME NEW r \in rows', NEW s \in rows', r.id = s.id PROVE r = s
    <3>1. CASE r \in rows /\ s \in rows
      BY <1>1, <2>4, <3>1 DEF Numbered
    <3>2. CASE r = new /\ s = new
      BY <3>2
    <3>3. CASE r = new /\ s \in rows
      BY <1>3, <2>1, <2>2, <2>4, <3>3
    <3>4. CASE r \in rows /\ s = new
      BY <1>3, <2>1, <2>2, <2>4, <3>4
    <3> QED
      BY <1>2, <3>1, <3>2, <3>3, <3>4
  <2> QED
    BY <2>3, <2>4 DEF Numbered
<1>7. Dns!Owned(o)' = {new} /\ \A u \in Operations \ {o} : Dns!Owned(u)' = Dns!Owned(u)
  BY <1>1, <1>2, <1>3 DEF Dns!Owned
<1>8. Only(o)
  BY <1>1, <1>2, <1>5, <1>6, <1>7 DEF Only, Gone, Dns!Removed
<1>9. OperationOK(o)'
  BY <1>1, <1>2, <1>7 DEF OperationOK, Dns!Added
<1>10. CommandOK(p)'
  BY <1>1, <1>2, <1>4 DEF CommandOK, DnsGoes
<1> QED
  BY <1>1, <1>4, <1>5, <1>6, <1>8, <1>9, <1>10, Alone

LEMMA Deletes ==
  ASSUME DnsInv, NEW p \in Actors, Dns!DeleteRow(p) PROVE DnsInv'
<1> PICK o : o = process[p].op
  OBVIOUS
<1>1. /\ o \in Operations /\ Free(p, o) /\ CommandOK(p) /\ DnsTyped /\ Numbered /\ process[p].pc # "idle"
      /\ ledger[o].state = "CLEANUP_REQUESTED" /\ added' = added
  <2>1. process[p].pc = "deleting" /\ process[p].pc \in Dns!Locking /\ process[p].pc # "idle"
    BY DEF Dns!DeleteRow, Dns!Locking
  <2>2. o \in Operations
    BY <2>1, Busy
  <2> QED
    BY <2>1, <2>2, Locked DEF DnsInv, CommandOK, Dns!DeleteRow
<1>2. CASE Dns!Owned(o) = {} /\ ledger' = Dns!SetState(o, "DELETED") /\ Dns!To(p, "vanishing") /\ UNCHANGED rows
  <2>1. DnsGoes(p, o, {"vanishing"})
    BY <1>1, <1>2, ToEffect DEF DnsPlaces, Dns!Locking
  <2> QED
    BY <1>1, <1>2, <2>1, Marking DEF LedgerStates, Dns!Added, Dns!Removed
<1>3. CASE rows' = rows \ Dns!Owned(o) /\ Dns!To(p, "unpublishing") /\ UNCHANGED ledger
  <2>1. DnsGoes(p, o, {"unpublishing"})
    BY <1>1, <1>3, ToEffect DEF DnsPlaces, Dns!Locking
  <2>2. DnsTyped' /\ Numbered'
    BY <1>1, <1>3, <2>1 DEF DnsTyped, Numbered, DnsGoes
  <2>3. Dns!Owned(o)' = {} /\ \A u \in Operations \ {o} : Dns!Owned(u)' = Dns!Owned(u)
    BY <1>3 DEF Dns!Owned
  <2>4. Only(o)
    BY <1>3, <2>2, <2>3 DEF Only, Gone
  <2>5. OperationOK(o)'
    BY <1>1, <1>3, <2>3 DEF OperationOK, Dns!Added
  <2>6. CommandOK(p)'
    BY <1>1, <1>3, <2>1, <2>3 DEF CommandOK, DnsGoes
  <2> QED
    BY <1>1, <2>1, <2>2, <2>4, <2>5, <2>6, Alone
<1>4. CASE Dns!Throw(p) /\ UNCHANGED <<ledger, rows>>
  BY <1>1, <1>4, Passing
<1> QED
  BY <1>2, <1>3, <1>4 DEF Dns!DeleteRow

-----------------------------------------------------------------------------
LEMMA DnsStarts == ASSUME Dns!Init PROVE DnsInv
<1>1. Dns!Done \in CommandState /\ Dns!Done.pc = "idle"
  <2>1. <<>> \in Seq({"commit", "mark", "cleanup"})
    BY EmptySeq
  <2>2. Dns!Done.pc = "idle" /\ Dns!Done.catch = "end" /\ Dns!Done.next = <<>>
    BY DEF Dns!Done
  <2> QED
    BY <2>1, <2>2 DEF Dns!Done, CommandState, DnsPlaces, Calm
<1>2. DnsTyped
  BY <1>1 DEF Dns!Init, DnsTyped, LedgerStates
<1>3. Numbered /\ Exclusive
  BY <1>1 DEF Dns!Init, Numbered, Exclusive, Dns!Locking
<1>4. ASSUME NEW o \in Operations PROVE OperationOK(o)
  BY DEF Dns!Init, OperationOK, Dns!Owned, Dns!Added
<1>5. ASSUME NEW p \in Actors PROVE CommandOK(p)
  BY <1>1 DEF Dns!Init, CommandOK
<1> QED
  BY <1>2, <1>3, <1>4, <1>5 DEF DnsInv

LEMMA DnsSteps == ASSUME DnsInv, [Dns!Next]_dnsVars PROVE DnsInv'
<1>1. CASE UNCHANGED dnsVars \/ Dns!Propagate
  <2>1. UNCHANGED <<ledger, rows, process, added>>
    BY <1>1 DEF dnsVars, Dns!Propagate
  <2>2. DnsTyped' /\ Numbered' /\ Exclusive'
    BY <2>1 DEF DnsInv, DnsTyped, Numbered, Exclusive
  <2>3. ASSUME NEW u \in Operations PROVE OperationOK(u)'
    BY <2>1 DEF DnsInv, OperationOK, Dns!Owned
  <2>4. ASSUME NEW q \in Actors PROVE CommandOK(q)'
    BY <2>1 DEF DnsInv, CommandOK, Dns!Owned, Gone
  <2> QED
    BY <2>2, <2>3, <2>4 DEF DnsInv
<1>2. ASSUME NEW p \in Actors, NEW o \in Operations, Dns!Create(p, o) \/ Dns!CleanupHook(p, o)
             \/ Dns!Recovery(p, o) \/ Dns!Resume(p, o)
      PROVE  DnsInv'
  BY <1>2, Creating, Starting
<1>3. ASSUME NEW p \in Actors, Dns!Run(p) PROVE DnsInv'
  BY <1>3, Reads, DnsRecords, Cleans, Adds, Deletes, Recovering, DnsEnds DEF Dns!Run
<1>4. ASSUME NEW p \in Actors, Dns!Throws(p) \/ Dns!Crash(p) PROVE DnsInv'
  BY <1>4, DnsEnds
<1> QED
  BY <1>1, <1>2, <1>3, <1>4 DEF Dns!Next

LEMMA DnsTells == ASSUME DnsInv PROVE Dns!LedgerTellsRows
<1> SUFFICES ASSUME NEW o \in Operations
             PROVE  /\ Dns!Cardinality(Dns!Owned(o)) <= 1
                    /\ ledger[o].state \in Dns!Added => Dns!Revalidated(o)
                    /\ ledger[o].state \in {"none", "DELETED", "CLEANUP_PROPAGATED"} => Dns!Owned(o) = {}
  BY DEF Dns!LedgerTellsRows
<1>1. OperationOK(o) /\ Numbered
  BY DEF DnsInv
<1>2. Dns!Cardinality(Dns!Owned(o)) <= 1
  BY <1>1, DnsSize DEF OperationOK
<1>3. ledger[o].state \in Dns!Added => Dns!Revalidated(o)
  <2> SUFFICES ASSUME ledger[o].state \in Dns!Added PROVE Dns!Revalidated(o)
    OBVIOUS
  <2>1. Dns!Owned(o) # {} /\ \A r \in Dns!Owned(o) : r.id = ledger[o].row
    BY <1>1 DEF OperationOK
  <2>2. Dns!Owned(o) \subseteq {r \in rows : r.id = ledger[o].row}
    BY <2>1 DEF Dns!Owned
  <2>3. ASSUME NEW r \in rows, r.id = ledger[o].row PROVE r \in Dns!Owned(o)
    <3>1. PICK s \in Dns!Owned(o) : s.id = ledger[o].row
      BY <2>1
    <3>2. s \in rows
      BY <3>1 DEF Dns!Owned
    <3> QED
      BY <1>1, <2>3, <3>1, <3>2 DEF Numbered
  <2> QED
    BY <2>1, <2>2, <2>3 DEF Dns!Revalidated
<1> QED
  BY <1>1, <1>2, <1>3 DEF OperationOK

\* Commands, retries, deaths and the recovery keep rows and ledger together.
THEOREM DnsInvariance == Spec => [](part = "dns" => DnsInv)
<1>1. Init => (part = "dns" => DnsInv)
  BY DnsStarts, Starts
<1>2. (part = "dns" => DnsInv) /\ [Next]_all => (part = "dns" => DnsInv)'
  BY DnsSteps, Moves
<1> QED
  BY <1>1, <1>2, PTL DEF Spec

\* An operation has one record at most, the one its row names, and none once the row says so, for
\* any number of operations and processes (services/wedos-dns-operation.ts).
THEOREM LedgerTellsRowsHolds == Spec => []LedgerTellsRows
<1>1. (part = "dns" => DnsInv) => LedgerTellsRows
  BY DnsTells DEF LedgerTellsRows
<1> QED
  BY <1>1, DnsInvariance, PTL

-----------------------------------------------------------------------------
(***************************************************************************)
(* Topology: connections of a component that is deregistered.              *)
(*                                                                         *)
(* A session that draws a connection has the lock of the components, which *)
(* are registered then, or of the connection; a deregistration takes the   *)
(* same lock first and the lock of every connection after that.            *)
(***************************************************************************)

Commands == {"none", "connect", "ensure", "toggle", "deregister", "grant"}
SessionPlaces == {"idle", "write", "decide", "ensure", "revoke", "repoint", "archive", "withdraw", "finish"}
SessionState ==
  [pc : SessionPlaces, op : Commands, on : SUBSET Edges, want : {"none", "denied", "desired", "active", "revoked"},
   locks : SUBSET (Edges \union {"component", "permission"})]
TopologyTyped ==
  /\ edge \in [Edges -> {"none", "denied", "desired"}]
  /\ gone \in BOOLEAN
  /\ draft \in [Actors -> SessionState]

\* What a session holds: a connection is drawn under the lock of the components, which are still
\* registered then, or of the connection itself, which is there; a deregistration has the
\* components and, once it has looked at them, every connection.
Connecting(job) ==
  job.op \in {"connect", "ensure"} =>
    /\ ("component" \in job.locks /\ ~gone /\ job.want # "none")
         \/ (job.on \subseteq job.locks /\ job.on \subseteq Topologies!Live)
    /\ job.want \in {"none", "denied", "desired"}
Deregistering(job) ==
  job.op = "deregister" =>
    /\ "component" \in job.locks /\ job.pc \in {"archive", "withdraw", "finish"}
    /\ job.pc # "archive" => Topologies!Live \subseteq job.locks
SessionOK(job) ==
  /\ job.op \in {"none", "toggle", "grant"} => job.on = {} /\ job.pc \in {"idle", "finish"}
  /\ job.op = "none" => job.pc = "idle"
  /\ job.pc = "archive" \/ job.pc = "withdraw" => job.op = "deregister"
  /\ Connecting(job) /\ Deregistering(job)

TopologyInv ==
  /\ TopologyTyped
  /\ \A s, t \in Actors : s # t => draft[s].locks \intersect draft[t].locks = {}
  /\ \A s \in Actors : SessionOK(draft[s])
  /\ gone => Topologies!Live = {}

LEMMA TopologyStarts == ASSUME Topologies!Init PROVE TopologyInv
BY DEF Topologies!Init, TopologyInv, TopologyTyped, SessionState, SessionPlaces, SessionOK, Connecting,
  Deregistering, Topologies!Idle, Commands, Topologies!Live

\* One session moves and locks only what nobody else has locked.
LEMMA Locking ==
  ASSUME TopologyInv, NEW s \in Actors, NEW job \in SessionState, draft' = [draft EXCEPT ![s] = job],
         UNCHANGED <<edge, gone>>,
         NEW locked, job.locks \subseteq draft[s].locks \union locked, Topologies!Free(s, locked),
             SessionOK(job)
  PROVE  TopologyInv'
<1>1. \A t \in Actors : draft'[t] = IF t = s THEN job ELSE draft[t]
  BY DEF TopologyInv, TopologyTyped
<1>2. TopologyTyped'
  BY DEF TopologyInv, TopologyTyped
<1>3. ASSUME NEW t \in Actors, t # s PROVE draft[t].locks \intersect job.locks = {}
  BY <1>3 DEF Topologies!Free, TopologyInv
<1>4. \A t, u \in Actors : t # u => draft'[t].locks \intersect draft'[u].locks = {}
  BY <1>1, <1>3 DEF TopologyInv
<1>5. Topologies!Live' = Topologies!Live
  BY DEF Topologies!Live
<1>6. ASSUME NEW t \in Actors PROVE SessionOK(draft[t])'
  BY <1>1, <1>5 DEF TopologyInv, SessionOK, Connecting, Deregistering
<1> QED
  BY <1>2, <1>4, <1>5, <1>6 DEF TopologyInv

LEMMA TopologyBegins ==
  ASSUME TopologyInv, NEW s \in Actors, NEW place, NEW op, NEW on, NEW want, NEW locked,
         Topologies!Begin(s, place, op, on, want, locked),
         [pc |-> place, op |-> op, on |-> on, want |-> want, locks |-> locked] \in SessionState,
         SessionOK([pc |-> place, op |-> op, on |-> on, want |-> want, locks |-> locked])
  PROVE  TopologyInv'
BY Locking DEF Topologies!Begin, TopologyInv, TopologyTyped

LEMMA Beginnings ==
  ASSUME TopologyInv, NEW s \in Actors,
         \/ \E e \in Edges : \/ \E want \in {"denied", "desired"} : Topologies!Create(s, e, want) \/ Topologies!Authorize(s, e, want)
                             \/ Topologies!Disconnect(s, e)
         \/ \E want \in {"active", "revoked"} : Topologies!Toggle(s, want)
         \/ Topologies!Deregister(s) \/ Topologies!BeginGrant(s)
  PROVE  TopologyInv'
<1>1. ASSUME NEW e \in Edges, NEW want \in {"denied", "desired"}, Topologies!Create(s, e, want)
      PROVE  TopologyInv'
  BY <1>1, TopologyBegins DEF Topologies!Create, SessionOK, Connecting, Deregistering, Commands, SessionState,
    SessionPlaces, Topologies!Live
<1>2. ASSUME NEW e \in Edges, NEW want \in {"none", "denied", "desired"}, e \in Topologies!Live,
             Topologies!Begin(s, "decide", "connect", {e}, want, {e})
      PROVE  TopologyInv'
  BY <1>2, TopologyBegins DEF SessionOK, Connecting, Deregistering, Commands, SessionState, SessionPlaces,
    Topologies!Live
<1>3. ASSUME NEW want \in {"active", "revoked"}, Topologies!Toggle(s, want) PROVE TopologyInv'
  BY <1>3, TopologyBegins DEF Topologies!Toggle, SessionOK, Connecting, Deregistering, Commands, SessionState,
    SessionPlaces, Topologies!Live
<1>4. CASE Topologies!Deregister(s)
  BY <1>4, TopologyBegins DEF Topologies!Deregister, SessionOK, Connecting, Deregistering, Commands,
    SessionState, SessionPlaces, Topologies!Live
<1>5. CASE Topologies!BeginGrant(s)
  BY <1>5, TopologyBegins DEF Topologies!BeginGrant, SessionOK, Connecting, Deregistering, Commands,
    SessionState, SessionPlaces, Topologies!Live
<1> QED
  BY <1>1, <1>2, <1>3, <1>4, <1>5 DEF Topologies!Authorize, Topologies!Disconnect

LEMMA TopologyGoes ==
  ASSUME TopologyInv, NEW s \in Actors, Topologies!Write(s) \/ Topologies!Decide(s) \/ Topologies!Ensure(s)
         \/ Topologies!Revoke(s) \/ Topologies!Archive(s) \/ Topologies!Withdraw(s)
  PROVE  TopologyInv'
<1> PICK job : job = draft[s]
  OBVIOUS
<1>1. PICK place \in SessionPlaces, locked \in SUBSET (Edges \union {"component", "permission"}) :
        /\ Topologies!Go(s, place, locked)
        /\ \/ job.op \in {"connect", "ensure"} /\ place \in {"decide", "ensure", "revoke", "repoint", "finish"}
           \/ job.op = "deregister" /\ place = "withdraw" /\ locked = Topologies!Live
           \/ job.op = "deregister" /\ place = "finish" /\ job.pc = "withdraw"
  BY DEF Topologies!Write, Topologies!Decide, Topologies!Ensure, Topologies!Revoke, Topologies!Archive,
    Topologies!Withdraw, TopologyInv, TopologyTyped, SessionState, SessionPlaces,
     SessionOK, Commands, Deregistering, Topologies!Live
<1>2. job \in SessionState /\ SessionOK(job)
  BY DEF TopologyInv, TopologyTyped
<1> PICK q : q = [job EXCEPT !.pc = place]
  OBVIOUS
<1> PICK new : new = [q EXCEPT !.locks = q.locks \union locked]
  OBVIOUS
<1>3. /\ new \in SessionState /\ new.pc = place /\ new.locks = job.locks \union locked
      /\ new.op = job.op /\ new.on = job.on /\ new.want = job.want
  BY <1>1, <1>2 DEF SessionState
<1>4. draft' = [draft EXCEPT ![s] = new] /\ UNCHANGED <<edge, gone>> /\ Topologies!Free(s, locked)
  BY <1>1, <1>2 DEF Topologies!Go, TopologyInv, TopologyTyped, SessionState
<1>5. SessionOK(new)
  BY <1>1, <1>2, <1>3 DEF SessionOK, Connecting, Deregistering
<1> QED
  BY <1>3, <1>4, <1>5, Locking

LEMMA Repoints ==
  ASSUME TopologyInv, NEW s \in Actors, Topologies!Repoint(s) PROVE TopologyInv'
<1> PICK job, locked : job = draft[s] /\ locked = Topologies!Desired
  OBVIOUS
<1>1. job \in SessionState /\ SessionOK(job) /\ locked \in SUBSET (Edges \union {"component", "permission"})
           /\ job.pc = "repoint"
  BY DEF TopologyInv, TopologyTyped, Topologies!Repoint, Topologies!Desired
<1> PICK q : q = [[job EXCEPT !.pc = "finish"] EXCEPT !.op = "ensure"]
  OBVIOUS
<1> PICK new : new = [q EXCEPT !.locks = q.locks \union locked]
  OBVIOUS
<1>2. q \in SessionState /\ q.pc = "finish" /\ q.op = "ensure" /\ q.locks = job.locks /\ q.on = job.on
           /\ q.want = job.want
  BY <1>1 DEF SessionState, SessionPlaces, Commands
<1>3. /\ new \in SessionState /\ new.pc = "finish" /\ new.locks = job.locks \union locked
      /\ new.op = "ensure" /\ new.on = job.on /\ new.want = job.want
  BY <1>1, <1>2 DEF SessionState
<1>4. draft' = [draft EXCEPT ![s] = new] /\ UNCHANGED <<edge, gone>> /\ Topologies!Free(s, locked)
  BY <1>1, <1>2 DEF Topologies!Repoint, TopologyInv, TopologyTyped, SessionState
<1>5. job.op \in {"connect", "ensure"}
  BY <1>1 DEF SessionOK, Deregistering, SessionState, Commands
<1>6. SessionOK(new)
  BY <1>1, <1>3, <1>5 DEF SessionOK, Connecting, Deregistering
<1> QED
  BY <1>3, <1>4, <1>6, Locking

LEMMA IdleOK == Topologies!Idle \in SessionState /\ SessionOK(Topologies!Idle) /\ Topologies!Idle.locks = {}
BY DEF Topologies!Idle, SessionState, SessionPlaces, Commands, SessionOK, Connecting, Deregistering

LEMMA RollsBack ==
  ASSUME TopologyInv, NEW s \in Actors, Topologies!Rollback(s) PROVE TopologyInv'
<1>1. draft' = [draft EXCEPT ![s] = Topologies!Idle] /\ UNCHANGED <<edge, gone>> /\ Topologies!Free(s, {})
           /\ Topologies!Idle.locks \subseteq draft[s].locks \union {}
  BY IdleOK DEF Topologies!Rollback, Topologies!Free
<1> QED
  BY <1>1, IdleOK, Locking

\* The commit.  What it changes it has locked, so the others hold what they held.
LEMMA Finishes ==
  ASSUME TopologyInv, NEW s \in Actors, Topologies!Finish(s) PROVE TopologyInv'
<1> PICK job : job = draft[s]
  OBVIOUS
<1>1. job \in SessionState /\ SessionOK(job) /\ job.pc = "finish"
  BY DEF TopologyInv, TopologyTyped, Topologies!Finish
<1>2. draft' = [draft EXCEPT ![s] = Topologies!Idle] /\ gone' = (gone \/ job.op = "deregister")
  BY DEF Topologies!Finish
<1>3. \A t \in Actors : draft'[t] = IF t = s THEN Topologies!Idle ELSE draft[t]
  BY <1>2 DEF TopologyInv, TopologyTyped
<1>4. \A t, u \in Actors : t # u => draft'[t].locks \intersect draft'[u].locks = {}
  BY <1>3, IdleOK DEF TopologyInv
<1>5. CASE job.op = "deregister"
  <2>1. edge' = [e \in Edges |-> IF e \in job.locks THEN "none" ELSE edge[e]]
    BY <1>5 DEF Topologies!Finish
  <2>2. Topologies!Live \subseteq job.locks /\ "component" \in job.locks
    BY <1>1, <1>5 DEF SessionOK, Deregistering
  <2>3. Topologies!Live' = {}
    BY <2>1, <2>2 DEF Topologies!Live
  <2>4. ASSUME NEW t \in Actors PROVE SessionOK(draft[t])'
    <3>1. CASE t = s
      BY <1>3, <3>1, IdleOK DEF SessionOK, Connecting, Deregistering, Topologies!Idle
    <3>2. CASE t # s
      <4> PICK other : other = draft[t]
        OBVIOUS
      <4>1. draft'[t] = other /\ SessionOK(other) /\ other.locks \intersect job.locks = {}
        BY <1>3, <3>2 DEF TopologyInv
      <4>2. other.op \in {"connect", "ensure"} => other.on = {}
        BY <2>2, <4>1 DEF SessionOK, Connecting
      <4> QED
        BY <2>3, <4>1, <4>2 DEF SessionOK, Connecting, Deregistering
    <3> QED
      BY <3>1, <3>2
  <2>5. TopologyTyped'
    BY <1>1, <1>2, <2>1, IdleOK DEF TopologyInv, TopologyTyped
  <2> QED
    BY <1>4, <2>3, <2>4, <2>5 DEF TopologyInv
<1>6. CASE job.op # "deregister"
  <2>1. edge' = [e \in Edges |-> IF e \in job.on THEN job.want ELSE edge[e]] /\ gone' = gone
    BY <1>2, <1>6 DEF Topologies!Finish, TopologyInv, TopologyTyped
  <2>2. job.on # {} => job.op \in {"connect", "ensure"}
    BY <1>1, <1>6 DEF SessionOK, SessionState, Commands
  <2>3. TopologyTyped'
    BY <1>1, <1>2, <2>1, <2>2, IdleOK DEF TopologyInv, TopologyTyped, SessionOK, Connecting
  <2>4. gone => Topologies!Live' = {}
    <3>1. CASE job.on = {}
      BY <2>1, <3>1 DEF Topologies!Live, TopologyInv
    <3>2. CASE job.on # {}
      <4>1. gone => job.on = {}
        BY <1>1, <2>2 DEF SessionOK, Connecting, TopologyInv
      <4> QED
        BY <3>2, <4>1
    <3> QED
      BY <3>1, <3>2
  <2>5. ASSUME NEW t \in Actors PROVE SessionOK(draft[t])'
    <3>1. CASE t = s
      BY <1>3, <3>1, IdleOK DEF SessionOK, Connecting, Deregistering, Topologies!Idle
    <3>2. CASE t # s
      <4> PICK other : other = draft[t]
        OBVIOUS
      <4>1. draft'[t] = other /\ SessionOK(other) /\ other.locks \intersect job.locks = {}
                 /\ other \in SessionState
        BY <1>3, <3>2 DEF TopologyInv, TopologyTyped
      <4>2. job.on # {} => (("component" \in job.locks /\ job.want # "none") \/ (job.on \subseteq job.locks /\ job.on \subseteq Topologies!Live))
        BY <1>1, <2>2 DEF SessionOK, Connecting
      <4>3. other.op \in {"connect", "ensure"} /\ other.on \subseteq other.locks
                 /\ other.on \subseteq Topologies!Live => other.on \subseteq Topologies!Live'
        <5> SUFFICES ASSUME NEW e \in other.on, e \in other.locks, e \in Topologies!Live
                 PROVE e \in Topologies!Live'
          OBVIOUS
        <5>1. CASE e \notin job.on
          BY <2>1, <5>1 DEF Topologies!Live
        <5>2. CASE e \in job.on /\ job.on \subseteq job.locks
          BY <4>1, <5>2
        <5>3. CASE e \in job.on /\ job.want # "none"
          BY <2>1, <5>3 DEF Topologies!Live
        <5> QED
          BY <4>2, <5>1, <5>2, <5>3
      <4>4. other.op = "deregister" /\ other.pc # "archive" => Topologies!Live' \subseteq other.locks
        <5> SUFFICES ASSUME other.op = "deregister", other.pc # "archive", NEW e \in Topologies!Live'
                 PROVE e \in other.locks
          OBVIOUS
        <5>1. Topologies!Live \subseteq other.locks /\ "component" \in other.locks
          BY <4>1 DEF SessionOK, Deregistering
        <5>2. job.on = {}
          BY <4>1, <4>2, <5>1
        <5> QED
          BY <2>1, <5>1, <5>2 DEF Topologies!Live
      <4> QED
        BY <2>1, <4>1, <4>3, <4>4 DEF SessionOK, Connecting, Deregistering
    <3> QED
      BY <3>1, <3>2
  <2> QED
    BY <1>4, <2>1, <2>3, <2>4, <2>5 DEF TopologyInv
<1> QED
  BY <1>5, <1>6

LEMMA TopologySteps == ASSUME TopologyInv, [Topologies!Next]_topologyVars PROVE TopologyInv'
<1>1. CASE UNCHANGED topologyVars \/ Topologies!RevokeGrant
  <2>1. UNCHANGED <<edge, gone, draft>>
    BY <1>1 DEF topologyVars, Topologies!RevokeGrant
  <2> QED
    BY <2>1 DEF TopologyInv, TopologyTyped, Topologies!Live, SessionOK, Connecting, Deregistering
<1>2. ASSUME NEW s \in Actors,
             \/ \E e \in Edges : \/ \E want \in {"denied", "desired"} : Topologies!Create(s, e, want) \/ Topologies!Authorize(s, e, want)
                                 \/ Topologies!Disconnect(s, e)
             \/ \E want \in {"active", "revoked"} : Topologies!Toggle(s, want)
             \/ Topologies!Deregister(s) \/ Topologies!BeginGrant(s)
      PROVE  TopologyInv'
  BY <1>2, Beginnings
<1>3. ASSUME NEW s \in Actors, Topologies!Write(s) \/ Topologies!Decide(s) \/ Topologies!Ensure(s)
             \/ Topologies!Revoke(s) \/ Topologies!Archive(s) \/ Topologies!Withdraw(s)
      PROVE  TopologyInv'
  BY <1>3, TopologyGoes
<1>4. ASSUME NEW s \in Actors, Topologies!Repoint(s) \/ Topologies!Finish(s) \/ Topologies!Rollback(s)
      PROVE  TopologyInv'
  BY <1>4, Repoints, Finishes, RollsBack
<1> QED
  BY <1>1, <1>2, <1>3, <1>4 DEF Topologies!Next

LEMMA TopologyTells == ASSUME TopologyInv PROVE Topologies!DeregisteredIsDisconnected
BY DEF TopologyInv, Topologies!DeregisteredIsDisconnected

\* Sessions in any order keep their locks apart and draw on what is registered.
THEOREM TopologyInvariance == Spec => [](part = "topology" => TopologyInv)
<1>1. Init => (part = "topology" => TopologyInv)
  BY TopologyStarts, Starts
<1>2. (part = "topology" => TopologyInv) /\ [Next]_all => (part = "topology" => TopologyInv)'
  BY TopologySteps, Moves
<1> QED
  BY <1>1, <1>2, PTL DEF Spec

\* A deregistered component has no connection, for any number of connections and sessions
\* (domain/dashboard-topology.ts).
THEOREM DeregisteredIsDisconnectedHolds == Spec => []DeregisteredIsDisconnected
<1>1. (part = "topology" => TopologyInv) => DeregisteredIsDisconnected
  BY TopologyTells DEF DeregisteredIsDisconnected
<1> QED
  BY <1>1, TopologyInvariance, PTL

-----------------------------------------------------------------------------
(***************************************************************************)
(* ReleaseInstall: snapshots and schema.                                   *)
(*                                                                         *)
(* A snapshot is taken only when a release is left for the first time, so  *)
(* what has to be preserved is that a release without a snapshot still has *)
(* its own files under /etc: an installation that fails leaves foreign     *)
(* files behind, but by then the release it began from has its snapshot.   *)
(* An archive that tar left unfinished counts as one: it is never replaced,*)
(* and holds nothing of another release.                                   *)
(***************************************************************************)

\* The steps of install-release.sh that come after the step.
AfterLink == {"core", "broker", "verify"}
AfterUnits == {"preflight", "configure", "move", "link"} \union AfterLink
AfterMigrations == {"helpers", "units"} \union AfterUnits
AfterProxy == {"environment", "migrate"} \union AfterMigrations

ReleaseKept(r) == snapshot[r] # None

Archives == [proxy : HostReleases \union {None}, units : HostReleases \union {None}, whole : BOOLEAN]

\* What the steps write; a restore goes past its first step with a snapshot only.
ReleaseTyped ==
  /\ current \in HostReleases \union {None}
  /\ stored \subseteq HostReleases
  /\ files \in [proxy : HostReleases \union {None}, units : HostReleases \union {None},
                helpers : HostReleases \union {None}, build : HostReleases \union {None}]
  /\ snapshot \in [HostReleases -> Archives \union {None}]
  /\ serving \in [core : HostReleases \union {None}, broker : HostReleases \union {None}]
  /\ applied \in Nat
  /\ install \in [pc : {"idle", "snapshot", "archive", "proxy"} \union AfterProxy, release : HostReleases \union {None},
                  previous : HostReleases \union {None}]
  /\ install.pc # "idle" => install.release \in HostReleases
  /\ restore \in [pc : {"idle", "stop", "remove", "extract", "relink", "start"}, target : HostReleases \union {None}]
  /\ restore.pc # "idle" => restore.target \in HostReleases
  /\ restore.pc \notin {"idle", "stop"} => ReleaseKept(restore.target)

-----------------------------------------------------------------------------
(* Snapshots.                                                               *)

OwnFiles(r) == Release!Managed = [proxy |-> r, units |-> r]

\* The release in use is kept, or its files are the ones under /etc.
CurrentIsKept == current # None => ReleaseKept(current) \/ OwnFiles(current)

\* What tar is reading are the files of the release in use.
ArchiveIsOwn == install.pc = "archive" => OwnFiles(current)

\* While a release is installed nothing is restored, the release before it is
\* kept, and what has been rendered is the new release's.
InstallOK ==
  install.pc # "idle" =>
    /\ restore.pc = "idle"
    /\ install.pc # "snapshot" /\ install.previous # None => ReleaseKept(install.previous)
    /\ install.pc \notin AfterLink => current = install.previous
    /\ install.pc \in AfterProxy => files.proxy = install.release
    /\ install.pc \in AfterUnits => files.units = install.release

Told == ~cut => Release!SnapshotTellsRelease /\ (~Release!Halfway => CurrentIsKept) /\ ArchiveIsOwn

SnapshotInv ==
  /\ ReleaseTyped
  /\ InstallOK
  /\ Told

\* None is neither a release nor what a snapshot holds.
NoneIsNothing ==
  /\ None \notin HostReleases
  /\ \A p, u \in HostReleases \union {None}, w \in BOOLEAN : [proxy |-> p, units |-> u, whole |-> w] # None

-----------------------------------------------------------------------------
(* Types.                                                                   *)

\* What tar writes is an archive, and an archive is something.
LEMMA ArchiveIsKept ==
  ASSUME ReleaseTyped, NoneIsNothing, NEW kinds, NEW w \in BOOLEAN, NEW to, Release!Tar(kinds, w, to)
  PROVE  /\ snapshot' \in [HostReleases -> Archives \union {None}]
         /\ \A r \in HostReleases : snapshot[r] # None \/ r = install.previous => snapshot'[r] # None
<1>1. Release!Archive(kinds, w) \in Archives
  BY DEF Release!Archive, Archives, ReleaseTyped
<1>2. PICK p, u \in HostReleases \union {None} : Release!Archive(kinds, w) = [proxy |-> p, units |-> u, whole |-> w]
  BY DEF Release!Archive, ReleaseTyped
<1>3. Release!Archive(kinds, w) # None
  BY <1>2 DEF NoneIsNothing
<1>4. snapshot' = [snapshot EXCEPT ![install.previous] = Release!Archive(kinds, w)]
  BY DEF Release!Tar
<1>5. snapshot \in [HostReleases -> Archives \union {None}]
  BY DEF ReleaseTyped
<1>6. QED
  BY <1>1, <1>3, <1>4, <1>5

\* Every step writes what the types allow.
LEMMA TypedStep == ASSUME ReleaseTyped, Release!Next, NoneIsNothing PROVE ReleaseTyped'
<1> USE DEF ReleaseTyped, ReleaseKept, AfterLink, AfterUnits, AfterMigrations, AfterProxy
<1>1. ASSUME NEW r \in HostReleases, Release!Begin(r) PROVE ReleaseTyped'
  BY <1>1 DEF Release!Begin
<1>2. ASSUME NEW r \in HostReleases, Release!Rollback(r) PROVE ReleaseTyped'
  BY <1>2 DEF Release!Rollback
<1>3. CASE Release!RenderProxy
  BY <1>3 DEF Release!RenderProxy, Release!Write, Release!Step
<1>4. CASE Release!SplitConfig
  BY <1>4 DEF Release!SplitConfig, Release!Write, Release!Step
<1>5. CASE Release!Migrate
  BY <1>5 DEF Release!Migrate
<1>6. CASE Release!Migrated
  BY <1>6 DEF Release!Migrated, Release!Step
<1>7. CASE Release!InstallHelpers
  BY <1>7 DEF Release!InstallHelpers, Release!Write, Release!Step
<1>8. CASE Release!InstallUnits
  BY <1>8 DEF Release!InstallUnits, Release!Write, Release!Step
<1>9. CASE Release!Preflight
  BY <1>9 DEF Release!Preflight, Release!Step
<1>10. CASE Release!Configure
  BY <1>10 DEF Release!Configure, Release!Step
<1>11. CASE Release!Move
  BY <1>11 DEF Release!Move, Release!Step
<1>12. CASE Release!Link
  BY <1>12 DEF Release!Link, Release!Step
<1>13. CASE Release!RestartCore
  BY <1>13 DEF Release!RestartCore, Release!Restart, Release!Step
<1>14. CASE Release!RestartBroker
  BY <1>14 DEF Release!RestartBroker, Release!Restart, Release!Step
<1>15. CASE Release!Verified
  BY <1>15 DEF Release!Verified, Release!Idle
<1>16. CASE Release!Fail
  BY <1>16 DEF Release!Fail, Release!Restores, Release!Idle
<1>17. CASE Release!Killed
  BY <1>17 DEF Release!Killed, Release!Idle
<1>18. CASE Release!Stop
  BY <1>18 DEF Release!Stop, Release!RestoreStep
<1>19. CASE Release!Remove
  BY <1>19 DEF Release!Remove, Release!RestoreStep
<1>20. CASE Release!Extract
  BY <1>20 DEF Release!Extract, Release!RestoreStep, Archives
<1>21. CASE Release!Relink
  BY <1>21 DEF Release!Relink, Release!RestoreStep
<1>22. CASE Release!Start
  BY <1>22 DEF Release!Start, Release!NoRestore
<1>23. CASE Release!RestoreEnds
  BY <1>23 DEF Release!RestoreEnds, Release!NoRestore
<1>24. CASE Release!Reboot
  BY <1>24 DEF Release!Reboot, Release!NoRestore, Release!Idle
<1>25. CASE Release!NothingToKeep
  BY <1>25 DEF Release!NothingToKeep, Release!Leaves, Release!Unkept
<1>26. CASE Release!BeginArchive
  <2>1. PICK kinds \in SUBSET {"proxy", "units"} : Release!Tar(kinds, FALSE, "archive")
    BY <1>26 DEF Release!BeginArchive
  <2>2. /\ snapshot' \in [HostReleases -> Archives \union {None}]
        /\ \A r \in HostReleases : snapshot[r] # None \/ r = install.previous => snapshot'[r] # None
    BY <2>1, ArchiveIsKept
  <2>3. QED
    BY <1>26, <2>1, <2>2 DEF Release!Tar, Release!BeginArchive, Release!Leaves, Release!Unkept
<1>27. CASE Release!FinishArchive
  <2>1. Release!Tar({"proxy", "units"}, TRUE, "proxy") /\ install.pc = "archive"
    BY <1>27 DEF Release!FinishArchive
  <2>2. /\ snapshot' \in [HostReleases -> Archives \union {None}]
        /\ \A r \in HostReleases : snapshot[r] # None \/ r = install.previous => snapshot'[r] # None
    BY <2>1, ArchiveIsKept
  <2>3. QED
    BY <2>1, <2>2 DEF Release!Tar
<1>28. QED
  BY <1>1, <1>2, <1>3, <1>4, <1>5, <1>6, <1>7, <1>8, <1>9, <1>10, <1>11, <1>12, <1>13, <1>14, <1>15, <1>16,
    <1>17, <1>18, <1>19, <1>20, <1>21, <1>22, <1>23, <1>24, <1>25, <1>26, <1>27 DEF Release!Next

-----------------------------------------------------------------------------
(* Snapshots.                                                               *)

\* Every step keeps what an installation relies on.
LEMMA InstallStep == ASSUME ReleaseTyped, InstallOK, Release!Next, NoneIsNothing PROVE InstallOK'
<1> USE DEF ReleaseTyped, ReleaseKept, InstallOK, NoneIsNothing, AfterLink, AfterUnits, AfterMigrations,
      AfterProxy
<1>1. ASSUME NEW r \in HostReleases, Release!Begin(r) PROVE InstallOK'
  BY <1>1 DEF Release!Begin
<1>2. ASSUME NEW r \in HostReleases, Release!Rollback(r) PROVE InstallOK'
  BY <1>2 DEF Release!Rollback
<1>3. CASE Release!RenderProxy
  BY <1>3 DEF Release!RenderProxy, Release!Write, Release!Step
<1>4. CASE Release!SplitConfig
  BY <1>4 DEF Release!SplitConfig, Release!Write, Release!Step
<1>5. CASE Release!Migrate
  BY <1>5 DEF Release!Migrate
<1>6. CASE Release!Migrated
  BY <1>6 DEF Release!Migrated, Release!Step
<1>7. CASE Release!InstallHelpers
  BY <1>7 DEF Release!InstallHelpers, Release!Write, Release!Step
<1>8. CASE Release!InstallUnits
  BY <1>8 DEF Release!InstallUnits, Release!Write, Release!Step
<1>9. CASE Release!Preflight
  BY <1>9 DEF Release!Preflight, Release!Step
<1>10. CASE Release!Configure
  BY <1>10 DEF Release!Configure, Release!Step
<1>11. CASE Release!Move
  BY <1>11 DEF Release!Move, Release!Step
<1>12. CASE Release!Link
  BY <1>12 DEF Release!Link, Release!Step
<1>13. CASE Release!RestartCore
  BY <1>13 DEF Release!RestartCore, Release!Restart, Release!Step
<1>14. CASE Release!RestartBroker
  BY <1>14 DEF Release!RestartBroker, Release!Restart, Release!Step
<1>15. CASE Release!Verified
  BY <1>15 DEF Release!Verified, Release!Idle
<1>16. CASE Release!Fail
  BY <1>16 DEF Release!Fail, Release!Restores, Release!Idle
<1>17. CASE Release!Killed
  BY <1>17 DEF Release!Killed, Release!Idle
<1>18. CASE Release!Stop
  BY <1>18 DEF Release!Stop, Release!RestoreStep
<1>19. CASE Release!Remove
  BY <1>19 DEF Release!Remove, Release!RestoreStep
<1>20. CASE Release!Extract
  BY <1>20 DEF Release!Extract, Release!RestoreStep
<1>21. CASE Release!Relink
  BY <1>21 DEF Release!Relink, Release!RestoreStep
<1>22. CASE Release!Start
  BY <1>22 DEF Release!Start, Release!NoRestore
<1>23. CASE Release!RestoreEnds
  BY <1>23 DEF Release!RestoreEnds, Release!NoRestore
<1>24. CASE Release!Reboot
  BY <1>24 DEF Release!Reboot, Release!NoRestore, Release!Idle
<1>25. CASE Release!NothingToKeep
  BY <1>25 DEF Release!NothingToKeep, Release!Leaves, Release!Unkept
<1>26. CASE Release!BeginArchive
  <2>1. PICK kinds \in SUBSET {"proxy", "units"} : Release!Tar(kinds, FALSE, "archive")
    BY <1>26 DEF Release!BeginArchive
  <2>2. /\ snapshot' \in [HostReleases -> Archives \union {None}]
        /\ \A r \in HostReleases : snapshot[r] # None \/ r = install.previous => snapshot'[r] # None
    BY <2>1, ArchiveIsKept
  <2>3. QED
    BY <1>26, <2>1, <2>2 DEF Release!Tar, Release!BeginArchive, Release!Leaves, Release!Unkept
<1>27. CASE Release!FinishArchive
  <2>1. Release!Tar({"proxy", "units"}, TRUE, "proxy") /\ install.pc = "archive"
    BY <1>27 DEF Release!FinishArchive
  <2>2. /\ snapshot' \in [HostReleases -> Archives \union {None}]
        /\ \A r \in HostReleases : snapshot[r] # None \/ r = install.previous => snapshot'[r] # None
    BY <2>1, ArchiveIsKept
  <2>3. QED
    BY <2>1, <2>2 DEF Release!Tar
<1>28. QED
  BY <1>1, <1>2, <1>3, <1>4, <1>5, <1>6, <1>7, <1>8, <1>9, <1>10, <1>11, <1>12, <1>13, <1>14, <1>15, <1>16,
    <1>17, <1>18, <1>19, <1>20, <1>21, <1>22, <1>23, <1>24, <1>25, <1>26, <1>27 DEF Release!Next

\* No step stores a snapshot that is not the release's, or leaves the release in
\* use without a snapshot and without its files, but a restore cut in the middle.
LEMMA SnapshotStep == ASSUME SnapshotInv, Release!Next, NoneIsNothing PROVE Told'
<1> USE DEF Told, ArchiveIsOwn, OwnFiles, ReleaseTyped, ReleaseKept, InstallOK, SnapshotInv, Release!SnapshotTellsRelease, CurrentIsKept,
      Release!Managed, Release!Halfway, NoneIsNothing, AfterLink, AfterUnits, AfterMigrations, AfterProxy
<1>1. ASSUME NEW r \in HostReleases, Release!Begin(r) PROVE Told'
  BY <1>1 DEF Release!Begin
<1>2. ASSUME NEW r \in HostReleases, Release!Rollback(r) PROVE Told'
  BY <1>2 DEF Release!Rollback
<1>3. CASE Release!RenderProxy
  BY <1>3 DEF Release!RenderProxy, Release!Write, Release!Step
<1>4. CASE Release!SplitConfig
  BY <1>4 DEF Release!SplitConfig, Release!Write, Release!Step
<1>5. CASE Release!Migrate
  BY <1>5 DEF Release!Migrate
<1>6. CASE Release!Migrated
  BY <1>6 DEF Release!Migrated, Release!Step
<1>7. CASE Release!InstallHelpers
  BY <1>7 DEF Release!InstallHelpers, Release!Write, Release!Step
<1>8. CASE Release!InstallUnits
  BY <1>8 DEF Release!InstallUnits, Release!Write, Release!Step
<1>9. CASE Release!Preflight
  BY <1>9 DEF Release!Preflight, Release!Step
<1>10. CASE Release!Configure
  BY <1>10 DEF Release!Configure, Release!Step
<1>11. CASE Release!Move
  BY <1>11 DEF Release!Move, Release!Step
<1>12. CASE Release!Link
  BY <1>12 DEF Release!Link, Release!Step
<1>13. CASE Release!RestartCore
  BY <1>13 DEF Release!RestartCore, Release!Restart, Release!Step
<1>14. CASE Release!RestartBroker
  BY <1>14 DEF Release!RestartBroker, Release!Restart, Release!Step
<1>15. CASE Release!Verified
  BY <1>15 DEF Release!Verified, Release!Idle
<1>16. CASE Release!Fail
  BY <1>16 DEF Release!Fail, Release!Restores, Release!Idle
<1>17. CASE Release!Killed
  BY <1>17 DEF Release!Killed, Release!Idle
<1>18. CASE Release!Stop
  BY <1>18 DEF Release!Stop, Release!RestoreStep
<1>19. CASE Release!Remove
  BY <1>19 DEF Release!Remove, Release!RestoreStep
<1>20. CASE Release!Extract
  BY <1>20 DEF Release!Extract, Release!RestoreStep
<1>21. CASE Release!Relink
  BY <1>21 DEF Release!Relink, Release!RestoreStep
<1>22. CASE Release!Start
  BY <1>22 DEF Release!Start, Release!NoRestore
<1>23. CASE Release!RestoreEnds
  BY <1>23 DEF Release!RestoreEnds, Release!NoRestore
<1>24. CASE Release!Reboot
  BY <1>24 DEF Release!Reboot, Release!NoRestore, Release!Idle
<1>25. CASE Release!NothingToKeep
  BY <1>25 DEF Release!NothingToKeep, Release!Leaves, Release!Unkept
<1>26. CASE Release!BeginArchive
  <2>1. PICK kinds \in SUBSET {"proxy", "units"} : Release!Tar(kinds, FALSE, "archive")
    BY <1>26 DEF Release!BeginArchive
  <2>2. /\ snapshot' \in [HostReleases -> Archives \union {None}]
        /\ \A r \in HostReleases : snapshot[r] # None \/ r = install.previous => snapshot'[r] # None
    BY <2>1, ArchiveIsKept
  <2>3. QED
    BY <1>26, <2>1, <2>2 DEF Release!Tar, Release!BeginArchive, Release!Leaves, Release!Unkept, Release!Archive
<1>27. CASE Release!FinishArchive
  <2>1. Release!Tar({"proxy", "units"}, TRUE, "proxy") /\ install.pc = "archive"
    BY <1>27 DEF Release!FinishArchive
  <2>2. /\ snapshot' \in [HostReleases -> Archives \union {None}]
        /\ \A r \in HostReleases : snapshot[r] # None \/ r = install.previous => snapshot'[r] # None
    BY <2>1, ArchiveIsKept
  <2>3. QED
    BY <2>1, <2>2 DEF Release!Tar, Release!Archive
<1>28. QED
  BY <1>1, <1>2, <1>3, <1>4, <1>5, <1>6, <1>7, <1>8, <1>9, <1>10, <1>11, <1>12, <1>13, <1>14, <1>15, <1>16,
    <1>17, <1>18, <1>19, <1>20, <1>21, <1>22, <1>23, <1>24, <1>25, <1>26, <1>27 DEF Release!Next

-----------------------------------------------------------------------------
(* The schema under the code.                                               *)

Covered(r) == applied >= Level[r]

\* Whatever is stored, current, restored or running has its migrations applied.
SchemaInv ==
  /\ ReleaseTyped
  /\ InstallOK
  /\ \A r \in stored : Covered(r)
  /\ current # None => current \in stored
  /\ install.pc \in AfterMigrations => Covered(install.release)
  /\ install.pc \in {"link"} \union AfterLink => install.release \in stored
  /\ install.pc # "idle" /\ install.previous # None => install.previous \in stored
  /\ restore.pc # "idle" => restore.target \in stored
  /\ Release!SchemaCoversRunning

\* No step starts code before its migrations, and no way back leads before them.
LEMMA SchemaStep == ASSUME SchemaInv, Release!Next, ReleaseTyped', InstallOK', Level \in [HostReleases -> Nat],
                           NoneIsNothing
                    PROVE  SchemaInv'
<1> USE DEF ReleaseTyped, SchemaInv, NoneIsNothing, Release!SchemaCoversRunning, Covered, InstallOK, AfterLink, AfterUnits,
      AfterMigrations, AfterProxy
<1>1. ASSUME NEW r \in HostReleases, Release!Begin(r) PROVE SchemaInv'
  BY <1>1 DEF Release!Begin
<1>2. ASSUME NEW r \in HostReleases, Release!Rollback(r) PROVE SchemaInv'
  BY <1>2 DEF Release!Rollback
<1>3. CASE Release!RenderProxy
  BY <1>3 DEF Release!RenderProxy, Release!Write, Release!Step
<1>4. CASE Release!SplitConfig
  BY <1>4 DEF Release!SplitConfig, Release!Write, Release!Step
<1>5. CASE Release!Migrate
  <2> HIDE DEF Covered
  <2>1. \A r \in HostReleases : Covered(r) => Covered(r)'
    BY <1>5 DEF Release!Migrate, Covered
  <2>2. install' = install /\ restore' = restore /\ current' = current /\ stored' = stored /\ serving' = serving
    BY <1>5 DEF Release!Migrate
  <2>3. \A s \in {"core", "broker"} : serving[s] # None => Covered(serving[s])
    BY DEF Covered
  <2>4. (\A s \in {"core", "broker"} : serving[s] # None => Covered(serving[s]))'
    BY <2>1, <2>2, <2>3
  <2>5. QED
    BY <2>1, <2>2, <2>4 DEF Covered
<1>6. CASE Release!Migrated
  BY <1>6 DEF Release!Migrated, Release!Step, Release!AllApplied
<1>7. CASE Release!InstallHelpers
  BY <1>7 DEF Release!InstallHelpers, Release!Write, Release!Step
<1>8. CASE Release!InstallUnits
  BY <1>8 DEF Release!InstallUnits, Release!Write, Release!Step
<1>9. CASE Release!Preflight
  BY <1>9 DEF Release!Preflight, Release!Step
<1>10. CASE Release!Configure
  BY <1>10 DEF Release!Configure, Release!Step
<1>11. CASE Release!Move
  BY <1>11 DEF Release!Move, Release!Step
<1>12. CASE Release!Link
  BY <1>12 DEF Release!Link, Release!Step
<1>13. CASE Release!RestartCore
  BY <1>13 DEF Release!RestartCore, Release!Restart, Release!Step
<1>14. CASE Release!RestartBroker
  BY <1>14 DEF Release!RestartBroker, Release!Restart, Release!Step
<1>15. CASE Release!Verified
  BY <1>15 DEF Release!Verified, Release!Idle
<1>16. CASE Release!Fail
  BY <1>16 DEF Release!Fail, Release!Restores, Release!Idle
<1>17. CASE Release!Killed
  BY <1>17 DEF Release!Killed, Release!Idle
<1>18. CASE Release!Stop
  BY <1>18 DEF Release!Stop, Release!RestoreStep
<1>19. CASE Release!Remove
  BY <1>19 DEF Release!Remove, Release!RestoreStep
<1>20. CASE Release!Extract
  BY <1>20 DEF Release!Extract, Release!RestoreStep
<1>21. CASE Release!Relink
  BY <1>21 DEF Release!Relink, Release!RestoreStep
<1>22. CASE Release!Start
  BY <1>22 DEF Release!Start, Release!NoRestore
<1>23. CASE Release!RestoreEnds
  BY <1>23 DEF Release!RestoreEnds, Release!NoRestore
<1>24. CASE Release!Reboot
  BY <1>24 DEF Release!Reboot, Release!NoRestore, Release!Idle
<1>25. CASE Release!NothingToKeep
  BY <1>25 DEF Release!NothingToKeep, Release!Leaves, Release!Unkept
<1>26. CASE Release!BeginArchive \/ Release!FinishArchive
  <2>1. PICK to \in {"archive", "proxy"} : /\ install' = [install EXCEPT !.pc = to]
                                          /\ UNCHANGED <<current, stored, files, serving, applied, restore, cut>>
    BY <1>26 DEF Release!BeginArchive, Release!FinishArchive, Release!Tar
  <2>2. install.pc \in {"snapshot", "archive"}
    BY <1>26 DEF Release!BeginArchive, Release!FinishArchive
  <2>3. QED
    BY <2>1, <2>2
<1>27. QED
  BY <1>1, <1>2, <1>3, <1>4, <1>5, <1>6, <1>7, <1>8, <1>9, <1>10, <1>11, <1>12, <1>13, <1>14, <1>15, <1>16,
    <1>17, <1>18, <1>19, <1>20, <1>21, <1>22, <1>23, <1>24, <1>25, <1>26 DEF Release!Next

-----------------------------------------------------------------------------
(* Theorems.                                                                *)

\* Installations, rollbacks, failures and restarts of the host in any order keep the invariant.
THEOREM ReleaseInvariance == Spec => [](part = "release" => SnapshotInv)
<1> NoneIsNothing
  BY PlatformAssumption DEF NoneIsNothing
<1>1. Release!Init => SnapshotInv
  BY DEF Release!Init, Release!Idle, Release!NoRestore, SnapshotInv, ReleaseTyped, InstallOK,
    Told, Release!SnapshotTellsRelease, CurrentIsKept, ArchiveIsOwn
<1>2. SnapshotInv /\ [Release!Next]_releaseVars => SnapshotInv'
  <2>1. CASE Release!Next
    BY <2>1, TypedStep, InstallStep, SnapshotStep DEF SnapshotInv
  <2>2. CASE UNCHANGED releaseVars
    BY <2>2 DEF SnapshotInv, Told, ReleaseTyped, ReleaseKept, InstallOK, Release!SnapshotTellsRelease,
      CurrentIsKept, ArchiveIsOwn, OwnFiles, Release!Managed, Release!Halfway, releaseVars
  <2>3. QED
    BY <2>1, <2>2
<1>3. Init => (part = "release" => SnapshotInv)
  BY <1>1, Starts
<1>4. (part = "release" => SnapshotInv) /\ [Next]_all => (part = "release" => SnapshotInv)'
  BY <1>2, Moves
<1>5. QED
  BY <1>3, <1>4, PTL DEF Spec

\* What is kept as a release's configuration is of that release alone, and all of it when the archive
\* was finished, unless a restore was cut in the middle (install-release.sh, release-config.sh).
THEOREM SnapshotTellsReleaseHolds == Spec => []SnapshotTellsRelease
<1>1. (part = "release" => SnapshotInv) => SnapshotTellsRelease
  BY DEF SnapshotInv, Told, SnapshotTellsRelease, Release!SnapshotTellsRelease
<1>2. QED
  BY <1>1, ReleaseInvariance, PTL

\* Code runs on a schema that has all of its migrations: after a migration that
\* stopped halfway, a failed switch, a rollback and a restart at any moment.
THEOREM SchemaCoversRunningHolds ==
  Spec => [](part = "release" => Release!SchemaCoversRunning)
<1> NoneIsNothing /\ Level \in [HostReleases -> Nat]
  BY PlatformAssumption DEF NoneIsNothing
<1>1. Release!Init => SchemaInv
  BY DEF Release!Init, Release!Idle, Release!NoRestore, SchemaInv, Release!SchemaCoversRunning, ReleaseTyped,
    InstallOK, AfterLink, AfterUnits, AfterMigrations
<1>2. SchemaInv /\ [Release!Next]_releaseVars => SchemaInv'
  <2>1. CASE Release!Next
    BY <2>1, TypedStep, InstallStep, SchemaStep DEF SchemaInv
  <2>2. CASE UNCHANGED releaseVars
    BY <2>2 DEF SchemaInv, ReleaseTyped, ReleaseKept, InstallOK, Release!SchemaCoversRunning, Covered,
      releaseVars
  <2>3. QED
    BY <2>1, <2>2
<1>3. SchemaInv => Release!SchemaCoversRunning
  BY DEF SchemaInv
<1>4. Init => (part = "release" => SchemaInv)
  BY <1>1, Starts
<1>5. (part = "release" => SchemaInv) /\ [Next]_all => (part = "release" => SchemaInv)'
  BY <1>2, Moves
<1>6. (part = "release" => SchemaInv) => (part = "release" => Release!SchemaCoversRunning)
  BY <1>3
<1>7. QED
  BY <1>4, <1>5, <1>6, PTL DEF Spec

-----------------------------------------------------------------------------
(***************************************************************************)
(* ReadinessGates: what an enabled component was measured by.              *)
(*                                                                         *)
(* Evidence that counts was recorded, for the revision that was active.    *)
(* The evaluation that the job is about to store, and the state it puts    *)
(* back when it fails, were taken from such evidence, and the revision     *)
(* does not move between.                                                  *)
(***************************************************************************)

Results == {"none", "PASS", "FAIL", "NA"}
GatesTyped ==
  /\ last \in Nat /\ revision \in Nat
  /\ evidence \in [Gates!Releases -> [Gates!Gates -> Results]]
  /\ view \in [Gates!Gates -> Results] /\ enabled \in BOOLEAN
  /\ approved \subseteq Gates!Releases
  /\ base \in [revision : Nat, enabled : BOOLEAN]
  /\ watch \in {"none", "PASS", "FAIL"}

\* A result that counts has been recorded for its revision; so has what the job is about to store,
\* but for what it records itself; and so have the gates of the base that a failing job restores.
GatesKept(r) == \A g \in Gates!Gates : <<r, g>> \in recorded
GatesInv ==
  /\ GatesTyped
  /\ \A r \in Gates!Releases, g \in Gates!Gates : Gates!Fine(evidence[r][g]) => <<r, g>> \in recorded
  /\ \A g \in Gates!Gates : g # "contract" /\ view[g] = "PASS" => <<revision, g>> \in recorded
  /\ pc = "persist" \/ view = Gates!Nothing
  /\ pc # "idle" => revision \in Gates!Releases
  /\ base.enabled => GatesKept(base.revision)
  /\ enabled => GatesKept(revision)

LEMMA GatesStart == ASSUME Gates!Init PROVE GatesInv
BY DEF Gates!Init, GatesInv, GatesTyped, Gates!Nothing, Gates!NoBase, Gates!Fine, Results

\* A step that records nothing, or a result for a revision, and admits nothing.
LEMMA Recording ==
  ASSUME GatesInv, recorded \subseteq recorded',
         evidence' \in [Gates!Releases -> [Gates!Gates -> Results]],
         \A r \in Gates!Releases, g \in Gates!Gates : Gates!Fine(evidence'[r][g])
             => Gates!Fine(evidence[r][g]) \/ <<r, g>> \in recorded',
         (view' = view /\ (pc' = pc \/ view = Gates!Nothing)) \/ view' = Gates!Nothing,
         pc = "idle" => pc' = "idle",
         UNCHANGED <<last, revision>>, base' \in {base, Gates!NoBase}, approved' \subseteq Gates!Releases,
         watch' \in {"none", "PASS", "FAIL"}, enabled' \in BOOLEAN, enabled' => enabled \/ GatesKept(revision)'
  PROVE  GatesInv'
<1>a. Gates!NoBase \in [revision : Nat, enabled : BOOLEAN] /\ Gates!Nothing \in [Gates!Gates -> Results]
  BY DEF Gates!NoBase, Gates!Nothing, Results
<1>b. view' \in [Gates!Gates -> Results] /\ base' \in [revision : Nat, enabled : BOOLEAN]
  BY <1>a DEF GatesInv, GatesTyped
<1>1. GatesTyped'
  BY <1>b DEF GatesInv, GatesTyped
<1>2. \A r \in Gates!Releases, g \in Gates!Gates : Gates!Fine(evidence'[r][g]) => <<r, g>> \in recorded'
  BY DEF GatesInv
<1>3. \A g \in Gates!Gates : g # "contract" /\ view'[g] = "PASS" => <<revision', g>> \in recorded'
  BY DEF GatesInv, Gates!Nothing
<1>4. (base'.enabled => GatesKept(base.revision)') /\ (enabled' => GatesKept(revision)')
  BY DEF GatesInv, GatesKept, Gates!NoBase
<1> QED
  BY <1>1, <1>2, <1>3, <1>4 DEF GatesInv

LEMMA GatesRecords ==
  ASSUME GatesInv, NEW g \in Gates!Gates, NEW result \in {"PASS", "FAIL"}, NEW of, Gates!Record(g, result, of)
  PROVE  /\ recorded \subseteq recorded' /\ evidence' \in [Gates!Releases -> [Gates!Gates -> Results]]
         /\ \A r \in Gates!Releases, h \in Gates!Gates : Gates!Fine(evidence'[r][h])
              => Gates!Fine(evidence[r][h]) \/ <<r, h>> \in recorded'
<1> PICK n, line : n = revision /\ line = [evidence[n] EXCEPT ![g] = result]
  OBVIOUS
<1>1. evidence \in [Gates!Releases -> [Gates!Gates -> Results]]
  BY DEF GatesInv, GatesTyped
<1>2. evidence' = [evidence EXCEPT ![n] = line]
  BY <1>1 DEF Gates!Record
<1>3. recorded' = IF result = "FAIL" THEN recorded ELSE recorded \union {<<n, g>>}
  BY DEF Gates!Record
<1>4. evidence' \in [Gates!Releases -> [Gates!Gates -> Results]]
  BY <1>1, <1>2 DEF Results
<1>5. ASSUME NEW r \in Gates!Releases, NEW h \in Gates!Gates, Gates!Fine(evidence'[r][h])
      PROVE  Gates!Fine(evidence[r][h]) \/ <<r, h>> \in recorded'
  <2>1. CASE r = n /\ h = g
    <3>1. evidence'[r][h] = result
      BY <1>1, <1>2, <2>1
    <3> QED
      BY <1>3, <1>5, <2>1, <3>1 DEF Gates!Fine
  <2>2. CASE ~(r = n /\ h = g)
    <3>1. evidence'[r][h] = evidence[r][h]
      BY <1>1, <1>2, <2>2
    <3> QED
      BY <1>5, <3>1
  <2> QED
    BY <2>1, <2>2
<1> QED
  BY <1>3, <1>4, <1>5

LEMMA GateNames ==
  {"watchdog", "mcp", "control", "states", "worker", "auth", "secret", "storage", "webhook",
   "dependency", "e2e", "heartbeat", "contract"} \subseteq Gates!Gates
<1>1. /\ Gates!Probes[1] = "watchdog" /\ Gates!Probes[2] = "mcp" /\ Gates!Probes[3] = "control"
           /\ Gates!Probes[4] = "states" /\ Gates!Probes[5] = "worker"
      /\ Gates!Probes[6] = "auth" /\ Gates!Probes[7] = "secret" /\ Gates!Probes[8] = "storage"
           /\ Gates!Probes[9] = "webhook" /\ DOMAIN Gates!Probes = 1..9
  BY DEF Gates!Probes
<1>2. {Gates!Probes[i] : i \in 1..9} \subseteq Gates!ProbeGates
  BY <1>1 DEF Gates!ProbeGates, Gates!ToSet
<1>3. {"watchdog", "mcp", "control", "states", "worker", "auth", "secret", "storage", "webhook"} \subseteq Gates!ProbeGates
  BY <1>1, <1>2
<1> QED
  BY <1>3 DEF Gates!Gates

\* The steps that record nothing.
LEMMA Unrecorded ==
  ASSUME GatesInv, UNCHANGED <<recorded, evidence, last, revision>>, base' \in {base, Gates!NoBase},
         approved' \subseteq Gates!Releases,
         watch' \in {"none", "PASS", "FAIL"},
         (view' = view /\ (pc' = pc \/ view = Gates!Nothing)) \/ view' = Gates!Nothing,
         pc = "idle" => pc' = "idle",
         enabled' \in BOOLEAN, enabled' => enabled \/ GatesKept(revision)
  PROVE  GatesInv'
BY Recording DEF GatesInv, GatesTyped, GatesKept

LEMMA Measures ==
  ASSUME GatesInv, NEW step, NEW g \in Gates!Gates, NEW next, step \notin {"idle", "persist"},
         Gates!Measure(step, g, next)
  PROVE  GatesInv'
<1>1. view = Gates!Nothing /\ pc # "idle" /\ UNCHANGED <<Gates!release, view, watch>>
           /\ approved' \subseteq Gates!Releases /\ enabled' \in BOOLEAN /\ watch' \in {"none", "PASS", "FAIL"}
  BY DEF Gates!Measure, GatesInv, GatesTyped, Gates!release, Gates!others
<1>2. CASE \E result \in {"PASS", "FAIL"} : Gates!Record(g, result, running)
  <2>1. /\ recorded \subseteq recorded' /\ evidence' \in [Gates!Releases -> [Gates!Gates -> Results]]
        /\ \A r \in Gates!Releases, h \in Gates!Gates : Gates!Fine(evidence'[r][h])
             => Gates!Fine(evidence[r][h]) \/ <<r, h>> \in recorded'
    BY <1>2, GatesRecords
  <2> QED
    BY <1>1, <2>1, Recording DEF Gates!release
<1>3. CASE UNCHANGED <<evidence, recorded, measured>>
  BY <1>1, <1>3, Unrecorded DEF Gates!release
<1> QED
  BY <1>2, <1>3 DEF Gates!Measure

LEMMA GatesSkips ==
  ASSUME GatesInv, NEW step, NEW next, step \notin {"idle", "persist"}, Gates!Skip(step, next) PROVE GatesInv'
BY Unrecorded DEF Gates!Skip, GatesInv, GatesTyped, Gates!release, Gates!others

LEMMA Conforms ==
  ASSUME GatesInv,
         \/ Gates!VerifyDependencies \/ Gates!RunScenarios \/ Gates!Challenge
         \/ Gates!ProbeRuntime \/ Gates!ProbePublicMcp \/ Gates!ProbeControl \/ Gates!ProbeStates
              \/ Gates!ProbeWorker
         \/ Gates!ProbeAuthorization \/ Gates!ProbeSecrets \/ Gates!ProbeStorage \/ Gates!ProbeWebhook
  PROVE  GatesInv'
<1>1. CASE Gates!VerifyDependencies \/ Gates!RunScenarios \/ Gates!ProbeRuntime \/ Gates!ProbePublicMcp
           \/ Gates!ProbeControl \/ Gates!ProbeStates
  <2>1. PICK g \in {"dependency", "e2e", "watchdog", "mcp", "control", "states"} : \E next : Gates!Measure(g, g, next)
    BY <1>1 DEF Gates!VerifyDependencies, Gates!RunScenarios, Gates!ProbeRuntime, Gates!ProbePublicMcp,
      Gates!ProbeControl, Gates!ProbeStates
  <2> QED
    BY <2>1, GateNames, Measures
<1>2. CASE Gates!ProbeWorker \/ Gates!ProbeAuthorization \/ Gates!ProbeStorage \/ Gates!ProbeWebhook
           \/ (Gates!ProbeSecrets /\ permits)
  <2>1. PICK g \in {"worker", "auth", "storage", "webhook", "secret"} : \E next : Gates!Measure(g, g, next)
    BY <1>2 DEF Gates!ProbeWorker, Gates!ProbeAuthorization, Gates!ProbeStorage, Gates!ProbeWebhook,
      Gates!ProbeSecrets
  <2> QED
    BY <2>1, GateNames, Measures
<1>3. CASE Gates!ProbeSecrets /\ ~permits
  BY <1>3, GatesSkips DEF Gates!ProbeSecrets
<1>4. CASE Gates!Challenge
  BY <1>4, Unrecorded DEF Gates!Challenge, GatesInv, GatesTyped, Gates!release
<1> QED
  BY <1>1, <1>2, <1>3, <1>4

\* The evaluation reuses what passes for the revision, and what it passes was recorded.
LEMMA Evaluates ==
  ASSUME GatesInv, Gates!Evaluate PROVE GatesInv'
<1>1. PICK contract \in Gates!Outcome : \E expired : view' = Gates!Evaluation(contract, expired)
  BY DEF Gates!Evaluate
<1>2. UNCHANGED <<Gates!release, evidence, recorded, watch>> /\ pc' = "persist" /\ pc = "evaluate"
  BY DEF Gates!Evaluate, Gates!others
<1>3. view' \in [Gates!Gates -> Results]
  BY <1>1 DEF Gates!Evaluation, Gates!Reused, Gates!Missing, Results, Gates!Outcome
<1>4. ASSUME NEW g \in Gates!Gates, g # "contract", view'[g] = "PASS" PROVE <<revision, g>> \in recorded
  <2>1. evidence[revision][g] = "PASS"
    BY <1>1, <1>4 DEF Gates!Evaluation, Gates!Reused, Gates!Missing
  <2> QED
    BY <1>2, <2>1 DEF GatesInv, Gates!Fine
<1>5. GatesTyped'
  BY <1>2, <1>3 DEF GatesInv, GatesTyped, Gates!release
<1> QED
  BY <1>2, <1>4, <1>5 DEF GatesInv, Gates!release, GatesKept

LEMMA Persists ==
  ASSUME GatesInv, Gates!Persist PROVE GatesInv'
<1>1. /\ UNCHANGED <<Gates!release, watch>> /\ evidence' = [evidence EXCEPT ![revision] = view]
           /\ view' = Gates!Nothing
      /\ recorded' = recorded \union {<<revision, g>> : g \in {h \in Gates!Gates : h = "contract" \/ view[h] = "NA"}}
  BY DEF Gates!Persist, Gates!others
<1>2. revision \in Gates!Releases /\ evidence \in [Gates!Releases -> [Gates!Gates -> Results]]
           /\ view \in [Gates!Gates -> Results] /\ pc = "persist"
  BY DEF GatesInv, GatesTyped, Gates!Persist
<1>3. evidence' \in [Gates!Releases -> [Gates!Gates -> Results]]
  BY <1>1, <1>2
<1>4. ASSUME NEW r \in Gates!Releases, NEW g \in Gates!Gates, Gates!Fine(evidence'[r][g])
      PROVE  Gates!Fine(evidence[r][g]) \/ <<r, g>> \in recorded'
  <2>1. CASE r # revision
    <3>1. evidence'[r] = evidence[r]
      BY <1>1, <1>2, <2>1
    <3> QED
      BY <1>4, <3>1
  <2>2. CASE r = revision
    <3>1. evidence'[r] = view
      BY <1>1, <1>2, <2>2
    <3>2. CASE g = "contract" \/ view[g] = "NA"
      BY <1>1, <2>2, <3>2
    <3>3. CASE g # "contract" /\ view[g] = "PASS"
      BY <1>1, <2>2, <3>3 DEF GatesInv
    <3> QED
      BY <1>4, <3>1, <3>2, <3>3 DEF Gates!Fine
  <2> QED
    BY <2>1, <2>2
<1> QED
  BY <1>1, <1>2, <1>3, <1>4, Recording DEF Gates!release, GatesInv, GatesTyped

LEMMA Registers ==
  ASSUME MaxRelease \in Nat, GatesInv, Gates!Register PROVE GatesInv'
<1>1. /\ base' = [revision |-> revision, enabled |-> enabled] /\ last' = last + 1 /\ revision' = last + 1
      /\ enabled' = FALSE /\ UNCHANGED <<approved, evidence, recorded, view, watch>> /\ pc = "idle"
           /\ pc' = "registered" /\ last < MaxRelease
  BY DEF Gates!Register
<1>2. revision' \in Gates!Releases /\ revision' \in Nat /\ last' \in Nat /\ view' = Gates!Nothing
  BY <1>1 DEF GatesInv, GatesTyped, Gates!Releases
<1>3. enabled \in BOOLEAN
  BY DEF GatesInv, GatesTyped
<1>4. GatesTyped'
  BY <1>1, <1>2, <1>3 DEF GatesInv, GatesTyped
<1>5. base'.revision = revision /\ base'.enabled = enabled
  BY <1>1
<1> QED
  BY <1>1, <1>2, <1>4, <1>5 DEF GatesInv, GatesKept, Gates!Nothing

LEMMA GatesEnds ==
  ASSUME GatesInv, Gates!Fail PROVE GatesInv'
<1>1. /\ UNCHANGED <<last, approved, evidence, recorded, watch>> /\ pc' = "idle" /\ view' = Gates!Nothing
           /\ base' = Gates!NoBase
      /\ \/ UNCHANGED <<revision, enabled>>
         \/ revision' = base.revision /\ enabled' = base.enabled
  BY DEF Gates!Fail
<1>2. GatesTyped' /\ (enabled' => GatesKept(revision)')
  BY <1>1 DEF GatesInv, GatesTyped, Gates!NoBase, Gates!Nothing, Results, GatesKept
<1> QED
  BY <1>1, <1>2 DEF GatesInv, Gates!NoBase, Gates!Nothing

LEMMA Admits ==
  ASSUME GatesInv, Gates!Allowed PROVE GatesKept(revision)
BY DEF GatesInv, GatesTyped, Gates!Allowed, Gates!Complete, GatesKept

LEMMA GatesStep == ASSUME MaxRelease \in Nat, GatesInv, [Gates!Next]_gatesVars PROVE GatesInv'
<1>1. CASE UNCHANGED gatesVars
  BY <1>1, Unrecorded DEF gatesVars, GatesInv, GatesTyped
<1>2. CASE Gates!Conformance
  <2>1. CASE Gates!Approve
    <3>1. approved' \subseteq Gates!Releases /\ view = Gates!Nothing /\ enabled \in BOOLEAN
               /\ watch \in {"none", "PASS", "FAIL"}
      BY <2>1 DEF Gates!Approve, GatesInv, GatesTyped
    <3> QED
      BY <2>1, <3>1, Unrecorded DEF Gates!Approve, Gates!others, GatesInv, GatesTyped
  <2> QED
    BY <1>2, <2>1, Conforms, Evaluates, Persists DEF Gates!Conformance
<1>3. CASE Gates!Switch \/ Gates!Resume
  BY <1>3, Unrecorded DEF Gates!Switch, Gates!Resume, GatesInv, GatesTyped, Gates!release, Gates!others
<1>4. CASE Gates!Activate
  BY <1>4, Unrecorded, Admits DEF Gates!Activate, GatesInv, GatesTyped
<1>5. CASE Gates!OwnerSwitches
  BY <1>5, Unrecorded, Admits DEF Gates!OwnerSwitches, GatesInv, GatesTyped
<1>6. CASE Gates!OwnerGrants \/ Gates!Watch \/ Gates!Ask \/ Gates!Beat \/ Gates!RejectBeat
  BY <1>6, Unrecorded DEF Gates!OwnerGrants, Gates!Watch, Gates!Ask, Gates!Beat, Gates!RejectBeat, GatesInv,
    GatesTyped, Gates!release, Gates!others
<1>7. CASE Gates!RecordWatch \/ Gates!RecordBeat
  <2>1. PICK g \in {"watchdog", "heartbeat"}, result \in {"PASS", "FAIL"} : \E of : Gates!Record(g, result, of)
    BY <1>7 DEF Gates!RecordWatch, Gates!RecordBeat, GatesInv, GatesTyped
  <2>2. /\ recorded \subseteq recorded' /\ evidence' \in [Gates!Releases -> [Gates!Gates -> Results]]
        /\ \A r \in Gates!Releases, h \in Gates!Gates : Gates!Fine(evidence'[r][h])
             => Gates!Fine(evidence[r][h]) \/ <<r, h>> \in recorded'
    BY <2>1, GateNames, GatesRecords
  <2>3. UNCHANGED <<Gates!release, pc, view>> /\ enabled' \in BOOLEAN /\ watch' \in {"none", "PASS", "FAIL"}
             /\ approved' \subseteq Gates!Releases
    BY <1>7 DEF Gates!RecordWatch, Gates!RecordBeat, Gates!release, GatesInv, GatesTyped
  <2> QED
    BY <2>2, <2>3, Recording DEF Gates!release
<1> QED
  BY <1>1, <1>2, <1>3, <1>4, <1>5, <1>6, <1>7, Registers, GatesEnds DEF Gates!Next, Gates!Job, Gates!Others

LEMMA GatesTell == ASSUME GatesInv PROVE Gates!GatesWereRecorded
BY DEF GatesInv, Gates!GatesWereRecorded, GatesKept

\* Probes, evaluations, rollbacks and requests of the OWNER keep what was recorded.
THEOREM GatesInvariance == Spec => [](part = "gates" => GatesInv)
<1>1. Init => (part = "gates" => GatesInv)
  BY PlatformAssumption, GatesStart, Starts
<1>2. (part = "gates" => GatesInv) /\ [Next]_all => (part = "gates" => GatesInv)'
  BY PlatformAssumption, GatesStep, Moves
<1> QED
  BY <1>1, <1>2, PTL DEF Spec

\* No gate is passed by default, for any number of releases, failures and requests (gateResults,
\* persistGateEvidence, setComponentActivation).
THEOREM GatesWereRecordedHolds == Spec => []GatesWereRecorded
<1>1. (part = "gates" => GatesInv) => GatesWereRecorded
  BY GatesTell DEF GatesWereRecorded
<1> QED
  BY <1>1, GatesInvariance, PTL

-----------------------------------------------------------------------------
(***************************************************************************)
(* WorkerLease: the worker that believes it holds the lease.               *)
(*                                                                         *)
(* The property is not inductive: a worker that has created the file and   *)
(* not yet noted it, or noted the release and not yet removed the file,    *)
(* also owns the file.  A worker passes from one of these claims to the    *)
(* next and never has two of them, so that the file it removes is its own. *)
(***************************************************************************)

\* The types of what a claim is made of.
WorkOK ==
    /\ creates \in [Actors -> Nat]
    /\ made \in [Actors -> Nat]
    /\ held \in [Actors -> BOOLEAN]
    /\ removes \in [Actors -> Nat]

\* A worker has no claim, or exactly one of the three.
NoClaim(w) == ~held[w] /\ made[w] = 0 /\ removes[w] = 0
OneClaim(w) ==
    \/ held[w] /\ made[w] = 0 /\ removes[w] = 0
    \/ ~held[w] /\ made[w] = 1 /\ removes[w] = 0
    \/ ~held[w] /\ made[w] = 0 /\ removes[w] = 1

ClaimsOwn == \A w \in Actors : NoClaim(w) \/ (OneClaim(w) /\ lease = w)

LeaseInv == WorkOK /\ ClaimsOwn

----------------------------------------------------------------------------
\* Changing the mode (acquireLeaseIfNeeded, releaseLease up to their first
\* await) turns a held lease into one that is being removed, and nothing else.
LEMMA SetModeKeeps ==
    ASSUME LeaseInv, NEW w \in Actors,
           Lease!SetMode(w, seen[w]) \/ Lease!SetMode(w, "STOPPED") \/ Lease!Release(w), UNCHANGED lease
    PROVE  LeaseInv'
<1>1. Lease!Acquire(w) \/ Lease!Release(w) \/ UNCHANGED Lease!work
  BY DEF Lease!SetMode
<1>2. CASE Lease!Acquire(w)
  BY <1>2 DEF LeaseInv, WorkOK, ClaimsOwn, NoClaim, OneClaim, Lease!Acquire
<1>3. CASE Lease!Release(w)
  <2>1. WorkOK'
    BY <1>3 DEF LeaseInv, WorkOK, Lease!Release
  <2>2. ASSUME NEW v \in Actors
        PROVE  (NoClaim(v) \/ (OneClaim(v) /\ lease = v))'
    <3>1. CASE v = w
      BY <1>3, <3>1 DEF LeaseInv, WorkOK, ClaimsOwn, NoClaim, OneClaim, Lease!Release
    <3>2. CASE v # w
      BY <1>3, <3>2 DEF LeaseInv, WorkOK, ClaimsOwn, NoClaim, OneClaim, Lease!Release
    <3>3. QED
      BY <3>1, <3>2
  <2>3. QED
    BY <2>1, <2>2 DEF LeaseInv, ClaimsOwn
<1>4. CASE UNCHANGED Lease!work
  BY <1>4 DEF LeaseInv, WorkOK, ClaimsOwn, NoClaim, OneClaim, Lease!work
<1>5. QED
  BY <1>1, <1>2, <1>3, <1>4

\* Creating the file: nobody has a claim while there is no file.
LEMMA CreateKeeps ==
    ASSUME None \notin Actors, LeaseInv, NEW w \in Actors, Lease!Create(w)
    PROVE  LeaseInv'
<1>1. CASE lease = None
  <2>1. \A v \in Actors : NoClaim(v)
    BY <1>1 DEF LeaseInv, ClaimsOwn
  <2>2. WorkOK'
    BY <1>1 DEF LeaseInv, WorkOK, Lease!Create, Lease!Exclusive
  <2>3. ASSUME NEW v \in Actors
        PROVE  (NoClaim(v) \/ (OneClaim(v) /\ lease = v))'
    BY <1>1, <2>1 DEF LeaseInv, WorkOK, NoClaim, OneClaim, Lease!Create, Lease!Exclusive
  <2>4. QED
    BY <2>2, <2>3 DEF LeaseInv, ClaimsOwn
<1>2. CASE lease # None
  BY <1>2 DEF LeaseInv, WorkOK, ClaimsOwn, NoClaim, OneClaim, Lease!Create, Lease!Exclusive
<1>3. QED
  BY <1>1, <1>2

\* Noting the created file: the claim only changes its form.
LEMMA HoldKeeps ==
    ASSUME LeaseInv, NEW w \in Actors, Lease!Hold(w)
    PROVE  LeaseInv'
<1>1. WorkOK'
  BY DEF LeaseInv, WorkOK, Lease!Hold
<1>2. ASSUME NEW v \in Actors
      PROVE  (NoClaim(v) \/ (OneClaim(v) /\ lease = v))'
  BY DEF LeaseInv, WorkOK, ClaimsOwn, NoClaim, OneClaim, Lease!Hold
<1>3. QED
  BY <1>1, <1>2 DEF LeaseInv, ClaimsOwn

\* Removing the file: it is the worker's own, and with its one claim the last.
LEMMA RemoveKeeps ==
    ASSUME LeaseInv, NEW w \in Actors, Lease!Remove(w)
    PROVE  LeaseInv'
<1>1. lease = w
  BY DEF LeaseInv, WorkOK, ClaimsOwn, NoClaim, Lease!Remove
<1>2. \A v \in Actors \ {w} : NoClaim(v)
  BY <1>1 DEF LeaseInv, ClaimsOwn
<1>3. WorkOK'
  BY DEF LeaseInv, WorkOK, Lease!Remove
<1>4. ASSUME NEW v \in Actors
      PROVE  NoClaim(v)'
  BY <1>2 DEF LeaseInv, WorkOK, ClaimsOwn, NoClaim, OneClaim, Lease!Remove
<1>5. QED
  BY <1>3, <1>4 DEF LeaseInv, ClaimsOwn

\* A process that is gone claims nothing; its file stays.
LEMMA GoneKeeps ==
    ASSUME LeaseInv, NEW w \in Actors, Lease!Gone(w)
    PROVE  LeaseInv'
<1>1. WorkOK'
  BY DEF LeaseInv, WorkOK, Lease!Gone
<1>2. ASSUME NEW v \in Actors
      PROVE  (NoClaim(v) \/ (OneClaim(v) /\ lease = v))'
  BY DEF LeaseInv, WorkOK, ClaimsOwn, NoClaim, OneClaim, Lease!Gone
<1>3. QED
  BY <1>1, <1>2 DEF LeaseInv, ClaimsOwn

----------------------------------------------------------------------------
\* Every step of every worker keeps the claims (deploy/handler-runtime).
THEOREM LeaseInvariance == Spec => [](part = "lease" => LeaseInv)
<1> None \notin Actors
  BY PlatformAssumption
<1>1. Lease!Init => LeaseInv
  BY DEF Lease!Init, LeaseInv, WorkOK, ClaimsOwn, NoClaim
<1>2. LeaseInv /\ [Lease!Next]_leaseVars => LeaseInv'
  <2>1. SUFFICES ASSUME LeaseInv, Lease!Next PROVE LeaseInv'
    BY DEF LeaseInv, WorkOK, ClaimsOwn, NoClaim, OneClaim, leaseVars
  <2>2. PICK w \in Actors :
          \/ \E m \in {"PREPARE", "ACTIVE"} : Lease!Start(w, m)
          \/ \E m \in Lease!Modes : Lease!WriteMode(w, m)
          \/ Lease!ReadMode(w) \/ Lease!ApplyMode(w)
          \/ Lease!Create(w) \/ Lease!Hold(w) \/ Lease!Remove(w)
          \/ Lease!Terminate(w) \/ Lease!Close(w) \/ Lease!Exit(w) \/ Lease!Crash(w)
    BY <2>1 DEF Lease!Next
  <2>3. CASE (\E m \in {"PREPARE", "ACTIVE"} : Lease!Start(w, m))
             \/ (\E m \in Lease!Modes : Lease!WriteMode(w, m)) \/ Lease!ReadMode(w)
    BY <2>1, <2>3 DEF LeaseInv, WorkOK, ClaimsOwn, NoClaim, OneClaim, Lease!Start, Lease!WriteMode,
      Lease!ReadMode, Lease!work
  <2>4. CASE Lease!ApplyMode(w)
    BY <2>1, <2>4, SetModeKeeps DEF Lease!ApplyMode
  <2>5. CASE Lease!Create(w)
    BY <2>1, <2>5, CreateKeeps
  <2>6. CASE Lease!Hold(w)
    BY <2>1, <2>6, HoldKeeps
  <2>7. CASE Lease!Remove(w)
    BY <2>1, <2>7, RemoveKeeps
  <2>8. CASE Lease!Terminate(w)
    BY <2>1, <2>8, SetModeKeeps DEF Lease!Terminate
  <2>9. CASE Lease!Close(w)
    BY <2>1, <2>9, SetModeKeeps DEF Lease!Close
  <2>10. CASE Lease!Exit(w) \/ Lease!Crash(w)
    BY <2>1, <2>10, GoneKeeps DEF Lease!Exit, Lease!Crash
  <2>11. QED
    BY <2>2, <2>3, <2>4, <2>5, <2>6, <2>7, <2>8, <2>9, <2>10
<1>3. Init => (part = "lease" => LeaseInv)
  BY <1>1, Starts
<1>4. (part = "lease" => LeaseInv) /\ [Next]_all => (part = "lease" => LeaseInv)'
  BY <1>2, Moves
<1>5. QED
  BY <1>3, <1>4, PTL DEF Spec

\* At most one worker believes that it holds the lease, and the lease file is
\* its own, for any number of workers, modes and crashes (acquireLeaseIfNeeded,
\* releaseLease).
THEOREM OneHolderHolds == Spec => []OneHolder
<1>1. (part = "lease" => LeaseInv) => OneHolder
  BY DEF LeaseInv, ClaimsOwn, NoClaim, OneHolder, Lease!OneHolder
<1>2. QED
  BY <1>1, LeaseInvariance, PTL

-----------------------------------------------------------------------------
(***************************************************************************)
(* ComponentReports: the chain of audit events.                            *)
(*                                                                         *)
(* The row of the stream is judged as it was read, and it is still so: one *)
(* request has its lock.  The next number is one more than what is stored. *)
(***************************************************************************)

Said == Contents \union {None}
Row == [next : Nat, highest : Nat, gap : {None} \union [from : Nat, to : Nat],
        integrity : {"VALID", "CONFLICT"}, hash : Seq(Said)]
Event == [content : Said, previous : Seq(Said), hash : Seq(Said)]
Requested == [kind : {"none", "audit", "pulse", "outbound"},
              step : {"none", "authorized", "logged", "locked", "failed"}, number : Nat,
              content : Said, success : BOOLEAN, delivered : BOOLEAN, view : {None} \union Row]

\* The lock of the stream is held by one request at most, and the row that it read is still the
\* row; an event that was logged is an operation.
ReportsInv ==
  /\ stream \in Row /\ events \in Seq(Event) /\ delivery \in [Actors -> Requested]
  /\ \A q, r \in Actors : delivery[q].step = "locked" /\ delivery[r].step = "locked" => q = r
  /\ \A r \in Actors : delivery[r].step = "locked" => delivery[r].view = stream
  /\ \A r \in Actors : delivery[r].step \in {"logged", "locked"}
                            => <<delivery[r].number, delivery[r].content>> \in operations
  /\ Reports!OneChain

LEMMA IdleTyped == Reports!Idle \in Requested
BY DEF Reports!Idle, Requested, Said

LEMMA ReportsStart == ASSUME Reports!Init PROVE ReportsInv
<1>1. <<>> \in Seq(Said) /\ <<>> \in Seq(Event) /\ Len(<<>>) = 0 /\ DOMAIN <<>> = {}
  OBVIOUS
<1>2. stream \in Row
  BY <1>1 DEF Reports!Init, Row
<1>3. delivery \in [Actors -> Requested] /\ \A r \in Actors : delivery[r].step = "none"
  BY IdleTyped DEF Reports!Init, Reports!Idle
<1>4. Reports!OneChain
  BY <1>1 DEF Reports!Init, Reports!OneChain
<1> QED
  BY <1>1, <1>2, <1>3, <1>4 DEF Reports!Init, ReportsInv

\* The steps outside the stream.
LEMMA Outside ==
  ASSUME ReportsInv, UNCHANGED <<stream, events>>, operations \subseteq operations',
         delivery' \in [Actors -> Requested],
         \A q \in Actors : delivery'[q] = delivery[q] \/ delivery'[q].step \notin {"logged", "locked"}
  PROVE  ReportsInv'
BY DEF ReportsInv, Reports!OneChain

\* The end of the handling of an event under the lock.
LEMMA Judged ==
  ASSUME ReportsInv, NEW r \in Actors, delivery[r].step = "locked", Reports!End(r), operations' = operations,
         stream' \in Row, events' \in Seq(Event), Reports!OneChain'
  PROVE  ReportsInv'
<1>1. delivery' = [delivery EXCEPT ![r] = Reports!Idle] /\ delivery \in [Actors -> Requested]
           /\ Reports!Idle.step = "none"
  BY DEF Reports!End, ReportsInv, Reports!Idle
<1>2. \A q \in Actors : IF q = r THEN delivery'[q] = Reports!Idle ELSE delivery'[q] = delivery[q]
           /\ delivery[q].step # "locked"
  BY <1>1 DEF ReportsInv
<1>3. delivery' \in [Actors -> Requested]
  BY <1>1, IdleTyped
<1> QED
  BY <1>1, <1>2, <1>3 DEF ReportsInv

LEMMA Changed ==
  ASSUME ReportsInv, NEW r \in Actors, NEW entry \in Requested, delivery' = [delivery EXCEPT ![r] = entry]
  PROVE  delivery' \in [Actors -> Requested] /\ delivery'[r] = entry
      /\ \A q \in Actors \ {r} : delivery'[q] = delivery[q]
BY DEF ReportsInv

LEMMA Logs == ASSUME ReportsInv, NEW r \in Actors, Reports!LogEvent(r) PROVE ReportsInv'
<1>1. PICK entry : entry = [delivery[r] EXCEPT !.step = "logged"]
  OBVIOUS
<1>2. delivery[r] \in Requested /\ delivery \in [Actors -> Requested]
  BY DEF ReportsInv
<1>3. entry \in Requested /\ entry.step = "logged" /\ entry.number = delivery[r].number
           /\ entry.content = delivery[r].content
  BY <1>1, <1>2 DEF Requested
<1>4. delivery' = [delivery EXCEPT ![r] = entry]
  BY <1>1, <1>2 DEF Reports!LogEvent, Reports!Step
<1>5. delivery' \in [Actors -> Requested] /\ delivery'[r] = entry
           /\ \A q \in Actors \ {r} : delivery'[q] = delivery[q]
  BY <1>3, <1>4, Changed
<1>6. UNCHANGED <<stream, events>> /\ operations' = operations \union {<<entry.number, entry.content>>}
  BY <1>3 DEF Reports!LogEvent
<1> QED
  BY <1>3, <1>5, <1>6 DEF ReportsInv, Reports!OneChain

LEMMA Locks == ASSUME ReportsInv, NEW r \in Actors, Reports!Lock(r) PROVE ReportsInv'
<1>1. PICK q : q = [delivery[r] EXCEPT !.step = "locked"]
  OBVIOUS
<1>2. PICK entry : entry = [q EXCEPT !.view = stream]
  OBVIOUS
<1>3. delivery[r] \in Requested /\ delivery \in [Actors -> Requested] /\ stream \in Row
  BY DEF ReportsInv
<1>4. q \in Requested /\ q.step = "locked" /\ q.number = delivery[r].number /\ q.content = delivery[r].content
  BY <1>1, <1>3 DEF Requested
<1>5. entry \in Requested /\ entry.step = "locked" /\ entry.number = delivery[r].number
           /\ entry.content = delivery[r].content
      /\ entry.view = stream
  BY <1>2, <1>3, <1>4 DEF Requested
<1>6. delivery' = [delivery EXCEPT ![r] = entry]
  BY <1>1, <1>2, <1>3 DEF Reports!Lock
<1>7. delivery' \in [Actors -> Requested] /\ delivery'[r] = entry
           /\ \A p \in Actors \ {r} : delivery'[p] = delivery[p]
  BY <1>5, <1>6, Changed
<1>8. UNCHANGED <<stream, events, operations>> /\ delivery[r].step = "logged"
           /\ \A p \in Actors \ {r} : delivery[p].step # "locked"
  BY DEF Reports!Lock, Reports!LockFree
<1> QED
  BY <1>5, <1>7, <1>8 DEF ReportsInv, Reports!OneChain

LEMMA Rewinds == ASSUME ReportsInv, NEW r \in Actors, Reports!Rewind(r) PROVE ReportsInv'
<1>1. delivery[r].step = "locked" /\ Reports!End(r) /\ UNCHANGED <<events, operations>> /\ stream \in Row
           /\ events \in Seq(Event)
  BY DEF Reports!Rewind, ReportsInv
<1>2. stream' = stream \/ stream' = [stream EXCEPT !.integrity = "CONFLICT"]
  BY DEF Reports!Rewind
<1>3. stream' \in Row
  BY <1>1, <1>2 DEF Row
<1>4. stream'.next = stream.next /\ stream'.hash = stream.hash /\ stream'.gap = stream.gap
           /\ stream'.highest = stream.highest
  BY <1>1, <1>2 DEF Row
<1>5. Reports!OneChain'
  BY <1>1, <1>4 DEF ReportsInv, Reports!OneChain
<1> QED
  BY <1>1, <1>3, <1>5, Judged

LEMMA ReportsSkips == ASSUME ReportsInv, NEW r \in Actors, Reports!Ahead(r) PROVE ReportsInv'
<1> PICK n : n = delivery[r].number
  OBVIOUS
<1>1. /\ delivery[r].step = "locked" /\ Reports!End(r) /\ UNCHANGED <<events, operations>> /\ stream \in Row
           /\ events \in Seq(Event)
      /\ n \in Nat /\ delivery[r].view = stream /\ n > stream.next
  BY DEF Reports!Ahead, ReportsInv, Requested
<1>2. PICK gap : gap = [from |-> stream.next, to |-> n - 1]
  OBVIOUS
<1>3. PICK highest : highest = IF n > stream.highest THEN n ELSE stream.highest
  OBVIOUS
<1>4. stream.next \in Nat /\ stream.highest \in Nat /\ highest \in Nat /\ highest >= n
  BY <1>1, <1>3 DEF Row
<1>5. gap \in [from : Nat, to : Nat] /\ gap.from = stream.next /\ gap.to = n - 1
  BY <1>1, <1>2, <1>4
<1>6. PICK entry : entry = [stream EXCEPT !.gap = gap]
  OBVIOUS
<1>7. entry \in Row /\ entry.gap = gap /\ entry.next = stream.next /\ entry.hash = stream.hash
           /\ entry.highest = stream.highest
  BY <1>1, <1>5, <1>6 DEF Row
<1>8. stream' = [stream EXCEPT !.gap = [from |-> stream.next, to |-> n - 1],
                               !.highest = IF n > @ THEN n ELSE @]
  BY <1>1 DEF Reports!Ahead
<1>9. stream' = [entry EXCEPT !.highest = highest]
  BY <1>1, <1>2, <1>3, <1>6, <1>8 DEF Row
<1>10. stream' \in Row /\ stream'.next = stream.next /\ stream'.hash = stream.hash /\ stream'.gap = gap
            /\ stream'.highest = highest
  BY <1>4, <1>7, <1>9 DEF Row
<1>11. Reports!OneChain'
  BY <1>1, <1>4, <1>5, <1>10 DEF ReportsInv, Reports!OneChain
<1> QED
  BY <1>1, <1>10, <1>11, Judged

LEMMA Accepts == ASSUME ReportsInv, NEW r \in Actors, Reports!Accept(r) PROVE ReportsInv'
<1> PICK n : n = delivery[r].number
  OBVIOUS
<1> PICK said : said = delivery[r].content
  OBVIOUS
<1>1. /\ delivery[r].step = "locked" /\ Reports!End(r) /\ UNCHANGED operations /\ stream \in Row
           /\ events \in Seq(Event)
      /\ n \in Nat /\ said \in Said /\ delivery[r].view = stream /\ n = stream.next
           /\ <<n, said>> \in operations
  BY DEF Reports!Accept, ReportsInv, Requested
<1>2. DOMAIN events = 1..Len(events) /\ n = Len(events) + 1 /\ Len(events) \in Nat
  BY <1>1 DEF ReportsInv, Reports!OneChain
<1>3. n \notin DOMAIN events
  BY <1>2
<1>4. PICK hash : hash = Append(stream.hash, said)
  OBVIOUS
<1>5. stream.hash \in Seq(Said) /\ hash \in Seq(Said) /\ stream.highest \in Nat
  BY <1>1, <1>4 DEF Row
<1>6. PICK event : event = [content |-> said, previous |-> stream.hash, hash |-> hash]
  OBVIOUS
<1>7. event \in Event /\ event.content = said /\ event.previous = stream.hash /\ event.hash = hash
  BY <1>1, <1>5, <1>6 DEF Event
<1>8. PICK gap : gap = IF Reports!Closes(n) THEN None ELSE [stream.gap EXCEPT !.from = n + 1]
  OBVIOUS
<1>9. PICK highest : highest = IF n > stream.highest THEN n ELSE stream.highest
  OBVIOUS
<1>10. events' = Append(events, event) /\ stream' = [next |-> n + 1, highest |-> highest, gap |-> gap, integrity |-> "VALID", hash |-> hash]
  BY <1>1, <1>3, <1>4, <1>6, <1>7, <1>8, <1>9 DEF Reports!Accept, Reports!Hash
<1>11. highest \in Nat /\ highest >= stream.highest
  BY <1>1, <1>5, <1>9
<1>12. gap = None \/ (gap \in [from : Nat, to : Nat] /\ gap.from = n + 1 /\ gap.to \in (n + 1)..(stream.highest - 1))
  <2>1. CASE Reports!Closes(n)
    BY <1>8, <2>1
  <2>2. CASE ~Reports!Closes(n)
    <3>1. stream.gap # None /\ ~(n >= stream.gap.to) /\ stream.gap \in [from : Nat, to : Nat]
      BY <1>1, <2>2 DEF Reports!Closes, Row
    <3>2. stream.gap.to \in stream.next..(stream.highest - 1)
      BY <3>1 DEF ReportsInv, Reports!OneChain
    <3>3. gap = [stream.gap EXCEPT !.from = n + 1]
      BY <1>8, <2>2
    <3>4. gap \in [from : Nat, to : Nat] /\ gap.from = n + 1 /\ gap.to = stream.gap.to
      BY <1>1, <3>1, <3>3
    <3> QED
      BY <1>1, <1>5, <3>1, <3>2, <3>4
  <2> QED
    BY <2>1, <2>2
<1>13. stream' \in Row /\ stream'.next = n + 1 /\ stream'.highest = highest /\ stream'.gap = gap
            /\ stream'.hash = hash
  BY <1>1, <1>5, <1>10, <1>11, <1>12 DEF Row
<1>14. events' \in Seq(Event) /\ Len(events') = n /\ DOMAIN events' = 1..n /\ events'[n] = event
       /\ \A i \in 1..Len(events) : events'[i] = events[i]
  BY <1>1, <1>2, <1>7, <1>10
<1>15. \A i \in DOMAIN events' : /\ events'[i].previous = IF i = 1 THEN <<>> ELSE events'[i - 1].hash
                                 /\ <<i, events'[i].content>> \in operations
  <2> TAKE i \in DOMAIN events'
  <2>1. CASE i \in 1..Len(events)
    <3>1. events'[i] = events[i] /\ (i # 1 => events'[i - 1] = events[i - 1])
      BY <1>2, <1>14, <2>1
    <3> QED
      BY <1>2, <2>1, <3>1 DEF ReportsInv, Reports!OneChain
  <2>2. CASE i = n
    <3>1. CASE n = 1
      <4>1. events = <<>>
        BY <1>1, <1>2, <3>1
      <4> QED
        BY <1>1, <1>7, <1>14, <2>2, <3>1, <4>1 DEF ReportsInv, Reports!OneChain
    <3>2. CASE n # 1
      <4>1. events # <<>> /\ n - 1 = Len(events) /\ n - 1 \in 1..Len(events)
        BY <1>2, <3>2
      <4>2. stream.hash = events[Len(events)].hash
        BY <4>1 DEF ReportsInv, Reports!OneChain
      <4> QED
        BY <1>1, <1>7, <1>14, <2>2, <3>2, <4>1, <4>2
    <3> QED
      BY <3>1, <3>2
  <2> QED
    BY <1>2, <1>14, <2>1, <2>2
<1>16. events' # <<>>
  BY <1>2, <1>14
<1>17. Reports!OneChain'
  BY <1>1, <1>2, <1>5, <1>7, <1>11, <1>12, <1>13, <1>14, <1>15, <1>16 DEF Reports!OneChain
<1> QED
  BY <1>1, <1>13, <1>14, <1>17, Judged

LEMMA Receives ==
  ASSUME ReportsInv, NEW r \in Actors, NEW sort \in {"audit", "pulse", "outbound"}, NEW n \in Nat,
         NEW c \in Said,
         NEW success \in BOOLEAN, Reports!Receive(r, sort, n, c, success)
  PROVE  ReportsInv'
<1>1. PICK entry : entry = [Reports!Idle EXCEPT !.kind = sort, !.step = "authorized", !.number = n, !.content = c, !.success = success]
  OBVIOUS
<1>2. entry \in Requested /\ entry.step = "authorized"
  BY <1>1 DEF Reports!Idle, Requested, Said
<1>3. delivery' = [delivery EXCEPT ![r] = entry] /\ UNCHANGED <<stream, events, operations>>
  BY <1>1 DEF Reports!Receive
<1> QED
  BY <1>2, <1>3, Changed, Outside

LEMMA Others ==
  ASSUME ReportsInv, NEW r \in Actors, NEW valid,
         \/ Reports!IngestPulse(r, valid) \/ Reports!IngestOutbound(r, valid) \/ Reports!Deliver(r)
              \/ Reports!NotDelivered(r) \/ Reports!LogFailure(r)
  PROVE  ReportsInv'
<1>1. UNCHANGED <<stream, events, operations>>
  BY DEF Reports!IngestPulse, Reports!IngestOutbound, Reports!Deliver, Reports!NotDelivered, Reports!LogFailure
<1>2. delivery[r] \in Requested /\ delivery \in [Actors -> Requested] /\ Reports!Idle.step = "none"
  BY DEF ReportsInv, Reports!Idle
<1>3. PICK failed : failed = [delivery[r] EXCEPT !.step = "failed"]
  OBVIOUS
<1>4. PICK sent : sent = [delivery[r] EXCEPT !.delivered = TRUE]
  OBVIOUS
<1>5. failed \in Requested /\ failed.step = "failed" /\ sent \in Requested /\ sent.step = delivery[r].step
  BY <1>2, <1>3, <1>4 DEF Requested
<1>6. CASE Reports!End(r)
  BY <1>1, <1>2, <1>6, IdleTyped, Changed, Outside DEF Reports!End
<1>7. CASE Reports!Step(r, "failed")
  <2>1. delivery' = [delivery EXCEPT ![r] = failed]
    BY <1>2, <1>3, <1>7 DEF Reports!Step
  <2> QED
    BY <1>1, <1>5, <2>1, Changed, Outside
<1>8. CASE Reports!Deliver(r)
  <2>1. delivery' = [delivery EXCEPT ![r] = sent] /\ sent.step = "authorized"
    BY <1>2, <1>4, <1>5, <1>8 DEF Reports!Deliver
  <2> QED
    BY <1>1, <1>5, <2>1, Changed, Outside
<1> QED
  BY <1>6, <1>7, <1>8 DEF Reports!IngestPulse, Reports!IngestOutbound, Reports!NotDelivered, Reports!LogFailure

LEMMA ReportsStep == ASSUME ReportsInv, [Reports!Next]_reportsVars PROVE ReportsInv'
<1>1. CASE UNCHANGED reportsVars \/ Reports!Restore
  BY <1>1, Outside DEF reportsVars, Reports!Restore, ReportsInv
<1>2. CASE Reports!Crash
  BY <1>2, IdleTyped, Outside DEF Reports!Crash, Reports!Idle
<1>3. ASSUME NEW r \in Actors, NEW n \in Reports!Numbers, NEW c \in Contents, NEW success \in BOOLEAN,
             Reports!Receive(r, "audit", n, c, success)
      PROVE  ReportsInv'
  BY <1>3, Receives DEF Reports!Numbers, Said
<1>4. ASSUME NEW r \in Actors, NEW sort \in {"pulse", "outbound"}, NEW success \in BOOLEAN,
             Reports!Receive(r, sort, 1, None, success)
      PROVE  ReportsInv'
  BY <1>4, Receives DEF Said
<1> QED
  BY <1>1, <1>2, <1>3, <1>4, Logs, Locks, Rewinds, ReportsSkips, Accepts, Others DEF Reports!Next

LEMMA ReportsTell == ASSUME ReportsInv PROVE Reports!OneChain
BY DEF ReportsInv

\* Reports in any order, and a death of the server, keep the chain.
THEOREM ReportsInvariance == Spec => [](part = "reports" => ReportsInv)
<1>1. Init => (part = "reports" => ReportsInv)
  BY ReportsStart, Starts
<1>2. (part = "reports" => ReportsInv) /\ [Next]_all => (part = "reports" => ReportsInv)'
  BY ReportsStep, Moves
<1> QED
  BY <1>1, <1>2, PTL DEF Spec

\* The events stored are one chain without a hole, and a gap that is shown is really missing, for
\* any number of requests and events (domain/component-audit.ts).
THEOREM OneChainHolds == Spec => []OneChain
<1>1. (part = "reports" => ReportsInv) => OneChain
  BY ReportsTell DEF OneChain
<1> QED
  BY <1>1, ReportsInvariance, PTL

-----------------------------------------------------------------------------
(***************************************************************************)
(* AutomationRegistry: the revision an automation points at.               *)
(*                                                                         *)
(* A session that has the lock of the automation decides by what it reads  *)
(* under it; one that verifies a revision does so without.                 *)
(***************************************************************************)

RegistryPlaces == {"idle", "look", "supersede", "point", "check", "enable", "fail", "blame"}
RegistryTyped ==
  /\ definition \in [active : Revisions \union {None}, status : {"DISABLED", "ENABLED", "REPAIR_REQUIRED", "REAUTH_REQUIRED"}]
  /\ status \in [Revisions -> {"none", "DRAFT", "PREFLIGHTED", "ACTIVE", "SUPERSEDED"}]
  /\ verified \in [Revisions -> {"PENDING", "PASS", "FAIL"}]
  /\ editor \in [Actors -> [pc : RegistryPlaces, revision : Revisions \union {None}, found : SUBSET Revisions]]
  /\ queued \subseteq Revisions

\* An activation that has locked its revision has found it verified, and it stays so or fails;
\* who enables has found a pointer, and there is one ever since.
EditorOK(job) ==
  /\ job.pc \in {"look", "supersede", "point"} => job.revision \in Revisions
  /\ job.pc \in {"check", "enable"} => definition.active # None

RegistryInv ==
  /\ RegistryTyped
  /\ \A s \in Actors : EditorOK(editor[s])
  /\ Registry!PointerIsActive

LEMMA RegistryStarts == ASSUME Registry!Init PROVE RegistryInv
BY DEF Registry!Init, RegistryInv, RegistryTyped, RegistryPlaces, Registry!Idle, EditorOK,
  Registry!PointerIsActive, Registry!ActiveOnes

\* A session moves; the registry stays.
LEMMA Going ==
  ASSUME RegistryInv, NEW s \in Actors, NEW new \in [pc : RegistryPlaces, revision : Revisions \union {None}, found : SUBSET Revisions],
         editor' = [editor EXCEPT ![s] = new], EditorOK(new), UNCHANGED <<definition, status, queued>>,
         verified' \in [Revisions -> {"PENDING", "PASS", "FAIL"}],
             \A r \in Revisions : verified'[r] = "PENDING" => verified[r] = "PENDING"
  PROVE  RegistryInv'
<1>1. RegistryTyped'
  BY DEF RegistryInv, RegistryTyped
<1>2. \A t \in Actors : EditorOK(editor[t])'
  BY DEF RegistryInv, RegistryTyped, EditorOK
<1>3. Registry!PointerIsActive'
  BY DEF RegistryInv, RegistryTyped, Registry!PointerIsActive, Registry!ActiveOnes
<1> QED
  BY <1>1, <1>2, <1>3 DEF RegistryInv

LEMMA Gotos ==
  ASSUME RegistryInv, NEW s \in Actors, NEW place \in RegistryPlaces, NEW r \in Revisions \union {None},
         NEW found \in SUBSET Revisions,
         Registry!Goto(s, place, r, found), place \in {"look", "supersede", "point"} => r \in Revisions,
         place \in {"check", "enable"} => definition.active # None
  PROVE  RegistryInv'
<1> PICK new : new = [pc |-> place, revision |-> r, found |-> found]
  OBVIOUS
<1>1. new \in [pc : RegistryPlaces, revision : Revisions \union {None}, found : SUBSET Revisions]
           /\ EditorOK(new)
  BY DEF EditorOK
<1>2. editor' = [editor EXCEPT ![s] = new] /\ UNCHANGED <<definition, status, verified, queued>>
  BY DEF Registry!Goto
<1> QED
  BY <1>1, <1>2, Going DEF RegistryInv, RegistryTyped

\* The definition's status is written; only one that points at a revision is enabled.
LEMMA Puts ==
  ASSUME RegistryInv, NEW value \in {"DISABLED", "ENABLED", "REPAIR_REQUIRED", "REAUTH_REQUIRED"},
         Registry!Put(value),
         value = "ENABLED" => definition.active # None, UNCHANGED <<status, verified, queued>>,
         editor' = editor \/ \E s \in Actors : editor' = [editor EXCEPT ![s] = Registry!Idle]
  PROVE  RegistryInv'
<1>1. /\ definition' \in [active : Revisions \union {None}, status : {"DISABLED", "ENABLED", "REPAIR_REQUIRED", "REAUTH_REQUIRED"}]
      /\ definition'.active = definition.active /\ definition'.status = value
  BY DEF Registry!Put, RegistryInv, RegistryTyped
<1>2. Registry!Idle \in [pc : RegistryPlaces, revision : Revisions \union {None}, found : SUBSET Revisions]
           /\ Registry!Idle.pc = "idle"
  BY DEF Registry!Idle, RegistryPlaces
<1>3. RegistryTyped'
  BY <1>1, <1>2 DEF RegistryInv, RegistryTyped
<1>4. \A t \in Actors : EditorOK(editor[t])'
  BY <1>1, <1>2 DEF RegistryInv, RegistryTyped, EditorOK
<1>5. Registry!PointerIsActive'
  BY <1>1 DEF RegistryInv, Registry!PointerIsActive, Registry!ActiveOnes
<1> QED
  BY <1>3, <1>4, <1>5 DEF RegistryInv

LEMMA Points ==
  ASSUME None \notin Revisions, RegistryInv, NEW s \in Actors, Registry!Point(s) PROVE RegistryInv'
<1> PICK r, others : r = editor[s].revision /\ others = editor[s].found
  OBVIOUS
<1>1. RegistryTyped /\ r \in Revisions /\ EditorOK(editor[s])
  BY DEF Registry!Point, RegistryInv, EditorOK
<1>2. /\ status' = [q \in Revisions |-> IF q = r THEN "ACTIVE" ELSE IF q \in others THEN "SUPERSEDED" ELSE status[q]]
      /\ definition' = [active |-> r, status |-> "DISABLED"] /\ editor' = [editor EXCEPT ![s] = Registry!Idle]
      /\ UNCHANGED <<verified, queued>>
  BY DEF Registry!Point, Registry!Activated
<1>3. Registry!Idle \in [pc : RegistryPlaces, revision : Revisions \union {None}, found : SUBSET Revisions]
           /\ Registry!Idle.pc = "idle"
  BY DEF Registry!Idle, RegistryPlaces
<1>4. RegistryTyped'
  BY <1>1, <1>2, <1>3 DEF RegistryTyped
<1>5. \A t \in Actors : EditorOK(editor[t])'
  BY <1>1, <1>2, <1>3 DEF RegistryInv, RegistryTyped, EditorOK
<1>6. Registry!PointerIsActive'
  BY <1>1, <1>2 DEF RegistryInv, RegistryTyped, Registry!PointerIsActive, Registry!ActiveOnes
<1> QED
  BY <1>4, <1>5, <1>6 DEF RegistryInv

LEMMA Revises ==
  ASSUME RegistryInv, NEW r \in Revisions,
         Registry!CreateRevision(r) \/ \E s \in Actors, result \in {"PASS", "FAIL"} : Registry!Verify(s, r, result)
  PROVE  RegistryInv'
<1>1. /\ UNCHANGED <<definition, editor, queued>>
      /\ status' \in [Revisions -> {"none", "DRAFT", "PREFLIGHTED", "ACTIVE", "SUPERSEDED"}]
      /\ verified' \in [Revisions -> {"PENDING", "PASS", "FAIL"}]
      /\ \A q \in Revisions : verified'[q] = "PENDING" => verified[q] = "PENDING"
      /\ \A q \in Revisions : status[q] \in {"ACTIVE", "SUPERSEDED"} => status'[q] = status[q]
  BY DEF Registry!CreateRevision, Registry!Verify, RegistryInv, RegistryTyped
<1>2. RegistryTyped' /\ \A t \in Actors : EditorOK(editor[t])'
  BY <1>1 DEF RegistryInv, RegistryTyped, EditorOK
<1>3. Registry!PointerIsActive'
  BY <1>1 DEF RegistryInv, RegistryTyped, Registry!PointerIsActive, Registry!ActiveOnes
<1> QED
  BY <1>2, <1>3 DEF RegistryInv

LEMMA Fails ==
  ASSUME RegistryInv, NEW s \in Actors, Registry!FailRevision(s) PROVE RegistryInv'
<1> PICK r, new : r = editor[s].revision /\ new = [editor[s] EXCEPT !.pc = "blame"]
  OBVIOUS
<1>1. new \in [pc : RegistryPlaces, revision : Revisions \union {None}, found : SUBSET Revisions]
           /\ EditorOK(new)
  BY DEF RegistryInv, RegistryTyped, RegistryPlaces, EditorOK
<1>2. /\ editor' = [editor EXCEPT ![s] = new] /\ verified' = [verified EXCEPT ![r] = "FAIL"]
      /\ UNCHANGED <<definition, status, queued>>
  BY DEF Registry!FailRevision, RegistryInv, RegistryTyped
<1>3. verified' \in [Revisions -> {"PENDING", "PASS", "FAIL"}]
           /\ \A q \in Revisions : verified'[q] = "PENDING" => verified[q] = "PENDING"
  BY <1>2 DEF RegistryInv, RegistryTyped
<1> QED
  BY <1>1, <1>2, <1>3, Going

LEMMA Queues ==
  ASSUME RegistryInv, Registry!QueueRun PROVE RegistryInv'
BY DEF Registry!QueueRun, RegistryInv, RegistryTyped, EditorOK, Registry!PointerIsActive, Registry!ActiveOnes

LEMMA RegistrySteps == ASSUME None \notin Revisions, RegistryInv, [Registry!Next]_registryVars
                       PROVE  RegistryInv'
<1>1. RegistryTyped /\ \A s \in Actors : EditorOK(editor[s])
  BY DEF RegistryInv
<1>2. ASSUME NEW r \in Revisions, NEW s \in Actors, Registry!LockRevision(s, r) PROVE RegistryInv'
  BY <1>2, Gotos DEF Registry!LockRevision, RegistryPlaces
<1>3. ASSUME NEW s \in Actors, Registry!Look(s) \/ Registry!Supersede(s) PROVE RegistryInv'
  <2> PICK r : r = editor[s].revision
    OBVIOUS
  <2>1. r \in Revisions
    BY <1>1, <1>3 DEF Registry!Look, Registry!Supersede, EditorOK
  <2>2. PICK place \in {"supersede", "point"}, found \in SUBSET Revisions : Registry!Goto(s, place, r, found)
    BY <1>3 DEF Registry!Look, Registry!Supersede, Registry!ActiveOnes
  <2> QED
    BY <2>1, <2>2, Gotos DEF RegistryPlaces
<1>4. ASSUME NEW s \in Actors, Registry!ReadPointer(s) \/ Registry!CheckRevision(s)
             \/ Registry!PreflightFails(s) \/ Registry!BreakOff(s)
      PROVE  RegistryInv'
  <2>1. PICK place \in {"check", "enable", "fail", "idle"}, r \in Revisions \union {None} :
          Registry!Goto(s, place, r, {}) /\ (place \in {"check", "enable"} => definition.active # None)
    BY <1>1, <1>4 DEF Registry!ReadPointer, Registry!CheckRevision, Registry!PreflightFails,
      Registry!BreakOff, RegistryTyped, EditorOK
  <2> QED
    BY <2>1, Gotos DEF RegistryPlaces
<1>5. ASSUME NEW s \in Actors, Registry!Enable(s) \/ Registry!BlameDefinition(s) PROVE RegistryInv'
  BY <1>1, <1>5, Puts DEF Registry!Enable, Registry!BlameDefinition, EditorOK
<1>6. CASE Registry!Disable \/ Registry!Repair \/ Registry!Reauthenticate
  BY <1>6, Puts DEF Registry!Disable, Registry!Repair, Registry!Reauthenticate
<1>7. CASE UNCHANGED registryVars
  BY <1>7 DEF registryVars, RegistryInv, RegistryTyped, EditorOK, Registry!PointerIsActive, Registry!ActiveOnes
<1> QED
  BY <1>2, <1>3, <1>4, <1>5, <1>6, <1>7, Points, Revises, Fails, Queues DEF Registry!Next

\* Sessions that activate, verify and run revisions together keep the pointer.
THEOREM RegistryInvariance == Spec => [](part = "registry" => RegistryInv)
<1>1. Init => (part = "registry" => RegistryInv)
  BY PlatformAssumption, RegistryStarts, Starts
<1>2. (part = "registry" => RegistryInv) /\ [Next]_all => (part = "registry" => RegistryInv)'
  BY PlatformAssumption, RegistrySteps, Moves
<1> QED
  BY <1>1, <1>2, PTL DEF Spec

\* The revision pointed at was activated, and what was queued was verified, for any revisions and
\* sessions (domain/browser-automation.ts).
THEOREM PointerIsActiveHolds == Spec => []PointerIsActive
<1>1. (part = "registry" => RegistryInv) => PointerIsActive
  BY DEF RegistryInv, PointerIsActive
<1> QED
  BY <1>1, RegistryInvariance, PTL
=============================================================================
