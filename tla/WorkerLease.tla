---------------------------- MODULE WorkerLease ----------------------------
(***************************************************************************)
(* The lease of the single active worker of a handler                      *)
(* (deploy/handler-runtime/bootstrap.mjs).  Workers share the data         *)
(* directory with the lease file; each is told its mode by a file of its   *)
(* own, which it reads every half second.  Reading the mode, creating the  *)
(* lease file and removing it are asynchronous: what is under way goes on  *)
(* while the next mode is read.                                            *)
(***************************************************************************)
EXTENDS Naturals, FiniteSets

CONSTANTS
    Workers,
    None,
    MaxModes,    \* bound: modes written
    MaxCrashes   \* bound: processes killed

VARIABLES
    stage,    \* per worker: "down", "up", "stopping", "closing"
    mode,     \* lifecycleMode
    order,    \* the worker's runtime-mode.json, None while there is none
    seen,     \* a mode that has been read and not applied, or None
    creates,  \* acquireLeaseIfNeeded under way: files to be created
    made,     \* files created, leaseHeld not set yet
    held,     \* leaseHeld
    removes,  \* releaseLease under way: files to be removed
    lease,    \* who wrote the lease file, None while there is none
    modes, crashes

vars == <<stage, mode, order, seen, creates, made, held, removes, lease, modes, crashes>>

Modes == {"PREPARE", "ACTIVE", "DRAINING", "STOPPED"}

Init ==
    /\ stage = [w \in Workers |-> "down"]
    /\ mode = [w \in Workers |-> "STOPPED"]
    /\ order = [w \in Workers |-> None] /\ seen = [w \in Workers |-> None]
    /\ creates = [w \in Workers |-> 0] /\ made = [w \in Workers |-> 0]
    /\ held = [w \in Workers |-> FALSE] /\ removes = [w \in Workers |-> 0]
    /\ lease = None
    /\ modes = 0 /\ crashes = 0

work == <<creates, made, held, removes>>

----------------------------------------------------------------------------
\* startModule: setMode returns at once because the initial mode is already
\* lifecycleMode, so a worker started ACTIVE acquires nothing.
Start(w, initial) ==
    /\ stage[w] = "down"
    /\ stage' = [stage EXCEPT ![w] = "up"]
    /\ mode' = [mode EXCEPT ![w] = initial]
    /\ UNCHANGED <<order, seen, work, lease, modes, crashes>>

\* Whoever operates the workers writes a mode.
WriteMode(w, next) ==
    /\ modes < MaxModes /\ modes' = modes + 1
    /\ order' = [order EXCEPT ![w] = next]
    /\ UNCHANGED <<stage, mode, seen, work, lease, crashes>>

\* refreshModeLoop reads the file.  A shutdown stops the timer only.
ReadMode(w) ==
    /\ stage[w] = "up" /\ seen[w] = None
    /\ order[w] \notin {None, mode[w]}
    /\ seen' = [seen EXCEPT ![w] = order[w]]
    /\ UNCHANGED <<stage, mode, order, work, lease, modes, crashes>>

Acquire(w) ==
    /\ creates' = [creates EXCEPT ![w] = IF held[w] THEN @ ELSE @ + 1]
    /\ UNCHANGED <<made, held, removes>>
Release(w) ==
    /\ held' = [held EXCEPT ![w] = FALSE]
    /\ removes' = [removes EXCEPT ![w] = IF held[w] THEN @ + 1 ELSE @]
    /\ UNCHANGED <<creates, made>>

SetMode(w, next) ==
    /\ mode' = [mode EXCEPT ![w] = next]
    /\ IF next = mode[w] THEN UNCHANGED work
       ELSE IF next = "ACTIVE" THEN Acquire(w) ELSE Release(w)

ApplyMode(w) ==
    /\ stage[w] # "down" /\ seen[w] # None
    /\ SetMode(w, seen[w])
    /\ seen' = [seen EXCEPT ![w] = None]
    /\ UNCHANGED <<stage, order, lease, modes, crashes>>

\* The file is created only if it is not there (flag wx); otherwise the
\* refresh fails, and is not repeated for this mode.
Exclusive_Overwrite == TRUE
Exclusive == lease = None
Create(w) ==
    /\ creates[w] > 0
    /\ creates' = [creates EXCEPT ![w] = @ - 1]
    /\ IF Exclusive THEN lease' = w /\ made' = [made EXCEPT ![w] = @ + 1]
                    ELSE UNCHANGED <<lease, made>>
    /\ UNCHANGED <<stage, mode, order, seen, held, removes, modes, crashes>>
Hold(w) ==
    /\ made[w] > 0
    /\ made' = [made EXCEPT ![w] = @ - 1] /\ held' = [held EXCEPT ![w] = TRUE]
    /\ UNCHANGED <<stage, mode, order, seen, creates, removes, lease, modes, crashes>>
Remove(w) ==
    /\ removes[w] > 0
    /\ removes' = [removes EXCEPT ![w] = @ - 1] /\ lease' = None
    /\ UNCHANGED <<stage, mode, order, seen, creates, made, held, modes, crashes>>

----------------------------------------------------------------------------
\* SIGTERM: stopModule releases when it sets the mode and once more after the
\* module has stopped; then the process exits, whatever is still under way.
Terminate(w) ==
    /\ stage[w] = "up"
    /\ stage' = [stage EXCEPT ![w] = "stopping"]
    /\ SetMode(w, "STOPPED")
    /\ UNCHANGED <<order, seen, lease, modes, crashes>>
Close(w) ==
    /\ stage[w] = "stopping"
    /\ stage' = [stage EXCEPT ![w] = "closing"]
    /\ Release(w)
    /\ UNCHANGED <<mode, order, seen, lease, modes, crashes>>

Gone(w) ==
    /\ stage' = [stage EXCEPT ![w] = "down"]
    /\ mode' = [mode EXCEPT ![w] = "STOPPED"] /\ seen' = [seen EXCEPT ![w] = None]
    /\ creates' = [creates EXCEPT ![w] = 0] /\ made' = [made EXCEPT ![w] = 0]
    /\ held' = [held EXCEPT ![w] = FALSE] /\ removes' = [removes EXCEPT ![w] = 0]
    /\ UNCHANGED <<order, lease, modes>>
Exit(w) ==
    /\ stage[w] = "closing" /\ removes[w] = 0
    /\ Gone(w) /\ UNCHANGED crashes
Crash(w) ==
    /\ stage[w] # "down" /\ crashes < MaxCrashes /\ crashes' = crashes + 1
    /\ Gone(w)

----------------------------------------------------------------------------
Next ==
    \E w \in Workers :
        \/ \E m \in {"PREPARE", "ACTIVE"} : Start(w, m)
        \/ \E m \in Modes : WriteMode(w, m)
        \/ ReadMode(w) \/ ApplyMode(w)
        \/ Create(w) \/ Hold(w) \/ Remove(w)
        \/ Terminate(w) \/ Close(w) \/ Exit(w) \/ Crash(w)

Spec == Init /\ [][Next]_vars

----------------------------------------------------------------------------
\* However the modes of the workers change while files are being created and
\* removed, and whichever worker dies: at most one believes that it holds the
\* lease, and the lease file is its own (acquireLeaseIfNeeded, releaseLease).
OneHolder == \A w \in Workers : held[w] => lease = w

\* Refuted: a worker that has stopped, and was not killed, leaves no lease.  A
\* mode read before the shutdown and applied after it acquires once more.
StoppedLeavesNothing ==
    crashes = 0 => \A w \in Workers : ~(lease = w /\ stage[w] = "down")
=============================================================================
