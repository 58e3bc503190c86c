-------------------------- MODULE GeneratedRuntime --------------------------
(***************************************************************************)
(* The process that runs one generated component (runtime-host.mjs): an    *)
(* HTTP server that passes calls to a handler in a sandboxed child         *)
(* process over a pipe (handler-sandbox.mjs), serves the handler's         *)
(* capabilities, of which the persistent state is modelled here, and keeps *)
(* the component's ENABLED or DISABLED mode in a file.                     *)
(*                                                                         *)
(* Everything runs on one event loop, so an action is the code between two *)
(* awaits.  The host may crash at any moment and its service manager       *)
(* starts it again; the child may die.  A file is written in two steps: it *)
(* is truncated when it is opened and whole when the write has ended.      *)
(***************************************************************************)
EXTENDS Naturals, FiniteSets

CONSTANTS
    Calls,       \* the calls the runtime receives; call c stores key c
    None,
    Torn,        \* the contents of a file that is truncated or half written
    MaxCrashes,  \* bound: crashes of the host
    MaxCommands  \* bound: enable and disable commands

VARIABLES
    host,      \* "down" | "up"
    child,     \* the sandbox process: "starting" | "ready" | "dead"
    call,      \* per call: [stage, asked], see CallStages
    store,     \* per call: its handler's state.set in the host, see StoreSteps
    snap,      \* per call: the state its state.set has read
    file,      \* handler-state.json: a set of keys, or Torn
    tmp,       \* handler-state.json.tmp-<pid>: a set of keys, Torn, or None
    enabled,   \* the mode in memory
    modeFile,  \* runtime-mode.json: "none" | "on" | "off" | Torn
    command,   \* the enable or disable being persisted, or None
    acked,     \* the last command answered ACKED and not overtaken, or None
    saved,     \* keys whose state.set was answered to the handler
    overlap,   \* two state.set calls were in progress at once
    crashes, commands

vars == <<host, child, call, store, snap, file, tmp, enabled, modeFile,
          command, acked, saved, overlap, crashes, commands>>

CallStages == {"new", "waiting", "finished", "answered", "failed", "refused"}
StoreSteps == {"none", "asked", "read", "open", "written", "done", "unanswered", "lost"}
Storing(c) == store[c] \in {"asked", "read", "open", "written"}
Name(on) == IF on THEN "on" ELSE "off"

Init ==
    /\ host = "up" /\ child = "starting"
    /\ call = [c \in Calls |-> "new"]
    /\ store = [c \in Calls |-> "none"]
    /\ snap = [c \in Calls |-> {}]
    /\ file = {} /\ tmp = None
    /\ enabled = TRUE /\ modeFile = "none"
    /\ command = None /\ acked = None
    /\ saved = {} /\ overlap = FALSE
    /\ crashes = 0 /\ commands = 0

fileVars == <<file, tmp, saved, overlap>>
modeVars == <<enabled, modeFile, command, acked, commands>>

----------------------------------------------------------------------------
(* The sandbox process. *)

\* Where a state.set ends: the handler gets the answer if its process is
\* still there (HostDies takes the other case).
Settled == IF child = "ready" THEN "done" ELSE "unanswered"

\* The child reports its tools and the host starts to listen.
Ready ==
    /\ host = "up" /\ child = "starting"
    /\ child' = "ready"
    /\ UNCHANGED <<host, call, store, snap, fileVars, modeVars, crashes>>

\* The child exits: what is pending is rejected.  No code starts it again.
Rejected == [c \in Calls |-> IF call[c] \in {"waiting", "finished"}
                             THEN "failed" ELSE call[c]]
Exit ==
    /\ host = "up" /\ child = "ready"
    /\ child' = "dead" /\ call' = Rejected
    /\ UNCHANGED <<host, store, snap, fileVars, modeVars, crashes>>

\* A call takes longer than timeoutMs: the child is killed, and its exit
\* rejects the other calls.
TimedOut_Forgotten(c) == [Rejected EXCEPT ![c] = "waiting"]
TimedOut(c) == Rejected
Timeout(c) ==
    /\ host = "up" /\ call[c] \in {"waiting", "finished"}
    /\ call' = TimedOut(c) /\ child' = "dead"
    /\ UNCHANGED <<host, store, snap, fileVars, modeVars, crashes>>

----------------------------------------------------------------------------
(* A call. *)

\* The request has been read: it is refused while the component is disabled,
\* fails at once when the sandbox is gone, and is passed to the child else.
Receive(c) ==
    /\ host = "up" /\ child # "starting" /\ call[c] = "new"
    /\ call' = [call EXCEPT ![c] = IF ~enabled THEN "refused"
                                   ELSE IF child = "dead" THEN "failed"
                                   ELSE "waiting"]
    /\ UNCHANGED <<host, child, store, snap, fileVars, modeVars, crashes>>

\* The handler returns; its result is a line in the pipe.
Finish(c) ==
    /\ child = "ready" /\ call[c] = "waiting" /\ store[c] \in {"none", "done"}
    /\ call' = [call EXCEPT ![c] = "finished"]
    /\ UNCHANGED <<host, child, store, snap, fileVars, modeVars, crashes>>

\* The host reads the line.
Answer(c) ==
    /\ host = "up" /\ call[c] = "finished"
    /\ call' = [call EXCEPT ![c] = "answered"]
    /\ UNCHANGED <<host, child, store, snap, fileVars, modeVars, crashes>>

----------------------------------------------------------------------------
(* state.set: read the file, write a temporary file, rename it.  The       *)
(* temporary file's name depends on the process only.                      *)

Ask(c) ==
    /\ child = "ready" /\ call[c] = "waiting" /\ store[c] = "none"
    /\ store' = [store EXCEPT ![c] = "asked"]
    /\ overlap' = (overlap \/ \E d \in Calls \ {c} : Storing(d))
    /\ UNCHANGED <<host, child, call, snap, file, tmp, saved, modeVars, crashes>>

ReadState(c) ==
    /\ host = "up" /\ store[c] = "asked"
    /\ IF file = Torn
       THEN store' = [store EXCEPT ![c] = Settled] /\ UNCHANGED snap
       ELSE store' = [store EXCEPT ![c] = "read"] /\ snap' = [snap EXCEPT ![c] = file]
    /\ UNCHANGED <<host, child, call, fileVars, modeVars, crashes>>

Opened_InPlace == file' = Torn /\ UNCHANGED tmp
Opened == tmp' = Torn /\ UNCHANGED file
OpenTmp(c) ==
    /\ host = "up" /\ store[c] = "read"
    /\ Opened
    /\ store' = [store EXCEPT ![c] = "open"]
    /\ UNCHANGED <<host, child, call, snap, saved, overlap, modeVars, crashes>>

\* Another writer may have renamed the file meanwhile: then the bytes go
\* into the file that is handler-state.json now, over what it holds.
WriteTmp(c) ==
    /\ host = "up" /\ store[c] = "open"
    /\ IF tmp = None THEN file' = snap[c] \union {c} /\ UNCHANGED tmp
                     ELSE tmp' = snap[c] \union {c} /\ UNCHANGED file
    /\ store' = [store EXCEPT ![c] = "written"]
    /\ UNCHANGED <<host, child, call, snap, saved, overlap, modeVars, crashes>>

\* The rename fails when another writer has already renamed the file.
Renamed(c) == IF tmp = None THEN UNCHANGED <<file, tmp>>
                            ELSE file' = tmp /\ tmp' = None
Rename(c) ==
    /\ host = "up" /\ store[c] = "written"
    /\ Renamed(c)
    /\ store' = [store EXCEPT ![c] = Settled]
    /\ saved' = IF child = "ready" /\ tmp # None THEN saved \union {c} ELSE saved
    /\ UNCHANGED <<host, child, call, snap, overlap, modeVars, crashes>>

----------------------------------------------------------------------------
(* The mode. *)

\* An enable or disable sets the mode and begins to rewrite its file.  The
\* control dispatcher sends one command of a component at a time.
Command(on) ==
    /\ host = "up" /\ child # "starting" /\ command = None /\ commands < MaxCommands
    /\ enabled' = on /\ modeFile' = Torn
    /\ command' = Name(on) /\ commands' = commands + 1
    /\ UNCHANGED <<host, child, call, store, snap, fileVars, acked, crashes>>

Persisted ==
    /\ host = "up" /\ command # None
    /\ modeFile' = command /\ acked' = command /\ command' = None
    /\ UNCHANGED <<host, child, call, store, snap, fileVars, enabled, commands, crashes>>

----------------------------------------------------------------------------
(* Crash and restart. *)

\* The host ends, its child with it.  Files stay as they are; a command that
\* was being persisted is not answered.
Dies ==
    /\ host' = "down" /\ child' = "dead"
    /\ call' = Rejected
    /\ store' = [c \in Calls |-> IF store[c] \in {"none", "done"} THEN store[c] ELSE "lost"]
    /\ tmp' = None
    /\ acked' = IF command = None THEN acked ELSE None
    /\ command' = None
    /\ UNCHANGED <<snap, file, saved, overlap, enabled, modeFile, commands>>
Crash ==
    /\ host = "up" /\ crashes < MaxCrashes
    /\ crashes' = crashes + 1
    /\ Dies

\* A capability's answer finds the child gone: the write throws twice and the
\* unhandled rejection ends the process.
HostDies ==
    /\ host = "up"
    /\ \E c \in Calls : store[c] = "unanswered"
    /\ UNCHANGED crashes
    /\ Dies

\* The mode is read back; a file that cannot be parsed counts as enabled.
BootMode == modeFile # "off"
Boot ==
    /\ host = "down"
    /\ host' = "up" /\ child' = "starting"
    /\ enabled' = BootMode
    /\ UNCHANGED <<call, store, snap, fileVars, modeFile, command, acked, commands, crashes>>

----------------------------------------------------------------------------
CallStep ==
    \E c \in Calls :
        \/ Receive(c) \/ Finish(c) \/ Answer(c) \/ Timeout(c)
        \/ Ask(c) \/ ReadState(c) \/ OpenTmp(c) \/ WriteTmp(c) \/ Rename(c)
HostStep == Ready \/ Exit \/ Crash \/ HostDies \/ Boot
ModeStep == (\E on \in BOOLEAN : Command(on)) \/ Persisted

Next == CallStep \/ HostStep \/ ModeStep

Spec == Init /\ [][Next]_vars

\* A timer that is due fires, and the service manager starts a dead host.
Timers == \A c \in Calls : WF_vars(Timeout(c))
FairSpec == Spec /\ Timers /\ WF_vars(Boot)

----------------------------------------------------------------------------
TypeOK ==
    /\ host \in {"up", "down"} /\ child \in {"starting", "ready", "dead"}
    /\ call \in [Calls -> CallStages] /\ store \in [Calls -> StoreSteps]
    /\ snap \in [Calls -> SUBSET Calls]
    /\ file = Torn \/ file \subseteq Calls
    /\ tmp \in {None, Torn} \/ tmp \subseteq Calls
    /\ enabled \in BOOLEAN /\ modeFile \in {"none", "on", "off", Torn}
    /\ command \in {None, "on", "off"} /\ acked \in {None, "on", "off"}

\* What the runtime has answered survives: whatever crashes, times out or is
\* killed, a stored key is in the state file unless two state.set calls ran at
\* once, and the last mode answered ACKED is the mode the component comes
\* back with (writeHandlerState, persistMode, the mode read at start).
AcknowledgedIsKept ==
    /\ ~overlap => file # Torn /\ saved \subseteq file
    /\ acked # None /\ command = None => Name(BootMode) = acked

\* A call handed to the handler is always answered or failed, whatever the
\* handler does and whichever process dies (dispatch's timer, the exit
\* handler).
EveryCallSettles ==
    \A c \in Calls : call[c] \in {"waiting", "finished"} ~>
                     call[c] \in {"answered", "failed"}
=============================================================================
