--------------------------- MODULE ReleaseInstall ---------------------------
(***************************************************************************)
(* Installation of a release on the host and the way back: the steps of    *)
(* install-release.sh with its ERR trap, the configuration snapshots of    *)
(* release-config.sh, the operator's rollback.sh, and the migrations of    *)
(* cli/migrate.ts, which have no way back. Any step may fail, any process  *)
(* may be killed and the host may be restarted.                            *)
(***************************************************************************)
EXTENDS Naturals, FiniteSets

CONSTANTS
  Releases,  \* release ids
  Level,     \* number of migrations a release carries
  None

VARIABLES
  current,   \* what /opt/kcml/current points to
  stored,    \* directories under /opt/kcml/releases
  files,     \* which release's files are under /etc: snapshot-managed ones (proxy, units), helpers, BUILD_ID
  snapshot,  \* release-config/<release>/config.tar: what it holds, and whether tar came to its end
  running,   \* code the services of restart_core_services and the secret broker execute
  ledger,    \* schema_migration: migrations 1..ledger are applied
  install,   \* the running install-release.sh
  restore,   \* the running release-config.sh restore
  cut        \* history: a restore ended between removing the files and the link

releaseVars == <<current, stored, files, snapshot, running, ledger, install, restore, cut>>

Idle == [pc |-> "idle", release |-> None, previous |-> None]
NoRestore == [pc |-> "idle", target |-> None]
Managed == [proxy |-> files.proxy, units |-> files.units]

Init ==
  /\ current = None
  /\ stored = {}
  /\ files = [proxy |-> None, units |-> None, helpers |-> None, build |-> None]
  /\ snapshot = [r \in Releases |-> None]
  /\ running = [core |-> None, broker |-> None]
  /\ ledger = 0
  /\ install = Idle
  /\ restore = NoRestore
  /\ cut = FALSE

-----------------------------------------------------------------------------
(* install-release.sh.                                                      *)

\* the managed files are kept once for each release that is left
Unkept_Always(r) == TRUE
Unkept(r) == snapshot[r] = None

Begin(r) ==
  /\ install.pc = "idle" /\ restore.pc = "idle"
  /\ r \notin stored
  /\ install' = [pc |-> "snapshot", release |-> r, previous |-> current]
  /\ UNCHANGED <<current, stored, files, snapshot, running, ledger, restore, cut>>

\* release-config.sh snapshot: an archive of any length but none is taken for the release's
Leaves == install.previous # None /\ Unkept(install.previous)

NothingToKeep ==
  /\ install.pc = "snapshot" /\ ~Leaves
  /\ install' = [install EXCEPT !.pc = "proxy"]
  /\ UNCHANGED <<current, stored, files, snapshot, running, ledger, restore, cut>>

Archive(kinds, whole) ==
  [proxy |-> IF "proxy" \in kinds THEN files.proxy ELSE None,
   units |-> IF "units" \in kinds THEN files.units ELSE None,
   whole |-> whole]

Tar(kinds, whole, to) ==
  /\ snapshot' = [snapshot EXCEPT ![install.previous] = Archive(kinds, whole)]
  /\ install' = [install EXCEPT !.pc = to]
  /\ UNCHANGED <<current, stored, files, running, ledger, restore, cut>>

\* tar writes under the archive's own name: whatever ends it here, what is written stays
BeginArchive ==
  /\ install.pc = "snapshot" /\ Leaves
  /\ Managed # [proxy |-> None, units |-> None]
  /\ \E kinds \in SUBSET {"proxy", "units"} : Tar(kinds, FALSE, "archive")

FinishArchive == install.pc = "archive" /\ Tar({"proxy", "units"}, TRUE, "proxy")

Step(from, to) ==
  /\ install.pc = from
  /\ install' = [install EXCEPT !.pc = to]
  /\ UNCHANGED <<snapshot, restore, cut>>

Write(kind, from, to) ==
  /\ Step(from, to)
  /\ files' = [files EXCEPT ![kind] = install.release]
  /\ UNCHANGED <<current, stored, running, ledger>>

RenderProxy == Write("proxy", "proxy", "environment")

\* credentials and environment files, with the release as BUILD_ID, then the backup
SplitConfig == Write("build", "environment", "migrate")

\* each migration commits by itself
Migrate ==
  /\ install.pc = "migrate" /\ ledger < Level[install.release]
  /\ ledger' = ledger + 1
  /\ UNCHANGED <<current, stored, files, snapshot, running, install, restore, cut>>

\* a ledger with migrations the release does not carry is an error
AllApplied == ledger = Level[install.release]

Migrated ==
  /\ Step("migrate", "helpers") /\ AllApplied
  /\ UNCHANGED <<current, stored, files, running, ledger>>

\* the certificate and the DNS checks are passed; files no snapshot holds
InstallHelpers == Write("helpers", "helpers", "units")

InstallUnits == Write("units", "units", "preflight")

\* what the host needs is there
Preflight ==
  /\ Step("preflight", "configure")
  /\ UNCHANGED <<current, stored, files, running, ledger>>

\* database roles, configuration, the OWNER's password and the worker's token
Configure ==
  /\ Step("configure", "move")
  /\ UNCHANGED <<current, stored, files, running, ledger>>

\* from here the script's own directory has another name
Move ==
  /\ Step("move", "link")
  /\ stored' = stored \union {install.release}
  /\ UNCHANGED <<current, files, running, ledger>>

Link ==
  /\ Step("link", "core")
  /\ current' = install.release
  /\ UNCHANGED <<stored, files, running, ledger>>

Restart(service, from, to) ==
  /\ Step(from, to)
  /\ running' = [running EXCEPT ![service] = current]
  /\ UNCHANGED <<current, stored, files, ledger>>

RestartCore == Restart("core", "core", "broker")
RestartBroker == Restart("broker", "broker", "verify")

\* four samples in a row: the services are active and answer with the release's id
Ready == running = [core |-> install.release, broker |-> install.release] /\ files.build = install.release

\* and so do the hosts and the invariants of the database
Verified ==
  /\ install.pc = "verify" /\ Ready
  /\ install' = Idle
  /\ UNCHANGED <<current, stored, files, snapshot, running, ledger, restore, cut>>

\* the ERR trap: it is set after the snapshot, and looks for the script that restores under the old name
\* until the link is made
Restores == install.previous # None /\ install.pc \notin {"snapshot", "archive", "link"}

Fail ==
  /\ install.pc # "idle"
  /\ restore' = IF Restores THEN [pc |-> "stop", target |-> install.previous] ELSE restore
  /\ install' = Idle
  /\ UNCHANGED <<current, stored, files, snapshot, running, ledger, cut>>

\* a signal does not run the trap
Killed ==
  /\ install.pc # "idle"
  /\ install' = Idle
  /\ UNCHANGED <<current, stored, files, snapshot, running, ledger, restore, cut>>

-----------------------------------------------------------------------------
(* release-config.sh restore.                                               *)

RestoreStep(from, to) ==
  /\ restore.pc = from
  /\ restore' = [restore EXCEPT !.pc = to]
  /\ UNCHANGED <<stored, snapshot, ledger, install, cut>>

Stop ==
  /\ RestoreStep("stop", "remove")
  /\ snapshot[restore.target] # None
  /\ running' = [running EXCEPT !.core = None]
  /\ UNCHANGED <<current, files>>

Remove ==
  /\ RestoreStep("remove", "extract")
  /\ files' = [files EXCEPT !.proxy = None, !.units = None]
  /\ UNCHANGED <<current, running>>

\* of an archive that tar did not finish what it holds, with an error or without
Extract ==
  /\ RestoreStep("extract", "relink")
  /\ files' = [files EXCEPT !.proxy = snapshot[restore.target].proxy, !.units = snapshot[restore.target].units]
  /\ UNCHANGED <<current, running>>

Relink ==
  /\ RestoreStep("relink", "start")
  /\ current' = restore.target
  /\ UNCHANGED <<files, running>>

\* the units that are there
Start ==
  /\ restore.pc = "start"
  /\ running' = [running EXCEPT !.core = IF files.units = None THEN None ELSE current]
  /\ restore' = NoRestore
  /\ UNCHANGED <<current, stored, files, snapshot, ledger, install, cut>>

\* a step of the restore fails, or it is killed: nobody continues
Halfway == restore.pc \in {"extract", "relink"}

RestoreEnds ==
  /\ restore.pc # "idle"
  /\ restore' = NoRestore
  /\ cut' = (cut \/ Halfway)
  /\ UNCHANGED <<current, stored, files, snapshot, running, ledger, install>>

\* rollback.sh, while no release is being installed
Rollback(r) ==
  /\ install.pc = "idle" /\ restore.pc = "idle"
  /\ r \in stored
  /\ restore' = [pc |-> "stop", target |-> r]
  /\ UNCHANGED <<current, stored, files, snapshot, running, ledger, install, cut>>

\* the units that are there start what the link points to
Reboot ==
  /\ running' = [core |-> IF files.units = None THEN None ELSE current,
                 broker |-> IF files.helpers = None THEN None ELSE current]
  /\ install' = Idle
  /\ restore' = NoRestore
  /\ cut' = (cut \/ Halfway)
  /\ UNCHANGED <<current, stored, files, snapshot, ledger>>

Next ==
  \/ \E r \in Releases : Begin(r) \/ Rollback(r)
  \/ NothingToKeep \/ BeginArchive \/ FinishArchive
  \/ RenderProxy \/ SplitConfig \/ Migrate \/ Migrated \/ InstallHelpers \/ InstallUnits
  \/ Preflight \/ Configure \/ Move \/ Link \/ RestartCore \/ RestartBroker \/ Verified \/ Fail \/ Killed
  \/ Stop \/ Remove \/ Extract \/ Relink \/ Start \/ RestoreEnds
  \/ Reboot

Spec == Init /\ [][Next]_releaseVars

-----------------------------------------------------------------------------
(* Properties.                                                              *)

\* What is kept as a release's configuration is of that release alone, and all of it when tar came to
\* its end: after whatever installs and rollbacks, wherever they failed, the writing of an archive
\* included, as long as no restore ended halfway.
SnapshotTellsRelease ==
  ~cut => \A r \in Releases : snapshot[r] # None =>
            /\ snapshot[r].proxy \in {r, None} /\ snapshot[r].units \in {r, None}
            /\ snapshot[r].whole => snapshot[r].proxy = r /\ snapshot[r].units = r

\* Refuted: what is kept while nobody writes it is complete.  An archive that tar left unfinished is
\* not empty, so the next installation takes it for the release's.
KeptIsWhole ==
  install.pc # "archive" => \A r \in Releases : snapshot[r] # None => snapshot[r].whole

\* Code runs on a schema that has all of its migrations: after a migration that stopped halfway, a
\* failed switch, a rollback to any release and a restart of the host at any moment.
SchemaCoversRunning ==
  \A s \in {"core", "broker"} : running[s] # None => ledger >= Level[running[s]]
=============================================================================
