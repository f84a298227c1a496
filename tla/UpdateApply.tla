----------------------------- MODULE UpdateApply -----------------------------
(***************************************************************************)
(* The in-app update: update_apply's worker downloads, verifies and stages *)
(* a build in the workspace and hands it to updater.exe, which waits for   *)
(* the app to exit, swaps the files one by one with a rollback, and starts *)
(* the app again. The app, the updater, the user who quits or starts the   *)
(* app, and the machine that may stop are the actors; the workspace and    *)
(* the install folder are what they share.                                 *)
(*                                                                         *)
(* A file's content is the build that last changed it. A delta carries the *)
(* files changed since its base; base = build means a full payload. When   *)
(* an update may start beside other jobs is JobRegistry's subject.         *)
(***************************************************************************)
EXTENDS Integers, FiniteSets, FiniteSetsExt, Functions

CONSTANTS Files,       \* the files of an installation
          Meta,        \* those of them whose name carries a version (*.dist-info)
          VersionFile, \* the bundled source version_info reads APP_BUILD from
          MaxBuild,    \* bound: the newest build ever published
          Changed,     \* [Builds -> SUBSET Files]: what each build changed
          Gone, Torn,  \* a missing file; an installation that is no build
          FollowMishaps \* bound: whether updates are asked for after a mishap

Builds == 1 .. MaxBuild

ASSUME FilesAssumption ==
    /\ MaxBuild \in Nat \ {0}
    /\ Changed \in [Builds -> SUBSET Files] /\ Changed[1] = Files
    /\ VersionFile \in Files \ Meta /\ Meta \subseteq Files
    /\ \A b \in Builds : VersionFile \in Changed[b]
    /\ Gone \notin Builds /\ Torn \notin Builds /\ FollowMishaps \in BOOLEAN

VARIABLES published,  \* the manifest on the server, or NoManifest
          disk,       \* the install folder
          app,        \* the app's process: "running" or "closed"
          asked,      \* what update_apply fetched and has not yet started, a set of at most one
          worker,     \* the update job's thread
          cancel,     \* the cancel event
          ws,         \* the workspace directory
          updater,    \* the updater's process
          mishap      \* history: something the swap cannot make good (see InstalledApp)

vars == <<published, disk, app, asked, worker, cancel, ws, updater, mishap>>

NoManifest == [build |-> 0, base |-> 0, full |-> FALSE]
\* The retained full build only matters behind a delta with a later base.
Manifests == {m \in [build : Builds, base : Builds, full : BOOLEAN] :
                /\ m.base <= m.build
                /\ m.full => 1 < m.base /\ m.base < m.build}

\* The content of file f in build b, and the installation that is build b.
Content(f, b) == Max({c \in 1 .. b : f \in Changed[c]})
Image == [b \in Builds |-> [f \in Files |-> Content(f, b)]]

Payload(base, build) == LET carried == IF base = build THEN Files
                                       ELSE UNION {Changed[c] : c \in (base + 1) .. build}
                        IN  Restrict(Image[build], carried)

NoFiles == [f \in {} |-> Gone]
EmptyWs == [zip |-> "none", staged |-> NoFiles, backup |-> NoFiles]

NoUpdater == [pc |-> "none", from |-> Gone, install |-> NoFiles, done |-> {}, copied |-> {}]
Idle == [pc |-> "idle", install |-> NoFiles, asked |-> FALSE]

-----------------------------------------------------------------------------
(* The service: update_apply, its worker, update_cancel. *)

\* version_info reads the build from the bundled source, whatever the rest holds.
Current == disk[VersionFile]

IsUpdateAvailable(m) == Current # Gone /\ m.build > Current
\* Mutant of NeedsFullReinstall: one build too lenient.
NeedsFullReinstallOffByOne(m) == m.base < m.build /\ Current < m.base - 1
NeedsFullReinstall(m) == m.base < m.build /\ Current < m.base

\* The files the worker will install: the delta, or the retained full build.
Chosen(m) == IF NeedsFullReinstall(m) THEN Payload(m.base, m.base)
                                      ELSE Payload(m.base, m.build)

\* update_apply up to the start: fetch, validate, refuse.
Ask == /\ app = "running" /\ asked = {}
       /\ mishap => FollowMishaps
       /\ published # NoManifest /\ IsUpdateAvailable(published)
       /\ NeedsFullReinstall(published) => published.full
       /\ asked' = {Chosen(published)}
       /\ UNCHANGED <<published, disk, app, worker, cancel, ws, updater, mishap>>

\* _start_job with update_apply's guard: the event is cleared under the lock.
Claim == /\ app = "running" /\ asked # {}
         /\ mishap => FollowMishaps
         /\ asked' = {}
         /\ IF worker.pc = "idle"
            THEN /\ worker' = [Idle EXCEPT !.pc = "purge", !.install = CHOOSE p \in asked : TRUE]
                 /\ cancel' = FALSE
            ELSE UNCHANGED <<worker, cancel>>
         /\ UNCHANGED <<published, disk, app, ws, updater, mishap>>

\* purge_dir(ws): also when it is the updater that is reading the workspace.
PurgeWorkspace == /\ ws' = EmptyWs
                  /\ mishap' = (mishap \/ updater.pc \in {"wait", "swap", "rollback"})

At(pc) == app = "running" /\ worker.pc = pc

WorkerGoes(pc) == worker' = [worker EXCEPT !.pc = pc]

Purge == /\ At("purge") /\ WorkerGoes("download") /\ PurgeWorkspace
         /\ UNCHANGED <<published, disk, app, asked, cancel, updater>>

\* download: complete, or complete with wrong bytes.
Download == /\ At("download") /\ ~cancel
            /\ \E zip \in {"good", "corrupt"} : ws' = [ws EXCEPT !.zip = zip]
            /\ WorkerGoes("verify")
            /\ UNCHANGED <<published, disk, app, asked, cancel, updater, mishap>>

Verify == /\ At("verify") /\ ~cancel /\ ws.zip = "good"
          /\ WorkerGoes("stage")
          /\ UNCHANGED <<published, disk, app, asked, cancel, ws, updater, mishap>>

Extract == /\ At("stage")
           /\ ws' = [ws EXCEPT !.staged = worker.install]
           /\ WorkerGoes("checkpoint")
           /\ UNCHANGED <<published, disk, app, asked, cancel, updater, mishap>>

\* Mutant of Checkpoint: the event is not looked at.
CheckpointUnasked == /\ At("checkpoint") /\ WorkerGoes("handoff")
                     /\ UNCHANGED <<published, disk, app, asked, cancel, ws, updater, mishap>>

\* The last look at the event; update.restarting goes out.
Checkpoint == /\ At("checkpoint") /\ ~cancel
              /\ WorkerGoes("handoff")
              /\ UNCHANGED <<published, disk, app, asked, cancel, ws, updater, mishap>>

\* Popen returned: the payload belongs to the updater.
HandOff == /\ At("handoff")
           /\ updater' = [NoUpdater EXCEPT !.pc = "wait", !.install = worker.install]
           /\ mishap' = (mishap \/ updater.pc \in {"wait", "swap", "rollback"})
           /\ WorkerGoes("restart")
           /\ UNCHANGED <<published, disk, app, asked, cancel, ws>>

AppDies == app' = "closed" /\ asked' = {} /\ worker' = Idle /\ cancel' = FALSE

\* Mutant of Restart: the worker purges the workspace on its way out.
RestartPurges == /\ At("restart") /\ AppDies /\ ws' = EmptyWs
                 /\ UNCHANGED <<published, disk, updater, mishap>>

\* on_update_restart: the window closes, or its failure is swallowed.
Restart == /\ At("restart")
           /\ \/ AppDies
              \/ worker' = Idle /\ UNCHANGED <<app, asked, cancel>>
           /\ UNCHANGED <<published, disk, ws, updater, mishap>>

\* UpdateCancelled: absorbed, purged, announced.
Cancelled == /\ worker.pc \in {"download", "verify", "checkpoint"} /\ app = "running" /\ cancel
             /\ PurgeWorkspace /\ worker' = Idle
             /\ UNCHANGED <<published, disk, app, asked, cancel, updater>>

\* Network, checksum, disk, Popen: purged and raised.
Fails == /\ app = "running"
         /\ \/ worker.pc \in {"download", "stage", "handoff"}
            \/ worker.pc = "verify" /\ ws.zip = "corrupt"
         /\ PurgeWorkspace /\ worker' = Idle
         /\ UNCHANGED <<published, disk, app, asked, cancel, updater>>

\* update_cancel while the job holds its slot. "asked" remembers that the
\* request came while the worker could still honour it.
UpdateCancel == /\ app = "running" /\ worker.pc # "idle"
                /\ cancel' = TRUE
                /\ worker' = [worker EXCEPT !.asked =
                       @ \/ worker.pc \in {"purge", "download", "verify", "stage", "checkpoint"}]
                /\ UNCHANGED <<published, disk, app, asked, ws, updater, mishap>>

-----------------------------------------------------------------------------
(* updater.exe: main and apply_update. *)

Installed == IF \E b \in Builds : disk = Image[b]
             THEN CHOOSE b \in Builds : disk = Image[b] ELSE Torn

Swapping == updater.pc \in {"swap", "rollback"}

UpdaterGoes(pc) == updater' = [updater EXCEPT !.pc = pc]

\* Installed dist-info folders of packages that arrive under a newer name.
Stale == {f \in Meta \intersect DOMAIN ws.staged : disk[f] \notin {Gone, ws.staged[f]}}

\* The app has exited, or 30 seconds are over: it goes on either way, and moves
\* the stale folders aside first.
StartSwap ==
    /\ updater.pc = "wait"
    /\ ws' = [ws EXCEPT !.backup = Restrict(disk, Stale)]
    /\ disk' = [f \in Files |-> IF f \in Stale THEN Gone ELSE disk[f]]
    /\ updater' = [updater EXCEPT !.pc = "swap", !.from = Installed]
    /\ mishap' = (mishap \/ app = "running")
    /\ UNCHANGED <<published, app, asked, worker, cancel>>

\* The tree is walked as it is found: what the workspace no longer has is not missed.
ToCopy == DOMAIN ws.staged \ updater.done

\* An existing file moves to the backup; one without a predecessor is noted as
\* copied. The copy then succeeds, or raises and leaves nothing in place.
PutFile(f, content, pc) ==
    LET fresh == disk[f] = Gone
    IN  /\ disk' = [disk EXCEPT ![f] = content]
        /\ ws' = [ws EXCEPT !.backup = IF fresh THEN @
                     ELSE [g \in DOMAIN @ \union {f} |-> IF g = f THEN disk[f] ELSE @[g]]]
        /\ updater' = [updater EXCEPT !.done = @ \union {f}, !.pc = pc,
                                      !.copied = IF fresh THEN @ \union {f} ELSE @]

Replace == /\ updater.pc = "swap"
           /\ \E f \in ToCopy : PutFile(f, ws.staged[f], "swap")
           /\ UNCHANGED <<published, app, asked, worker, cancel, mishap>>

\* The move aside raises, or the copy after it.
ReplaceFails == /\ updater.pc = "swap"
                /\ \/ \E f \in ToCopy : PutFile(f, Gone, "rollback")
                   \/ UpdaterGoes("rollback") /\ UNCHANGED <<disk, ws>>
                /\ UNCHANGED <<published, app, asked, worker, cancel, mishap>>

SwapDone == /\ updater.pc = "swap" /\ ToCopy = {}
            /\ UpdaterGoes("relaunch")
            /\ UNCHANGED <<published, disk, app, asked, worker, cancel, ws, mishap>>

\* What rolling back makes of a file: a fresh copy is removed, an original and a
\* retired folder come back from the backup if it still has them.
Restored(f) == IF f \in DOMAIN ws.backup THEN ws.backup[f]
               ELSE IF f \in updater.done THEN Gone ELSE disk[f]

\* Mutant of RollBack: a failed swap returns before the relaunch.
RollBackAndLeave == /\ updater.pc = "rollback" /\ updater' = NoUpdater
                    /\ disk' = [f \in Files |-> Restored(f)]
                    /\ UNCHANGED <<published, app, asked, worker, cancel, ws, mishap>>

\* A file that cannot be removed or put back is passed over.
RollBack ==
    /\ updater.pc = "rollback"
    /\ \E stuck \in SUBSET (updater.done \union DOMAIN ws.backup), lost \in SUBSET Files :
         /\ lost \subseteq stuck
         /\ disk' = [f \in Files |-> IF f \in lost THEN Gone
                                     ELSE IF f \in stuck THEN disk[f] ELSE Restored(f)]
         /\ mishap' = (mishap \/ stuck # {})
    /\ UpdaterGoes("restored")
    /\ UNCHANGED <<published, app, asked, worker, cancel, ws>>

\* The new app empties the workspace as it starts (prepare_runtime_workspace); one
\* that is running already makes the second hand over and end. After a swap that
\* went through the updater removes the staged tree and the backup itself.
Relaunch ==
    /\ updater.pc \in {"relaunch", "restored"}
    /\ updater' = NoUpdater /\ app' = "running"
    /\ ws' = IF app = "closed" THEN EmptyWs
             ELSE IF updater.pc = "restored" THEN ws
             ELSE [ws EXCEPT !.staged = NoFiles, !.backup = NoFiles]
    /\ mishap' = (mishap \/ worker.pc # "idle")
    /\ UNCHANGED <<published, disk, asked, worker, cancel>>

-----------------------------------------------------------------------------
(* The user, the server, the machine. *)

Quit == /\ app = "running" /\ AppDies
        /\ UNCHANGED <<published, disk, ws, updater, mishap>>

\* The user starts the app, perhaps while the updater is at work.
Launch == /\ app = "closed"
          /\ app' = "running"
          /\ PurgeWorkspace
          /\ UNCHANGED <<published, disk, asked, worker, cancel, updater>>

Publish == /\ \E m \in Manifests : m.build > published.build /\ published' = m
           /\ UNCHANGED <<disk, app, asked, worker, cancel, ws, updater, mishap>>

PowerLoss == /\ updater.pc \notin {"none", "lost"} /\ AppDies
             /\ updater' = [NoUpdater EXCEPT !.pc = "lost"]
             /\ mishap' = (mishap \/ Swapping)
             /\ UNCHANGED <<published, disk, ws>>

-----------------------------------------------------------------------------
Init == /\ published = NoManifest
        /\ disk \in {Image[b] : b \in Builds}
        /\ app = "running" /\ asked = {} /\ worker = Idle /\ cancel = FALSE
        /\ ws = EmptyWs /\ updater = NoUpdater /\ mishap = FALSE

UpdaterStep == StartSwap \/ Replace \/ ReplaceFails \/ SwapDone \/ RollBack \/ Relaunch

Next == \/ Ask \/ Claim \/ Purge \/ Download \/ Verify \/ Extract \/ Checkpoint
        \/ HandOff \/ Restart \/ Cancelled \/ Fails \/ UpdateCancel
        \/ UpdaterStep
        \/ Quit \/ Launch \/ Publish \/ PowerLoss

Spec == Init /\ [][Next]_vars

\* The updater's process goes on. Nobody has to press anything.
FairSpec == Spec /\ WF_vars(UpdaterStep)

-----------------------------------------------------------------------------
(* Properties *)

WorkerPc == {"idle", "purge", "download", "verify", "stage", "checkpoint",
             "handoff", "restart"}
UpdaterPc == {"none", "wait", "swap", "rollback", "relaunch", "restored", "lost"}
FilesOf(C) == UNION {[fs -> C] : fs \in SUBSET Files}

TypeOK ==
    /\ published \in Manifests \union {NoManifest}
    /\ disk \in [Files -> Builds \union {Gone}]
    /\ app \in {"running", "closed"}
    /\ asked \subseteq FilesOf(Builds) /\ \A p, q \in asked : p = q
    /\ worker \in [pc : WorkerPc, install : FilesOf(Builds), asked : BOOLEAN]
    /\ cancel \in BOOLEAN
    /\ ws \in [zip : {"none", "good", "corrupt"}, staged : FilesOf(Builds),
               backup : FilesOf(Builds)]
    /\ updater \in [pc : UpdaterPc, from : Builds \union {Torn, Gone},
                    install : FilesOf(Builds), done : SUBSET Files, copied : SUBSET Files]
    /\ mishap \in BOOLEAN

\* The install folder is always one build and only moves to a newer one,
\* whatever fails on the way, until a mishap: the machine stops in the middle of
\* the swap, the swap runs under a running app, the workspace is emptied under
\* the updater, or a rollback cannot put a file back.
OneBuild == INSTANCE InstalledApp WITH
                version <- IF Swapping THEN updater.from ELSE Installed,
                mishap <- mishap
OnlyWholeBuilds == OneBuild!Spec

\* From the hand-off until the swap is through nobody takes from the updater
\* what it is to install.
HandedOffIsKept == updater.pc \in {"wait", "swap"} /\ ~mishap => ws.staged = updater.install

\* A cancel that arrives before the last checkpoint means no hand-off.
CancelHonoured == worker.asked => worker.pc \notin {"handoff", "restart"}

\* However the swap goes, short of the machine stopping, the user gets a running app back.
UpdateEndsRunning == updater.pc = "wait" ~> (app = "running" \/ updater.pc = "lost")

\* For TLC: three files, one of them a dist-info.
ChangedByBuild == << {"app", "lib", "info"}, {"app", "lib"}, {"app", "info"} >>
=============================================================================
