------------------------- MODULE UpdateApplyProofs -------------------------
(***************************************************************************)
(* Proofs about UpdateApply, for any number of files and builds and any    *)
(* history of changes between them.                                        *)
(*                                                                         *)
(* That the swap leaves a whole build behind rests on what every payload   *)
(* on its way brings: installed over the present build it makes a newer    *)
(* one (Upgrades).  The inductive invariant follows a payload from the     *)
(* request through the worker, the workspace and the updater, and says     *)
(* what the folder and the backup hold in the middle of the swap.          *)
(***************************************************************************)
EXTENDS UpdateApply, WellFoundedInduction, TLAPS

\* Payload p, installed over build a, makes build b.
Brings(p, a, b) == /\ \A f \in DOMAIN p : p[f] = Image[b][f]
                   /\ \A f \in Files \ DOMAIN p : Image[a][f] = Image[b][f]
Upgrades(p, a) == \E b \in Builds : a < b /\ Brings(p, a, b)

\* A cancel the worker can still honour finds its event set until it is honoured.
CancelKept == worker.asked => cancel /\ worker.pc \notin {"idle", "handoff", "restart"}

ClosedIsQuiet == app = "closed" => asked = {} /\ worker = Idle

SwapNamed == Swapping => updater.from \in Builds \union {Torn}

Whole == ~Swapping => \E b \in Builds : disk = Image[b]

AskedUpgrades == \A p \in asked : Upgrades(p, Current)

WorkerUpgrades ==
    /\ worker.pc # "idle" => Upgrades(worker.install, Current)
    /\ worker.pc \in {"checkpoint", "handoff", "restart"} => ws.staged = worker.install

UpdaterUpgrades ==
    /\ updater.pc \in {"wait", "swap", "rollback"} =>
          worker.pc \in {"idle", "purge", "restart"}
    /\ updater.pc \in {"wait", "swap"} => ws.staged = updater.install
    /\ updater.pc = "wait" => updater.done = {} /\ Upgrades(updater.install, Current)

\* Whenever the swap gives up, the backup makes the folder what it was.
SwapUndoable ==
    Swapping =>
        /\ app = "closed" /\ updater.from \in Builds
        /\ updater.done \subseteq DOMAIN ws.backup
        /\ \A f \in Files : Image[updater.from][f] = IF f \in DOMAIN ws.backup
                                                     THEN ws.backup[f] ELSE disk[f]

\* What has been copied is the new build's; a retired folder not yet replaced is gone.
SwapGoesOn ==
    updater.pc = "swap" =>
        /\ Upgrades(updater.install, updater.from)
        /\ DOMAIN ws.backup \subseteq DOMAIN ws.staged
        /\ \A f \in DOMAIN ws.backup :
              disk[f] = IF f \in updater.done THEN ws.staged[f] ELSE Gone

Sound == /\ Whole /\ AskedUpgrades /\ WorkerUpgrades /\ UpdaterUpgrades
         /\ SwapUndoable /\ SwapGoesOn

\* What every step keeps.
IndInv == /\ TypeOK /\ CancelKept /\ ClosedIsQuiet /\ SwapNamed
          /\ ~mishap => Sound

-----------------------------------------------------------------------------
(* Numbers *)

Less == {p \in Nat \X Nat : p[1] < p[2]}

\* Every non-empty set of numbers up to n has a largest element, and Max is it.
LEMMA MaxOfSome ==
  ASSUME NEW n \in Nat, NEW T \in SUBSET (1 .. n), T # {}
  PROVE  Max(T) \in T /\ \A c \in T : c <= Max(T)
  <1> DEFINE Rest == {n - c : c \in T}
  <1>1. Rest \subseteq Nat /\ Rest # {}
    <2>1. \A c \in T : c \in Int /\ c <= n
      OBVIOUS
    <2>2. \A c \in T : n - c \in Nat
      BY <2>1
    <2> QED
      BY <2>2
  <1>2. IsWellFoundedOn(Less, Nat)
    BY NatLessThanWellFounded DEF OpToRel, Less, IsWellFoundedOn
  <1>3. PICK r \in Rest : \A q \in Rest : ~(<<q, r>> \in Less)
    BY <1>1, <1>2, WFMin, Zenon
  <1>4. \A q \in Rest : ~(q < r)
    BY <1>1, <1>3 DEF Less
  <1>5. PICK m \in T : r = n - m
    BY <1>3
  <1>6. \A c \in T : m >= c
    <2> TAKE c \in T
    <2>1. ~(n - c < n - m)
      BY <1>4, <1>5
    <2> QED
      BY <2>1
  <1>7. Max(T) \in T /\ \A c \in T : Max(T) >= c
    BY <1>5, <1>6 DEF Max
  <1> QED
    BY <1>7

-----------------------------------------------------------------------------
(* Builds and payloads *)

\* A file's content in a build: the last change up to it.
LEMMA ContentIsLastChange ==
  ASSUME NEW b \in Builds, NEW f \in Files
  PROVE  /\ Content(f, b) \in 1 .. b
         /\ f \in Changed[Content(f, b)]
         /\ \A c \in 1 .. b : f \in Changed[c] => c <= Content(f, b)
  <1> DEFINE T == {c \in 1 .. b : f \in Changed[c]}
  <1>1. b \in Nat /\ 1 \in 1 .. b /\ f \in Changed[1]
    BY FilesAssumption DEF Builds
  <1>2. T \in SUBSET (1 .. b) /\ T # {}
    BY <1>1
  <1>3. Max(T) \in T /\ \A c \in T : c <= Max(T)
    BY <1>1, <1>2, MaxOfSome
  <1>4. Content(f, b) = Max(T)
    BY DEF Content
  <1> QED
    BY <1>3, <1>4

LEMMA ImageType == Image \in [Builds -> [Files -> Builds]]
  <1>1. ASSUME NEW b \in Builds, NEW f \in Files PROVE Content(f, b) \in Builds
    BY ContentIsLastChange, FilesAssumption DEF Builds
  <1> QED
    BY <1>1 DEF Image

\* Every build brings its own version file: the folder's build can be read off it.
LEMMA VersionIsBuild == \A b \in Builds : Image[b][VersionFile] = b
  <1> TAKE b \in Builds
  <1>1. VersionFile \in Files /\ VersionFile \in Changed[b] /\ b \in Int /\ b \in 1 .. b
    BY FilesAssumption DEF Builds
  <1>2. Content(VersionFile, b) \in 1 .. b /\ b <= Content(VersionFile, b)
    BY <1>1, ContentIsLastChange
  <1>3. Image[b][VersionFile] = Content(VersionFile, b)
    BY <1>1 DEF Image
  <1> QED
    BY <1>1, <1>2, <1>3

\* A file no build in between has changed is the same in both.
LEMMA UnchangedIsSame ==
  ASSUME NEW a \in Builds, NEW b \in Builds, a <= b, NEW f \in Files,
         \A c \in (a + 1) .. b : f \notin Changed[c]
  PROVE  Image[a][f] = Image[b][f]
  <1> DEFINE x == Content(f, a)
             y == Content(f, b)
  <1>1. a \in Nat /\ b \in Nat
    BY FilesAssumption DEF Builds
  <1>2. x \in 1 .. a /\ f \in Changed[x] /\ \A c \in 1 .. a : f \in Changed[c] => c <= x
    BY ContentIsLastChange
  <1>3. y \in 1 .. b /\ f \in Changed[y] /\ \A c \in 1 .. b : f \in Changed[c] => c <= y
    BY ContentIsLastChange
  <1>4. Image[a][f] = x /\ Image[b][f] = y
    BY DEF Image
  <1> HIDE DEF x, y
  <1>5. y \in 1 .. a
    BY <1>1, <1>3
  <1>6. x \in 1 .. b
    BY <1>1, <1>2
  <1>7. y <= x /\ x <= y
    BY <1>2, <1>3, <1>5, <1>6
  <1> QED
    BY <1>1, <1>2, <1>3, <1>4, <1>7

\* A delta of the changes since base brings every build from base on up to the
\* new one; a full payload brings any.
LEMMA PayloadBrings ==
  ASSUME NEW base \in Builds, NEW build \in Builds, base <= build,
         NEW a \in Builds, base = build \/ (base <= a /\ a <= build)
  PROVE  Brings(Payload(base, build), a, build)
  <1> DEFINE carried == IF base = build THEN Files
                        ELSE UNION {Changed[c] : c \in (base + 1) .. build}
             p == Payload(base, build)
  <1>1. base \in Nat /\ build \in Nat /\ a \in Nat
    BY FilesAssumption DEF Builds
  <1>2. p = [f \in carried |-> Image[build][f]]
    BY DEF Payload, Restrict
  <1>3. ASSUME NEW f \in Files \ carried PROVE Image[a][f] = Image[build][f]
    <2>1. base # build
      BY <1>3
    <2>2. \A c \in (a + 1) .. build : f \notin Changed[c]
      BY <1>1, <1>3, <2>1
    <2> QED
      BY <2>1, <2>2, <1>1, UnchangedIsSame
  <1> QED
    BY <1>2, <1>3 DEF Brings

LEMMA PayloadType ==
  ASSUME NEW base \in Builds, NEW build \in Builds
  PROVE  Payload(base, build) \in FilesOf(Builds)
  <1> DEFINE carried == IF base = build THEN Files
                        ELSE UNION {Changed[c] : c \in (base + 1) .. build}
  <1>1. \A c \in (base + 1) .. build : Changed[c] \subseteq Files
    BY FilesAssumption DEF Builds
  <1>2. carried \in SUBSET Files
    BY <1>1
  <1>3. \A f \in carried : Image[build][f] \in Builds
    BY <1>2, ImageType
  <1>4. Payload(base, build) = [f \in carried |-> Image[build][f]]
    BY DEF Payload, Restrict
  <1> HIDE DEF carried
  <1>5. Payload(base, build) \in [carried -> Builds]
    BY <1>3, <1>4
  <1> QED
    BY <1>2, <1>5 DEF FilesOf

LEMMA FilesOfType ==
  \A p \in FilesOf(Builds) : DOMAIN p \subseteq Files /\ p \in [DOMAIN p -> Builds]
  BY DEF FilesOf

LEMMA FilesOfIntro ==
  ASSUME NEW S \in SUBSET Files, NEW p \in [S -> Builds]
  PROVE  p \in FilesOf(Builds)
  BY DEF FilesOf

\* A folder that is a build is read as that build.
LEMMA WholeIsRead ==
  ASSUME NEW b \in Builds, disk = Image[b]
  PROVE  Current = b /\ Installed = b
  <1>1. \A c \in Builds : disk = Image[c] => c = b
    BY VersionIsBuild
  <1> QED
    BY <1>1, VersionIsBuild DEF Current, Installed

LEMMA InstalledType == Installed \in Builds \union {Torn}
  BY DEF Installed

-----------------------------------------------------------------------------
(* Types *)

LEMMA ConstantTypes == /\ NoFiles \in FilesOf(Builds)
                       /\ Idle \in [pc : WorkerPc, install : FilesOf(Builds), asked : BOOLEAN]
                       /\ EmptyWs \in [zip : {"none", "good", "corrupt"},
                                       staged : FilesOf(Builds), backup : FilesOf(Builds)]
                       /\ NoUpdater \in [pc : UpdaterPc, from : Builds \union {Torn, Gone},
                                         install : FilesOf(Builds), done : SUBSET Files,
                                         copied : SUBSET Files]
  <1>1. NoFiles \in FilesOf(Builds)
    <2>1. NoFiles \in [{} -> Builds] /\ {} \in SUBSET Files
      BY DEF NoFiles
    <2> QED
      BY <2>1, FilesOfIntro
  <1> QED
    BY <1>1 DEF Idle, EmptyWs, NoUpdater, WorkerPc, UpdaterPc

\* Every file offered is one the update may carry.
LEMMA ChosenType ==
  ASSUME NEW m \in Manifests
  PROVE  Chosen(m) \in FilesOf(Builds)
  BY PayloadType DEF Chosen, Manifests

LEMMA TypeInit == Init => TypeOK
  <1> SUFFICES ASSUME Init PROVE TypeOK
    OBVIOUS
  <1>1. disk \in [Files -> Builds \union {Gone}]
    BY ImageType DEF Init
  <1>2. worker = Idle /\ ws = EmptyWs /\ updater = NoUpdater /\ asked = {}
    BY DEF Init
  <1> QED
    BY <1>1, <1>2, ConstantTypes DEF Init, TypeOK

\* Moving a file aside and putting another in its place.
LEMMA PutFileType ==
  ASSUME TypeOK, NEW f \in Files, NEW content \in Builds \union {Gone},
         NEW pc \in UpdaterPc, PutFile(f, content, pc)
  PROVE  /\ disk' \in [Files -> Builds \union {Gone}]
         /\ ws' \in [zip : {"none", "good", "corrupt"}, staged : FilesOf(Builds),
                     backup : FilesOf(Builds)]
         /\ updater' \in [pc : UpdaterPc, from : Builds \union {Torn, Gone},
                          install : FilesOf(Builds), done : SUBSET Files,
                          copied : SUBSET Files]
  <1> DEFINE kept == [g \in DOMAIN ws.backup \union {f} |->
                         IF g = f THEN disk[f] ELSE ws.backup[g]]
  <1>1. disk' = [disk EXCEPT ![f] = content]
    BY DEF PutFile
  <1>2. ws' = [ws EXCEPT !.backup = IF disk[f] = Gone THEN @ ELSE kept]
    BY DEF PutFile
  <1>3. updater' = [updater EXCEPT !.done = @ \union {f}, !.pc = pc,
                        !.copied = IF disk[f] = Gone THEN @ \union {f} ELSE @]
    BY DEF PutFile
  <1>4. disk[f] # Gone => kept \in FilesOf(Builds)
    <2> SUFFICES ASSUME disk[f] # Gone PROVE kept \in FilesOf(Builds)
      OBVIOUS
    <2>1. disk[f] \in Builds
      BY DEF TypeOK
    <2>2. DOMAIN ws.backup \subseteq Files /\ \A g \in DOMAIN ws.backup : ws.backup[g] \in Builds
      BY FilesOfType DEF TypeOK
    <2>3. kept \in [DOMAIN ws.backup \union {f} -> Builds]
      BY <2>1, <2>2
    <2> HIDE DEF kept
    <2> QED
      BY <2>2, <2>3, FilesOfIntro
  <1> HIDE DEF kept
  <1> QED
    BY <1>1, <1>2, <1>3, <1>4 DEF TypeOK

\* What the service's and the user's steps do to the types.
LEMMA TypeService ==
  ASSUME TypeOK,
         \/ Ask \/ Claim \/ Purge \/ Download \/ Verify \/ Extract \/ Checkpoint
         \/ HandOff \/ Restart \/ Cancelled \/ Fails \/ UpdateCancel
         \/ Quit \/ Launch \/ Publish \/ PowerLoss
  PROVE  TypeOK'
  <1> USE ConstantTypes DEF TypeOK, At, WorkerGoes, PurgeWorkspace, AppDies, WorkerPc
  <1>1. CASE Ask
    <2>1. published \in Manifests
      BY <1>1 DEF Ask
    <2>2. Chosen(published) \in FilesOf(Builds)
      BY <2>1, ChosenType
    <2> QED
      BY <1>1, <2>2 DEF Ask
  <1>2. CASE Claim
    <2> DEFINE p == CHOOSE p \in asked : TRUE
    <2>1. p \in FilesOf(Builds)
      BY <1>2 DEF Claim
    <2>2. \/ worker' = worker
          \/ worker' = [Idle EXCEPT !.pc = "purge", !.install = p]
      BY <1>2 DEF Claim
    <2>3. cancel' \in BOOLEAN
      BY <1>2 DEF Claim
    <2> HIDE DEF p
    <2>4. worker' \in [pc : WorkerPc, install : FilesOf(Builds), asked : BOOLEAN]
      BY <2>1, <2>2 DEF Idle
    <2> QED
      BY <1>2, <2>3, <2>4 DEF Claim
  <1>3. CASE Purge
    BY <1>3 DEF Purge
  <1>4. CASE Download
    BY <1>4 DEF Download
  <1>5. CASE Verify
    BY <1>5 DEF Verify
  <1>6. CASE Extract
    BY <1>6 DEF Extract
  <1>7. CASE Checkpoint
    BY <1>7 DEF Checkpoint
  <1>8. CASE HandOff
    BY <1>8 DEF HandOff, NoUpdater, UpdaterPc
  <1>9. CASE Restart
    BY <1>9 DEF Restart
  <1>10. CASE Cancelled
    BY <1>10 DEF Cancelled
  <1>11. CASE Fails
    BY <1>11 DEF Fails
  <1>12. CASE UpdateCancel
    BY <1>12 DEF UpdateCancel
  <1>13. CASE Quit
    BY <1>13 DEF Quit
  <1>14. CASE Launch
    BY <1>14 DEF Launch
  <1>15. CASE Publish
    BY <1>15 DEF Publish
  <1>16. CASE PowerLoss
    BY <1>16 DEF PowerLoss, NoUpdater, UpdaterPc, Swapping
  <1> QED
    BY <1>1, <1>2, <1>3, <1>4, <1>5, <1>6, <1>7, <1>8, <1>9, <1>10, <1>11, <1>12,
       <1>13, <1>14, <1>15, <1>16

\* A retired folder's files were there.
LEMMA StaleType ==
  ASSUME TypeOK
  PROVE  Stale \subseteq Files /\ Restrict(disk, Stale) \in FilesOf(Builds)
  <1>1. Stale \in SUBSET Files
    BY FilesAssumption DEF Stale
  <1>2. \A f \in Stale : disk[f] \in Builds
    BY <1>1 DEF Stale, TypeOK
  <1>3. Restrict(disk, Stale) \in [Stale -> Builds]
    BY <1>2 DEF Restrict
  <1> QED
    BY <1>1, <1>3, FilesOfIntro

LEMMA RestoredType ==
  ASSUME TypeOK, NEW f \in Files
  PROVE  Restored(f) \in Builds \union {Gone}
  <1>1. f \in DOMAIN ws.backup => ws.backup[f] \in Builds
    BY FilesOfType DEF TypeOK
  <1> QED
    BY <1>1 DEF Restored, TypeOK

LEMMA ToCopyType ==
  ASSUME TypeOK
  PROVE  ToCopy \subseteq Files /\ \A f \in ToCopy : ws.staged[f] \in Builds
  BY FilesOfType DEF ToCopy, TypeOK

LEMMA TypeUpdater ==
  ASSUME TypeOK, UpdaterStep
  PROVE  TypeOK'
  <1> USE DEF UpdaterPc
  <1>1. CASE StartSwap
    <2>1. ws' = [ws EXCEPT !.backup = Restrict(disk, Stale)]
      BY <1>1 DEF StartSwap
    <2>2. disk' = [f \in Files |-> IF f \in Stale THEN Gone ELSE disk[f]]
      BY <1>1 DEF StartSwap
    <2>3. updater' = [updater EXCEPT !.pc = "swap", !.from = Installed]
      BY <1>1 DEF StartSwap
    <2>4. mishap' \in BOOLEAN
      BY <1>1 DEF StartSwap, TypeOK
    <2> QED
      BY <1>1, <2>1, <2>2, <2>3, <2>4, StaleType, InstalledType DEF StartSwap, TypeOK
  <1>2. CASE Replace
    <2>1. PICK f \in ToCopy : PutFile(f, ws.staged[f], "swap")
      BY <1>2 DEF Replace
    <2>2. f \in Files /\ ws.staged[f] \in Builds \union {Gone}
      BY ToCopyType
    <2> QED
      BY <1>2, <2>1, <2>2, PutFileType DEF Replace, TypeOK
  <1>3. CASE ReplaceFails
    <2>1. CASE \E f \in ToCopy : PutFile(f, Gone, "rollback")
      <3>1. PICK f \in ToCopy : PutFile(f, Gone, "rollback")
        BY <2>1
      <3>2. f \in Files
        BY ToCopyType
      <3> QED
        BY <1>3, <3>1, <3>2, PutFileType DEF ReplaceFails, TypeOK
    <2>2. CASE UpdaterGoes("rollback") /\ UNCHANGED <<disk, ws>>
      BY <1>3, <2>2 DEF ReplaceFails, UpdaterGoes, TypeOK
    <2> QED
      BY <1>3, <2>1, <2>2 DEF ReplaceFails
  <1>4. CASE SwapDone
    BY <1>4 DEF SwapDone, UpdaterGoes, TypeOK
  <1>5. CASE RollBack
    <2>1. PICK stuck \in SUBSET (updater.done \union DOMAIN ws.backup), lost \in SUBSET Files :
             /\ disk' = [f \in Files |-> IF f \in lost THEN Gone
                                         ELSE IF f \in stuck THEN disk[f] ELSE Restored(f)]
             /\ mishap' = (mishap \/ stuck # {})
      BY <1>5 DEF RollBack
    <2>2. disk' \in [Files -> Builds \union {Gone}]
      BY <2>1, RestoredType DEF TypeOK
    <2> QED
      BY <1>5, <2>1, <2>2 DEF RollBack, UpdaterGoes, TypeOK
  <1>6. CASE Relaunch
    BY <1>6, ConstantTypes DEF Relaunch, TypeOK
  <1> QED
    BY <1>1, <1>2, <1>3, <1>4, <1>5, <1>6 DEF UpdaterStep

-----------------------------------------------------------------------------
(* What holds with and without a mishap *)

LEMMA TypeStep == TypeOK /\ [Next]_vars => TypeOK'
  <1> SUFFICES ASSUME TypeOK, [Next]_vars PROVE TypeOK'
    OBVIOUS
  <1>1. CASE UNCHANGED vars
    BY <1>1 DEF vars, TypeOK
  <1>2. CASE Next
    BY <1>2, TypeService, TypeUpdater DEF Next
  <1> QED
    BY <1>1, <1>2

\* A mishap is never forgotten.
LEMMA MishapStays == TypeOK /\ [Next]_vars /\ mishap => mishap'
  <1> SUFFICES ASSUME TypeOK, [Next]_vars, mishap PROVE mishap'
    OBVIOUS
  <1> USE DEF PurgeWorkspace
  <1>1. CASE Ask \/ Claim \/ Purge \/ Download \/ Verify \/ Extract \/ Checkpoint
    BY <1>1 DEF Ask, Claim, Purge, Download, Verify, Extract, Checkpoint
  <1>2. CASE HandOff \/ Restart \/ Cancelled \/ Fails \/ UpdateCancel
    BY <1>2 DEF HandOff, Restart, Cancelled, Fails, UpdateCancel
  <1>3. CASE UpdaterStep
    BY <1>3 DEF UpdaterStep, StartSwap, Replace, ReplaceFails, SwapDone, RollBack, Relaunch
  <1>4. CASE Quit \/ Launch \/ Publish \/ PowerLoss \/ UNCHANGED vars
    BY <1>4 DEF Quit, Launch, Publish, PowerLoss, vars
  <1> QED
    BY <1>1, <1>2, <1>3, <1>4 DEF Next

\* The cancel event and the worker, the dead app's threads, the swap's origin.
LEMMA PlainStep ==
  TypeOK /\ CancelKept /\ ClosedIsQuiet /\ SwapNamed /\ [Next]_vars
     => CancelKept' /\ ClosedIsQuiet' /\ SwapNamed'
  <1> SUFFICES ASSUME TypeOK, CancelKept, ClosedIsQuiet, SwapNamed, [Next]_vars
               PROVE  CancelKept' /\ ClosedIsQuiet' /\ SwapNamed'
    OBVIOUS
  <1> USE DEF CancelKept, ClosedIsQuiet, SwapNamed, Swapping, TypeOK, At, WorkerGoes,
              AppDies, Idle, PurgeWorkspace, WorkerPc
  <1>1. CASE Ask
    BY <1>1 DEF Ask
  <1>2. CASE Claim
    <2> DEFINE p == CHOOSE p \in asked : TRUE
    <2>1. \/ worker' = worker /\ cancel' = cancel
          \/ worker' = [pc |-> "purge", install |-> p, asked |-> FALSE]
      BY <1>2 DEF Claim
    <2> HIDE DEF p
    <2> QED
      BY <1>2, <2>1 DEF Claim
  <1>3. CASE Purge \/ Download \/ Verify \/ Extract \/ Checkpoint
    BY <1>3 DEF Purge, Download, Verify, Extract, Checkpoint
  <1>4. CASE HandOff
    BY <1>4 DEF HandOff, NoUpdater
  <1>5. CASE Restart
    BY <1>5 DEF Restart
  <1>6. CASE Cancelled \/ Fails
    BY <1>6 DEF Cancelled, Fails
  <1>7. CASE UpdateCancel
    BY <1>7 DEF UpdateCancel
  <1>8. CASE StartSwap
    BY <1>8, InstalledType DEF StartSwap
  <1>9. CASE Replace
    BY <1>9 DEF Replace, PutFile
  <1>10. CASE ReplaceFails
    BY <1>10 DEF ReplaceFails, PutFile, UpdaterGoes
  <1>11. CASE SwapDone \/ RollBack
    BY <1>11 DEF SwapDone, RollBack, UpdaterGoes
  <1>12. CASE Relaunch
    BY <1>12 DEF Relaunch, NoUpdater
  <1>13. CASE Quit \/ Launch \/ Publish \/ UNCHANGED vars
    BY <1>13 DEF Quit, Launch, Publish, vars
  <1>14. CASE PowerLoss
    BY <1>14 DEF PowerLoss, NoUpdater
  <1> QED
    BY <1>1, <1>2, <1>3, <1>4, <1>5, <1>6, <1>7, <1>8, <1>9, <1>10, <1>11, <1>12,
       <1>13, <1>14 DEF Next, UpdaterStep

-----------------------------------------------------------------------------
(* Without a mishap: the payload on its way, and the swap *)

\* What update_apply asks for is an upgrade of the folder as it is, also when
\* the delta's base is newer than the folder and the full build is taken.
LEMMA AskUpgrades ==
  ASSUME TypeOK, NEW a \in Builds, disk = Image[a], NEW m \in Manifests, IsUpdateAvailable(m)
  PROVE  Upgrades(Chosen(m), a)
  <1>1. Current = a
    BY WholeIsRead
  <1>2. /\ m.base \in Builds /\ m.build \in Builds /\ m.base <= m.build /\ a < m.build
        /\ a \in Nat /\ m.base \in Nat /\ m.build \in Nat
    BY <1>1, FilesAssumption DEF Manifests, IsUpdateAvailable, Builds
  <1>3. CASE NeedsFullReinstall(m)
    <2>1. a < m.base /\ Chosen(m) = Payload(m.base, m.base)
      BY <1>1, <1>3 DEF NeedsFullReinstall, Chosen
    <2>2. Brings(Payload(m.base, m.base), a, m.base)
      BY <1>2, PayloadBrings
    <2> QED
      BY <1>2, <2>1, <2>2 DEF Upgrades
  <1>4. CASE ~NeedsFullReinstall(m)
    <2>1. m.base = m.build \/ m.base <= a
      BY <1>1, <1>2, <1>4 DEF NeedsFullReinstall
    <2>2. Chosen(m) = Payload(m.base, m.build)
      BY <1>4 DEF Chosen
    <2>3. Brings(Payload(m.base, m.build), a, m.build)
      BY <1>2, <2>1, PayloadBrings
    <2> QED
      BY <1>2, <2>2, <2>3 DEF Upgrades
  <1> QED
    BY <1>3, <1>4

\* The steps before the swap, and those of the user, the server and the machine.
LEMMA SoundService ==
  ASSUME TypeOK, ClosedIsQuiet, CancelKept, Sound, ~mishap',
         \/ Ask \/ Claim \/ Purge \/ Download \/ Verify \/ Extract \/ Checkpoint
         \/ HandOff \/ Restart \/ Cancelled \/ Fails \/ UpdateCancel
         \/ Quit \/ Launch \/ Publish \/ PowerLoss
  PROVE  Sound'
  <1> USE DEF Sound, Whole, AskedUpgrades, WorkerUpgrades, UpdaterUpgrades, SwapUndoable,
              SwapGoesOn, Swapping, Current, At, WorkerGoes, AppDies, Idle, PurgeWorkspace,
              TypeOK, ClosedIsQuiet, WorkerPc
  <1>1. CASE Ask
    <2>1. PICK a \in Builds : disk = Image[a]
      BY <1>1 DEF Ask
    <2>2. Upgrades(Chosen(published), a)
      BY <1>1, <2>1, AskUpgrades DEF Ask
    <2>3. Current = a
      BY <2>1, WholeIsRead
    <2>4. \A p \in asked' : Upgrades(p, disk'[VersionFile])
      <3>1. asked' = {Chosen(published)} /\ disk' = disk
        BY <1>1 DEF Ask
      <3> QED
        BY <2>2, <2>3, <3>1
    <2>5. UNCHANGED <<disk, app, worker, ws, updater>>
      BY <1>1 DEF Ask
    <2> QED
      BY <2>4, <2>5
  <1>2. CASE Claim
    <2> DEFINE p == CHOOSE p \in asked : TRUE
    <2>1. Upgrades(p, Current)
      BY <1>2 DEF Claim
    <2>2. \/ worker' = worker
          \/ worker.pc = "idle" /\ worker' = [pc |-> "purge", install |-> p, asked |-> FALSE]
      BY <1>2 DEF Claim
    <2> HIDE DEF p
    <2> QED
      BY <1>2, <2>1, <2>2 DEF Claim
  <1>3. CASE Purge
    BY <1>3 DEF Purge
  <1>4. CASE Download
    BY <1>4 DEF Download
  <1>5. CASE Verify
    BY <1>5 DEF Verify
  <1>6. CASE Extract
    BY <1>6 DEF Extract
  <1>7. CASE Checkpoint
    BY <1>7 DEF Checkpoint
  <1>8. CASE HandOff
    BY <1>8 DEF HandOff, NoUpdater
  <1>9. CASE Restart
    BY <1>9 DEF Restart
  <1>10. CASE Cancelled
    BY <1>10 DEF Cancelled
  <1>11. CASE Fails
    BY <1>11 DEF Fails
  <1>12. CASE UpdateCancel
    BY <1>12 DEF UpdateCancel
  <1>13. CASE Quit
    BY <1>13 DEF Quit
  <1>14. CASE Launch
    <2>1. updater.pc \notin {"wait", "swap", "rollback"}
      BY <1>14 DEF Launch
    <2>2. worker.pc = "idle" /\ asked = {}
      BY <1>14 DEF Launch
    <2>3. UNCHANGED <<disk, asked, worker, updater>>
      BY <1>14 DEF Launch
    <2> QED
      BY <2>1, <2>2, <2>3
  <1>15. CASE Publish
    BY <1>15 DEF Publish
  <1>16. CASE PowerLoss
    BY <1>16 DEF PowerLoss, NoUpdater
  <1> QED
    BY <1>1, <1>2, <1>3, <1>4, <1>5, <1>6, <1>7, <1>8, <1>9, <1>10, <1>11, <1>12,
       <1>13, <1>14, <1>15, <1>16

\* Under a closed app nothing but the swap is going on.
LEMMA SwapIsAlone ==
  ASSUME TypeOK, ClosedIsQuiet, app = "closed", UNCHANGED <<app, asked, worker>>
  PROVE  (AskedUpgrades /\ WorkerUpgrades)'
  BY DEF ClosedIsQuiet, AskedUpgrades, WorkerUpgrades, Idle

\* One file of the swap: what was there is in the backup, what is there is the content.
LEMMA PutFileBacksUp ==
  ASSUME TypeOK, SwapUndoable, SwapGoesOn, updater.pc = "swap",
         NEW f \in ToCopy, NEW content \in Builds \union {Gone}, NEW pc \in UpdaterPc,
         PutFile(f, content, pc)
  PROVE  /\ updater'.pc = pc /\ updater'.from = updater.from
         /\ updater'.install = updater.install
         /\ updater'.done = updater.done \union {f}
         /\ ws'.staged = ws.staged
         /\ DOMAIN ws'.backup = DOMAIN ws.backup \union {f}
         /\ \A g \in Files : Image[updater.from][g] = IF g \in DOMAIN ws'.backup
                                                      THEN ws'.backup[g] ELSE disk'[g]
         /\ disk'[f] = content
         /\ \A g \in Files \ {f} : disk'[g] = disk[g]
  <1> DEFINE kept == [g \in DOMAIN ws.backup \union {f} |->
                         IF g = f THEN disk[f] ELSE ws.backup[g]]
  <1>1. disk' = [disk EXCEPT ![f] = content]
    BY DEF PutFile
  <1>2. ws' = [ws EXCEPT !.backup = IF disk[f] = Gone THEN @ ELSE kept]
    BY DEF PutFile
  <1>3. updater' = [updater EXCEPT !.done = @ \union {f}, !.pc = pc,
                        !.copied = IF disk[f] = Gone THEN @ \union {f} ELSE @]
    BY DEF PutFile
  <1>4. f \in Files /\ f \notin updater.done
    BY ToCopyType DEF ToCopy
  <1>5. /\ updater'.pc = pc /\ updater'.from = updater.from
        /\ updater'.install = updater.install /\ updater'.done = updater.done \union {f}
    BY <1>3 DEF TypeOK
  <1>6. disk'[f] = content /\ \A g \in Files \ {f} : disk'[g] = disk[g]
    BY <1>1, <1>4 DEF TypeOK
  <1>7. /\ updater.from \in Builds
        /\ \A g \in Files : Image[updater.from][g] = IF g \in DOMAIN ws.backup
                                                     THEN ws.backup[g] ELSE disk[g]
    BY DEF SwapUndoable, Swapping
  <1>8. f \in DOMAIN ws.backup <=> disk[f] = Gone
    <2>1. f \in DOMAIN ws.backup => disk[f] = Gone
      BY <1>4 DEF SwapGoesOn
    <2>2. f \notin DOMAIN ws.backup => disk[f] = Image[updater.from][f]
      BY <1>4, <1>7
    <2>3. Image[updater.from][f] \in Builds
      BY <1>4, <1>7, ImageType
    <2> QED
      BY <2>1, <2>2, <2>3, FilesAssumption
  <1>9. ws'.staged = ws.staged /\ ws'.backup = IF disk[f] = Gone THEN ws.backup ELSE kept
    BY <1>2 DEF TypeOK
  <1>10. CASE disk[f] = Gone
    <2>1. ws'.backup = ws.backup /\ DOMAIN ws.backup = DOMAIN ws.backup \union {f}
      BY <1>8, <1>9, <1>10
    <2> QED
      BY <1>5, <1>6, <1>7, <1>9, <2>1
  <1>11. CASE disk[f] # Gone
    <2>1. ws'.backup = kept
      BY <1>9, <1>11
    <2>2. DOMAIN ws'.backup = DOMAIN ws.backup \union {f}
      BY <2>1
    <2>3. ASSUME NEW g \in Files
          PROVE  Image[updater.from][g] = IF g \in DOMAIN ws'.backup
                                          THEN ws'.backup[g] ELSE disk'[g]
      <3>1. CASE g = f
        <4>1. ws'.backup[f] = disk[f] /\ f \in DOMAIN ws'.backup
          BY <2>1
        <4> QED
          BY <1>7, <1>8, <1>11, <3>1, <4>1
      <3>2. CASE g # f
        <4>1. g \in DOMAIN ws.backup => ws'.backup[g] = ws.backup[g]
          BY <2>1, <3>2
        <4> QED
          BY <1>6, <1>7, <2>2, <3>2, <4>1
      <3> QED
        BY <3>1, <3>2
    <2> QED
      BY <1>5, <1>6, <1>9, <2>2, <2>3
  <1> QED
    BY <1>10, <1>11

\* When nothing is left to copy the folder is the build the payload makes.
LEMMA SwapMakesBuild ==
  ASSUME TypeOK, UpdaterUpgrades, SwapUndoable, SwapGoesOn, updater.pc = "swap", ToCopy = {}
  PROVE  \E b \in Builds : updater.from < b /\ disk = Image[b]
  <1>1. ws.staged = updater.install
    BY DEF UpdaterUpgrades
  <1>2. PICK b \in Builds : updater.from < b /\ Brings(ws.staged, updater.from, b)
    BY <1>1 DEF SwapGoesOn, Upgrades
  <1>3. DOMAIN ws.staged \subseteq updater.done /\ updater.done \subseteq DOMAIN ws.backup
        /\ DOMAIN ws.backup \subseteq DOMAIN ws.staged
    BY DEF ToCopy, SwapUndoable, SwapGoesOn, Swapping
  <1>4. ASSUME NEW f \in Files PROVE disk[f] = Image[b][f]
    <2>1. CASE f \in DOMAIN ws.staged
      <3>1. disk[f] = ws.staged[f]
        BY <1>3, <2>1 DEF SwapGoesOn
      <3> QED
        BY <1>2, <2>1, <3>1 DEF Brings
    <2>2. CASE f \notin DOMAIN ws.staged
      <3>1. disk[f] = Image[updater.from][f]
        BY <1>3, <2>2 DEF SwapUndoable, Swapping
      <3> QED
        BY <1>2, <2>2, <3>1 DEF Brings
    <2> QED
      BY <2>1, <2>2
  <1>5. disk \in [Files -> Builds \union {Gone}] /\ Image[b] \in [Files -> Builds]
    BY ImageType DEF TypeOK
  <1>6. disk = Image[b]
    BY <1>4, <1>5
  <1> QED
    BY <1>2, <1>6

\* A rollback that puts every file back restores the build the swap began with.
LEMMA RollBackRestores ==
  ASSUME TypeOK, SwapUndoable, updater.pc = "rollback"
  PROVE  updater.from \in Builds /\ [f \in Files |-> Restored(f)] = Image[updater.from]
  <1>1. updater.from \in Builds /\ updater.done \subseteq DOMAIN ws.backup
    BY DEF SwapUndoable, Swapping
  <1>2. \A f \in Files : Restored(f) = Image[updater.from][f]
    BY <1>1 DEF SwapUndoable, Swapping, Restored
  <1>3. Image[updater.from] \in [Files -> Builds]
    BY <1>1, ImageType
  <1>4. Image[updater.from] = [f \in Files |-> Image[updater.from][f]]
    BY <1>3
  <1>5. [f \in Files |-> Restored(f)] = [f \in Files |-> Image[updater.from][f]]
    BY <1>2
  <1> QED
    BY <1>1, <1>4, <1>5

LEMMA SoundUpdater ==
  ASSUME TypeOK, ClosedIsQuiet, Sound, ~mishap', UpdaterStep
  PROVE  Sound'
  <1> USE DEF Sound
  <1>0. mishap \in BOOLEAN
    BY DEF TypeOK
  <1>1. CASE StartSwap
    <2>1. app = "closed" /\ updater.pc = "wait" /\ UNCHANGED <<app, asked, worker>>
      BY <1>0, <1>1 DEF StartSwap, TypeOK
    <2>2. PICK a \in Builds : disk = Image[a]
      BY <2>1 DEF Whole, Swapping
    <2>3. Installed = a /\ Current = a
      BY <2>2, WholeIsRead
    <2>4. /\ ws.staged = updater.install /\ updater.done = {}
          /\ Upgrades(updater.install, a)
      BY <2>1, <2>3 DEF UpdaterUpgrades
    <2>5. updater'.pc = "swap" /\ updater'.from = a /\ updater'.done = {}
          /\ updater'.install = updater.install
      BY <1>1, <2>3, <2>4 DEF StartSwap, TypeOK
    <2>6. ws'.staged = ws.staged /\ ws'.backup = [f \in Stale |-> disk[f]]
      BY <1>1 DEF StartSwap, TypeOK, Restrict
    <2>7. Stale \subseteq Files /\ Stale \subseteq DOMAIN ws.staged
      BY StaleType DEF Stale
    <2>8. \A f \in Files : disk'[f] = IF f \in Stale THEN Gone ELSE disk[f]
      BY <1>1 DEF StartSwap
    <2>9. Whole' /\ UpdaterUpgrades'
      BY <2>1, <2>4, <2>5, <2>6 DEF Whole, UpdaterUpgrades, Swapping, ClosedIsQuiet, Idle
    <2>10. SwapUndoable'
      BY <2>1, <2>2, <2>5, <2>6, <2>7, <2>8 DEF SwapUndoable
    <2>11. SwapGoesOn'
      BY <2>4, <2>5, <2>6, <2>7, <2>8 DEF SwapGoesOn
    <2> QED
      BY <2>1, <2>9, <2>10, <2>11, SwapIsAlone
  <1>2. CASE Replace
    <2>1. updater.pc = "swap" /\ UNCHANGED <<app, asked, worker>>
      BY <1>2 DEF Replace
    <2>2. app = "closed" /\ updater.from \in Builds /\ updater.done \subseteq DOMAIN ws.backup
      BY <2>1 DEF SwapUndoable, Swapping
    <2>3. PICK f \in ToCopy : PutFile(f, ws.staged[f], "swap")
      BY <1>2 DEF Replace
    <2>4. f \in Files /\ f \in DOMAIN ws.staged /\ ws.staged[f] \in Builds \union {Gone}
          /\ f \notin updater.done
      BY ToCopyType DEF ToCopy
    <2>5. /\ updater'.pc = "swap" /\ updater'.from = updater.from
          /\ updater'.install = updater.install /\ updater'.done = updater.done \union {f}
          /\ ws'.staged = ws.staged /\ DOMAIN ws'.backup = DOMAIN ws.backup \union {f}
          /\ \A g \in Files : Image[updater.from][g] = IF g \in DOMAIN ws'.backup
                                                       THEN ws'.backup[g] ELSE disk'[g]
          /\ disk'[f] = ws.staged[f] /\ \A g \in Files \ {f} : disk'[g] = disk[g]
      BY <2>1, <2>3, <2>4, PutFileBacksUp DEF UpdaterPc
    <2>6. Whole' /\ UpdaterUpgrades'
      BY <2>1, <2>5 DEF Whole, UpdaterUpgrades, Swapping
    <2>7. SwapUndoable'
      BY <2>1, <2>2, <2>5 DEF SwapUndoable
    <2>8. SwapGoesOn'
      <3>1. DOMAIN ws.backup \subseteq Files
        BY FilesOfType DEF TypeOK
      <3> QED
        BY <2>1, <2>4, <2>5, <3>1 DEF SwapGoesOn
    <2> QED
      BY <2>1, <2>2, <2>6, <2>7, <2>8, SwapIsAlone
  <1>3. CASE ReplaceFails
    <2>1. updater.pc = "swap" /\ UNCHANGED <<app, asked, worker>>
      BY <1>3 DEF ReplaceFails
    <2>2. app = "closed" /\ updater.from \in Builds /\ updater.done \subseteq DOMAIN ws.backup
      BY <2>1 DEF SwapUndoable, Swapping
    <2>3. /\ updater'.pc = "rollback" /\ SwapUndoable'
      <3>1. CASE \E f \in ToCopy : PutFile(f, Gone, "rollback")
        <4>1. PICK f \in ToCopy : PutFile(f, Gone, "rollback")
          BY <3>1
        <4>2. /\ updater'.pc = "rollback" /\ updater'.from = updater.from
              /\ updater'.done = updater.done \union {f}
              /\ DOMAIN ws'.backup = DOMAIN ws.backup \union {f}
              /\ \A g \in Files : Image[updater.from][g] = IF g \in DOMAIN ws'.backup
                                                           THEN ws'.backup[g] ELSE disk'[g]
          BY <2>1, <4>1, PutFileBacksUp DEF UpdaterPc
        <4> QED
          BY <2>1, <2>2, <4>2 DEF SwapUndoable
      <3>2. CASE UpdaterGoes("rollback") /\ UNCHANGED <<disk, ws>>
        <4>1. updater'.pc = "rollback" /\ updater'.from = updater.from
              /\ updater'.done = updater.done
          BY <3>2 DEF UpdaterGoes, TypeOK
        <4> QED
          BY <2>1, <2>2, <3>2, <4>1 DEF SwapUndoable, Swapping
      <3> QED
        BY <1>3, <3>1, <3>2 DEF ReplaceFails
    <2>4. Whole' /\ UpdaterUpgrades' /\ SwapGoesOn'
      BY <2>1, <2>3 DEF Whole, UpdaterUpgrades, SwapGoesOn, Swapping
    <2> QED
      BY <2>1, <2>2, <2>3, <2>4, SwapIsAlone
  <1>4. CASE SwapDone
    <2>1. updater.pc = "swap" /\ ToCopy = {} /\ UNCHANGED <<app, asked, worker, disk>>
      BY <1>4 DEF SwapDone
    <2>2. app = "closed"
      BY <2>1 DEF SwapUndoable, Swapping
    <2>3. \E b \in Builds : disk' = Image[b]
      BY <2>1, SwapMakesBuild
    <2>4. updater'.pc = "relaunch"
      BY <1>4 DEF SwapDone, UpdaterGoes, TypeOK
    <2>5. Whole' /\ UpdaterUpgrades' /\ SwapUndoable' /\ SwapGoesOn'
      BY <2>3, <2>4 DEF Whole, UpdaterUpgrades, SwapUndoable, SwapGoesOn, Swapping
    <2> QED
      BY <2>1, <2>2, <2>5, SwapIsAlone
  <1>5. CASE RollBack
    <2>1. updater.pc = "rollback" /\ UNCHANGED <<app, asked, worker>>
      BY <1>5 DEF RollBack
    <2>2. app = "closed"
      BY <2>1 DEF SwapUndoable, Swapping
    <2>3. disk' = [f \in Files |-> Restored(f)]
      BY <1>0, <1>5 DEF RollBack
    <2>4. \E b \in Builds : disk' = Image[b]
      BY <2>1, <2>3, RollBackRestores
    <2>5. updater'.pc = "restored"
      BY <1>5 DEF RollBack, UpdaterGoes, TypeOK
    <2>6. Whole' /\ UpdaterUpgrades' /\ SwapUndoable' /\ SwapGoesOn'
      BY <2>4, <2>5 DEF Whole, UpdaterUpgrades, SwapUndoable, SwapGoesOn, Swapping
    <2> QED
      BY <2>1, <2>2, <2>6, SwapIsAlone
  <1>6. CASE Relaunch
    <2>1. /\ updater.pc \in {"relaunch", "restored"} /\ updater'.pc = "none"
          /\ UNCHANGED <<disk, asked, worker>>
      BY <1>6 DEF Relaunch, NoUpdater
    <2>2. worker.pc = "idle"
      BY <1>0, <1>6 DEF Relaunch
    <2> QED
      BY <2>1, <2>2 DEF Whole, AskedUpgrades, WorkerUpgrades, UpdaterUpgrades, SwapUndoable,
                        SwapGoesOn, Swapping, Current
  <1> QED
    BY <1>1, <1>2, <1>3, <1>4, <1>5, <1>6 DEF UpdaterStep

LEMMA IndInvInit == Init => IndInv
  <1> SUFFICES ASSUME Init PROVE IndInv
    OBVIOUS
  <1>1. worker = Idle /\ updater = NoUpdater /\ asked = {} /\ app = "running"
        /\ \E b \in Builds : disk = Image[b]
    BY DEF Init
  <1>2. CancelKept /\ ClosedIsQuiet /\ SwapNamed /\ Sound
    BY <1>1 DEF CancelKept, ClosedIsQuiet, SwapNamed, Sound, Whole, AskedUpgrades,
                WorkerUpgrades, UpdaterUpgrades, SwapUndoable, SwapGoesOn, Swapping,
                Idle, NoUpdater
  <1> QED
    BY <1>2, TypeInit DEF IndInv

LEMMA IndInvStep == IndInv /\ [Next]_vars => IndInv'
  <1> SUFFICES ASSUME IndInv, [Next]_vars PROVE IndInv'
    OBVIOUS
  <1>1. TypeOK' /\ CancelKept' /\ ClosedIsQuiet' /\ SwapNamed'
    BY TypeStep, PlainStep DEF IndInv
  <1>2. ASSUME ~mishap' PROVE Sound'
    <2>1. Sound
      BY <1>2, MishapStays DEF IndInv
    <2>2. CASE UNCHANGED vars
      BY <2>1, <2>2 DEF vars, Sound, Whole, AskedUpgrades, WorkerUpgrades, UpdaterUpgrades,
                        SwapUndoable, SwapGoesOn, Swapping, Current
    <2>3. CASE Next
      BY <1>2, <2>1, <2>3, SoundService, SoundUpdater DEF IndInv, Next
    <2> QED
      BY <2>2, <2>3
  <1> QED
    BY <1>1, <1>2 DEF IndInv

-----------------------------------------------------------------------------
(* Theorems *)

\* The state of app, worker, workspace, updater and folder has its types.
THEOREM TypeCorrect == Spec => []TypeOK
  <1>1. IndInv => TypeOK
    BY DEF IndInv
  <1> QED
    BY <1>1, IndInvInit, IndInvStep, PTL DEF Spec

\* A cancel that comes before the worker's last look at the event keeps the update
\* from being handed over, whatever else happens meanwhile.
THEOREM CancelledIsNotHandedOver == Spec => []CancelHonoured
  <1>1. IndInv => CancelHonoured
    BY DEF IndInv, CancelKept, CancelHonoured
  <1> QED
    BY <1>1, IndInvInit, IndInvStep, PTL DEF Spec

\* From the hand-off to the end of the swap the workspace holds what the updater was
\* promised, unless the workspace is emptied under it or the app still runs.
THEOREM HandOverKept == Spec => []HandedOffIsKept
  <1>1. IndInv => HandedOffIsKept
    BY DEF IndInv, Sound, UpdaterUpgrades, HandedOffIsKept
  <1> QED
    BY <1>1, IndInvInit, IndInvStep, PTL DEF Spec

-----------------------------------------------------------------------------
(* The refinement *)

\* The build an observer is told the folder holds; in the middle of a swap, the old one.
Version == IF Swapping THEN updater.from ELSE Installed

LEMMA VersionType == IndInv => Version \in Builds \union {Torn}
  BY InstalledType DEF IndInv, SwapNamed, Version

\* A step without a mishap keeps the version or raises it.
LEMMA VersionStep ==
  ASSUME IndInv, Next, ~mishap'
  PROVE  \/ Version' = Version
         \/ Version \in Builds /\ Version' \in Builds /\ Version < Version'
  <1>1. TypeOK /\ Sound
    BY MishapStays DEF IndInv
  <1>2. mishap \in BOOLEAN /\ updater.pc \in UpdaterPc
    BY <1>1 DEF TypeOK
  <1>3. ASSUME UNCHANGED disk, ~Swapping, ~Swapping' PROVE Version' = Version
    BY <1>3 DEF Version, Installed
  <1>4. CASE \/ Ask \/ Claim \/ Purge \/ Download \/ Verify \/ Extract \/ Checkpoint
             \/ Restart \/ Cancelled \/ Fails \/ UpdateCancel \/ Quit \/ Launch \/ Publish
    <2>1. UNCHANGED <<disk, updater>>
      BY <1>4 DEF Ask, Claim, Purge, Download, Verify, Extract, Checkpoint, Restart,
                  Cancelled, Fails, UpdateCancel, Quit, Launch, Publish
    <2> QED
      BY <2>1 DEF Version, Installed, Swapping
  <1>5. CASE HandOff
    BY <1>2, <1>3, <1>5 DEF HandOff, NoUpdater, Swapping
  <1>6. CASE PowerLoss
    BY <1>2, <1>3, <1>6 DEF PowerLoss, NoUpdater, Swapping
  <1>7. CASE StartSwap
    <2>1. ~Swapping /\ updater'.pc = "swap" /\ updater'.from = Installed
      BY <1>1, <1>7 DEF StartSwap, Swapping, TypeOK
    <2> QED
      BY <2>1 DEF Version, Swapping
  <1>8. CASE Replace \/ ReplaceFails
    <2>1. updater.pc = "swap" /\ updater'.pc \in {"swap", "rollback"}
          /\ updater'.from = updater.from
      BY <1>1, <1>8 DEF Replace, ReplaceFails, PutFile, UpdaterGoes, TypeOK
    <2> QED
      BY <2>1 DEF Version, Swapping
  <1>9. CASE SwapDone
    <2>1. updater.pc = "swap" /\ updater'.pc = "relaunch" /\ ToCopy = {} /\ UNCHANGED disk
      BY <1>1, <1>9 DEF SwapDone, UpdaterGoes, TypeOK
    <2>2. PICK b \in Builds : updater.from < b /\ disk = Image[b]
      BY <1>1, <2>1, SwapMakesBuild DEF Sound
    <2>3. Installed = b /\ Installed' = Installed
      BY <2>1, <2>2, WholeIsRead DEF Installed
    <2>4. updater.from \in Builds
      BY <1>1, <2>1 DEF Sound, SwapUndoable, Swapping
    <2> QED
      BY <2>1, <2>2, <2>3, <2>4 DEF Version, Swapping
  <1>10. CASE RollBack
    <2>1. updater.pc = "rollback" /\ updater'.pc = "restored"
          /\ disk' = [f \in Files |-> Restored(f)]
      BY <1>1, <1>2, <1>10 DEF RollBack, UpdaterGoes, TypeOK
    <2>2. updater.from \in Builds /\ disk' = Image[updater.from]
      BY <1>1, <2>1, RollBackRestores DEF Sound
    <2>3. \A c \in Builds : Image[updater.from] = Image[c] => c = updater.from
      BY <2>2, VersionIsBuild
    <2>4. Installed' = updater.from
      BY <2>2, <2>3 DEF Installed
    <2> QED
      BY <2>1, <2>4 DEF Version, Swapping
  <1>11. CASE Relaunch
    BY <1>3, <1>11 DEF Relaunch, NoUpdater, Swapping
  <1> QED
    BY <1>4, <1>5, <1>6, <1>7, <1>8, <1>9, <1>10, <1>11 DEF Next, UpdaterStep

\* The update implements the abstract one: the folder is one build, and only a mishap
\* makes it anything but that build or a newer one.
THEOREM UpdateIsOneStep == Spec => OnlyWholeBuilds
  <1>1. Init => OneBuild!Init
    <2> SUFFICES ASSUME Init PROVE OneBuild!Init
      OBVIOUS
    <2>1. PICK b \in Builds : disk = Image[b]
      BY DEF Init
    <2>2. ~Swapping /\ Installed = b /\ mishap = FALSE
      BY <2>1, WholeIsRead DEF Init, NoUpdater, Swapping
    <2> QED
      BY <2>2 DEF OneBuild!Init
  <1>2. IndInv /\ IndInv' /\ [Next]_vars => [OneBuild!Next]_<<Version, mishap>>
    <2> SUFFICES ASSUME IndInv, IndInv', [Next]_vars
                 PROVE  [OneBuild!Next]_<<Version, mishap>>
      OBVIOUS
    <2>1. Version' \in Builds \union {Torn} /\ mishap \in BOOLEAN /\ mishap' \in BOOLEAN
      BY InstalledType DEF IndInv, SwapNamed, Version, Installed, TypeOK
    <2>2. CASE UNCHANGED vars
      BY <2>2 DEF vars, Version, Swapping, Installed
    <2>3. CASE Next /\ mishap'
      BY <2>1, <2>3 DEF OneBuild!Next, OneBuild!Mishap, OneBuild!Damaged, Version
    <2>4. CASE Next /\ ~mishap'
      <3>1. \/ Version' = Version
            \/ Version \in Builds /\ Version' \in Builds /\ Version < Version'
        BY <2>4, VersionStep
      <3>2. mishap' = mishap
        BY <2>1, <2>4, MishapStays DEF IndInv
      <3>3. CASE Version' = Version
        BY <3>2, <3>3
      <3>4. CASE Version \in Builds /\ Version' \in Builds /\ Version < Version'
        <4>1. Version' > Version
          BY <3>4, FilesAssumption DEF Builds
        <4> QED
          BY <3>2, <3>4, <4>1 DEF OneBuild!Next, OneBuild!Upgrade, Version
      <3> QED
        BY <3>1, <3>3, <3>4
    <2> QED
      BY <2>2, <2>3, <2>4
  <1> QED
    BY <1>1, <1>2, IndInvInit, IndInvStep, PTL
    DEF Spec, OnlyWholeBuilds, OneBuild!Spec, Version
=============================================================================
