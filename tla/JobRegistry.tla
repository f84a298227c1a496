----------------------------- MODULE JobRegistry -----------------------------
(***************************************************************************)
(* The job registry of CrateBuilderService: who may touch the music        *)
(* library, the database and the app's own files at the same time.         *)
(*                                                                         *)
(* Four exclusion mechanisms share one lock:                               *)
(*   - `_jobs`, one slot per category, claimed by `_start_job` with a      *)
(*     guard evaluated under the lock and released by the worker thread;   *)
(*   - `_retags`, the right to sweep genre tags after a genre move;        *)
(*   - `_ffmpeg_swapping`, the bundled FFmpeg being replaced;              *)
(*   - the unlocked pre-flights that only word a refusal.                  *)
(* Every call arrives on a thread of its own (an RPC thread, a timer or    *)
(* the scheduler), so a thread is between a pre-flight and a claim for as  *)
(* long as the code between them takes.                                    *)
(***************************************************************************)
EXTENDS Naturals, FiniteSets

CONSTANTS
    Callers,    \* threads that enter the service: RPC threads, schedulers
    Timer,      \* the threading.Timer that retries a deferred FFmpeg swap
    Job,        \* job ids; `_ids` hands out one no live job has
    NoJob,      \* no id: the slot is free
    Packaged    \* a frozen Windows build, the only kind that swaps FFmpeg

ASSUME TimerAssumption == Timer \notin Callers
ASSUME NoJobAssumption == NoJob \notin Job
ASSUME PackagedAssumption == Packaged \in BOOLEAN

VARIABLES
    jobs,       \* `_jobs`: category -> id of the job that holds the slot
    run,        \* per job: what it runs and how far its thread has come
    caller,     \* per thread: where it stands inside the service call
    retags,     \* `_retags`
    sweeps,     \* retag threads that are writing tags
    swapping,   \* `_ffmpeg_swapping`
    swapper,    \* the swap thread is replacing the binaries
    offer,      \* the manifest offers an FFmpeg newer than the one on disk
    retry,      \* `_ffmpeg_retry`: a retry is armed
    closed      \* `_closed`

vars == <<jobs, run, caller, retags, sweeps, swapping, swapper,
          offer, retry, closed>>

slotVars   == <<jobs, run>>
retagVars  == <<retags, sweeps>>
ffmpegVars == <<swapping, swapper, offer, retry, closed>>

-----------------------------------------------------------------------------
Thread == Callers \cup {Timer}

Category         == {"batch", "watchlist", "maintenance", "update"}
DownloadTasks    == {"download", "wl_download"}
\* "rewrite" stands for rebuild, dedupe and cleanup, which no refusal tells
\* apart.
MaintenanceTasks == {"rewrite", "fetch_artwork", "repair_tags"}
\* `_MAINTENANCE_NEEDS_IDLE`: every maintenance job except the tag repair.
NeedsIdle        == MaintenanceTasks \ {"repair_tags"}
Task             == DownloadTasks \cup MaintenanceTasks \cup {"scan", "update"}
NoTask           == "none"
NoRun            == [task |-> NoTask, state |-> "none"]

\* The category a start method passes to `_start_job`.
CategoryOf(t) == CASE t = "download"               -> "batch"
                   [] t \in {"scan", "wl_download"} -> "watchlist"
                   [] t \in MaintenanceTasks        -> "maintenance"
                   [] OTHER                         -> "update"

Held(c) == jobs[c] # NoJob

\* The `_require_idle_*` family: what each kind of start refuses on.
DownloadRefused == Held("update") \/ Held("maintenance") \/ retags > 0
ScanRefused     == Held("update")
LibraryRefused(t) ==
    \/ Held("update")
    \/ t \in NeedsIdle /\ (Held("batch") \/ Held("watchlist"))
    \/ t = "repair_tags" /\ retags > 0
UpdateRefused ==
    \/ Held("batch") \/ Held("watchlist") \/ Held("maintenance")
    \/ retags > 0 \/ swapping

\* Each serves both as the unlocked pre-flight and as `_start_job`'s guard.
Refused(t) ==
    \/ t \in DownloadTasks /\ DownloadRefused
    \/ t = "scan" /\ ScanRefused
    \/ t \in MaintenanceTasks /\ LibraryRefused(t)
    \/ t = "update" /\ UpdateRefused

\* Mutant of Busy: running jobs are not counted.
BusySweepingOnly == retags > 0 \/ swapping

\* `_maybe_update_ffmpeg`: any job, a retag, or a swap already going.
Busy == (\E c \in Category : Held(c)) \/ retags > 0 \/ swapping

Idle == [pc |-> "idle", task |-> NoTask, job |-> NoJob]
At(th, label) == caller[th].pc = label
Goto(th, label) == caller' = [caller EXCEPT ![th] = [Idle EXCEPT !.pc = label]]
Return(th) == caller' = [caller EXCEPT ![th] = Idle]

-----------------------------------------------------------------------------
Init ==
    /\ jobs = [c \in Category |-> NoJob]
    /\ run = [j \in Job |-> NoRun]
    /\ caller = [th \in Thread |-> Idle]
    /\ retags = 0
    /\ sweeps = 0
    /\ swapping = FALSE
    /\ swapper = FALSE
    /\ offer = FALSE
    /\ retry = FALSE
    /\ closed = FALSE

-----------------------------------------------------------------------------
(* Starting and ending a job *)

\* A start method's synchronous pre-flight, read without the lock.  The work
\* between it and `_start_job` (a preview, a manifest fetch) takes any time.
Preflight(th, t) ==
    /\ At(th, "idle")
    /\ ~Refused(t)
    /\ caller' = [caller EXCEPT ![th] =
                     [pc |-> "preflight", task |-> t, job |-> NoJob]]
    /\ UNCHANGED <<slotVars, retagVars, ffmpegVars>>

\* A slot is taken: a fresh id enters `_jobs` and the call goes on to announce.
TakeSlot(th, t) ==
    \E j \in Job :
        /\ run[j] = NoRun
        /\ jobs' = [jobs EXCEPT ![CategoryOf(t)] = j]
        /\ run' = [run EXCEPT ![j] = [task |-> t, state |-> "claimed"]]
        /\ caller' = [caller EXCEPT ![th] =
                         [pc |-> "announce", task |-> NoTask, job |-> j]]

\* Mutants of Claim: the guard is not asked again under the lock; the slot
\* itself is not looked at.
ClaimUnguarded(th) ==
    /\ At(th, "preflight")
    /\ ~Held(CategoryOf(caller[th].task))
    /\ TakeSlot(th, caller[th].task)
    /\ UNCHANGED <<retagVars, ffmpegVars>>
ClaimOverHolder(th) ==
    /\ At(th, "preflight")
    /\ ~Refused(caller[th].task)
    /\ TakeSlot(th, caller[th].task)
    /\ UNCHANGED <<retagVars, ffmpegVars>>

\* `_start_job` under the lock: the slot is free and the guard, asked again,
\* agrees; otherwise the CBError ends the call.
Claim(th) ==
    /\ At(th, "preflight")
    /\ LET t == caller[th].task
       IN  IF Held(CategoryOf(t)) \/ Refused(t)
           THEN Return(th) /\ UNCHANGED slotVars
           ELSE TakeSlot(th, t)
    /\ UNCHANGED <<retagVars, ffmpegVars>>

\* Outside the lock, slot already held: JOB_STARTED goes out and the worker
\* thread starts.
Announce(th) ==
    /\ At(th, "announce")
    /\ run' = [run EXCEPT ![caller[th].job].state = "running"]
    /\ Return(th)
    /\ UNCHANGED <<jobs, retagVars, ffmpegVars>>

\* The target returned or raised: the worker pops its slot under the lock and
\* reports.  The pop names the category only, never the job id.
Release(j) ==
    /\ run[j].state = "running"
    /\ run' = [run EXCEPT ![j] = NoRun]
    /\ jobs' = [jobs EXCEPT ![CategoryOf(run[j].task)] = NoJob]
    /\ UNCHANGED <<caller, retagVars, ffmpegVars>>

-----------------------------------------------------------------------------
(* A genre move: watchlist_edit, _change_genre and _retag *)

\* `watchlist_edit`'s unlocked refusals.  UPDATE_JOB is not among them.
EditPreflight(th) ==
    /\ At(th, "idle")
    /\ retags = 0
    /\ ~Held("batch") /\ ~Held("watchlist") /\ ~Held("maintenance")
    /\ Goto(th, "moving")
    /\ UNCHANGED <<slotVars, retagVars, ffmpegVars>>

\* `_change_genre` ends: the folder and its rows moved and there are tracks
\* to retag, or there is nothing to retag (a collision, a failed or rolled
\* back move, a folder without tracks).
EndMove(th) ==
    /\ At(th, "moving")
    /\ Goto(th, "retag") \/ Return(th)
    /\ UNCHANGED <<slotVars, retagVars, ffmpegVars>>

\* Mutant of ClaimTagWrites: another sweep in progress is not looked at.
ClaimTagWritesAgain(th) ==
    /\ At(th, "retag")
    /\ IF Held("update") \/ Held("maintenance")
       THEN UNCHANGED retagVars
       ELSE retags' = retags + 1 /\ sweeps' = sweeps + 1
    /\ Return(th)
    /\ UNCHANGED <<slotVars, ffmpegVars>>

\* `_retag`: claim_tag_writes under the lock, then the sweep thread.  A
\* refused claim skips the tags; the move stands.
ClaimTagWrites(th) ==
    /\ At(th, "retag")
    /\ IF Held("update") \/ Held("maintenance") \/ retags > 0
       THEN UNCHANGED retagVars
       ELSE /\ retags' = retags + 1
            /\ sweeps' = sweeps + 1
    /\ Return(th)
    /\ UNCHANGED <<slotVars, ffmpegVars>>

\* Mutant of ReleaseTagWrites: the count is released twice, with no floor.
ReleaseTagWritesTwice ==
    /\ sweeps > 0
    /\ sweeps' = sweeps - 1
    /\ retags' = retags - 2
    /\ UNCHANGED <<slotVars, caller, ffmpegVars>>

\* The sweep's finally: release_tag_writes.
ReleaseTagWrites ==
    /\ sweeps > 0
    /\ sweeps' = sweeps - 1
    /\ retags' = IF retags > 0 THEN retags - 1 ELSE 0
    /\ UNCHANGED <<slotVars, caller, ffmpegVars>>

-----------------------------------------------------------------------------
(* The bundled FFmpeg: _maybe_update_ffmpeg, _ffmpeg_swap and the retry *)

\* An update check reaches _maybe_update_ffmpeg: an offer goes on to the locked
\* decision, nothing to install to disarming the retry.
FfmpegCheck(th) ==
    /\ Packaged
    /\ At(th, "idle")
    /\ Goto(th, IF offer THEN "decide" ELSE "disarm")
    /\ UNCHANGED <<slotVars, retagVars, ffmpegVars>>

\* `_cancel_ffmpeg_retry`, on what the check had read by then.
FfmpegDisarm(th) ==
    /\ At(th, "disarm")
    /\ retry' = FALSE
    /\ Return(th)
    /\ UNCHANGED <<slotVars, retagVars, swapping, swapper, offer, closed>>

\* Under the lock: closed, busy, or the swap is this thread's to start.
FfmpegDecide(th) ==
    /\ At(th, "decide")
    /\ \/ closed /\ Return(th) /\ UNCHANGED swapping
       \/ ~closed /\ Busy /\ Goto(th, "defer") /\ UNCHANGED swapping
       \/ ~closed /\ ~Busy /\ swapping' = TRUE /\ Goto(th, "swap")
    /\ UNCHANGED <<slotVars, retagVars, swapper, offer, retry, closed>>

\* Mutants of FfmpegDefer: armed without reading `_closed`; never armed.
FfmpegDeferPastClose(th) ==
    /\ At(th, "defer")
    /\ retry' = TRUE
    /\ Return(th)
    /\ UNCHANGED <<slotVars, retagVars, swapping, swapper, offer, closed>>
FfmpegDeferForgotten(th) ==
    /\ At(th, "defer")
    /\ Return(th)
    /\ UNCHANGED <<slotVars, retagVars, ffmpegVars>>

\* `_arm_ffmpeg_retry`.
FfmpegDefer(th) ==
    /\ At(th, "defer")
    /\ retry' = (retry \/ ~closed)
    /\ Return(th)
    /\ UNCHANGED <<slotVars, retagVars, swapping, swapper, offer, closed>>

\* Out of the lock again: the retry is cancelled and the swap thread starts.
FfmpegSwapStart(th) ==
    /\ At(th, "swap")
    /\ retry' = FALSE
    /\ swapper' = TRUE
    /\ Return(th)
    /\ UNCHANGED <<slotVars, retagVars, swapping, offer, closed>>

\* `_ffmpeg_swap` ends: the new binaries are in, or any failure rolled back.
FfmpegSwapEnd ==
    /\ swapper
    /\ swapper' = FALSE
    /\ swapping' = FALSE
    /\ offer' \in {FALSE, offer}
    /\ UNCHANGED <<slotVars, caller, retagVars, retry, closed>>

\* `_ffmpeg_retry_fire` on the timer's thread: the slot is cleared and the
\* decision is made afresh.
FfmpegRetryFire ==
    /\ retry
    /\ At(Timer, "idle")
    /\ retry' = FALSE
    /\ Goto(Timer, IF offer THEN "decide" ELSE "disarm")
    /\ UNCHANGED <<slotVars, retagVars, swapping, swapper, offer, closed>>

\* The update channel publishes an FFmpeg this install does not have.
NewOffer ==
    /\ Packaged
    /\ ~offer
    /\ offer' = TRUE
    /\ UNCHANGED <<slotVars, caller, retagVars, swapping, swapper, retry, closed>>

\* `close()`: no timer outlives it.
Close ==
    /\ ~closed
    /\ closed' = TRUE
    /\ retry' = FALSE
    /\ UNCHANGED <<slotVars, caller, retagVars, swapping, swapper, offer>>

-----------------------------------------------------------------------------
Call(th) ==
    \/ \E t \in Task : Preflight(th, t)
    \/ Claim(th)
    \/ Announce(th)
    \/ EditPreflight(th)
    \/ EndMove(th)
    \/ ClaimTagWrites(th)

Ffmpeg(th) ==
    \/ FfmpegDisarm(th)
    \/ FfmpegDecide(th)
    \/ FfmpegDefer(th)
    \/ FfmpegSwapStart(th)

Next ==
    \/ \E th \in Callers : Call(th) \/ FfmpegCheck(th)
    \/ \E th \in Thread : Ffmpeg(th)
    \/ \E j \in Job : Release(j)
    \/ ReleaseTagWrites
    \/ FfmpegSwapEnd
    \/ FfmpegRetryFire
    \/ NewOffer
    \/ Close

\* A thread inside the service keeps running, a sweep and a swap end, an armed
\* timer fires.  A job's target need not end (a paused batch waits for its
\* user), so Release is not fair.
Fairness ==
    /\ \A th \in Callers : WF_vars(Claim(th)) /\ WF_vars(Announce(th))
                           /\ WF_vars(EndMove(th)) /\ WF_vars(ClaimTagWrites(th))
    /\ \A th \in Thread : WF_vars(Ffmpeg(th))
    /\ WF_vars(ReleaseTagWrites)
    /\ WF_vars(FfmpegSwapEnd)
    /\ WF_vars(FfmpegRetryFire)

Spec == Init /\ [][Next]_vars
FairSpec == Spec /\ Fairness

-----------------------------------------------------------------------------
(* Properties *)

RunState == {"none", "claimed", "running"}
Label    == {"idle", "preflight", "announce", "moving", "retag", "decide",
             "defer", "swap", "disarm"}

\* The type invariant.
TypeOK ==
    /\ jobs \in [Category -> Job \cup {NoJob}]
    /\ run \in [Job -> [task : Task \cup {NoTask}, state : RunState]]
    /\ caller \in [Thread -> [pc : Label, task : Task \cup {NoTask},
                              job : Job \cup {NoJob}]]
    /\ retags \in Nat
    /\ sweeps \in Nat
    /\ swapping \in BOOLEAN
    /\ swapper \in BOOLEAN
    /\ offer \in BOOLEAN
    /\ retry \in BOOLEAN
    /\ closed \in BOOLEAN

\* A job is live from the claim of its slot until its thread pops it.
Live(j) == run[j].state \in {"claimed", "running"}
LiveTask(t) == \E j \in Job : Live(j) /\ run[j].task = t

\* Slots and threads agree: a slot names a live job of its own category, and
\* every live job holds its category's slot.  A slot is never leaked (nothing
\* of that category could start again) and never given to two threads.
SlotsMatchThreads ==
    /\ \A c \in Category : Held(c) =>
          Live(jobs[c]) /\ CategoryOf(run[jobs[c]].task) = c
    /\ \A j \in Job : Live(j) => jobs[CategoryOf(run[j].task)] = j

\* What an update, a library rewrite and a download may never do together,
\* whatever the order their calls, claims and endings interleave in: an update
\* runs alone, and no download runs during a task that rewrites the downloads
\* table.
JobExclusion ==
    \A i, j \in Job : i # j /\ Live(i) /\ Live(j) =>
        /\ CategoryOf(run[i].task) # CategoryOf(run[j].task)
        /\ run[i].task # "update"
        /\ run[i].task \in NeedsIdle => run[j].task \notin DownloadTasks

\* Genre-tag sweeps: `_retags` counts the threads that are writing (no claim
\* is leaked or released twice), one at a time, and never beside an update or
\* a Repair Track Tags run.
SweepExclusion ==
    /\ retags = sweeps
    /\ sweeps <= 1
    /\ sweeps > 0 => ~LiveTask("update") /\ ~LiveTask("repair_tags")

\* The FFmpeg binaries are never replaced while an update is installing, and
\* only one thread ever replaces them.
SwapExclusion ==
    /\ swapping => ~LiveTask("update")
    /\ swapper => swapping
    /\ \A a, b \in Thread : At(a, "swap") /\ At(b, "swap") => a = b
    /\ \A a \in Thread : At(a, "swap") => swapping /\ ~swapper

\* After close() no FFmpeg retry stays armed: a thread still inside the check
\* cannot resurrect the timer.
NoRetryAfterClose == closed => ~retry

\* A deferred FFmpeg swap is not forgotten: if the app stays open and quiet,
\* every deferral is followed by a swap, unless the offer goes away.  A check
\* that read the manifest before the offer and has still to disarm is excepted.
Quiet == (\A c \in Category : ~Held(c)) /\ retags = 0
Deferred == \E th \in Thread : At(th, "defer")
Disarming == \E th \in Thread : At(th, "disarm")
DeferredSwapRuns ==
    <>[](Quiet /\ ~closed) => (Deferred /\ ~Disarming ~> (swapper \/ ~offer))

-----------------------------------------------------------------------------
(* What the source says of the registry and the code does not keep *)

\* service.py:1807-1812: a genre change is refused while either download
\* category is running, since a download holds a save_dir the move strands.
NoDownloadDuringMove ==
    (\E th \in Callers : At(th, "moving")) => \A t \in DownloadTasks : ~LiveTask(t)
=============================================================================
