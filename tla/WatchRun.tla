------------------------------ MODULE WatchRun ------------------------------
(***************************************************************************)
(* The Watch List's runs: WatchlistOps.run_scan and run_download on the    *)
(* "watchlist" job's thread, against the calls that start them, join them  *)
(* (enqueue) and cancel them, and against a crash of the process.          *)
(*                                                                         *)
(* Memory (the slot, the mode, the queue, the cancel flags, the active     *)
(* runner) dies with the process; the rows' status and pending tracks are  *)
(* in the database.  Database writes succeed here: a failed write is       *)
(* logged and swallowed by db.py.  The inner BatchRunner is the loop of    *)
(* run_tracks that BatchRun models in full.                                *)
(***************************************************************************)
EXTENDS Naturals, Sequences, SequencesExt, FiniteSets

CONSTANTS
    Callers,      \* threads a service call arrives on
    Channel,      \* watchlist row ids
    NoChannel,    \* None
    Links,        \* what the rows' stored links may be to begin with
    MaxNew        \* bound: pending tracks of a channel, tracks of a listing

ASSUME LinksAssumption == Links \subseteq {"live", "dead", "none"}
ASSUME ChannelAssumption == IsFiniteSet(Channel) /\ NoChannel \notin Channel
ASSUME MaxNewAssumption == MaxNew \in Nat \ {0}

VARIABLES
    \* in the database
    status,     \* row -> status; "idle" stands for idle, found, error and
                \* offline, which no step here tells apart
    link,       \* row -> its stored link: live, dead (a 404), or none usable
    pending,    \* row -> pending_new_count
    \* in memory
    slot,       \* the "watchlist" category is in `_jobs`
    mode,       \* `_mode`: the kind of run that is open, or "none"
    queue,      \* `_queue`: the download run's channels and their modes
    cancelAll,  \* `_cancel_all`
    cancelCids, \* `_cancel_cids`
    runner,     \* `_active_cid`: the channel whose BatchRunner is registered
    runnerStop, \* that BatchRunner's `_cancel`
    caller,     \* thread -> where it stands inside a service call
    run,        \* the job's thread
    \* history
    due,        \* row -> tracks a scan found that nothing has settled since
    joined,     \* row -> its join: "ahead" of the loop, "behind" it, or "no"
    waived,     \* channels cancelled while they waited in this run
    late        \* tracks settled after cancel_all had answered

memory  == <<mode, queue, cancelAll, cancelCids, runner, runnerStop>>
history == <<due, joined, waived, late>>
rows    == <<status, link, pending>>
vars == <<rows, slot, memory, caller, run, history>>

-----------------------------------------------------------------------------
Idle == [pc |-> "idle", kind |-> "none", cids |-> <<>>, force |-> FALSE]
Off  == [pc |-> "off", kind |-> "none", cids |-> <<>>, force |-> FALSE,
         index |-> 1, cur |-> NoChannel, link |-> "none", left |-> 0, erred |-> FALSE,
         stopped |-> FALSE]

At(k, label) == caller[k].pc = label
Return(k)    == caller' = [caller EXCEPT ![k] = Idle]
\* The call goes on to `_start_job` with a run of this kind.
Ask(k, label, kind, cids, force) ==
    caller' = [caller EXCEPT ![k] =
                  [pc |-> label, kind |-> kind, cids |-> cids, force |-> force]]

NotJoined == [cid \in Channel |-> "no"]
\* is_unresolved_channel.
Unresolved(cid) == status[cid] = "needs_resolve" \/ link[cid] = "none"
\* Mutant of IsCancelled: only a cancel of the whole run counts.
IsCancelledAllOnly(cid) == cancelAll
IsCancelled(cid) == cancelAll \/ cid \in cancelCids
Entry(cid, force) == [cid |-> cid, force |-> force]
Queued(cid) == \E i \in 1 .. Len(queue) : queue[i].cid = cid
Ahead(cid)  == \E i \in run.index .. Len(queue) : queue[i].cid = cid

Init ==
    /\ status = [cid \in Channel |-> "idle"]
    /\ link \in [Channel -> Links]
    /\ pending = [cid \in Channel |-> 0]
    /\ slot = FALSE
    /\ mode = "none"
    /\ queue = <<>>
    /\ cancelAll = FALSE
    /\ cancelCids = {}
    /\ runner = NoChannel
    /\ runnerStop = FALSE
    /\ caller = [k \in Callers |-> Idle]
    /\ run = Off
    /\ due = [cid \in Channel |-> 0]
    /\ joined = NotJoined
    /\ waived = {}
    /\ late = 0

-----------------------------------------------------------------------------
(* The service's calls *)

\* watchlist_scan and watchlist_scan_all.
Scan(k) ==
    /\ At(k, "idle")
    /\ \E cids \in SetToSeqs(Channel) \cup {<<cid>> : cid \in Channel} :
          Ask(k, "claim", "scan", cids, FALSE)
    /\ UNCHANGED <<rows, slot, memory, run, history>>

\* watchlist_download_new: a taken slot may be a download run to join.
DownloadNew(k) ==
    /\ At(k, "idle")
    /\ \E cid \in Channel :
          Ask(k, IF slot THEN "enqueue" ELSE "claim", "download", <<cid>>, FALSE)
    /\ UNCHANGED <<rows, slot, memory, run, history>>

\* watchlist_download_all_new.
DownloadAllNew(k) ==
    /\ At(k, "idle")
    /\ LET new == {cid \in Channel : pending[cid] > 0} IN
          /\ new # {}
          /\ \E cids \in SetToSeqs(new) : Ask(k, "claim", "download", cids, FALSE)
    /\ UNCHANGED <<rows, slot, memory, run, history>>

\* watchlist_force_download.
ForceDownload(k) ==
    /\ At(k, "idle")
    /\ \E cid \in Channel :
          ~Unresolved(cid) /\ Ask(k, "claim", "download", <<cid>>, TRUE)
    /\ UNCHANGED <<rows, slot, memory, run, history>>

\* Mutant of Enqueue: the queue is not searched first.
EnqueueAgain(k) ==
    /\ At(k, "enqueue")
    /\ IF mode # "download"
       THEN caller' = [caller EXCEPT ![k].pc = "claim"] /\ UNCHANGED queue
       ELSE queue' = Append(queue, Entry(caller[k].cids[1], FALSE)) /\ Return(k)
    /\ UNCHANGED <<rows, slot, mode, cancelAll, cancelCids, runner,
                   runnerStop, run, history>>

\* enqueue, under the lock: no download run to join, already queued (its
\* position is the answer), or appended.
Enqueue(k) ==
    /\ At(k, "enqueue")
    /\ LET cid == caller[k].cids[1] IN
       IF mode # "download"
       THEN /\ caller' = [caller EXCEPT ![k].pc = "claim"]
            /\ UNCHANGED <<queue, joined>>
       ELSE /\ queue' = IF Queued(cid) THEN queue ELSE Append(queue, Entry(cid, FALSE))
            /\ joined' = [joined EXCEPT ![cid] =
                              IF run.pc # "ending" /\ (Ahead(cid) \/ ~Queued(cid))
                              THEN "ahead" ELSE "behind"]
            /\ Return(k)
    /\ UNCHANGED <<rows, slot, mode, cancelAll, cancelCids, runner,
                   runnerStop, run, due, waived, late>>

\* `_start_job`: the slot, or "already running".
Claim(k) ==
    /\ At(k, "claim")
    /\ IF slot THEN UNCHANGED <<slot, run>>
       ELSE /\ slot' = TRUE
            /\ run' = [Off EXCEPT !.pc = "begin", !.kind = caller[k].kind,
                          !.cids = caller[k].cids, !.force = caller[k].force]
    /\ Return(k)
    /\ UNCHANGED <<rows, memory, history>>

\* cancel: the request is kept for the loop, and the runner is told if the
\* channel is the one downloading.
Cancel(k) ==
    /\ At(k, "idle")
    /\ \E cid \in Channel :
          /\ cancelCids' = cancelCids \cup {cid}
          /\ waived' = IF mode = "download" /\ Ahead(cid)
                       THEN waived \cup {cid} ELSE waived
          /\ caller' = IF runner = cid
                       THEN [caller EXCEPT ![k].pc = "stop"] ELSE caller
    /\ UNCHANGED <<rows, slot, mode, queue, cancelAll, runner,
                   runnerStop, run, due, joined, late>>

\* cancel_all: the event first, then the runner is looked up under the lock.
CancelAll(k) ==
    /\ At(k, "idle")
    /\ cancelAll' = TRUE
    /\ caller' = [caller EXCEPT ![k].pc = "find"]
    /\ UNCHANGED <<rows, slot, mode, queue, cancelCids, runner,
                   runnerStop, run, history>>

FindRunner(k) ==
    /\ At(k, "find")
    /\ caller' = [caller EXCEPT ![k].pc = IF runner = NoChannel THEN "idle" ELSE "stop"]
    /\ UNCHANGED <<rows, slot, memory, run, history>>

StopRunner(k) ==
    /\ At(k, "stop")
    /\ runnerStop' = TRUE
    /\ Return(k)
    /\ UNCHANGED <<rows, slot, mode, queue, cancelAll, cancelCids,
                   runner, run, history>>

\* Fix Link and a link edit (_apply_url, _persist_resolved): allowed at any
\* time, a run on the row included.  The link is saved and the row goes back to
\* idle, or the save is refused as a duplicate and the row says "error".
SetLink(k) ==
    /\ At(k, "idle")
    /\ \E cid \in Channel :
          /\ link' \in {link, [link EXCEPT ![cid] = "live"]}
          /\ status' = [status EXCEPT ![cid] = "idle"]
    /\ UNCHANGED <<pending, slot, memory, caller, run, history>>

-----------------------------------------------------------------------------
(* The job's thread *)

Goto(label) == run' = [run EXCEPT !.pc = label]
NextChannel == run' = [Off EXCEPT !.pc = "next", !.kind = run.kind,
                          !.cids = run.cids, !.index = run.index]
SetStatus(s) == status' = [status EXCEPT ![run.cur] = s] /\ UNCHANGED link


\* `_begin`: stale cancels dropped, the queue seeded with the mode.
Begin ==
    /\ run.pc = "begin"
    /\ cancelAll' = FALSE
    /\ cancelCids' = {}
    /\ mode' = run.kind
    /\ queue' = IF run.kind = "scan" THEN <<>>
                ELSE [i \in 1 .. Len(run.cids) |-> Entry(run.cids[i], run.force)]
    /\ Goto("next")
    /\ UNCHANGED <<rows, slot, runner, runnerStop, caller, history>>

\* run_scan's loop.
ScanNext ==
    /\ run.pc = "next" /\ run.kind = "scan"
    /\ IF cancelAll \/ run.index > Len(run.cids) THEN Goto("ending")
       ELSE run' = [run EXCEPT !.pc = "scan", !.cur = run.cids[run.index],
                               !.index = @ + 1]
    /\ UNCHANGED <<rows, slot, memory, caller, history>>

\* `_scan_channel` before the listing.
ScanChannel ==
    /\ run.pc = "scan"
    /\ \/ Unresolved(run.cur) /\ SetStatus("needs_resolve") /\ NextChannel
       \/ /\ ~Unresolved(run.cur)
          /\ IsCancelled(run.cur)
          /\ SetStatus("idle") /\ NextChannel
       \/ /\ ~Unresolved(run.cur)
          /\ ~IsCancelled(run.cur)
          /\ SetStatus("scanning")
          /\ run' = [run EXCEPT !.pc = "listing", !.link = link[run.cur]]
    /\ UNCHANGED <<pending, slot, memory, caller, history>>

\* A cancel kills the listing, or is seen right after it.
ScanCancelled ==
    /\ run.pc \in {"listing", "listed"}
    /\ IsCancelled(run.cur)
    /\ SetStatus("idle") /\ NextChannel
    /\ UNCHANGED <<pending, slot, memory, caller, history>>

\* `_scan_failed`: a 404 of the link that was listed drops the pending tracks
\* with it, any other failure leaves them.
ScanFailed ==
    /\ run.pc = "listing"
    /\ \/ /\ run.link = "dead"
          /\ SetStatus("needs_resolve")
          /\ pending' = [pending EXCEPT ![run.cur] = 0]
          /\ due' = [due EXCEPT ![run.cur] = 0]
       \/ SetStatus("idle") /\ UNCHANGED <<pending, due>>
    /\ NextChannel
    /\ UNCHANGED <<slot, memory, caller, joined, waived, late>>

ScanListed ==
    /\ run.pc = "listing" /\ run.link = "live"
    /\ Goto("listed")
    /\ UNCHANGED <<rows, slot, memory, caller, history>>

\* Classified and written in one update.
ScanResult ==
    /\ run.pc = "listed"
    /\ ~IsCancelled(run.cur)
    /\ \E n \in 0 .. MaxNew :
          /\ SetStatus("idle")
          /\ pending' = [pending EXCEPT ![run.cur] = n]
          /\ due' = [due EXCEPT ![run.cur] = n]
    /\ NextChannel
    /\ UNCHANGED <<slot, memory, caller, joined, waived, late>>

\* Anything else that raises after the listing is run_scan's to catch.
ScanRaised ==
    /\ run.pc = "listed"
    /\ NextChannel
    /\ UNCHANGED <<rows, slot, memory, caller, history>>

\* Mutants of DownloadNext: only the channels the run was started with are
\* walked; a channel with nothing to fetch is looked at again.
DownloadNextSnapshot ==
    /\ run.pc = "next" /\ run.kind = "download"
    /\ IF cancelAll \/ run.index > Len(run.cids) THEN Goto("ending")
       ELSE run' = [run EXCEPT !.pc = "channel", !.cur = run.cids[run.index],
                               !.index = @ + 1]
    /\ UNCHANGED <<rows, slot, memory, caller, history>>
DownloadNextAgain ==
    /\ run.pc = "next" /\ run.kind = "download"
    /\ IF cancelAll \/ run.index > Len(queue) THEN Goto("ending")
       ELSE run' = [run EXCEPT !.pc = "channel", !.cur = queue[run.index].cid]
    /\ UNCHANGED <<rows, slot, memory, caller, history>>

\* run_download's loop, under the lock.
DownloadNext ==
    /\ run.pc = "next" /\ run.kind = "download"
    /\ IF cancelAll \/ run.index > Len(queue)
       THEN Goto("ending") /\ UNCHANGED joined
       ELSE LET entry == queue[run.index]
            IN  /\ run' = [run EXCEPT !.pc = "channel", !.cur = entry.cid,
                              !.force = entry.force, !.index = @ + 1]
                /\ joined' = [joined EXCEPT ![entry.cid] = "no"]
    /\ UNCHANGED <<rows, slot, memory, caller, due, waived, late>>

\* `_download_channel` up to where its track list is known.
DownloadSkipped ==
    /\ run.pc = "channel"
    /\ IsCancelled(run.cur) \/ Unresolved(run.cur)
       \/ (~run.force /\ pending[run.cur] = 0)
    /\ NextChannel
    /\ UNCHANGED <<rows, slot, memory, caller, history>>

StartTracks(n) ==
    /\ SetStatus("downloading")
    /\ run' = [run EXCEPT !.pc = "register", !.left = n]

DownloadPending ==
    /\ run.pc = "channel"
    /\ ~IsCancelled(run.cur) /\ ~Unresolved(run.cur)
    /\ ~run.force /\ pending[run.cur] > 0
    /\ StartTracks(pending[run.cur])
    /\ UNCHANGED <<pending, slot, memory, caller, history>>

\* A forced channel is listed first, in the killable worker.
ForceList ==
    /\ run.pc = "channel"
    /\ ~IsCancelled(run.cur) /\ ~Unresolved(run.cur)
    /\ run.force
    /\ run' = [run EXCEPT !.pc = "force_listing", !.link = link[run.cur]]
    /\ UNCHANGED <<rows, slot, memory, caller, history>>

ForceListed ==
    /\ run.pc = "force_listing"
    /\ \/ NextChannel /\ UNCHANGED <<status, link>>   \* cancelled, failed or empty
       \/ run.link = "live" /\ \E n \in 1 .. MaxNew : StartTracks(n)
    /\ UNCHANGED <<pending, slot, memory, caller, history>>

\* The channel's BatchRunner becomes the one a cancel reaches.
RegisterRunner ==
    /\ run.pc = "register"
    /\ runner' = run.cur
    /\ runnerStop' = FALSE
    /\ Goto("tracks")
    /\ UNCHANGED <<rows, slot, mode, queue, cancelAll, cancelCids,
                   caller, history>>

\* run_tracks: cancel is looked at before each track.
NextTrack ==
    /\ run.pc = "tracks"
    /\ run' = IF run.left = 0 THEN [run EXCEPT !.pc = "close"]
              ELSE IF runnerStop THEN [run EXCEPT !.pc = "close", !.stopped = TRUE]
              ELSE [run EXCEPT !.pc = "fetch"]
    /\ UNCHANGED <<rows, slot, memory, caller, history>>

\* cancel_all has answered when no thread is still inside it.
CancelAllAnswered == cancelAll /\ \A k \in Callers : ~At(k, "find") /\ ~At(k, "stop")

\* A track settles: obtained (or rightly skipped), or failed.
TrackSettled ==
    /\ run.pc = "fetch"
    /\ \/ /\ run' = [run EXCEPT !.pc = "tracks", !.left = @ - 1]
          /\ due' = IF run.force \/ due[run.cur] = 0 THEN due
                    ELSE [due EXCEPT ![run.cur] = @ - 1]
       \/ /\ run' = [run EXCEPT !.pc = "tracks", !.left = @ - 1, !.erred = TRUE]
          /\ UNCHANGED due
    /\ late' = IF CancelAllAnswered THEN late + 1 ELSE late
    /\ UNCHANGED <<rows, slot, memory, caller, joined, waived>>

TrackInterrupted ==
    /\ run.pc = "fetch"
    /\ runnerStop
    /\ run' = [run EXCEPT !.pc = "close", !.stopped = TRUE]
    /\ UNCHANGED <<rows, slot, memory, caller, history>>

\* The finally of `_download_channel`; a cancel still on its way to this runner
\* will find it finished.
Unregister ==
    /\ runner' = NoChannel
    /\ runnerStop' = FALSE
    /\ caller' = [k \in Callers |-> IF At(k, "stop") THEN Idle ELSE caller[k]]
    /\ UNCHANGED <<mode, queue, cancelAll, cancelCids>>

\* run_tracks raised: the row goes back to idle and the loop carries on.
TracksRaised ==
    /\ run.pc \in {"tracks", "fetch"}
    /\ SetStatus("idle")
    /\ Unregister
    /\ NextChannel
    /\ UNCHANGED <<pending, slot, history>>

CloseChannel ==
    /\ run.pc = "close"
    /\ Unregister
    /\ Goto("book")
    /\ UNCHANGED <<rows, slot, history>>

\* Mutant of BookPending: a stopped channel's pending tracks are cleared too.
BookPendingStopped ==
    /\ run.pc = "book"
    /\ pending' = IF run.force \/ run.erred THEN pending
                  ELSE [pending EXCEPT ![run.cur] = 0]
    /\ Goto("idle_row")
    /\ UNCHANGED <<status, link, slot, memory, caller, history>>

\* Pending is cleared only when the whole list got through without a failure.
BookPending ==
    /\ run.pc = "book"
    /\ pending' = IF run.force \/ run.stopped \/ run.erred THEN pending
                  ELSE [pending EXCEPT ![run.cur] = 0]
    /\ Goto("idle_row")
    /\ UNCHANGED <<status, link, slot, memory, caller, history>>

IdleRow ==
    /\ run.pc = "idle_row"
    /\ SetStatus("idle")
    /\ NextChannel
    /\ UNCHANGED <<pending, slot, memory, caller, history>>

\* `_end` closes the run to joins (the list it leaves behind is not read again:
\* the model lets go of it here) ...
End ==
    /\ run.pc = "ending"
    /\ mode' = "none"
    /\ queue' = <<>>
    /\ Goto("release")
    /\ UNCHANGED <<rows, slot, cancelAll, cancelCids, runner,
                   runnerStop, caller, history>>

\* Mutant of Release: the slot is not popped.
ReleaseLeaked ==
    /\ run.pc = "release"
    /\ run' = Off
    /\ UNCHANGED <<rows, slot, memory, caller, history>>

\* ... and the job's thread pops the slot.
Release ==
    /\ run.pc = "release"
    /\ slot' = FALSE
    /\ run' = Off
    /\ joined' = NotJoined /\ waived' = {} /\ late' = 0
    /\ UNCHANGED <<rows, memory, caller, due>>

-----------------------------------------------------------------------------
Volatile ==
    /\ slot' = FALSE
    /\ mode' = "none"
    /\ queue' = <<>>
    /\ cancelAll' = FALSE
    /\ cancelCids' = {}
    /\ runner' = NoChannel
    /\ runnerStop' = FALSE
    /\ caller' = [k \in Callers |-> Idle]
    /\ run' = Off
    /\ joined' = NotJoined /\ waived' = {} /\ late' = 0
    /\ UNCHANGED <<link, pending, due>>

\* Mutant of CrashAndRestart: nothing recovers the rows.
CrashWithoutReset == Volatile /\ UNCHANGED status

\* The process dies and a new service is built: reset_stale_watchlist_rows.
CrashAndRestart ==
    /\ Volatile
    /\ status' = [cid \in Channel |->
                     IF status[cid] \in {"scanning", "downloading"} THEN "idle"
                     ELSE status[cid]]

-----------------------------------------------------------------------------
Call(k) ==
    \/ Scan(k) \/ DownloadNew(k) \/ DownloadAllNew(k) \/ ForceDownload(k)
    \/ Enqueue(k) \/ Claim(k)
    \/ Cancel(k) \/ CancelAll(k) \/ FindRunner(k) \/ StopRunner(k)
    \/ SetLink(k)

Job ==
    \/ Begin
    \/ ScanNext \/ ScanChannel \/ ScanCancelled \/ ScanFailed \/ ScanListed
    \/ ScanResult
    \/ DownloadNext \/ DownloadSkipped \/ DownloadPending
    \/ ForceList \/ ForceListed
    \/ RegisterRunner \/ NextTrack \/ TrackSettled \/ TrackInterrupted
    \/ CloseChannel \/ BookPending \/ IdleRow
    \/ End \/ Release

Raise == ScanRaised \/ TracksRaised

Next == Job \/ Raise \/ CrashAndRestart \/ \E k \in Callers : Call(k)

\* The job's thread keeps running, without a raise: every listing has a timeout,
\* every track an end.
Fairness == WF_vars(Job)

Spec == Init /\ [][Next]_vars
FairSpec == Spec /\ Fairness

\* No step tells one channel from another, for TLC's SYMMETRY in runs without liveness.
ChannelSymmetry == Permutations(Channel)

-----------------------------------------------------------------------------
(* Properties *)

Status == {"idle", "scanning", "downloading", "needs_resolve"}

CallPc == {"idle", "claim", "enqueue", "find", "stop"}
RunPc == {"off", "begin", "next", "scan", "listing", "listed", "channel",
          "force_listing", "register", "tracks", "fetch", "close", "book",
          "idle_row", "ending", "release"}
Kind == {"none", "scan", "download"}
Link == {"live", "dead", "none"}
EntryType == [cid : Channel, force : BOOLEAN]
CallType == [pc : CallPc, kind : Kind, cids : Seq(Channel), force : BOOLEAN]
RunType == [pc : RunPc, kind : Kind, cids : Seq(Channel), force : BOOLEAN,
            index : Nat \ {0}, cur : Channel \cup {NoChannel}, link : Link,
            left : 0 .. MaxNew, erred : BOOLEAN, stopped : BOOLEAN]

TypeOK ==
    /\ status \in [Channel -> Status]
    /\ link \in [Channel -> Link]
    /\ pending \in [Channel -> 0 .. MaxNew]
    /\ slot \in BOOLEAN /\ (slot <=> run.pc # "off")
    /\ mode \in Kind
    /\ queue \in Seq(EntryType)
    /\ cancelAll \in BOOLEAN /\ cancelCids \subseteq Channel
    /\ runner \in Channel \cup {NoChannel} /\ runnerStop \in BOOLEAN
    /\ caller \in [Callers -> CallType]
    /\ run \in RunType
    /\ due \in [Channel -> 0 .. MaxNew]
    /\ joined \in [Channel -> {"no", "ahead", "behind"}]
    /\ waived \subseteq Channel /\ late \in Nat

\* A row says "downloading" only while the run is on that channel: cancels,
\* raises, crashes and restarts leave no card with a ghost Cancel button.
DownloadingIsOwned ==
    \A cid \in Channel : status[cid] = "downloading" => slot /\ run.cur = cid

\* A track a scan found and nothing has settled since is still pending, whatever
\* was stopped, failed, raised or crashed in between.
NothingDueForgotten == \A cid \in Channel : due[cid] <= pending[cid]

\* A channel that joined ahead of the loop is taken before the run closes, or
\* the run was cancelled.
JoinAheadIsServed ==
    run.pc \in {"ending", "release"} /\ ~cancelAll =>
        \A cid \in Channel : joined[cid] # "ahead"

\* No channel is queued twice, so no channel is downloaded twice in one run.
QueuedOnce == \A i, j \in 1 .. Len(queue) : queue[i].cid = queue[j].cid => i = j

\* A channel cancelled while it waits its turn never gets to its tracks.
CancelledWaitingIsDropped ==
    run.pc \in {"register", "tracks", "fetch"} => run.cur \notin waived

\* Every run ends by itself and frees the slot, also one that channels keep
\* joining: a raise, a failed listing, a skipped channel or a late cancel leaves
\* no run that holds the job for ever.
Running == slot
RunEnds == Running ~> ~Running

-----------------------------------------------------------------------------
(* What the source says of the runs and the code does not keep *)

\* tests/test_watchrun.py:774: a join is never acknowledged into a queue that
\* is discarded.
JoinIsServed == run.pc = "release" /\ ~cancelAll => joined = NotJoined

\* watchrun.py:495: cancel_all stops the whole run after the current track.
CancelAllStopsAfterTrack == late <= 1

\* db.py:1208-1209: "scanning" is only meaningful while a live thread owns the
\* row.
ScanningIsOwned ==
    \A cid \in Channel : status[cid] = "scanning" => slot /\ run.cur = cid

\* sidecar.py:91-92: only a 404 or a dead channel may move a row into
\* needs_resolve; here the verdict on the old link lands on the repaired one.
DeadVerdictIsCurrent ==
    \A cid \in Channel : status[cid] = "needs_resolve" => link[cid] # "live"
=============================================================================
