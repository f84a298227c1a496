------------------------------ MODULE Scheduler ------------------------------
(***************************************************************************)
(* The two background threads that start Watch List work by themselves: the *)
(* auto-download loop (wait out the interval, scan every channel, wait for  *)
(* the scan, download what it found) and the startup scan (settle, wait for *)
(* the network, scan). They share the Watch List's slot with the user, who  *)
(* changes the interval, scans, downloads and closes.                       *)
(*                                                                         *)
(* Time is counted in ticks; the polls inside a run are far shorter than a  *)
(* tick and cost none. elapsed stands for now - _auto_dl_anchor.            *)
(***************************************************************************)
EXTENDS Integers

CONSTANTS Intervals,  \* the dropdown's intervals, in ticks
          Off,        \* its "Off"
          MaxPolls,   \* SCAN_SETTLE_MAX_POLLS
          NetTries,   \* WATCHLIST_STARTUP_NET_TRIES
          MaxCalls    \* bound: calls the user makes

VARIABLES closed,    \* _closed
          slot,      \* the Watch List job: "free", "scan" or "download"
          batch,     \* whether a Main-tab batch runs
          pending,   \* whether any channel has pending new tracks
          interval,  \* the stored auto_download_interval
          elapsed,   \* ticks since the anchor, not counted past the longest interval
          wake,      \* the event the loop waits on
          announced, \* whether the page is told of a next run
          loop,      \* the auto-download thread
          boot,      \* the startup scan's thread
          caller,    \* the user's call in flight
          calls,     \* calls made (bounded)
          sinceRun   \* history: ticks since the last scheduled cycle was spent

vars == <<closed, slot, batch, pending, interval, elapsed, wake, announced, loop, boot,
          caller, calls, sinceRun>>
jobs == <<slot, batch, pending>>
user == <<caller, calls>>

Longest == CHOOSE m \in Intervals : \A i \in Intervals : i <= m
Later(n) == IF n < Longest THEN n + 1 ELSE n

Init == /\ closed = FALSE /\ slot = "free" /\ batch = FALSE /\ pending \in BOOLEAN
        /\ interval \in Intervals \union {Off}
        /\ elapsed = 0 /\ wake = FALSE /\ announced = FALSE
        /\ loop = [pc |-> "top", left |-> 0, polls |-> 0]
        /\ boot = [pc |-> "settle", tries |-> 0]
        /\ caller = "none" /\ calls = 0 /\ sinceRun = Longest

-----------------------------------------------------------------------------
(* The auto-download loop. *)

At(pc) == loop.pc = pc
Goto(pc) == loop' = [loop EXCEPT !.pc = pc]

\* _reanchor_auto_download: the interval counts from now, and the loop is woken.
Reanchor == elapsed' = 0 /\ wake' = TRUE

\* The cycle is over, with or without a download.
Spent == Reanchor /\ sinceRun' = 0 /\ Goto("top")

\* The top of the loop: the event is cleared before anything is read.
ClearWake == /\ At("top")
             /\ IF closed THEN Goto("ended") /\ UNCHANGED wake
                ELSE Goto("read") /\ wake' = FALSE
             /\ UNCHANGED <<closed, jobs, interval, elapsed, announced, boot, user, sinceRun>>

\* next_run_delay_ms: an overdue run is due shortly.
Delay == IF elapsed >= interval THEN 0 ELSE interval - elapsed

Arm == /\ At("read")
       /\ announced' = (interval # Off)
       /\ loop' = IF interval = Off THEN [loop EXCEPT !.pc = "off"]
                  ELSE [loop EXCEPT !.pc = "armed", !.left = Delay]
       /\ UNCHANGED <<closed, jobs, interval, elapsed, wake, boot, user, sinceRun>>

\* Every wait of the thread is cut short by the event.
Woken == /\ loop.pc \in {"off", "armed", "idle", "poll"} /\ wake
         /\ Goto("top")
         /\ UNCHANGED <<closed, jobs, interval, elapsed, wake, announced, boot, user, sinceRun>>

TimesOut == /\ At("armed") /\ loop.left = 0 /\ ~wake
            /\ Goto("idle")
            /\ UNCHANGED <<closed, jobs, interval, elapsed, wake, announced, boot, user, sinceRun>>

\* _wait_until_idle, then the look at _closed.
FoundIdle == /\ At("idle") /\ ~batch /\ slot = "free"
             /\ Goto(IF closed THEN "top" ELSE "scan")
             /\ UNCHANGED <<closed, jobs, interval, elapsed, wake, announced, boot, user, sinceRun>>

\* watchlist_scan_all, which refuses if the slot went in the gap.
ScanAll == /\ At("scan")
           /\ IF slot = "free"
              THEN /\ slot' = "scan" /\ loop' = [loop EXCEPT !.pc = "poll", !.polls = 0]
                   /\ UNCHANGED <<elapsed, wake, sinceRun>>
              ELSE Spent /\ UNCHANGED slot
           /\ UNCHANGED <<closed, batch, pending, interval, announced, boot, user>>

\* _wait_for_scan_to_settle: scan_settle_verdict's three answers.
Settled == /\ At("poll") /\ slot = "free"
           /\ Goto("found")
           /\ UNCHANGED <<closed, jobs, interval, elapsed, wake, announced, boot, user, sinceRun>>

Poll == /\ At("poll") /\ slot # "free" /\ loop.polls + 1 <= MaxPolls /\ ~wake
        /\ loop' = IF closed THEN [loop EXCEPT !.pc = "top"] ELSE [loop EXCEPT !.polls = @ + 1]
        /\ UNCHANGED <<closed, jobs, interval, elapsed, wake, announced, boot, user, sinceRun>>

GiveUp == /\ At("poll") /\ slot # "free" /\ loop.polls + 1 > MaxPolls
          /\ Spent
          /\ UNCHANGED <<closed, jobs, interval, announced, boot, user>>

\* Mutant of NothingFound: the anchor is left alone.
NothingFoundKept == /\ At("found") /\ ~pending /\ Goto("top") /\ sinceRun' = 0
                    /\ UNCHANGED <<closed, jobs, interval, elapsed, wake, announced, boot, user>>

NothingFound == /\ At("found") /\ ~pending
                /\ Spent
                /\ UNCHANGED <<closed, jobs, interval, announced, boot, user>>

\* watchlist_download_all_new: started, or refused because the slot went.
DownloadFound == /\ At("found") /\ pending
                 /\ Spent
                 /\ slot' = IF slot = "free" THEN "download" ELSE slot
                 /\ UNCHANGED <<closed, batch, pending, interval, announced, boot, user>>

LoopStep == \/ ClearWake \/ Arm \/ Woken \/ TimesOut \/ FoundIdle \/ ScanAll \/ Settled
            \/ Poll \/ GiveUp \/ NothingFound \/ DownloadFound

-----------------------------------------------------------------------------
(* The startup scan. *)

BootAt(pc) == boot.pc = pc
BootGoto(pc) == boot' = [boot EXCEPT !.pc = pc]
loopState == <<interval, elapsed, wake, announced, loop, sinceRun>>

\* WATCHLIST_STARTUP_DELAY is over.
SettleDown == /\ BootAt("settle")
              /\ BootGoto(IF closed THEN "done" ELSE "network")
              /\ UNCHANGED <<closed, jobs, loopState, user>>

\* One look at the network: up, down and tried again, given up, or closed.
TryNetwork == /\ BootAt("network")
              /\ \/ closed /\ BootGoto("done")
                 \/ ~closed /\ BootGoto("check")
                 \/ /\ ~closed
                    /\ boot' = IF boot.tries + 1 = NetTries THEN [boot EXCEPT !.pc = "done"]
                               ELSE [boot EXCEPT !.tries = @ + 1]
              /\ UNCHANGED <<closed, jobs, loopState, user>>

CheckBatch == /\ BootAt("check")
              /\ BootGoto(IF closed \/ batch THEN "done" ELSE "scan")
              /\ UNCHANGED <<closed, jobs, loopState, user>>

BootScan == /\ BootAt("scan")
            /\ BootGoto("done")
            /\ slot' = IF slot = "free" THEN "scan" ELSE slot
            /\ UNCHANGED <<closed, batch, pending, loopState, user>>

BootStep == SettleDown \/ TryNetwork \/ CheckBatch \/ BootScan

-----------------------------------------------------------------------------
(* The user, the jobs' ends, the clock. *)

NewCall == caller = "none" /\ calls < MaxCalls /\ calls' = calls + 1

\* settings_set: the interval is stored, then the loop is woken.
StoreInterval == /\ NewCall /\ caller' = "stored"
                 /\ \E i \in (Intervals \union {Off}) \ {interval} : interval' = i
                 /\ UNCHANGED <<closed, jobs, elapsed, wake, announced, loop, boot, sinceRun>>

\* Mutant of WakeLoop: the new interval is stored and displayed only.
WakeLoopForgotten == /\ caller = "stored" /\ caller' = "none"
                     /\ UNCHANGED <<closed, jobs, wake, interval, elapsed, announced, loop, boot,
                                    calls, sinceRun>>

WakeLoop == /\ caller = "stored" /\ caller' = "none" /\ wake' = TRUE
            /\ UNCHANGED <<closed, jobs, interval, elapsed, announced, loop, boot, calls, sinceRun>>

\* download_start and the Watch List's own Scan All.
StartBatch == /\ NewCall /\ ~batch /\ batch' = TRUE
              /\ UNCHANGED <<closed, slot, pending, loopState, boot, caller>>

StartScan == /\ NewCall /\ slot = "free" /\ slot' = "scan"
             /\ UNCHANGED <<closed, batch, pending, loopState, boot, caller>>

\* Download All New: the anchor is stamped, then the slot is asked for.
Stamp == /\ NewCall /\ caller' = "stamped" /\ pending
         /\ Reanchor
         /\ UNCHANGED <<closed, jobs, interval, announced, loop, boot, sinceRun>>

StartDownload == /\ caller = "stamped" /\ caller' = "none"
                 /\ slot' = IF slot = "free" THEN "download" ELSE slot
                 /\ UNCHANGED <<closed, batch, pending, loopState, boot, calls>>

BatchEnds == /\ batch /\ batch' = FALSE
             /\ UNCHANGED <<closed, slot, pending, loopState, boot, user>>

WatchJobEnds == /\ slot # "free" /\ slot' = "free" /\ pending' \in BOOLEAN
                /\ UNCHANGED <<closed, batch, loopState, boot, user>>

Close == /\ ~closed /\ closed' = TRUE /\ wake' = TRUE
         /\ UNCHANGED <<jobs, interval, elapsed, announced, loop, boot, user, sinceRun>>

Tick == /\ elapsed' = Later(elapsed) /\ sinceRun' = Later(sinceRun)
        /\ loop' = [loop EXCEPT !.left = IF @ > 0 THEN @ - 1 ELSE 0]
        /\ UNCHANGED <<closed, jobs, interval, wake, announced, boot, user>>

Next == \/ LoopStep \/ BootStep
        \/ StoreInterval \/ WakeLoop \/ StartBatch \/ StartScan \/ Stamp \/ StartDownload
        \/ BatchEnds \/ WatchJobEnds \/ Close \/ Tick

Spec == Init /\ [][Next]_vars

\* Threads go on, jobs end, time passes; nobody has to press anything.
FairSpec == /\ Spec
            /\ WF_vars(LoopStep) /\ WF_vars(BootStep)
            /\ WF_vars(WakeLoop \/ StartDownload)
            /\ WF_vars(BatchEnds) /\ WF_vars(WatchJobEnds)
            /\ WF_vars(Tick)

-----------------------------------------------------------------------------
(* Properties *)

\* A scheduled cycle that is over - nothing found, refused, given up or
\* downloading - is followed by a whole interval before the next scan, whatever
\* the dropdown is set to meanwhile.
Shortest == CHOOSE m \in Intervals : \A i \in Intervals : m <= i
OneRunPerInterval == At("scan") => sinceRun >= Shortest

\* With an interval set, the scan is started sooner or later: no wake-up is lost,
\* no wait is left without an end, a busy app only puts it off.
SetToScan == ~closed /\ interval # Off
Scanned == At("poll") \/ At("found")
ScheduledRunHappens == SetToScan ~> ~SetToScan \/ Scanned

\* A refused Download All New does not put off the scheduled run
\* (watchlist_download_all_new's docstring: from this download).
StampIsADownload == [][caller = "stamped" /\ caller' = "none" => slot = "free"]_vars

-----------------------------------------------------------------------------
(* The inductive invariant that the property follows from. *)

LoopState == [pc : {"top", "ended", "read", "off", "armed", "idle", "scan", "poll", "found"},
              left : Nat, polls : Nat]

\* What is left to wait and what has passed since the last cycle make an interval: the
\* anchor is never older than the last cycle.
CycleIsSpaced ==
    /\ loop \in LoopState /\ interval \in Intervals \union {Off}
    /\ elapsed \in Nat /\ sinceRun \in Nat
    /\ elapsed <= sinceRun /\ sinceRun <= Longest
    /\ At("armed") => loop.left + sinceRun >= Shortest
    /\ loop.pc \in {"idle", "scan"} => sinceRun >= Shortest
=============================================================================
