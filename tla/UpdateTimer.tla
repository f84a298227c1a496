----------------------------- MODULE UpdateTimer -----------------------------
(***************************************************************************)
(* The silent update check: a chain of threading.Timer threads, each of    *)
(* which clears the slot it fired from, looks for a newer build and arms   *)
(* the next. The user's dropdown and the window's start-up arm it too, and *)
(* close() ends it. A timer that has fired can no longer be cancelled.     *)
(***************************************************************************)
EXTENDS Integers

CONSTANTS Timers,   \* bound: timer threads alive at a time
          MaxCalls  \* bound: calls the user makes

VARIABLES timer,    \* each thread: "free", "armed", "fired", "checks", "skips"
          launch,   \* the threads armed by start_startup_update_check
          tracked,  \* _update_timer: the thread a later call can cancel, 0 for none
          interval, \* whether update_check_interval is anything but Off
          busy,     \* whether _jobs is not empty
          closed,   \* _closed
          boot,     \* the window's start-up: "timer", "launch", "done"
          caller,   \* update_set_interval in flight: "none" or "stored"
          calls     \* calls made (bounded)

vars == <<timer, launch, tracked, interval, busy, closed, boot, caller, calls>>
user == <<boot, caller, calls>>

Init == /\ timer = [t \in Timers |-> "free"] /\ launch = {} /\ tracked = 0
        /\ interval \in BOOLEAN /\ busy \in BOOLEAN /\ closed = FALSE
        /\ boot = "timer" /\ caller = "none" /\ calls = 0

-----------------------------------------------------------------------------
\* threading.Timer.cancel: no effect on a thread that has fired.
Cancel(ts, t) == [x \in Timers |-> IF x = t /\ ts[x] = "armed" THEN "free" ELSE ts[x]]

\* _arm_update_timer, one hold of the lock. ts is what the caller's own thread
\* leaves of the timers; the launch check brings its own delay, whatever the
\* dropdown says.
Arm(ts, forLaunch) ==
    IF closed THEN timer' = ts /\ UNCHANGED <<tracked, launch>>
    ELSE LET left == Cancel(ts, tracked)
         IN  IF ~interval /\ ~forLaunch
             THEN timer' = left /\ tracked' = 0 /\ UNCHANGED launch
             ELSE \E t \in Timers : /\ left[t] = "free"
                                    /\ timer' = [left EXCEPT ![t] = "armed"]
                                    /\ tracked' = t
                                    /\ launch' = IF forLaunch THEN launch \union {t}
                                                 ELSE launch \ {t}

\* The window: start_update_timer once the service is built,
\* start_startup_update_check once the page listens.
StartTimer == /\ boot = "timer" /\ boot' = "launch" /\ Arm(timer, FALSE)
              /\ UNCHANGED <<interval, busy, closed, caller, calls>>

StartLaunchCheck == /\ boot = "launch" /\ boot' = "done" /\ Arm(timer, TRUE)
                    /\ UNCHANGED <<interval, busy, closed, caller, calls>>

\* update_set_interval stores the value, then arms.
StoreInterval == /\ caller = "none" /\ calls < MaxCalls /\ calls' = calls + 1
                 /\ caller' = "stored" /\ interval' = ~interval
                 /\ UNCHANGED <<timer, launch, tracked, busy, closed, boot>>

Rearm == /\ caller = "stored" /\ caller' = "none" /\ Arm(timer, FALSE)
         /\ UNCHANGED <<interval, busy, closed, boot, calls>>

-----------------------------------------------------------------------------
Fire(t) == /\ timer[t] = "armed" /\ timer' = [timer EXCEPT ![t] = "fired"]
           /\ UNCHANGED <<launch, tracked, interval, busy, closed, user>>

\* _take_update_timer_slot: whatever timer is in the slot leaves it. A busy app
\* puts off the interval's check, not the launch's.
TakeSlot(t) == /\ timer[t] = "fired" /\ tracked' = 0
               /\ timer' = [timer EXCEPT ![t] = IF busy /\ t \notin launch THEN "skips"
                                                ELSE "checks"]
               /\ UNCHANGED <<launch, interval, busy, closed, user>>

\* Mutant of FireEnds: a check that a job puts off does not arm the next.
FireEndsAtSkip(t) ==
    /\ timer[t] \in {"checks", "skips"}
    /\ IF timer[t] = "skips"
       THEN timer' = [timer EXCEPT ![t] = "free"] /\ UNCHANGED <<launch, tracked>>
       ELSE Arm([timer EXCEPT ![t] = "free"], FALSE)
    /\ UNCHANGED <<interval, busy, closed, user>>

\* The check is over, whatever it met (_silent_update_check swallows): the next
\* is armed.
FireEnds(t) == /\ timer[t] \in {"checks", "skips"}
               /\ Arm([timer EXCEPT ![t] = "free"], FALSE)
               /\ UNCHANGED <<interval, busy, closed, user>>

Close == /\ ~closed /\ boot = "done" /\ closed' = TRUE
         /\ timer' = Cancel(timer, tracked) /\ tracked' = 0
         /\ UNCHANGED <<launch, interval, busy, user>>

JobsChange == /\ busy' = ~busy
              /\ UNCHANGED <<timer, launch, tracked, interval, closed, user>>

TimerStep(t) == Fire(t) \/ TakeSlot(t) \/ FireEnds(t)

Next == \/ StartTimer \/ StartLaunchCheck \/ StoreInterval \/ Rearm \/ Close \/ JobsChange
        \/ \E t \in Timers : TimerStep(t)

Spec == Init /\ [][Next]_vars

\* Timers fire, their threads and the calls in flight go on.
FairSpec == /\ Spec /\ WF_vars(StartTimer) /\ WF_vars(StartLaunchCheck) /\ WF_vars(Rearm)
            /\ \A t \in Timers : WF_vars(TimerStep(t))

-----------------------------------------------------------------------------
(* Properties *)

\* Whatever calls, jobs and timers interleave, an open app with an interval set
\* keeps looking: every so often a timer's thread comes up to a check (which a
\* job may still put off).
SetToCheck == ~closed /\ interval
Looks == \E t \in Timers : timer[t] = "fired"
ChecksGoOn == SetToCheck ~> ~SetToCheck \/ Looks

\* close() leaves no daemon timer armed past its use (its docstring).
ClosedIsQuiet == closed => \A t \in Timers : timer[t] # "armed"
=============================================================================
