----------------------------- MODULE EventStream -----------------------------
(***************************************************************************)
(* The coalescer between a job and the event bus, for one coalesced type.  *)
(* A frame goes out at once or is held for a timer; flush, called before a *)
(* terminal event, lets the held one out. The lock covers the bookkeeping; *)
(* the bus is called after it, so a thread may have taken a frame it has   *)
(* not delivered yet. Frames are numbered in the order they are emitted.   *)
(***************************************************************************)
EXTENDS Integers

CONSTANTS MaxFrames,  \* bound: frames emitted
          Threads     \* timer threads (fired ones may outlive the next one armed)

VARIABLES frames,    \* frames emitted so far
          held,      \* _pending: the frame held back, 0 for none
          entry,     \* _timers: the thread scheduled, 0 for none
          timer,     \* each timer thread: "free", "waiting", "fired" or "taken"
          carried,   \* the frame a timer thread has taken and not delivered
          job,       \* the job's thread: "works", "sends", "flushed" or "ended"
          carries,   \* the frame the job's thread has taken and not delivered
          delivered  \* the newest frame the bus has delivered

vars == <<frames, held, entry, timer, carried, job, carries, delivered>>

Init == /\ frames = 0 /\ held = 0 /\ entry = 0
        /\ timer = [t \in Threads |-> "free"] /\ carried = [t \in Threads |-> 0]
        /\ job = "works" /\ carries = 0 /\ delivered = 0

Newest(n) == delivered' = IF n > delivered THEN n ELSE delivered

-----------------------------------------------------------------------------
(* The job's thread. *)

\* The interval is over: the frame goes out and a held one is superseded.
SendNow == /\ job = "works" /\ frames < MaxFrames
           /\ frames' = frames + 1 /\ carries' = frames'
           /\ held' = 0 /\ job' = "sends"
           /\ UNCHANGED <<entry, timer, carried, delivered>>

\* _schedule: one timer is enough, it will pick up the latest frame.
Schedule == IF entry # 0 THEN UNCHANGED <<entry, timer>>
            ELSE \E t \in Threads : /\ timer[t] = "free" /\ entry' = t
                                    /\ timer' = [timer EXCEPT ![t] = "waiting"]

Hold == /\ job = "works" /\ frames < MaxFrames
        /\ frames' = frames + 1 /\ held' = frames'
        /\ Schedule
        /\ UNCHANGED <<carried, job, carries, delivered>>

\* flush: what is held is taken, its timer cancelled unless it has fired.
Flush == /\ job = "works"
         /\ carries' = held /\ held' = 0
         /\ IF held = 0 THEN UNCHANGED <<entry, timer>>
            ELSE /\ entry' = 0
                 /\ timer' = [t \in Threads |-> IF t = entry /\ timer[t] = "waiting" THEN "free"
                                                ELSE timer[t]]
         /\ job' = "flushed"
         /\ UNCHANGED <<frames, carried, delivered>>

\* The bus: the frame taken, and after a flush the terminal event.
Deliver == /\ job \in {"sends", "flushed"}
           /\ Newest(carries) /\ carries' = 0
           /\ job' = IF job = "sends" THEN "works" ELSE "ended"
           /\ UNCHANGED <<frames, held, entry, timer, carried>>

\* The next run of the same type.
NextJob == /\ job = "ended" /\ job' = "works"
           /\ UNCHANGED <<frames, held, entry, timer, carried, carries, delivered>>

-----------------------------------------------------------------------------
(* The timers' threads. *)

Fire(t) == /\ timer[t] = "waiting"
           /\ timer' = [timer EXCEPT ![t] = "fired"]
           /\ UNCHANGED <<frames, held, entry, carried, job, carries, delivered>>

\* Mutant of OnTimer: the entry stays, and the next frame is not scheduled.
OnTimerKeepsEntry(t) == /\ timer[t] = "fired"
                        /\ carried' = [carried EXCEPT ![t] = held] /\ held' = 0
                        /\ timer' = [timer EXCEPT ![t] = "taken"]
                        /\ UNCHANGED <<frames, entry, job, carries, delivered>>

\* _on_timer under the lock: whatever is held and whatever timer is entered go.
OnTimer(t) == /\ timer[t] = "fired"
              /\ carried' = [carried EXCEPT ![t] = held] /\ held' = 0
              /\ entry' = 0
              /\ timer' = [timer EXCEPT ![t] = "taken"]
              /\ UNCHANGED <<frames, job, carries, delivered>>

DeliverTimed(t) == /\ timer[t] = "taken"
                   /\ Newest(carried[t]) /\ carried' = [carried EXCEPT ![t] = 0]
                   /\ timer' = [timer EXCEPT ![t] = "free"]
                   /\ UNCHANGED <<frames, held, entry, job, carries>>

TimerStep(t) == Fire(t) \/ OnTimer(t) \/ DeliverTimed(t)

Next == \/ SendNow \/ Hold \/ Flush \/ Deliver \/ NextJob
        \/ \E t \in Threads : TimerStep(t)

Spec == Init /\ [][Next]_vars

\* Timers fire and their threads go on. The job may rest between two frames.
FairSpec == Spec /\ WF_vars(Deliver) /\ \A t \in Threads : WF_vars(TimerStep(t))

-----------------------------------------------------------------------------
(* Properties *)

\* A held frame, or a newer one in its place, reaches the bus without the job
\* having to send another.
Held(n) == held = n
Reached(n) == delivered >= n
HeldFrameArrives == \A n \in 1 .. MaxFrames : Held(n) ~> Reached(n)

\* A frame never follows the terminal event that supersedes it.
NothingAfterTerminal == [][job = "ended" => job' # job \/ delivered' = delivered]_vars
=============================================================================
