------------------------------ MODULE LogWatch -------------------------------
(***************************************************************************)
(* Following a log: the service counts its viewers and tails the file on a *)
(* thread while there are any; the host mirrors what a remote device        *)
(* watches, and hands it back when the device's last socket is gone. The    *)
(* window on the host calls the service directly.                           *)
(***************************************************************************)
EXTENDS Integers, FiniteSets, FiniteSetsExt

CONSTANTS Sockets,  \* of one device
          MaxWatch  \* bound: viewers the window or the device has at a time

VARIABLES sock,   \* each socket: "none", "open", "closed", "left", "release"
          call,   \* the device's call in flight: "none", "on", "off", "noteOn", "noteOff"
          held,   \* log_watches: what the device is noted to watch
          window, \* the viewers the window has open
          count,  \* the watcher's count
          stop,   \* its stop event
          tail    \* its thread lives

vars == <<sock, call, held, window, count, stop, tail>>
viewers == <<count, stop, tail>>

Init == /\ sock = [s \in Sockets |-> "none"] /\ call = "none" /\ held = 0 /\ window = 0
        /\ count = 0 /\ stop = FALSE /\ tail = FALSE

Connected == \E s \in Sockets : sock[s] \in {"open", "closed"}
Turn(s, from, to) == sock[s] = from /\ sock' = [sock EXCEPT ![s] = to]

-----------------------------------------------------------------------------
(* The service. *)

\* logs_watch on: a thread that still lives is taken for the tail.
On == /\ count' = count + 1 /\ tail' = TRUE
      /\ stop' = IF tail THEN stop ELSE FALSE

\* Mutant of Off: the stop event is left alone.
OffWithoutStop(n) == count' = Max({0, count - n}) /\ UNCHANGED <<stop, tail>>

\* logs_watch off, n times over.
Off(n) == /\ count' = Max({0, count - n})
          /\ stop' = (stop \/ (n > 0 /\ count' = 0))
          /\ UNCHANGED tail

\* _watch_log ends at its next look at the event.
TailEnds == /\ tail /\ stop /\ tail' = FALSE
            /\ UNCHANGED <<sock, call, held, window, count, stop>>

-----------------------------------------------------------------------------
(* The window and the device. *)

WindowOn == /\ window < MaxWatch /\ window' = window + 1 /\ On
            /\ UNCHANGED <<sock, call, held>>

WindowOff == /\ window > 0 /\ window' = window - 1 /\ Off(1)
             /\ UNCHANGED <<sock, call, held>>

\* A call comes in whether or not a socket is open.
Call(m) == /\ call = "none" /\ call' = m
           /\ m = "on" => held < MaxWatch
           /\ m = "off" => held > 0
           /\ UNCHANGED <<sock, held, window, viewers>>

CallOn == /\ call = "on" /\ call' = "noteOn" /\ On
          /\ UNCHANGED <<sock, held, window>>

CallOff == /\ call = "off" /\ call' = "noteOff" /\ Off(1)
           /\ UNCHANGED <<sock, held, window>>

\* _note_log_watch, once the service has answered.
Note == /\ call \in {"noteOn", "noteOff"} /\ call' = "none"
        /\ held' = IF call = "noteOn" THEN held + 1 ELSE Max({0, held - 1})
        /\ UNCHANGED <<sock, window, viewers>>

Connect(s) == /\ Turn(s, "none", "open")
              /\ UNCHANGED <<call, held, window, viewers>>

Disconnect(s) == /\ Turn(s, "open", "closed")
                 /\ UNCHANGED <<call, held, window, viewers>>

Unregister(s) == /\ Turn(s, "closed", "left")
                 /\ UNCHANGED <<call, held, window, viewers>>

\* is_connected: another socket of the device is not the device leaving.
LookAround(s) == /\ Turn(s, "left", IF Connected THEN "none" ELSE "release")
                 /\ UNCHANGED <<call, held, window, viewers>>

ReleaseLogWatches(s) == /\ Turn(s, "release", "none")
                        /\ held' = 0 /\ Off(held)
                        /\ UNCHANGED <<call, window>>

SocketStep(s) == Unregister(s) \/ LookAround(s) \/ ReleaseLogWatches(s)

Next == \/ TailEnds \/ WindowOn \/ WindowOff \/ Call("on") \/ Call("off") \/ CallOn \/ CallOff \/ Note
        \/ \E s \in Sockets : Connect(s) \/ Disconnect(s) \/ SocketStep(s)

Spec == Init /\ [][Next]_vars

\* Threads go on; nobody has to open or close anything.
FairSpec == /\ Spec /\ WF_vars(TailEnds) /\ WF_vars(CallOn \/ CallOff \/ Note)
            /\ \A s \in Sockets : WF_vars(SocketStep(s))

-----------------------------------------------------------------------------
(* Properties *)

\* However the viewers came and went, once the last one is handed back the tail's
\* thread ends, unless somebody opens a viewer meanwhile.
TailUnwatched == count = 0 /\ tail
TailFollowsViewers == TailUnwatched ~> ~TailUnwatched

\* A log that has viewers has a tail, so they see what is written (logs_watch's
\* docstring: start the background tail).
ViewersHaveTail == count > 0 ~> count = 0 \/ (tail /\ ~stop)

\* Nothing a device opened outlives its last socket (_release_log_watches).
NothingOutlivesSockets ==
    (\A s \in Sockets : sock[s] = "none") /\ call = "none" => count = window
=============================================================================
