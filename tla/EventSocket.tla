----------------------------- MODULE EventSocket -----------------------------
(***************************************************************************)
(* One event socket, from the subscription to the unregistering. Frames and *)
(* cuts come from the service's threads and hop to the host's loop, which   *)
(* puts them in a bounded outbox; one coroutine sends from it and is ended  *)
(* by a sentinel, one more only notices that the page has gone. A put into  *)
(* a full outbox drops what is oldest in it. Frames are numbered as the bus *)
(* delivers them.                                                           *)
(***************************************************************************)
EXTENDS Integers, Sequences, SequencesExt

CONSTANTS Size,      \* EVENT_QUEUE_MAX
          MaxFrames  \* bound: frames emitted

\* Neither is a frame's number.
Sentinel == 0
Stop == -1

VARIABLES emitted,  \* frames emitted while the socket was subscribed
          listed,   \* the roster has the socket's cut_socket
          hops,     \* calls handed to the loop and not run yet
          outbox,
          sender,   \* "greets", "waits", "sends", "closes", "leaves" or "ended"
          frame,    \* what the sender has in hand
          cut,      \* cut_code is set
          reading,  \* the reader is still there
          link,     \* the connection is up
          page,     \* the frames the page got
          lost      \* a sentinel was dropped

vars == <<emitted, listed, hops, outbox, sender, frame, cut, reading, link, page, lost>>
wire == <<reading, link, page>>

Init == /\ emitted = 0 /\ listed = TRUE /\ hops = <<>> /\ outbox = <<>>
        /\ sender = "greets" /\ frame = 0 /\ cut = FALSE
        /\ reading = TRUE /\ link = TRUE /\ page = <<>> /\ lost = FALSE

Served == sender # "ended"

\* Mutant of Put: a full outbox takes nothing more.
PutIfRoom(x) == /\ outbox' = IF Len(outbox) = Size THEN outbox ELSE Append(outbox, x)
                /\ UNCHANGED lost
\* _put.
Put(x) == LET full == Len(outbox) = Size
          IN /\ outbox' = Append(IF full THEN Tail(outbox) ELSE outbox, x)
             /\ lost' = (lost \/ (full /\ Head(outbox) = Sentinel))

-----------------------------------------------------------------------------
(* The service's threads. *)

\* deliver, called by the bus.
Deliver == /\ Served /\ emitted < MaxFrames
           /\ emitted' = emitted + 1 /\ hops' = Append(hops, emitted')
           /\ UNCHANGED <<listed, outbox, sender, frame, cut, wire, lost>>

\* cut_socket: its device is revoked or remote access switched off, which takes the
\* socket off the roster.
CutSocket == /\ listed /\ listed' = FALSE /\ hops' = Append(hops, Stop)
             /\ UNCHANGED <<emitted, outbox, sender, frame, cut, wire, lost>>

-----------------------------------------------------------------------------
(* The loop. *)

\* The next call handed over: a frame's _put, or a cut's stop.
Hop == /\ hops # <<>> /\ hops' = Tail(hops)
       /\ IF Head(hops) = Stop THEN cut' = TRUE /\ Put(Sentinel)
          ELSE Put(Head(hops)) /\ UNCHANGED cut
       /\ UNCHANGED <<emitted, listed, sender, frame, wire>>

\* _watch_for_disconnect, when the page has gone.
ReaderEnds == /\ reading /\ ~link /\ reading' = FALSE /\ Put(Sentinel)
              /\ UNCHANGED <<emitted, listed, hops, sender, frame, cut, link, page>>

\* host.status, the first thing on the wire; on a dead one a send raises.
Greet == /\ sender = "greets" /\ sender' = IF link THEN "waits" ELSE "leaves"
         /\ UNCHANGED <<emitted, listed, hops, outbox, frame, cut, wire, lost>>

Get == /\ sender = "waits" /\ outbox # <<>>
       /\ outbox' = Tail(outbox)
       /\ IF Head(outbox) # Sentinel
          THEN sender' = "sends" /\ frame' = Head(outbox)
          ELSE sender' = (IF cut THEN "closes" ELSE "leaves") /\ UNCHANGED frame
       /\ UNCHANGED <<emitted, listed, hops, cut, wire, lost>>

\* send_json, as soon as the page takes it.
Send == /\ sender = "sends"
        /\ IF link THEN page' = Append(page, frame) /\ sender' = "waits"
           ELSE sender' = "leaves" /\ UNCHANGED page
        /\ frame' = 0
        /\ UNCHANGED <<emitted, listed, hops, outbox, cut, reading, link, lost>>

Close == /\ sender = "closes" /\ sender' = "leaves" /\ link' = FALSE
         /\ UNCHANGED <<emitted, listed, hops, outbox, frame, cut, reading, page, lost>>

\* The finally: the reader is cancelled, the bus and the roster let go.
Leave == /\ sender = "leaves" /\ sender' = "ended"
         /\ reading' = FALSE /\ listed' = FALSE
         /\ IF reading THEN Put(Sentinel) ELSE UNCHANGED <<outbox, lost>>
         /\ UNCHANGED <<emitted, hops, frame, cut, link, page>>

-----------------------------------------------------------------------------
\* The page closes, reloads or loses the network.
Disconnect == /\ link /\ Served /\ link' = FALSE
              /\ UNCHANGED <<emitted, listed, hops, outbox, sender, frame, cut, reading, page, lost>>

SenderStep == Greet \/ Get \/ Send \/ Close \/ Leave

Next == \/ Deliver \/ CutSocket \/ Hop \/ ReaderEnds \/ SenderStep \/ Disconnect

Spec == Init /\ [][Next]_vars

\* The loop runs what it is handed, and a page takes a frame or is gone.
FairSpec == Spec /\ WF_vars(Hop) /\ WF_vars(ReaderEnds) /\ WF_vars(SenderStep)

-----------------------------------------------------------------------------
(* Properties *)

\* However far a page falls behind, it comes to the newest frame: a full outbox
\* costs it older ones (_put: dropping the oldest when full), never the last.
Sent(n) == emitted = n
CameTo(n) == Last(<<0>> \o page) >= n \/ ~Served \/ emitted > n
NewestArrives == \A n \in 1 .. MaxFrames : Sent(n) ~> CameTo(n)

\* A socket whose page has gone leaves the roster in the end, whatever its outbox
\* held; a cut one does unless the page was slower than the outbox is long.
Withdrawn == ~link \/ cut
Gone == ~Served \/ (link /\ lost)
SocketEnds == Withdrawn ~> Gone

\* The page never sees a frame after a newer one, nor one twice, through overflows;
\* what it has not got and is not lost is still on its way in that order.
OnItsWay == page \o <<frame>> \o outbox \o hops
InOrder(line) == \A i, j \in DOMAIN line : (i < j /\ line[i] > 0 /\ line[j] > 0) => line[i] < line[j]
FramesInOrder == InOrder(OnItsWay)

-----------------------------------------------------------------------------
(* The inductive invariant that the property follows from. *)

Before(s, t) == \A i \in DOMAIN s, j \in DOMAIN t : (s[i] > 0 /\ t[j] > 0) => s[i] < t[j]
UpTo(s, n) == \A i \in DOMAIN s : s[i] <= n
InHand == <<frame>>
TypeOK == /\ page \in Seq(Int) /\ frame \in Int /\ outbox \in Seq(Int) /\ hops \in Seq(Int)
          /\ emitted \in Nat
\* What the page has, what the sender has in hand, what waits for it, what waits for the loop.
SocketInv == /\ TypeOK
             /\ InOrder(page) /\ InOrder(outbox) /\ InOrder(hops)
             /\ Before(page, InHand) /\ Before(page, outbox) /\ Before(page, hops)
             /\ Before(InHand, outbox) /\ Before(InHand, hops) /\ Before(outbox, hops)
             /\ UpTo(page, emitted) /\ UpTo(InHand, emitted) /\ UpTo(outbox, emitted) /\ UpTo(hops, emitted)
=============================================================================
