------------------------------- MODULE MCLive -------------------------------
(***************************************************************************)
(* What ends, arrives, comes round or is let go: a cancelled batch, a Watch *)
(* List run, a review, the scheduler and the update timer, a channel's      *)
(* tracks over many runs, a held frame, a page's socket, a browser's send,  *)
(* an FFmpeg swap, the log's tail, the control lock, each with the fairness *)
(* its module states. They share no state, so a behavior is one part's:     *)
(* part names it, s1, s2... are its variables. The runs rounds and settles  *)
(* take some of the parts each.                                             *)
(***************************************************************************)
EXTENDS Integers, Sequences, FiniteSets, TLAPS

CONSTANTS Parts,                                          \* the parts a run takes
          Tracks, Keys, Key, Gated, Locked, Modes,        \* track
          MaxAttempts, MaxTrouble, MaxBlips,
          Channels, Files, Owner, MaxRuns, MaxFaults,     \* cleanup
          Intervals, Never, MaxPolls, NetTries, MaxCalls, \* schedule
          Devices, Sockets, IdleAfter                     \* remote

VARIABLES part, s1, s2, s3, s4, s5, s6, s7, s8, s9, s10, s11, s12,
          s13, s14, s15, s16

\* A part with fewer variables leaves the others blank.
Blank == "blank"
BlankFrom16 == s16 = Blank
BlankFrom15 == s15 = Blank /\ BlankFrom16
BlankFrom14 == s14 = Blank /\ BlankFrom15
BlankFrom13 == s13 = Blank /\ BlankFrom14
BlankFrom12 == s12 = Blank /\ BlankFrom13
BlankFrom11 == s11 = Blank /\ BlankFrom12
BlankFrom10 == s10 = Blank /\ BlankFrom11
BlankFrom9 == s9 = Blank /\ BlankFrom10
BlankFrom8 == s8 = Blank /\ BlankFrom9
KeepFrom17 == UNCHANGED part
KeepFrom16 == UNCHANGED s16 /\ KeepFrom17
KeepFrom15 == UNCHANGED s15 /\ KeepFrom16
KeepFrom14 == UNCHANGED s14 /\ KeepFrom15
KeepFrom13 == UNCHANGED s13 /\ KeepFrom14
KeepFrom12 == UNCHANGED s12 /\ KeepFrom13
KeepFrom11 == UNCHANGED s11 /\ KeepFrom12
KeepFrom10 == UNCHANGED s10 /\ KeepFrom11
KeepFrom9 == UNCHANGED s9 /\ KeepFrom10
KeepFrom8 == UNCHANGED s8 /\ KeepFrom9

\* Two titles that normalize alike.
KeyValue == [t \in Tracks |-> IF t = "c" THEN "m" ELSE "k"]
\* Two channels, and whose each file is.
ChannelsValue == <<"c1", "c2">>
OwnerValue == <<"c1", "c1", "c2">>

mainrun == INSTANCE BatchRun WITH Callers <- {"c1"}, Row <- {"a"}, Runner <- {"r1", "r2"},
    NoRunner <- "none", MaxTracks <- 2, batch <- s1, unused <- s2, skippedRow <- s3,
    batchRunner <- s4, slot <- s5, cancelled <- s6, paused <- s7, skips <- s8, caller <- s9,
    run <- s10
watch == INSTANCE WatchRun WITH Callers <- {"c1"}, Channel <- {"a"}, NoChannel <- "none",
    Links <- {"live", "dead", "none"}, MaxNew <- 1, status <- s1, link <- s2, pending <- s3,
    slot <- s4, mode <- s5, queue <- s6, cancelAll <- s7, cancelCids <- s8, runner <- s9,
    runnerStop <- s10, caller <- s11, run <- s12, due <- s13, joined <- s14, waived <- s15,
    late <- s16
track == INSTANCE TrackDownload WITH site <- s1, disk <- s2, rows <- s3, memory <- s4,
    run <- s5, fetched <- s6, vanished <- s7, blips <- s8, trouble <- s9
cleanup == INSTANCE Cleanup WITH disk <- s1, rows <- s2, gone <- s3, pc <- s4, at <- s5,
    pending <- s6, decision <- s7, taken <- s8, cancel <- s9, answered <- s10, shown <- s11,
    ticked <- s12, heard <- s13, runs <- s14, faults <- s15
schedule == INSTANCE Scheduler WITH Off <- Never, closed <- s1, slot <- s2, batch <- s3, pending <- s4,
    interval <- s5, elapsed <- s6, wake <- s7, announced <- s8, loop <- s9, boot <- s10,
    caller <- s11, calls <- s12, sinceRun <- s13
checks == INSTANCE UpdateTimer WITH Timers <- {1, 2, 3}, MaxCalls <- 2, timer <- s1, launch <- s2,
    tracked <- s3, interval <- s4, busy <- s5, closed <- s6, boot <- s7, caller <- s8, calls <- s9
stream == INSTANCE EventStream WITH MaxFrames <- 3, Threads <- {1, 2, 3}, frames <- s1, held <- s2,
    entry <- s3, timer <- s4, carried <- s5, job <- s6, carries <- s7, delivered <- s8
socket == INSTANCE EventSocket WITH Size <- 1, MaxFrames <- 3, emitted <- s1, listed <- s2,
    hops <- s3, outbox <- s4, sender <- s5, frame <- s6, cut <- s7, reading <- s8, link <- s9,
    page <- s10, lost <- s11
ffmpeg == INSTANCE FfmpegSwap WITH Files <- {1, 2}, Exe <- 1, Checkers <- {1, 2}, MaxOffer <- 1,
    MaxTrouble <- 1, offer <- s1, disk <- s2, marker <- s3, check <- s4, retry <- s5,
    retryFor <- s6, swap <- s7, busy <- s8, trouble <- s9
logs == INSTANCE LogWatch WITH Sockets <- {"s1", "s2"}, MaxWatch <- 2, sock <- s1, call <- s2,
    held <- s3, window <- s4, count <- s5, stop <- s6, tail <- s7
remote == INSTANCE RemoteControl WITH Idle <- IdleAfter, enabled <- s1, paired <- s2, holder <- s3,
    quiet <- s4, sock <- s5, conns <- s6, call <- s7
send == INSTANCE BrowserSend WITH Sends <- {1, 2, 3}, Url <- <<"a", "a", "b">>, Overtake <- FALSE,
    MaxTrouble <- 1, clicked <- s1, wire <- s2, hand <- s3, quiet <- s4, ready <- s5, parked <- s6,
    calls <- s7, boot <- s8, inbox <- s9, taking <- s10, opened <- s11, removed <- s12,
    told <- s13, trouble <- s14

-----------------------------------------------------------------------------
Init == part \in Parts /\
    \/ part = "mainrun" /\ mainrun!Init /\ BlankFrom11
    \/ part = "watch" /\ watch!Init
    \/ part = "track" /\ track!Init /\ BlankFrom10
    \/ part = "cleanup" /\ cleanup!Init /\ BlankFrom16
    \/ part = "schedule" /\ schedule!Init /\ BlankFrom14
    \/ part = "checks" /\ checks!Init /\ BlankFrom10
    \/ part = "stream" /\ stream!Init /\ BlankFrom9
    \/ part = "socket" /\ socket!Init /\ BlankFrom12
    \/ part = "ffmpeg" /\ ffmpeg!Init /\ BlankFrom10
    \/ part = "logs" /\ logs!Init /\ BlankFrom8
    \/ part = "remote" /\ remote!Init /\ BlankFrom8
    \/ part = "send" /\ send!Init /\ BlankFrom15

Next ==
    \/ part = "mainrun" /\ mainrun!Next /\ KeepFrom11
    \/ part = "watch" /\ watch!Next /\ KeepFrom17
    \/ part = "track" /\ track!Next /\ KeepFrom10
    \/ part = "cleanup" /\ cleanup!Next /\ KeepFrom16
    \/ part = "schedule" /\ schedule!Next /\ KeepFrom14
    \/ part = "checks" /\ checks!Next /\ KeepFrom10
    \/ part = "stream" /\ stream!Next /\ KeepFrom9
    \/ part = "socket" /\ socket!Next /\ KeepFrom12
    \/ part = "ffmpeg" /\ ffmpeg!Next /\ KeepFrom10
    \/ part = "logs" /\ logs!Next /\ KeepFrom8
    \/ part = "remote" /\ remote!Next /\ KeepFrom8
    \/ part = "send" /\ send!Next /\ KeepFrom15

vars == <<part, s1, s2, s3, s4, s5, s6, s7, s8, s9, s10, s11, s12, s13, s14, s15, s16>>
Spec == Init /\ [][Next]_vars

\* Each part's FairSpec, as its module states and defends it. A behavior has one
\* part, so fairness of a disjunction over the parts is each part's own. (It names
\* the sockets and devices of the run; the proofs use no fairness.)
Goes1 ==
    \/ part = "mainrun" /\ mainrun!Walk /\ KeepFrom11
    \/ part = "watch" /\ watch!Job /\ KeepFrom17
    \/ part = "track" /\ track!ScanAndStart /\ KeepFrom10
    \/ part = "cleanup" /\ cleanup!Runs /\ KeepFrom16
    \/ part = "schedule" /\ schedule!LoopStep /\ KeepFrom14
    \/ part = "checks" /\ checks!StartTimer /\ KeepFrom10
    \/ part = "stream" /\ stream!Deliver /\ KeepFrom9
    \/ part = "socket" /\ socket!Hop /\ KeepFrom12
    \/ part = "ffmpeg" /\ ffmpeg!SwapStep /\ KeepFrom10
    \/ part = "logs" /\ logs!TailEnds /\ KeepFrom8
    \/ part = "remote" /\ remote!Tick /\ KeepFrom8
    \/ part = "send" /\ send!Listen /\ KeepFrom15
Goes2 ==
    \/ part = "track" /\ track!PreFlight /\ KeepFrom10
    \/ part = "cleanup" /\ cleanup!CancelWakes /\ KeepFrom16
    \/ part = "schedule" /\ schedule!BootStep /\ KeepFrom14
    \/ part = "checks" /\ checks!StartLaunchCheck /\ KeepFrom10
    \/ part = "stream" /\ stream!TimerStep(1) /\ KeepFrom9
    \/ part = "socket" /\ socket!ReaderEnds /\ KeepFrom12
    \/ part = "ffmpeg" /\ ffmpeg!JobEnds /\ KeepFrom10
    \/ part = "logs" /\ (logs!CallOn \/ logs!CallOff \/ logs!Note) /\ KeepFrom8
    \/ part = "remote" /\ remote!SocketStep("s1") /\ KeepFrom8
    \/ part = "send"
       /\ (send!Parse("listener") \/ send!AddRow("listener") \/ send!Park("listener")
          \/ send!Emit("listener")) /\ KeepFrom15
Goes3 ==
    \/ part = "track" /\ track!RunEnds /\ KeepFrom10
    \/ part = "schedule" /\ (schedule!WakeLoop \/ schedule!StartDownload) /\ KeepFrom14
    \/ part = "checks" /\ checks!Rearm /\ KeepFrom10
    \/ part = "stream" /\ stream!TimerStep(2) /\ KeepFrom9
    \/ part = "socket" /\ socket!SenderStep /\ KeepFrom12
    \/ part = "ffmpeg" /\ ffmpeg!CheckStep(1) /\ KeepFrom10
    \/ part = "logs" /\ logs!SocketStep("s1") /\ KeepFrom8
    \/ part = "remote" /\ remote!SocketStep("s2") /\ KeepFrom8
    \/ part = "send"
       /\ (send!Parse("main") \/ send!AddRow("main") \/ send!Park("main") \/ send!Emit("main")) /\ KeepFrom15
Goes4 ==
    \/ part = "track" /\ track!Refused /\ KeepFrom10
    \/ part = "schedule" /\ schedule!BatchEnds /\ KeepFrom14
    \/ part = "checks" /\ checks!TimerStep(1) /\ KeepFrom10
    \/ part = "stream" /\ stream!TimerStep(3) /\ KeepFrom9
    \/ part = "ffmpeg" /\ ffmpeg!CheckStep(2) /\ KeepFrom10
    \/ part = "logs" /\ logs!SocketStep("s2") /\ KeepFrom8
    \/ part = "remote" /\ remote!CallStep("d1") /\ KeepFrom8
    \/ part = "send" /\ send!Boot /\ KeepFrom15
Goes5 ==
    \/ part = "track" /\ track!Fetched /\ KeepFrom10
    \/ part = "schedule" /\ schedule!WatchJobEnds /\ KeepFrom14
    \/ part = "checks" /\ checks!TimerStep(2) /\ KeepFrom10
    \/ part = "ffmpeg" /\ ffmpeg!RetryFire(1) /\ KeepFrom10
    \/ part = "remote" /\ remote!CallStep("d2") /\ KeepFrom8
    \/ part = "send" /\ send!Snapshot /\ KeepFrom15
Goes6 ==
    \/ part = "track" /\ track!Airs /\ KeepFrom10
    \/ part = "schedule" /\ schedule!Tick /\ KeepFrom14
    \/ part = "checks" /\ checks!TimerStep(3) /\ KeepFrom10
    \/ part = "ffmpeg" /\ ffmpeg!RetryFire(2) /\ KeepFrom10
    \/ part = "send" /\ send!TakeDelete /\ KeepFrom15
Recurs1 ==
    \/ part = "ffmpeg" /\ (\E c \in {1, 2} : ffmpeg!Fetch(c)) /\ KeepFrom10

FairSpec == /\ Spec
            /\ WF_vars(Goes1) /\ WF_vars(Goes2) /\ WF_vars(Goes3) /\ WF_vars(Goes4)
            /\ WF_vars(Goes5) /\ WF_vars(Goes6)
\* With FfmpegSwap's network, which is reached again and again.
NetSpec == FairSpec /\ SF_vars(Recurs1)

-----------------------------------------------------------------------------
(* Properties *)

\* What is asked to stop, stops: a cancelled batch, a Watch List run that has
\* walked its queue, a review that is cancelled while it waits, the log's tail
\* thread when its last viewer leaves, the socket of a page that has gone or of a
\* device that was cut off.
Stopping(r) == \/ part = "mainrun" /\ mainrun!Stopping(r)
               \/ part = "watch" /\ watch!Running
               \/ part = "cleanup" /\ cleanup!CancelTold
               \/ part = "logs" /\ logs!TailUnwatched
               \/ part = "socket" /\ socket!Withdrawn
Stopped(r) == \/ part = "mainrun" /\ mainrun!Stopped(r)
              \/ part = "watch" /\ ~watch!Running
              \/ part = "cleanup" /\ cleanup!ReviewEnded
              \/ part = "logs" /\ ~logs!TailUnwatched
              \/ part = "socket" /\ socket!Gone
WhatIsStoppedEnds == \A r \in {"r1", "r2"} : Stopping(r) ~> Stopped(r)

\* What comes round, comes round: the scheduled scan and the check for updates,
\* through wake-ups, re-anchorings, busy jobs and Off.
SetTo == \/ part = "schedule" /\ schedule!SetToScan
         \/ part = "checks" /\ checks!SetToCheck
Comes == \/ part = "schedule" /\ schedule!Scanned
         \/ part = "checks" /\ checks!Looks
TimersGoOn == SetTo ~> ~SetTo \/ Comes

\* What was put off arrives: a held progress frame, the newest frame of a socket
\* whose outbox ran over, a send that came before the page or during a job, the
\* FFmpeg the manifest offers.
PutOff(n) == \/ part = "stream" /\ stream!Held(n)
             \/ part = "socket" /\ socket!Sent(n)
             \/ part = "send" /\ send!Clicked(n)
             \/ part = "ffmpeg" /\ ffmpeg!Offered(n)
Arrives(n) == \/ part = "stream" /\ stream!Reached(n)
              \/ part = "socket" /\ socket!CameTo(n)
              \/ part = "send" /\ send!Lands(n)
              \/ part = "ffmpeg" /\ ffmpeg!Lands(n)
PutOffArrives == \A n \in 1 .. 3 : PutOff(n) ~> Arrives(n)

\* What a holder leaves behind is let go: a device that goes on asking for the
\* control lock does not find it held for good by one that is gone.
Claims(d) == part = "remote" /\ remote!Claims(d)
HeldByGone(d) == part = "remote" /\ remote!HeldByGone(d)
LeftBehindIsLetGo == \A d, e \in Devices :
    d # e => ([]<>Claims(e) => []<>~HeldByGone(d))

\* A track that is out and stays out is had in the end, or its name is: through
\* premieres, wobbles, stopped runs, lost rows and the age gate.
Out(t) == part = "track" /\ track!Out(t)
Had(t) == part = "track" /\ track!Had(t)
TrackArrives == \A t \in Tracks \ Locked : Out(t) ~> ~Out(t) \/ Had(t)

\* Nothing is done twice: a scheduled run within its interval, a fetch of a file
\* that is on disk, a rung of the age-gate ladder.
NothingTwice == /\ part = "schedule" => schedule!OneRunPerInterval
                /\ part = "track" => track!OneFetchPerFile /\ track!LadderEnds

\* A premiere is never buried, and no single bad answer hides a track.
PremiereIsKept == part = "track" => track!PremiereIsKept

\* No step takes the control lock from a device that is there, or a file from the
\* disk that was not offered, ticked and still gone from its channel.
NothingTaken == [][/\ part = "remote" => remote!KeepsLock
                   /\ part = "cleanup" => cleanup!TrashesTheOffered]_vars

-----------------------------------------------------------------------------
(* What the proofs assume of the constants. *)

ASSUME DevicesAreNamed == remote!None \notin Devices
ASSUME IntervalsAssumption ==
  /\ Intervals \subseteq Nat /\ Never \notin Intervals
  /\ \E a, b \in Intervals : \A i \in Intervals : a <= i /\ i <= b
ASSUME LadderAssumption == MaxAttempts \in Nat \ {0} /\ Key \in [Tracks -> Keys]

-----------------------------------------------------------------------------
(* RemoteControl: a socket that is registered stays one device's. *)

\* A socket is only ever turned, for the device it has, or replaced as a whole.
LEMMA SocketTurns ==
  ASSUME remote!SocketsAreTrue, NEW s \in Sockets, NEW next \in {"open", "closing"}, remote!Turn(s, next)
  PROVE  /\ s5' \in [Sockets -> remote!SocketState]
         /\ \A t \in Sockets : s5'[t].device = s5[t].device
         /\ s5'[s].pc = next /\ \A t \in Sockets \ {s} : s5'[t] = s5[t]
  <1>1. [s5[s] EXCEPT !.pc = next] \in remote!SocketState
        /\ [s5[s] EXCEPT !.pc = next].device = s5[s].device
        /\ [s5[s] EXCEPT !.pc = next].pc = next
    BY DEF remote!SocketsAreTrue, remote!SocketState
  <1>2. s5' = [s5 EXCEPT ![s] = [s5[s] EXCEPT !.pc = next]]
    BY DEF remote!Turn
  <1> QED
    BY <1>1, <1>2 DEF remote!SocketsAreTrue

LEMMA SocketsAreCut ==
  ASSUME remote!SocketsAreTrue, NEW cut, cut \subseteq s6, remote!CutSockets(cut)
  PROVE  remote!SocketsAreTrue' /\ \A t \in Sockets : s5'[t].device = s5[t].device
  <1>1. \A t \in Sockets : /\ [s5[t] EXCEPT !.pc = "closing"] \in remote!SocketState
                           /\ [s5[t] EXCEPT !.pc = "closing"].device = s5[t].device
    BY DEF remote!SocketsAreTrue, remote!SocketState
  <1>2. s5' = [t \in Sockets |-> IF t \in cut THEN [s5[t] EXCEPT !.pc = "closing"] ELSE s5[t]]
        /\ s6' = s6 \ cut
    BY DEF remote!CutSockets
  <1> QED
    BY <1>1, <1>2 DEF remote!SocketsAreTrue

LEMMA SocketStepsTrue ==
  ASSUME remote!SocketsAreTrue, NEW s \in Sockets,
         remote!Disconnect(s) \/ remote!SocketStep(s) \/ \E d \in Devices : remote!Accept(s, d)
  PROVE  remote!SocketsAreTrue' /\ \A t \in s6 \intersect s6' : s5'[t].device = s5[t].device
  <1>1. CASE remote!Disconnect(s)
    BY <1>1, SocketTurns DEF remote!Disconnect, remote!At, remote!SocketsAreTrue
  <1>2. CASE remote!Register(s)
    BY <1>2, SocketTurns DEF remote!Register, remote!At, remote!SocketsAreTrue
  <1>3. CASE remote!Unregister(s)
    BY <1>3 DEF remote!Unregister, remote!At, remote!NoSocket, remote!SocketState,
       remote!SocketsAreTrue
  <1>4. CASE \E d \in Devices : remote!Accept(s, d)
    <2>1. PICK d \in Devices : remote!Accept(s, d)
      BY <1>4
    <2>2. s \notin s6
      BY <2>1 DEF remote!Accept, remote!At, remote!None, remote!SocketsAreTrue
    <2>3. [pc |-> "accepted", device |-> d] \in remote!SocketState
      BY DEF remote!SocketState
    <2> QED
      BY <2>1, <2>2, <2>3 DEF remote!Accept, remote!SocketsAreTrue
  <1> QED
    BY <1>1, <1>2, <1>3, <1>4 DEF remote!SocketStep

\* While a socket is registered it stays one device's.
LEMMA SocketsStayTrue ==
  ASSUME remote!SocketsAreTrue, (remote!Next \/ UNCHANGED remote!vars)
  PROVE  remote!SocketsAreTrue' /\ \A s \in s6 \intersect s6' : s5'[s].device = s5[s].device
  <1>1. CASE remote!SwitchOff \/ \E d \in Devices : remote!Revoke(d)
    BY <1>1, SocketsAreCut DEF remote!SwitchOff, remote!Revoke, remote!Of, remote!SocketsAreTrue
  <1>2. CASE \E s \in Sockets : remote!Disconnect(s) \/ remote!SocketStep(s)
          \/ \E d \in Devices : remote!Accept(s, d)
    BY <1>2, SocketStepsTrue
  <1>3. CASE UNCHANGED remote!net
    BY <1>3 DEF remote!net, remote!SocketsAreTrue
  <1> QED
    BY <1>1, <1>2, <1>3 DEF remote!Next, remote!vars, remote!net, remote!SwitchOn, remote!Tick,
       remote!Pair, remote!CallStep, remote!Claim, remote!ReleaseControl,
                            remote!Other, remote!Rpc

LEMMA SocketsInit == remote!Init => remote!SocketsAreTrue
  BY DEF remote!Init, remote!NoSocket, remote!SocketState, remote!SocketsAreTrue

\* Who has the lock and a socket that stays registered loses the lock only by giving it
\* back: a cut, a displacement and the end of another socket leave it alone.
LEMMA LockIsKept ==
  ASSUME remote!SocketsAreTrue, remote!Next \/ UNCHANGED remote!vars PROVE remote!KeepsLock
  <1> SUFFICES ASSUME NEW d \in Devices, s3 = d, s3' # d,
                      NEW s \in s6, s \in s6', s5'[s].device = d
               PROVE  s7[d] = "release_control"
    BY DEF remote!KeepsLock
  <1>1. s \in remote!Of(d) /\ d # remote!None
    BY SocketsStayTrue, DevicesAreNamed DEF remote!Of
  <1>2. ~remote!SwitchOff
    BY DEF remote!SwitchOff, remote!CutSockets
  <1>3. ASSUME NEW e \in Devices, remote!Revoke(e) PROVE FALSE
    BY <1>1, <1>3 DEF remote!Revoke, remote!CutSockets
  <1>4. ASSUME NEW t \in Sockets, remote!Unregister(t) PROVE FALSE
    BY <1>1, <1>4 DEF remote!Unregister
  <1>5. ASSUME NEW e \in Devices, remote!Claim(e) PROVE FALSE
    BY <1>1, <1>5 DEF remote!Claim, remote!Displaceable, remote!Connected, remote!lock
  <1>6. ASSUME NEW e \in Devices, remote!ReleaseControl(e) PROVE s7[d] = "release_control"
    BY <1>6 DEF remote!ReleaseControl
  <1> QED
    BY <1>2, <1>3, <1>4, <1>5, <1>6
    DEF remote!Next, remote!vars, remote!lock, remote!SwitchOn, remote!Tick, remote!Disconnect, remote!SocketStep, remote!Register, remote!Accept, remote!Pair, remote!CallStep,
        remote!Other, remote!Rpc

-----------------------------------------------------------------------------
(* Cleanup: what a review offers, from the scan to the trash. *)

\* A scan flags nothing that is on the listing it was given.
LEMMA ScanOffers ==
  ASSUME cleanup!ReviewIsSound, cleanup!Scan, s4' = "publish"
  PROVE  cleanup!Offers(s8)'
  <1>1. PICK listed \in {Files \ s3, {}} :
           /\ listed # {} /\ s8' = cleanup!Flagged(listed) /\ UNCHANGED <<s5, s3>>
    BY DEF cleanup!Scan, cleanup!Finish
  <1>2. \A f \in s8' : Owner[f] = cleanup!Channel /\ f \in Files /\ f \notin Files \ s3
    BY <1>1 DEF cleanup!Flagged, cleanup!Folder, cleanup!ReviewIsSound
  <1> QED
    BY <1>1, <1>2 DEF cleanup!Offers, cleanup!Channel

\* Of the paths a page sends, only those the waiting review offered are kept.
LEMMA DecideIsSound ==
  ASSUME cleanup!ReviewIsSound, cleanup!Page
  PROVE  cleanup!ReviewIsSound'
  <1>1. PICK action \in {"confirm", "skip", "cancel"} : \E paths : cleanup!Decide(action, paths)
    BY DEF cleanup!Page
  <1>2. PICK paths : cleanup!Decide(action, paths)
    BY <1>1
  <1>3. /\ s7' = <<action, paths \cap s6>>
        /\ action = "confirm" => s12' = s12 \union paths
        /\ s12 \subseteq s12'
        /\ UNCHANGED <<s1, s3, s4, s5, s6, s8>>
    BY <1>2 DEF cleanup!Decide, cleanup!Chosen
  <1>4. s7'[1] = action /\ s7'[2] = paths \cap s6
    BY <1>3
  <1>5. cleanup!DecisionIsSound'
    BY <1>1, <1>3, <1>4 DEF cleanup!DecisionIsSound
  <1> QED
    BY <1>3, <1>5 DEF cleanup!ReviewIsSound, cleanup!Offers, cleanup!Channel

\* A run takes the answer to its review only while nothing was cancelled.
LEMMA TakeIsSound ==
  ASSUME cleanup!ReviewIsSound, cleanup!Take
  PROVE  cleanup!ReviewIsSound'
  <1>1. /\ s4 \in {"answer", "timeout"} /\ UNCHANGED <<s1, s3, s12>>
        /\ s4' \in {"idle", "channel", "trash"}
    BY DEF cleanup!Take
  <1>2. ASSUME s4' = "trash"
        PROVE  cleanup!Offers(s8)' /\ s8' \subseteq s12'
    <2>1. /\ s7 # <<>> /\ s7[1] \notin {"cancel", "skip"}
          /\ s8' = s7[2] /\ UNCHANGED <<s5, s3, s12>>
      BY <1>2 DEF cleanup!Take
    <2>2. cleanup!Offers(s6) /\ s7[2] \subseteq s6 /\ s7[2] \subseteq s12
      BY <1>1, <2>1 DEF cleanup!ReviewIsSound, cleanup!DecisionIsSound
    <2> QED
      BY <2>1, <2>2 DEF cleanup!Offers, cleanup!Channel
  <1> QED
    BY <1>1, <1>2 DEF cleanup!ReviewIsSound

LEMMA ReviewStaysSound == cleanup!ReviewIsSound /\ (cleanup!Next \/ UNCHANGED cleanup!vars) =>
    cleanup!ReviewIsSound'
  <1> SUFFICES ASSUME cleanup!ReviewIsSound, (cleanup!Next \/ UNCHANGED cleanup!vars)
    PROVE cleanup!ReviewIsSound'
    OBVIOUS
  <1>1. CASE cleanup!Start \/ cleanup!Reset
    BY <1>1 DEF cleanup!Start, cleanup!Reset, cleanup!ReviewIsSound
  <1>2. CASE cleanup!Scan
    <2>1. /\ UNCHANGED s1
          /\ s4' \in {"idle", "channel", "publish"}
      BY <1>2 DEF cleanup!Scan, cleanup!Finish
    <2> QED
      BY <1>2, <2>1, ScanOffers DEF cleanup!ReviewIsSound
  <1>3. CASE cleanup!Publish
    BY <1>3 DEF cleanup!Publish, cleanup!ReviewIsSound, cleanup!DecisionIsSound, cleanup!Offers,
       cleanup!Channel
  <1>4. CASE cleanup!Recheck
    BY <1>4 DEF cleanup!Recheck, cleanup!Finish, cleanup!ReviewIsSound, cleanup!DecisionIsSound,
       cleanup!Offers, cleanup!Channel
  <1>5. CASE cleanup!Answered \/ cleanup!TimesOut
    BY <1>5 DEF cleanup!Answered, cleanup!TimesOut, cleanup!Wake, cleanup!ReviewIsSound,
       cleanup!DecisionIsSound, cleanup!Offers, cleanup!Channel
  <1>6. CASE cleanup!Take
    BY <1>6, TakeIsSound
  <1>7. CASE cleanup!Trash
    BY <1>7 DEF cleanup!Trash, cleanup!ReviewIsSound
  <1>8. CASE cleanup!DropRows
    BY <1>8 DEF cleanup!DropRows, cleanup!ReviewIsSound
  <1>9. CASE cleanup!Page
    BY <1>9, DecideIsSound
  <1>10. CASE cleanup!Cancel \/ cleanup!CancelWakes
    BY <1>10 DEF cleanup!Cancel, cleanup!CancelWakes, cleanup!ReviewIsSound,
       cleanup!DecisionIsSound, cleanup!Offers, cleanup!Channel
  <1>11. CASE cleanup!Withdrawn
    BY <1>11 DEF cleanup!Withdrawn, cleanup!ReviewIsSound
  <1>12. CASE UNCHANGED cleanup!vars
    BY <1>12 DEF cleanup!vars, cleanup!ReviewIsSound, cleanup!DecisionIsSound, cleanup!Offers,
       cleanup!Channel
  <1> QED
    BY <1>1, <1>2, <1>3, <1>4, <1>5, <1>6, <1>7, <1>8, <1>9, <1>10, <1>11, <1>12
    DEF cleanup!Next, cleanup!Runs

LEMMA ReviewInit == cleanup!Init => cleanup!ReviewIsSound
  BY DEF cleanup!Init, cleanup!ReviewIsSound

\* Only a step of the trash takes files, and only those.
LEMMA TrashedWasOffered ==
  ASSUME cleanup!ReviewIsSound, cleanup!Next \/ UNCHANGED cleanup!vars PROVE cleanup!TrashesTheOffered
  <1>1. CASE cleanup!Trash
    <2>1. s4 = "trash" /\ s1 \ s1' \subseteq s8
      BY <1>1 DEF cleanup!Trash
    <2>2. cleanup!Offers(s8) /\ s8 \subseteq s12
      BY <2>1 DEF cleanup!ReviewIsSound
    <2> QED
      BY <2>1, <2>2 DEF cleanup!Offers, cleanup!TrashesTheOffered
  <1>2. CASE ~cleanup!Trash
    <2>1. s1' = s1
      BY <1>2 DEF cleanup!Next, cleanup!Runs, cleanup!vars, cleanup!Start, cleanup!Reset,
         cleanup!Scan, cleanup!Finish, cleanup!Publish, cleanup!Recheck, cleanup!Answered,
         cleanup!TimesOut, cleanup!Wake, cleanup!Take, cleanup!DropRows, cleanup!Page, cleanup!Decide, cleanup!Cancel, cleanup!CancelWakes, cleanup!Withdrawn
    <2> QED
      BY <2>1 DEF cleanup!TrashesTheOffered
  <1> QED
    BY <1>1, <1>2

-----------------------------------------------------------------------------
(* Scheduler: what is left to wait and what has passed make an interval. *)

\* Of finitely many intervals one is the shortest, one the longest.
LEMMA IntervalEnds == /\ schedule!Shortest \in Intervals /\ schedule!Longest \in Intervals
                      /\ \A i \in Intervals : schedule!Shortest <= i /\ i <= schedule!Longest
                      /\ schedule!Shortest \in Nat /\ schedule!Longest \in Nat
  <1>1. \E m \in Intervals : \A i \in Intervals : m <= i
    BY IntervalsAssumption
  <1>2. \E m \in Intervals : \A i \in Intervals : i <= m
    BY IntervalsAssumption
  <1> QED
    BY <1>1, <1>2, IntervalsAssumption DEF schedule!Shortest, schedule!Longest

LEMMA SchedulerInit == schedule!Init => schedule!CycleIsSpaced
  BY IntervalEnds DEF schedule!Init, schedule!CycleIsSpaced, schedule!LoopState, schedule!At

\* A cycle that is spent counts from now, and sends the loop to its top.
LEMMA SpentIsSpaced ==
  ASSUME schedule!CycleIsSpaced, schedule!Spent, UNCHANGED s5 PROVE schedule!CycleIsSpaced'
  <1>1. s9' = [s9 EXCEPT !.pc = "top"]
    BY DEF schedule!Spent, schedule!Goto
  <1>2. s9' \in schedule!LoopState /\ s9'.pc = "top"
    BY <1>1 DEF schedule!CycleIsSpaced, schedule!LoopState
  <1> QED
    BY <1>2, IntervalEnds DEF schedule!CycleIsSpaced, schedule!Spent, schedule!Reanchor, schedule!At

\* The loop goes to another place, with nothing spent or waited.
LEMMA GotoIsSpaced ==
  ASSUME schedule!CycleIsSpaced, UNCHANGED <<s5, s6, s13>>,
         NEW pc \in {"top", "ended", "read", "off", "idle", "scan", "poll", "found"}, schedule!Goto(pc),
         pc \in {"idle", "scan"} => s13 >= schedule!Shortest
  PROVE  schedule!CycleIsSpaced'
  <1>1. s9' \in schedule!LoopState /\ s9'.pc = pc
    BY DEF schedule!CycleIsSpaced, schedule!LoopState, schedule!Goto
  <1> QED
    BY <1>1 DEF schedule!CycleIsSpaced, schedule!At

LEMMA CycleStep == schedule!CycleIsSpaced /\ (schedule!Next \/ UNCHANGED schedule!vars) =>
    schedule!CycleIsSpaced'
  <1> SUFFICES ASSUME schedule!CycleIsSpaced, schedule!Next \/ UNCHANGED schedule!vars
    PROVE schedule!CycleIsSpaced'
    OBVIOUS
  <1>0. /\ s9 \in schedule!LoopState /\ s9.left \in Nat /\ s9.polls \in Nat
        /\ s6 \in Nat /\ s13 \in Nat /\ s6 <= s13 /\ s13 <= schedule!Longest
    BY DEF schedule!CycleIsSpaced, schedule!LoopState
  <1>1. CASE schedule!ClearWake
    BY <1>1, GotoIsSpaced DEF schedule!ClearWake
  <1>2. CASE schedule!Arm
    <2>1. CASE s5 = Never
      <3>1. schedule!Goto("off") /\ UNCHANGED <<s5, s6, s13>>
        BY <1>2, <2>1 DEF schedule!Arm, schedule!Goto
      <3> QED
        BY <3>1, GotoIsSpaced
    <2>2. CASE s5 # Never
      <3>1. s5 \in Intervals /\ s5 \in Nat /\ s5 >= schedule!Shortest
        BY <2>2, IntervalEnds, IntervalsAssumption DEF schedule!CycleIsSpaced
      <3>2. schedule!Delay \in Nat /\ schedule!Delay + s13 >= schedule!Shortest
        BY <1>0, <3>1, IntervalEnds DEF schedule!Delay
      <3>3. s9' = [s9 EXCEPT !.pc = "armed", !.left = schedule!Delay]
            /\ UNCHANGED <<s5, s6, s13>>
        BY <1>2, <2>2 DEF schedule!Arm
      <3> HIDE DEF schedule!Delay
      <3>4. s9' \in schedule!LoopState /\ s9'.pc = "armed" /\ s9'.left = schedule!Delay
        BY <1>0, <3>2, <3>3 DEF schedule!LoopState
      <3> QED
        BY <3>2, <3>3, <3>4 DEF schedule!CycleIsSpaced, schedule!At
    <2> QED
      BY <2>1, <2>2
  <1>3. CASE schedule!Woken
    BY <1>3, GotoIsSpaced DEF schedule!Woken
  <1>4. CASE schedule!TimesOut
    <2>1. s13 >= schedule!Shortest
      BY <1>0, <1>4, IntervalEnds DEF schedule!TimesOut, schedule!CycleIsSpaced
    <2> QED
      BY <1>4, <2>1, GotoIsSpaced DEF schedule!TimesOut
  <1>5. CASE schedule!FoundIdle
    <2>1. s13 >= schedule!Shortest
      BY <1>5 DEF schedule!FoundIdle, schedule!CycleIsSpaced, schedule!At
    <2> QED
      BY <1>5, <2>1, GotoIsSpaced DEF schedule!FoundIdle
  <1>6. CASE schedule!ScanAll
    <2>1. CASE s2 = "free"
      <3>1. s9' = [s9 EXCEPT !.pc = "poll", !.polls = 0]
            /\ UNCHANGED <<s5, s6, s13>>
        BY <1>6, <2>1 DEF schedule!ScanAll
      <3>2. s9' \in schedule!LoopState /\ s9'.pc = "poll"
        BY <1>0, <3>1 DEF schedule!LoopState
      <3> QED
        BY <3>1, <3>2 DEF schedule!CycleIsSpaced, schedule!At
    <2>2. CASE s2 # "free"
      BY <1>6, <2>2, SpentIsSpaced DEF schedule!ScanAll
    <2> QED
      BY <2>1, <2>2
  <1>7. CASE schedule!Settled
    BY <1>7, GotoIsSpaced DEF schedule!Settled
  <1>8. CASE schedule!Poll
    <2>1. CASE s1
      <3>1. schedule!Goto("top")
        BY <1>8, <2>1 DEF schedule!Poll, schedule!Goto
      <3> QED
        BY <1>8, <3>1, GotoIsSpaced DEF schedule!Poll
    <2>2. CASE ~s1
      <3> DEFINE polls == s9.polls + 1
      <3>1. s9' = [s9 EXCEPT !.polls = polls] /\ polls \in Nat /\ s9.pc = "poll"
        BY <1>0, <1>8, <2>2 DEF schedule!Poll, schedule!At
      <3> HIDE DEF polls
      <3>2. s9' \in schedule!LoopState /\ s9'.pc = "poll"
        BY <1>0, <3>1 DEF schedule!LoopState
      <3> QED
        BY <1>8, <3>2 DEF schedule!Poll, schedule!CycleIsSpaced, schedule!At
    <2> QED
      BY <2>1, <2>2
  <1>9. CASE schedule!GiveUp
    BY <1>9, SpentIsSpaced DEF schedule!GiveUp
  <1>10. CASE schedule!NothingFound \/ schedule!DownloadFound
    BY <1>10, SpentIsSpaced DEF schedule!NothingFound, schedule!DownloadFound
  <1>11. CASE UNCHANGED <<s5, s6, s9, s13>>
    BY <1>11 DEF schedule!CycleIsSpaced, schedule!At
  <1>12. CASE schedule!StoreInterval
    BY <1>12 DEF schedule!StoreInterval, schedule!CycleIsSpaced, schedule!At
  <1>13. CASE schedule!Stamp
    BY <1>0, <1>13 DEF schedule!Stamp, schedule!Reanchor, schedule!CycleIsSpaced, schedule!At
  <1>14. CASE schedule!Tick
    <2> DEFINE left == IF s9.left > 0 THEN s9.left - 1 ELSE 0
    <2>1. s9' = [s9 EXCEPT !.left = left] /\ UNCHANGED s5
          /\ s6' = schedule!Later(s6) /\ s13' = schedule!Later(s13)
      BY <1>14 DEF schedule!Tick
    <2>2. left \in Nat /\ left + 1 >= s9.left /\ left <= s9.left
      BY <1>0
    <2> HIDE DEF left
    <2>3. s9' \in schedule!LoopState /\ s9'.pc = s9.pc /\ s9'.left = left
      BY <1>0, <2>1, <2>2 DEF schedule!LoopState
    <2>4. /\ s6' \in Nat /\ s13' \in Nat /\ s6' <= s13' /\ s13' <= schedule!Longest
          /\ s13' >= s13
          /\ s13' = s13 + 1 \/ s13' = schedule!Longest
      BY <1>0, <2>1, IntervalEnds DEF schedule!Later
    <2>5. schedule!At("armed") => left + s13' >= schedule!Shortest
      <3> SUFFICES ASSUME schedule!At("armed") PROVE left + s13' >= schedule!Shortest
        OBVIOUS
      <3>1. s9.left + s13 >= schedule!Shortest
        BY DEF schedule!CycleIsSpaced
      <3>2. schedule!Shortest \in Nat /\ schedule!Longest \in Nat /\ schedule!Shortest <= schedule!Longest
        BY IntervalEnds
      <3>3. CASE s13' = s13 + 1
        BY <1>0, <2>2, <3>1, <3>2, <3>3
      <3>4. CASE s13' = schedule!Longest
        BY <2>2, <3>2, <3>4
      <3> QED
        BY <2>4, <3>3, <3>4
    <2> QED
      BY <1>0, <2>1, <2>3, <2>4, <2>5, IntervalEnds DEF schedule!CycleIsSpaced, schedule!At
  <1> QED
    BY <1>1, <1>2, <1>3, <1>4, <1>5, <1>6, <1>7, <1>8, <1>9, <1>10, <1>11, <1>12, <1>13, <1>14
    DEF schedule!Next, schedule!LoopStep, schedule!BootStep, schedule!SettleDown, schedule!TryNetwork, schedule!CheckBatch, schedule!BootScan, schedule!WakeLoop, schedule!StartBatch,
        schedule!StartScan, schedule!StartDownload, schedule!BatchEnds, schedule!WatchJobEnds, schedule!Close, schedule!vars, schedule!loopState, schedule!jobs, schedule!user

LEMMA CycleHolds == schedule!CycleIsSpaced => schedule!OneRunPerInterval
  BY DEF schedule!CycleIsSpaced, schedule!OneRunPerInterval, schedule!At

-----------------------------------------------------------------------------
(* TrackDownload: the ladder, the index of the files, the memory of the lost. *)

\* A refused attempt climbs down a rung, or ends the track; it is remembered only for
\* a permanent reason, of a track that is not just "soon".
LEMMA FailedEnds ==
  ASSUME track!RunIsSane, track!At("call"), NEW error, track!Failed(error),
         s2' = s2
  PROVE  /\ track!RunIsSane' /\ s5'.snap = s5.snap /\ s5'.pc \in {"next", "call"}
         /\ s5'.pc = "call" => s5'.t = s5.t
         /\ \/ s4' = s4
            \/ "soon" \notin error /\ \E why \in error \cap track!Permanent : track!Remembered(s5.t, why)
  <1> DEFINE age == IF s5.age # track!None THEN s5.age ELSE IF "age" \in error THEN "yes" ELSE "no"
  <1>1. s5 \in track!RunState /\ s5.pc = "call" /\ s2 \subseteq Keys
    BY DEF track!RunIsSane, track!At
  <1>2. CASE track!ClimbsDown(age, error)
    <2>2. age = "yes" /\ s5.auth
      BY <1>2 DEF track!ClimbsDown
    <2>1. s5' = [s5 EXCEPT !.auth = FALSE, !.attempt = 1, !.calls = @ + 1, !.age = "yes"]
          /\ s4' = s4
      BY <1>2, <2>2 DEF track!Failed
    <2>3. /\ s5.calls = s5.attempt /\ s5.attempt <= MaxAttempts /\ s5.t \in Tracks
          /\ s5.attempt \in Nat
      BY <1>1, <2>2 DEF track!RunIsSane, track!At, track!RunState
    <2> HIDE DEF age
    <2>4. /\ s5' \in track!RunState /\ s5'.pc = "call" /\ s5'.t = s5.t /\ s5'.snap = s5.snap
          /\ s5'.mode = s5.mode
          /\ ~s5'.auth /\ s5'.attempt = 1 /\ s5'.calls = s5.calls + 1
          /\ s5'.age = "yes"
      <3> DEFINE calls == s5.calls + 1
      <3>1. calls \in Nat
        BY <2>3
      <3>2. s5' = [s5 EXCEPT !.auth = FALSE, !.attempt = 1, !.calls = calls, !.age = "yes"]
        BY <2>1
      <3> HIDE DEF calls
      <3>3. /\ s5' \in track!RunState /\ s5'.pc = "call" /\ s5'.t = s5.t /\ s5'.snap = s5.snap
            /\ s5'.mode = s5.mode
            /\ ~s5'.auth /\ s5'.attempt = 1 /\ s5'.calls = calls /\ s5'.age = "yes"
        BY <1>1, <3>1, <3>2 DEF track!RunState
      <3> QED
        BY <3>3 DEF calls
    <2>5. s5'.calls <= MaxAttempts + s5'.attempt /\ 1 <= s5'.attempt /\ s5'.attempt <= MaxAttempts
      BY <2>3, <2>4, LadderAssumption
    <2>6. track!RunIsSane'
      BY <1>1, <2>3, <2>4, <2>5 DEF track!RunIsSane, track!At, track!None
    <2> QED
      BY <2>1, <2>4, <2>6
  <1>3. CASE ~track!ClimbsDown(age, error)
    <2>1. s5' = [s5 EXCEPT !.pc = "next", !.t = track!None, !.calls = 0]
      BY <1>3 DEF track!Failed
    <2>2. /\ s5' \in track!RunState /\ s5'.pc = "next" /\ s5'.calls = 0 /\ s5'.snap = s5.snap
          /\ s5'.mode = s5.mode
      BY <1>1, <2>1 DEF track!RunState
    <2>3. track!RunIsSane'
      BY <1>1, <2>2 DEF track!RunIsSane, track!At
    <2>4. \/ s4' = s4
          \/ "soon" \notin error /\ \E why \in error \cap track!Permanent : track!Remembered(s5.t, why)
      BY <1>3 DEF track!Failed, track!Classify, track!Remembered
    <2> QED
      BY <2>2, <2>3, <2>4
  <1> QED
    BY <1>2, <1>3

LEMMA RunStaysSane ==
  ASSUME track!RunIsSane, (track!Next \/ UNCHANGED track!vars)
  PROVE  track!RunIsSane'
  <1>0. s5 \in track!RunState /\ s2 \subseteq Keys
    BY DEF track!RunIsSane
  <1>a. track!Idle \in track!RunState /\ track!Idle.pc = "idle" /\ track!Idle.calls = 0
    BY DEF track!Idle, track!RunState
  <1>1. CASE track!ScanAndStart \/ track!BatchStart
    <2>1. s2' = s2
      BY <1>1 DEF track!ScanAndStart, track!BatchStart
    <2>2. \E mode \in Modes, todo \in SUBSET Tracks, upcoming \in SUBSET Tracks, cookies \in BOOLEAN :
             s5' = [track!Idle EXCEPT !.pc = "next", !.mode = mode, !.todo = todo, !.upcoming = upcoming,
                                 !.snap = s2, !.cookies = cookies]
      <3>1. CASE track!ScanAndStart
        <4>1. PICK upcoming \in track!Listings, cookies \in BOOLEAN :
                 s5' = [track!Idle EXCEPT !.pc = "next", !.mode = "watch",
                                     !.todo = {t \in Tracks : /\ s1[t] # "gone"
                                                              /\ track!Verdict(t, upcoming, s2) = "new"},
                                     !.upcoming = upcoming, !.snap = s2, !.cookies = cookies]
          BY <3>1 DEF track!ScanAndStart
        <4>2. "watch" \in Modes /\ upcoming \in SUBSET Tracks
          BY <3>1 DEF track!ScanAndStart, track!Listings
        <4> QED
          BY <4>1, <4>2
      <3>2. CASE track!BatchStart
        BY <3>2 DEF track!BatchStart, track!Listings
      <3> QED
        BY <1>1, <3>1, <3>2
    <2>3. PICK mode \in Modes, todo \in SUBSET Tracks, upcoming \in SUBSET Tracks, cookies \in BOOLEAN :
             s5' = [track!Idle EXCEPT !.pc = "next", !.mode = mode, !.todo = todo, !.upcoming = upcoming,
                                 !.snap = s2, !.cookies = cookies]
      BY <2>2
    <2>4. s5' \in track!RunState /\ s5'.pc = "next" /\ s5'.calls = 0 /\ s5'.mode \in Modes
      BY <1>0, <1>a, <2>3 DEF track!RunState
    <2> QED
      BY <1>0, <2>1, <2>4 DEF track!RunIsSane, track!At
  <1>2. CASE track!PreFlight
    <2>1. PICK u \in s5.todo :
             s5' = IF u \in s5.upcoming \/ track!Skips(s5.mode, track!InTable(u), Key[u] \in s5.snap)
                    THEN [s5 EXCEPT !.todo = @ \ {u}]
                    ELSE [s5 EXCEPT !.todo = @ \ {u}, !.pc = "call", !.t = u, !.auth = s5.cookies,
                                     !.attempt = 1, !.calls = 1, !.age = track!None]
      BY <1>2 DEF track!PreFlight
    <2>2. u \in Tracks /\ s2' = s2 /\ s5.pc = "next" /\ s5.calls = 0
      BY <1>0, <1>2 DEF track!PreFlight, track!RunState, track!RunIsSane, track!At
    <2>3. CASE s5' = [s5 EXCEPT !.todo = @ \ {u}]
      <3>1. s5' \in track!RunState /\ s5'.pc = "next" /\ s5'.calls = 0 /\ s5'.mode = s5.mode
        BY <1>0, <2>2, <2>3 DEF track!RunState
      <3> QED
        BY <1>0, <2>2, <3>1 DEF track!RunIsSane, track!At
    <2>4. CASE s5' = [s5 EXCEPT !.todo = @ \ {u}, !.pc = "call", !.t = u, !.auth = s5.cookies,
                                  !.attempt = 1, !.calls = 1, !.age = track!None]
      <3>1. /\ s5' \in track!RunState /\ s5'.pc = "call" /\ s5'.t = u /\ s5'.mode = s5.mode
            /\ s5'.attempt = 1 /\ s5'.calls = 1 /\ s5'.age = track!None
        BY <1>0, <2>2, <2>4 DEF track!RunState
      <3> QED
        BY <1>0, <2>2, <3>1, LadderAssumption DEF track!RunIsSane, track!At, track!None
    <2> QED
      BY <2>1, <2>3, <2>4
  <1>3. CASE track!RunEnds \/ track!Stop
    BY <1>0, <1>a, <1>3 DEF track!RunEnds, track!Stop, track!RunIsSane, track!At
  <1>4. CASE track!Refused \/ track!Blip
    BY <1>4, FailedEnds DEF track!Refused, track!Blip
  <1>5. CASE track!Wobbled
    <2>1. s2' = s2 /\ track!At("call")
      BY <1>5 DEF track!Wobbled
    <2>2. CASE s5.attempt < MaxAttempts
      <3> DEFINE attempt == s5.attempt + 1
                 calls == s5.calls + 1
      <3>1. s5' = [s5 EXCEPT !.attempt = attempt, !.calls = calls]
        BY <1>5, <2>2 DEF track!Wobbled
      <3>2. s5.attempt \in Nat /\ s5.calls \in Nat /\ attempt \in Nat /\ calls \in Nat
        BY <1>0 DEF track!RunState
      <3> HIDE DEF attempt, calls
      <3>3. /\ s5' \in track!RunState /\ s5'.pc = s5.pc /\ s5'.t = s5.t /\ s5'.mode = s5.mode
            /\ s5.auth <=> s5'.auth
            /\ s5'.attempt = attempt /\ s5'.calls = calls /\ s5'.age = s5.age
        BY <1>0, <3>1, <3>2 DEF track!RunState
      <3> QED
        BY <1>0, <2>1, <2>2, <3>2, <3>3, LadderAssumption DEF track!RunIsSane, track!At, attempt,
           calls
    <2>3. CASE ~(s5.attempt < MaxAttempts)
      BY <1>5, <2>1, <2>3, FailedEnds DEF track!Wobbled
    <2> QED
      BY <2>2, <2>3
  <1>6. CASE track!Fetched
    <2>1. s5.t \in Tracks /\ Key[s5.t] \in Keys /\ s2' = s2 \union {Key[s5.t]}
          /\ s5.mode \in Modes
      BY <1>6, LadderAssumption DEF track!Fetched, track!RunIsSane, track!At
    <2>2. s5' = [s5 EXCEPT !.pc = "next", !.t = track!None, !.calls = 0,
                             !.snap = @ \union {Key[s5.t]}]
      BY <1>6 DEF track!Fetched, track!Remember
    <2>3. s5' \in track!RunState /\ s5'.pc = "next" /\ s5'.calls = 0 /\ s5'.mode = s5.mode
      BY <1>0, <2>1, <2>2 DEF track!RunState
    <2> QED
      BY <1>0, <2>1, <2>3 DEF track!RunIsSane, track!At
  <1>7. CASE UNCHANGED s5 /\ s2' \subseteq s2
    BY <1>0, <1>7 DEF track!RunIsSane, track!At
  <1> QED
    BY <1>1, <1>2, <1>3, <1>4, <1>5, <1>6, <1>7
    DEF track!Next, track!vars, track!Airs, track!Withdrawn, track!GeoAges, track!Deletes, track!Forget

LEMMA FetchesStayKnown ==
  ASSUME Modes \subseteq {"watch", "both", "folder"},
         track!RunIsSane, track!FetchesAreKnown, (track!Next \/ UNCHANGED track!vars)
  PROVE  track!FetchesAreKnown'
  <1>0. s5 \in track!RunState /\ s6 \in [Keys -> Nat] /\ s5'.snap \subseteq Keys
    BY RunStaysSane DEF track!RunIsSane, track!RunState, track!FetchesAreKnown
  <1>1. CASE track!ScanAndStart \/ track!BatchStart
    <2>1. s5'.snap = s2 /\ s5'.pc = "next"
      BY <1>1 DEF track!ScanAndStart, track!BatchStart, track!Idle
    <2>2. UNCHANGED <<s6, s2>>
      BY <1>1 DEF track!ScanAndStart, track!BatchStart
    <2> QED
      BY <2>1, <2>2 DEF track!FetchesAreKnown, track!At
  <1>2. CASE track!PreFlight
    <2>1. UNCHANGED <<s6, s2>> /\ track!At("next")
      BY <1>2 DEF track!PreFlight
    <2>2. PICK u \in s5.todo :
             s5' = IF u \in s5.upcoming \/ track!Skips(s5.mode, track!InTable(u), Key[u] \in s5.snap)
                    THEN [s5 EXCEPT !.todo = @ \ {u}]
                    ELSE [s5 EXCEPT !.todo = @ \ {u}, !.pc = "call", !.t = u, !.auth = s5.cookies,
                                     !.attempt = 1, !.calls = 1, !.age = track!None]
      BY <1>2 DEF track!PreFlight
    <2>3. CASE u \in s5.upcoming \/ track!Skips(s5.mode, track!InTable(u), Key[u] \in s5.snap)
      <3>1. s5'.pc = "next" /\ s5'.snap = s5.snap
        BY <1>0, <2>1, <2>2, <2>3 DEF track!RunState, track!At
      <3> QED
        BY <2>1, <3>1 DEF track!FetchesAreKnown, track!At
    <2>4. CASE ~(u \in s5.upcoming \/ track!Skips(s5.mode, track!InTable(u), Key[u] \in s5.snap))
      <3>1. s5'.pc = "call" /\ s5'.snap = s5.snap /\ s5'.t = u
        BY <1>0, <2>2, <2>4 DEF track!RunState
      <3>2. Key[u] \notin s5.snap
        BY <1>0, <2>1, <2>4 DEF track!Skips, track!RunIsSane, track!At
      <3> QED
        BY <2>1, <3>1, <3>2 DEF track!FetchesAreKnown, track!At
    <2> QED
      BY <2>3, <2>4
  <1>3. CASE track!RunEnds \/ track!Stop
    BY <1>3 DEF track!RunEnds, track!Stop, track!Idle, track!FetchesAreKnown, track!At
  <1>4. CASE track!Refused \/ track!Blip \/ track!Wobbled
    <2>1. /\ UNCHANGED <<s6, s2>> /\ track!At("call")
          /\ s5'.snap = s5.snap /\ s5'.pc \in {"next", "call"}
          /\ s5'.pc = "call" => s5'.t = s5.t
      <3>1. UNCHANGED <<s6, s2>> /\ track!At("call")
        BY <1>4 DEF track!Refused, track!Blip, track!Wobbled
      <3>2. CASE \E error : track!Failed(error)
        BY <3>1, <3>2, FailedEnds
      <3>3. CASE s5' = [s5 EXCEPT !.attempt = @ + 1, !.calls = @ + 1]
        BY <1>0, <3>1, <3>3 DEF track!RunState, track!At
      <3> QED
        BY <1>4, <3>1, <3>2, <3>3 DEF track!Refused, track!Blip, track!Wobbled
    <2> QED
      BY <2>1 DEF track!FetchesAreKnown, track!At
  <1>5. CASE track!Fetched
    <2> DEFINE k == Key[s5.t]
    <2>1. k \in Keys /\ track!At("call") /\ k \notin s5.snap
      BY <1>5, LadderAssumption DEF track!Fetched, track!RunIsSane, track!FetchesAreKnown
    <2>2. s6[k] = 0
      BY <1>0, <2>1 DEF track!FetchesAreKnown, track!At
    <2>3. /\ s2' = s2 \union {k} /\ s6' = [s6 EXCEPT ![k] = @ + 1]
          /\ s5' = [s5 EXCEPT !.pc = "next", !.t = track!None, !.calls = 0, !.snap = @ \union {k}]
      BY <1>5 DEF track!Fetched, track!Remember
    <2> HIDE DEF k
    <2>4. s5'.pc = "next" /\ s5'.snap = s5.snap \union {k}
      BY <1>0, <2>3 DEF track!RunState
    <2>5. /\ s6' \in [Keys -> Nat] /\ s6'[k] = 1
          /\ \A j \in Keys \ {k} : s6'[j] = s6[j]
      BY <1>0, <2>1, <2>2, <2>3
    <2> QED
      BY <2>1, <2>3, <2>4, <2>5 DEF track!FetchesAreKnown, track!At
  <1>6. CASE track!Deletes
    <2>1. PICK k \in s2 : s2' = s2 \ {k} /\ s6' = [s6 EXCEPT ![k] = 0]
      BY <1>6 DEF track!Deletes
    <2>2. s5' = s5 /\ k \in Keys
      BY <1>6 DEF track!Deletes, track!RunIsSane
    <2>3. /\ s6' \in [Keys -> Nat] /\ s6'[k] = 0
          /\ \A j \in Keys \ {k} : s6'[j] = s6[j]
      BY <1>0, <2>1, <2>2
    <2> QED
      BY <2>1, <2>2, <2>3 DEF track!FetchesAreKnown, track!At
  <1>7. CASE UNCHANGED <<s5, s2, s6>>
    BY <1>7 DEF track!FetchesAreKnown, track!At
  <1> QED
    BY <1>1, <1>2, <1>3, <1>4, <1>5, <1>6, <1>7 DEF track!Next, track!vars, track!Airs,
       track!Withdrawn, track!GeoAges, track!Forget

LEMMA MemoryStaysFair ==
  ASSUME track!RunIsSane, track!MemoryIsFair, (track!Next \/ UNCHANGED track!vars)
  PROVE  track!MemoryIsFair'
  <1>0. /\ s4 \in [Tracks -> [why : track!Permanent \union {track!None}, n : Nat, old : BOOLEAN]]
        /\ s1 \in [Tracks -> {"soon", "out", "gone"}] /\ s8 \in Nat
    BY DEF track!MemoryIsFair
  <1>1. ASSUME track!At("call"), NEW error, track!Failed(error), UNCHANGED <<s1, s2, s7>>,
               s8' \in Nat, s8 <= s8',
               NEW why \in error \cap track!Permanent, "soon" \notin error, track!Remembered(s5.t, why),
               s5.t \in s7 \/ (why # "DRM-protected" /\ s8' = s8 + 1)
        PROVE  track!MemoryIsFair'
    <2>1. s5.t \in Tracks /\ s4[s5.t].n \in Nat
      BY <1>0, <1>1 DEF track!RunIsSane
    <2> DEFINE m == [why |-> why, n |-> s4[s5.t].n + 1, old |-> FALSE]
    <2>2. s4' = [s4 EXCEPT ![s5.t] = m]
      BY <1>1 DEF track!Remembered
    <2>3. /\ m \in [why : track!Permanent \union {track!None}, n : Nat, old : BOOLEAN]
          /\ m.n = s4[s5.t].n + 1 /\ m.why = why
      BY <2>1
    <2> HIDE DEF m
    <2>4. /\ s4' \in [Tracks -> [why : track!Permanent \union {track!None}, n : Nat, old : BOOLEAN]]
          /\ s4'[s5.t] = m /\ \A t \in Tracks \ {s5.t} : s4'[t] = s4[t]
      BY <1>0, <2>1, <2>2, <2>3
    <2>5. ASSUME NEW t \in Tracks \ s7
          PROVE  s4'[t].n <= s8' /\ s4'[t].why # "DRM-protected"
      <3>1. s4[t].n <= s8 /\ s4[t].why # "DRM-protected" /\ s4[t].n \in Nat
        BY <1>0 DEF track!MemoryIsFair
      <3>2. CASE t = s5.t
        BY <1>0, <1>1, <2>3, <2>4, <3>1, <3>2
      <3>3. CASE t # s5.t
        BY <1>0, <1>1, <2>4, <3>1, <3>3
      <3> QED
        BY <3>2, <3>3
    <2> QED
      BY <1>0, <1>1, <2>4, <2>5 DEF track!MemoryIsFair
  <1>2. ASSUME UNCHANGED <<s4, s1, s7>>, s8' \in Nat, s8 <= s8' PROVE track!MemoryIsFair'
    BY <1>0, <1>2 DEF track!MemoryIsFair
  <1>3. ASSUME s5.t \in Tracks, NEW error \in track!Refusals(s5.t), "soon" \notin error,
               error \cap track!Permanent # {}
        PROVE  s5.t \in s7
    BY <1>0, <1>3 DEF track!Refusals, track!MemoryIsFair, track!Permanent
  <1>4. CASE track!Refused
    <2>1. PICK error \in track!Refusals(s5.t) : track!Failed(error)
      BY <1>4 DEF track!Refused
    <2>2. UNCHANGED <<s1, s2, s7, s8>> /\ track!At("call") /\ s5.t \in Tracks
      BY <1>4 DEF track!Refused, track!RunIsSane
    <2> QED
      BY <1>0, <1>1, <1>2, <1>3, <2>1, <2>2, FailedEnds
  <1>5. CASE track!Blip
    <2>1. PICK why \in {"Removed", "Geo-blocked"} : track!Failed({why})
      BY <1>5 DEF track!Blip
    <2>2. UNCHANGED <<s1, s2, s7>> /\ track!At("call") /\ s8' = s8 + 1
      BY <1>5 DEF track!Blip
    <2>3. s8' \in Nat /\ s8 <= s8'
      BY <1>0, <2>2
    <2>4. s4' = s4 \/ ("soon" \notin {why} /\ track!Remembered(s5.t, why))
      BY <2>1, <2>2, FailedEnds
    <2>5. CASE s4' = s4
      BY <1>2, <2>2, <2>3, <2>5
    <2>6. CASE "soon" \notin {why} /\ track!Remembered(s5.t, why)
      <3>1. why \in {why} \cap track!Permanent
        BY DEF track!Permanent
      <3> QED
        BY <1>1, <2>1, <2>2, <2>3, <2>6, <3>1
    <2> QED
      BY <2>4, <2>5, <2>6
  <1>6. CASE track!Wobbled
    <2>1. UNCHANGED <<s1, s2, s7, s8>> /\ track!At("call") /\ s5.t \in Tracks
      BY <1>6 DEF track!Wobbled, track!RunIsSane
    <2>2. CASE s4' = s4
      BY <1>0, <1>2, <2>1, <2>2
    <2>3. ASSUME NEW error \in {{"wobble"}} \union {e \union {"wobble"} : e \in track!Refusals(s5.t)},
                 track!Failed(error)
          PROVE  track!MemoryIsFair'
      <3>1. CASE error = {"wobble"}
        <4>1. error \cap track!Permanent = {}
          BY <3>1 DEF track!Permanent
        <4>2. s4' = s4
          BY <2>1, <2>3, <4>1, FailedEnds
        <4> QED
          BY <1>0, <1>2, <2>1, <4>2
      <3>2. CASE error # {"wobble"}
        <4>1. PICK e \in track!Refusals(s5.t) : error = e \union {"wobble"}
          BY <2>3, <3>2
        <4>2. "soon" \notin error /\ error \cap track!Permanent # {} => s5.t \in s7
          BY <1>3, <2>1, <4>1 DEF track!Permanent
        <4> QED
          BY <1>0, <1>1, <1>2, <2>1, <2>3, <4>2, FailedEnds
      <3> QED
        BY <3>1, <3>2
    <2> QED
      BY <1>6, <2>2, <2>3 DEF track!Wobbled
  <1>7. CASE track!Airs
    BY <1>0, <1>7 DEF track!Airs, track!MemoryIsFair
  <1>8. CASE track!Withdrawn
    BY <1>0, <1>8 DEF track!Withdrawn, track!MemoryIsFair
  <1>9. CASE track!GeoAges
    <2>1. PICK t \in Tracks : s4' = [s4 EXCEPT ![t].old = TRUE]
      BY <1>9 DEF track!GeoAges
    <2> DEFINE m == [s4[t] EXCEPT !.old = TRUE]
    <2>2. /\ m \in [why : track!Permanent \union {track!None}, n : Nat, old : BOOLEAN]
          /\ m.n = s4[t].n /\ m.why = s4[t].why
      BY <1>0
    <2>3. s4' = [s4 EXCEPT ![t] = m]
      BY <2>1
    <2> HIDE DEF m
    <2> QED
      BY <1>0, <1>9, <2>2, <2>3 DEF track!GeoAges, track!MemoryIsFair
  <1>10. CASE track!Forget
    <2>1. /\ track!Forgotten \in [why : track!Permanent \union {track!None}, n : Nat, old : BOOLEAN]
          /\ track!Forgotten.n = 0 /\ track!Forgotten.why # "DRM-protected"
      BY DEF track!Forgotten, track!None
    <2>2. s4' = [t \in Tracks |-> track!Forgotten] /\ UNCHANGED <<s1, s7, s8>>
      BY <1>10 DEF track!Forget
    <2> QED
      BY <1>0, <2>1, <2>2 DEF track!MemoryIsFair
  <1>11. CASE UNCHANGED <<s4, s1, s7, s8>>
    BY <1>0, <1>2, <1>11
  <1> QED
    BY <1>4, <1>5, <1>6, <1>7, <1>8, <1>9, <1>10, <1>11
    DEF track!Next, track!vars, track!ScanAndStart, track!BatchStart, track!PreFlight, track!RunEnds, track!Fetched, track!Stop, track!Deletes

LEMMA TracksInit == track!Init => track!RunIsSane /\ track!FetchesAreKnown /\ track!MemoryIsFair
  BY DEF track!Init, track!Idle, track!RunState, track!RunIsSane, track!FetchesAreKnown,
     track!MemoryIsFair, track!At, track!Forgotten, track!None, track!Permanent

LEMMA LadderIsBounded == track!RunIsSane => track!LadderEnds
  <1> SUFFICES ASSUME track!RunIsSane PROVE track!LadderEnds
    OBVIOUS
  <1>1. s5 \in track!RunState /\ s5.calls \in Nat /\ s5.attempt \in Nat
    BY DEF track!RunIsSane, track!RunState
  <1>2. CASE track!At("call")
    BY <1>1, <1>2, LadderAssumption DEF track!RunIsSane, track!RunState, track!LadderEnds
  <1>3. CASE ~track!At("call")
    BY <1>1, <1>3, LadderAssumption DEF track!RunIsSane, track!LadderEnds
  <1> QED
    BY <1>2, <1>3

LEMMA MemoryBuriesNone == track!MemoryIsFair => track!PremiereIsKept
  <1> SUFFICES ASSUME track!MemoryIsFair, NEW t \in Tracks \ s7
               PROVE  s4[t].n <= s8 /\ (s8 <= 1 => ~track!Suppressed(s4[t]))
    BY DEF track!PremiereIsKept
  <1>1. /\ s4[t].n <= s8 /\ s4[t].why # "DRM-protected"
        /\ s4[t].n \in Nat /\ s8 \in Nat
    BY DEF track!MemoryIsFair
  <1> QED
    BY <1>1 DEF track!Suppressed

-----------------------------------------------------------------------------
(* The parts together. *)

LiveInv == /\ part = "remote" => remote!SocketsAreTrue
           /\ part = "cleanup" => cleanup!ReviewIsSound
           /\ part = "schedule" => schedule!CycleIsSpaced
           /\ part = "track" => track!RunIsSane /\ track!MemoryIsFair

LEMMA LiveInit == Init => LiveInv /\ (part = "track" => track!FetchesAreKnown)
  BY SocketsInit, ReviewInit, SchedulerInit, TracksInit DEF Init, LiveInv

\* A step is one part's, and leaves a behavior that part's.
LEMMA OnePart == Next => part' = part
  BY DEF Next, KeepFrom8, KeepFrom9, KeepFrom10, KeepFrom11, KeepFrom12, KeepFrom13, KeepFrom14,
     KeepFrom15, KeepFrom16, KeepFrom17

\* What a step of the whole is for the part it is of.
LEMMA StepOfPart ==
  ASSUME Next \/ UNCHANGED vars
  PROVE  /\ part' = part
         /\ part = "remote" => remote!Next \/ UNCHANGED remote!vars
         /\ part = "cleanup" => cleanup!Next \/ UNCHANGED cleanup!vars
         /\ part = "schedule" => schedule!Next \/ UNCHANGED schedule!vars
         /\ part = "track" => track!Next \/ UNCHANGED track!vars
  <1>1. part' = part
    BY OnePart DEF vars
  <1>2. CASE Next
    BY <1>1, <1>2 DEF Next
  <1>3. CASE UNCHANGED vars
    BY <1>3 DEF vars, remote!vars, remote!access, remote!lock, remote!net, cleanup!vars,
       schedule!vars,
       schedule!jobs, schedule!user, track!vars
  <1> QED
    BY <1>1, <1>2, <1>3

LEMMA LiveStep == LiveInv /\ [Next]_vars => LiveInv'
  <1> SUFFICES ASSUME LiveInv, Next \/ UNCHANGED vars PROVE LiveInv'
    BY DEF vars
  <1>1. part = "remote" => remote!SocketsAreTrue'
    BY StepOfPart, SocketsStayTrue DEF LiveInv
  <1>2. part = "cleanup" => cleanup!ReviewIsSound'
    BY StepOfPart, ReviewStaysSound DEF LiveInv
  <1>3. part = "schedule" => schedule!CycleIsSpaced'
    BY StepOfPart, CycleStep DEF LiveInv
  <1>4. part = "track" => track!RunIsSane' /\ track!MemoryIsFair'
    BY StepOfPart, RunStaysSane, MemoryStaysFair DEF LiveInv
  <1> QED
    BY <1>1, <1>2, <1>3, <1>4, StepOfPart DEF LiveInv

\* Which files were fetched is known as long as no run goes by the downloads table alone.
LEMMA FetchStep ==
  ASSUME Modes \subseteq {"watch", "both", "folder"}
  PROVE  LiveInv /\ (part = "track" => track!FetchesAreKnown) /\ [Next]_vars
             => (part = "track" => track!FetchesAreKnown)'
  <1> SUFFICES ASSUME LiveInv, part = "track" => track!FetchesAreKnown, Next \/ UNCHANGED vars,
                      part' = "track"
               PROVE  track!FetchesAreKnown'
    BY DEF vars
  <1> QED
    BY StepOfPart, FetchesStayKnown DEF LiveInv

\* A premiere is never buried and no single bad answer hides a track, for any tracks,
\* bounds and skip modes (TrackDownload's classify_download_failure and is_suppressed).
THEOREM PremieresAreKept == Spec => []PremiereIsKept
  <1>1. LiveInv => PremiereIsKept
    BY MemoryBuriesNone DEF LiveInv, PremiereIsKept
  <1> QED
    BY <1>1, LiveInit, LiveStep, PTL DEF Spec

\* A scheduled scan keeps its interval, a file is fetched once while it stays on disk and
\* a track costs its ladder once, for any intervals, tracks and bounds: as long as no
\* run goes by the downloads table alone, where a row that was lost lets a file come again.
THEOREM NothingComesTwice ==
  ASSUME Modes \subseteq {"watch", "both", "folder"} PROVE Spec => []NothingTwice
  <1>1. LiveInv /\ (part = "track" => track!FetchesAreKnown) => NothingTwice
    BY CycleHolds, LadderIsBounded DEF LiveInv, NothingTwice, track!FetchesAreKnown,
       track!OneFetchPerFile
  <1> QED
    BY <1>1, LiveInit, LiveStep, FetchStep, PTL DEF Spec

\* No step takes the control lock from a device that is there, nor a file from the disk
\* that the user did not tick and the scan did not find gone, for any devices, sockets,
\* files, faults and runs.
THEOREM NothingIsTaken == Spec => NothingTaken
  <1>1. ASSUME LiveInv, [Next]_vars
        PROVE  [/\ part = "remote" => remote!KeepsLock
                /\ part = "cleanup" => cleanup!TrashesTheOffered]_vars
    <2> SUFFICES ASSUME Next \/ UNCHANGED vars
                 PROVE  /\ part = "remote" => remote!KeepsLock
                        /\ part = "cleanup" => cleanup!TrashesTheOffered
      BY <1>1 DEF vars
    <2> QED
      BY <1>1, StepOfPart, LockIsKept, TrashedWasOffered DEF LiveInv
  <1> QED
    BY <1>1, LiveInit, LiveStep, PTL DEF Spec, NothingTaken
=============================================================================
