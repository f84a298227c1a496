------------------------------ MODULE MCDesktop ------------------------------
(***************************************************************************)
(* The parts around the window, the settings and the network, each on a     *)
(* small instance. They share no state, so a behavior is one part's: part   *)
(* names it, s1, s2... are its variables.                                   *)
(***************************************************************************)
EXTENDS Integers, Sequences, FiniteSets, FiniteSetTheorems, WellFoundedInduction, TLAPS

CONSTANTS Places, MaxEvents,                              \* placement
          Desktops, Spots, Least, MaxLaunches,            \* fit
          Jobs, MaxChanges, MaxTicks,                     \* tray
          Builds, Values, Setters, MaxWrites,             \* settings
          Instances, Clients, Life, Limit, SweepAt,       \* pairing
          MaxTime, MaxCodes, MaxDevices,
          Listing, Pipe,                                  \* scanner
          Bundled, Current, Manifests, Installed,         \* check
          MaxChecks, MaxReleases,
          Outbox, MaxFrames,                              \* socket
          Chans, Orders, MaxTracks, MaxRuns, MaxImports,  \* runpanel
          MaxTrouble                                      \* tray, settings, pairing

VARIABLES part, s1, s2, s3, s4, s5, s6, s7, s8, s9, s10, s11, s12,
          s13, s14, s15, s16

\* A part with fewer variables leaves the others blank.
Blank == "blank"
BlankFrom16 == s16 = Blank
BlankFrom15 == s15 = Blank /\ BlankFrom16
BlankFrom14 == s14 = Blank /\ BlankFrom15
BlankFrom13 == s13 = Blank /\ BlankFrom14
BlankFrom12 == s12 = Blank /\ BlankFrom13
BlankFrom11 == s11 = Blank /\ BlankFrom12
BlankFrom10 == s10 = Blank /\ BlankFrom11
BlankFrom9 == s9 = Blank /\ BlankFrom10
BlankFrom8 == s8 = Blank /\ BlankFrom9
BlankFrom7 == s7 = Blank /\ BlankFrom8
KeepFrom17 == UNCHANGED part
KeepFrom16 == UNCHANGED s16 /\ KeepFrom17
KeepFrom15 == UNCHANGED s15 /\ KeepFrom16
KeepFrom14 == UNCHANGED s14 /\ KeepFrom15
KeepFrom13 == UNCHANGED s13 /\ KeepFrom14
KeepFrom12 == UNCHANGED s12 /\ KeepFrom13
KeepFrom11 == UNCHANGED s11 /\ KeepFrom12
KeepFrom10 == UNCHANGED s10 /\ KeepFrom11
KeepFrom9 == UNCHANGED s9 /\ KeepFrom10
KeepFrom8 == UNCHANGED s8 /\ KeepFrom9
KeepFrom7 == UNCHANGED s7 /\ KeepFrom8

\* Work areas: one monitor with a taskbar, one to the left of it, one above and
\* to the right, the primary listed last, one without an area, none at all.
Screen(x, y, w, h, bar) == [at |-> <<x, y>>, area |-> [x |-> x, y |-> y, w |-> w, h |-> h - bar]]
DesktopsValue == { <<Screen(0, 0, 4, 4, 1)>>, <<Screen(-5, 0, 5, 5, 0), Screen(0, 0, 4, 4, 1)>>,
                   <<Screen(0, 0, 4, 4, 1), Screen(4, -1, 3, 3, 0)>>,
                   <<Screen(4, 0, 5, 5, 0), Screen(9, 0, 0, 0, 0)>>, <<>> }
SpotsValue == [x : {-4, -1, 1, 5}, y : {-1, 0, 2}, w : {2, 5}, h : {2, 3}]
LeastValue == <<2, 2>>

\* A full release, a full one and a delta a later build is based on, a block that fails its checks.
KeysValue == {"yt"}
InstalledValue == [k \in KeysValue |-> 1]
ManifestsValue == { [build |-> 2, base |-> 0, full |-> TRUE, block |-> [k \in KeysValue |-> 1], valid |-> TRUE],
                    [build |-> 3, base |-> 2, full |-> TRUE, block |-> [k \in KeysValue |-> 2], valid |-> TRUE],
                    [build |-> 3, base |-> 0, full |-> FALSE, block |-> [k \in KeysValue |-> 0], valid |-> FALSE] }

\* A run is asked for one channel, and the other may join it.
OrdersValue == {<<"a">>}

placement == INSTANCE Placement WITH real <- s1, events <- s2, state <- s3, held <- s4,
    frame <- s5, maxed <- s6, dirty <- s7, tick <- s8, close <- s9, stopped <- s10,
    stored <- s11, early <- s12, missed <- s13, done <- s14
fit == INSTANCE WindowFit WITH MaxRuns <- MaxLaunches, desktop <- s1, saved <- s2,
    running <- s3, opened <- s4, maxed <- s5, runs <- s6
tray == INSTANCE TrayStatus WITH due <- s1, patch <- s2, label <- s3, menu <- s4, running <- s5,
    late <- s6, current <- s7, icon <- s8, ticks <- s9, timer <- s10, title <- s11,
    crossed <- s12, strays <- s13, changes <- s14, trouble <- s15, made <- s16
settings == INSTANCE SettingsStore WITH file <- s1, clock <- s2, app <- s3, left <- s4,
    seed <- s5, mem <- s6, setter <- s7, job <- s8, read <- s9, chosen <- s10, trouble <- s11,
    excused <- s12
pairing == INSTANCE Pairing WITH file <- s1, mem <- s2, fresh <- s3, pc <- s4, code <- s5,
    attempts <- s6, now <- s7, codes <- s8, trouble <- s9, delivered <- s10, tries <- s11
scanner == INSTANCE ScanWorker WITH Size <- Listing, site <- s1, portal <- s2, flipped <- s3,
    child <- s4, said <- s5, wrote <- s6, drained <- s7, held <- s8, cancel <- s9,
    parent <- s10, joined <- s11, outcome <- s12
check == INSTANCE UpdateCheck WITH Keys <- Bundled, live <- s1, releases <- s2, check <- s3, result <- s4,
    last <- s5, page <- s6, reading <- s7, offers <- s8
log == INSTANCE LogFile WITH Caps <- {0, 8}, Window <- 2, MaxLines <- 7, MaxBurst <- 1,
    file <- s1, written <- s2, cap <- s3, handler <- s4, burst <- s5, poll <- s6, search <- s7,
    view <- s8, trims <- s9, missed <- s10
socket == INSTANCE EventSocket WITH Size <- Outbox, emitted <- s1, listed <- s2, hops <- s3,
    outbox <- s4, sender <- s5, frame <- s6, cut <- s7, reading <- s8, link <- s9, page <- s10,
    lost <- s11
runpanel == INSTANCE RunPanel WITH run <- s1, queue <- s2, flags <- s3, joins <- s4,
    panel <- s5, last <- s6, status <- s7, bars <- s8, page <- s9, asks <- s10, import <- s11,
    imports <- s12, late <- s13, overtaken <- s14

-----------------------------------------------------------------------------
Init ==
    \/ part = "placement" /\ placement!Init /\ BlankFrom15
    \/ part = "fit" /\ fit!Init /\ BlankFrom7
    \/ part = "tray" /\ tray!Init
    \/ part = "settings" /\ settings!Init /\ BlankFrom13
    \/ part = "pairing" /\ pairing!Init /\ BlankFrom12
    \/ part = "scanner" /\ scanner!Init /\ BlankFrom13
    \/ part = "check" /\ check!Init /\ BlankFrom9
    \/ part = "log" /\ log!Init /\ BlankFrom11
    \/ part = "socket" /\ socket!Init /\ BlankFrom12
    \/ part = "runpanel" /\ runpanel!Init /\ BlankFrom15

Next ==
    \/ part = "placement" /\ placement!Next /\ KeepFrom15
    \/ part = "fit" /\ fit!Next /\ KeepFrom7
    \/ part = "tray" /\ tray!Next /\ KeepFrom17
    \/ part = "settings" /\ settings!Next /\ KeepFrom13
    \/ part = "pairing" /\ pairing!Next /\ KeepFrom12
    \/ part = "scanner" /\ scanner!Next /\ KeepFrom13
    \/ part = "check" /\ check!Next /\ KeepFrom9
    \/ part = "log" /\ log!Next /\ KeepFrom11
    \/ part = "socket" /\ socket!Next /\ KeepFrom12
    \/ part = "runpanel" /\ runpanel!Next /\ KeepFrom15

vars == <<part, s1, s2, s3, s4, s5, s6, s7, s8, s9, s10, s11, s12, s13, s14, s15, s16>>
Spec == Init /\ [][Next]_vars

-----------------------------------------------------------------------------
(* Properties *)

\* The window comes back where and as its user left it, in reach on whatever screens
\* there are at the time.
WindowReopens == /\ part = "placement" => placement!StoredIsChosen /\ placement!ReopensThere
                 /\ part = "fit" => fit!OpensInReach

\* What shows the app is true of it: the tray says what it is doing, the page gets a
\* socket's frames in their order through its overflows, and the panel of a run that
\* ended has no bar left and each channel on its settled row.
DesktopIsTrue == /\ part = "tray" => tray!TrayIsTrue
                 /\ part = "socket" => socket!FramesInOrder
                 /\ part = "runpanel" => runpanel!PanelSettles

\* What the user last set is what the app runs with, across launches, kills and an
\* older build, unless the config could not be read, moved or written.
ChoiceSurvives == part = "settings" => settings!ChoiceSurvives

\* A code pairs one device whoever races for it, and no address gets more than its
\* attempts a window.
PairingIsMetered == part = "pairing" => pairing!PairingIsMetered

\* A verdict is earned: a listing is one the channel gave in full and a channel is
\* called gone only when it is, and an announced update is one manifest's whole verdict.
VerdictIsEarned == /\ part = "scanner" => scanner!VerdictIsEarned
                   /\ part = "check" => check!OffersAreWhole

\* What the log's page shows is the log: whole lines, in order, through its trims.
PageIsWhole == part = "log" => log!LogIsWhole

-----------------------------------------------------------------------------
(* What the proofs assume of the constants. *)

ASSUME PlacesAssumption == Places \intersect {placement!Full, placement!Parked, placement!None} = {}
ASSUME FitAssumption ==
  /\ \A d \in Desktops : /\ Len(d) \in Nat /\ DOMAIN d = 1 .. Len(d)
                         /\ \A i \in DOMAIN d : d[i].area \in fit!Frames
  /\ Spots \subseteq fit!Frames
  /\ Least[1] \in Nat /\ Least[2] \in Nat
ASSUME SizeAssumption == Outbox \in Nat \ {0}
ASSUME ChansAreNamed == "none" \notin Chans
\* One older build beside this one; its name is none of the app's own.
ASSUME BuildsAssumption == /\ \A a, b \in Builds : a = b
                           /\ Builds \intersect {"config", "none", "tidy", "runs"} = {}
ASSUME PairingAssumption == Life \in Nat /\ Limit \in Nat /\ MaxCodes \in Nat
ASSUME ScanAssumption == Listing \in Nat /\ Pipe \in Nat \ {0}

-----------------------------------------------------------------------------
(* Placement: where the window is, what it says of itself, what is written. *)

LEMMA PlaceInit == placement!Init => placement!PlaceInv
  <1> SUFFICES ASSUME placement!Init PROVE placement!PlaceInv
    OBVIOUS
  <1>1. PICK p \in Places : /\ s1 = [state |-> "normal", frame |-> p, back |-> p] /\ s5 = p
                            /\ s11 = [frame |-> p, maxed |-> FALSE]
    BY DEF placement!Init
  <1>2. p \in placement!Frames /\ p # placement!Parked /\ p # placement!None /\ p # placement!Full
    BY PlacesAssumption DEF placement!Frames
  <1>3. placement!TypeOK
    BY <1>1, <1>2 DEF placement!Init, placement!TypeOK, placement!States, placement!Rest,
       placement!Frames
  <1>4. /\ s1.state = "normal" /\ s1.frame = p /\ s1.back = p /\ s11.frame = p
        /\ s2 = {} /\ s3 = "normal" /\ s4 = placement!None /\ s6 = FALSE /\ s7 = FALSE
        /\ s8.pc = "none" /\ s9.pc = "none" /\ s10 = FALSE
    BY <1>1 DEF placement!Init, placement!Rest
  <1> QED
    BY <1>1, <1>2, <1>3, <1>4 DEF placement!PlaceInv, placement!WindowIs,
       placement!FramesAreChosen, placement!Chosen, placement!BackIsKept,
       placement!ChangesAreWritten, placement!Told, placement!Kind

\* A gesture comes with nothing in flight.
LEMMA Gestures == ASSUME placement!PlaceInv, placement!Drag \/ placement!Maximize
    \/ placement!Minimize \/ placement!Restore
  PROVE placement!PlaceInv'
  <1>1. /\ s2 = {} /\ s4 = placement!None /\ s9.pc = "none" /\ ~s10
        /\ UNCHANGED <<s3, s4, s5, s6, s7, s8, s9, s10, s11, s12, s13>>
    BY DEF placement!Drag, placement!Maximize, placement!Minimize, placement!Restore,
       placement!Act, placement!Book, placement!PlaceInv, placement!WindowIs
  <1>2. s3 = s1.state /\ (s1.state = "normal" => ~s6) /\ (~s12 => s5 = s1.back)
    BY <1>1, PlacesAssumption DEF placement!PlaceInv, placement!WindowIs, placement!BackIsKept,
       placement!Dragged, placement!TypeOK
  <1>3. ASSUME NEW r \in [state : placement!States, frame : placement!Frames, back : Places], s1' = r,
               r.frame = IF r.state = "normal" THEN r.back ELSE IF r.state = "maximized" THEN placement!Full ELSE placement!Parked,
               s2' \subseteq {placement!Moved, placement!Told}',
               placement!Told' \notin s2' => r.state = s1.state,
               r.back # s1.back => r.state = s1.state /\ s1.state = "normal" /\ placement!Moved' \in s2'
        PROVE placement!PlaceInv'
    <2>1. placement!TypeOK' /\ placement!FramesAreChosen'
      BY <1>1, <1>3 DEF placement!PlaceInv, placement!TypeOK, placement!FramesAreChosen,
         placement!Chosen
    <2>2. placement!WindowIs'
      BY <1>1, <1>2, <1>3 DEF placement!PlaceInv, placement!WindowIs
    <2>3. placement!BackIsKept'
      BY <1>1, <1>2, <1>3 DEF placement!BackIsKept, placement!Dragged
    <2>4. placement!ChangesAreWritten'
      BY <1>1 DEF placement!PlaceInv, placement!ChangesAreWritten
    <2> QED
      BY <2>1, <2>2, <2>3, <2>4 DEF placement!PlaceInv
  <1>4. s1 \in [state : placement!States, frame : placement!Frames, back : Places]
          /\ Places \subseteq placement!Frames /\ placement!Full \in placement!Frames
             /\ placement!Parked \in placement!Frames
    BY DEF placement!PlaceInv, placement!TypeOK, placement!Frames
  <1>5. CASE placement!Drag
    <2>1. PICK p \in Places : s1' = [s1 EXCEPT !.frame = p, !.back = p] /\ s2' = s2 \union {<<"moved", p>>}
      BY <1>5 DEF placement!Drag, placement!Raised
    <2>2. s1.state = "normal"
      BY <1>5 DEF placement!Drag
    <2>3. s1' \in [state : placement!States, frame : placement!Frames, back : Places]
            /\ s1'.frame = p /\ s1'.back = p /\ s1'.state = "normal"
      BY <2>1, <2>2, <1>4
    <2> QED
      BY <1>1, <1>3, <2>1, <2>2, <2>3 DEF placement!Moved, placement!Told
  <1>6. CASE placement!Maximize
    <2>1. s1' = [s1 EXCEPT !.state = "maximized", !.frame = placement!Full]
            /\ s2' = s2 \union {<<"moved", placement!Full>>, <<"maximized", placement!Full>>}
      BY <1>6 DEF placement!Maximize, placement!Raised
    <2>2. s1' \in [state : placement!States, frame : placement!Frames, back : Places]
            /\ s1'.frame = placement!Full /\ s1'.back = s1.back
          /\ s1'.state = "maximized"
      BY <2>1, <1>4 DEF placement!States
    <2> QED
      BY <1>1, <1>3, <2>1, <2>2 DEF placement!Moved, placement!Told, placement!Kind
  <1>7. CASE placement!Minimize
    <2>1. s1' = [s1 EXCEPT !.state = "minimized", !.frame = placement!Parked]
            /\ s2' = s2 \union {<<"moved", placement!Parked>>, <<"minimized", placement!Parked>>}
      BY <1>7 DEF placement!Minimize, placement!Raised
    <2>2. s1' \in [state : placement!States, frame : placement!Frames, back : Places]
            /\ s1'.frame = placement!Parked /\ s1'.back = s1.back
          /\ s1'.state = "minimized"
      BY <2>1, <1>4 DEF placement!States
    <2> QED
      BY <1>1, <1>3, <2>1, <2>2 DEF placement!Moved, placement!Told, placement!Kind
  <1>8. CASE placement!Restore
    <2>1. CASE /\ s1' = [s1 EXCEPT !.state = "normal", !.frame = s1.back]
               /\ placement!Raised({<<"moved", s1.back>>, <<"restored", s1.back>>})
      <3>1. s1' \in [state : placement!States, frame : placement!Frames, back : Places]
              /\ s1'.frame = s1.back /\ s1'.back = s1.back
            /\ s1'.state = "normal"
        BY <2>1, <1>4 DEF placement!States
      <3> QED
        BY <1>1, <1>3, <2>1, <3>1 DEF placement!Moved, placement!Told, placement!Kind,
           placement!Raised
    <2>2. CASE /\ s1' = [s1 EXCEPT !.state = "maximized", !.frame = placement!Full]
               /\ placement!Raised({<<"moved", placement!Full>>, <<"maximized", placement!Full>>})
      <3>1. s1' \in [state : placement!States, frame : placement!Frames, back : Places]
              /\ s1'.frame = placement!Full /\ s1'.back = s1.back
            /\ s1'.state = "maximized"
        BY <2>2, <1>4 DEF placement!States
      <3> QED
        BY <1>1, <1>3, <2>2, <3>1 DEF placement!Moved, placement!Told, placement!Kind,
           placement!Raised
    <2> QED
      BY <1>8, <2>1, <2>2 DEF placement!Restore
  <1> QED
    BY <1>5, <1>6, <1>7, <1>8

LEMMA TellsMoved == ASSUME placement!PlaceInv, placement!OnMoved PROVE placement!PlaceInv'
  <1>1. PICK e \in s2 : /\ e[1] = "moved" /\ s2' = s2 \ {e}
                        /\ s4' = IF s10 THEN s4 ELSE e[2]
    BY DEF placement!OnMoved
  <1>2. UNCHANGED <<s1, s3, s5, s6, s7, s8, s9, s10, s11, s12, s13>>
    BY DEF placement!OnMoved
  <1>3. e = placement!Moved /\ e # placement!Told /\ e[2] = s1.frame
    BY <1>1 DEF placement!PlaceInv, placement!WindowIs, placement!Moved, placement!Told,
       placement!Kind, placement!TypeOK, placement!States
  <1>4. placement!TypeOK' /\ placement!WindowIs'
    BY <1>1, <1>2, <1>3 DEF placement!PlaceInv, placement!TypeOK, placement!WindowIs,
       placement!Moved, placement!Told, placement!Kind
  <1>5. placement!FramesAreChosen'
    BY <1>2 DEF placement!PlaceInv, placement!FramesAreChosen, placement!Chosen
  <1>6. placement!BackIsKept'
    BY <1>1, <1>2, <1>3 DEF placement!PlaceInv, placement!BackIsKept, placement!Dragged,
       placement!WindowIs, placement!Moved
  <1>7. placement!ChangesAreWritten'
    BY <1>1, <1>2 DEF placement!PlaceInv, placement!ChangesAreWritten
  <1> QED
    BY <1>4, <1>5, <1>6, <1>7 DEF placement!PlaceInv

LEMMA TellsState == ASSUME placement!PlaceInv, placement!OnState PROVE placement!PlaceInv'
  <1>1. PICK e \in s2 : /\ e[1] \in {"maximized", "minimized", "restored"} /\ s2' = s2 \ {e}
                        /\ s3' = (IF e[1] = "restored" THEN "normal" ELSE e[1])
                        /\ s6' = CASE e[1] = "maximized" -> TRUE [] e[1] = "restored" -> FALSE [] OTHER -> s6
                        /\ s7' = (s7 \/ s6' # s6)
                        /\ s13' = (s13 \/ (placement!Writing /\ s6' # s6))
    BY DEF placement!OnState
  <1>2. UNCHANGED <<s1, s4, s5, s8, s9, s10, s11, s12>>
    BY DEF placement!OnState
  <1>3. e = placement!Told /\ e[1] = placement!Kind
    BY <1>1 DEF placement!PlaceInv, placement!WindowIs, placement!Moved, placement!Told
  <1>4. s3' = s1.state /\ s6' \in BOOLEAN
        /\ (s1.state = "normal" => ~s6') /\ (s1.state = "maximized" => s6')
    BY <1>1, <1>3 DEF placement!PlaceInv, placement!TypeOK, placement!Kind, placement!States
  <1>5. placement!TypeOK'
    BY <1>1, <1>2, <1>4 DEF placement!PlaceInv, placement!TypeOK
  <1>6. placement!WindowIs'
    BY <1>1, <1>2, <1>4 DEF placement!PlaceInv, placement!WindowIs, placement!Told,
       placement!Moved, placement!Kind
  <1>7. placement!FramesAreChosen'
    BY <1>2 DEF placement!PlaceInv, placement!FramesAreChosen, placement!Chosen
  <1>8. placement!Moved # placement!Told
    BY DEF placement!PlaceInv, placement!TypeOK, placement!Moved, placement!Told, placement!Kind,
       placement!States
  <1>9. placement!BackIsKept'
    BY <1>1, <1>2, <1>3, <1>4, <1>8 DEF placement!PlaceInv, placement!BackIsKept,
       placement!Dragged, placement!Moved
  <1>10. placement!ChangesAreWritten'
    BY <1>1, <1>2, <1>5 DEF placement!PlaceInv, placement!TypeOK, placement!WindowIs,
       placement!ChangesAreWritten, placement!Writing
  <1> QED
    BY <1>5, <1>6, <1>7, <1>9, <1>10 DEF placement!PlaceInv

\* What a settle leaves: a frame the user gave, unless the window's own state is on its way.
LEMMA Settles ==
  ASSUME placement!PlaceInv, placement!Settle
  PROVE  /\ s4' = placement!None /\ s5' \in placement!Frames /\ s7' \in BOOLEAN /\ s5' # placement!Parked
         /\ s5' # s5 => s7' /\ ~s10
         /\ s7 => s7'
         /\ s10 => s7' = s7
         /\ s5' \in Places \/ s5' = s5 \/ (s4 # placement!None /\ \E e \in s2 : e[1] = "maximized")
         /\ (~s12 /\ ~s10) => (s5' = s1.back \/ (s3 = "normal" /\ s1.state = "normal" /\ placement!Moved \in s2)
                                   \/ (s4 # placement!None /\ \E e \in s2 : e[1] = "maximized"))
  <1>1. CASE s4 = placement!None \/ s10 \/ s3 # "normal" \/ ~placement!Placeable(s4)
    <2>1. UNCHANGED <<s5, s7>> /\ s4' = placement!None
      BY <1>1 DEF placement!Settle
    <2>2. ASSUME ~s12, ~s10, s5 # s1.back PROVE placement!Moved \in s2
      <3>1. placement!Dragged
        BY <2>2 DEF placement!PlaceInv, placement!BackIsKept
      <3>2. CASE s4 = s1.back
        <4>1. s4 # placement!None /\ s3 = "normal" /\ placement!Placeable(s4)
          BY <3>1, <3>2, PlacesAssumption DEF placement!Dragged, placement!PlaceInv,
             placement!TypeOK, placement!Placeable
        <4> QED
          BY <1>1, <2>2, <4>1
      <3> QED
        BY <3>1, <3>2 DEF placement!Dragged
    <2> QED
      BY <2>1, <2>2 DEF placement!PlaceInv, placement!TypeOK, placement!FramesAreChosen,
         placement!Chosen, placement!BackIsKept, placement!Dragged
  <1>2. CASE ~(s4 = placement!None \/ s10 \/ s3 # "normal" \/ ~placement!Placeable(s4))
    <2>1. s4' = placement!None /\ s5' = s4 /\ s7' = (s7 \/ s5 # s4)
      BY <1>2 DEF placement!Settle
    <2>2. s4 = s1.frame /\ s4 # placement!Parked /\ s4 \in placement!Frames /\ s3 = "normal"
            /\ s4 # placement!None
      BY <1>2 DEF placement!PlaceInv, placement!TypeOK, placement!WindowIs, placement!Placeable
    <2>3. CASE s1.state = "normal"
      BY <1>2, <2>1, <2>2, <2>3 DEF placement!PlaceInv, placement!WindowIs, placement!TypeOK
    <2>4. CASE s1.state = "maximized"
      <3>1. placement!Told \in s2 /\ placement!Told[1] = "maximized"
        BY <2>2, <2>4 DEF placement!PlaceInv, placement!WindowIs, placement!Told, placement!Kind
      <3> QED
        BY <1>2, <2>1, <2>2, <3>1 DEF placement!PlaceInv, placement!TypeOK
    <2> QED
      BY <2>2, <2>3, <2>4 DEF placement!PlaceInv, placement!WindowIs, placement!TypeOK,
         placement!States
  <1> QED
    BY <1>1, <1>2

\* A flush or the settle timer, while the window lives on.
LEMMA SettleStep ==
  ASSUME placement!PlaceInv, placement!Settle, UNCHANGED <<s1, s2, s3, s6, s9, s10, s11>>,
         s12' = (s12 \/ (s4 # placement!None /\ \E e \in s2 : e[1] = "maximized")) \/ (s12' = s12 /\ s2 = {}),
         s13' = (s13 \/ (placement!Writing /\ s5' # s5)),
         UNCHANGED s8 \/ (s8.pc = "none" /\ ~s10
             /\ (s8' = placement!Rest \/ s8' = [pc |-> "write", frame |-> s5', maxed |-> s6]))
  PROVE  placement!PlaceInv'
  <1>1. /\ s4' = placement!None /\ s5' \in placement!Frames /\ s7' \in BOOLEAN /\ s5' # placement!Parked
        /\ s5' # s5 => s7' /\ ~s10
        /\ s7 => s7'
        /\ s10 => s7' = s7
        /\ s5' \in Places \/ s5' = s5 \/ (s4 # placement!None /\ \E e \in s2 : e[1] = "maximized")
        /\ (~s12 /\ ~s10) => (s5' = s1.back \/ (s3 = "normal" /\ s1.state = "normal" /\ placement!Moved \in s2)
                                  \/ (s4 # placement!None /\ \E e \in s2 : e[1] = "maximized"))
    BY Settles
  <1>2. s12' \in BOOLEAN /\ s13' \in BOOLEAN /\ (s12 => s12') /\ (s13 => s13')
        /\ ((s4 # placement!None /\ \E e \in s2 : e[1] = "maximized") => s12')
    BY DEF placement!PlaceInv, placement!TypeOK
  <1>3. s8' = s8 \/ s8' = placement!Rest \/ (s8'.pc = "write" /\ s8'.frame = s5' /\ s8'.maxed = s6 /\ ~s10)
    OBVIOUS
  <1>4. placement!TypeOK'
    <2>1. s8' \in [pc : {"none", "write"}, frame : placement!Frames \cup {placement!None}, maxed : BOOLEAN]
      <3>1. s8 \in [pc : {"none", "write"}, frame : placement!Frames \cup {placement!None}, maxed : BOOLEAN] /\ s6 \in BOOLEAN
        BY DEF placement!PlaceInv, placement!TypeOK
      <3>2. placement!Rest \in [pc : {"none", "write"}, frame : placement!Frames \cup {placement!None}, maxed : BOOLEAN]
        BY DEF placement!Rest
      <3>3. [pc |-> "write", frame |-> s5', maxed |-> s6] \in [pc : {"none", "write"}, frame : placement!Frames \cup {placement!None}, maxed : BOOLEAN]
        BY <1>1, <3>1
      <3> QED
        BY <3>1, <3>2, <3>3
    <2> QED
      BY <1>1, <1>2, <2>1 DEF placement!PlaceInv, placement!TypeOK
  <1>5. placement!WindowIs'
    BY <1>1 DEF placement!PlaceInv, placement!WindowIs, placement!Told, placement!Moved,
       placement!Kind
  <1>6. placement!FramesAreChosen'
    BY <1>1, <1>2, <1>3 DEF placement!PlaceInv, placement!FramesAreChosen, placement!Chosen,
       placement!Rest
  <1>7. placement!BackIsKept'
    <2>1. CASE s10
      BY <1>1, <1>2, <2>1 DEF placement!PlaceInv, placement!BackIsKept
    <2>2. CASE ~s10
      BY <1>1, <1>2, <2>2 DEF placement!BackIsKept, placement!Dragged, placement!Moved
    <2> QED
      BY <2>1, <2>2
  <1>8. placement!ChangesAreWritten'
    <2>1. SUFFICES ASSUME ~s13' PROVE placement!ChangesAreWritten'
      BY DEF placement!ChangesAreWritten
    <2>2. ~s13 /\ (placement!Writing => s5' = s5)
      BY <2>1 DEF placement!PlaceInv, placement!TypeOK, placement!Writing
    <2> QED
      BY <1>1, <1>3, <2>2 DEF placement!PlaceInv, placement!ChangesAreWritten, placement!Writing,
         placement!Rest, placement!WindowIs
  <1> QED
    BY <1>4, <1>5, <1>6, <1>7, <1>8 DEF placement!PlaceInv

LEMMA Flushes == ASSUME placement!PlaceInv, placement!SettleTimer \/ placement!TickFlush
  PROVE placement!PlaceInv'
  <1>1. CASE placement!SettleTimer
    BY <1>1, SettleStep DEF placement!SettleTimer
  <1>2. CASE placement!TickFlush
    BY <1>2, SettleStep DEF placement!TickFlush, placement!Judge
  <1> QED
    BY <1>1, <1>2

LEMMA Writes == ASSUME placement!PlaceInv, placement!TickWrites \/ placement!StopWrites
  PROVE placement!PlaceInv'
  <1>1. UNCHANGED <<s1, s2, s3, s4, s5, s6, s10, s12>>
    BY DEF placement!TickWrites, placement!StopWrites
  <1>2. PICK w \in {s8, s9} :
          /\ w.pc = "write" /\ placement!Write(w)
          /\ \/ w = s8 /\ s8' = placement!Rest /\ s9' = s9
             \/ w = s9 /\ s9' = [placement!Rest EXCEPT !.pc = "closed"] /\ s8' = s8
    BY DEF placement!TickWrites, placement!StopWrites
  <1>3. \/ s11' = [frame |-> w.frame, maxed |-> w.maxed] /\ s7' = FALSE /\ s13' = s13
        \/ s13' = TRUE /\ s11' = s11 /\ s7' = s7
    BY <1>2 DEF placement!Write
  <1>4. placement!Chosen(w.frame) /\ w.maxed \in BOOLEAN /\ (~s13 => w.frame = s5 /\ w.maxed = s6)
    BY <1>2 DEF placement!PlaceInv, placement!FramesAreChosen, placement!ChangesAreWritten,
       placement!TypeOK
  <1>5. placement!TypeOK'
    <2>1. w.frame \in placement!Frames
      BY <1>4 DEF placement!Chosen
    <2>2. s11' \in [frame : placement!Frames, maxed : BOOLEAN] /\ s7' \in BOOLEAN /\ s13' \in BOOLEAN
      <3>1. [frame |-> w.frame, maxed |-> w.maxed] \in [frame : placement!Frames, maxed : BOOLEAN]
        BY <1>4, <2>1
      <3>2. s11 \in [frame : placement!Frames, maxed : BOOLEAN] /\ s7 \in BOOLEAN /\ s13 \in BOOLEAN
        BY DEF placement!PlaceInv, placement!TypeOK
      <3> QED
        BY <1>3, <3>1, <3>2
    <2>3. s8' \in [pc : {"none", "write"}, frame : placement!Frames \cup {placement!None}, maxed : BOOLEAN]
          /\ s9' \in [pc : {"none", "write", "closed"}, frame : placement!Frames \cup {placement!None}, maxed : BOOLEAN]
      <3>1. placement!Rest \in [pc : {"none", "write"}, frame : placement!Frames \cup {placement!None}, maxed : BOOLEAN]
            /\ [placement!Rest EXCEPT !.pc = "closed"] \in [pc : {"none", "write", "closed"}, frame : placement!Frames \cup {placement!None}, maxed : BOOLEAN]
        BY DEF placement!Rest
      <3> QED
        BY <1>2, <3>1 DEF placement!PlaceInv, placement!TypeOK
    <2> QED
      BY <1>1, <2>2, <2>3 DEF placement!PlaceInv, placement!TypeOK
  <1>6. placement!WindowIs'
    BY <1>1, <1>2 DEF placement!PlaceInv, placement!WindowIs, placement!Told, placement!Moved,
       placement!Kind, placement!Rest
  <1>7. placement!FramesAreChosen'
    BY <1>1, <1>2, <1>3, <1>4 DEF placement!PlaceInv, placement!FramesAreChosen, placement!Chosen,
       placement!Rest
  <1>8. placement!BackIsKept'
    BY <1>1, <1>3 DEF placement!PlaceInv, placement!BackIsKept, placement!Dragged, placement!Moved
  <1>9. placement!ChangesAreWritten'
    BY <1>1, <1>2, <1>3, <1>4 DEF placement!PlaceInv, placement!ChangesAreWritten, placement!Rest
  <1> QED
    BY <1>5, <1>6, <1>7, <1>8, <1>9 DEF placement!PlaceInv

\* The stop settles what it finds, unless a change or a write is on its way.
LEMMA Stops == ASSUME placement!PlaceInv, placement!Stop PROVE placement!PlaceInv'
  <1>1. /\ s9.pc = "none" /\ s10' = TRUE /\ placement!Settle
        /\ s12' = (s12 \/ (s4 # placement!None /\ \E e \in s2 : e[1] = "maximized"))
        /\ s13' = (s13 \/ placement!Writing \/ s2 # {})
        /\ s9' = (IF s7' THEN [pc |-> "write", frame |-> s5', maxed |-> s6]
                     ELSE [placement!Rest EXCEPT !.pc = "closed"])
        /\ UNCHANGED <<s1, s2, s3, s6, s8, s11>>
    BY DEF placement!Stop
  <1>2. ~s10
    BY <1>1 DEF placement!PlaceInv, placement!WindowIs
  <1>3. /\ s4' = placement!None /\ s5' \in placement!Frames /\ s7' \in BOOLEAN /\ s5' # placement!Parked
        /\ s5' # s5 => s7' /\ ~s10
        /\ s7 => s7'
        /\ s5' \in Places \/ s5' = s5 \/ (s4 # placement!None /\ \E e \in s2 : e[1] = "maximized")
        /\ (~s12 /\ ~s10) => (s5' = s1.back \/ (s3 = "normal" /\ s1.state = "normal" /\ placement!Moved \in s2)
                                  \/ (s4 # placement!None /\ \E e \in s2 : e[1] = "maximized"))
    BY <1>1, Settles
  <1>4. IF s7' THEN s9'.pc = "write" /\ s9'.frame = s5' /\ s9'.maxed = s6
                  ELSE s9'.pc = "closed"
    BY <1>1 DEF placement!Rest
  <1>5. placement!TypeOK'
    <2>1. s9' \in [pc : {"none", "write", "closed"}, frame : placement!Frames \cup {placement!None}, maxed : BOOLEAN]
      BY <1>1, <1>3 DEF placement!PlaceInv, placement!TypeOK, placement!Rest
    <2> QED
      BY <1>1, <1>3, <2>1 DEF placement!PlaceInv, placement!TypeOK, placement!Writing
  <1>6. placement!WindowIs'
    BY <1>1, <1>3, <1>4 DEF placement!PlaceInv, placement!WindowIs, placement!Told,
       placement!Moved, placement!Kind
  <1>7. placement!FramesAreChosen'
    BY <1>1, <1>3, <1>4 DEF placement!PlaceInv, placement!FramesAreChosen, placement!Chosen
  <1>8. placement!BackIsKept'
    BY <1>1, <1>2, <1>3 DEF placement!BackIsKept
  <1>9. placement!ChangesAreWritten'
    BY <1>1, <1>2, <1>3, <1>4 DEF placement!PlaceInv, placement!TypeOK,
       placement!ChangesAreWritten, placement!Writing
  <1> QED
    BY <1>5, <1>6, <1>7, <1>8, <1>9 DEF placement!PlaceInv

LEMMA PlaceStep == ASSUME placement!PlaceInv, placement!Next \/ UNCHANGED placement!vars
  PROVE placement!PlaceInv'
  <1>1. CASE UNCHANGED placement!vars
    BY <1>1 DEF placement!vars, placement!PlaceInv, placement!TypeOK, placement!WindowIs,
       placement!Told, placement!Moved, placement!Kind, placement!FramesAreChosen,
       placement!Chosen, placement!BackIsKept, placement!Dragged, placement!ChangesAreWritten
  <1> QED
    BY <1>1, Gestures, TellsMoved, TellsState, Flushes, Writes, Stops DEF placement!Next

LEMMA PlaceHolds == placement!PlaceInv => placement!StoredIsChosen /\ placement!ReopensThere
  BY DEF placement!PlaceInv, placement!TypeOK, placement!WindowIs, placement!FramesAreChosen,
     placement!Chosen, placement!BackIsKept, placement!ChangesAreWritten,
     placement!StoredIsChosen, placement!ReopensThere

-----------------------------------------------------------------------------
(* WindowFit: a window is moved onto a screen it fits. *)

LEMMA LeastNat == ASSUME NEW S, S \subseteq Nat, S # {} PROVE \E m \in S : \A n \in S : m <= n
  <1>1. PICK m \in S : \A n \in S : ~(<<n, m>> \in OpToRel(<, Nat))
    BY NatLessThanWellFounded, WFMin
  <1>2. \A n \in S : ~(n < m)
    BY <1>1 DEF OpToRel
  <1> QED
    BY <1>2

LEMMA Greatest == ASSUME NEW n \in Nat, NEW U, U \subseteq 1 .. n, U # {}, NEW f, \A i \in U : f[i] \in Int
                  PROVE \E i \in U : \A j \in U : f[j] <= f[i]
  <1> DEFINE Best(m) == \E i \in U : i <= m /\ \A j \in U : j <= m => f[j] <= f[i]
             Bad == {m \in 1 .. n : (\E i \in U : i <= m) /\ ~Best(m)}
  <1>0. \A i \in U : i \in Nat /\ 1 <= i /\ i <= n
    OBVIOUS
  <1>1. Bad = {}
    <2> SUFFICES ASSUME Bad # {} PROVE FALSE
      OBVIOUS
    <2>1. PICK m \in Bad : \A k \in Bad : m <= k
      <3>1. Bad \subseteq Nat
        OBVIOUS
      <3> HIDE DEF Bad
      <3> QED
        BY <3>1, LeastNat
    <2>2. m \in 1 .. n /\ m \in Nat /\ m - 1 \notin Bad /\ ~Best(m) /\ \E i \in U : i <= m
      <3>1. m - 1 \notin Bad
        <4>1. m \in Nat /\ ~(m <= m - 1)
          BY <2>1
        <4> HIDE DEF Bad
        <4> QED
          BY <2>1, <4>1
      <3> QED
        BY <2>1, <3>1
    <2>3. CASE \E i \in U : i <= m - 1
      <3>1. m - 1 \in 1 .. n
        <4>1. PICK i \in U : i <= m - 1
          BY <2>3
        <4> QED
          BY <4>1, <1>0, <2>2
      <3>2. PICK i \in U : i <= m - 1 /\ \A j \in U : j <= m - 1 => f[j] <= f[i]
        BY <2>2, <2>3, <3>1
      <3>3. CASE m \in U
        <4>1. f[m] \in Int /\ f[i] \in Int
          BY <3>3
        <4>0. \A j \in U : j <= m => j = m \/ j <= m - 1
          BY <1>0, <2>2
        <4>2. CASE f[m] <= f[i]
          <5>1. i <= m /\ \A j \in U : j <= m => f[j] <= f[i]
            BY <1>0, <2>2, <3>2, <4>0, <4>2
          <5> QED
            BY <2>2, <5>1
        <4>3. CASE f[i] < f[m]
          <5>1. \A j \in U : j <= m => f[j] <= f[m]
            <6>1. \A j \in U : j <= m - 1 => f[j] <= f[m]
              <7>1. \A j \in U : f[j] \in Int
                OBVIOUS
              <7> QED
                BY <7>1, <3>2, <4>1, <4>3
            <6> QED
              BY <4>0, <4>1, <6>1
          <5> QED
            BY <2>2, <3>3, <5>1
        <4> QED
          BY <4>1, <4>2, <4>3
      <3>4. CASE m \notin U
        BY <1>0, <2>2, <3>2, <3>4
      <3> QED
        BY <3>3, <3>4
    <2>4. CASE ~\E i \in U : i <= m - 1
      <3>1. m \in U
        BY <2>1, <2>2, <2>4
      <3>2. \A j \in U : j <= m => j = m
        BY <2>2, <2>4
      <3> QED
        BY <2>2, <3>1, <3>2
    <2> QED
      BY <2>3, <2>4
  <1>2. Best(n)
    <2>1. n \in 1 .. n /\ \E i \in U : i <= n
      <3>1. PICK i \in U : TRUE
        OBVIOUS
      <3> QED
        BY <1>0, <3>1
    <2> HIDE DEF Best
    <2> QED
      BY <1>1, <2>1
  <1> QED
    BY <1>0, <1>2

\* The screens of a desktop, and the one chosen among some of them.
LEMMA Rects == ASSUME NEW d \in Desktops
               PROVE \A s \in fit!ScreenRects(d) : s.area \in fit!Frames /\ s.nth \in Nat
  <1>1. Len(d) \in Nat /\ DOMAIN d = 1 .. Len(d) /\ \A i \in DOMAIN d : d[i].area \in fit!Frames
    BY FitAssumption
  <1>2. SUFFICES ASSUME NEW i \in DOMAIN d,
                        NEW s, s = [area |-> fit!Area(d[i]), nth |-> IF fit!Primary(d[i]) THEN i ELSE Len(d) + i]
                 PROVE s.area \in fit!Frames /\ s.nth \in Nat
    BY DEF fit!ScreenRects
  <1> QED
    BY <1>1, <1>2 DEF fit!Area

LEMMA First == ASSUME NEW screens, screens # {}, \A s \in screens : s.nth \in Nat
               PROVE fit!FirstOf(screens) \in screens
  <1>1. {s.nth : s \in screens} \subseteq Nat /\ {s.nth : s \in screens} # {}
    OBVIOUS
  <1>2. PICK m \in {s.nth : s \in screens} : \A n \in {s.nth : s \in screens} : m <= n
    BY <1>1, LeastNat
  <1>3. \E s \in screens : \A t \in screens : s.nth <= t.nth
    BY <1>2
  <1> QED
    BY <1>3 DEF fit!FirstOf

LEMMA OverlapIsInt == ASSUME NEW a \in fit!Frames, NEW b \in fit!Frames PROVE fit!Overlap(a, b) \in Int
  <1> DEFINE wide == fit!Smaller(a.x + a.w, b.x + b.w) - fit!Larger(a.x, b.x)
             tall == fit!Smaller(a.y + a.h, b.y + b.h) - fit!Larger(a.y, b.y)
  <1>1. wide \in Int /\ tall \in Int
    BY DEF fit!Frames, fit!Smaller, fit!Larger
  <1>2. fit!Overlap(a, b) = IF wide > 0 /\ tall > 0 THEN wide * tall ELSE 0
    BY DEF fit!Overlap
  <1> HIDE DEF wide, tall
  <1> QED
    BY <1>1, <1>2

LEMMA Most == ASSUME NEW d \in Desktops, fit!ScreenRects(d) # {}, NEW r \in fit!Frames
              PROVE fit!MostOverlapped(r, fit!ScreenRects(d)) \in fit!ScreenRects(d)
  <1> DEFINE U == {k \in DOMAIN d : d[k].area.w > 0 /\ d[k].area.h > 0}
             rect(i) == [area |-> fit!Area(d[i]), nth |-> IF fit!Primary(d[i]) THEN i ELSE Len(d) + i]
             f == [i \in U |-> fit!Overlap(r, d[i].area)]
             Widest == {s \in fit!ScreenRects(d) : \A t \in fit!ScreenRects(d) : fit!Overlap(r, t.area) <= fit!Overlap(r, s.area)}
  <1>1. fit!ScreenRects(d) = {rect(i) : i \in U}
    BY DEF fit!ScreenRects
  <1>2. Len(d) \in Nat /\ U \subseteq 1 .. Len(d) /\ U # {} /\ \A i \in U : f[i] \in Int
    BY <1>1, FitAssumption, OverlapIsInt
  <1>3. PICK i \in U : \A j \in U : f[j] <= f[i]
    <2> HIDE DEF U, f
    <2> QED
      BY <1>2, Greatest
  <1>4. \A k \in U : rect(k).area = d[k].area
    BY DEF fit!Area
  <1>5. rect(i) \in Widest
    <2> SUFFICES ASSUME NEW j \in U PROVE fit!Overlap(r, rect(j).area) <= fit!Overlap(r, rect(i).area)
      BY <1>1
    <2> QED
      BY <1>3, <1>4
  <1>6. Widest # {} /\ \A s \in Widest : s.nth \in Nat
    BY <1>5, Rects
  <1>7. fit!FirstOf(Widest) \in Widest
    <2> HIDE DEF Widest
    <2> QED
      BY <1>6, First
  <1> QED
    BY <1>7 DEF fit!MostOverlapped

\* On a screen that has room for it, a frame is put wholly inside.
LEMMA Fitted == ASSUME NEW r \in fit!Frames, NEW s \in fit!Frames, fit!Roomy(s)
                PROVE /\ fit!Within(fit!Nudged(r, s), s) /\ fit!Within(fit!Centred(r, s), s)
  <1> DEFINE w == fit!Larger(Least[1], fit!Smaller(r.w, s.w))
             h == fit!Larger(Least[2], fit!Smaller(r.h, s.h))
  <1>1. w \in Int /\ h \in Int /\ w <= s.w /\ h <= s.h
    BY FitAssumption DEF fit!Roomy, fit!Larger, fit!Smaller, fit!Frames
  <1>2. fit!Clamped(r, s) = [w |-> w, h |-> h]
    BY DEF fit!Clamped
  <1> HIDE DEF w, h
  <1>3. fit!Within(fit!Nudged(r, s), s)
    BY <1>1, <1>2 DEF fit!Within, fit!Nudged, fit!Larger, fit!Smaller, fit!Frames
  <1>4. ASSUME NEW n \in Nat PROVE n \div 2 \in Nat /\ n \div 2 <= n
    BY <1>4
  <1>5. s.w - w \in Nat /\ s.h - h \in Nat
    BY <1>1 DEF fit!Frames
  <1>6. fit!Within(fit!Centred(r, s), s)
    <2> DEFINE a == (s.w - w) \div 2
               b == (s.h - h) \div 2
    <2>1. a \in Nat /\ b \in Nat /\ a <= s.w - w /\ b <= s.h - h
      BY <1>4, <1>5
    <2>2. fit!Centred(r, s) = [x |-> s.x + a, y |-> s.y + b, w |-> w, h |-> h]
      BY <1>2 DEF fit!Centred
    <2> HIDE DEF a, b
    <2> QED
      BY <1>1, <2>1, <2>2 DEF fit!Within, fit!Frames
  <1> QED
    BY <1>3, <1>6

LEMMA FitStep == ASSUME fit!FitInv, fit!Next \/ UNCHANGED fit!vars PROVE fit!FitInv'
  <1>1. CASE fit!Launch
    <2>1. s4' = fit!Fit(s2.frame, fit!ScreenRects(s1)) /\ s3' /\ UNCHANGED <<s1, s2>>
      BY <1>1 DEF fit!Launch
    <2> DEFINE S == fit!ScreenRects(s1)
               r == s2.frame
    <2>2. ASSUME s4' # fit!None, \A s \in S : fit!Roomy(s.area) PROVE \E s \in S : fit!Within(s4', s.area)
      <3>1. S # {} /\ s4' = IF fit!OnScreen(r, S) THEN fit!Nudged(r, fit!MostOverlapped(r, S).area) ELSE fit!Centred(r, fit!FirstOf(S).area)
        BY <2>1, <2>2 DEF fit!Fit
      <3>2. r \in fit!Frames /\ s1 \in Desktops
        BY DEF fit!FitInv
      <3>3. fit!MostOverlapped(r, S) \in S /\ fit!FirstOf(S) \in S /\ \A s \in S : s.area \in fit!Frames
        BY <3>1, <3>2, Most, First, Rects
      <3> HIDE DEF S, r
      <3>4. \A s \in S : fit!Within(fit!Nudged(r, s.area), s.area) /\ fit!Within(fit!Centred(r, s.area), s.area)
        BY <2>2, <3>2, <3>3, Fitted
      <3> QED
        BY <3>1, <3>3, <3>4
    <2> QED
      BY <2>1, <2>2 DEF fit!FitInv, fit!OpensInReach
  <1>2. CASE fit!Move
    <2>1. PICK f \in Spots : s2' = [s2 EXCEPT !.frame = f]
      BY <1>2 DEF fit!Move
    <2>2. s2' = [frame |-> f, maxed |-> s2.maxed] /\ f \in fit!Frames
      BY <2>1, FitAssumption DEF fit!FitInv
    <2> QED
      BY <1>2, <2>2 DEF fit!Move, fit!FitInv, fit!OpensInReach
  <1>3. CASE fit!Maximize
    <2>1. s2' = [frame |-> s2.frame, maxed |-> ~s5]
      BY <1>3 DEF fit!Maximize, fit!FitInv
    <2> QED
      BY <1>3, <2>1 DEF fit!Maximize, fit!FitInv, fit!OpensInReach
  <1>4. CASE fit!Close \/ fit!Rearrange
    BY <1>4 DEF fit!Close, fit!Rearrange, fit!FitInv, fit!OpensInReach
  <1>5. CASE UNCHANGED fit!vars
    BY <1>5 DEF fit!vars, fit!FitInv, fit!OpensInReach
  <1> QED
    BY <1>1, <1>2, <1>3, <1>4, <1>5 DEF fit!Next

LEMMA FitInit == fit!Init => fit!FitInv
  BY DEF fit!Init, fit!FitInv, fit!OpensInReach, fit!None, fit!Frames

-----------------------------------------------------------------------------
(* TrayStatus: one chain of ticks, and what is told. *)

\* tray's FiniteSets is the FiniteSets of the theorems cited.
LEMMA TraySets == \A S : (tray!IsFiniteSet(S) <=> IsFiniteSet(S)) /\ tray!Cardinality(S) = Cardinality(S)
  BY DEF IsFiniteSet, Cardinality, tray!IsFiniteSet, tray!Cardinality

LEMMA TrayEmpty == /\ tray!IsFiniteSet({})
  /\ tray!Cardinality({}) = 0
  /\ \A S : tray!IsFiniteSet(S) => (tray!Cardinality(S) = 0 <=> S = {})
  BY FS_EmptySet, TraySets

LEMMA TraySingle == \A x : tray!IsFiniteSet({x}) /\ tray!Cardinality({x}) = 1
  BY FS_Singleton, TraySets


LEMMA TrayInit == tray!Init => tray!TrayInv
  <1> SUFFICES ASSUME tray!Init PROVE tray!TrayInv
    OBVIOUS
  <1>1. s9 = << >> /\ s9 \in Seq(tray!Stages) /\ DOMAIN s9 = {}
    BY DEF tray!Init
  <1> QED
    BY <1>1 DEF tray!Init, tray!TrayInv, tray!TypeOK, tray!Counted, tray!IdleSaysIdle,
       tray!Chained, tray!Rest, tray!NotRead, tray!Stops, tray!None

\* An event carries the count of its change, and the label takes the last one.
LEMMA Counts == ASSUME tray!TrayInv,
                       tray!Change \/ tray!PatchReads \/ tray!OnPatch \/ tray!OpenMenu
                           \/ tray!MenuReads \/ tray!MenuSets
                PROVE tray!TrayInv'
  <1>1. UNCHANGED <<tray!Showing, tray!Ticking>>
    BY DEF tray!Change, tray!PatchReads, tray!OnPatch, tray!OpenMenu, tray!MenuReads, tray!MenuSets
  <1>2. tray!Counted'
    <2>1. CASE tray!Change
      BY <2>1 DEF tray!Change, tray!Counted, tray!TrayInv
    <2>2. CASE tray!PatchReads
      BY <2>2 DEF tray!PatchReads, tray!Counted, tray!TrayInv, tray!Rest
    <2>3. CASE tray!OnPatch
      BY <2>3, <1>1 DEF tray!OnPatch, tray!Counted, tray!TrayInv, tray!Rest, tray!Stops,
         tray!Ticking
    <2>4. CASE tray!OpenMenu
      BY <2>4 DEF tray!OpenMenu, tray!Counted, tray!TrayInv, tray!Unread, tray!Stops, tray!Ticking
    <2>5. CASE tray!MenuReads
      BY <2>5 DEF tray!MenuReads, tray!Counted, tray!TrayInv, tray!Stops, tray!Ticking
    <2>6. CASE tray!MenuSets
      BY <2>6 DEF tray!MenuSets, tray!Counted, tray!TrayInv, tray!Rest, tray!Stops, tray!Ticking
    <2> QED
      BY <2>1, <2>2, <2>3, <2>4, <2>5, <2>6
  <1>3. tray!TypeOK' /\ tray!IdleSaysIdle' /\ tray!Chained'
    BY <1>1 DEF tray!TrayInv, tray!TypeOK, tray!IdleSaysIdle, tray!Chained, tray!Showing,
       tray!Ticking, tray!Stops
  <1> QED
    BY <1>2, <1>3 DEF tray!TrayInv

\* No frame but a held one names a job that has ended.
LEMMA Shows == ASSUME tray!TrayInv, NEW j \in Jobs, tray!Start(j) \/ tray!OnProgress(j)
    \/ tray!OnFinished(j) \/ tray!OnLate(j)
               PROVE tray!TrayInv'
  <1>1. UNCHANGED <<tray!Counting, tray!Ticking>>
    BY DEF tray!Start, tray!OnProgress, tray!OnFinished, tray!OnLate
  <1>2. tray!IdleSaysIdle'
    BY <1>1 DEF tray!Start, tray!OnProgress, tray!OnFinished, tray!OnLate, tray!TrayInv,
       tray!IdleSaysIdle, tray!Cleared, tray!Stops, tray!Ticking
  <1>3. tray!TypeOK' /\ tray!Counted' /\ tray!Chained'
    BY <1>1 DEF tray!TrayInv, tray!TypeOK, tray!Counted, tray!Chained, tray!Counting,
       tray!Ticking, tray!Stops
  <1> QED
    BY <1>2, <1>3 DEF tray!TrayInv

\* What a step leaves on the chain.
LEMMA ChainStep ==
  ASSUME tray!TrayInv, UNCHANGED <<tray!Counting, tray!Showing>>, s9' \in Seq(tray!Stages), s8' \in {"none", "up", "stopped"},
         tray!Stops => tray!Stops', tray!Chained'
  PROVE tray!TrayInv'
  BY DEF tray!TrayInv, tray!TypeOK, tray!Counted, tray!IdleSaysIdle, tray!Counting, tray!Showing,
     tray!Stops

LEMMA Refreshes == ASSUME tray!TrayInv, NEW i \in DOMAIN s9, tray!Sets(i) \/ tray!Arms(i) \/ tray!Fires(i)
  PROVE tray!TrayInv'
  <1>1. UNCHANGED <<s8, tray!Counting, tray!Showing>>
    BY DEF tray!Sets, tray!Arms, tray!Fires
  <1>2. s8 # "none" /\ s9 \in Seq(tray!Stages) /\ DOMAIN s9 = 1 .. Len(s9) /\ Len(s9) \in Nat
    BY DEF tray!TrayInv, tray!TypeOK, tray!Chained
  <1>3. CASE \E st \in tray!Stages : /\ s9' = [s9 EXCEPT ![i] = st]
                                     /\ st = "over" => s8 # "up"
                                     /\ st # "over" => s9[i] # "over"
                                     /\ st # "armed" /\ (s10' = s10)
    <2>1. PICK st \in tray!Stages : /\ s9' = [s9 EXCEPT ![i] = st]
                                    /\ st = "over" => s8 # "up"
                                    /\ st # "over" => s9[i] # "over"
                                    /\ st # "armed" /\ s10' = s10
      BY <1>3
    <2>2. /\ s9' \in Seq(tray!Stages) /\ DOMAIN s9' = DOMAIN s9
          /\ \A k \in DOMAIN s9 : s9'[k] = IF k = i THEN st ELSE s9[k]
      <3>1. s9 \in [1 .. Len(s9) -> tray!Stages]
        BY <1>2
      <3>2. [s9 EXCEPT ![i] = st] \in [1 .. Len(s9) -> tray!Stages]
        BY <3>1
      <3> QED
        BY <1>2, <2>1, <3>1, <3>2
    <2>3. tray!Chained'
      <3>1. /\ \A k, l \in DOMAIN s9 : (s9[k] # "over" /\ s9[l] # "over") => k = l
            /\ s8 = "up" => \E k \in DOMAIN s9 : s9[k] # "over"
            /\ \A k \in DOMAIN s9 : s9[k] = "armed" => s10 = k /\ ~tray!Stops
        BY DEF tray!TrayInv, tray!Chained
      <3>2. \A k \in DOMAIN s9 : s9'[k] # "over" => s9[k] # "over"
        BY <2>1, <2>2
      <3>3. \A k \in DOMAIN s9 : s9'[k] = "armed" => s9[k] = "armed"
        BY <2>1, <2>2
      <3>4. s8 = "up" => \E k \in DOMAIN s9 : s9'[k] # "over"
        BY <2>1, <2>2, <3>1
      <3> QED
        BY <1>1, <1>2, <2>1, <2>2, <3>1, <3>2, <3>3, <3>4 DEF tray!Chained, tray!Stops
    <2> QED
      BY <1>1, <2>2, <2>3, ChainStep DEF tray!TrayInv, tray!TypeOK, tray!Stops
  <1>4. CASE tray!Sets(i)
    BY <1>2, <1>3, <1>4 DEF tray!Sets, tray!Stages
  <1>5. CASE tray!Fires(i)
    BY <1>2, <1>3, <1>5 DEF tray!Fires, tray!Stages
  <1>6. CASE tray!Arms(i) /\ tray!Stops
    BY <1>2, <1>3, <1>6 DEF tray!Arms, tray!Stages, tray!Stops
  <1>7. CASE tray!Arms(i) /\ ~tray!Stops
    <2>1. /\ s9[i] = "arm" /\ s10' = Len(s9) + 1
          /\ s9' = Append([s9 EXCEPT ![i] = "over"], "armed")
      BY <1>7 DEF tray!Arms
    <2> DEFINE t == [s9 EXCEPT ![i] = "over"]
    <2>2. t \in Seq(tray!Stages) /\ Len(t) = Len(s9)
      BY <1>2 DEF tray!Stages
    <2>3. /\ s9' \in Seq(tray!Stages) /\ DOMAIN s9' = 1 .. Len(s9) + 1
          /\ \A k \in 1 .. Len(s9) : s9'[k] = t[k]
          /\ s9'[Len(s9) + 1] = "armed"
      BY <2>1, <2>2, <1>2 DEF tray!Stages
    <2>4. \A k \in DOMAIN s9 : t[k] = "over"
      BY <2>1, <1>2 DEF tray!TrayInv, tray!Chained
    <2> HIDE DEF t
    <2>5. Len(s9) + 1 \in DOMAIN s9' /\ \A k \in DOMAIN s9' : k = Len(s9) + 1 \/ k \in DOMAIN s9
      BY <1>2, <2>3
    <2>6. \A k \in DOMAIN s9' : s9'[k] # "over" => k = Len(s9) + 1
      BY <1>2, <2>3, <2>4, <2>5
    <2>7. tray!Chained'
      BY <1>1, <1>2, <1>7, <2>1, <2>3, <2>5, <2>6 DEF tray!Chained, tray!Stops
    <2> QED
      BY <1>1, <2>3, <2>7, ChainStep DEF tray!TrayInv, tray!TypeOK, tray!Stops
  <1> QED
    BY <1>4, <1>5, <1>6, <1>7

LEMMA EnsureRaises == ASSUME tray!TrayInv, tray!Ensure PROVE tray!TrayInv'
  <1>1. UNCHANGED <<s10, tray!Counting, tray!Showing>> /\ s8 = "none" /\ ~tray!Stops
    BY DEF tray!Ensure, tray!Stops
  <1>2. CASE s8' = "up" /\ s9' = <<"tick">>
    <2>1. s9' \in Seq(tray!Stages) /\ DOMAIN s9' = {1} /\ s9'[1] = "tick"
      BY <1>2 DEF tray!Stages
    <2>2. tray!Chained'
      BY <1>2, <2>1 DEF tray!Chained
    <2> QED
      BY <1>1, <1>2, <2>1, <2>2, ChainStep
  <1>3. CASE UNCHANGED <<s8, s9>>
    BY <1>1, <1>3, ChainStep DEF tray!TrayInv, tray!TypeOK, tray!Chained, tray!Stops
  <1> QED
    BY <1>2, <1>3 DEF tray!Ensure

LEMMA StopStops == ASSUME tray!TrayInv, tray!Stop PROVE tray!TrayInv'
  <1>1. /\ s8' = "stopped" /\ UNCHANGED <<tray!Counting, tray!Showing>>
        /\ s9' = [i \in DOMAIN s9 |-> IF i = s10 /\ s9[i] = "armed" THEN "over" ELSE s9[i]]
    BY DEF tray!Stop
  <1>2. s9 \in Seq(tray!Stages) /\ DOMAIN s9 = 1 .. Len(s9) /\ Len(s9) \in Nat
    BY DEF tray!TrayInv, tray!TypeOK
  <1>3. \A i \in DOMAIN s9 : s9[i] \in tray!Stages /\ "over" \in tray!Stages
    BY <1>2 DEF tray!Stages
  <1>4. s9' \in [1 .. Len(s9) -> tray!Stages]
    BY <1>1, <1>2, <1>3
  <1>5. s9' \in Seq(tray!Stages)
    BY <1>2, <1>4
  <1>6. tray!Chained'
    BY <1>1, <1>2 DEF tray!TrayInv, tray!Chained, tray!Stops
  <1> QED
    BY <1>1, <1>5, <1>6, ChainStep DEF tray!Stops

LEMMA TrayStep == ASSUME tray!TrayInv, tray!Next \/ UNCHANGED tray!vars PROVE tray!TrayInv'
  <1>1. CASE UNCHANGED tray!vars
    BY <1>1 DEF tray!vars, tray!TrayInv, tray!TypeOK, tray!Counted, tray!IdleSaysIdle,
       tray!Chained, tray!Stops
  <1> QED
    BY <1>1, Counts, Shows, Refreshes, EnsureRaises, StopStops DEF tray!Next

\* At most one refresh is on the chain.
LEMMA TrayIsKept == tray!TrayInv => tray!TrayIsTrue
  <1> SUFFICES ASSUME tray!TrayInv PROVE tray!TrayIsTrue
    OBVIOUS
  <1>1. tray!LabelIsTrue /\ tray!IdleSaysIdle
    BY DEF tray!TrayInv, tray!Counted, tray!LabelIsTrue
  <1> DEFINE Live == {i \in DOMAIN s9 : s9[i] # "over"}
  <1>2. tray!Cardinality(Live) <= 1
    <2>1. CASE Live = {}
      BY <2>1, TrayEmpty
    <2>2. CASE Live # {}
      <3>1. PICK i \in Live : Live = {i}
        BY <2>2 DEF tray!TrayInv, tray!Chained
      <3>2. tray!Cardinality({i}) = 1
        BY TraySingle
      <3> QED
        BY <3>1, <3>2
    <2> QED
      BY <2>1, <2>2
  <1>3. tray!OneChain
    BY <1>2 DEF tray!OneChain, tray!TrayInv, tray!Chained
  <1> QED
    BY <1>1, <1>3 DEF tray!TrayIsTrue

-----------------------------------------------------------------------------
(* EventSocket: frames keep their order from queue to page. *)

LEMMA Joined == ASSUME NEW s \in Seq(Int), NEW t \in Seq(Int), NEW u \in Seq(Int)
                PROVE /\ (socket!InOrder(s) /\ socket!InOrder(t) /\ socket!Before(s, t)) =>
                         socket!InOrder(s \o t)
                      /\ (socket!Before(s, u) /\ socket!Before(t, u)) => socket!Before(s \o t, u)
                      /\ (socket!Before(u, s) /\ socket!Before(u, t)) => socket!Before(u, s \o t)
                      /\ s \o t \in Seq(Int)
                      /\ \A n \in Int : (socket!UpTo(s, n) /\ socket!UpTo(t, n)) => socket!UpTo(s \o t, n)
  <1>1. /\ s \o t \in Seq(Int) /\ Len(s \o t) = Len(s) + Len(t) /\ Len(s) \in Nat /\ Len(t) \in Nat
        /\ DOMAIN s = 1 .. Len(s) /\ DOMAIN t = 1 .. Len(t) /\ DOMAIN (s \o t) = 1 .. Len(s) + Len(t)
        /\ \A i \in DOMAIN (s \o t) : IF i <= Len(s) THEN i \in DOMAIN s /\ (s \o t)[i] = s[i]
                                      ELSE i - Len(s) \in DOMAIN t /\ (s \o t)[i] = t[i - Len(s)]
    OBVIOUS
  <1> DEFINE st == s \o t
  <1> HIDE DEF st
  <1>2. (socket!InOrder(s) /\ socket!InOrder(t) /\ socket!Before(s, t)) => socket!InOrder(st)
    <2> SUFFICES ASSUME socket!InOrder(s), socket!InOrder(t), socket!Before(s, t),
                        NEW i \in DOMAIN st, NEW j \in DOMAIN st, i < j, st[i] > 0, st[j] > 0
                 PROVE st[i] < st[j]
      BY DEF socket!InOrder
    <2>1. CASE j <= Len(s)
      BY <1>1, <2>1 DEF socket!InOrder, st
    <2>2. CASE i > Len(s)
      <3>1. i - Len(s) \in DOMAIN t /\ j - Len(s) \in DOMAIN t /\ st[i] = t[i - Len(s)] /\ st[j] = t[j - Len(s)]
            /\ i - Len(s) < j - Len(s)
        BY <1>1, <2>2 DEF st
      <3> QED
        BY <3>1 DEF socket!InOrder
    <2>3. CASE i <= Len(s) /\ j > Len(s)
      <3>1. i \in DOMAIN s /\ j - Len(s) \in DOMAIN t /\ st[i] = s[i] /\ st[j] = t[j - Len(s)]
        BY <1>1, <2>3 DEF st
      <3> QED
        BY <3>1 DEF socket!Before
    <2> QED
      BY <1>1, <2>1, <2>2, <2>3 DEF st
  <1>3. (socket!Before(s, u) /\ socket!Before(t, u)) => socket!Before(st, u)
    BY <1>1 DEF socket!Before, st
  <1>4. (socket!Before(u, s) /\ socket!Before(u, t)) => socket!Before(u, st)
    BY <1>1 DEF socket!Before, st
  <1>5. \A n \in Int : (socket!UpTo(s, n) /\ socket!UpTo(t, n)) => socket!UpTo(st, n)
    BY <1>1 DEF socket!UpTo, st
  <1> QED
    BY <1>1, <1>2, <1>3, <1>4, <1>5 DEF st

LEMMA Taken == ASSUME NEW s \in Seq(Int), s # << >>
               PROVE /\ Tail(s) \in Seq(Int) /\ Head(s) \in Int
                     /\ socket!InOrder(s) => socket!InOrder(Tail(s)) /\ socket!Before(<<Head(s)>>, Tail(s))
                     /\ \A u \in Seq(Int) : socket!Before(s, u) => socket!Before(Tail(s), u)
                        /\ socket!Before(<<Head(s)>>, u)
                     /\ \A u \in Seq(Int) : socket!Before(u, s) => socket!Before(u, Tail(s))
                        /\ socket!Before(u, <<Head(s)>>)
                     /\ \A n \in Int : socket!UpTo(s, n) => socket!UpTo(Tail(s), n) /\ Head(s) <= n
  <1>1. /\ Tail(s) \in Seq(Int) /\ Len(s) \in Nat /\ Len(s) > 0 /\ DOMAIN s = 1 .. Len(s)
           /\ Head(s) = s[1] /\ s[1] \in Int
        /\ DOMAIN Tail(s) = 1 .. Len(s) - 1 /\ \A i \in 1 .. Len(s) - 1 : Tail(s)[i] = s[i + 1]
           /\ i + 1 \in DOMAIN s
    OBVIOUS
  <1> DEFINE t == Tail(s)
             h == <<Head(s)>>
  <1>2. DOMAIN h = {1} /\ h[1] = s[1] /\ 1 \in DOMAIN s
    BY <1>1
  <1> HIDE DEF t, h
  <1>3. socket!InOrder(s) => socket!InOrder(t) /\ socket!Before(h, t)
    <2>1. \A i, j \in 1 .. Len(s) - 1 : i < j => i + 1 < j + 1
      BY <1>1
    <2>2. \A j \in 1 .. Len(s) - 1 : 1 < j + 1
      BY <1>1
    <2> QED
      BY <1>1, <1>2, <2>1, <2>2 DEF socket!InOrder, socket!Before, t
  <1>4. \A u \in Seq(Int) : socket!Before(s, u) => socket!Before(t, u) /\ socket!Before(h, u)
    BY <1>1, <1>2 DEF socket!Before, t
  <1>5. \A u \in Seq(Int) : socket!Before(u, s) => socket!Before(u, t) /\ socket!Before(u, h)
    BY <1>1, <1>2 DEF socket!Before, t
  <1>6. \A n \in Int : socket!UpTo(s, n) => socket!UpTo(t, n) /\ Head(s) <= n
    BY <1>1 DEF socket!UpTo, t
  <1> QED
    BY <1>1, <1>3, <1>4, <1>5, <1>6 DEF t, h

LEMMA Singles == ASSUME NEW x \in Int
  PROVE <<x>> \in Seq(Int) /\ socket!InOrder(<<x>>) /\ (\A n \in Int : x <= n => socket!UpTo(<<x>>, n))
                                             /\ (x <= 0 => \A s : socket!Before(s, <<x>>)
                                                /\ socket!Before(<<x>>, s))
  BY DEF socket!InOrder, socket!UpTo, socket!Before

LEMMA Appended == ASSUME NEW s \in Seq(Int), NEW x \in Int PROVE Append(s, x) = s \o <<x>>
  OBVIOUS

\* What is put goes last; a full outbox lets go of its first.
LEMMA Puts ==
  ASSUME socket!SocketInv, NEW x \in Int, socket!Put(x), UNCHANGED <<s10, s6, s1>>, s3' \in Seq(Int),
         x <= s1, socket!Before(s10, <<x>>), socket!Before(socket!InHand, <<x>>), socket!Before(s4, <<x>>), socket!Before(<<x>>, s3'),
         socket!InOrder(s3'), socket!Before(s10, s3'), socket!Before(socket!InHand, s3'), socket!Before(s4, s3'), socket!UpTo(s3', s1)
  PROVE  socket!SocketInv'
  <1> DEFINE q == IF Len(s4) = Outbox THEN Tail(s4) ELSE s4
  <1>1. s4 \in Seq(Int) /\ (Len(s4) = Outbox => s4 # << >>) /\ s10 \in Seq(Int)
          /\ socket!InHand \in Seq(Int) /\ s3' \in Seq(Int)
    BY SizeAssumption DEF socket!SocketInv, socket!TypeOK, socket!InHand
  <1>2. q \in Seq(Int) /\ socket!InOrder(q) /\ socket!Before(s10, q)
          /\ socket!Before(socket!InHand, q) /\ socket!Before(q, s3') /\ socket!Before(q, <<x>>)
             /\ socket!UpTo(q, s1)
    <2>1. CASE Len(s4) = Outbox
      <3>1. s4 # << >> /\ <<x>> \in Seq(Int) /\ s1 \in Int
        BY <1>1, <2>1 DEF socket!SocketInv, socket!TypeOK
      <3>2. /\ Tail(s4) \in Seq(Int) /\ socket!InOrder(Tail(s4)) /\ socket!Before(s10, Tail(s4))
               /\ socket!Before(socket!InHand, Tail(s4))
            /\ socket!Before(Tail(s4), s3') /\ socket!Before(Tail(s4), <<x>>) /\ socket!UpTo(Tail(s4), s1)
        BY <1>1, <3>1, Taken DEF socket!SocketInv
      <3> QED
        BY <2>1, <3>2
    <2>2. CASE Len(s4) # Outbox
      BY <1>1, <2>2 DEF socket!SocketInv, socket!TypeOK
    <2> QED
      BY <2>1, <2>2
  <1>3. s4' = q \o <<x>>
    BY <1>2, Appended DEF socket!Put
  <1> HIDE DEF q
  <1>4. /\ s4' \in Seq(Int) /\ socket!InOrder(s4') /\ socket!Before(s10, s4')
           /\ socket!Before(socket!InHand, s4') /\ socket!Before(s4', s3')
        /\ socket!UpTo(s4', s1)
    <2>1. <<x>> \in Seq(Int) /\ socket!InOrder(<<x>>) /\ socket!UpTo(<<x>>, s1) /\ s1 \in Int
      BY Singles DEF socket!SocketInv, socket!TypeOK
    <2> QED
      BY <1>1, <1>2, <1>3, <2>1, Joined
  <1>5. socket!InHand' = socket!InHand
    BY DEF socket!InHand
  <1> QED
    BY <1>4, <1>5 DEF socket!SocketInv, socket!TypeOK

LEMMA SentinelPuts == ASSUME socket!SocketInv, socket!Put(socket!Sentinel), UNCHANGED <<s10, s6, s1, s3>>
  PROVE socket!SocketInv'
  <1>1. socket!Sentinel \in Int /\ socket!Sentinel <= 0 /\ socket!Sentinel <= s1
    BY DEF socket!Sentinel, socket!SocketInv, socket!TypeOK
  <1> QED
    BY <1>1, Singles, Puts DEF socket!SocketInv, socket!TypeOK

LEMMA Delivers == ASSUME socket!SocketInv, socket!Deliver PROVE socket!SocketInv'
  <1>1. /\ s1' = s1 + 1 /\ s3' = s3 \o <<s1 + 1>> /\ UNCHANGED <<s10, s6, s4>>
    BY Appended DEF socket!Deliver, socket!SocketInv, socket!TypeOK, socket!wire
  <1>2. s10 \in Seq(Int) /\ socket!InHand \in Seq(Int) /\ s4 \in Seq(Int) /\ s3 \in Seq(Int) /\ s1 + 1 \in Int
        /\ s1 \in Nat /\ socket!InHand' = socket!InHand
    BY <1>1 DEF socket!SocketInv, socket!TypeOK, socket!InHand
  <1>3. \A s \in {s10, socket!InHand, s4, s3} : socket!Before(s, <<s1 + 1>>) /\ socket!UpTo(s, s1 + 1)
    <2>1. ASSUME NEW s \in Seq(Int), socket!UpTo(s, s1)
      PROVE socket!Before(s, <<s1 + 1>>) /\ socket!UpTo(s, s1 + 1)
      BY <1>2, <2>1 DEF socket!Before, socket!UpTo
    <2> QED
      BY <1>2, <2>1 DEF socket!SocketInv
  <1>4. <<s1 + 1>> \in Seq(Int) /\ socket!InOrder(<<s1 + 1>>) /\ socket!UpTo(<<s1 + 1>>, s1 + 1)
    BY <1>2, Singles
  <1>5. /\ s3' \in Seq(Int) /\ socket!InOrder(s3') /\ socket!Before(s10, s3')
           /\ socket!Before(socket!InHand, s3') /\ socket!Before(s4, s3')
        /\ socket!UpTo(s3', s1 + 1)
    BY <1>1, <1>2, <1>3, <1>4, Joined DEF socket!SocketInv
  <1> QED
    BY <1>1, <1>2, <1>3, <1>5 DEF socket!SocketInv, socket!TypeOK

LEMMA Cuts == ASSUME socket!SocketInv, socket!CutSocket PROVE socket!SocketInv'
  <1>1. /\ socket!Stop \in Int /\ socket!Stop <= 0 /\ s3' = s3 \o <<socket!Stop>>
           /\ UNCHANGED <<s10, s6, s4, s1>> /\ socket!InHand' = socket!InHand
    BY Appended DEF socket!CutSocket, socket!SocketInv, socket!TypeOK, socket!wire, socket!Stop,
       socket!InHand
  <1>2. s10 \in Seq(Int) /\ socket!InHand \in Seq(Int) /\ s4 \in Seq(Int) /\ s3 \in Seq(Int)
          /\ s1 \in Int /\ socket!Stop <= s1
    BY <1>1 DEF socket!SocketInv, socket!TypeOK, socket!InHand, socket!Stop
  <1>3. /\ s3' \in Seq(Int) /\ socket!InOrder(s3') /\ socket!Before(s10, s3')
           /\ socket!Before(socket!InHand, s3') /\ socket!Before(s4, s3')
        /\ socket!UpTo(s3', s1)
    BY <1>1, <1>2, Singles, Joined DEF socket!SocketInv
  <1> QED
    BY <1>1, <1>3 DEF socket!SocketInv, socket!TypeOK

LEMMA Hops == ASSUME socket!SocketInv, socket!Hop PROVE socket!SocketInv'
  <1> DEFINE x == Head(s3)
  <1>1. s3 \in Seq(Int) /\ s3 # << >> /\ s3' = Tail(s3) /\ UNCHANGED <<s10, s6, s1>>
        /\ s10 \in Seq(Int) /\ socket!InHand \in Seq(Int) /\ s4 \in Seq(Int) /\ s1 \in Int
    BY DEF socket!Hop, socket!SocketInv, socket!TypeOK, socket!wire, socket!InHand
  <1>2. /\ s3' \in Seq(Int) /\ x \in Int /\ socket!InOrder(s3') /\ socket!Before(<<x>>, s3')
        /\ socket!Before(s10, s3') /\ socket!Before(socket!InHand, s3') /\ socket!Before(s4, s3')
           /\ socket!UpTo(s3', s1)
        /\ socket!Before(s10, <<x>>) /\ socket!Before(socket!InHand, <<x>>)
           /\ socket!Before(s4, <<x>>) /\ x <= s1
    BY <1>1, Taken DEF socket!SocketInv
  <1> HIDE DEF x
  <1>3. CASE socket!Put(x)
    BY <1>1, <1>2, <1>3, Puts
  <1>4. CASE socket!Put(socket!Sentinel)
    <2>1. socket!Sentinel \in Int /\ socket!Sentinel <= 0 /\ socket!Sentinel <= s1
      BY DEF socket!Sentinel, socket!SocketInv, socket!TypeOK
    <2> QED
      BY <1>1, <1>2, <1>4, <2>1, Singles, Puts
  <1> QED
    BY <1>3, <1>4 DEF socket!Hop, x

LEMMA Sends == ASSUME socket!SocketInv, socket!Get \/ socket!Send PROVE socket!SocketInv'
  <1>0. s10 \in Seq(Int) /\ socket!InHand \in Seq(Int) /\ s4 \in Seq(Int) /\ s3 \in Seq(Int) /\ s1 \in Int
    BY DEF socket!SocketInv, socket!TypeOK, socket!InHand
  <1>1. CASE socket!Get
    <2> DEFINE x == Head(s4)
    <2>1. s4 # << >> /\ s4' = Tail(s4) /\ UNCHANGED <<s10, s3, s1>> /\ s6' \in {x, s6}
      BY <1>1 DEF socket!Get, socket!wire
    <2>2. /\ s4' \in Seq(Int) /\ x \in Int /\ socket!InOrder(s4') /\ socket!Before(<<x>>, s4')
          /\ socket!Before(s10, s4') /\ socket!Before(socket!InHand, s4') /\ socket!Before(s4', s3)
             /\ socket!UpTo(s4', s1)
          /\ socket!Before(s10, <<x>>) /\ socket!Before(<<x>>, s3) /\ x <= s1
      BY <1>0, <2>1, Taken DEF socket!SocketInv
    <2>3. socket!InHand' = <<x>> \/ socket!InHand' = socket!InHand
      BY <2>1 DEF socket!InHand
    <2>4. s6' \in Int /\ socket!Before(s10, socket!InHand') /\ socket!Before(socket!InHand', s4')
            /\ socket!Before(socket!InHand', s3) /\ socket!UpTo(socket!InHand', s1)
      BY <1>0, <2>1, <2>2, <2>3, Singles DEF socket!SocketInv, socket!TypeOK
    <2> HIDE DEF x
    <2> QED
      BY <2>1, <2>2, <2>4 DEF socket!SocketInv, socket!TypeOK
  <1>2. CASE socket!Send
    <2>1. s6' = 0 /\ UNCHANGED <<s4, s3, s1>> /\ (s10' = s10 \o socket!InHand \/ s10' = s10)
      BY <1>0, <1>2, Appended DEF socket!Send, socket!InHand, socket!SocketInv, socket!TypeOK
    <2>2. socket!InHand' = <<0>> /\ socket!InHand' \in Seq(Int) /\ socket!UpTo(socket!InHand', s1)
            /\ \A s : socket!Before(s, socket!InHand') /\ socket!Before(socket!InHand', s)
      BY <2>1, Singles DEF socket!InHand, socket!SocketInv, socket!TypeOK
    <2>3. socket!InOrder(socket!InHand)
      BY Singles DEF socket!InHand, socket!SocketInv, socket!TypeOK
    <2>4. s10' \in Seq(Int) /\ socket!InOrder(s10') /\ socket!Before(s10', s4)
            /\ socket!Before(s10', s3) /\ socket!UpTo(s10', s1)
      BY <1>0, <2>1, <2>3, Joined DEF socket!SocketInv
    <2> QED
      BY <2>1, <2>2, <2>4 DEF socket!SocketInv, socket!TypeOK
  <1> QED
    BY <1>1, <1>2

LEMMA SocketStep == ASSUME socket!SocketInv, socket!Next \/ UNCHANGED socket!vars PROVE socket!SocketInv'
  <1>1. CASE UNCHANGED <<s10, s6, s4, s3, s1>>
    BY <1>1 DEF socket!SocketInv, socket!TypeOK, socket!InHand
  <1>2. CASE socket!ReaderEnds
    BY <1>2, SentinelPuts DEF socket!ReaderEnds
  <1>3. CASE socket!Leave
    BY <1>1, <1>3, SentinelPuts DEF socket!Leave
  <1>4. CASE socket!Greet \/ socket!Close \/ socket!Disconnect \/ UNCHANGED socket!vars
    BY <1>1, <1>4 DEF socket!Greet, socket!Close, socket!Disconnect, socket!vars, socket!wire
  <1> QED
    BY <1>2, <1>3, <1>4, Delivers, Cuts, Hops, Sends DEF socket!Next, socket!SenderStep

LEMMA SocketInit == socket!Init => socket!SocketInv
  BY DEF socket!Init, socket!SocketInv, socket!TypeOK, socket!InHand, socket!InOrder,
     socket!Before, socket!UpTo

LEMMA SocketHolds == socket!SocketInv => socket!FramesInOrder
  <1> SUFFICES ASSUME socket!SocketInv PROVE socket!FramesInOrder
    OBVIOUS
  <1>0. s10 \in Seq(Int) /\ socket!InHand \in Seq(Int) /\ s4 \in Seq(Int) /\ s3 \in Seq(Int)
          /\ socket!InOrder(socket!InHand)
    BY Singles DEF socket!SocketInv, socket!TypeOK, socket!InHand
  <1> DEFINE a == s10 \o socket!InHand
             b == a \o s4
  <1>1. a \in Seq(Int) /\ socket!InOrder(a) /\ socket!Before(a, s4) /\ socket!Before(a, s3)
    BY <1>0, Joined DEF socket!SocketInv
  <1> HIDE DEF a
  <1>2. b \in Seq(Int) /\ socket!InOrder(b) /\ socket!Before(b, s3)
    BY <1>0, <1>1, Joined DEF socket!SocketInv
  <1> HIDE DEF b
  <1>3. socket!InOrder(b \o s3)
    BY <1>0, <1>2, Joined DEF socket!SocketInv
  <1> QED
    BY <1>3 DEF socket!FramesInOrder, socket!OnItsWay, socket!InHand, a, b

-----------------------------------------------------------------------------
(* RunPanel: rows, bars and cards of a run. *)

\* runpanel's FiniteSets is the FiniteSets of the theorems cited.
LEMMA RunpanelSets == \A S : (runpanel!IsFiniteSet(S) <=> IsFiniteSet(S))
    /\ runpanel!Cardinality(S) = Cardinality(S)
  BY DEF IsFiniteSet, Cardinality, runpanel!IsFiniteSet, runpanel!Cardinality

LEMMA RunpanelAdded == ASSUME NEW S, NEW x, runpanel!IsFiniteSet(S)
  PROVE  /\ runpanel!IsFiniteSet(S \cup {x})
         /\ runpanel!Cardinality(S \cup {x}) = IF x \in S THEN runpanel!Cardinality(S) ELSE runpanel!Cardinality(S) + 1
  BY FS_AddElement, RunpanelSets

LEMMA RunpanelCounted == ASSUME NEW S, runpanel!IsFiniteSet(S) PROVE runpanel!Cardinality(S) \in Nat
  BY FS_CardinalityType, RunpanelSets

LEMMA RunpanelEmpty == /\ runpanel!IsFiniteSet({})
  /\ runpanel!Cardinality({}) = 0
  /\ \A S : runpanel!IsFiniteSet(S) => (runpanel!Cardinality(S) = 0 <=> S = {})
  BY FS_EmptySet, RunpanelSets

LEMMA RunpanelSubset == ASSUME NEW S, runpanel!IsFiniteSet(S), NEW T \in SUBSET S
  PROVE  /\ runpanel!IsFiniteSet(T)
         /\ runpanel!Cardinality(T) <= runpanel!Cardinality(S)
         /\ runpanel!Cardinality(S) = runpanel!Cardinality(T) => S = T
  BY FS_Subset, RunpanelSets


LEMMA PanelHolds == runpanel!PanelInv => runpanel!PanelSettles
  <1> SUFFICES ASSUME runpanel!PanelInv PROVE runpanel!PanelSettles
    OBVIOUS
  <1>1. /\ \A i \in 1 .. (s6.walked - 1) :
              \E r \in s6.rows : r.at = i
                  /\ (r.state \in runpanel!Settled \/ \E j \in s13 : j.at = i /\ j.cid = r.cid)
        /\ LET broken == {r \in s6.rows : r.state = "error"} IN
              /\ (s6.lost > 0 \/ \E r \in broken : r.why # "link") => s6.warn
              /\ s6.errors >= runpanel!Cardinality(broken) + s6.lost
    BY DEF runpanel!PanelInv, runpanel!LastIsTold, runpanel!Held, runpanel!Broken
  <1>2. ASSUME s1.pc = "none", s10 = << >>, s11 = runpanel!NoImport
        PROVE  \A c \in Chans : s9.bars[c] = "none" /\ (s9.cards[c] = s7[c] \/ c \in s14)
    BY <1>2 DEF runpanel!PanelInv, runpanel!BarsGo, runpanel!CardsFollow, runpanel!NoBars
  <1> QED
    BY <1>1, <1>2 DEF runpanel!PanelSettles

LEMMA PanelInit == runpanel!Init => runpanel!PanelInv
  <1> SUFFICES ASSUME runpanel!Init PROVE runpanel!PanelInv
    OBVIOUS
  <1>1. /\ s1 = runpanel!NoRun /\ s2 = << >> /\ s4 = {} /\ s5 = {} /\ s6 = runpanel!None
        /\ s7 = [c \in Chans |-> "idle"] /\ s8 = [c \in Chans |-> "none"]
        /\ s9 = [cards |-> s7, bars |-> s8] /\ s10 = << >> /\ s11 = runpanel!NoImport
    BY DEF runpanel!Init
  <1>2. runpanel!IsFiniteSet(s5) /\ runpanel!Broken({}) = {} /\ runpanel!Cardinality({}) = 0
    BY <1>1, RunpanelEmpty DEF runpanel!Broken
  <1>3. runpanel!TypeOK
    BY <1>1, <1>2 DEF runpanel!TypeOK, runpanel!RunOK, runpanel!PageOK, runpanel!NoRun,
       runpanel!NoImport, runpanel!Views, runpanel!Marks
  <1>4. runpanel!LastIsTold
    <2>1. s6.walked = 1 /\ s6.rows = {} /\ s6.lost = 0 /\ s6.errors = 0
      BY <1>1 DEF runpanel!None
    <2>2. 1 .. (s6.walked - 1) = {}
      BY <2>1
    <2>3. runpanel!Broken(s6.rows) = {} /\ runpanel!Cardinality(runpanel!Broken(s6.rows)) = 0
      BY <1>2, <2>1
    <2> QED
      BY <2>1, <2>2, <2>3 DEF runpanel!LastIsTold
  <1>5. runpanel!Modes /\ runpanel!RowsAreHeld /\ runpanel!RowsAreTold
    <2>1. s1.pc = "none" /\ s1.mode = "none" /\ s1.errors = 0 /\ s1.lost = 0 /\ s2 = << >> /\ s5 = {}
      BY <1>1 DEF runpanel!NoRun
    <2>2. runpanel!Cardinality(runpanel!Broken(s5)) = 0 /\ runpanel!Broken(s5) = {}
      BY <1>2, <2>1
    <2> QED
      BY <2>1, <2>2 DEF runpanel!Modes, runpanel!RowsAreHeld, runpanel!RowsAreTold, runpanel!Walking
  <1>6. runpanel!PageFollows /\ runpanel!BarsGo /\ runpanel!CardsFollow
    BY <1>1 DEF runpanel!PageFollows, runpanel!BarsGo, runpanel!CardsFollow, runpanel!NoBars
  <1> QED
    BY <1>3, <1>4, <1>5, <1>6 DEF runpanel!PanelInv

\* What a row's frame does to the panel.
LEMMA Rowed ==
  ASSUME runpanel!IsFiniteSet(s5),
      NEW row, s5' = {r \in s5 : <<r.at, r.cid>> # <<row.at, row.cid>>} \union {row}
  PROVE  /\ runpanel!IsFiniteSet(s5') /\ row \in s5'
         /\ runpanel!Cardinality(runpanel!Broken(s5)) \in Nat
            /\ runpanel!Cardinality(runpanel!Broken(s5')) \in Nat
         /\ row.state # "error" =>
            runpanel!Cardinality(runpanel!Broken(s5')) <= runpanel!Cardinality(runpanel!Broken(s5))
         /\ runpanel!Cardinality(runpanel!Broken(s5')) <= runpanel!Cardinality(runpanel!Broken(s5)) + 1
         /\ \A r \in s5 : r \in s5' \/ (r.at = row.at /\ r.cid = row.cid)
         /\ \A r \in s5' : r \in s5 \/ r = row
  <1> DEFINE rest == {r \in s5 : <<r.at, r.cid>> # <<row.at, row.cid>>}
  <1>1. s5' = rest \union {row} /\ rest \subseteq s5
    OBVIOUS
  <1>2. runpanel!IsFiniteSet(rest) /\ runpanel!IsFiniteSet(s5')
    BY <1>1, RunpanelSubset, RunpanelAdded
  <1>3. runpanel!Broken(s5) \subseteq s5 /\ runpanel!Broken(rest) \subseteq runpanel!Broken(s5)
          /\ runpanel!IsFiniteSet(runpanel!Broken(s5)) /\ runpanel!IsFiniteSet(runpanel!Broken(rest))
    BY <1>1, <1>2, RunpanelSubset DEF runpanel!Broken
  <1>4. runpanel!Cardinality(runpanel!Broken(rest)) \in Nat
          /\ runpanel!Cardinality(runpanel!Broken(s5)) \in Nat
             /\ runpanel!Cardinality(runpanel!Broken(rest)) <= runpanel!Cardinality(runpanel!Broken(s5))
    BY <1>3, RunpanelCounted, RunpanelSubset
  <1>5. CASE row.state # "error"
    <2>1. runpanel!Broken(s5') = runpanel!Broken(rest)
      BY <1>1, <1>5 DEF runpanel!Broken
    <2> QED
      BY <1>1, <1>2, <1>4, <1>5, <2>1
  <1>6. CASE row.state = "error"
    <2>1. runpanel!Broken(s5') = runpanel!Broken(rest) \union {row}
      BY <1>1, <1>6 DEF runpanel!Broken
    <2>2. runpanel!Cardinality(runpanel!Broken(rest) \union {row}) = IF row \in runpanel!Broken(rest) THEN runpanel!Cardinality(runpanel!Broken(rest)) ELSE runpanel!Cardinality(runpanel!Broken(rest)) + 1
      BY <1>3, RunpanelAdded
    <2>3. runpanel!Cardinality(runpanel!Broken(rest) \union {row}) \in Nat
            /\ runpanel!Cardinality(runpanel!Broken(rest) \union {row}) <= runpanel!Cardinality(runpanel!Broken(rest)) + 1
      BY <1>4, <2>2
    <2>a. /\ runpanel!Cardinality(runpanel!Broken(rest) \union {row}) \in Nat
          /\ runpanel!Cardinality(runpanel!Broken(rest) \union {row}) <= runpanel!Cardinality(runpanel!Broken(s5)) + 1
      BY <1>4, <2>3
    <2>4. runpanel!Cardinality(runpanel!Broken(s5')) \in Nat
            /\ runpanel!Cardinality(runpanel!Broken(s5')) <= runpanel!Cardinality(runpanel!Broken(s5)) + 1
      BY <2>1, <2>a
    <2> QED
      BY <1>1, <1>2, <1>4, <1>6, <2>4
  <1> QED
    BY <1>5, <1>6

LEMMA AsksAre == runpanel!NotAsked \in runpanel!Views
  BY DEF runpanel!NotAsked, runpanel!Views, runpanel!Marks

\* A step of the walk on its own row.
LEMMA HereIsHeld ==
  ASSUME runpanel!PanelInv, runpanel!RunOK', runpanel!Walking' =>
      runpanel!Walking, s1'.at = s1.at, s1.pc \in {"channel", "tracks"},
         s13' = s13, NEW state, NEW why, s5' = runpanel!QueueRow(runpanel!Here, s1.cid, state, why),
         s1'.pc \in {"channel", "tracks"} \/ state \in runpanel!Settled
  PROVE  runpanel!RowsAreHeld'
  <1> SUFFICES ASSUME runpanel!Walking', NEW i \in 1 .. (s1.at - 1)
               PROVE  (s1'.pc \in {"channel", "tracks"} /\ i = runpanel!Here')
                   \/ \E r \in s5' : runpanel!Held(r, i)'
    BY DEF runpanel!RowsAreHeld
  <1> DEFINE row == [at |-> runpanel!Here, cid |-> s1.cid, state |-> state, why |-> why]
  <1>1. row \in s5' /\ \A r \in s5 : r \in s5' \/ r.at = runpanel!Here
    BY DEF runpanel!QueueRow
  <1>2. runpanel!Here' = runpanel!Here
    BY DEF runpanel!Here
  <1>3. CASE i = runpanel!Here
    BY <1>1, <1>2, <1>3 DEF runpanel!Held
  <1>4. CASE i # runpanel!Here
    <2>1. PICK r \in s5 : runpanel!Held(r, i)
      BY <1>4 DEF runpanel!PanelInv, runpanel!RowsAreHeld
    <2> QED
      BY <1>1, <1>4, <2>1 DEF runpanel!Held
  <1> QED
    BY <1>3, <1>4

\* What a row says of its channel is in the tally.
LEMMA RowIsTold ==
  ASSUME runpanel!PanelInv, runpanel!RunOK', s1'.failed >= s1.failed, s1'.lost = s1.lost, s1'.errors >= s1.errors,
         NEW at, NEW c, NEW state, NEW why, s5' = runpanel!QueueRow(at, c, state, why),
         state = "error" => (why # "link" => s1'.failed > 0) /\ s1'.errors >= s1.errors + 1
  PROVE  runpanel!RowsAreTold' /\ runpanel!IsFiniteSet(s5')
  <1> DEFINE row == [at |-> at, cid |-> c, state |-> state, why |-> why]
  <1>a. runpanel!IsFiniteSet(s5) /\ s5' = {r \in s5 : <<r.at, r.cid>> # <<row.at, row.cid>>} \union {row}
    BY DEF runpanel!QueueRow, runpanel!PanelInv, runpanel!TypeOK
  <1>b. row.state = state /\ row.why = why
    OBVIOUS
  <1> HIDE DEF row
  <1>1. /\ runpanel!IsFiniteSet(s5')
        /\ runpanel!Cardinality(runpanel!Broken(s5)) \in Nat
           /\ runpanel!Cardinality(runpanel!Broken(s5')) \in Nat
        /\ row.state # "error" =>
           runpanel!Cardinality(runpanel!Broken(s5')) <= runpanel!Cardinality(runpanel!Broken(s5))
        /\ runpanel!Cardinality(runpanel!Broken(s5')) <= runpanel!Cardinality(runpanel!Broken(s5)) + 1
        /\ \A r \in s5' : r \in s5 \/ r = row
    BY <1>a, Rowed
  <1>2. s1.errors >= runpanel!Cardinality(runpanel!Broken(s5)) + s1.lost
    BY DEF runpanel!PanelInv, runpanel!RowsAreTold
  <1>3. s1'.errors >= runpanel!Cardinality(runpanel!Broken(s5')) + s1'.lost
    BY <1>1, <1>b, <1>2 DEF runpanel!PanelInv, runpanel!TypeOK, runpanel!RunOK
  <1>4. ASSUME NEW r \in runpanel!Broken(s5'), r.why # "link" PROVE s1'.failed > 0
    <2>1. r \in s5' /\ r.state = "error"
      BY DEF runpanel!Broken
    <2>2. CASE r \in s5
      BY <1>4, <2>1, <2>2 DEF runpanel!PanelInv, runpanel!RowsAreTold, runpanel!Broken,
         runpanel!TypeOK, runpanel!RunOK
    <2>3. CASE r = row
      BY <1>4, <1>b, <2>1, <2>3
    <2> QED
      BY <1>1, <2>1, <2>2, <2>3
  <1> QED
    BY <1>1, <1>3, <1>4 DEF runpanel!RowsAreTold

\* A step that leaves the panel alone.
LEMMA SameIsTold ==
  ASSUME runpanel!PanelInv, runpanel!RunOK', s1'.failed >= s1.failed, s5' = s5,
         \/ s1'.lost = s1.lost /\ s1'.errors >= s1.errors
         \/ s1'.lost = s1.lost + 1 /\ s1'.errors = s1.errors + 1
  PROVE  runpanel!RowsAreTold'
  <1>1. runpanel!Cardinality(runpanel!Broken(s5)) \in Nat
    <2>1. runpanel!Broken(s5) \subseteq s5
      BY DEF runpanel!Broken
    <2> QED
      BY <2>1, RunpanelSubset, RunpanelCounted DEF runpanel!PanelInv, runpanel!TypeOK
  <1>2. s1'.errors >= runpanel!Cardinality(runpanel!Broken(s5')) + s1'.lost
    BY <1>1 DEF runpanel!PanelInv, runpanel!RowsAreTold, runpanel!TypeOK, runpanel!RunOK
  <1>3. \A r \in runpanel!Broken(s5') : r.why # "link" => s1'.failed > 0
    BY DEF runpanel!PanelInv, runpanel!RowsAreTold, runpanel!TypeOK, runpanel!RunOK
  <1> QED
    BY <1>2, <1>3 DEF runpanel!RowsAreTold

LEMMA SameIsHeld ==
  ASSUME runpanel!PanelInv, s5' = s5, s13 \subseteq s13', s1'.at = s1.at, runpanel!Walking' => runpanel!Walking,
         s1.pc \in {"channel", "tracks"} /\ runpanel!Walking' => s1'.pc \in {"channel", "tracks"}
  PROVE  runpanel!RowsAreHeld'
  BY DEF runpanel!PanelInv, runpanel!RowsAreHeld, runpanel!Held, runpanel!Here

LEMMA SettlesScan ==
  ASSUME runpanel!PanelInv, NEW s \in runpanel!Marks, NEW failed \in BOOLEAN, runpanel!ScanSettles(s, failed),
         s1.pc \in {"channel", "listing"}, s1.pc = "listing" \/ s1.mode = "scan"
  PROVE  runpanel!PanelInv'
  <1> DEFINE more == IF failed THEN 1 ELSE 0
  <1>a. more \in Nat /\ s1' = [s1 EXCEPT !.pc = "next", !.failed = @ + more]
    BY DEF runpanel!ScanSettles
  <1> HIDE DEF more
  <1>1. runpanel!RunOK'
    <2> DEFINE total == s1.failed + more
    <2>1. total \in Nat /\ s1' = [s1 EXCEPT !.pc = "next", !.failed = total]
      BY <1>a DEF runpanel!PanelInv, runpanel!TypeOK, runpanel!RunOK
    <2> HIDE DEF total
    <2> QED
      BY <2>1 DEF runpanel!PanelInv, runpanel!TypeOK, runpanel!RunOK
  <1>2. runpanel!PageOK'
    BY <1>a, <1>1 DEF runpanel!PanelInv, runpanel!ScanSettles, runpanel!Bars, runpanel!ShowBars,
       runpanel!other, runpanel!TypeOK, runpanel!RunOK, runpanel!PageOK, runpanel!Views,
       runpanel!Marks, runpanel!NoImport, runpanel!NotAsked
  <1>3. runpanel!Modes'
    BY <1>a, <1>1 DEF runpanel!PanelInv, runpanel!ScanSettles, runpanel!Bars, runpanel!ShowBars,
       runpanel!other, runpanel!TypeOK, runpanel!RunOK, runpanel!Modes
  <1>4. runpanel!RowsAreHeld'
    BY <1>a, <1>1, SameIsHeld DEF runpanel!ScanSettles, runpanel!Bars, runpanel!ShowBars,
       runpanel!other, runpanel!PanelInv, runpanel!Modes, runpanel!Walking, runpanel!Held,
       runpanel!TypeOK, runpanel!RunOK, runpanel!host, runpanel!browser
  <1>5. runpanel!RowsAreTold' /\ runpanel!IsFiniteSet(s5')
    BY <1>a, <1>1, SameIsTold DEF runpanel!ScanSettles, runpanel!Bars, runpanel!ShowBars,
       runpanel!other, runpanel!PanelInv, runpanel!TypeOK, runpanel!RunOK
  <1>6. runpanel!LastIsTold'
    BY <1>a, <1>1 DEF runpanel!PanelInv, runpanel!ScanSettles, runpanel!Bars, runpanel!ShowBars,
       runpanel!other, runpanel!LastIsTold, runpanel!Held, runpanel!Broken
  <1>7. runpanel!PageFollows'
    BY <1>a, <1>1 DEF runpanel!PanelInv, runpanel!ScanSettles, runpanel!Bars, runpanel!ShowBars,
       runpanel!other, runpanel!PageFollows, runpanel!NoBars, runpanel!Modes, runpanel!TypeOK,
       runpanel!RunOK, runpanel!PageOK
  <1>8. runpanel!BarsGo'
    BY <1>a, <1>1 DEF runpanel!PanelInv, runpanel!ScanSettles, runpanel!Bars, runpanel!ShowBars,
       runpanel!other, runpanel!BarsGo, runpanel!NoBars, runpanel!PageFollows, runpanel!TypeOK,
       runpanel!RunOK, runpanel!PageOK, runpanel!Views
  <1>9. runpanel!CardsFollow'
    BY <1>a, <1>1 DEF runpanel!PanelInv, runpanel!ScanSettles, runpanel!Bars, runpanel!ShowBars,
       runpanel!other, runpanel!CardsFollow, runpanel!PageFollows, runpanel!TypeOK,
       runpanel!RunOK, runpanel!PageOK, runpanel!Views
  <1> QED
    BY <1>1, <1>2, <1>3, <1>4, <1>5, <1>6, <1>7, <1>8, <1>9 DEF runpanel!PanelInv, runpanel!TypeOK

LEMMA PanelStep == runpanel!PanelInv /\ (runpanel!Next \/ UNCHANGED runpanel!vars) => runpanel!PanelInv'
  <1> SUFFICES ASSUME runpanel!PanelInv, runpanel!Next \/ UNCHANGED runpanel!vars PROVE runpanel!PanelInv'
    OBVIOUS
  <1>1. CASE runpanel!PublishCopy
    <2>1. runpanel!RunOK'
      BY <1>1 DEF runpanel!PanelInv, runpanel!PublishCopy, runpanel!browser, runpanel!other,
         runpanel!TypeOK, runpanel!RunOK
    <2>2. runpanel!PageOK'
      BY <1>1, <2>1 DEF runpanel!PanelInv, runpanel!PublishCopy, runpanel!browser, runpanel!other,
         runpanel!TypeOK, runpanel!RunOK, runpanel!PageOK, runpanel!Views, runpanel!Marks,
         runpanel!NoImport, runpanel!NotAsked
    <2>3. runpanel!Modes'
      BY <1>1, <2>1 DEF runpanel!PanelInv, runpanel!PublishCopy, runpanel!browser, runpanel!other,
         runpanel!TypeOK, runpanel!RunOK, runpanel!Modes
    <2>4. runpanel!RowsAreHeld'
      BY <1>1, <2>1, SameIsHeld DEF runpanel!PublishCopy, runpanel!browser, runpanel!other,
         runpanel!PanelInv, runpanel!Modes, runpanel!Walking, runpanel!Held, runpanel!TypeOK,
         runpanel!RunOK, runpanel!host
    <2>5. runpanel!RowsAreTold' /\ runpanel!IsFiniteSet(s5')
      BY <1>1, <2>1, SameIsTold DEF runpanel!PublishCopy, runpanel!browser, runpanel!other,
         runpanel!PanelInv, runpanel!TypeOK, runpanel!RunOK
    <2>6. runpanel!LastIsTold'
      BY <1>1, <2>1 DEF runpanel!PanelInv, runpanel!PublishCopy, runpanel!browser, runpanel!other,
         runpanel!LastIsTold, runpanel!Held, runpanel!Broken
    <2>7. runpanel!PageFollows'
      BY <1>1, <2>1 DEF runpanel!PanelInv, runpanel!PublishCopy, runpanel!browser, runpanel!other,
         runpanel!PageFollows, runpanel!NoBars, runpanel!Modes, runpanel!TypeOK, runpanel!RunOK,
         runpanel!PageOK
    <2>8. runpanel!BarsGo'
      BY <1>1, <2>1 DEF runpanel!PanelInv, runpanel!PublishCopy, runpanel!browser, runpanel!other,
         runpanel!BarsGo, runpanel!NoBars, runpanel!PageFollows, runpanel!TypeOK, runpanel!RunOK,
         runpanel!PageOK, runpanel!Views
    <2>9. runpanel!CardsFollow'
      BY <1>1, <2>1 DEF runpanel!PanelInv, runpanel!PublishCopy, runpanel!browser, runpanel!other,
         runpanel!CardsFollow, runpanel!PageFollows, runpanel!TypeOK, runpanel!RunOK,
         runpanel!PageOK, runpanel!Views
    <2> QED
      BY <2>1, <2>2, <2>3, <2>4, <2>5, <2>6, <2>7, <2>8, <2>9 DEF runpanel!PanelInv, runpanel!TypeOK
  <1>2. CASE runpanel!PublishRow
    <2>1. runpanel!RunOK'
      <3> DEFINE one == 1
                 more == s1.at + 1
      <3>1. one \in Nat /\ one >= 1 /\ more \in Nat /\ more >= 1 /\ runpanel!RunOK
        BY DEF runpanel!PanelInv, runpanel!TypeOK, runpanel!RunOK
      <3>2. s1' = [s1 EXCEPT !.pc = "next", !.at = one] \/ s1' = [s1 EXCEPT !.at = more]
        BY <1>2 DEF runpanel!PublishRow
      <3> HIDE DEF one, more
      <3> QED
        BY <3>1, <3>2 DEF runpanel!RunOK
    <2>2. runpanel!PageOK'
      BY <1>2, <2>1 DEF runpanel!PanelInv, runpanel!PublishRow, runpanel!QueueRow,
         runpanel!browser, runpanel!other, runpanel!TypeOK, runpanel!RunOK, runpanel!PageOK,
         runpanel!Views, runpanel!Marks, runpanel!NoImport, runpanel!NotAsked
    <2>3. runpanel!Modes'
      BY <1>2, <2>1 DEF runpanel!PanelInv, runpanel!PublishRow, runpanel!QueueRow,
         runpanel!browser, runpanel!other, runpanel!TypeOK, runpanel!RunOK, runpanel!Modes
    <2>4. runpanel!RowsAreHeld'
      <3>1. s1'.pc = "next" => s1'.at = 1
        BY <1>2, <2>1 DEF runpanel!PublishRow, runpanel!PanelInv, runpanel!TypeOK, runpanel!RunOK
      <3>2. s1'.pc \in {"next", "rows"}
        BY <1>2, <2>1 DEF runpanel!PublishRow, runpanel!PanelInv, runpanel!TypeOK, runpanel!RunOK
      <3> QED
        BY <3>1, <3>2 DEF runpanel!RowsAreHeld, runpanel!Walking
    <2>5. runpanel!RowsAreTold' /\ runpanel!IsFiniteSet(s5')
      <3>1. s1'.failed = s1.failed /\ s1'.lost = s1.lost /\ s1'.errors = s1.errors
        BY <1>2, <2>1 DEF runpanel!PublishRow, runpanel!PanelInv, runpanel!TypeOK, runpanel!RunOK
      <3>2. s1.failed \in Nat /\ s1.lost \in Nat /\ s1.errors \in Nat
        BY DEF runpanel!PanelInv, runpanel!TypeOK, runpanel!RunOK
      <3>3. CASE s5' = s5
        BY <2>1, <3>1, <3>2, <3>3, SameIsTold DEF runpanel!PanelInv, runpanel!TypeOK
      <3>4. CASE s5' = runpanel!QueueRow(s1.at, s1.todo[s1.at], "queued", "none")
        BY <2>1, <3>1, <3>2, <3>4, RowIsTold
      <3> QED
        BY <1>2, <3>3, <3>4 DEF runpanel!PublishRow
    <2>6. runpanel!LastIsTold'
      BY <1>2, <2>1 DEF runpanel!PanelInv, runpanel!PublishRow, runpanel!QueueRow,
         runpanel!browser, runpanel!other, runpanel!LastIsTold, runpanel!Held, runpanel!Broken
    <2>7. runpanel!PageFollows'
      BY <1>2, <2>1 DEF runpanel!PanelInv, runpanel!PublishRow, runpanel!QueueRow,
         runpanel!browser, runpanel!other, runpanel!PageFollows, runpanel!NoBars, runpanel!Modes,
         runpanel!TypeOK, runpanel!RunOK, runpanel!PageOK
    <2>8. runpanel!BarsGo'
      BY <1>2, <2>1 DEF runpanel!PanelInv, runpanel!PublishRow, runpanel!QueueRow,
         runpanel!browser, runpanel!other, runpanel!BarsGo, runpanel!NoBars, runpanel!PageFollows,
         runpanel!TypeOK, runpanel!RunOK, runpanel!PageOK, runpanel!Views
    <2>9. runpanel!CardsFollow'
      BY <1>2, <2>1 DEF runpanel!PanelInv, runpanel!PublishRow, runpanel!QueueRow,
         runpanel!browser, runpanel!other, runpanel!CardsFollow, runpanel!PageFollows,
         runpanel!TypeOK, runpanel!RunOK, runpanel!PageOK, runpanel!Views
    <2> QED
      BY <2>1, <2>2, <2>3, <2>4, <2>5, <2>6, <2>7, <2>8, <2>9 DEF runpanel!PanelInv, runpanel!TypeOK
  <1>3. CASE runpanel!Walk
    <2>1. runpanel!RunOK'
      <3> DEFINE more == s1.at + 1
      <3>1. more \in Nat /\ more >= 1 /\ runpanel!RunOK
        BY DEF runpanel!PanelInv, runpanel!TypeOK, runpanel!RunOK
      <3>2. s1' = [s1 EXCEPT !.pc = "end"] \/ s1' = [s1 EXCEPT !.pc = "channel", !.cid = s2[s1.at], !.at = more]
        BY <1>3 DEF runpanel!Walk
      <3> HIDE DEF more
      <3> QED
        BY <3>1, <3>2 DEF runpanel!RunOK
    <2>2. runpanel!PageOK'
      BY <1>3, <2>1 DEF runpanel!PanelInv, runpanel!Walk, runpanel!browser, runpanel!other,
         runpanel!TypeOK, runpanel!RunOK, runpanel!PageOK, runpanel!Views, runpanel!Marks,
         runpanel!NoImport, runpanel!NotAsked
    <2>3. runpanel!Modes'
      BY <1>3, <2>1 DEF runpanel!PanelInv, runpanel!Walk, runpanel!browser, runpanel!other,
         runpanel!TypeOK, runpanel!RunOK, runpanel!Modes
    <2>4. runpanel!RowsAreHeld'
      <3>1. s1.pc = "next" /\ s5' = s5 /\ s13' = s13 /\ s1.at \in Nat
        BY <1>3 DEF runpanel!Walk, runpanel!PanelInv, runpanel!TypeOK, runpanel!RunOK
      <3>2. CASE s1' = [s1 EXCEPT !.pc = "end"]
        BY <1>3, <2>1, <3>1, <3>2, SameIsHeld DEF runpanel!Walk, runpanel!Walking,
           runpanel!PanelInv, runpanel!TypeOK, runpanel!RunOK
      <3>3. CASE s1' = [s1 EXCEPT !.pc = "channel", !.cid = s2[s1.at], !.at = @ + 1]
        <4>a. s1'.at = s1.at + 1 /\ s1'.pc = "channel" /\ runpanel!Walking
          BY <1>3, <3>1, <3>3 DEF runpanel!Walk, runpanel!Walking, runpanel!PanelInv,
             runpanel!TypeOK, runpanel!RunOK
        <4>1. s1'.at = s1.at + 1 /\ s1'.pc = "channel" /\ runpanel!Here' = s1.at /\ runpanel!Walking
          BY <3>1, <4>a DEF runpanel!Here
        <4>2. \A i \in 1 .. (s1.at - 1) : \E r \in s5 : runpanel!Held(r, i)
          BY <3>1, <4>1 DEF runpanel!PanelInv, runpanel!RowsAreHeld
        <4>3. \A i \in 1 .. (s1'.at - 1) : i = runpanel!Here' \/ \E r \in s5' : runpanel!Held(r, i)'
          BY <3>1, <4>1, <4>2 DEF runpanel!Held
        <4> QED
          BY <4>1, <4>3 DEF runpanel!RowsAreHeld
      <3> QED
        BY <1>3, <3>2, <3>3 DEF runpanel!Walk
    <2>5. runpanel!RowsAreTold' /\ runpanel!IsFiniteSet(s5')
      BY <1>3, <2>1, SameIsTold DEF runpanel!Walk, runpanel!browser, runpanel!other,
         runpanel!PanelInv, runpanel!TypeOK, runpanel!RunOK
    <2>6. runpanel!LastIsTold'
      BY <1>3, <2>1 DEF runpanel!PanelInv, runpanel!Walk, runpanel!browser, runpanel!other,
         runpanel!LastIsTold, runpanel!Held, runpanel!Broken
    <2>7. runpanel!PageFollows'
      BY <1>3, <2>1 DEF runpanel!PanelInv, runpanel!Walk, runpanel!browser, runpanel!other,
         runpanel!PageFollows, runpanel!NoBars, runpanel!Modes, runpanel!TypeOK, runpanel!RunOK,
         runpanel!PageOK
    <2>8. runpanel!BarsGo'
      BY <1>3, <2>1 DEF runpanel!PanelInv, runpanel!Walk, runpanel!browser, runpanel!other,
         runpanel!BarsGo, runpanel!NoBars, runpanel!PageFollows, runpanel!TypeOK, runpanel!RunOK,
         runpanel!PageOK, runpanel!Views
    <2>9. runpanel!CardsFollow'
      BY <1>3, <2>1 DEF runpanel!PanelInv, runpanel!Walk, runpanel!browser, runpanel!other,
         runpanel!CardsFollow, runpanel!PageFollows, runpanel!TypeOK, runpanel!RunOK,
         runpanel!PageOK, runpanel!Views
    <2> QED
      BY <2>1, <2>2, <2>3, <2>4, <2>5, <2>6, <2>7, <2>8, <2>9 DEF runpanel!PanelInv, runpanel!TypeOK
  <1>4. CASE runpanel!Exit
    <2> PICK exit \in runpanel!Exits : /\ s5' = runpanel!Row(exit)
                                       /\ s1' = runpanel!Erred([s1 EXCEPT !.pc = "next", !.failed = @ + (IF exit.why = "listing" THEN 1 ELSE 0)], exit.why)
      BY <1>4 DEF runpanel!Exit
    <2> DEFINE failed == s1.failed + (IF exit.why = "listing" THEN 1 ELSE 0)
               errors == IF exit.why = "none" THEN s1.errors ELSE s1.errors + 1
    <2>a. /\ failed \in Nat /\ errors \in Nat /\ failed >= s1.failed /\ errors >= s1.errors
          /\ exit.state = "error" => (exit.why # "link" => failed > 0) /\ errors >= s1.errors + 1
          /\ exit.state \in runpanel!Settled
      BY DEF runpanel!PanelInv, runpanel!TypeOK, runpanel!RunOK, runpanel!Exits, runpanel!Settled
    <2>b. s1' = [[s1 EXCEPT !.pc = "next", !.failed = failed] EXCEPT !.errors = errors]
      BY DEF runpanel!PanelInv, runpanel!TypeOK, runpanel!RunOK, runpanel!Erred
    <2> HIDE DEF failed, errors
    <2>c. /\ s1.pc = "channel" /\ s1.mode = "download" /\ s13' = s13 /\ s2' = s2
          /\ s5' = runpanel!QueueRow(runpanel!Here, s1.cid, exit.state, exit.why)
      BY <1>4 DEF runpanel!Exit, runpanel!Row
    <2>1. runpanel!RunOK'
      BY <2>a, <2>b DEF runpanel!PanelInv, runpanel!TypeOK, runpanel!RunOK
    <2>2. runpanel!PageOK'
      BY <1>4, <2>1 DEF runpanel!PanelInv, runpanel!Exit, runpanel!Exits, runpanel!Cancelled,
         runpanel!Row, runpanel!Erred, runpanel!browser, runpanel!other, runpanel!QueueRow,
         runpanel!Here, runpanel!TypeOK, runpanel!RunOK, runpanel!PageOK, runpanel!Views,
         runpanel!Marks, runpanel!NoImport, runpanel!NotAsked
    <2>3. runpanel!Modes'
      BY <1>4, <2>1 DEF runpanel!PanelInv, runpanel!Exit, runpanel!Exits, runpanel!Cancelled,
         runpanel!Row, runpanel!Erred, runpanel!browser, runpanel!other, runpanel!QueueRow,
         runpanel!Here, runpanel!TypeOK, runpanel!RunOK, runpanel!Modes
    <2>4. runpanel!RowsAreHeld'
      BY <2>1, <2>a, <2>b, <2>c, HereIsHeld DEF runpanel!PanelInv, runpanel!TypeOK,
         runpanel!RunOK, runpanel!Walking
    <2>5. runpanel!RowsAreTold' /\ runpanel!IsFiniteSet(s5')
      <3>1. s1'.failed = failed /\ s1'.lost = s1.lost /\ s1'.errors = errors
        BY <2>b DEF runpanel!PanelInv, runpanel!TypeOK, runpanel!RunOK
      <3> QED
        BY <2>1, <2>a, <2>c, <3>1, RowIsTold
    <2>6. runpanel!LastIsTold'
      BY <1>4, <2>1 DEF runpanel!PanelInv, runpanel!Exit, runpanel!Exits, runpanel!Cancelled,
         runpanel!Row, runpanel!Erred, runpanel!browser, runpanel!other, runpanel!QueueRow,
         runpanel!Here, runpanel!LastIsTold, runpanel!Held, runpanel!Broken
    <2>7. runpanel!PageFollows'
      BY <1>4, <2>1 DEF runpanel!PanelInv, runpanel!Exit, runpanel!Exits, runpanel!Cancelled,
         runpanel!Row, runpanel!Erred, runpanel!browser, runpanel!other, runpanel!QueueRow,
         runpanel!Here, runpanel!PageFollows, runpanel!NoBars, runpanel!Modes, runpanel!TypeOK,
         runpanel!RunOK, runpanel!PageOK
    <2>8. runpanel!BarsGo'
      BY <1>4, <2>1 DEF runpanel!PanelInv, runpanel!Exit, runpanel!Exits, runpanel!Cancelled,
         runpanel!Row, runpanel!Erred, runpanel!browser, runpanel!other, runpanel!QueueRow,
         runpanel!Here, runpanel!BarsGo, runpanel!NoBars, runpanel!PageFollows, runpanel!TypeOK,
         runpanel!RunOK, runpanel!PageOK, runpanel!Views
    <2>9. runpanel!CardsFollow'
      BY <1>4, <2>1 DEF runpanel!PanelInv, runpanel!Exit, runpanel!Exits, runpanel!Cancelled,
         runpanel!Row, runpanel!Erred, runpanel!browser, runpanel!other, runpanel!QueueRow,
         runpanel!Here, runpanel!CardsFollow, runpanel!PageFollows, runpanel!TypeOK,
         runpanel!RunOK, runpanel!PageOK, runpanel!Views
    <2> QED
      BY <2>1, <2>2, <2>3, <2>4, <2>5, <2>6, <2>7, <2>8, <2>9 DEF runpanel!PanelInv, runpanel!TypeOK
  <1>5. CASE runpanel!Fetch
    <2>1. runpanel!RunOK'
      BY <1>5 DEF runpanel!PanelInv, runpanel!Fetch, runpanel!Card, runpanel!QueueRow,
         runpanel!Here, runpanel!other, runpanel!TypeOK, runpanel!RunOK
    <2>2. runpanel!PageOK'
      BY <1>5, <2>1 DEF runpanel!PanelInv, runpanel!Fetch, runpanel!Card, runpanel!QueueRow,
         runpanel!Here, runpanel!other, runpanel!TypeOK, runpanel!RunOK, runpanel!PageOK,
         runpanel!Views, runpanel!Marks, runpanel!NoImport, runpanel!NotAsked
    <2>3. runpanel!Modes'
      BY <1>5, <2>1 DEF runpanel!PanelInv, runpanel!Fetch, runpanel!Card, runpanel!QueueRow,
         runpanel!Here, runpanel!other, runpanel!TypeOK, runpanel!RunOK, runpanel!Modes
    <2>4. runpanel!RowsAreHeld'
      BY <1>5, <2>1, HereIsHeld DEF runpanel!Fetch, runpanel!Erred, runpanel!PanelInv,
         runpanel!TypeOK, runpanel!RunOK, runpanel!Exits, runpanel!Verdict, runpanel!Settled,
         runpanel!Walking
    <2>5. runpanel!RowsAreTold' /\ runpanel!IsFiniteSet(s5')
      BY <1>5, <2>1, RowIsTold DEF runpanel!Fetch, runpanel!Erred, runpanel!PanelInv,
         runpanel!TypeOK, runpanel!RunOK, runpanel!Exits, runpanel!Verdict, runpanel!Settled
    <2>6. runpanel!LastIsTold'
      BY <1>5, <2>1 DEF runpanel!PanelInv, runpanel!Fetch, runpanel!Card, runpanel!QueueRow,
         runpanel!Here, runpanel!other, runpanel!LastIsTold, runpanel!Held, runpanel!Broken
    <2>7. runpanel!PageFollows'
      BY <1>5, <2>1 DEF runpanel!PanelInv, runpanel!Fetch, runpanel!Card, runpanel!QueueRow,
         runpanel!Here, runpanel!other, runpanel!PageFollows, runpanel!NoBars, runpanel!Modes,
         runpanel!TypeOK, runpanel!RunOK, runpanel!PageOK
    <2>8. runpanel!BarsGo'
      BY <1>5, <2>1 DEF runpanel!PanelInv, runpanel!Fetch, runpanel!Card, runpanel!QueueRow,
         runpanel!Here, runpanel!other, runpanel!BarsGo, runpanel!NoBars, runpanel!PageFollows,
         runpanel!TypeOK, runpanel!RunOK, runpanel!PageOK, runpanel!Views
    <2>9. runpanel!CardsFollow'
      BY <1>5, <2>1 DEF runpanel!PanelInv, runpanel!Fetch, runpanel!Card, runpanel!QueueRow,
         runpanel!Here, runpanel!other, runpanel!CardsFollow, runpanel!PageFollows,
         runpanel!TypeOK, runpanel!RunOK, runpanel!PageOK, runpanel!Views
    <2> QED
      BY <2>1, <2>2, <2>3, <2>4, <2>5, <2>6, <2>7, <2>8, <2>9 DEF runpanel!PanelInv, runpanel!TypeOK
  <1>6. CASE runpanel!Track
    <2> PICK failed \in BOOLEAN : s1' = runpanel!Erred([s1 EXCEPT !.left = @ - 1, !.lost = @ + (IF failed THEN 1 ELSE 0)], IF failed THEN "track" ELSE "none")
      BY <1>6 DEF runpanel!Track
    <2> DEFINE lost == s1.lost + (IF failed THEN 1 ELSE 0)
               left == s1.left - 1
               errors == IF failed THEN s1.errors + 1 ELSE s1.errors
    <2>a. lost \in Nat /\ errors \in Nat /\ (failed => lost = s1.lost + 1 /\ errors = s1.errors + 1)
            /\ (~failed => lost = s1.lost /\ errors = s1.errors)
      BY DEF runpanel!PanelInv, runpanel!TypeOK, runpanel!RunOK
    <2>b. s1' = [[s1 EXCEPT !.left = left, !.lost = lost] EXCEPT !.errors = errors]
      BY DEF runpanel!PanelInv, runpanel!TypeOK, runpanel!RunOK, runpanel!Erred
    <2> HIDE DEF lost, left, errors
    <2>1. runpanel!RunOK'
      BY <2>a, <2>b DEF runpanel!PanelInv, runpanel!TypeOK, runpanel!RunOK
    <2>2. runpanel!PageOK'
      BY <1>6, <2>1 DEF runpanel!PanelInv, runpanel!Track, runpanel!Cancelled, runpanel!Erred,
         runpanel!Card, runpanel!other, runpanel!TypeOK, runpanel!RunOK, runpanel!PageOK,
         runpanel!Views, runpanel!Marks, runpanel!NoImport, runpanel!NotAsked
    <2>3. runpanel!Modes'
      BY <1>6, <2>1 DEF runpanel!PanelInv, runpanel!Track, runpanel!Cancelled, runpanel!Erred,
         runpanel!Card, runpanel!other, runpanel!TypeOK, runpanel!RunOK, runpanel!Modes
    <2>4. runpanel!RowsAreHeld'
      <3>1. s1'.pc = s1.pc /\ s1'.at = s1.at /\ s1'.mode = s1.mode
        BY <2>b DEF runpanel!PanelInv, runpanel!TypeOK, runpanel!RunOK
      <3> QED
        BY <1>6, <3>1, SameIsHeld DEF runpanel!Track, runpanel!Walking
    <2>5. runpanel!RowsAreTold' /\ runpanel!IsFiniteSet(s5')
      <3>1. s1'.failed = s1.failed /\ s1'.lost = lost /\ s1'.errors = errors /\ s1.failed \in Nat
              /\ s1.errors \in Nat
        BY <2>b DEF runpanel!PanelInv, runpanel!TypeOK, runpanel!RunOK
      <3>2. s5' = s5 /\ runpanel!IsFiniteSet(s5)
        BY <1>6 DEF runpanel!Track, runpanel!PanelInv, runpanel!TypeOK
      <3> QED
        BY <2>1, <2>a, <3>1, <3>2, SameIsTold
    <2>6. runpanel!LastIsTold'
      BY <1>6, <2>1 DEF runpanel!PanelInv, runpanel!Track, runpanel!Cancelled, runpanel!Erred,
         runpanel!Card, runpanel!other, runpanel!LastIsTold, runpanel!Held, runpanel!Broken
    <2>7. runpanel!PageFollows'
      BY <1>6, <2>1 DEF runpanel!PanelInv, runpanel!Track, runpanel!Cancelled, runpanel!Erred,
         runpanel!Card, runpanel!other, runpanel!PageFollows, runpanel!NoBars, runpanel!Modes,
         runpanel!TypeOK, runpanel!RunOK, runpanel!PageOK
    <2>8. runpanel!BarsGo'
      BY <1>6, <2>1 DEF runpanel!PanelInv, runpanel!Track, runpanel!Cancelled, runpanel!Erred,
         runpanel!Card, runpanel!other, runpanel!BarsGo, runpanel!NoBars, runpanel!PageFollows,
         runpanel!TypeOK, runpanel!RunOK, runpanel!PageOK, runpanel!Views
    <2>9. runpanel!CardsFollow'
      BY <1>6, <2>1 DEF runpanel!PanelInv, runpanel!Track, runpanel!Cancelled, runpanel!Erred,
         runpanel!Card, runpanel!other, runpanel!CardsFollow, runpanel!PageFollows,
         runpanel!TypeOK, runpanel!RunOK, runpanel!PageOK, runpanel!Views
    <2> QED
      BY <2>1, <2>2, <2>3, <2>4, <2>5, <2>6, <2>7, <2>8, <2>9 DEF runpanel!PanelInv, runpanel!TypeOK
  <1>7. CASE runpanel!Stopped
    <2>1. runpanel!RunOK'
      BY <1>7 DEF runpanel!PanelInv, runpanel!Stopped, runpanel!Cancelled, runpanel!browser,
         runpanel!other, runpanel!TypeOK, runpanel!RunOK
    <2>2. runpanel!PageOK'
      BY <1>7, <2>1 DEF runpanel!PanelInv, runpanel!Stopped, runpanel!Cancelled, runpanel!browser,
         runpanel!other, runpanel!TypeOK, runpanel!RunOK, runpanel!PageOK, runpanel!Views,
         runpanel!Marks, runpanel!NoImport, runpanel!NotAsked
    <2>3. runpanel!Modes'
      BY <1>7, <2>1 DEF runpanel!PanelInv, runpanel!Stopped, runpanel!Cancelled, runpanel!browser,
         runpanel!other, runpanel!TypeOK, runpanel!RunOK, runpanel!Modes
    <2>4. runpanel!RowsAreHeld'
      BY <1>7, <2>1, SameIsHeld DEF runpanel!Stopped, runpanel!Cancelled, runpanel!browser,
         runpanel!other, runpanel!PanelInv, runpanel!Modes, runpanel!Walking, runpanel!Held,
         runpanel!TypeOK, runpanel!RunOK, runpanel!host
    <2>5. runpanel!RowsAreTold' /\ runpanel!IsFiniteSet(s5')
      BY <1>7, <2>1, SameIsTold DEF runpanel!Stopped, runpanel!Cancelled, runpanel!browser,
         runpanel!other, runpanel!PanelInv, runpanel!TypeOK, runpanel!RunOK
    <2>6. runpanel!LastIsTold'
      BY <1>7, <2>1 DEF runpanel!PanelInv, runpanel!Stopped, runpanel!Cancelled, runpanel!browser,
         runpanel!other, runpanel!LastIsTold, runpanel!Held, runpanel!Broken
    <2>7. runpanel!PageFollows'
      BY <1>7, <2>1 DEF runpanel!PanelInv, runpanel!Stopped, runpanel!Cancelled, runpanel!browser,
         runpanel!other, runpanel!PageFollows, runpanel!NoBars, runpanel!Modes, runpanel!TypeOK,
         runpanel!RunOK, runpanel!PageOK
    <2>8. runpanel!BarsGo'
      BY <1>7, <2>1 DEF runpanel!PanelInv, runpanel!Stopped, runpanel!Cancelled, runpanel!browser,
         runpanel!other, runpanel!BarsGo, runpanel!NoBars, runpanel!PageFollows, runpanel!TypeOK,
         runpanel!RunOK, runpanel!PageOK, runpanel!Views
    <2>9. runpanel!CardsFollow'
      BY <1>7, <2>1 DEF runpanel!PanelInv, runpanel!Stopped, runpanel!Cancelled, runpanel!browser,
         runpanel!other, runpanel!CardsFollow, runpanel!PageFollows, runpanel!TypeOK,
         runpanel!RunOK, runpanel!PageOK, runpanel!Views
    <2> QED
      BY <2>1, <2>2, <2>3, <2>4, <2>5, <2>6, <2>7, <2>8, <2>9 DEF runpanel!PanelInv, runpanel!TypeOK
  <1>8. CASE runpanel!Raise
    <2>1. runpanel!RunOK'
      <3> DEFINE failed == s1.failed + 1
                 errors == s1.errors + 1
      <3>1. failed \in Nat /\ errors \in Nat /\ runpanel!RunOK
        BY DEF runpanel!PanelInv, runpanel!TypeOK, runpanel!RunOK
      <3>2. s1' = [[s1 EXCEPT !.pc = "next", !.failed = failed] EXCEPT !.errors = errors]
        BY <1>8 DEF runpanel!Raise, runpanel!PanelInv, runpanel!TypeOK, runpanel!RunOK,
           runpanel!Erred
      <3> HIDE DEF failed, errors
      <3> QED
        BY <3>1, <3>2 DEF runpanel!RunOK
    <2>2. runpanel!PageOK'
      BY <1>8, <2>1 DEF runpanel!PanelInv, runpanel!Raise, runpanel!QueueRow, runpanel!Here,
         runpanel!Erred, runpanel!browser, runpanel!other, runpanel!TypeOK, runpanel!RunOK,
         runpanel!PageOK, runpanel!Views, runpanel!Marks, runpanel!NoImport, runpanel!NotAsked
    <2>3. runpanel!Modes'
      BY <1>8, <2>1 DEF runpanel!PanelInv, runpanel!Raise, runpanel!QueueRow, runpanel!Here,
         runpanel!Erred, runpanel!browser, runpanel!other, runpanel!TypeOK, runpanel!RunOK,
         runpanel!Modes
    <2>4. runpanel!RowsAreHeld'
      BY <1>8, <2>1, HereIsHeld DEF runpanel!Raise, runpanel!Erred, runpanel!PanelInv,
         runpanel!TypeOK, runpanel!RunOK, runpanel!Exits, runpanel!Verdict, runpanel!Settled,
         runpanel!Walking
    <2>5. runpanel!RowsAreTold' /\ runpanel!IsFiniteSet(s5')
      BY <1>8, <2>1, RowIsTold DEF runpanel!Raise, runpanel!Erred, runpanel!PanelInv,
         runpanel!TypeOK, runpanel!RunOK, runpanel!Exits, runpanel!Verdict, runpanel!Settled
    <2>6. runpanel!LastIsTold'
      BY <1>8, <2>1 DEF runpanel!PanelInv, runpanel!Raise, runpanel!QueueRow, runpanel!Here,
         runpanel!Erred, runpanel!browser, runpanel!other, runpanel!LastIsTold, runpanel!Held,
         runpanel!Broken
    <2>7. runpanel!PageFollows'
      BY <1>8, <2>1 DEF runpanel!PanelInv, runpanel!Raise, runpanel!QueueRow, runpanel!Here,
         runpanel!Erred, runpanel!browser, runpanel!other, runpanel!PageFollows, runpanel!NoBars,
         runpanel!Modes, runpanel!TypeOK, runpanel!RunOK, runpanel!PageOK
    <2>8. runpanel!BarsGo'
      BY <1>8, <2>1 DEF runpanel!PanelInv, runpanel!Raise, runpanel!QueueRow, runpanel!Here,
         runpanel!Erred, runpanel!browser, runpanel!other, runpanel!BarsGo, runpanel!NoBars,
         runpanel!PageFollows, runpanel!TypeOK, runpanel!RunOK, runpanel!PageOK, runpanel!Views
    <2>9. runpanel!CardsFollow'
      BY <1>8, <2>1 DEF runpanel!PanelInv, runpanel!Raise, runpanel!QueueRow, runpanel!Here,
         runpanel!Erred, runpanel!browser, runpanel!other, runpanel!CardsFollow,
         runpanel!PageFollows, runpanel!TypeOK, runpanel!RunOK, runpanel!PageOK, runpanel!Views
    <2> QED
      BY <2>1, <2>2, <2>3, <2>4, <2>5, <2>6, <2>7, <2>8, <2>9 DEF runpanel!PanelInv, runpanel!TypeOK
  <1>9. CASE runpanel!Settle
    <2>1. runpanel!RunOK'
      BY <1>9 DEF runpanel!PanelInv, runpanel!Settle, runpanel!Card, runpanel!QueueRow,
         runpanel!Here, runpanel!Verdict, runpanel!other, runpanel!TypeOK, runpanel!RunOK
    <2>2. runpanel!PageOK'
      BY <1>9, <2>1 DEF runpanel!PanelInv, runpanel!Settle, runpanel!Card, runpanel!QueueRow,
         runpanel!Here, runpanel!Verdict, runpanel!other, runpanel!TypeOK, runpanel!RunOK,
         runpanel!PageOK, runpanel!Views, runpanel!Marks, runpanel!NoImport, runpanel!NotAsked
    <2>3. runpanel!Modes'
      BY <1>9, <2>1 DEF runpanel!PanelInv, runpanel!Settle, runpanel!Card, runpanel!QueueRow,
         runpanel!Here, runpanel!Verdict, runpanel!other, runpanel!TypeOK, runpanel!RunOK,
         runpanel!Modes
    <2>4. runpanel!RowsAreHeld'
      BY <1>9, <2>1, HereIsHeld DEF runpanel!Settle, runpanel!Erred, runpanel!PanelInv,
         runpanel!TypeOK, runpanel!RunOK, runpanel!Exits, runpanel!Verdict, runpanel!Settled,
         runpanel!Walking
    <2>5. runpanel!RowsAreTold' /\ runpanel!IsFiniteSet(s5')
      BY <1>9, <2>1, RowIsTold DEF runpanel!Settle, runpanel!Erred, runpanel!PanelInv,
         runpanel!TypeOK, runpanel!RunOK, runpanel!Exits, runpanel!Verdict, runpanel!Settled
    <2>6. runpanel!LastIsTold'
      BY <1>9, <2>1 DEF runpanel!PanelInv, runpanel!Settle, runpanel!Card, runpanel!QueueRow,
         runpanel!Here, runpanel!Verdict, runpanel!other, runpanel!LastIsTold, runpanel!Held,
         runpanel!Broken
    <2>7. runpanel!PageFollows'
      BY <1>9, <2>1 DEF runpanel!PanelInv, runpanel!Settle, runpanel!Card, runpanel!QueueRow,
         runpanel!Here, runpanel!Verdict, runpanel!other, runpanel!PageFollows, runpanel!NoBars,
         runpanel!Modes, runpanel!TypeOK, runpanel!RunOK, runpanel!PageOK
    <2>8. runpanel!BarsGo'
      BY <1>9, <2>1 DEF runpanel!PanelInv, runpanel!Settle, runpanel!Card, runpanel!QueueRow,
         runpanel!Here, runpanel!Verdict, runpanel!other, runpanel!BarsGo, runpanel!NoBars,
         runpanel!PageFollows, runpanel!TypeOK, runpanel!RunOK, runpanel!PageOK, runpanel!Views
    <2>9. runpanel!CardsFollow'
      BY <1>9, <2>1 DEF runpanel!PanelInv, runpanel!Settle, runpanel!Card, runpanel!QueueRow,
         runpanel!Here, runpanel!Verdict, runpanel!other, runpanel!CardsFollow,
         runpanel!PageFollows, runpanel!TypeOK, runpanel!RunOK, runpanel!PageOK, runpanel!Views
    <2> QED
      BY <2>1, <2>2, <2>3, <2>4, <2>5, <2>6, <2>7, <2>8, <2>9 DEF runpanel!PanelInv, runpanel!TypeOK
  <1>10. CASE runpanel!ScanNext
    <2>1. runpanel!RunOK'
      <3> DEFINE more == s1.at + 1
      <3>1. more \in Nat /\ more >= 1 /\ runpanel!RunOK
        BY DEF runpanel!PanelInv, runpanel!TypeOK, runpanel!RunOK
      <3>2. s1' = [s1 EXCEPT !.pc = "end"]
              \/ s1' = [s1 EXCEPT !.pc = "channel", !.cid = s1.todo[s1.at], !.at = more]
        BY <1>10 DEF runpanel!ScanNext
      <3> HIDE DEF more
      <3> QED
        BY <3>1, <3>2 DEF runpanel!RunOK
    <2>2. runpanel!PageOK'
      BY <1>10, <2>1 DEF runpanel!PanelInv, runpanel!ScanNext, runpanel!browser, runpanel!other,
         runpanel!TypeOK, runpanel!RunOK, runpanel!PageOK, runpanel!Views, runpanel!Marks,
         runpanel!NoImport, runpanel!NotAsked
    <2>3. runpanel!Modes'
      BY <1>10, <2>1 DEF runpanel!PanelInv, runpanel!ScanNext, runpanel!browser, runpanel!other,
         runpanel!TypeOK, runpanel!RunOK, runpanel!Modes
    <2>4. runpanel!RowsAreHeld'
      <3>1. s2 = << >> /\ s2' = s2 /\ s1'.mode = "scan"
        BY <1>10, <2>1 DEF runpanel!ScanNext, runpanel!PanelInv, runpanel!Modes, runpanel!TypeOK,
           runpanel!RunOK
      <3> QED
        BY <3>1 DEF runpanel!RowsAreHeld, runpanel!Walking
    <2>5. runpanel!RowsAreTold' /\ runpanel!IsFiniteSet(s5')
      BY <1>10, <2>1, SameIsTold DEF runpanel!ScanNext, runpanel!browser, runpanel!other,
         runpanel!PanelInv, runpanel!TypeOK, runpanel!RunOK
    <2>6. runpanel!LastIsTold'
      BY <1>10, <2>1 DEF runpanel!PanelInv, runpanel!ScanNext, runpanel!browser, runpanel!other,
         runpanel!LastIsTold, runpanel!Held, runpanel!Broken
    <2>7. runpanel!PageFollows'
      BY <1>10, <2>1 DEF runpanel!PanelInv, runpanel!ScanNext, runpanel!browser, runpanel!other,
         runpanel!PageFollows, runpanel!NoBars, runpanel!Modes, runpanel!TypeOK, runpanel!RunOK,
         runpanel!PageOK
    <2>8. runpanel!BarsGo'
      BY <1>10, <2>1 DEF runpanel!PanelInv, runpanel!ScanNext, runpanel!browser, runpanel!other,
         runpanel!BarsGo, runpanel!NoBars, runpanel!PageFollows, runpanel!TypeOK, runpanel!RunOK,
         runpanel!PageOK, runpanel!Views
    <2>9. runpanel!CardsFollow'
      BY <1>10, <2>1 DEF runpanel!PanelInv, runpanel!ScanNext, runpanel!browser, runpanel!other,
         runpanel!CardsFollow, runpanel!PageFollows, runpanel!TypeOK, runpanel!RunOK,
         runpanel!PageOK, runpanel!Views
    <2> QED
      BY <2>1, <2>2, <2>3, <2>4, <2>5, <2>6, <2>7, <2>8, <2>9 DEF runpanel!PanelInv, runpanel!TypeOK
  <1>11. CASE runpanel!ScanLists
    <2>1. runpanel!RunOK'
      BY <1>11 DEF runpanel!PanelInv, runpanel!ScanLists, runpanel!Cancelled, runpanel!Bars,
         runpanel!ShowBars, runpanel!other, runpanel!TypeOK, runpanel!RunOK
    <2>2. runpanel!PageOK'
      BY <1>11, <2>1 DEF runpanel!PanelInv, runpanel!ScanLists, runpanel!Cancelled, runpanel!Bars,
         runpanel!ShowBars, runpanel!other, runpanel!TypeOK, runpanel!RunOK, runpanel!PageOK,
         runpanel!Views, runpanel!Marks, runpanel!NoImport, runpanel!NotAsked
    <2>3. runpanel!Modes'
      BY <1>11, <2>1 DEF runpanel!PanelInv, runpanel!ScanLists, runpanel!Cancelled, runpanel!Bars,
         runpanel!ShowBars, runpanel!other, runpanel!TypeOK, runpanel!RunOK, runpanel!Modes
    <2>4. runpanel!RowsAreHeld'
      BY <1>11, <2>1, SameIsHeld DEF runpanel!ScanLists, runpanel!Cancelled, runpanel!Bars,
         runpanel!ShowBars, runpanel!other, runpanel!PanelInv, runpanel!Modes, runpanel!Walking,
         runpanel!Held, runpanel!TypeOK, runpanel!RunOK, runpanel!host, runpanel!browser
    <2>5. runpanel!RowsAreTold' /\ runpanel!IsFiniteSet(s5')
      BY <1>11, <2>1, SameIsTold DEF runpanel!ScanLists, runpanel!Cancelled, runpanel!Bars,
         runpanel!ShowBars, runpanel!other, runpanel!PanelInv, runpanel!TypeOK, runpanel!RunOK
    <2>6. runpanel!LastIsTold'
      BY <1>11, <2>1 DEF runpanel!PanelInv, runpanel!ScanLists, runpanel!Cancelled, runpanel!Bars,
         runpanel!ShowBars, runpanel!other, runpanel!LastIsTold, runpanel!Held, runpanel!Broken
    <2>7. runpanel!PageFollows'
      BY <1>11, <2>1 DEF runpanel!PanelInv, runpanel!ScanLists, runpanel!Cancelled, runpanel!Bars,
         runpanel!ShowBars, runpanel!other, runpanel!PageFollows, runpanel!NoBars, runpanel!Modes,
         runpanel!TypeOK, runpanel!RunOK, runpanel!PageOK
    <2>8. runpanel!BarsGo'
      BY <1>11, <2>1 DEF runpanel!PanelInv, runpanel!ScanLists, runpanel!Cancelled, runpanel!Bars,
         runpanel!ShowBars, runpanel!other, runpanel!BarsGo, runpanel!NoBars,
         runpanel!PageFollows, runpanel!TypeOK, runpanel!RunOK, runpanel!PageOK, runpanel!Views
    <2>9. runpanel!CardsFollow'
      BY <1>11, <2>1 DEF runpanel!PanelInv, runpanel!ScanLists, runpanel!Cancelled, runpanel!Bars,
         runpanel!ShowBars, runpanel!other, runpanel!CardsFollow, runpanel!PageFollows,
         runpanel!TypeOK, runpanel!RunOK, runpanel!PageOK, runpanel!Views
    <2> QED
      BY <2>1, <2>2, <2>3, <2>4, <2>5, <2>6, <2>7, <2>8, <2>9 DEF runpanel!PanelInv, runpanel!TypeOK
  <1>12. CASE runpanel!Report
    <2>1. runpanel!RunOK'
      BY <1>12 DEF runpanel!PanelInv, runpanel!Report, runpanel!ShowBars, runpanel!host,
         runpanel!other, runpanel!TypeOK, runpanel!RunOK
    <2>2. runpanel!PageOK'
      BY <1>12, <2>1 DEF runpanel!PanelInv, runpanel!Report, runpanel!ShowBars, runpanel!host,
         runpanel!other, runpanel!TypeOK, runpanel!RunOK, runpanel!PageOK, runpanel!Views,
         runpanel!Marks, runpanel!NoImport, runpanel!NotAsked
    <2>3. runpanel!Modes'
      BY <1>12, <2>1 DEF runpanel!PanelInv, runpanel!Report, runpanel!ShowBars, runpanel!host,
         runpanel!other, runpanel!TypeOK, runpanel!RunOK, runpanel!Modes
    <2>4. runpanel!RowsAreHeld'
      BY <1>12, <2>1, SameIsHeld DEF runpanel!Report, runpanel!ShowBars, runpanel!host,
         runpanel!other, runpanel!PanelInv, runpanel!Modes, runpanel!Walking, runpanel!Held,
         runpanel!TypeOK, runpanel!RunOK, runpanel!browser
    <2>5. runpanel!RowsAreTold' /\ runpanel!IsFiniteSet(s5')
      BY <1>12, <2>1, SameIsTold DEF runpanel!Report, runpanel!ShowBars, runpanel!host,
         runpanel!other, runpanel!PanelInv, runpanel!TypeOK, runpanel!RunOK
    <2>6. runpanel!LastIsTold'
      BY <1>12, <2>1 DEF runpanel!PanelInv, runpanel!Report, runpanel!ShowBars, runpanel!host,
         runpanel!other, runpanel!LastIsTold, runpanel!Held, runpanel!Broken
    <2>7. runpanel!PageFollows'
      BY <1>12, <2>1 DEF runpanel!PanelInv, runpanel!Report, runpanel!ShowBars, runpanel!host,
         runpanel!other, runpanel!PageFollows, runpanel!NoBars, runpanel!Modes, runpanel!TypeOK,
         runpanel!RunOK, runpanel!PageOK
    <2>8. runpanel!BarsGo'
      BY <1>12, <2>1 DEF runpanel!PanelInv, runpanel!Report, runpanel!ShowBars, runpanel!host,
         runpanel!other, runpanel!BarsGo, runpanel!NoBars, runpanel!PageFollows, runpanel!TypeOK,
         runpanel!RunOK, runpanel!PageOK, runpanel!Views
    <2>9. runpanel!CardsFollow'
      BY <1>12, <2>1 DEF runpanel!PanelInv, runpanel!Report, runpanel!ShowBars, runpanel!host,
         runpanel!other, runpanel!CardsFollow, runpanel!PageFollows, runpanel!TypeOK,
         runpanel!RunOK, runpanel!PageOK, runpanel!Views
    <2> QED
      BY <2>1, <2>2, <2>3, <2>4, <2>5, <2>6, <2>7, <2>8, <2>9 DEF runpanel!PanelInv, runpanel!TypeOK
  <1>13. CASE runpanel!ScanNothing
    <2>1. runpanel!RunOK'
      <3> DEFINE failed == s1.failed + (IF s1.pc = "listing" THEN 1 ELSE 0)
      <3>1. failed \in Nat /\ runpanel!RunOK
        BY DEF runpanel!PanelInv, runpanel!TypeOK, runpanel!RunOK
      <3>2. s1' = [s1 EXCEPT !.pc = "next", !.failed = failed]
        BY <1>13 DEF runpanel!ScanNothing
      <3> HIDE DEF failed
      <3> QED
        BY <3>1, <3>2 DEF runpanel!RunOK
    <2>2. runpanel!PageOK'
      BY <1>13, <2>1 DEF runpanel!PanelInv, runpanel!ScanNothing, runpanel!Bars,
         runpanel!ShowBars, runpanel!other, runpanel!TypeOK, runpanel!RunOK, runpanel!PageOK,
         runpanel!Views, runpanel!Marks, runpanel!NoImport, runpanel!NotAsked
    <2>3. runpanel!Modes'
      BY <1>13, <2>1 DEF runpanel!PanelInv, runpanel!ScanNothing, runpanel!Bars,
         runpanel!ShowBars, runpanel!other, runpanel!TypeOK, runpanel!RunOK, runpanel!Modes
    <2>4. runpanel!RowsAreHeld'
      BY <1>13, <2>1, SameIsHeld DEF runpanel!ScanNothing, runpanel!Bars, runpanel!ShowBars,
         runpanel!other, runpanel!PanelInv, runpanel!Modes, runpanel!Walking, runpanel!Held,
         runpanel!TypeOK, runpanel!RunOK, runpanel!host, runpanel!browser
    <2>5. runpanel!RowsAreTold' /\ runpanel!IsFiniteSet(s5')
      BY <1>13, <2>1, SameIsTold DEF runpanel!ScanNothing, runpanel!Bars, runpanel!ShowBars,
         runpanel!other, runpanel!PanelInv, runpanel!TypeOK, runpanel!RunOK
    <2>6. runpanel!LastIsTold'
      BY <1>13, <2>1 DEF runpanel!PanelInv, runpanel!ScanNothing, runpanel!Bars,
         runpanel!ShowBars, runpanel!other, runpanel!LastIsTold, runpanel!Held, runpanel!Broken
    <2>7. runpanel!PageFollows'
      BY <1>13, <2>1 DEF runpanel!PanelInv, runpanel!ScanNothing, runpanel!Bars,
         runpanel!ShowBars, runpanel!other, runpanel!PageFollows, runpanel!NoBars, runpanel!Modes,
         runpanel!TypeOK, runpanel!RunOK, runpanel!PageOK
    <2>8. runpanel!BarsGo'
      BY <1>13, <2>1 DEF runpanel!PanelInv, runpanel!ScanNothing, runpanel!Bars,
         runpanel!ShowBars, runpanel!other, runpanel!BarsGo, runpanel!NoBars,
         runpanel!PageFollows, runpanel!TypeOK, runpanel!RunOK, runpanel!PageOK, runpanel!Views
    <2>9. runpanel!CardsFollow'
      BY <1>13, <2>1 DEF runpanel!PanelInv, runpanel!ScanNothing, runpanel!Bars,
         runpanel!ShowBars, runpanel!other, runpanel!CardsFollow, runpanel!PageFollows,
         runpanel!TypeOK, runpanel!RunOK, runpanel!PageOK, runpanel!Views
    <2> QED
      BY <2>1, <2>2, <2>3, <2>4, <2>5, <2>6, <2>7, <2>8, <2>9 DEF runpanel!PanelInv, runpanel!TypeOK
  <1>14. CASE runpanel!EndRun
    <2>1. runpanel!RunOK'
      BY <1>14 DEF runpanel!PanelInv, runpanel!EndRun, runpanel!Bars, runpanel!ShowBars,
         runpanel!other, runpanel!TypeOK, runpanel!RunOK
    <2>2. runpanel!PageOK'
      BY <1>14, <2>1 DEF runpanel!PanelInv, runpanel!EndRun, runpanel!Bars, runpanel!ShowBars,
         runpanel!other, runpanel!TypeOK, runpanel!RunOK, runpanel!PageOK, runpanel!Views,
         runpanel!Marks, runpanel!NoImport, runpanel!NotAsked
    <2>3. runpanel!Modes'
      BY <1>14, <2>1 DEF runpanel!PanelInv, runpanel!EndRun, runpanel!Bars, runpanel!ShowBars,
         runpanel!other, runpanel!TypeOK, runpanel!RunOK, runpanel!Modes
    <2>4. runpanel!RowsAreHeld'
      BY <1>14, <2>1, SameIsHeld DEF runpanel!EndRun, runpanel!Bars, runpanel!ShowBars,
         runpanel!other, runpanel!PanelInv, runpanel!Modes, runpanel!Walking, runpanel!Held,
         runpanel!TypeOK, runpanel!RunOK, runpanel!host, runpanel!browser
    <2>5. runpanel!RowsAreTold' /\ runpanel!IsFiniteSet(s5')
      BY <1>14, <2>1, SameIsTold DEF runpanel!EndRun, runpanel!Bars, runpanel!ShowBars,
         runpanel!other, runpanel!PanelInv, runpanel!TypeOK, runpanel!RunOK
    <2>6. runpanel!LastIsTold'
      BY <1>14, <2>1 DEF runpanel!PanelInv, runpanel!EndRun, runpanel!Bars, runpanel!ShowBars,
         runpanel!other, runpanel!LastIsTold, runpanel!Held, runpanel!Broken
    <2>7. runpanel!PageFollows'
      BY <1>14, <2>1 DEF runpanel!PanelInv, runpanel!EndRun, runpanel!Bars, runpanel!ShowBars,
         runpanel!other, runpanel!PageFollows, runpanel!NoBars, runpanel!Modes, runpanel!TypeOK,
         runpanel!RunOK, runpanel!PageOK
    <2>8. runpanel!BarsGo'
      BY <1>14, <2>1 DEF runpanel!PanelInv, runpanel!EndRun, runpanel!Bars, runpanel!ShowBars,
         runpanel!other, runpanel!BarsGo, runpanel!NoBars, runpanel!PageFollows, runpanel!TypeOK,
         runpanel!RunOK, runpanel!PageOK, runpanel!Views
    <2>9. runpanel!CardsFollow'
      BY <1>14, <2>1 DEF runpanel!PanelInv, runpanel!EndRun, runpanel!Bars, runpanel!ShowBars,
         runpanel!other, runpanel!CardsFollow, runpanel!PageFollows, runpanel!TypeOK,
         runpanel!RunOK, runpanel!PageOK, runpanel!Views
    <2> QED
      BY <2>1, <2>2, <2>3, <2>4, <2>5, <2>6, <2>7, <2>8, <2>9 DEF runpanel!PanelInv, runpanel!TypeOK
  <1>15. CASE runpanel!Free
    <2>1. runpanel!RunOK'
      BY <1>15 DEF runpanel!PanelInv, runpanel!Free, runpanel!NotAsked, runpanel!other,
         runpanel!TypeOK, runpanel!RunOK
    <2>2. runpanel!PageOK'
      BY <1>15, <2>1 DEF runpanel!PanelInv, runpanel!Free, runpanel!NotAsked, runpanel!other,
         runpanel!TypeOK, runpanel!RunOK, runpanel!PageOK, runpanel!Views, runpanel!Marks,
         runpanel!NoImport
    <2>3. runpanel!Modes'
      BY <1>15, <2>1 DEF runpanel!PanelInv, runpanel!Free, runpanel!NotAsked, runpanel!other,
         runpanel!TypeOK, runpanel!RunOK, runpanel!Modes
    <2>4. runpanel!RowsAreHeld'
      BY <1>15, <2>1, SameIsHeld DEF runpanel!Free, runpanel!NotAsked, runpanel!other,
         runpanel!PanelInv, runpanel!Modes, runpanel!Walking, runpanel!Held, runpanel!TypeOK,
         runpanel!RunOK, runpanel!host, runpanel!browser
    <2>5. runpanel!RowsAreTold' /\ runpanel!IsFiniteSet(s5')
      BY <1>15, <2>1, SameIsTold DEF runpanel!Free, runpanel!NotAsked, runpanel!other,
         runpanel!PanelInv, runpanel!TypeOK, runpanel!RunOK
    <2>6. runpanel!LastIsTold'
      <3>1. CASE s5 = {}
        BY <1>15, <3>1 DEF runpanel!Free, runpanel!other, runpanel!PanelInv, runpanel!LastIsTold,
           runpanel!Held
      <3>2. CASE s5 # {}
        <4>1. /\ s6'.rows = s5 /\ s6'.walked = (IF s2 = << >> THEN 1 ELSE s1.at)
              /\ s6'.warn = (s1.failed > 0 \/ s1.lost > 0) /\ s6'.lost = s1.lost /\ s6'.errors = s1.errors
              /\ s1.pc = "free" /\ s13' = s13
          BY <1>15, <3>2 DEF runpanel!Free
        <4>2. \A i \in 1 .. (s6'.walked - 1) : \E r \in s5 : runpanel!Held(r, i)
          <5>1. CASE s2 = << >>
            BY <4>1, <5>1
          <5>2. CASE s2 # << >>
            BY <4>1, <5>2 DEF runpanel!PanelInv, runpanel!RowsAreHeld, runpanel!Walking
          <5> QED
            BY <5>1, <5>2
        <4>3. (s6'.lost > 0 \/ \E r \in runpanel!Broken(s5) : r.why # "link") => s6'.warn
          BY <4>1 DEF runpanel!PanelInv, runpanel!RowsAreTold
        <4> QED
          BY <4>1, <4>2, <4>3 DEF runpanel!LastIsTold, runpanel!PanelInv, runpanel!RowsAreTold,
             runpanel!Held
      <3> QED
        BY <3>1, <3>2
    <2>7. runpanel!PageFollows'
      BY <1>15, <2>1 DEF runpanel!PanelInv, runpanel!Free, runpanel!NotAsked, runpanel!other,
         runpanel!PageFollows, runpanel!NoBars, runpanel!Modes, runpanel!TypeOK, runpanel!RunOK,
         runpanel!PageOK
    <2>8. runpanel!BarsGo'
      <3>1. s10' = Append(s10, runpanel!NotAsked) /\ Len(s10) \in Nat
        BY <1>15 DEF runpanel!Free, runpanel!PanelInv, runpanel!TypeOK, runpanel!PageOK
      <3>2. s10' # << >> /\ s10'[Len(s10')] = runpanel!NotAsked
        BY <3>1, AsksAre DEF runpanel!PanelInv, runpanel!TypeOK, runpanel!PageOK
      <3> QED
        BY <3>2 DEF runpanel!BarsGo
    <2>9. runpanel!CardsFollow'
      <3>1. s10' = Append(s10, runpanel!NotAsked) /\ s10 \in Seq(runpanel!Views)
        BY <1>15 DEF runpanel!Free, runpanel!PanelInv, runpanel!TypeOK, runpanel!PageOK
      <3> QED
        BY <3>1, AsksAre DEF runpanel!CardsFollow
    <2> QED
      BY <2>1, <2>2, <2>3, <2>4, <2>5, <2>6, <2>7, <2>8, <2>9 DEF runpanel!PanelInv, runpanel!TypeOK
  <1>16. CASE runpanel!CancelAll
    <2>1. runpanel!RunOK'
      BY <1>16 DEF runpanel!PanelInv, runpanel!CancelAll, runpanel!browser, runpanel!other,
         runpanel!TypeOK, runpanel!RunOK
    <2>2. runpanel!PageOK'
      BY <1>16, <2>1 DEF runpanel!PanelInv, runpanel!CancelAll, runpanel!browser, runpanel!other,
         runpanel!TypeOK, runpanel!RunOK, runpanel!PageOK, runpanel!Views, runpanel!Marks,
         runpanel!NoImport, runpanel!NotAsked
    <2>3. runpanel!Modes'
      BY <1>16, <2>1 DEF runpanel!PanelInv, runpanel!CancelAll, runpanel!browser, runpanel!other,
         runpanel!TypeOK, runpanel!RunOK, runpanel!Modes
    <2>4. runpanel!RowsAreHeld'
      BY <1>16, <2>1, SameIsHeld DEF runpanel!CancelAll, runpanel!browser, runpanel!other,
         runpanel!PanelInv, runpanel!Modes, runpanel!Walking, runpanel!Held, runpanel!TypeOK,
         runpanel!RunOK, runpanel!host
    <2>5. runpanel!RowsAreTold' /\ runpanel!IsFiniteSet(s5')
      BY <1>16, <2>1, SameIsTold DEF runpanel!CancelAll, runpanel!browser, runpanel!other,
         runpanel!PanelInv, runpanel!TypeOK, runpanel!RunOK
    <2>6. runpanel!LastIsTold'
      BY <1>16, <2>1 DEF runpanel!PanelInv, runpanel!CancelAll, runpanel!browser, runpanel!other,
         runpanel!LastIsTold, runpanel!Held, runpanel!Broken
    <2>7. runpanel!PageFollows'
      BY <1>16, <2>1 DEF runpanel!PanelInv, runpanel!CancelAll, runpanel!browser, runpanel!other,
         runpanel!PageFollows, runpanel!NoBars, runpanel!Modes, runpanel!TypeOK, runpanel!RunOK,
         runpanel!PageOK
    <2>8. runpanel!BarsGo'
      BY <1>16, <2>1 DEF runpanel!PanelInv, runpanel!CancelAll, runpanel!browser, runpanel!other,
         runpanel!BarsGo, runpanel!NoBars, runpanel!PageFollows, runpanel!TypeOK, runpanel!RunOK,
         runpanel!PageOK, runpanel!Views
    <2>9. runpanel!CardsFollow'
      BY <1>16, <2>1 DEF runpanel!PanelInv, runpanel!CancelAll, runpanel!browser, runpanel!other,
         runpanel!CardsFollow, runpanel!PageFollows, runpanel!TypeOK, runpanel!RunOK,
         runpanel!PageOK, runpanel!Views
    <2> QED
      BY <2>1, <2>2, <2>3, <2>4, <2>5, <2>6, <2>7, <2>8, <2>9 DEF runpanel!PanelInv, runpanel!TypeOK
  <1>17. CASE runpanel!Snapshot
    <2>a. PICK i \in runpanel!Unread : s10' = [s10 EXCEPT ![i] = [cards |-> s7, bars |-> s8]]
      BY <1>17 DEF runpanel!Snapshot
    <2>b. i \in DOMAIN s10 /\ s10[i] = runpanel!NotAsked /\ [cards |-> s7, bars |-> s8] \in runpanel!Views
      BY <2>a DEF runpanel!Unread, runpanel!PanelInv, runpanel!TypeOK, runpanel!PageOK,
         runpanel!Views
    <2>c. s10' \in Seq(runpanel!Views) /\ Len(s10') = Len(s10) /\ s10 # << >> /\ s10' # << >>
      BY <2>a, <2>b DEF runpanel!PanelInv, runpanel!TypeOK, runpanel!PageOK
    <2>1. runpanel!RunOK'
      BY <1>17 DEF runpanel!PanelInv, runpanel!Snapshot, runpanel!Unread, runpanel!host,
         runpanel!other, runpanel!NotAsked, runpanel!TypeOK, runpanel!RunOK
    <2>2. runpanel!PageOK'
      BY <1>17, <2>c DEF runpanel!Snapshot, runpanel!host, runpanel!other, runpanel!PanelInv,
         runpanel!TypeOK, runpanel!PageOK
    <2>3. runpanel!Modes'
      BY <1>17, <2>1 DEF runpanel!PanelInv, runpanel!Snapshot, runpanel!Unread, runpanel!host,
         runpanel!other, runpanel!NotAsked, runpanel!TypeOK, runpanel!RunOK, runpanel!Modes
    <2>4. runpanel!RowsAreHeld'
      BY <1>17, <2>1, SameIsHeld DEF runpanel!Snapshot, runpanel!Unread, runpanel!host,
         runpanel!other, runpanel!NotAsked, runpanel!PanelInv, runpanel!Modes, runpanel!Walking,
         runpanel!Held, runpanel!TypeOK, runpanel!RunOK, runpanel!browser
    <2>5. runpanel!RowsAreTold' /\ runpanel!IsFiniteSet(s5')
      BY <1>17, <2>1, SameIsTold DEF runpanel!Snapshot, runpanel!Unread, runpanel!host,
         runpanel!other, runpanel!NotAsked, runpanel!PanelInv, runpanel!TypeOK, runpanel!RunOK
    <2>6. runpanel!LastIsTold'
      BY <1>17, <2>1 DEF runpanel!PanelInv, runpanel!Snapshot, runpanel!Unread, runpanel!host,
         runpanel!other, runpanel!NotAsked, runpanel!LastIsTold, runpanel!Held, runpanel!Broken
    <2>7. runpanel!PageFollows'
      BY <1>17, <2>1 DEF runpanel!PanelInv, runpanel!Snapshot, runpanel!Unread, runpanel!host,
         runpanel!other, runpanel!NotAsked, runpanel!PageFollows, runpanel!NoBars, runpanel!Modes,
         runpanel!TypeOK, runpanel!RunOK, runpanel!PageOK
    <2>8. runpanel!BarsGo'
      <3>1. CASE i = Len(s10)
        BY <1>17, <2>a, <2>b, <2>c, <3>1 DEF runpanel!Snapshot, runpanel!host, runpanel!PanelInv,
           runpanel!PageFollows, runpanel!BarsGo, runpanel!TypeOK, runpanel!PageOK
      <3>2. CASE i # Len(s10)
        <4>1. s10'[Len(s10')] = s10[Len(s10)]
          BY <2>a, <2>b, <2>c, <3>2 DEF runpanel!PanelInv, runpanel!TypeOK, runpanel!PageOK
        <4> QED
          BY <1>17, <2>c, <4>1 DEF runpanel!Snapshot, runpanel!host, runpanel!PanelInv,
             runpanel!BarsGo, runpanel!NoBars
      <3> QED
        BY <3>1, <3>2
    <2>9. runpanel!CardsFollow'
      BY <1>17, <2>c DEF runpanel!Snapshot, runpanel!host, runpanel!other, runpanel!CardsFollow
    <2> QED
      BY <2>1, <2>2, <2>3, <2>4, <2>5, <2>6, <2>7, <2>8, <2>9 DEF runpanel!PanelInv, runpanel!TypeOK
  <1>18. CASE runpanel!Resync
    <2>a. s10 \in Seq(runpanel!Views) /\ s10 # << >> /\ s9' = Head(s10) /\ s10' = Tail(s10)
            /\ Head(s10) # runpanel!NotAsked
      BY <1>18 DEF runpanel!Resync, runpanel!PanelInv, runpanel!TypeOK, runpanel!PageOK
    <2>b. Head(s10) \in runpanel!Views /\ Tail(s10) \in Seq(runpanel!Views) /\ Head(s10) = s10[1]
            /\ Len(Tail(s10)) = Len(s10) - 1 /\ Len(s10) >= 1
      BY <2>a
    <2>1. runpanel!RunOK'
      BY <1>18 DEF runpanel!PanelInv, runpanel!Resync, runpanel!NotAsked, runpanel!host,
         runpanel!other, runpanel!TypeOK, runpanel!RunOK
    <2>2. runpanel!PageOK'
      BY <1>18, <2>a, <2>b DEF runpanel!Resync, runpanel!host, runpanel!other, runpanel!PanelInv,
         runpanel!TypeOK, runpanel!PageOK
    <2>3. runpanel!Modes'
      BY <1>18, <2>1 DEF runpanel!PanelInv, runpanel!Resync, runpanel!NotAsked, runpanel!host,
         runpanel!other, runpanel!TypeOK, runpanel!RunOK, runpanel!Modes
    <2>4. runpanel!RowsAreHeld'
      BY <1>18, <2>1, SameIsHeld DEF runpanel!Resync, runpanel!NotAsked, runpanel!host,
         runpanel!other, runpanel!PanelInv, runpanel!Modes, runpanel!Walking, runpanel!Held,
         runpanel!TypeOK, runpanel!RunOK, runpanel!browser
    <2>5. runpanel!RowsAreTold' /\ runpanel!IsFiniteSet(s5')
      BY <1>18, <2>1, SameIsTold DEF runpanel!Resync, runpanel!NotAsked, runpanel!host,
         runpanel!other, runpanel!PanelInv, runpanel!TypeOK, runpanel!RunOK
    <2>6. runpanel!LastIsTold'
      BY <1>18, <2>1 DEF runpanel!PanelInv, runpanel!Resync, runpanel!NotAsked, runpanel!host,
         runpanel!other, runpanel!LastIsTold, runpanel!Held, runpanel!Broken
    <2>7. runpanel!PageFollows'
      BY <1>18, <2>1 DEF runpanel!PanelInv, runpanel!Resync, runpanel!NotAsked, runpanel!host,
         runpanel!other, runpanel!PageFollows, runpanel!NoBars, runpanel!Modes, runpanel!TypeOK,
         runpanel!RunOK, runpanel!PageOK
    <2>8. runpanel!BarsGo'
      <3>1. CASE Len(s10) = 1
        BY <1>18, <2>a, <2>b, <3>1 DEF runpanel!Resync, runpanel!host, runpanel!PanelInv,
           runpanel!BarsGo
      <3>2. CASE Len(s10) # 1
        <4> DEFINE n == Len(s10) - 1
        <4>a. n \in 1 .. Len(Tail(s10)) /\ Len(s10) = n + 1 /\ Len(s10) \in Nat
          BY <2>a, <2>b, <3>2
        <4>b. Tail(s10)[n] = s10[n + 1]
          BY <2>a, <2>b, <4>a
        <4>d. Len(Tail(s10)) # 0 /\ Len(<< >>) = 0
          BY <2>b, <4>a
        <4>c. Tail(s10) # << >>
          BY <4>d
        <4>1. Tail(s10)[Len(s10) - 1] = s10[Len(s10)] /\ Tail(s10) # << >>
          BY <4>a, <4>b, <4>c
        <4> QED
          BY <1>18, <2>a, <2>b, <4>1 DEF runpanel!Resync, runpanel!host, runpanel!PanelInv,
             runpanel!BarsGo, runpanel!NoBars
      <3> QED
        BY <3>1, <3>2
    <2>9. runpanel!CardsFollow'
      BY <1>18, <2>1 DEF runpanel!PanelInv, runpanel!Resync, runpanel!NotAsked, runpanel!host,
         runpanel!other, runpanel!CardsFollow, runpanel!PageFollows, runpanel!TypeOK,
         runpanel!RunOK, runpanel!PageOK, runpanel!Views
    <2> QED
      BY <2>1, <2>2, <2>3, <2>4, <2>5, <2>6, <2>7, <2>8, <2>9 DEF runpanel!PanelInv, runpanel!TypeOK
  <1>19. CASE runpanel!ImportRead
    <2>1. runpanel!RunOK'
      BY <1>19 DEF runpanel!PanelInv, runpanel!ImportRead, runpanel!NoImport, runpanel!host,
         runpanel!browser, runpanel!TypeOK, runpanel!RunOK
    <2>2. runpanel!PageOK'
      BY <1>19, <2>1 DEF runpanel!PanelInv, runpanel!ImportRead, runpanel!NoImport, runpanel!host,
         runpanel!browser, runpanel!TypeOK, runpanel!RunOK, runpanel!PageOK, runpanel!Views,
         runpanel!Marks, runpanel!NotAsked
    <2>3. runpanel!Modes'
      BY <1>19, <2>1 DEF runpanel!PanelInv, runpanel!ImportRead, runpanel!NoImport, runpanel!host,
         runpanel!browser, runpanel!TypeOK, runpanel!RunOK, runpanel!Modes
    <2>4. runpanel!RowsAreHeld'
      BY <1>19, <2>1, SameIsHeld DEF runpanel!ImportRead, runpanel!NoImport, runpanel!host,
         runpanel!browser, runpanel!PanelInv, runpanel!Modes, runpanel!Walking, runpanel!Held,
         runpanel!TypeOK, runpanel!RunOK, runpanel!other
    <2>5. runpanel!RowsAreTold' /\ runpanel!IsFiniteSet(s5')
      BY <1>19, <2>1, SameIsTold DEF runpanel!ImportRead, runpanel!NoImport, runpanel!host,
         runpanel!browser, runpanel!PanelInv, runpanel!TypeOK, runpanel!RunOK
    <2>6. runpanel!LastIsTold'
      BY <1>19, <2>1 DEF runpanel!PanelInv, runpanel!ImportRead, runpanel!NoImport, runpanel!host,
         runpanel!browser, runpanel!LastIsTold, runpanel!Held, runpanel!Broken
    <2>7. runpanel!PageFollows'
      BY <1>19, <2>1 DEF runpanel!PanelInv, runpanel!ImportRead, runpanel!NoImport, runpanel!host,
         runpanel!browser, runpanel!PageFollows, runpanel!NoBars, runpanel!Modes, runpanel!TypeOK,
         runpanel!RunOK, runpanel!PageOK
    <2>8. runpanel!BarsGo'
      BY <1>19, <2>1 DEF runpanel!PanelInv, runpanel!ImportRead, runpanel!NoImport, runpanel!host,
         runpanel!browser, runpanel!BarsGo, runpanel!NoBars, runpanel!PageFollows,
         runpanel!TypeOK, runpanel!RunOK, runpanel!PageOK, runpanel!Views
    <2>9. runpanel!CardsFollow'
      BY <1>19, <2>1 DEF runpanel!PanelInv, runpanel!ImportRead, runpanel!NoImport, runpanel!host,
         runpanel!browser, runpanel!CardsFollow, runpanel!PageFollows, runpanel!TypeOK,
         runpanel!RunOK, runpanel!PageOK, runpanel!Views
    <2> QED
      BY <2>1, <2>2, <2>3, <2>4, <2>5, <2>6, <2>7, <2>8, <2>9 DEF runpanel!PanelInv, runpanel!TypeOK
  <1>20. CASE runpanel!ImportCard
    <2>1. runpanel!RunOK'
      BY <1>20 DEF runpanel!PanelInv, runpanel!ImportCard, runpanel!NoImport, runpanel!Card,
         runpanel!host, runpanel!TypeOK, runpanel!RunOK
    <2>2. runpanel!PageOK'
      BY <1>20, <2>1 DEF runpanel!PanelInv, runpanel!ImportCard, runpanel!NoImport, runpanel!Card,
         runpanel!host, runpanel!TypeOK, runpanel!RunOK, runpanel!PageOK, runpanel!Views,
         runpanel!Marks, runpanel!NotAsked
    <2>3. runpanel!Modes'
      BY <1>20, <2>1 DEF runpanel!PanelInv, runpanel!ImportCard, runpanel!NoImport, runpanel!Card,
         runpanel!host, runpanel!TypeOK, runpanel!RunOK, runpanel!Modes
    <2>4. runpanel!RowsAreHeld'
      BY <1>20, <2>1, SameIsHeld DEF runpanel!ImportCard, runpanel!NoImport, runpanel!Card,
         runpanel!host, runpanel!PanelInv, runpanel!Modes, runpanel!Walking, runpanel!Held,
         runpanel!TypeOK, runpanel!RunOK, runpanel!browser, runpanel!other
    <2>5. runpanel!RowsAreTold' /\ runpanel!IsFiniteSet(s5')
      BY <1>20, <2>1, SameIsTold DEF runpanel!ImportCard, runpanel!NoImport, runpanel!Card,
         runpanel!host, runpanel!PanelInv, runpanel!TypeOK, runpanel!RunOK
    <2>6. runpanel!LastIsTold'
      BY <1>20, <2>1 DEF runpanel!PanelInv, runpanel!ImportCard, runpanel!NoImport, runpanel!Card,
         runpanel!host, runpanel!LastIsTold, runpanel!Held, runpanel!Broken
    <2>7. runpanel!PageFollows'
      BY <1>20, <2>1 DEF runpanel!PanelInv, runpanel!ImportCard, runpanel!NoImport, runpanel!Card,
         runpanel!host, runpanel!PageFollows, runpanel!NoBars, runpanel!Modes, runpanel!TypeOK,
         runpanel!RunOK, runpanel!PageOK
    <2>8. runpanel!BarsGo'
      BY <1>20, <2>1 DEF runpanel!PanelInv, runpanel!ImportCard, runpanel!NoImport, runpanel!Card,
         runpanel!host, runpanel!BarsGo, runpanel!NoBars, runpanel!PageFollows, runpanel!TypeOK,
         runpanel!RunOK, runpanel!PageOK, runpanel!Views
    <2>9. runpanel!CardsFollow'
      BY <1>20, <2>1 DEF runpanel!PanelInv, runpanel!ImportCard, runpanel!NoImport, runpanel!Card,
         runpanel!host, runpanel!CardsFollow, runpanel!PageFollows, runpanel!TypeOK,
         runpanel!RunOK, runpanel!PageOK, runpanel!Views
    <2> QED
      BY <2>1, <2>2, <2>3, <2>4, <2>5, <2>6, <2>7, <2>8, <2>9 DEF runpanel!PanelInv, runpanel!TypeOK
  <1>21. ASSUME NEW cids \in Orders, NEW mode \in {"download", "scan"}, runpanel!Begin(mode, cids)
    PROVE runpanel!PanelInv'
    <2>1. runpanel!RunOK'
      <3> DEFINE id == s1.id + 1
                 one == 1
                 nought == 0
      <3>1. one \in Nat /\ one >= 1 /\ nought \in Nat
        OBVIOUS
      <3>2. runpanel!NoRun = [id |-> nought, mode |-> "none", pc |-> "none", at |-> one, todo |-> << >>, cid |-> "none",
                     left |-> nought, stopped |-> FALSE, failed |-> nought, lost |-> nought, errors |-> nought]
        BY DEF runpanel!NoRun
      <3>3. s1' = [runpanel!NoRun EXCEPT !.id = id, !.mode = mode, !.todo = cids, !.pc = IF mode = "scan" THEN "next" ELSE "publish"]
        BY <1>21 DEF runpanel!Begin
      <3> HIDE DEF one, nought, id
      <3> QED
        BY <3>1, <3>2, <3>3 DEF runpanel!RunOK
    <2>2. runpanel!PageOK'
      <3>1. s10' \in Seq(runpanel!Views) /\ UNCHANGED <<s7, s11>>
        BY <1>21, AsksAre DEF runpanel!Begin, runpanel!other, runpanel!PanelInv, runpanel!TypeOK,
           runpanel!PageOK
      <3>2. s8' \in [Chans -> runpanel!Marks]
        BY <1>21 DEF runpanel!Begin, runpanel!Bars, runpanel!PanelInv, runpanel!TypeOK,
           runpanel!PageOK, runpanel!Marks
      <3>3. s9' \in runpanel!Views
        BY <1>21 DEF runpanel!Begin, runpanel!ShowBars, runpanel!PanelInv, runpanel!TypeOK,
           runpanel!PageOK, runpanel!Views, runpanel!Marks
      <3> QED
        BY <3>1, <3>2, <3>3 DEF runpanel!PanelInv, runpanel!TypeOK, runpanel!PageOK
    <2>3. runpanel!Modes'
      BY <1>21, <2>1 DEF runpanel!PanelInv, runpanel!Begin, runpanel!NoRun, runpanel!Bars,
         runpanel!ShowBars, runpanel!NotAsked, runpanel!other, runpanel!TypeOK, runpanel!RunOK,
         runpanel!Modes
    <2>4. runpanel!RowsAreHeld'
      BY <1>21, <2>1 DEF runpanel!PanelInv, runpanel!Begin, runpanel!NoRun, runpanel!Bars,
         runpanel!ShowBars, runpanel!NotAsked, runpanel!other, runpanel!TypeOK, runpanel!RunOK,
         runpanel!RowsAreHeld, runpanel!Walking, runpanel!Held, runpanel!Modes
    <2>5. runpanel!RowsAreTold' /\ runpanel!IsFiniteSet(s5')
      <3>1. s5' = {} /\ s1'.errors = 0 /\ s1'.lost = 0
        BY <1>21 DEF runpanel!Begin, runpanel!NoRun
      <3>2. runpanel!IsFiniteSet({}) /\ runpanel!Cardinality({}) = 0 /\ runpanel!Broken({}) = {}
        BY RunpanelEmpty DEF runpanel!Broken
      <3>3. runpanel!Broken(s5') = {} /\ runpanel!Cardinality(runpanel!Broken(s5')) = 0
        BY <3>1, <3>2
      <3> QED
        BY <3>1, <3>2, <3>3 DEF runpanel!RowsAreTold
    <2>6. runpanel!LastIsTold'
      BY <1>21, <2>1 DEF runpanel!PanelInv, runpanel!Begin, runpanel!NoRun, runpanel!Bars,
         runpanel!ShowBars, runpanel!NotAsked, runpanel!other, runpanel!LastIsTold, runpanel!Held,
         runpanel!Broken
    <2>7. runpanel!PageFollows'
      BY <1>21, <2>1 DEF runpanel!PanelInv, runpanel!Begin, runpanel!NoRun, runpanel!Bars,
         runpanel!ShowBars, runpanel!NotAsked, runpanel!other, runpanel!PageFollows,
         runpanel!NoBars, runpanel!Modes, runpanel!TypeOK, runpanel!RunOK, runpanel!PageOK
    <2>8. runpanel!BarsGo'
      BY <1>21, <2>1 DEF runpanel!PanelInv, runpanel!Begin, runpanel!NoRun, runpanel!Bars,
         runpanel!ShowBars, runpanel!NotAsked, runpanel!other, runpanel!BarsGo, runpanel!NoBars,
         runpanel!PageFollows, runpanel!TypeOK, runpanel!RunOK, runpanel!PageOK, runpanel!Views
    <2>9. runpanel!CardsFollow'
      BY <1>21, <2>1 DEF runpanel!PanelInv, runpanel!Begin, runpanel!NoRun, runpanel!Bars,
         runpanel!ShowBars, runpanel!NotAsked, runpanel!other, runpanel!CardsFollow,
         runpanel!PageFollows, runpanel!TypeOK, runpanel!RunOK, runpanel!PageOK, runpanel!Views
    <2> QED
      BY <2>1, <2>2, <2>3, <2>4, <2>5, <2>6, <2>7, <2>8, <2>9 DEF runpanel!PanelInv, runpanel!TypeOK
  <1>22. ASSUME NEW c \in Chans, runpanel!Join(c) PROVE runpanel!PanelInv'
    <2>1. runpanel!RunOK'
      BY <1>22 DEF runpanel!PanelInv, runpanel!Join, runpanel!browser, runpanel!other,
         runpanel!TypeOK, runpanel!RunOK
    <2>2. runpanel!PageOK'
      BY <1>22, <2>1 DEF runpanel!PanelInv, runpanel!Join, runpanel!browser, runpanel!other,
         runpanel!TypeOK, runpanel!RunOK, runpanel!PageOK, runpanel!Views, runpanel!Marks,
         runpanel!NoImport, runpanel!NotAsked
    <2>3. runpanel!Modes'
      BY <1>22, <2>1 DEF runpanel!PanelInv, runpanel!Join, runpanel!browser, runpanel!other,
         runpanel!TypeOK, runpanel!RunOK, runpanel!Modes
    <2>4. runpanel!RowsAreHeld'
      BY <1>22, <2>1, SameIsHeld DEF runpanel!Join, runpanel!browser, runpanel!other,
         runpanel!PanelInv, runpanel!Modes, runpanel!Walking, runpanel!Held, runpanel!TypeOK,
         runpanel!RunOK, runpanel!host
    <2>5. runpanel!RowsAreTold' /\ runpanel!IsFiniteSet(s5')
      BY <1>22, <2>1, SameIsTold DEF runpanel!Join, runpanel!browser, runpanel!other,
         runpanel!PanelInv, runpanel!TypeOK, runpanel!RunOK
    <2>6. runpanel!LastIsTold'
      BY <1>22, <2>1 DEF runpanel!PanelInv, runpanel!Join, runpanel!browser, runpanel!other,
         runpanel!LastIsTold, runpanel!Held, runpanel!Broken
    <2>7. runpanel!PageFollows'
      BY <1>22, <2>1 DEF runpanel!PanelInv, runpanel!Join, runpanel!browser, runpanel!other,
         runpanel!PageFollows, runpanel!NoBars, runpanel!Modes, runpanel!TypeOK, runpanel!RunOK,
         runpanel!PageOK
    <2>8. runpanel!BarsGo'
      BY <1>22, <2>1 DEF runpanel!PanelInv, runpanel!Join, runpanel!browser, runpanel!other,
         runpanel!BarsGo, runpanel!NoBars, runpanel!PageFollows, runpanel!TypeOK, runpanel!RunOK,
         runpanel!PageOK, runpanel!Views
    <2>9. runpanel!CardsFollow'
      BY <1>22, <2>1 DEF runpanel!PanelInv, runpanel!Join, runpanel!browser, runpanel!other,
         runpanel!CardsFollow, runpanel!PageFollows, runpanel!TypeOK, runpanel!RunOK,
         runpanel!PageOK, runpanel!Views
    <2> QED
      BY <2>1, <2>2, <2>3, <2>4, <2>5, <2>6, <2>7, <2>8, <2>9 DEF runpanel!PanelInv, runpanel!TypeOK
  <1>23. ASSUME NEW c \in Chans, runpanel!Cancel(c) PROVE runpanel!PanelInv'
    <2>1. runpanel!RunOK'
      BY <1>23 DEF runpanel!PanelInv, runpanel!Cancel, runpanel!browser, runpanel!other,
         runpanel!TypeOK, runpanel!RunOK
    <2>2. runpanel!PageOK'
      BY <1>23, <2>1 DEF runpanel!PanelInv, runpanel!Cancel, runpanel!browser, runpanel!other,
         runpanel!TypeOK, runpanel!RunOK, runpanel!PageOK, runpanel!Views, runpanel!Marks,
         runpanel!NoImport, runpanel!NotAsked
    <2>3. runpanel!Modes'
      BY <1>23, <2>1 DEF runpanel!PanelInv, runpanel!Cancel, runpanel!browser, runpanel!other,
         runpanel!TypeOK, runpanel!RunOK, runpanel!Modes
    <2>4. runpanel!RowsAreHeld'
      BY <1>23, <2>1, SameIsHeld DEF runpanel!Cancel, runpanel!browser, runpanel!other,
         runpanel!PanelInv, runpanel!Modes, runpanel!Walking, runpanel!Held, runpanel!TypeOK,
         runpanel!RunOK, runpanel!host
    <2>5. runpanel!RowsAreTold' /\ runpanel!IsFiniteSet(s5')
      BY <1>23, <2>1, SameIsTold DEF runpanel!Cancel, runpanel!browser, runpanel!other,
         runpanel!PanelInv, runpanel!TypeOK, runpanel!RunOK
    <2>6. runpanel!LastIsTold'
      BY <1>23, <2>1 DEF runpanel!PanelInv, runpanel!Cancel, runpanel!browser, runpanel!other,
         runpanel!LastIsTold, runpanel!Held, runpanel!Broken
    <2>7. runpanel!PageFollows'
      BY <1>23, <2>1 DEF runpanel!PanelInv, runpanel!Cancel, runpanel!browser, runpanel!other,
         runpanel!PageFollows, runpanel!NoBars, runpanel!Modes, runpanel!TypeOK, runpanel!RunOK,
         runpanel!PageOK
    <2>8. runpanel!BarsGo'
      BY <1>23, <2>1 DEF runpanel!PanelInv, runpanel!Cancel, runpanel!browser, runpanel!other,
         runpanel!BarsGo, runpanel!NoBars, runpanel!PageFollows, runpanel!TypeOK, runpanel!RunOK,
         runpanel!PageOK, runpanel!Views
    <2>9. runpanel!CardsFollow'
      BY <1>23, <2>1 DEF runpanel!PanelInv, runpanel!Cancel, runpanel!browser, runpanel!other,
         runpanel!CardsFollow, runpanel!PageFollows, runpanel!TypeOK, runpanel!RunOK,
         runpanel!PageOK, runpanel!Views
    <2> QED
      BY <2>1, <2>2, <2>3, <2>4, <2>5, <2>6, <2>7, <2>8, <2>9 DEF runpanel!PanelInv, runpanel!TypeOK
  <1>24. ASSUME NEW c \in Chans, runpanel!ImportWrite(c) PROVE runpanel!PanelInv'
    <2>1. runpanel!RunOK'
      BY <1>24 DEF runpanel!PanelInv, runpanel!ImportWrite, runpanel!NoImport, runpanel!host,
         runpanel!browser, runpanel!TypeOK, runpanel!RunOK
    <2>2. runpanel!PageOK'
      BY <1>24, <2>1 DEF runpanel!PanelInv, runpanel!ImportWrite, runpanel!NoImport,
         runpanel!host, runpanel!browser, runpanel!TypeOK, runpanel!RunOK, runpanel!PageOK,
         runpanel!Views, runpanel!Marks, runpanel!NotAsked
    <2>3. runpanel!Modes'
      BY <1>24, <2>1 DEF runpanel!PanelInv, runpanel!ImportWrite, runpanel!NoImport,
         runpanel!host, runpanel!browser, runpanel!TypeOK, runpanel!RunOK, runpanel!Modes
    <2>4. runpanel!RowsAreHeld'
      BY <1>24, <2>1, SameIsHeld DEF runpanel!ImportWrite, runpanel!NoImport, runpanel!host,
         runpanel!browser, runpanel!PanelInv, runpanel!Modes, runpanel!Walking, runpanel!Held,
         runpanel!TypeOK, runpanel!RunOK, runpanel!other
    <2>5. runpanel!RowsAreTold' /\ runpanel!IsFiniteSet(s5')
      BY <1>24, <2>1, SameIsTold DEF runpanel!ImportWrite, runpanel!NoImport, runpanel!host,
         runpanel!browser, runpanel!PanelInv, runpanel!TypeOK, runpanel!RunOK
    <2>6. runpanel!LastIsTold'
      BY <1>24, <2>1 DEF runpanel!PanelInv, runpanel!ImportWrite, runpanel!NoImport,
         runpanel!host, runpanel!browser, runpanel!LastIsTold, runpanel!Held, runpanel!Broken
    <2>7. runpanel!PageFollows'
      BY <1>24, <2>1 DEF runpanel!PanelInv, runpanel!ImportWrite, runpanel!NoImport,
         runpanel!host, runpanel!browser, runpanel!PageFollows, runpanel!NoBars, runpanel!Modes,
         runpanel!TypeOK, runpanel!RunOK, runpanel!PageOK
    <2>8. runpanel!BarsGo'
      BY <1>24, <2>1 DEF runpanel!PanelInv, runpanel!ImportWrite, runpanel!NoImport,
         runpanel!host, runpanel!browser, runpanel!BarsGo, runpanel!NoBars, runpanel!PageFollows,
         runpanel!TypeOK, runpanel!RunOK, runpanel!PageOK, runpanel!Views
    <2>9. runpanel!CardsFollow'
      <3>1. s11' = [cid |-> c, seen |-> "none"] /\ s7' = [s7 EXCEPT ![c] = "idle"] /\ UNCHANGED <<s9, s10, s14>>
              /\ s1' = s1 /\ s11 = runpanel!NoImport
        BY <1>24 DEF runpanel!ImportWrite, runpanel!host, runpanel!browser
      <3>2. s11' # runpanel!NoImport /\ s11'.cid = c
        BY <3>1, ChansAreNamed DEF runpanel!NoImport
      <3> QED
        BY <3>1, <3>2 DEF runpanel!PanelInv, runpanel!CardsFollow, runpanel!TypeOK, runpanel!PageOK
    <2> QED
      BY <2>1, <2>2, <2>3, <2>4, <2>5, <2>6, <2>7, <2>8, <2>9 DEF runpanel!PanelInv, runpanel!TypeOK
  <1>25. ASSUME NEW j \in s4, runpanel!JoinRow(j) PROVE runpanel!PanelInv'
    <2>1. runpanel!RunOK'
      BY <1>25 DEF runpanel!PanelInv, runpanel!JoinRow, runpanel!QueueRow, runpanel!browser,
         runpanel!other, runpanel!TypeOK, runpanel!RunOK
    <2>2. runpanel!PageOK'
      BY <1>25, <2>1 DEF runpanel!PanelInv, runpanel!JoinRow, runpanel!QueueRow, runpanel!browser,
         runpanel!other, runpanel!TypeOK, runpanel!RunOK, runpanel!PageOK, runpanel!Views,
         runpanel!Marks, runpanel!NoImport, runpanel!NotAsked
    <2>3. runpanel!Modes'
      BY <1>25, <2>1 DEF runpanel!PanelInv, runpanel!JoinRow, runpanel!QueueRow, runpanel!browser,
         runpanel!other, runpanel!TypeOK, runpanel!RunOK, runpanel!Modes
    <2>4. runpanel!RowsAreHeld'
      <3> SUFFICES ASSUME runpanel!Walking',
            NEW i \in 1 .. (s1.at - 1), ~(s1.pc \in {"channel", "tracks"} /\ i = runpanel!Here)
                   PROVE  \E r \in s5' : runpanel!Held(r, i)'
        BY <1>25 DEF runpanel!JoinRow, runpanel!RowsAreHeld, runpanel!Here
      <3> DEFINE row == [at |-> j.at, cid |-> j.cid, state |-> "queued", why |-> "none"]
      <3>1. /\ row \in s5' /\ \A r \in s5 : r \in s5' \/ (r.at = j.at /\ r.cid = j.cid)
            /\ s13 \subseteq s13'
            /\ \A r \in s5 : r.at = j.at /\ r.cid = j.cid /\ r.state # "queued" => j \in s13'
        BY <1>25 DEF runpanel!JoinRow, runpanel!QueueRow
      <3>2. PICK r \in s5 : runpanel!Held(r, i)
        BY <1>25 DEF runpanel!JoinRow, runpanel!PanelInv, runpanel!RowsAreHeld, runpanel!Walking
      <3>3. CASE r \in s5'
        BY <3>1, <3>2, <3>3 DEF runpanel!Held
      <3>4. CASE r.at = j.at /\ r.cid = j.cid
        <4>1. row.at = i /\ row.cid = j.cid
          BY <3>2, <3>4 DEF runpanel!Held
        <4>2. \E k \in s13' : k.at = i /\ k.cid = j.cid
          BY <3>1, <3>2, <3>4 DEF runpanel!Held, runpanel!Settled
        <4> QED
          BY <3>1, <4>1, <4>2 DEF runpanel!Held
      <3> QED
        BY <3>1, <3>2, <3>3, <3>4
    <2>5. runpanel!RowsAreTold' /\ runpanel!IsFiniteSet(s5')
      <3>1. s1' = s1 /\ s5' = runpanel!QueueRow(j.at, j.cid, "queued", "none") /\ s1.failed \in Nat
              /\ s1.errors \in Nat
        BY <1>25 DEF runpanel!JoinRow, runpanel!PanelInv, runpanel!TypeOK, runpanel!RunOK
      <3> QED
        BY <2>1, <3>1, RowIsTold
    <2>6. runpanel!LastIsTold'
      BY <1>25, <2>1 DEF runpanel!PanelInv, runpanel!JoinRow, runpanel!QueueRow, runpanel!browser,
         runpanel!other, runpanel!LastIsTold, runpanel!Held, runpanel!Broken
    <2>7. runpanel!PageFollows'
      BY <1>25, <2>1 DEF runpanel!PanelInv, runpanel!JoinRow, runpanel!QueueRow, runpanel!browser,
         runpanel!other, runpanel!PageFollows, runpanel!NoBars, runpanel!Modes, runpanel!TypeOK,
         runpanel!RunOK, runpanel!PageOK
    <2>8. runpanel!BarsGo'
      BY <1>25, <2>1 DEF runpanel!PanelInv, runpanel!JoinRow, runpanel!QueueRow, runpanel!browser,
         runpanel!other, runpanel!BarsGo, runpanel!NoBars, runpanel!PageFollows, runpanel!TypeOK,
         runpanel!RunOK, runpanel!PageOK, runpanel!Views
    <2>9. runpanel!CardsFollow'
      BY <1>25, <2>1 DEF runpanel!PanelInv, runpanel!JoinRow, runpanel!QueueRow, runpanel!browser,
         runpanel!other, runpanel!CardsFollow, runpanel!PageFollows, runpanel!TypeOK,
         runpanel!RunOK, runpanel!PageOK, runpanel!Views
    <2> QED
      BY <2>1, <2>2, <2>3, <2>4, <2>5, <2>6, <2>7, <2>8, <2>9 DEF runpanel!PanelInv, runpanel!TypeOK
  <1>26. CASE runpanel!ScanCancelled \/ runpanel!ScanUnresolved \/ runpanel!ScanFailed \/ runpanel!ScanFound
    BY <1>26, SettlesScan DEF runpanel!ScanCancelled, runpanel!ScanUnresolved,
       runpanel!ScanFailed, runpanel!ScanFound, runpanel!Marks
  <1>27. CASE UNCHANGED runpanel!vars
    <2>1. runpanel!RunOK'
      BY <1>27 DEF runpanel!PanelInv, runpanel!vars, runpanel!host, runpanel!browser,
         runpanel!other, runpanel!TypeOK, runpanel!RunOK
    <2>2. runpanel!PageOK'
      BY <1>27, <2>1 DEF runpanel!PanelInv, runpanel!vars, runpanel!host, runpanel!browser,
         runpanel!other, runpanel!TypeOK, runpanel!RunOK, runpanel!PageOK, runpanel!Views,
         runpanel!Marks, runpanel!NoImport, runpanel!NotAsked
    <2>3. runpanel!Modes'
      BY <1>27, <2>1 DEF runpanel!PanelInv, runpanel!vars, runpanel!host, runpanel!browser,
         runpanel!other, runpanel!TypeOK, runpanel!RunOK, runpanel!Modes
    <2>4. runpanel!RowsAreHeld'
      BY <1>27, <2>1, SameIsHeld DEF runpanel!vars, runpanel!host, runpanel!browser,
         runpanel!other, runpanel!PanelInv, runpanel!Modes, runpanel!Walking, runpanel!Held,
         runpanel!TypeOK, runpanel!RunOK
    <2>5. runpanel!RowsAreTold' /\ runpanel!IsFiniteSet(s5')
      BY <1>27, <2>1, SameIsTold DEF runpanel!vars, runpanel!host, runpanel!browser,
         runpanel!other, runpanel!PanelInv, runpanel!TypeOK, runpanel!RunOK
    <2>6. runpanel!LastIsTold'
      BY <1>27, <2>1 DEF runpanel!PanelInv, runpanel!vars, runpanel!host, runpanel!browser,
         runpanel!other, runpanel!LastIsTold, runpanel!Held, runpanel!Broken
    <2>7. runpanel!PageFollows'
      BY <1>27, <2>1 DEF runpanel!PanelInv, runpanel!vars, runpanel!host, runpanel!browser,
         runpanel!other, runpanel!PageFollows, runpanel!NoBars, runpanel!Modes, runpanel!TypeOK,
         runpanel!RunOK, runpanel!PageOK
    <2>8. runpanel!BarsGo'
      BY <1>27, <2>1 DEF runpanel!PanelInv, runpanel!vars, runpanel!host, runpanel!browser,
         runpanel!other, runpanel!BarsGo, runpanel!NoBars, runpanel!PageFollows, runpanel!TypeOK,
         runpanel!RunOK, runpanel!PageOK, runpanel!Views
    <2>9. runpanel!CardsFollow'
      BY <1>27, <2>1 DEF runpanel!PanelInv, runpanel!vars, runpanel!host, runpanel!browser,
         runpanel!other, runpanel!CardsFollow, runpanel!PageFollows, runpanel!TypeOK,
         runpanel!RunOK, runpanel!PageOK, runpanel!Views
    <2> QED
      BY <2>1, <2>2, <2>3, <2>4, <2>5, <2>6, <2>7, <2>8, <2>9 DEF runpanel!PanelInv, runpanel!TypeOK
  <1> QED
    BY <1>1, <1>2, <1>3, <1>4, <1>5, <1>6, <1>7, <1>8, <1>9, <1>10, <1>11, <1>12, <1>13, <1>14,
       <1>15, <1>16, <1>17, <1>18, <1>19, <1>20, <1>21, <1>22, <1>23, <1>24, <1>25, <1>26,
       <1>27 DEF runpanel!Next

-----------------------------------------------------------------------------
(* SettingsStore: the newest file holds the choice. *)

LEMMA StoreInit == settings!Init => settings!StoreInv
  <1> SUFFICES ASSUME settings!Init PROVE settings!StoreInv
    OBVIOUS
  <1>1. settings!NoStore \in settings!Stores /\ settings!NoFile = [at |-> 0, data |-> settings!NoStore]
    BY DEF settings!NoStore, settings!Stores, settings!NoFile
  <1>2. "theme" \in settings!Keys
    BY DEF settings!Keys
  <1>3. settings!TypeOK
    BY <1>1, <1>2 DEF settings!Init, settings!TypeOK, settings!NoCall
  <1>4. \A n \in settings!Names : s1[n].at = 0 /\ s1[n].data = settings!NoStore
    BY <1>1 DEF settings!Init
  <1>5. "config" \in settings!Names
    BY DEF settings!Names
  <1> QED
    BY <1>3, <1>4, <1>5 DEF settings!Init, settings!StoreInv, settings!FilesAreDated,
       settings!ChoiceIsHeld, settings!Holds, settings!Launching, settings!CallsAreTheApps,
       settings!NoCall

LEMMA OldSetsKeeps == ASSUME settings!StoreInv, settings!OldSets PROVE settings!StoreInv'
  <1>1. s3 \in Builds /\ s3 \in settings!Names /\ "config" \in settings!Names
    BY DEF settings!OldSets, settings!Names
  <1>2. s2' = s2 + 1 /\ s6' \in settings!Stores
    BY DEF settings!OldSets, settings!StoreInv, settings!TypeOK, settings!Stores
  <1>3. /\ s1' = [s1 EXCEPT ![s3] = [at |-> s2 + 1, data |-> s6']]
        /\ s10' = s6' /\ s12' = FALSE
        /\ UNCHANGED <<s3, s4, s5, s7>>
    BY <1>2 DEF settings!OldSets, settings!calls
  <1>4. settings!TypeOK'
    <2>1. [at |-> s2 + 1, data |-> s6'] \in [at : Nat, data : settings!Stores]
      BY <1>2 DEF settings!StoreInv, settings!TypeOK
    <2> QED
      BY <1>1, <1>2, <1>3, <2>1 DEF settings!StoreInv, settings!TypeOK
  <1>5. \A n \in settings!Names : s1'[n] = IF n = s3 THEN [at |-> s2 + 1, data |-> s6'] ELSE s1[n]
    BY <1>1, <1>3 DEF settings!StoreInv, settings!TypeOK
  <1>6. settings!FilesAreDated'
    BY <1>2, <1>5 DEF settings!StoreInv, settings!TypeOK, settings!FilesAreDated
  <1>7. settings!ChoiceIsHeld'
    BY <1>1, <1>2, <1>3, <1>5, BuildsAssumption DEF settings!ChoiceIsHeld, settings!Holds,
       settings!Launching
  <1> QED
    BY <1>3, <1>4, <1>6, <1>7 DEF settings!StoreInv, settings!CallsAreTheApps

\* The one older config there may be is the seed when it is the later one.
LEMMA LaunchSeeds == ASSUME settings!StoreInv, settings!Launch PROVE settings!StoreInv'
  <1>1. /\ s3 = "none" /\ s3' = "tidy" /\ s4' = settings!Present /\ s5' = settings!SeedOf
        /\ UNCHANGED <<s1, s2, s6, s10, s7, s12>>
    BY DEF settings!Launch, settings!calls
  <1>2. settings!Present \subseteq Builds /\ Builds \subseteq settings!Names /\ "config" \in settings!Names
    BY DEF settings!Present, settings!Names
  <1>3. settings!Present # {} => settings!Newest(settings!Present) \in settings!Present
    BY DEF settings!Newest
  <1>4. settings!SeedOf \in settings!Present \cup {"none"} /\ "none" \notin settings!Present
    BY <1>2, <1>3, BuildsAssumption DEF settings!SeedOf
  <1>5. settings!TypeOK'
    BY <1>1, <1>2, <1>4 DEF settings!StoreInv, settings!TypeOK
  <1>6. settings!FilesAreDated'
    BY <1>1 DEF settings!StoreInv, settings!FilesAreDated
  <1>7. ASSUME ~s12
    PROVE IF settings!SeedOf \in settings!Present THEN settings!Holds(settings!SeedOf) ELSE settings!Holds("config")
    <2>1. PICK n \in settings!Names : settings!Holds(n)
      BY <1>7 DEF settings!StoreInv, settings!ChoiceIsHeld
    <2>2. CASE settings!Present = {}
      <3>1. n \in Builds => s1[n].at = 0
        BY <2>2 DEF settings!Present, settings!StoreInv, settings!TypeOK, settings!Names
      <3>2. CASE n = "config"
        BY <2>1, <2>2, <3>2
      <3>3. CASE n \in Builds
        <4>1. s2 = 0 /\ s1["config"].at = 0 /\ s1["config"].data = settings!NoStore /\ s10 = settings!NoStore
          BY <2>1, <3>1, <3>3, <1>2 DEF settings!Holds, settings!StoreInv, settings!FilesAreDated,
             settings!TypeOK
        <4> QED
          BY <4>1, <2>2 DEF settings!Holds
      <3> QED
        BY <3>2, <3>3 DEF settings!Names
    <2>3. CASE settings!Present # {}
      <3>1. PICK b \in Builds : settings!Present = {b} /\ Builds = {b}
              /\ settings!Newest(settings!Present) = b /\ s1[b].at > 0
        BY <2>3, <1>2, <1>3, BuildsAssumption DEF settings!Present
      <3>2. n = b \/ n = "config"
        BY <3>1 DEF settings!Names
      <3>3. b \in settings!Names /\ s1[b].at \in Nat /\ s1["config"].at \in Nat /\ s2 \in Nat
            /\ s1[b].at <= s2 /\ s1["config"].at <= s2
        BY <1>2 DEF settings!StoreInv, settings!TypeOK, settings!FilesAreDated
      <3>4. CASE s1["config"].at >= s1[b].at
        <4>1. settings!SeedOf = "none" /\ settings!SeedOf \notin settings!Present
          BY <3>1, <3>4, <1>4 DEF settings!SeedOf
        <4>2. n # b
          <5> SUFFICES ASSUME n = b PROVE FALSE
            OBVIOUS
          <5>1. s1["config"].at = s1[b].at
            BY <2>1, <3>3, <3>4 DEF settings!Holds
          <5> QED
            BY <5>1, <3>1, <3>3, <1>2, BuildsAssumption DEF settings!StoreInv,
               settings!FilesAreDated
        <4> QED
          BY <4>1, <4>2, <3>2, <2>1
      <3>5. CASE ~(s1["config"].at >= s1[b].at)
        <4>1. settings!SeedOf = b
          BY <3>1, <3>5 DEF settings!SeedOf
        <4>2. n # "config"
          BY <2>1, <3>3, <3>5 DEF settings!Holds
        <4> QED
          BY <4>1, <4>2, <3>1, <3>2, <2>1
      <3> QED
        BY <3>4, <3>5
    <2> QED
      BY <2>2, <2>3
  <1>8. settings!ChoiceIsHeld'
    BY <1>1, <1>7 DEF settings!StoreInv, settings!ChoiceIsHeld, settings!Holds, settings!Launching
  <1> QED
    BY <1>1, <1>5, <1>6, <1>8 DEF settings!StoreInv, settings!CallsAreTheApps

LEMMA TidyKeeps == ASSUME settings!StoreInv, settings!Tidy PROVE settings!StoreInv'
  <1>1. PICK b \in s4 :
             /\ s4' = s4 \ {b}
             /\ \/ /\ s1' = IF b = s5 THEN [s1 EXCEPT !["config"] = s1[b], ![b] = settings!NoFile]
                              ELSE [s1 EXCEPT ![b] = settings!NoFile]
                   /\ UNCHANGED s12
                \/ s12' = (s12 \/ b = s5) /\ UNCHANGED s1
    BY DEF settings!Tidy
  <1>2. s3 = "tidy" /\ UNCHANGED <<s2, s3, s5, s6, s7, s10>>
    BY DEF settings!Tidy, settings!calls
  <1>3. b \in Builds /\ s4 = {b} /\ b # "config" /\ b \in settings!Names
          /\ "config" \in settings!Names /\ b # "none"
        /\ settings!Names = {b, "config"}
    BY BuildsAssumption DEF settings!StoreInv, settings!TypeOK, settings!Names
  <1>4. settings!NoFile \in [at : Nat, data : settings!Stores] /\ settings!NoFile.at = 0
          /\ settings!NoFile.data = settings!NoStore
    BY DEF settings!NoFile, settings!NoStore, settings!Stores
  <1>5. \/ UNCHANGED s1 /\ s12' = (s12 \/ b = s5)
        \/ /\ s1'["config"] = IF b = s5 THEN s1[b] ELSE s1["config"]
           /\ s1'[b] = settings!NoFile /\ s1' \in [settings!Names -> [at : Nat, data : settings!Stores]]
           /\ UNCHANGED s12
    BY <1>1, <1>3, <1>4 DEF settings!StoreInv, settings!TypeOK
  <1>6. settings!TypeOK'
    BY <1>1, <1>2, <1>5 DEF settings!StoreInv, settings!TypeOK
  <1>7. settings!FilesAreDated'
    BY <1>2, <1>3, <1>4, <1>5 DEF settings!StoreInv, settings!FilesAreDated, settings!TypeOK
  <1>8. s4' = {} /\ (s5 \in s4 <=> b = s5)
    BY <1>1, <1>3
  <1>9. settings!ChoiceIsHeld'
    BY <1>2, <1>3, <1>5, <1>8 DEF settings!StoreInv, settings!ChoiceIsHeld, settings!Launching,
       settings!Holds
  <1> QED
    BY <1>2, <1>6, <1>7, <1>9 DEF settings!StoreInv, settings!CallsAreTheApps

LEMMA LoadReads == ASSUME settings!StoreInv, settings!Load PROVE settings!StoreInv'
  <1>1. settings!NoStore \in settings!Stores /\ "config" \in settings!Names
    BY DEF settings!NoStore, settings!Stores, settings!Names
  <1>2. /\ s3 = "tidy" /\ s4 = {} /\ s3' = "runs"
        /\ UNCHANGED <<s1, s2, s4, s5, s7, s10>>
        /\ \/ s6' = s1["config"].data /\ s12' = s12
           \/ s6' = settings!NoStore /\ s12' = TRUE
    BY DEF settings!Load, settings!calls
  <1>3. settings!TypeOK'
    <2>1. s1["config"].data \in settings!Stores
      BY <1>1 DEF settings!StoreInv, settings!TypeOK
    <2> QED
      BY <1>1, <1>2, <2>1 DEF settings!StoreInv, settings!TypeOK
  <1>4. settings!FilesAreDated' /\ settings!ChoiceIsHeld'
    BY <1>2 DEF settings!StoreInv, settings!FilesAreDated, settings!ChoiceIsHeld,
       settings!Launching, settings!Holds
  <1> QED
    BY <1>2, <1>3, <1>4 DEF settings!StoreInv, settings!CallsAreTheApps

LEMMA UpdateKeeps == ASSUME settings!StoreInv, settings!Update PROVE settings!StoreInv'
  <1>1. PICK s \in Setters :
               /\ s7[s].pc = "set" /\ s7' = [s7 EXCEPT ![s] = settings!NoCall]
               /\ s6' = settings!Updated(s) /\ s10' = s6'
    BY DEF settings!Update
  <1>2. settings!Updated(s) \in settings!Stores
    BY DEF settings!Updated, settings!StoreInv, settings!TypeOK, settings!Stores
  <1>3. /\ s2' = s2 + 1 /\ UNCHANGED <<s3, s4, s5>>
        /\ \/ s1' = [s1 EXCEPT !["config"] = [at |-> s2 + 1, data |-> s6']] /\ s12' = FALSE
           \/ UNCHANGED s1 /\ s12' = TRUE
    BY DEF settings!Update
  <1>4. "config" \in settings!Names
          /\ settings!NoCall \in [pc : {"none", "frozen", "set"}, key : settings!Keys, val : Values \cup {0}]
    BY DEF settings!Names, settings!NoCall, settings!Keys
  <1>0. s3 = "runs"
    BY <1>1 DEF settings!StoreInv, settings!CallsAreTheApps
  <1>5. settings!TypeOK'
    <2>1. s2 + 1 \in Nat /\ s6' \in settings!Stores /\ s10' \in settings!Stores
      BY <1>1, <1>2 DEF settings!StoreInv, settings!TypeOK
    <2>2. s1' \in [settings!Names -> [at : Nat, data : settings!Stores]]
      BY <1>3, <2>1 DEF settings!StoreInv, settings!TypeOK
    <2>3. s7' \in [Setters -> [pc : {"none", "frozen", "set"}, key : settings!Keys, val : Values \cup {0}]]
      BY <1>1, <1>4 DEF settings!StoreInv, settings!TypeOK
    <2>4. s12' \in BOOLEAN
      BY <1>3
    <2> QED
      BY <1>3, <2>1, <2>2, <2>3, <2>4 DEF settings!StoreInv, settings!TypeOK
  <1>6. \/ UNCHANGED s1 /\ s12'
        \/ \A n \in settings!Names : s1'[n] = IF n = "config" THEN [at |-> s2 + 1, data |-> s6'] ELSE s1[n]
    BY <1>3 DEF settings!StoreInv, settings!TypeOK
  <1>9. \A n \in settings!Names : s1[n].at \in Nat
    BY DEF settings!StoreInv, settings!TypeOK
  <1>7. settings!FilesAreDated'
    <2>1. CASE UNCHANGED s1
      BY <2>1, <1>3, <1>9 DEF settings!StoreInv, settings!TypeOK, settings!FilesAreDated
    <2>2. CASE \A n \in settings!Names : s1'[n] = IF n = "config" THEN [at |-> s2 + 1, data |-> s6'] ELSE s1[n]
      BY <2>2, <1>3, <1>9 DEF settings!StoreInv, settings!TypeOK, settings!FilesAreDated
    <2> QED
      BY <1>6, <2>1, <2>2
  <1>8. settings!ChoiceIsHeld'
    BY <1>0, <1>1, <1>3, <1>4, <1>6 DEF settings!ChoiceIsHeld, settings!Holds, settings!Launching
  <1> QED
    BY <1>0, <1>3, <1>5, <1>7, <1>8 DEF settings!StoreInv, settings!CallsAreTheApps

LEMMA StoreStep == ASSUME settings!StoreInv, settings!Next \/ UNCHANGED settings!vars PROVE settings!StoreInv'
  <1>1. CASE settings!RunOld
    <2>1. PICK b \in Builds : s3' = b /\ s6' = s1[b].data
      BY <1>1 DEF settings!RunOld
    <2>2. UNCHANGED <<s1, s2, s4, s5, s7, s10, s12>> /\ b \in settings!Names
      BY <1>1 DEF settings!RunOld, settings!calls, settings!Names
    <2>3. s1[b].data \in settings!Stores /\ s3 = "none" /\ s3' \notin {"tidy", "runs"}
      BY <1>1, <2>1, <2>2, BuildsAssumption DEF settings!RunOld, settings!StoreInv, settings!TypeOK
    <2>4. settings!TypeOK'
      BY <2>1, <2>2, <2>3 DEF settings!StoreInv, settings!TypeOK
    <2>5. settings!FilesAreDated' /\ settings!ChoiceIsHeld' /\ settings!CallsAreTheApps'
      BY <2>2, <2>3 DEF settings!StoreInv, settings!FilesAreDated, settings!ChoiceIsHeld,
         settings!Launching, settings!Holds, settings!CallsAreTheApps
    <2> QED
      BY <2>4, <2>5 DEF settings!StoreInv
  <1>2. CASE settings!Exit
    <2>1. settings!NoStore \in settings!Stores
            /\ settings!NoCall \in [pc : {"none", "frozen", "set"}, key : settings!Keys, val : Values \cup {0}]
      BY DEF settings!NoStore, settings!Stores, settings!NoCall, settings!Keys
    <2>2. /\ s3' = "none" /\ s4' = {} /\ s5' = "none" /\ s6' = settings!NoStore
          /\ s7' = [s \in Setters |-> settings!NoCall] /\ UNCHANGED <<s1, s2, s10, s12>>
      BY <1>2 DEF settings!Exit
    <2> QED
      BY <2>1, <2>2 DEF settings!StoreInv, settings!TypeOK, settings!FilesAreDated,
         settings!ChoiceIsHeld, settings!Launching, settings!Holds, settings!CallsAreTheApps,
         settings!NoCall
  <1>4. CASE UNCHANGED <<s1, s2, s3, s4, s5, s6, s10, s12>>
             /\ s7' \in [Setters -> [pc : {"none", "frozen", "set"}, key : settings!Keys, val : Values \cup {0}]]
             /\ settings!CallsAreTheApps'
    BY <1>4 DEF settings!StoreInv, settings!TypeOK, settings!FilesAreDated, settings!ChoiceIsHeld,
       settings!Launching, settings!Holds
  <1>5. CASE settings!Call
    <2>1. UNCHANGED <<s1, s2, s3, s4, s5, s6, s10, s12>>
      BY <1>5 DEF settings!Call
    <2>2. s7' \in [Setters -> [pc : {"none", "frozen", "set"}, key : settings!Keys, val : Values \cup {0}]]
      BY <1>5 DEF settings!Call, settings!StoreInv, settings!TypeOK
    <2>3. settings!CallsAreTheApps'
      BY <2>1, <1>5 DEF settings!Call, settings!StoreInv, settings!TypeOK, settings!CallsAreTheApps
    <2> QED
      BY <2>1, <2>2, <2>3, <1>4
  <1>6. CASE settings!Refuse
    <2>1. UNCHANGED <<s1, s2, s3, s4, s5, s6, s10, s12>>
      BY <1>6 DEF settings!Refuse
    <2>2. s7' \in [Setters -> [pc : {"none", "frozen", "set"}, key : settings!Keys, val : Values \cup {0}]]
      <3>1. settings!NoCall \in [pc : {"none", "frozen", "set"}, key : settings!Keys, val : Values \cup {0}]
        BY DEF settings!NoCall, settings!Keys
      <3>2. PICK s \in Setters : s7' = [s7 EXCEPT ![s] = IF s8 /\ s7[s].key = "policy" THEN settings!NoCall
                                                                ELSE [s7[s] EXCEPT !.pc = "set"]]
        BY <1>6 DEF settings!Refuse
      <3>3. [s7[s] EXCEPT !.pc = "set"] \in [pc : {"none", "frozen", "set"}, key : settings!Keys, val : Values \cup {0}]
        BY DEF settings!StoreInv, settings!TypeOK
      <3> QED
        BY <3>1, <3>2, <3>3 DEF settings!StoreInv, settings!TypeOK
    <2>3. settings!CallsAreTheApps'
      BY <2>1, <1>6 DEF settings!Refuse, settings!NoCall, settings!StoreInv, settings!TypeOK,
         settings!CallsAreTheApps
    <2> QED
      BY <2>1, <2>2, <2>3, <1>4
  <1>7. CASE settings!JobStarts \/ settings!Track \/ settings!JobEnds \/ UNCHANGED settings!vars
    <2>1. UNCHANGED <<s1, s2, s3, s4, s5, s6, s7, s10, s12>>
      BY <1>7 DEF settings!JobStarts, settings!Track, settings!JobEnds, settings!vars
    <2> QED
      BY <2>1, <1>4 DEF settings!StoreInv, settings!TypeOK, settings!CallsAreTheApps
  <1> QED
    BY <1>1, <1>2, <1>5, <1>6, <1>7, UpdateKeeps, OldSetsKeeps, LaunchSeeds, TidyKeeps,
       LoadReads DEF settings!Next

-----------------------------------------------------------------------------
(* Pairing: codes are spent once, attempts are counted. *)

\* pairing's FiniteSets is the FiniteSets of the theorems cited.
LEMMA PairingSets == \A S : (pairing!IsFiniteSet(S) <=> IsFiniteSet(S))
    /\ pairing!Cardinality(S) = Cardinality(S)
  BY DEF IsFiniteSet, Cardinality, pairing!IsFiniteSet, pairing!Cardinality

LEMMA PairingAdded == ASSUME NEW S, NEW x, pairing!IsFiniteSet(S)
  PROVE  /\ pairing!IsFiniteSet(S \cup {x})
         /\ pairing!Cardinality(S \cup {x}) = IF x \in S THEN pairing!Cardinality(S) ELSE pairing!Cardinality(S) + 1
  BY FS_AddElement, PairingSets

LEMMA PairingCounted == ASSUME NEW S, pairing!IsFiniteSet(S) PROVE pairing!Cardinality(S) \in Nat
  BY FS_CardinalityType, PairingSets

LEMMA PairingEmpty == /\ pairing!IsFiniteSet({})
  /\ pairing!Cardinality({}) = 0
  /\ \A S : pairing!IsFiniteSet(S) => (pairing!Cardinality(S) = 0 <=> S = {})
  BY FS_EmptySet, PairingSets

LEMMA PairingSingle == \A x : pairing!IsFiniteSet({x}) /\ pairing!Cardinality({x}) = 1
  BY FS_Singleton, PairingSets

LEMMA PairingSubset == ASSUME NEW S, pairing!IsFiniteSet(S), NEW T \in SUBSET S
  PROVE  /\ pairing!IsFiniteSet(T)
         /\ pairing!Cardinality(T) <= pairing!Cardinality(S)
         /\ pairing!Cardinality(S) = pairing!Cardinality(T) => S = T
  BY FS_Subset, PairingSets


LEMMA NoneIsZero == pairing!None.code = 0 /\ pairing!None \in [code : Nat, until : Int]
  BY DEF pairing!None

\* What happens to the codes
LEMMA CodesKeep ==
  ASSUME pairing!TypeOK, pairing!CodesAreSpent, s8' = s8,
         s10 \subseteq s10', \A d \in s10' \ s10 : d.code = 0,
         \A i \in Instances : s5'[i] = s5[i] \/ s5'[i] = pairing!None
  PROVE  pairing!CodesAreSpent'
  <1>1. pairing!DeliveredOnce'
    BY DEF pairing!CodesAreSpent, pairing!DeliveredOnce, pairing!TypeOK
  <1>2. ASSUME NEW i \in Instances PROVE pairing!CodeIsNew(i)'
    <2>1. s5'[i].code <= s8
      BY NoneIsZero DEF pairing!CodesAreSpent, pairing!CodeIsNew, pairing!TypeOK
    <2>2. ASSUME s5'[i].code # 0, NEW j \in Instances, s5'[j].code = s5'[i].code PROVE j = i
      BY <2>2, NoneIsZero DEF pairing!CodesAreSpent, pairing!CodeIsNew
    <2>3. ASSUME s5'[i].code # 0, NEW d \in s10' PROVE d.code # s5'[i].code
      BY <2>3, NoneIsZero DEF pairing!CodesAreSpent, pairing!CodeIsNew
    <2> QED
      BY <2>1, <2>2, <2>3 DEF pairing!CodeIsNew
  <1> QED
    BY <1>1, <1>2 DEF pairing!CodesAreSpent

LEMMA ClaimPairs ==
  ASSUME pairing!TypeOK, pairing!CodesAreSpent, NEW i \in Instances, NEW who \in Clients,
      NEW given \in 0 .. MaxCodes,
         pairing!Claim(i, who, given)
  PROVE  pairing!CodesAreSpent' /\ s5' \in [Instances -> [code : Nat, until : Int]]
  <1> DEFINE device == [id |-> pairing!Cardinality(s10) + s9, code |-> given]
  <1>1. /\ ~pairing!Wrong(i, given) /\ s5' = pairing!Spent(i, given) /\ s8' = s8
        /\ s10' = s10 \cup {device} \/ s10' = s10
    BY DEF pairing!Claim
  <1>2. given \in Nat /\ device.code = given
    BY PairingAssumption
  <1>3. s5' \in [Instances -> [code : Nat, until : Int]]
        /\ \A j \in Instances : s5'[j] = s5[j] \/ s5'[j] = pairing!None
    BY <1>1, NoneIsZero DEF pairing!Spent, pairing!TypeOK
  <1>4. CASE given = 0
    BY <1>1, <1>2, <1>3, <1>4, CodesKeep
  <1>5. CASE given # 0
    <2>1. s5[i] # pairing!None /\ s5[i].code = given
      BY <1>1, <1>5 DEF pairing!Wrong, pairing!Needed, pairing!Live
    <2>2. s5' = [s5 EXCEPT ![i] = pairing!None]
      BY <1>1, <1>5 DEF pairing!Spent, pairing!Needed
    <2>3. given <= s8 /\ \A d \in s10 : d.code # given
      BY <2>1, <1>5 DEF pairing!CodesAreSpent, pairing!CodeIsNew
    <2>4. pairing!DeliveredOnce'
      BY <1>1, <1>2, <2>3 DEF pairing!CodesAreSpent, pairing!DeliveredOnce, pairing!TypeOK
    <2>5. \A j \in Instances : pairing!CodeIsNew(j)'
      <3> SUFFICES ASSUME NEW j \in Instances PROVE pairing!CodeIsNew(j)'
        OBVIOUS
      <3>1. CASE j = i
        BY <3>1, <2>2, <1>1, NoneIsZero DEF pairing!TypeOK, pairing!CodeIsNew
      <3>2. CASE j # i
        <4>1. s5'[j] = s5[j] /\ s5[j].code # given
          BY <3>2, <2>1, <2>2, <1>5 DEF pairing!TypeOK, pairing!CodesAreSpent, pairing!CodeIsNew
        <4> QED
          BY <4>1, <2>2, <1>1, <1>2, NoneIsZero DEF pairing!TypeOK, pairing!CodesAreSpent,
             pairing!CodeIsNew
      <3> QED
        BY <3>1, <3>2
    <2> QED
      BY <1>3, <2>4, <2>5 DEF pairing!CodesAreSpent
  <1> QED
    BY <1>4, <1>5

LEMMA BeginIsNew ==
  ASSUME pairing!TypeOK, pairing!CodesAreSpent, NEW i \in Instances, pairing!Begin(i)
  PROVE  pairing!CodesAreSpent' /\ s5' \in [Instances -> [code : Nat, until : Int]]
  <1>1. s5' = [s5 EXCEPT ![i] = [code |-> s8 + 1, until |-> s7 + Life]]
        /\ s8' = s8 + 1 /\ s10' = s10
    BY DEF pairing!Begin
  <1>2. [code |-> s8 + 1, until |-> s7 + Life] \in [code : Nat, until : Int]
    BY PairingAssumption DEF pairing!TypeOK
  <1>3. pairing!DeliveredOnce'
    BY <1>1 DEF pairing!CodesAreSpent, pairing!DeliveredOnce, pairing!TypeOK
  <1>4. \A j \in Instances : pairing!CodeIsNew(j)'
    <2> SUFFICES ASSUME NEW j \in Instances PROVE pairing!CodeIsNew(j)'
      OBVIOUS
    <2>1. \A k \in Instances : s5[k].code \in Nat /\ s5[k].code <= s8
      BY DEF pairing!CodesAreSpent, pairing!CodeIsNew, pairing!TypeOK
    <2>2. \A d \in s10 : d.code <= s8 /\ d.code \in Nat
      BY DEF pairing!CodesAreSpent, pairing!DeliveredOnce, pairing!TypeOK
    <2>3. CASE j = i
      <3>1. s5'[j].code = s8 + 1 /\ \A k \in Instances \ {i} : s5'[k] = s5[k]
        BY <1>1, <2>3 DEF pairing!TypeOK
      <3> QED
        BY <3>1, <2>1, <2>2, <2>3, <1>1 DEF pairing!TypeOK, pairing!CodeIsNew
    <2>4. CASE j # i
      <3>1. s5'[j] = s5[j] /\ s5'[i].code = s8 + 1
            /\ \A k \in Instances \ {i} : s5'[k] = s5[k]
        BY <1>1, <2>4 DEF pairing!TypeOK
      <3> QED
        BY <3>1, <2>1, <1>1, <2>4 DEF pairing!TypeOK, pairing!CodesAreSpent, pairing!CodeIsNew
    <2> QED
      BY <2>3, <2>4
  <1> QED
    BY <1>1, <1>2, <1>3, <1>4 DEF pairing!CodesAreSpent, pairing!TypeOK

\* The table
LEMMA StampsOfStamps ==
  ASSUME NEW S
  PROVE  /\ pairing!Stamps(S) \subseteq S
         /\ pairing!Stamps(pairing!Stamps(S)) = pairing!Stamps(S)
         /\ pairing!IsFiniteSet(S) => pairing!IsFiniteSet(pairing!Stamps(S))
  <1>1. pairing!Stamps(S) \subseteq S
    BY DEF pairing!Stamps
  <1> QED
    BY <1>1, PairingSubset DEF pairing!Stamps

LEMMA StampCounts ==
  ASSUME NEW S \in pairing!StampSet, pairing!IsFiniteSet(S), pairing!Cardinality(S) < Limit, s7 \in Nat
  PROVE  /\ pairing!Stamped(S) \in pairing!StampSet /\ pairing!IsFiniteSet(pairing!Stamped(S))
         /\ pairing!Cardinality(pairing!Stamps(pairing!Stamped(S))) <= Limit
  <1>1. pairing!Cardinality(S) \in Nat
    BY PairingCounted
  <1>2. pairing!IsFiniteSet(pairing!Stamped(S)) /\ pairing!Cardinality(pairing!Stamped(S)) <= Limit
    <2> DEFINE x == [at |-> s7, nth |-> pairing!Cardinality(S)]
    <2>1. pairing!IsFiniteSet(S \cup {x})
            /\ pairing!Cardinality(S \cup {x}) \in {pairing!Cardinality(S), pairing!Cardinality(S) + 1}
      BY PairingAdded
    <2> QED
      BY <1>1, <2>1, PairingAssumption DEF pairing!Stamped
  <1>3. pairing!Stamps(pairing!Stamped(S)) \subseteq pairing!Stamped(S)
    BY DEF pairing!Stamps
  <1>4. pairing!Stamped(S) \in pairing!StampSet
    BY <1>1 DEF pairing!Stamped, pairing!StampSet
  <1> QED
    BY <1>2, <1>3, <1>4, PairingSubset, PairingCounted, PairingAssumption

LEMMA SweepKeeps ==
  ASSUME pairing!TypeOK, pairing!TableIsTrue, NEW i \in Instances, NEW who \in Clients
  PROVE  /\ pairing!Swept(i, who) \in [Clients -> pairing!StampSet]
         /\ pairing!Swept(i, who)[who] = pairing!Stamps(s6[i][who])
         /\ \A c \in Clients : /\ pairing!IsFiniteSet(pairing!Swept(i, who)[c])
                               /\ pairing!Stamps(pairing!Swept(i, who)[c]) = pairing!Stamps(s6[i][c])
  <1>1. \A c \in Clients : /\ pairing!Stamps(s6[i][c]) \in pairing!StampSet
                           /\ pairing!IsFiniteSet(pairing!Stamps(s6[i][c]))
                           /\ pairing!Stamps(pairing!Stamps(s6[i][c])) = pairing!Stamps(s6[i][c])
    <2> SUFFICES ASSUME NEW c \in Clients
                 PROVE  /\ pairing!Stamps(s6[i][c]) \in pairing!StampSet
                        /\ pairing!IsFiniteSet(pairing!Stamps(s6[i][c]))
                        /\ pairing!Stamps(pairing!Stamps(s6[i][c])) = pairing!Stamps(s6[i][c])
      OBVIOUS
    <2>1. s6[i][c] \in pairing!StampSet /\ pairing!IsFiniteSet(s6[i][c])
      BY DEF pairing!TypeOK, pairing!TableIsTrue, pairing!AddressIsMetered
    <2> QED
      BY <2>1, StampsOfStamps DEF pairing!StampSet
  <1>2. CASE pairing!Swept(i, who) = [c \in Clients |-> pairing!Stamps(s6[i][c])]
    BY <1>1, <1>2
  <1>3. CASE pairing!Swept(i, who) = [s6[i] EXCEPT ![who] = pairing!Stamps(@)]
    BY <1>1, <1>3 DEF pairing!TypeOK, pairing!TableIsTrue, pairing!AddressIsMetered
  <1> QED
    BY <1>2, <1>3 DEF pairing!Swept

LEMMA ChargeIsMetered ==
  ASSUME pairing!TypeOK, pairing!TableIsTrue, NEW i \in Instances, NEW who \in Clients, UNCHANGED s7,
         pairing!Charge(i, who), pairing!Cardinality(pairing!Swept(i, who)[who]) < Limit
  PROVE  pairing!TableIsTrue' /\ s6' \in [Instances -> [Clients -> pairing!StampSet]]
         /\ s11' \in [Instances -> [Clients -> pairing!StampSet]]
  <1> DEFINE kept == pairing!Swept(i, who)[who]
  <1>1. kept \in pairing!StampSet /\ kept = pairing!Stamps(s6[i][who]) /\ kept = pairing!Stamps(s11[i][who])
        /\ pairing!IsFiniteSet(kept)
    BY SweepKeeps DEF pairing!TableIsTrue, pairing!AddressIsMetered
  <1>2. pairing!Stamped(kept) \in pairing!StampSet /\ pairing!IsFiniteSet(pairing!Stamped(kept))
        /\ pairing!Cardinality(pairing!Stamps(pairing!Stamped(kept))) <= Limit
    BY <1>1, StampCounts DEF pairing!TypeOK
  <1>3. /\ s6' = [s6 EXCEPT ![i] = [pairing!Swept(i, who) EXCEPT ![who] = pairing!Stamped(kept)]]
        /\ s11' = [s11 EXCEPT ![i] = [s11[i] EXCEPT ![who] = pairing!Stamped(kept)]]
    BY <1>1, SweepKeeps DEF pairing!Charge, pairing!TypeOK
  <1> HIDE DEF kept
  <1>5. \A j \in Instances, c \in Clients :
           /\ s11'[j][c] = IF j = i /\ c = who THEN pairing!Stamped(kept) ELSE s11[j][c]
           /\ s6'[j][c] = IF j # i THEN s6[j][c]
                                ELSE IF c = who THEN pairing!Stamped(kept) ELSE pairing!Swept(i, who)[c]
    BY <1>3, SweepKeeps DEF pairing!TypeOK
  <1>6. ASSUME NEW j \in Instances, NEW c \in Clients PROVE pairing!AddressIsMetered(j, c)'
    <2>1. /\ pairing!IsFiniteSet(s6'[j][c]) /\ pairing!IsFiniteSet(s11'[j][c])
          /\ pairing!Stamps(s6'[j][c]) = pairing!Stamps(s11'[j][c])
          /\ pairing!Cardinality(pairing!Stamps(s11'[j][c])) <= Limit
      BY <1>2, <1>5, SweepKeeps DEF pairing!TableIsTrue, pairing!AddressIsMetered
    <2> QED
      BY <2>1 DEF pairing!AddressIsMetered, pairing!Stamps, pairing!Open
  <1>7. s6' \in [Instances -> [Clients -> pairing!StampSet]]
          /\ s11' \in [Instances -> [Clients -> pairing!StampSet]]
    BY <1>2, <1>3, SweepKeeps DEF pairing!TypeOK
  <1> QED
    BY <1>6, <1>7 DEF pairing!TableIsTrue

\* The table after a step in which tries of one address at most are forgotten.
LEMMA ClearIsMetered ==
  ASSUME pairing!TypeOK, pairing!TableIsTrue, NEW i \in Instances, NEW who \in Clients, UNCHANGED s7,
         pairing!Clear(i, who)
  PROVE  pairing!TableIsTrue' /\ s6' \in [Instances -> [Clients -> pairing!StampSet]]
         /\ s11' \in [Instances -> [Clients -> pairing!StampSet]]
  <1>1. /\ s6' = [s6 EXCEPT ![i] = [pairing!Swept(i, who) EXCEPT ![who] = {}]]
        /\ s11' = [s11 EXCEPT ![i] = [s11[i] EXCEPT ![who] = {}]]
    BY DEF pairing!Clear, pairing!TypeOK
  <1>2. \A j \in Instances, c \in Clients :
           /\ s11'[j][c] = IF j = i /\ c = who THEN {} ELSE s11[j][c]
           /\ s6'[j][c] = IF j # i THEN s6[j][c]
                                ELSE IF c = who THEN {} ELSE pairing!Swept(i, who)[c]
    BY <1>1, SweepKeeps DEF pairing!TypeOK
  <1>3. pairing!Stamps({}) = {} /\ pairing!IsFiniteSet({}) /\ pairing!Cardinality({}) <= Limit
    BY PairingEmpty, PairingAssumption DEF pairing!Stamps
  <1>4. ASSUME NEW j \in Instances, NEW c \in Clients PROVE pairing!AddressIsMetered(j, c)'
    <2>1. /\ pairing!IsFiniteSet(s6'[j][c]) /\ pairing!IsFiniteSet(s11'[j][c])
          /\ pairing!Stamps(s6'[j][c]) = pairing!Stamps(s11'[j][c])
          /\ pairing!Cardinality(pairing!Stamps(s11'[j][c])) <= Limit
      <3>1. CASE j = i /\ c = who
        BY <1>2, <1>3, <3>1
      <3>2. CASE ~(j = i /\ c = who)
        BY <1>2, <3>2, SweepKeeps DEF pairing!TableIsTrue, pairing!AddressIsMetered
      <3> QED
        BY <3>1, <3>2
    <2> QED
      BY <2>1 DEF pairing!AddressIsMetered, pairing!Stamps, pairing!Open
  <1>5. {} \in pairing!StampSet
    BY DEF pairing!StampSet
  <1>6. s6' \in [Instances -> [Clients -> pairing!StampSet]]
          /\ s11' \in [Instances -> [Clients -> pairing!StampSet]]
    BY <1>1, <1>5, SweepKeeps DEF pairing!TypeOK
  <1> QED
    BY <1>4, <1>6 DEF pairing!TableIsTrue

LEMMA RefusalIsMetered ==
  ASSUME pairing!TypeOK, pairing!TableIsTrue, NEW i \in Instances,
      NEW who \in Clients, pairing!RateLimited(i, who)
  PROVE  pairing!TableIsTrue' /\ s6' \in [Instances -> [Clients -> pairing!StampSet]]
  <1>1. s6' = [s6 EXCEPT ![i] = pairing!Swept(i, who)] /\ s11' = s11 /\ s7' = s7
    BY DEF pairing!RateLimited
  <1>2. \A j \in Instances, c \in Clients :
           s6'[j][c] = IF j # i THEN s6[j][c] ELSE pairing!Swept(i, who)[c]
    BY <1>1, SweepKeeps DEF pairing!TypeOK
  <1>3. ASSUME NEW j \in Instances, NEW c \in Clients PROVE pairing!AddressIsMetered(j, c)'
    <2>1. /\ pairing!IsFiniteSet(s6'[j][c]) /\ pairing!IsFiniteSet(s11'[j][c])
          /\ pairing!Stamps(s6'[j][c]) = pairing!Stamps(s11'[j][c])
          /\ pairing!Cardinality(pairing!Stamps(s11'[j][c])) <= Limit
      BY <1>1, <1>2, SweepKeeps DEF pairing!TableIsTrue, pairing!AddressIsMetered
    <2> QED
      BY <1>1, <2>1 DEF pairing!AddressIsMetered, pairing!Stamps, pairing!Open
  <1> QED
    BY <1>1, <1>3, SweepKeeps DEF pairing!TableIsTrue, pairing!TypeOK

\* Time closes stamps and opens none.
LEMMA TickIsMetered ==
  ASSUME pairing!TypeOK, pairing!TableIsTrue, pairing!Tick
  PROVE  pairing!TableIsTrue'
  <1>1. s7 \in Nat /\ s7' = s7 + 1 /\ UNCHANGED pairing!meter
    BY DEF pairing!Tick, pairing!TypeOK
  <1>2. ASSUME NEW i \in Instances, NEW who \in Clients PROVE pairing!AddressIsMetered(i, who)'
    <2> DEFINE S == s6[i][who]
               T == s11[i][who]
               later(U) == {s \in pairing!Stamps(U) : (s7 + 1) - s.at < Life}
    <2>1. pairing!IsFiniteSet(S) /\ pairing!IsFiniteSet(T) /\ pairing!Stamps(S) = pairing!Stamps(T)
            /\ pairing!Cardinality(pairing!Stamps(T)) <= Limit
          /\ S \in pairing!StampSet /\ T \in pairing!StampSet
      BY DEF pairing!TypeOK, pairing!TableIsTrue, pairing!AddressIsMetered
    <2>2. ASSUME NEW U \in pairing!StampSet PROVE {s \in U : (s7 + 1) - s.at < Life} = later(U)
      BY <1>1, PairingAssumption DEF pairing!Stamps, pairing!Open, pairing!StampSet
    <2>3. pairing!Cardinality(later(T)) <= Limit
      <3>1. later(T) \subseteq pairing!Stamps(T) /\ pairing!IsFiniteSet(pairing!Stamps(T))
        BY <2>1, StampsOfStamps
      <3> QED
        BY <3>1, <2>1, PairingSubset, PairingCounted, PairingAssumption
    <2>4. later(S) = later(T)
      BY <2>1
    <2> HIDE DEF later
    <2>5. s6'[i][who] = S /\ s11'[i][who] = T
      BY <1>1 DEF pairing!meter
    <2> QED
      <3>1. pairing!Stamps(s6[i][who])' = later(S) /\ pairing!Stamps(s11[i][who])' = later(T)
        BY <1>1, <2>1, <2>2, <2>5 DEF pairing!Stamps, pairing!Open
      <3> QED
        BY <2>1, <2>3, <2>4, <2>5, <3>1 DEF pairing!AddressIsMetered
  <1> QED
    BY <1>2 DEF pairing!TableIsTrue

LEMMA PairInit == pairing!Init => pairing!PairInv
  <1> SUFFICES ASSUME pairing!Init PROVE pairing!PairInv
    OBVIOUS
  <1>1. {} \in pairing!StampSet /\ pairing!Stamps({}) = {} /\ pairing!IsFiniteSet({})
          /\ pairing!Cardinality({}) <= Limit
    BY PairingEmpty, PairingAssumption DEF pairing!Stamps, pairing!StampSet
  <1>2. pairing!TypeOK
    BY <1>1, NoneIsZero DEF pairing!Init, pairing!TypeOK
  <1>3. pairing!CodesAreSpent
    BY NoneIsZero DEF pairing!Init, pairing!CodesAreSpent, pairing!DeliveredOnce, pairing!CodeIsNew
  <1>4. pairing!TableIsTrue
    BY <1>1 DEF pairing!Init, pairing!TableIsTrue, pairing!AddressIsMetered
  <1> QED
    BY <1>2, <1>3, <1>4 DEF pairing!PairInv

\* A step that leaves now and the meter alone keeps the table.
LEMMA MeterKeeps ==
  ASSUME pairing!TableIsTrue, UNCHANGED <<pairing!meter, s7>>
  PROVE  pairing!TableIsTrue'
  BY DEF pairing!meter, pairing!TableIsTrue, pairing!AddressIsMetered, pairing!Stamps, pairing!Open

LEMMA PairStep ==
  ASSUME pairing!PairInv, pairing!Next \/ UNCHANGED pairing!vars
  PROVE  pairing!PairInv'
  <1> USE DEF pairing!PairInv
  <1>0. s5 \in [Instances -> [code : Nat, until : Int]]
    BY DEF pairing!TypeOK
  <1>1. ASSUME NEW i \in Instances, NEW who \in Clients,
          NEW given \in 0 .. MaxCodes, pairing!Refuse(i, who, given)
        PROVE  pairing!PairInv'
    <2>1. pairing!CodesAreSpent' /\ s5' \in [Instances -> [code : Nat, until : Int]]
      BY <1>1, CodesKeep, NoneIsZero DEF pairing!Refuse, pairing!Live, pairing!TypeOK
    <2>2. pairing!TableIsTrue' /\ s6' \in [Instances -> [Clients -> pairing!StampSet]]
          /\ s11' \in [Instances -> [Clients -> pairing!StampSet]]
      BY <1>1, ChargeIsMetered DEF pairing!Refuse, pairing!Admitted
    <2> QED
      BY <1>1, <2>1, <2>2 DEF pairing!Refuse, pairing!TypeOK
  <1>2. ASSUME NEW i \in Instances, NEW who \in Clients,
          NEW given \in 0 .. MaxCodes, pairing!Claim(i, who, given)
        PROVE  pairing!PairInv'
    <2>1. pairing!CodesAreSpent' /\ s5' \in [Instances -> [code : Nat, until : Int]]
      BY <1>2, ClaimPairs
    <2>2. pairing!Admitted(i, who) /\ (pairing!Charge(i, who) \/ pairing!Clear(i, who)) /\ UNCHANGED <<s7, s8>>
      BY <1>2 DEF pairing!Claim
    <2>3. pairing!TableIsTrue' /\ s6' \in [Instances -> [Clients -> pairing!StampSet]]
          /\ s11' \in [Instances -> [Clients -> pairing!StampSet]]
      BY <2>2, ChargeIsMetered, ClearIsMetered DEF pairing!Admitted
    <2> QED
      BY <2>1, <2>2, <2>3 DEF pairing!TypeOK
  <1>3. ASSUME NEW i \in Instances, NEW who \in Clients, pairing!RateLimited(i, who)
        PROVE  pairing!PairInv'
    <2>1. pairing!TableIsTrue' /\ s6' \in [Instances -> [Clients -> pairing!StampSet]]
      BY <1>3, RefusalIsMetered
    <2>2. UNCHANGED <<s5, s7, s8, s10, s11>>
      BY <1>3 DEF pairing!RateLimited
    <2> QED
      BY <1>0, <2>1, <2>2, CodesKeep DEF pairing!TypeOK
  <1>4. ASSUME NEW i \in Instances, pairing!Begin(i) PROVE pairing!PairInv'
    <2>1. UNCHANGED <<pairing!meter, s7>> /\ s8' = s8 + 1
      BY <1>4 DEF pairing!Begin
    <2> QED
      BY <1>4, <2>1, BeginIsNew, MeterKeeps DEF pairing!TypeOK, pairing!meter
  <1>5. ASSUME NEW i \in Instances, pairing!CancelCode(i) PROVE pairing!PairInv'
    <2>1. UNCHANGED <<pairing!meter, s7, s8, s10>> /\ s5' = [s5 EXCEPT ![i] = pairing!None]
      BY <1>5 DEF pairing!CancelCode
    <2>2. s5' \in [Instances -> [code : Nat, until : Int]]
          /\ \A j \in Instances : s5'[j] = s5[j] \/ s5'[j] = pairing!None
      BY <2>1, NoneIsZero DEF pairing!TypeOK
    <2> QED
      BY <2>1, <2>2, CodesKeep, MeterKeeps DEF pairing!TypeOK, pairing!meter
  <1>6. CASE pairing!Tick
    <2>1. UNCHANGED <<s5, pairing!meter, s8, s10>> /\ s7' = s7 + 1
      BY <1>6 DEF pairing!Tick
    <2> QED
      BY <1>6, <2>1, TickIsMetered, CodesKeep DEF pairing!TypeOK, pairing!meter
  <1>7. CASE UNCHANGED <<s5, pairing!meter, s7, s8, s10>>
    BY <1>7, MeterKeeps, CodesKeep DEF pairing!TypeOK, pairing!meter
  <1>8. ASSUME NEW i \in Instances,
               pairing!Stamp(i) \/ pairing!SetNeedsCode(i) \/ pairing!Touch(i)
                   \/ \E d \in s2[i].devices : pairing!Revoke(i, d)
        PROVE  UNCHANGED <<s5, pairing!meter, s7, s8, s10>>
    BY <1>8 DEF pairing!Stamp, pairing!SetNeedsCode, pairing!Touch, pairing!Revoke, pairing!Change
  <1> QED
    BY <1>1, <1>2, <1>3, <1>4, <1>5, <1>6, <1>7, <1>8 DEF pairing!Next, pairing!vars, pairing!meter

LEMMA PairInvMeters == pairing!PairInv => pairing!PairingIsMetered
  <1> SUFFICES ASSUME pairing!PairInv PROVE pairing!PairingIsMetered
    OBVIOUS
  <1>1. ASSUME NEW c \in 1 .. MaxCodes PROVE pairing!Cardinality({d \in s10 : d.code = c}) <= 1
    <2> DEFINE D == {d \in s10 : d.code = c}
    <2>1. c # 0 /\ \A d, e \in D : d = e
      BY PairingAssumption DEF pairing!PairInv, pairing!CodesAreSpent, pairing!DeliveredOnce
    <2>2. CASE D = {}
      BY <2>2, PairingEmpty
    <2>3. CASE D # {}
      <3>1. PICK d \in D : D = {d}
        BY <2>1, <2>3
      <3>2. pairing!Cardinality({d}) = 1
        BY PairingSingle
      <3> QED
        BY <3>1, <3>2
    <2> QED
      BY <2>2, <2>3
  <1> QED
    BY <1>1 DEF pairing!PairInv, pairing!TableIsTrue, pairing!AddressIsMetered,
       pairing!PairingIsMetered

-----------------------------------------------------------------------------
(* ScanWorker: what the child said, what the parent decides. *)

LEMMA ScanInit == scanner!Init => scanner!ScanInv
  BY DEF scanner!Init, scanner!ScanInv, scanner!VerdictIsEarned, scanner!Pipes

LEMMA ChildStep == ASSUME scanner!ScanInv, scanner!AskChild \/ scanner!Count \/ scanner!Listed
    \/ scanner!ChildProbes \/ scanner!Answer \/ scanner!ChildEnds \/ scanner!ChildDies
                   PROVE scanner!ScanInv'
  <1>1. "err" \in scanner!Pipes /\ "out" \in scanner!Pipes
    BY DEF scanner!Pipes
  <1>2. CASE scanner!AskChild
    BY <1>2 DEF scanner!AskChild, scanner!ScanInv, scanner!VerdictIsEarned, scanner!world,
       scanner!pump
  <1>3. CASE scanner!Count \/ scanner!Answer
    BY <1>1, <1>3 DEF scanner!Count, scanner!Answer, scanner!ScanInv, scanner!VerdictIsEarned,
       scanner!world, scanner!pump
  <1>4. CASE scanner!Listed
    BY <1>4 DEF scanner!Listed, scanner!Classify, scanner!ScanInv, scanner!VerdictIsEarned,
       scanner!world, scanner!pump
  <1>5. CASE scanner!ChildProbes
    BY <1>5 DEF scanner!ChildProbes, scanner!Probe, scanner!ScanInv, scanner!VerdictIsEarned,
       scanner!world, scanner!pump
  <1>6. CASE scanner!ChildEnds \/ scanner!ChildDies
    BY <1>6 DEF scanner!ChildEnds, scanner!ChildDies, scanner!ScanInv, scanner!VerdictIsEarned,
       scanner!world, scanner!pump
  <1> QED
    BY <1>2, <1>3, <1>4, <1>5, <1>6

\* A pipe that is full has something to read, so the child's lines never wait for the end.
LEMMA NeverStalls == ASSUME scanner!ScanInv, scanner!Stuck PROVE s4 = "hung"
  <1>1. "err" \in scanner!Pipes /\ "out" \in scanner!Pipes
    BY DEF scanner!Pipes
  <1> QED
    BY <1>1, ScanAssumption DEF scanner!Stuck, scanner!Full, scanner!Drains, scanner!ScanInv

LEMMA ParentStep == ASSUME scanner!ScanInv, scanner!Spawn \/ scanner!SpawnFails
    \/ scanner!ParentProbes \/ scanner!Pump \/ scanner!Exited \/ scanner!Cancelled
                                    \/ scanner!TimedOut \/ scanner!Join \/ scanner!Decoded
                                       \/ scanner!CancelIt \/ scanner!Flip
                    PROVE scanner!ScanInv'
  <1>1. CASE scanner!Spawn \/ scanner!Exited \/ scanner!Join \/ scanner!CancelIt
    BY <1>1 DEF scanner!Spawn, scanner!Exited, scanner!Join, scanner!CancelIt, scanner!ScanInv,
       scanner!VerdictIsEarned, scanner!world, scanner!pump
  <1>2. CASE scanner!SpawnFails
    BY <1>2 DEF scanner!SpawnFails, scanner!Classify, scanner!ScanInv, scanner!VerdictIsEarned,
       scanner!world, scanner!pump
  <1>3. CASE scanner!ParentProbes
    BY <1>3 DEF scanner!ParentProbes, scanner!Probe, scanner!ScanInv, scanner!VerdictIsEarned,
       scanner!world, scanner!pump
  <1>4. CASE scanner!Pump
    <2>1. PICK p \in scanner!Pipes : s7' = [s7 EXCEPT ![p] = @ + 1]
      BY <1>4 DEF scanner!Pump
    <2>2. s7' \in [scanner!Pipes -> Nat]
      BY <2>1 DEF scanner!ScanInv
    <2> QED
      BY <1>4, <2>2 DEF scanner!Pump, scanner!ScanInv, scanner!VerdictIsEarned, scanner!world
  <1>5. CASE scanner!Cancelled
    BY <1>5 DEF scanner!Cancelled, scanner!Finish, scanner!ScanInv, scanner!VerdictIsEarned,
       scanner!world, scanner!pump
  <1>6. CASE scanner!TimedOut
    BY <1>6, NeverStalls DEF scanner!TimedOut, scanner!Finish, scanner!ScanInv,
       scanner!VerdictIsEarned, scanner!world, scanner!pump
  <1>7. CASE scanner!Decoded
    BY <1>7 DEF scanner!Decoded, scanner!Decode, scanner!Finish, scanner!ScanInv,
       scanner!VerdictIsEarned, scanner!world, scanner!pump
  <1>8. CASE scanner!Flip
    BY <1>8 DEF scanner!Flip, scanner!ScanInv, scanner!VerdictIsEarned, scanner!pump
  <1> QED
    BY <1>1, <1>2, <1>3, <1>4, <1>5, <1>6, <1>7, <1>8

LEMMA ScanStep == ASSUME scanner!ScanInv, scanner!Next \/ UNCHANGED scanner!vars PROVE scanner!ScanInv'
  <1>1. CASE UNCHANGED scanner!vars
    BY <1>1 DEF scanner!vars, scanner!ScanInv, scanner!VerdictIsEarned
  <1> QED
    BY <1>1, ChildStep, ParentStep DEF scanner!Next

-----------------------------------------------------------------------------
(* UpdateCheck: a verdict is one manifest's. *)

LEMMA FieldOrder ==
  /\ check!Fields[1] = "valid" /\ {check!Fields[n] : n \in DOMAIN check!Fields} = {"valid"} \cup check!Later
  /\ check!After("valid") = "latest" /\ check!After("latest") = "block" /\ check!After("block") = "available"
  /\ check!After("available") = "needs_full" /\ check!After("needs_full") = "full_available"
     /\ check!After("full_available") = "answer"
  <1>1. /\ DOMAIN check!Fields = 1 .. 6 /\ Len(check!Fields) = 6
        /\ check!Fields[1] = "valid" /\ check!Fields[2] = "latest" /\ check!Fields[3] = "block"
        /\ check!Fields[4] = "available" /\ check!Fields[5] = "needs_full" /\ check!Fields[6] = "full_available"
    BY DEF check!Fields
  <1>2. \A n \in 1 .. 6 : n = 1 \/ n = 2 \/ n = 3 \/ n = 4 \/ n = 5 \/ n = 6
    OBVIOUS
  <1>3. {check!Fields[n] : n \in DOMAIN check!Fields} = {"valid"} \cup check!Later
    BY <1>1, <1>2 DEF check!Later
  <1>4. ASSUME NEW k \in 1 .. 5 PROVE check!After(check!Fields[k]) = check!Fields[k + 1]
    <2>1. \A n \in DOMAIN check!Fields : check!Fields[n] = check!Fields[k] => n = k
      BY <1>1, <1>2
    <2>2. (CHOOSE n \in DOMAIN check!Fields : check!Fields[n] = check!Fields[k]) = k
      BY <2>1, <1>1
    <2> QED
      BY <2>2, <1>1 DEF check!After
  <1>5. check!After(check!Fields[6]) = "answer"
    <2>1. \A n \in DOMAIN check!Fields : check!Fields[n] = check!Fields[6] => n = 6
      BY <1>1, <1>2
    <2>2. (CHOOSE n \in DOMAIN check!Fields : check!Fields[n] = check!Fields[6]) = 6
      BY <2>1, <1>1
    <2> QED
      BY <2>2, <1>1 DEF check!After
  <1> QED
    BY <1>1, <1>3, <1>4, <1>5

LEMMA Verdicts == ASSUME NEW m
  PROVE /\ check!Judged(check!Unreachable) = check!Blank /\ ~check!Valid(check!Unreachable)
                                     /\ check!Half(m, "answer") = check!Judged(m)
                                        /\ check!Half(m, "done") = check!Judged(m)
  <1>1. ~check!Valid(check!Unreachable)
    BY DEF check!Valid, check!Unreachable
  <1>2. check!Judged(check!Unreachable) = check!Blank
    BY <1>1 DEF check!Judged, check!Blank
  <1>3. CASE check!Valid(m)
    <2>1. m # check!Unreachable
      BY <1>1, <1>3
    <2> QED
      BY <1>1, <1>2, <1>3, <2>1 DEF check!Judged, check!Half
  <1>4. CASE ~check!Valid(m)
    BY <1>1, <1>2, <1>4 DEF check!Judged, check!Half, check!Blank
  <1> QED
    BY <1>3, <1>4

\* The other checks, and what was read from them, are left alone.
LEMMA OneCheck ==
  ASSUME check!CheckInv, NEW i \in 1 .. MaxChecks, NEW c, NEW r,
         s3' = [s3 EXCEPT ![i] = c], s4' = [s4 EXCEPT ![i] = r],
         check!Checked(i)', s6'.table = s6.table, UNCHANGED s7,
         s3[i].pc \in {"available", "needs_full", "full_available", "answer", "done"} =>
           c.pc \in {"available", "needs_full", "full_available", "answer", "done"} /\ c.of = s3[i].of
  PROVE  /\ s3' = [k \in 1 .. MaxChecks |-> s3'[k]] /\ s4' = [k \in 1 .. MaxChecks |-> s4'[k]]
         /\ (\A k \in 1 .. MaxChecks : check!Checked(k)') /\ check!ReadWhole' /\ check!ShownWhole'
  <1>1. s3' = [k \in 1 .. MaxChecks |-> s3'[k]] /\ s4' = [k \in 1 .. MaxChecks |-> s4'[k]]
    BY DEF check!CheckInv
  <1>2. \A k \in 1 .. MaxChecks : s3'[k] = (IF k = i THEN c ELSE s3[k]) /\ s4'[k] = (IF k = i THEN r ELSE s4[k])
    BY DEF check!CheckInv
  <1>3. \A k \in 1 .. MaxChecks : check!Checked(k)'
    BY <1>2 DEF check!CheckInv, check!Checked
  <1>4. check!ReadWhole'
    BY <1>2 DEF check!CheckInv, check!ReadWhole
  <1>5. check!ShownWhole'
    BY DEF check!CheckInv, check!ShownWhole
  <1> QED
    BY <1>1, <1>3, <1>4, <1>5

LEMMA Fetches == ASSUME check!CheckInv, NEW i \in 1 .. MaxChecks, NEW silent \in BOOLEAN, check!Fetch(i, silent)
                 PROVE check!CheckInv'
  <1>1. PICK m \in {s1, check!Unreachable} : s3' = [s3 EXCEPT ![i] = check!Check("publish", m, silent)]
    BY DEF check!Fetch
  <1>2. s3[i].pc = "none" /\ UNCHANGED <<s1, s2, s4, s5, s6, s7, s8>>
    BY DEF check!Fetch
  <1>3. s3'[i] = check!Check("publish", m, silent) /\ s4[i] = check!Half(s3[i].of, "none")
    BY <1>1, <1>2 DEF check!CheckInv, check!Checked
  <1>4. s4' = [s4 EXCEPT ![i] = s4[i]]
    BY <1>2 DEF check!CheckInv, check!Checked
  <1>5. check!Checked(i)'
    BY <1>2, <1>3 DEF check!Checked, check!Check, check!Half, check!Steps, check!Later,
       check!CheckInv
  <1>6. s3[i].pc \notin {"available", "needs_full", "full_available", "answer", "done"}
    BY <1>2
  <1> QED
    BY <1>1, <1>2, <1>4, <1>5, <1>6, OneCheck DEF check!CheckInv

LEMMA Publishes == ASSUME check!CheckInv, NEW i \in 1 .. MaxChecks, check!Publish(i) PROVE check!CheckInv'
  <1> DEFINE c == [s3[i] EXCEPT !.pc = IF s3[i].of = check!Unreachable THEN "answer" ELSE check!Fields[1]]
             r == [check!Blank EXCEPT !.reachable = s3[i].of # check!Unreachable]
  <1>1. /\ s3[i].pc = "publish" /\ s5' = i /\ UNCHANGED <<s1, s2, s6, s7, s8>>
        /\ s3' = [s3 EXCEPT ![i] = c] /\ s4' = [s4 EXCEPT ![i] = r]
    BY DEF check!Publish
  <1>2. c.of = s3[i].of /\ c.pc = IF s3[i].of = check!Unreachable THEN "answer" ELSE "valid"
    BY FieldOrder DEF check!CheckInv, check!Checked
  <1>3. s3'[i] = c /\ s4'[i] = r
    BY <1>1 DEF check!CheckInv
  <1>4. r = check!Half(s3[i].of, c.pc)
    <2>1. check!Blank = check!Fields7(check!Blank)
      BY DEF check!Blank, check!Fields7
    <2>2. r = [check!Blank EXCEPT !.reachable = s3[i].of # check!Unreachable]
      OBVIOUS
    <2> DEFINE pc == c.pc
    <2> HIDE DEF r, pc
    <2>3. /\ r = check!Fields7(r) /\ r.reachable = (s3[i].of # check!Unreachable)
          /\ r.valid = FALSE /\ r.latest = check!None /\ r.block = check!NoOffer /\ r.available = FALSE
          /\ r.needs_full = FALSE /\ r.full_available = FALSE
      BY <2>1, <2>2 DEF check!Fields7, check!Blank
    <2>4. CASE s3[i].of = check!Unreachable
      <3>1. check!Half(s3[i].of, pc) = check!Blank
        BY <1>2, <2>4, Verdicts DEF pc
      <3> QED
        BY <2>3, <2>4, <3>1 DEF check!Blank, check!Fields7, pc
    <2>5. CASE s3[i].of # check!Unreachable
      <3>1. pc = "valid"
        BY <1>2, <2>5 DEF pc
      <3> QED
        BY <2>3, <2>5, <3>1 DEF check!Half, check!Fields7, pc
    <2> QED
      BY <2>4, <2>5
  <1>5. check!Checked(i)'
    <2>1. c \in [pc : check!Steps, of : Manifests \cup {check!Unreachable}, silent : BOOLEAN]
      BY <1>2 DEF check!CheckInv, check!Checked, check!Steps
    <2> QED
      BY <1>2, <1>3, <1>4, <2>1 DEF check!Checked, check!Later
  <1> HIDE DEF c, r
  <1> QED
    BY <1>1, <1>5, OneCheck DEF check!CheckInv

LEMMA Fills == ASSUME check!CheckInv, NEW i \in 1 .. MaxChecks, check!Fill(i) PROVE check!CheckInv'
  <1>1. PICK f \in {"valid"} \cup check!Later :
              /\ s3[i].pc = f
              /\ s4' = [s4 EXCEPT ![i] = [s4[i] EXCEPT ![f] = check!Judged(s3[i].of)[f]]]
              /\ s3' = [s3 EXCEPT ![i].pc = IF f = "valid"
                 /\ ~check!Valid(s3[i].of) THEN "answer" ELSE check!After(f)]
              /\ UNCHANGED <<s1, s2, s5, s6, s7, s8>>
    BY FieldOrder DEF check!Fill
  <1> DEFINE m == s3[i].of
             pc == IF f = "valid" /\ ~check!Valid(m) THEN "answer" ELSE check!After(f)
             c == [s3[i] EXCEPT !.pc = pc]
             r == [s4[i] EXCEPT ![f] = check!Judged(m)[f]]
  <1>2. s3' = [s3 EXCEPT ![i] = c] /\ s4' = [s4 EXCEPT ![i] = r]
    BY <1>1
  <1>3. s3[i] \in [pc : check!Steps, of : Manifests \cup {check!Unreachable}, silent : BOOLEAN]
          /\ s4[i] = check!Half(m, f)
        /\ (f = "valid" => m # check!Unreachable) /\ (f \in check!Later => check!Valid(m))
    BY <1>1 DEF check!CheckInv, check!Checked
  <1>4. pc \in check!Later \cup {"answer"} /\ (pc \in check!Later => check!Valid(m))
    BY FieldOrder, <1>3 DEF check!Later
  <1>5. r = check!Half(m, pc)
    <2>1. /\ DOMAIN s4[i] = DOMAIN check!Half(m, f) /\ s4[i] = check!Half(m, f)
             /\ check!Half(m, f) = check!Fields7(check!Half(m, f))
          /\ check!Judged(m) = check!Fields7(check!Judged(m))
      BY <1>3 DEF check!Half, check!Fields7, check!Judged, check!Blank
    <2>2. r = [check!Half(m, f) EXCEPT ![f] = check!Judged(m)[f]]
      BY <1>3
    <2> HIDE DEF r, pc
    <2>3. CASE f = "valid" /\ ~check!Valid(m)
      <3>1. pc = "answer"
        BY <2>3 DEF pc
      <3>2. r = check!Fields7(r) /\ r.valid = check!Judged(m).valid /\ r.reachable = TRUE
              /\ r.latest = check!None /\ r.block = check!NoOffer
            /\ r.available = FALSE /\ r.needs_full = FALSE /\ r.full_available = FALSE
        BY <1>3, <2>2, <2>3 DEF check!Half, check!Fields7
      <3>3. check!Judged(m) = [check!Blank EXCEPT !.reachable = TRUE]
        BY <1>3, <2>3 DEF check!Judged
      <3>4. /\ check!Judged(m).reachable = TRUE /\ check!Judged(m).latest = check!None
               /\ check!Judged(m).block = check!NoOffer
            /\ check!Judged(m).available = FALSE /\ check!Judged(m).needs_full = FALSE
               /\ check!Judged(m).full_available = FALSE
        BY <3>3 DEF check!Blank
      <3> QED
        BY <2>1, <3>1, <3>2, <3>4, Verdicts DEF check!Fields7
    <2>4. CASE f = "valid" /\ check!Valid(m)
      BY <2>1, <2>2, <2>4, FieldOrder DEF check!Half, check!Fields7, pc
    <2>5. CASE f = "latest"
      BY <2>1, <2>2, <2>5, FieldOrder DEF check!Half, check!Fields7, pc
    <2>6. CASE f = "block"
      BY <2>1, <2>2, <2>6, FieldOrder DEF check!Half, check!Fields7, pc
    <2>7. CASE f = "available"
      BY <2>1, <2>2, <2>7, FieldOrder DEF check!Half, check!Fields7, pc
    <2>8. CASE f = "needs_full"
      BY <2>1, <2>2, <2>8, FieldOrder DEF check!Half, check!Fields7, pc
    <2>9. CASE f = "full_available"
      BY <2>1, <2>2, <2>9, FieldOrder DEF check!Half, check!Fields7, pc
    <2> QED
      BY <1>1, <2>3, <2>4, <2>5, <2>6, <2>7, <2>8, <2>9 DEF check!Later
  <1> HIDE DEF pc
  <1>6. c.of = m /\ c.pc = pc
          /\ c \in [pc : check!Steps, of : Manifests \cup {check!Unreachable}, silent : BOOLEAN]
    BY <1>3, <1>4 DEF check!Steps
  <1>7. s3'[i] = c /\ s4'[i] = r
    BY <1>2 DEF check!CheckInv
  <1>8. check!Checked(i)'
    BY <1>4, <1>5, <1>6, <1>7 DEF check!Checked, check!Later
  <1>9. s3[i].pc \in {"available", "needs_full", "full_available", "answer", "done"} =>
           c.pc \in {"available", "needs_full", "full_available", "answer", "done"}
    BY <1>1, <1>4, <1>6, FieldOrder DEF pc, check!Later
  <1> HIDE DEF c, r
  <1> QED
    BY <1>1, <1>2, <1>6, <1>8, <1>9, OneCheck DEF check!CheckInv

LEMMA Answers == ASSUME check!CheckInv, NEW i \in 1 .. MaxChecks, check!Answer(i) PROVE check!CheckInv'
  <1> DEFINE c == [s3[i] EXCEPT !.pc = "done"]
  <1>1. /\ s3[i].pc = "answer" /\ s3' = [s3 EXCEPT ![i] = c]
        /\ UNCHANGED <<s1, s2, s4, s5, s7>> /\ s6' = [s6 EXCEPT !.card = s4[i]]
        /\ s8' \subseteq s8 \cup {[card |-> s4[i], of |-> s3[i].of]}
    BY DEF check!Answer
  <1>2. s6' = [card |-> s6'.card, table |-> s6'.table] /\ s6'.table = s6.table
    BY <1>1 DEF check!CheckInv
  <1>3. s3[i] \in [pc : check!Steps, of : Manifests \cup {check!Unreachable}, silent : BOOLEAN]
        /\ s4[i] = check!Judged(s3[i].of)
    BY <1>1, Verdicts DEF check!CheckInv, check!Checked
  <1>4. c.of = s3[i].of /\ c.pc = "done"
          /\ c \in [pc : check!Steps, of : Manifests \cup {check!Unreachable}, silent : BOOLEAN]
    BY <1>3 DEF check!Steps
  <1>5. s3'[i] = c /\ s4'[i] = check!Half(s3[i].of, "done") /\ s4' = [s4 EXCEPT ![i] = s4[i]]
    BY <1>1, <1>3, Verdicts DEF check!CheckInv
  <1>6. check!Checked(i)'
    BY <1>4, <1>5 DEF check!Checked, check!Later
  <1>7. \A o \in s8' : o.card = check!Judged(o.of)
    BY <1>1, <1>3 DEF check!CheckInv
  <1> HIDE DEF c
  <1> QED
    BY <1>1, <1>2, <1>4, <1>5, <1>6, <1>7, OneCheck DEF check!CheckInv

\* A table's offer is of the build it names: the version is filled before the components.
LEMMA Readers == ASSUME check!CheckInv, check!Snapshot \/ check!ReadOffered \/ check!ReadBuild \/ check!Release
  PROVE check!CheckInv'
  <1>1. CASE check!Snapshot
    <2>1. s6' = [card |-> s6'.card, table |-> s6'.table] /\ s6'.table = s6.table
      BY <1>1 DEF check!CheckInv, check!Snapshot
    <2> QED
      BY <1>1, <2>1 DEF check!Snapshot, check!CheckInv, check!Checked, check!ReadWhole,
         check!ShownWhole
  <1>2. CASE check!ReadOffered
    <2>1. s7' = [from |-> s5, offered |-> IF s4[s5].valid THEN s4[s5].block ELSE check!NoOffer]
          /\ s5 \in 1 .. MaxChecks /\ UNCHANGED <<s1, s3, s4, s5, s6, s8>>
      BY <1>2 DEF check!ReadOffered, check!CheckInv
    <2>2. check!Checked(s5)
      BY <2>1 DEF check!CheckInv
    <2>3. check!ReadWhole'
      <3>1. CASE s7'.offered = check!NoOffer
        BY <3>1 DEF check!ReadWhole
      <3>2. CASE s7'.offered # check!NoOffer
        <4>1. s4[s5].valid /\ s4[s5].block # check!NoOffer /\ s7'.offered = s4[s5].block
          BY <2>1, <3>2
        <4>2. s3[s5].pc \in {"available", "needs_full", "full_available", "answer", "done"}
              /\ check!Judged(s3[s5].of).valid /\ s4[s5].block = check!Judged(s3[s5].of).block
          BY <2>2, <4>1 DEF check!Checked, check!Half, check!Steps, check!Later
        <4>3. check!Valid(s3[s5].of) /\ check!Judged(s3[s5].of).block = check!Offered(s3[s5].of)
          BY <4>2 DEF check!Judged, check!Blank
        <4> QED
          BY <2>1, <4>1, <4>2, <4>3 DEF check!ReadWhole
      <3> QED
        BY <3>1, <3>2
    <2> QED
      BY <2>1, <2>3 DEF check!CheckInv, check!Checked, check!ShownWhole
  <1>3. CASE check!ReadBuild
    <2> DEFINE r == s4[s7.from]
    <2>1. /\ s7 # check!NotReading /\ s7' = check!NotReading /\ UNCHANGED <<s1, s3, s4, s5, s8>>
          /\ s6' = [s6 EXCEPT !.table = [build |-> IF r.valid THEN r.latest ELSE check!None, offered |-> s7.offered]]
      BY <1>3 DEF check!ReadBuild
    <2> DEFINE t == [build |-> IF r.valid THEN r.latest ELSE check!None, offered |-> s7.offered]
    <2>5. t.build = (IF r.valid THEN r.latest ELSE check!None) /\ t.offered = s7.offered
      OBVIOUS
    <2>6. s6' = [s6 EXCEPT !.table = t] /\ s6 = [card |-> s6.card, table |-> s6.table]
      BY <2>1 DEF check!CheckInv
    <2> HIDE DEF t
    <2>2. s6' = [card |-> s6'.card, table |-> s6'.table]
          /\ s6'.table = t
      BY <2>6
    <2>3. check!ShownWhole'
      <3>1. SUFFICES ASSUME s7.offered # check!NoOffer
                     PROVE \E m \in Manifests : m.build = s6'.table.build
                         /\ check!Offered(m) = s6'.table.offered
        BY <2>2, <2>5 DEF check!ShownWhole
      <3> DEFINE m == s3[s7.from].of
      <3>2. /\ s7.from \in 1 .. MaxChecks /\ check!Valid(m) /\ s7.offered = check!Offered(m)
            /\ s3[s7.from].pc \in {"available", "needs_full", "full_available", "answer", "done"}
        BY <3>1 DEF check!CheckInv, check!ReadWhole
      <3>3. check!Checked(s7.from)
        BY <3>2 DEF check!CheckInv
      <3>4. r.valid = check!Judged(m).valid /\ r.latest = check!Judged(m).latest
        <4>1. r = check!Half(m, s3[s7.from].pc)
          BY <3>3 DEF check!Checked
        <4> HIDE DEF r, m
        <4> QED
          BY <4>1, <3>2 DEF check!Half
      <3>5. r.valid /\ r.latest = m.build
        BY <3>2, <3>4 DEF check!Judged
      <3>6. m \in Manifests
        BY <3>2, <3>3, Verdicts DEF check!Checked
      <3> QED
        BY <2>2, <2>5, <3>2, <3>5, <3>6
    <2>4. check!ReadWhole'
      BY <2>1 DEF check!ReadWhole, check!NotReading
    <2> QED
      BY <2>1, <2>2, <2>3, <2>4 DEF check!CheckInv, check!Checked
  <1>4. CASE check!Release
    BY <1>4 DEF check!Release, check!CheckInv, check!Checked, check!ReadWhole, check!ShownWhole
  <1> QED
    BY <1>1, <1>2, <1>3, <1>4

LEMMA CheckInit == check!Init => check!CheckInv
  <1> SUFFICES ASSUME check!Init PROVE check!CheckInv
    OBVIOUS
  <1>1. \A i \in 1 .. MaxChecks : s3[i] = check!Check("none", check!Unreachable, FALSE) /\ s4[i] = check!Blank
    BY DEF check!Init
  <1>2. \A i \in 1 .. MaxChecks : check!Checked(i)
    <2>1. check!Half(check!Unreachable, "none") = check!Blank
      BY DEF check!Half, check!Blank
    <2>2. \A i \in 1 .. MaxChecks : s3[i].pc = "none" /\ s3[i].of = check!Unreachable
            /\ s3[i] \in [pc : check!Steps, of : Manifests \cup {check!Unreachable}, silent : BOOLEAN]
      <3> DEFINE c == check!Check("none", check!Unreachable, FALSE)
      <3>1. c.pc = "none" /\ c.of = check!Unreachable
            /\ c \in [pc : check!Steps, of : Manifests \cup {check!Unreachable}, silent : BOOLEAN]
        BY DEF check!Check, check!Steps
      <3> HIDE DEF c
      <3> QED
        BY <1>1, <3>1 DEF c
    <2> QED
      BY <1>1, <2>1, <2>2 DEF check!Checked, check!Later
  <1>3. check!ReadWhole /\ check!ShownWhole
    BY DEF check!Init, check!ReadWhole, check!ShownWhole, check!NotReading, check!NoTable
  <1> QED
    BY <1>2, <1>3 DEF check!Init, check!CheckInv

LEMMA CheckStep == ASSUME check!CheckInv, check!Next \/ UNCHANGED check!vars PROVE check!CheckInv'
  <1>1. CASE UNCHANGED check!vars
    BY <1>1 DEF check!vars, check!CheckInv, check!Checked, check!ReadWhole, check!ShownWhole
  <1> QED
    BY <1>1, Fetches, Publishes, Fills, Answers, Readers DEF check!Next

LEMMA OffersHold == check!CheckInv => check!OffersAreWhole
  <1> SUFFICES ASSUME check!CheckInv PROVE check!OffersAreWhole
    OBVIOUS
  <1>1. ASSUME NEW k \in Bundled, check!RowState(k, s6.table.offered) \in {"same", "newer"}
    PROVE s6.table.offered # check!NoOffer
    BY <1>1 DEF check!RowState, check!NoOffer
  <1> QED
    BY <1>1 DEF check!CheckInv, check!ShownWhole, check!OffersAreWhole

-----------------------------------------------------------------------------
(* The parts together. *)

DesktopInv == /\ part = "placement" => placement!PlaceInv
              /\ part = "fit" => fit!FitInv
              /\ part = "tray" => tray!TrayInv
              /\ part = "socket" => socket!SocketInv
              /\ part = "runpanel" => runpanel!PanelInv
              /\ part = "settings" => settings!StoreInv
              /\ part = "pairing" => pairing!PairInv
              /\ part = "scanner" => scanner!ScanInv
              /\ part = "check" => check!CheckInv

LEMMA DesktopInit == Init => DesktopInv
  BY PlaceInit, FitInit, TrayInit, SocketInit, PanelInit, StoreInit, PairInit, ScanInit,
     CheckInit DEF Init, DesktopInv

\* A step is one part's, and leaves a behavior that part's.
LEMMA OnePart == Next => part' = part
  BY DEF Next, KeepFrom7, KeepFrom8, KeepFrom9, KeepFrom10, KeepFrom11, KeepFrom12, KeepFrom13,
     KeepFrom14, KeepFrom15, KeepFrom16, KeepFrom17

LEMMA DesktopStep == DesktopInv /\ [Next]_vars => DesktopInv'
  <1> SUFFICES ASSUME DesktopInv, Next \/ UNCHANGED vars PROVE DesktopInv'
    BY DEF vars
  <1>0. part' = part
    BY OnePart DEF vars
  <1>1. ASSUME part = "placement" PROVE placement!PlaceInv'
    <2>1. placement!PlaceInv /\ (placement!Next \/ UNCHANGED placement!vars)
      BY <1>1 DEF DesktopInv, Next, vars, placement!vars
    <2> QED
      BY <2>1, PlaceStep
  <1>2. ASSUME part = "fit" PROVE fit!FitInv'
    <2>1. fit!FitInv /\ (fit!Next \/ UNCHANGED fit!vars)
      BY <1>2 DEF DesktopInv, Next, vars, fit!vars
    <2> QED
      BY <2>1, FitStep
  <1>3. ASSUME part = "tray" PROVE tray!TrayInv'
    <2>1. tray!TrayInv /\ (tray!Next \/ UNCHANGED tray!vars)
      BY <1>3 DEF DesktopInv, Next, vars, tray!vars
    <2> QED
      BY <2>1, TrayStep
  <1>4. ASSUME part = "socket" PROVE socket!SocketInv'
    <2>1. socket!SocketInv /\ (socket!Next \/ UNCHANGED socket!vars)
      BY <1>4 DEF DesktopInv, Next, vars, socket!vars
    <2> QED
      BY <2>1, SocketStep
  <1>5. ASSUME part = "runpanel" PROVE runpanel!PanelInv'
    <2>1. runpanel!PanelInv /\ (runpanel!Next \/ UNCHANGED runpanel!vars)
      BY <1>5 DEF DesktopInv, Next, vars, runpanel!vars, runpanel!host, runpanel!browser,
         runpanel!other
    <2> QED
      BY <2>1, PanelStep
  <1>6. ASSUME part = "settings" PROVE settings!StoreInv'
    <2>1. settings!StoreInv /\ (settings!Next \/ UNCHANGED settings!vars)
      BY <1>6 DEF DesktopInv, Next, vars, settings!vars
    <2> QED
      BY <2>1, StoreStep
  <1>7. ASSUME part = "pairing" PROVE pairing!PairInv'
    <2>1. pairing!PairInv /\ (pairing!Next \/ UNCHANGED pairing!vars)
      BY <1>7 DEF DesktopInv, Next, vars, pairing!vars, pairing!store, pairing!meter
    <2> QED
      BY <2>1, PairStep
  <1>8. ASSUME part = "scanner" PROVE scanner!ScanInv'
    <2>1. scanner!ScanInv /\ (scanner!Next \/ UNCHANGED scanner!vars)
      BY <1>8 DEF DesktopInv, Next, vars, scanner!vars
    <2> QED
      BY <2>1, ScanStep
  <1>9. ASSUME part = "check" PROVE check!CheckInv'
    <2>1. check!CheckInv /\ (check!Next \/ UNCHANGED check!vars)
      BY <1>9 DEF DesktopInv, Next, vars, check!vars
    <2> QED
      BY <2>1, CheckStep
  <1> QED
    BY <1>0, <1>1, <1>2, <1>3, <1>4, <1>5, <1>6, <1>7, <1>8, <1>9 DEF DesktopInv

LEMMA DesktopHolds == DesktopInv => /\ WindowReopens /\ DesktopIsTrue /\ ChoiceSurvives
                                    /\ PairingIsMetered /\ VerdictIsEarned
  <1> SUFFICES ASSUME DesktopInv
    PROVE WindowReopens /\ DesktopIsTrue /\ ChoiceSurvives /\ PairingIsMetered /\ VerdictIsEarned
    OBVIOUS
  <1>1. WindowReopens
    BY PlaceHolds DEF DesktopInv, WindowReopens, fit!FitInv
  <1>2. DesktopIsTrue
    BY TrayIsKept, SocketHolds, PanelHolds DEF DesktopInv, DesktopIsTrue
  <1>3. ChoiceSurvives
    BY DEF DesktopInv, ChoiceSurvives, settings!StoreInv, settings!ChoiceIsHeld,
       settings!ChoiceSurvives
  <1>4. PairingIsMetered
    BY PairInvMeters DEF DesktopInv, PairingIsMetered
  <1>5. VerdictIsEarned
    BY OffersHold DEF DesktopInv, VerdictIsEarned, scanner!ScanInv
  <1> QED
    BY <1>1, <1>2, <1>3, <1>4, <1>5

\* The window comes back where and as its user left it, in reach on whatever screens
\* there are (Window's placement and window_placement's fit), for any places, any
\* work areas and any saved frame.
THEOREM WindowIsReopened == Spec => []WindowReopens
  BY DesktopInit, DesktopStep, DesktopHolds, PTL DEF Spec

\* The tray, a socket's page and a run's panel show what is so, for any jobs, frames
\* and channels, and an outbox of any size.
THEOREM DesktopStaysTrue == Spec => []DesktopIsTrue
  BY DesktopInit, DesktopStep, DesktopHolds, PTL DEF Spec

\* What the user last set is what the app runs with, whatever builds, setters and
\* values there are: with one older build beside this one, BuildsAssumption.
THEOREM ChoiceIsSafe == Spec => []ChoiceSurvives
  BY DesktopInit, DesktopStep, DesktopHolds, PTL DEF Spec

\* A code pairs one device and an address has its attempts metered, for any number
\* of processes, clients, codes and any window and limit.
THEOREM PairingStaysMetered == Spec => []PairingIsMetered
  BY DesktopInit, DesktopStep, DesktopHolds, PTL DEF Spec

\* A listing, a channel called gone and an announced update are earned, for a listing
\* and a pipe of any length and any manifests.
THEOREM VerdictsAreEarned == Spec => []VerdictIsEarned
  BY DesktopInit, DesktopStep, DesktopHolds, PTL DEF Spec
=============================================================================
