------------------------------ MODULE Placement ------------------------------
(***************************************************************************)
(* The window's place between sessions. Every event of the window runs on a *)
(* thread of its own, in any order; a frame is held until the window has    *)
(* been quiet for a moment, or a flush judges it at once, by the state the  *)
(* window has told of. A flush writes outside the lock.                     *)
(***************************************************************************)
EXTENDS Integers, FiniteSets

CONSTANTS Places,   \* frames the user gives the window
          MaxEvents \* bound: things done to the window

Full == "full"     \* the frame of a maximized window
Parked == "parked" \* where Windows parks a minimized one
Frames == Places \union {Full, Parked}

VARIABLES real,    \* [state, frame]: the window itself
          events,  \* its events whose handlers have not run: <<kind, frame>>
          state,   \* _state
          held,    \* _pending, "none" when nothing is held
          frame,   \* _pos and _size
          maxed,   \* _maximized
          dirty,   \* _dirty
          tick,    \* the flush timer's thread: [pc, frame, maxed]
          close,   \* stop()'s, on the UI thread
          stopped, \* _stopped
          stored,  \* the config's [frame, maxed]
          early,   \* history: a flush judged a frame while the window's state was on its way
          missed,  \* history: a change was on its way during a write or the stop, or a write failed
          done     \* (bounded)

vars == <<real, events, state, held, frame, maxed, dirty, tick, close, stopped, stored, early, missed, done>>

None == "none"
Rest == [pc |-> "none", frame |-> None, maxed |-> FALSE]
Writing == tick.pc = "write" \/ close.pc = "write"

\* start(): seeded from the live window.
Init == /\ \E p \in Places :
             /\ real = [state |-> "normal", frame |-> p, back |-> p] /\ frame = p
             /\ stored = [frame |-> p, maxed |-> FALSE]
        /\ events = {} /\ state = "normal" /\ held = None /\ maxed = FALSE /\ dirty = FALSE
        /\ tick = Rest /\ close = Rest /\ stopped = FALSE
        /\ early = FALSE /\ missed = FALSE /\ done = 0

-----------------------------------------------------------------------------
(* The user and the window. back is the frame it returns to when restored.  *)
(* A gesture comes when the one before has settled; its own two events run   *)
(* in either order, with a flush, the timer or the stop anywhere between.   *)

Act == events = {} /\ held = None /\ done < MaxEvents /\ done' = done + 1 /\ close.pc = "none"
Raised(es) == events' = events \union es
Book == UNCHANGED <<state, held, frame, maxed, dirty, tick, close, stopped, stored, early, missed>>

Drag == /\ Act /\ real.state = "normal"
        /\ \E p \in Places \ {real.frame} : real' = [real EXCEPT !.frame = p, !.back = p] /\ Raised({<<"moved", p>>})
        /\ Book
Maximize == /\ Act /\ real.state = "normal" /\ real' = [real EXCEPT !.state = "maximized", !.frame = Full]
            /\ Raised({<<"moved", Full>>, <<"maximized", Full>>})
            /\ Book
Minimize == /\ Act /\ real.state # "minimized" /\ real' = [real EXCEPT !.state = "minimized", !.frame = Parked]
            /\ Raised({<<"moved", Parked>>, <<"minimized", Parked>>})
            /\ Book
\* A minimized window goes back to maximized or to normal.
Restore == /\ Act /\ real.state # "normal"
           /\ \/ /\ real' = [real EXCEPT !.state = "normal", !.frame = real.back]
                 /\ Raised({<<"moved", real.back>>, <<"restored", real.back>>})
              \/ /\ real.state = "minimized" /\ maxed
                 /\ real' = [real EXCEPT !.state = "maximized", !.frame = Full]
                 /\ Raised({<<"moved", Full>>, <<"maximized", Full>>})
           /\ Book

-----------------------------------------------------------------------------
(* The handlers. *)

OnMoved == \E e \in events :
    /\ e[1] = "moved" /\ events' = events \ {e}
    /\ held' = IF stopped THEN held ELSE e[2]
    /\ UNCHANGED <<real, state, frame, maxed, dirty, tick, close, stopped, stored, early, missed, done>>

OnState == \E e \in events :
    /\ e[1] \in {"maximized", "minimized", "restored"} /\ events' = events \ {e}
    /\ state' = IF e[1] = "restored" THEN "normal" ELSE e[1]
    /\ maxed' = CASE e[1] = "maximized" -> TRUE [] e[1] = "restored" -> FALSE [] OTHER -> maxed
    /\ dirty' = (dirty \/ maxed' # maxed)
    /\ missed' = (missed \/ (Writing /\ maxed' # maxed))
    /\ UNCHANGED <<real, held, frame, tick, close, stopped, stored, early, done>>

\* Mutant of Placeable: every frame is.
PlaceableAny(f) == TRUE
\* _placeable: no window of the user's is as small, or on no screen.
Placeable(f) == f # Parked

\* _settle: what is held is judged by the state now, and forgotten.
Settle == /\ held' = None
          /\ IF held = None \/ stopped \/ state # "normal" \/ ~Placeable(held)
             THEN UNCHANGED <<frame, dirty>>
             ELSE frame' = held /\ dirty' = (dirty \/ frame # held)

\* The settle timer: the window has been quiet for longer than handlers take.
SettleTimer == /\ held # None /\ events = {} /\ Settle
               /\ missed' = (missed \/ (Writing /\ frame' # frame))
               /\ UNCHANGED <<real, events, state, maxed, tick, close, stopped, stored, early, done>>

\* A flush's own settle, and its look at _dirty in the next hold of the lock.
Judge(next) == /\ Settle
               /\ early' = (early \/ (held # None /\ \E e \in events : e[1] = "maximized"))
               /\ next = IF dirty' THEN [pc |-> "write", frame |-> frame', maxed |-> maxed] ELSE Rest
               /\ missed' = (missed \/ (Writing /\ frame' # frame))

TickFlush == /\ tick.pc = "none" /\ ~stopped /\ Judge(tick')
             /\ UNCHANGED <<real, events, state, maxed, close, stopped, stored, done>>

Write(w) == \/ stored' = [frame |-> w.frame, maxed |-> w.maxed] /\ dirty' = FALSE /\ UNCHANGED missed
            \/ missed' = TRUE /\ UNCHANGED <<stored, dirty>>

TickWrites == /\ tick.pc = "write" /\ Write(tick) /\ tick' = Rest
              /\ UNCHANGED <<real, events, state, held, frame, maxed, close, stopped, early, done>>

\* Mutant of Stop: what is held is not settled.
StopUnsettled == /\ close.pc = "none" /\ stopped' = TRUE /\ missed' = (missed \/ Writing \/ events # {})
                 /\ close' = IF dirty THEN [pc |-> "write", frame |-> frame, maxed |-> maxed]
                             ELSE [Rest EXCEPT !.pc = "closed"]
                 /\ UNCHANGED <<real, events, state, held, frame, maxed, dirty, tick, stored, early, done>>
\* stop(): settles, stands down, and flushes once more.
Stop == /\ close.pc = "none" /\ stopped' = TRUE
        /\ Settle /\ early' = (early \/ (held # None /\ \E e \in events : e[1] = "maximized"))
        /\ missed' = (missed \/ Writing \/ events # {})
        /\ close' = IF dirty' THEN [pc |-> "write", frame |-> frame', maxed |-> maxed]
                    ELSE [Rest EXCEPT !.pc = "closed"]
        /\ UNCHANGED <<real, events, state, maxed, tick, stored, done>>

StopWrites == /\ close.pc = "write" /\ Write(close) /\ close' = [Rest EXCEPT !.pc = "closed"]
              /\ UNCHANGED <<real, events, state, held, frame, maxed, tick, stopped, early, done>>

Next == \/ Drag \/ Maximize \/ Minimize \/ Restore \/ OnMoved \/ OnState \/ SettleTimer
        \/ TickFlush \/ TickWrites \/ Stop \/ StopWrites
Spec == Init /\ [][Next]_vars

-----------------------------------------------------------------------------
(* Properties *)

\* What the config holds is a frame the user gave the window, never the one a
\* minimized window is parked in; the frame of a maximized one only if a flush
\* fell in the instant between its frame and its state.
StoredIsChosen == /\ stored.frame # Parked
                  /\ ~early => stored.frame \in Places

\* A window closed at rest reopens where it was: its frame while it was normal,
\* and whether it is maximized - unless a write failed, or a change was on its way.
ReopensThere == (close.pc = "closed" /\ ~early /\ ~missed) =>
                   stored = [frame |-> real.back, maxed |-> maxed]

-----------------------------------------------------------------------------
(* The inductive invariant that the property follows from. *)

States == {"normal", "maximized", "minimized"}
TypeOK == /\ real \in [state : States, frame : Frames, back : Places]
          /\ state \in States /\ held \in Frames \cup {None} /\ frame \in Frames
          /\ maxed \in BOOLEAN /\ dirty \in BOOLEAN /\ stopped \in BOOLEAN
          /\ early \in BOOLEAN /\ missed \in BOOLEAN
          /\ tick \in [pc : {"none", "write"}, frame : Frames \cup {None}, maxed : BOOLEAN]
          /\ close \in [pc : {"none", "write", "closed"}, frame : Frames \cup {None}, maxed : BOOLEAN]
          /\ stored \in [frame : Frames, maxed : BOOLEAN]
\* The window itself, and the events of its last gesture.
Kind == IF real.state = "normal" THEN "restored" ELSE real.state
Told == <<Kind, real.frame>>
Moved == <<"moved", real.frame>>
WindowIs == /\ real.frame = IF real.state = "normal" THEN real.back
                            ELSE IF real.state = "maximized" THEN Full ELSE Parked
            /\ events \subseteq {Moved, Told}
            /\ Told \notin events => /\ state = real.state
                                     /\ real.state = "normal" => ~maxed
                                     /\ real.state = "maximized" => maxed
            /\ held \in {None, real.frame}
            /\ stopped <=> close.pc # "none"
\* A frame that is kept is the user's.
Chosen(f) == f \in Frames \ {Parked} /\ (~early => f \in Places)
FramesAreChosen == /\ Chosen(frame) /\ Chosen(stored.frame)
                   /\ tick.pc = "write" => Chosen(tick.frame)
                   /\ close.pc = "write" => Chosen(close.frame)
\* Only a drag's frame is still to come.
Dragged == state = "normal" /\ real.state = "normal" /\ (Moved \in events \/ held = real.back)
BackIsKept == ~early => IF stopped THEN ~missed => events = {} /\ frame = real.back
                                   ELSE frame = real.back \/ Dragged
\* What is not written yet is dirty.
ChangesAreWritten == ~missed => /\ ~dirty => stored = [frame |-> frame, maxed |-> maxed]
                                /\ tick.pc = "write" => tick.frame = frame /\ tick.maxed = maxed /\ ~stopped
                                /\ close.pc = "write" => close.frame = frame /\ close.maxed = maxed
                                /\ close.pc = "closed" => ~dirty
                                /\ stopped => events = {}
PlaceInv == TypeOK /\ WindowIs /\ FramesAreChosen /\ BackIsKept /\ ChangesAreWritten
=============================================================================
