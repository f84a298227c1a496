------------------------------ MODULE WindowFit ------------------------------
(***************************************************************************)
(* Where a remembered window opens, on the monitors attached right now. The *)
(* desktop changes between sessions (a laptop undocked, a monitor arranged  *)
(* to the left of the primary one), so a remembered frame is fitted, never  *)
(* obeyed: fit_window_geometry over the work areas screen_rects lists.      *)
(***************************************************************************)
EXTENDS Integers, Sequences

CONSTANTS Desktops, \* arrangements of monitors, each a sequence of [at, area] in the platform's order
          Least,    \* MIN_SIZE, a <<width, height>>
          Spots,    \* frames the user may give the window
          MaxRuns   \* bound: launches

None == [x |-> 0, y |-> 0, w |-> 0, h |-> 0] \* no frame: the platform centres the default size

VARIABLES desktop, \* the monitors now
          saved,   \* the remembered [frame, maxed]
          running, \* the app is up
          opened,  \* the frame this session's window was opened with
          maxed,   \* it is maximized
          runs     \* launches so far (bounded)

vars == <<desktop, saved, running, opened, maxed, runs>>

Smaller(a, b) == IF a < b THEN a ELSE b
Larger(a, b) == IF a < b THEN b ELSE a

Area(s) == s.area
Primary(s) == s.at = <<0, 0>>
\* screen_rects: a list, as the set of its areas each with its place in it. The
\* monitor whose bounds start at the origin comes first; one without an area is
\* left out.
ScreenRects(d) ==
    {[area |-> Area(d[i]), nth |-> IF Primary(d[i]) THEN i ELSE Len(d) + i] :
        i \in {k \in DOMAIN d : d[k].area.w > 0 /\ d[k].area.h > 0}}

Overlap(a, b) ==
    LET wide == Smaller(a.x + a.w, b.x + b.w) - Larger(a.x, b.x)
        tall == Smaller(a.y + a.h, b.y + b.h) - Larger(a.y, b.y)
    IN IF wide > 0 /\ tall > 0 THEN wide * tall ELSE 0
OnScreen(r, screens) == \E s \in screens : Overlap(r, s.area) > 0

FirstOf(screens) == CHOOSE s \in screens : \A t \in screens : s.nth <= t.nth
\* The screen it overlaps most, the first of equals.
MostOverlapped(r, screens) ==
    FirstOf({s \in screens : \A t \in screens : Overlap(r, t.area) <= Overlap(r, s.area)})

Clamped(r, s) == [w |-> Larger(Least[1], Smaller(r.w, s.w)), h |-> Larger(Least[2], Smaller(r.h, s.h))]
Centred(r, s) == LET c == Clamped(r, s)
                 IN [x |-> s.x + (s.w - c.w) \div 2, y |-> s.y + (s.h - c.h) \div 2, w |-> c.w, h |-> c.h]
\* Mutant of Nudged: from the left and top edges only.
NudgedLeftOnly(r, s) == LET c == Clamped(r, s)
                        IN [x |-> Larger(r.x, s.x), y |-> Larger(r.y, s.y), w |-> c.w, h |-> c.h]
Nudged(r, s) == LET c == Clamped(r, s)
                IN [x |-> Smaller(Larger(r.x, s.x), s.x + s.w - c.w),
                    y |-> Smaller(Larger(r.y, s.y), s.y + s.h - c.h), w |-> c.w, h |-> c.h]

\* fit_window_geometry, and window_placement_kwargs around it.
Fit(r, screens) == IF r = None \/ screens = {} THEN None
                   ELSE IF OnScreen(r, screens) THEN Nudged(r, MostOverlapped(r, screens).area)
                   ELSE Centred(r, FirstOf(screens).area)

-----------------------------------------------------------------------------
Init == /\ desktop \in Desktops /\ saved = [frame |-> None, maxed |-> FALSE]
        /\ running = FALSE /\ opened = None /\ maxed = FALSE /\ runs = 0

Launch == /\ ~running /\ running' = TRUE /\ runs < MaxRuns /\ runs' = runs + 1
          /\ opened' = Fit(saved.frame, ScreenRects(desktop))
          /\ maxed' = saved.maxed
          /\ UNCHANGED <<desktop, saved>>

\* The user moves or sizes it: pywebview keeps it at its minimum size, and its
\* title bar within reach. What is on no screen is not remembered (_placeable).
Move == /\ running /\ ~maxed
        /\ \E f \in Spots : /\ f.w >= Least[1] /\ f.h >= Least[2] /\ OnScreen(f, ScreenRects(desktop))
                            /\ saved' = [saved EXCEPT !.frame = f]
        /\ UNCHANGED <<desktop, running, opened, maxed, runs>>

Maximize == /\ running /\ maxed' = ~maxed /\ saved' = [saved EXCEPT !.maxed = ~maxed]
            /\ UNCHANGED <<desktop, running, opened, runs>>

Close == /\ running /\ running' = FALSE /\ opened' = None /\ maxed' = FALSE
         /\ UNCHANGED <<desktop, saved, runs>>

\* A monitor comes, goes or is rearranged while the app is closed.
Rearrange == /\ ~running /\ desktop' \in Desktops \ {desktop}
             /\ UNCHANGED <<saved, running, opened, maxed, runs>>

Next == Launch \/ Move \/ Maximize \/ Close \/ Rearrange
Spec == Init /\ [][Next]_vars

-----------------------------------------------------------------------------
(* Properties *)

Within(r, s) == s.x <= r.x /\ s.y <= r.y /\ r.x + r.w <= s.x + s.w /\ r.y + r.h <= s.y + s.h
Roomy(s) == s.w >= Least[1] /\ s.h >= Least[2]

\* However the monitors were rearranged, a window opens wholly inside one of
\* those there are, or where the platform centres it - unless a monitor is
\* smaller than the window may be: it is then put across that one's edge.
OpensInReach ==
    LET screens == ScreenRects(desktop)
    IN (opened # None /\ \A s \in screens : Roomy(s.area)) => \E s \in screens : Within(opened, s.area)

-----------------------------------------------------------------------------
(* The inductive invariant that the property follows from. *)

Frames == [x : Int, y : Int, w : Int, h : Int]
FitInv == /\ desktop \in Desktops
          /\ saved.frame \in Frames /\ saved = [frame |-> saved.frame, maxed |-> saved.maxed]
          /\ running \/ opened = None
          /\ OpensInReach
=============================================================================
