------------------------------- MODULE Window -------------------------------
(***************************************************************************)
(* Closing the desktop window, and finding it again. The X is cancelled and *)
(* the question put to the page, by a thread that falls back to the native  *)
(* dialog when the page does not say it has heard; the tray, the page's own *)
(* answer and the update's restart close it through other doors. Minimized  *)
(* it may hide in the tray, which may not be there.                         *)
(***************************************************************************)
EXTENDS Naturals

VARIABLES win,     \* "normal", "minimized", "hidden" or "gone"
          tray,    \* whether a tray icon can be raised on this machine
          icon,    \* whether it is up
          started, \* whether started() has handed a start-minimized window over
          hider,   \* on_minimized's thread: "none", "asks" or "hides"
          page,    \* "off" until its first snapshot, then "live" or "hung"
          request, \* app.close_requested is on its way to the page
          dialog,  \* the page's dialog is up
          receipt, \* app.close_seen is on its way back
          seen,    \* _seen
          asker,   \* _asker: "none", "waits" or "native", its own dialog up
          ui,      \* the UI thread: "free", "native" (on_closing's dialog) or "teardown"
          allowed, \* _allowed
          destroy, \* a destroy() waits for the UI thread
          wants,   \* the user wants out, and will say so when asked
          consent  \* history: somebody allowed a close, or could not be asked

vars == <<win, tray, icon, started, hider, page, request, dialog, receipt, seen, asker, ui,
          allowed, destroy, wants, consent>>
traying == <<tray, icon, started, hider>>
asking == <<request, dialog, receipt, seen, asker>>

\* Created hidden when the user starts it minimized.
Init == /\ win \in {"normal", "hidden"} /\ tray \in BOOLEAN /\ icon = FALSE
        /\ started = (win = "normal") /\ hider = "none" /\ page = "off"
        /\ request = FALSE /\ dialog = FALSE /\ receipt = FALSE /\ seen = FALSE
        /\ asker = "none" /\ ui = "free" /\ allowed = FALSE /\ destroy = FALSE
        /\ wants = FALSE /\ consent = FALSE

-----------------------------------------------------------------------------
(* Hiding and coming back. *)

\* start_minimized: to the tray, or shown minimized where there is none.
Started == /\ ~started /\ started' = TRUE
           /\ icon' = tray /\ win' = IF tray \/ win = "gone" THEN win ELSE "minimized"
           /\ UNCHANGED <<tray, hider, page, asking, ui, allowed, destroy, wants, consent>>

\* The minimize button; the setting decides whether the window hides.
Minimize == /\ win = "normal" /\ ui = "free" /\ win' = "minimized"
            /\ hider' \in {hider, "asks"}
            /\ UNCHANGED <<tray, icon, started, page, asking, ui, allowed, destroy, wants, consent>>

\* Mutant of Ensure: the window hides without an icon.
EnsureNothing == hider' = "hides" /\ UNCHANGED icon
\* _ensure: the icon first. No icon, no hiding.
Ensure == IF tray /\ win # "gone" THEN hider' = "hides" /\ icon' = TRUE
          ELSE hider' = "none" /\ UNCHANGED icon
Raise == /\ hider = "asks" /\ Ensure
         /\ UNCHANGED <<win, tray, started, page, asking, ui, allowed, destroy, wants, consent>>

\* Whatever was done to the window meanwhile.
Hide == /\ hider = "hides" /\ hider' = "none"
        /\ win' = IF win = "gone" THEN win ELSE "hidden"
        /\ UNCHANGED <<tray, icon, started, page, asking, ui, allowed, destroy, wants, consent>>

\* restore_window, for a second launch or the tray's Open.
Restore == /\ win \in {"minimized", "hidden"} /\ started /\ win' = "normal"
           /\ UNCHANGED <<traying, page, asking, ui, allowed, destroy, wants, consent>>

-----------------------------------------------------------------------------
(* The closing event, on the UI thread. *)

\* _ask_page: a question in flight is not asked twice.
AskPage == IF asker # "none" THEN UNCHANGED asking
           ELSE /\ seen' = FALSE /\ asker' = "waits" /\ request' = TRUE
                /\ UNCHANGED <<dialog, receipt>>

Closing == IF allowed THEN ui' = "teardown" /\ UNCHANGED asking
           ELSE IF page = "off" THEN ui' = "native" /\ UNCHANGED asking
           ELSE AskPage /\ UNCHANGED ui

PressX == /\ win \in {"normal", "minimized"} /\ ui = "free" /\ Closing
          /\ UNCHANGED <<win, traying, page, allowed, destroy, wants, consent>>

\* The tray's Quit: the window is shown, then destroyed like any other close.
TrayQuit == /\ icon /\ win # "gone" /\ win' = "normal" /\ destroy' = TRUE
            /\ UNCHANGED <<traying, page, asking, ui, allowed, wants, consent>>

Destroy == /\ destroy /\ destroy' = FALSE /\ win # "gone"
           /\ ui = "free" \/ (ui = "native" /\ allowed)
           /\ Closing
           /\ UNCHANGED <<win, traying, page, allowed, wants, consent>>

\* force_close: the page's Close, the asker's Yes, the update's restart.
ForceClose == allowed' = TRUE /\ destroy' = TRUE /\ consent' = TRUE

\* The native dialog in on_closing. One that cannot be shown answers Yes.
NativeYes == /\ ui = "native" /\ ui' = "teardown" /\ consent' = TRUE
             /\ UNCHANGED <<win, traying, page, asking, allowed, destroy, wants>>
NativeNo == /\ ui = "native" /\ ~wants /\ ui' = "free"
            /\ UNCHANGED <<win, traying, page, asking, allowed, destroy, wants, consent>>

\* _teardown: the steps, the tray's last, and the window goes.
Teardown == /\ ui = "teardown" /\ ui' = "free" /\ win' = "gone" /\ icon' = FALSE
            /\ UNCHANGED <<tray, started, hider, page, asking, allowed, destroy, wants, consent>>

-----------------------------------------------------------------------------
(* The asker's thread and the page. *)

AskerHeard == /\ asker = "waits" /\ seen /\ asker' = "none"
              /\ UNCHANGED <<win, traying, page, request, dialog, receipt, seen, ui, allowed, destroy,
                             wants, consent>>

\* Mutant of NotHeard: no receipt is ever overdue.
WaitsForEver == FALSE
\* CLOSE_ACK_TIMEOUT is over.
NotHeard == asker = "waits" /\ ~seen
AskerAsks == /\ NotHeard /\ asker' = "native"
             /\ UNCHANGED <<win, traying, page, request, dialog, receipt, seen, ui, allowed, destroy,
                            wants, consent>>

AskerYes == /\ asker = "native" /\ asker' = "none" /\ ForceClose
            /\ UNCHANGED <<win, traying, page, request, dialog, receipt, seen, ui, wants>>
AskerNo == /\ asker = "native" /\ ~wants /\ asker' = "none"
           /\ UNCHANGED <<win, traying, page, request, dialog, receipt, seen, ui, allowed, destroy,
                          wants, consent>>

Boot == /\ page = "off" /\ page' = "live"
        /\ UNCHANGED <<win, traying, asking, ui, allowed, destroy, wants, consent>>
Hang == /\ page = "live" /\ page' = "hung"
        /\ UNCHANGED <<win, traying, asking, ui, allowed, destroy, wants, consent>>
Recover == /\ page = "hung" /\ page' = "live"
           /\ UNCHANGED <<win, traying, asking, ui, allowed, destroy, wants, consent>>

\* showCloseConfirm: the dialog, or the one that is up; then the receipt.
ShowDialog == /\ page = "live" /\ request /\ request' = FALSE /\ dialog' = TRUE /\ receipt' = TRUE
              /\ UNCHANGED <<win, traying, page, seen, asker, ui, allowed, destroy, wants, consent>>
CloseSeen == /\ receipt /\ receipt' = FALSE /\ seen' = TRUE
             /\ UNCHANGED <<win, traying, page, request, dialog, asker, ui, allowed, destroy, wants, consent>>
PageStay == /\ page = "live" /\ dialog /\ ~wants /\ dialog' = FALSE
            /\ UNCHANGED <<win, traying, page, request, receipt, seen, asker, ui, allowed, destroy,
                           wants, consent>>
PageClose == /\ page = "live" /\ dialog /\ dialog' = FALSE /\ ForceClose
             /\ UNCHANGED <<win, traying, page, request, receipt, seen, asker, ui, wants>>

\* The update has been handed to the updater.
UpdateRestart == /\ ~allowed /\ ForceClose
                 /\ UNCHANGED <<win, traying, page, asking, ui, wants>>

WantsOut == /\ ~wants /\ wants' = TRUE
            /\ UNCHANGED <<win, traying, page, asking, ui, allowed, destroy, consent>>

Threads == \/ Started \/ Raise \/ Hide \/ Destroy \/ Teardown \/ AskerHeard \/ AskerAsks
           \/ ShowDialog \/ CloseSeen
User == \/ Minimize \/ Restore \/ NativeNo \/ AskerNo \/ PageStay \/ WantsOut
Next == win # "gone" /\ (\/ Threads \/ User \/ PressX \/ TrayQuit \/ NativeYes \/ AskerYes \/ PageClose
                         \/ Boot \/ Hang \/ Recover \/ UpdateRestart)
Spec == Init /\ [][Next]_vars

\* Threads go on. A user who wants out tries the ways there are, again and again,
\* and says yes where a dialog lets him; the page need never boot or recover.
FairSpec == /\ Spec /\ WF_vars(Started) /\ WF_vars(Raise) /\ WF_vars(Hide) /\ SF_vars(Destroy)
            /\ WF_vars(Teardown) /\ WF_vars(AskerHeard) /\ WF_vars(AskerAsks)
            /\ SF_vars(ShowDialog) /\ WF_vars(CloseSeen)
            /\ SF_vars(wants /\ PressX) /\ SF_vars(wants /\ TrayQuit)
            /\ SF_vars(wants /\ NativeYes) /\ SF_vars(wants /\ AskerYes) /\ SF_vars(wants /\ PageClose)

-----------------------------------------------------------------------------
(* Properties *)

\* A user who wants out gets out: however the page hangs, recovers or never boots,
\* a late receipt lands or the window hides, there is always a way to the question.
Leaving == wants
IsOut == win = "gone"
WayOut == Leaving ~> IsOut

\* Nothing is torn down before somebody said yes, or could not be asked.
NothingBeforeYes == ui = "teardown" => consent
=============================================================================
