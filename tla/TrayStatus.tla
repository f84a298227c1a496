------------------------------ MODULE TrayStatus ------------------------------
(***************************************************************************)
(* What the tray icon says: the number in its menu (seeded by the first     *)
(* read, kept by state.patch events), and a tooltip put together from       *)
(* progress events on a chain of timers. The bus runs the handlers on the   *)
(* thread that emits, the menu reads on pystray's, stop() on the UI's.      *)
(***************************************************************************)
EXTENDS Integers, FiniteSets, Sequences

CONSTANTS Jobs,       \* jobs that may run at the same time
          MaxChanges, \* bound: changes of the pending count
          MaxTicks,   \* bound: icons raised and tooltip refreshes
          MaxTrouble  \* bound: reads and icons that fail

None == 0
NotRead == -1 \* _pending_new before the first read

VARIABLES due,      \* the pending-new total in the database
          patch,    \* a _patch_counts under way: [pc, read]
          label,    \* _pending_new
          menu,     \* a first read of the label under way: [pc, read]
          running,  \* jobs under way
          late,     \* progress frames of ended jobs still held by a timer thread
          current,  \* _current: the job of the last progress frame, None
          icon,     \* _icon: "none", "up", "stopped" (with _stopped)
          ticks,    \* refreshes under way or armed: each "tick" or "armed"
          timer,    \* _timer: the armed refresh, None
          title,    \* the tooltip's job as last set
          crossed,  \* history: an event overtook the first read of the label, or was lost
          strays,   \* history: a held frame arrived after its job.finished
          changes, trouble, made \* (bounded)

vars == <<due, patch, label, menu, running, late, current, icon, ticks, timer, title, crossed, strays, changes, trouble, made>>

Rest == [pc |-> "idle", read |-> 0]
Init == /\ due = 0 /\ patch = Rest /\ label = NotRead /\ menu = Rest
        /\ running = {} /\ late = {} /\ current = None
        /\ icon = "none" /\ ticks = << >> /\ timer = None /\ title = None
        /\ crossed = FALSE /\ strays = FALSE /\ changes = 0 /\ trouble = 0 /\ made = 0

Counting == <<due, patch, label, menu, crossed, changes>>
Showing == <<running, late, current, strays>>
Ticking == <<icon, ticks, timer, title, made>>
Stops == icon = "stopped"

-----------------------------------------------------------------------------
(* The menu's number. *)

\* A scan, a download or an edit writes the row, then reads the counts and
\* emits them; a read that fails emits nothing.
Change == /\ patch.pc = "idle" /\ changes < MaxChanges /\ changes' = changes + 1
          /\ due' = changes + 1 /\ patch' = [pc |-> "read", read |-> 0]
          /\ UNCHANGED <<label, menu, crossed, trouble, Showing, Ticking>>
PatchReads == /\ patch.pc = "read"
              /\ \/ patch' = [pc |-> "emit", read |-> due] /\ UNCHANGED <<crossed, trouble>>
                 \/ patch' = Rest /\ crossed' = TRUE /\ trouble < MaxTrouble /\ trouble' = trouble + 1
              /\ UNCHANGED <<due, label, menu, changes, Showing, Ticking>>
OnPatch == /\ patch.pc = "emit" /\ patch' = Rest
           /\ label' = IF Stops THEN label ELSE patch.read
           /\ crossed' = (crossed \/ menu.pc = "set")
           /\ UNCHANGED <<due, menu, changes, trouble, Showing, Ticking>>

\* download_label: the first look at the menu reads the counts itself.
Unread == label = NotRead
OpenMenu == /\ icon = "up" /\ menu.pc = "idle" /\ Unread /\ menu' = [pc |-> "read", read |-> 0]
            /\ UNCHANGED <<due, patch, label, crossed, changes, trouble, Showing, Ticking>>
MenuReads == /\ menu.pc = "read"
             /\ \/ menu' = [pc |-> "set", read |-> due] /\ UNCHANGED <<crossed, trouble>>
                \/ menu' = [pc |-> "set", read |-> 0] /\ crossed' = TRUE \* one that fails reads as 0
                   /\ trouble < MaxTrouble /\ trouble' = trouble + 1
             /\ UNCHANGED <<due, patch, label, changes, Showing, Ticking>>
MenuSets == /\ menu.pc = "set" /\ menu' = Rest /\ label' = menu.read
            /\ UNCHANGED <<due, patch, crossed, changes, trouble, Showing, Ticking>>

-----------------------------------------------------------------------------
(* The tooltip. *)

Start(j) == /\ j \notin running /\ running' = running \union {j}
            /\ UNCHANGED <<late, current, strays, trouble, Counting, Ticking>>
OnProgress(j) == /\ j \in running /\ current' = IF Stops THEN current ELSE j
                 /\ UNCHANGED <<running, late, strays, trouble, Counting, Ticking>>

\* Mutant of Cleared: the line stays.
ClearedNever(j) == current
\* A job flushes its frames and emits job.finished; a timer thread may hold one.
Cleared(j) == IF current = j THEN None ELSE current
OnFinished(j) == /\ j \in running /\ running' = running \ {j}
                 /\ current' = IF Stops THEN current ELSE Cleared(j)
                 /\ late' \in {late, late \union {j}}
                 /\ UNCHANGED <<strays, trouble, Counting, Ticking>>
OnLate(j) == /\ j \in late /\ late' = late \ {j} /\ current' = IF Stops THEN current ELSE j
             /\ strays' = TRUE
             /\ UNCHANGED <<running, trouble, Counting, Ticking>>

\* _ensure: one icon, and its first refresh.
Ensure == /\ icon = "none" /\ made < MaxTicks
          /\ \/ icon' = "up" /\ ticks' = <<"tick">> /\ made' = made + 1 /\ UNCHANGED trouble
             \/ trouble < MaxTrouble /\ trouble' = trouble + 1 /\ UNCHANGED <<icon, ticks, made>>
          /\ UNCHANGED <<timer, title, Counting, Showing>>

\* _tick: the tooltip is set, then the next refresh armed unless stopped.
Sets(i) == /\ ticks[i] = "tick"
           /\ IF icon = "up" THEN title' = current /\ ticks' = [ticks EXCEPT ![i] = "arm"]
              ELSE ticks' = [ticks EXCEPT ![i] = "over"] /\ UNCHANGED title
           /\ UNCHANGED <<icon, timer, made, trouble, Counting, Showing>>
Arms(i) == /\ ticks[i] = "arm"
           /\ IF Stops THEN ticks' = [ticks EXCEPT ![i] = "over"] /\ UNCHANGED <<timer, made>>
              ELSE /\ made < MaxTicks /\ made' = made + 1
                   /\ ticks' = Append([ticks EXCEPT ![i] = "over"], "armed")
                   /\ timer' = Len(ticks) + 1
           /\ UNCHANGED <<icon, title, trouble, Counting, Showing>>
Fires(i) == /\ ticks[i] = "armed" /\ ticks' = [ticks EXCEPT ![i] = "tick"]
            /\ UNCHANGED <<icon, timer, title, made, trouble, Counting, Showing>>

\* stop(): the icon, the timer and the subscription go in one hold of the lock.
Stop == /\ ~Stops /\ icon' = "stopped" /\ timer' = None
        /\ ticks' = [i \in DOMAIN ticks |-> IF i = timer /\ ticks[i] = "armed" THEN "over" ELSE ticks[i]]
        /\ UNCHANGED <<title, made, trouble, Counting, Showing>>

\* The menu's Scan Now and Download All New start a job, or are refused and
\* the refusal logged: a Start of theirs is a Start.
Next == \/ Change \/ PatchReads \/ OnPatch \/ OpenMenu \/ MenuReads \/ MenuSets
        \/ \E j \in Jobs : Start(j) \/ OnProgress(j) \/ OnFinished(j) \/ OnLate(j)
        \/ Ensure \/ (\E i \in DOMAIN ticks : Sets(i) \/ Arms(i) \/ Fires(i)) \/ Stop
Spec == Init /\ [][Next]_vars

-----------------------------------------------------------------------------
(* Properties *)

LabelIsTrue == (patch.pc = "idle" /\ menu.pc = "idle" /\ ~Stops /\ label # NotRead /\ ~crossed) => label = due
IdleSaysIdle == (~Stops /\ ~strays) => current \in running \union {None}
OneChain == /\ Cardinality({i \in DOMAIN ticks : ticks[i] # "over"}) <= 1
            /\ icon = "up" => \E i \in DOMAIN ticks : ticks[i] # "over"
            /\ Stops => \A i \in DOMAIN ticks : ticks[i] # "armed"

\* What the tray says is so: the number in its menu is the database's once no
\* count is on its way (unless an event overtook the label's first read, or a
\* read failed), its tooltip names no job that has ended (unless a held frame
\* came after the end), and while the icon is up exactly one chain refreshes it.
TrayIsTrue == LabelIsTrue /\ IdleSaysIdle /\ OneChain
\* download_label: "An event that arrives first wins".
EventWins == (patch.pc = "idle" /\ menu.pc = "idle" /\ label # NotRead /\ trouble = 0 /\ ~Stops) => label = due

-----------------------------------------------------------------------------
(* The inductive invariant that the property follows from. *)

Stages == {"tick", "arm", "armed", "over"}
TypeOK == /\ icon \in {"none", "up", "stopped"}
          /\ ticks \in Seq(Stages)
\* A count on its way is the database's; the label's first read is, unless an event overtook it.
Counted == /\ patch.pc = "emit" => patch.read = due
           /\ (patch.pc = "idle" /\ ~crossed) =>
                 /\ menu.pc = "set" => menu.read = due
                 /\ (~Stops /\ label # NotRead) => label = due
\* One refresh is under way or armed, and the timer is the armed one.
Chained == /\ \A i, k \in DOMAIN ticks : (ticks[i] # "over" /\ ticks[k] # "over") => i = k
           /\ icon = "none" => ticks = << >>
           /\ icon = "up" => \E i \in DOMAIN ticks : ticks[i] # "over"
           /\ \A i \in DOMAIN ticks : ticks[i] = "armed" => timer = i /\ ~Stops
TrayInv == TypeOK /\ Counted /\ IdleSaysIdle /\ Chained
=============================================================================
