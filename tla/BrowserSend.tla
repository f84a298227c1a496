----------------------------- MODULE BrowserSend -----------------------------
(***************************************************************************)
(* Links sent from the browser. Each click starts a launch: the first binds *)
(* the port and is the app, the rest hand their link to it and end. The app *)
(* has one listener thread and may bring a link of its own; until the page  *)
(* has asked for its first snapshot a link is parked, and of the parked one *)
(* goes to the page and the others to the Browser Inbox.                    *)
(***************************************************************************)
EXTENDS Naturals, Sequences, SequencesExt

CONSTANTS Sends,     \* clicks in the browser
          Url,       \* [Sends -> links]: the same link may be clicked twice
          Overtake,  \* whether a job's start may make the page ask twice at once
          MaxTrouble \* bound: writes the database refuses

VARIABLES clicked,  \* sends made so far
          wire,     \* accepted connections the listener has not read
          hand,     \* [Threads -> [pc, send]]: browser_receive's callers
          quiet,    \* browser_receive_mode
          ready,    \* _local_page_ready
          parked,   \* _browser_pending
          calls,    \* [Calls -> [pc, pending, over]]: state.snapshot in flight
          boot,     \* the page: "loading", "asks", "up"
          inbox,    \* links of browser_inbox
          taking,   \* the link of a browser_inbox_take between its read and its delete
          opened,   \* links the page has opened
          removed,  \* links the user removed from the inbox
          told,     \* links a notification says could not be queued
          trouble   \* (bounded)

vars == <<clicked, wire, hand, quiet, ready, parked, calls, boot, inbox, taking, opened, removed, told, trouble>>

Threads == {"listener", "main"}
Calls == {"boot", "job"}
Idle == [pc |-> "idle", send |-> {}]
NoCall == [pc |-> "none", pending |-> <<>>, over |-> <<>>]
Links(s) == {Url[x] : x \in s}

\* The winner of the bind may be a launch that brought a link itself.
Init == /\ \E own \in {{}} \union {{s} : s \in Sends} :
             /\ clicked = own
             /\ hand = [t \in Threads |-> IF t = "main" /\ own # {} THEN [pc |-> "parse", send |-> own] ELSE Idle]
        /\ wire = <<>> /\ quiet \in BOOLEAN /\ ready = FALSE /\ parked = <<>>
        /\ calls = [c \in Calls |-> NoCall] /\ boot = "loading"
        /\ inbox = {} /\ taking = {} /\ opened = {} /\ removed = {} /\ told = {} /\ trouble = 0

page == <<calls, boot, taking, opened, removed>>

-----------------------------------------------------------------------------
(* The launches and the listener. *)

\* acquire_or_hand_off and forward_add: the port is held, the link goes down the wire.
Click == \E s \in Sends \ clicked :
    /\ clicked' = clicked \union {s} /\ wire' = Append(wire, s)
    /\ UNCHANGED <<hand, quiet, ready, parked, page, inbox, told, trouble>>

\* The listener starts after the service exists, and serves one connection at a time.
Listen == /\ wire # <<>> /\ hand["listener"] = Idle
          /\ wire' = Tail(wire) /\ hand' = [hand EXCEPT !["listener"] = [pc |-> "parse", send |-> {Head(wire)}]]
          /\ UNCHANGED <<clicked, quiet, ready, parked, page, inbox, told, trouble>>

Goto(t, pc) == hand' = [hand EXCEPT ![t].pc = pc]
Finished(t) == hand' = [hand EXCEPT ![t] = Idle]

\* browser_receive: the mode as it is now.
Parse(t) == /\ hand[t].pc = "parse" /\ Goto(t, IF quiet THEN "row" ELSE "park")
            /\ UNCHANGED <<clicked, wire, quiet, ready, parked, page, inbox, told, trouble>>

\* Quiet mode: the row is the send; add_inbox_item coalesces a link it holds.
AddRow(t) == /\ hand[t].pc = "row" /\ Finished(t)
             /\ \/ inbox' = inbox \union Links(hand[t].send) /\ UNCHANGED <<told, trouble>>
                \/ /\ trouble < MaxTrouble /\ trouble' = trouble + 1
                   /\ told' = told \union Links(hand[t].send) /\ UNCHANGED inbox
             /\ UNCHANGED <<clicked, wire, quiet, ready, parked, page>>

\* Window mode: the flag and the list under one lock, the emit after it.
Park(t) == /\ hand[t].pc = "park"
           /\ IF ready THEN Goto(t, "emit") /\ UNCHANGED parked
              ELSE Finished(t) /\ parked' = parked \o SetToSeq(hand[t].send)
           /\ UNCHANGED <<clicked, wire, quiet, ready, page, inbox, told, trouble>>

\* The page hears it if it has subscribed; _bring_forward follows.
Emit(t) == /\ hand[t].pc = "emit" /\ Finished(t)
           /\ opened' = IF boot # "loading" THEN opened \union Links(hand[t].send) ELSE opened
           /\ UNCHANGED <<clicked, wire, quiet, ready, parked, calls, boot, taking, removed, inbox, told, trouble>>

Receive == \E t \in Threads : Parse(t) \/ AddRow(t) \/ Park(t) \/ Emit(t)

-----------------------------------------------------------------------------
(* The page's boot and the snapshot. *)

host == <<clicked, wire, hand, quiet>>

\* boot(): the handlers, then the call.
Boot == /\ boot = "loading" /\ boot' = "asks" /\ calls' = [calls EXCEPT !["boot"].pc = "count"]
        /\ UNCHANGED <<host, ready, parked, taking, opened, removed, inbox, told, trouble>>

\* job.started refreshes the page from its own handler.
JobStarted == /\ Overtake /\ boot # "loading" /\ calls["job"].pc = "none"
              /\ calls' = [calls EXCEPT !["job"].pc = "count"]
              /\ UNCHANGED <<host, ready, parked, boot, taking, opened, removed, inbox, told, trouble>>

\* _browser_snapshot: the flag and the drain in one hold of the lock. Of the
\* parked only the first is handed over, and a second copy of it is not queued.
HandOver(pc) == IF parked = <<>> THEN [NoCall EXCEPT !.pc = pc]
                ELSE [pc |-> pc, pending |-> <<Head(parked)>>,
                      over |-> SelectSeq(Tail(parked), LAMBDA s : Url[s] # Url[Head(parked)])]
\* Mutant of Drain: the list is emptied before the page counts as ready.
DrainThenFlag(c) == /\ \/ /\ calls[c].pc = "count" /\ parked' = <<>> /\ UNCHANGED ready
                          /\ calls' = [calls EXCEPT ![c] = HandOver("flag")]
                       \/ /\ calls[c].pc = "flag" /\ ready' = TRUE /\ UNCHANGED parked
                          /\ calls' = [calls EXCEPT ![c].pc = "over"]
                    /\ UNCHANGED <<host, boot, taking, opened, removed, inbox, told, trouble>>
Drain(c) == /\ calls[c].pc = "count" /\ ready' = TRUE /\ parked' = <<>>
            /\ calls' = [calls EXCEPT ![c] = HandOver("over")]
            /\ UNCHANGED <<host, boot, taking, opened, removed, inbox, told, trouble>>

\* _queue_browser_overflow: row by row; the first refusal reports the batch.
Queue(c) == /\ calls[c].pc = "over" /\ calls[c].over # <<>>
            /\ \/ /\ inbox' = inbox \union {Url[Head(calls[c].over)]}
                  /\ calls' = [calls EXCEPT ![c].over = Tail(@)] /\ UNCHANGED <<told, trouble>>
               \/ /\ trouble < MaxTrouble /\ trouble' = trouble + 1
                  /\ told' = told \union Links(ToSet(calls[c].over))
                  /\ calls' = [calls EXCEPT ![c].over = <<>>] /\ UNCHANGED inbox
            /\ UNCHANGED <<host, ready, parked, boot, taking, opened, removed>>

\* The reply becomes the page's state; only boot() looks for a link in it, and
\* in the state as it is by then: what any other refresh brought is not opened.
Reply(c) == /\ calls[c].pc = "over" /\ calls[c].over = <<>>
            /\ calls' = [calls EXCEPT ![c] = [NoCall EXCEPT !.pc = "done"]]
            /\ IF c = "boot" THEN boot' = "up" /\ opened' = opened \union Links(ToSet(calls[c].pending))
               ELSE UNCHANGED <<boot, opened>>
            /\ UNCHANGED <<host, ready, parked, taking, removed, inbox, told, trouble>>

Snapshot == \E c \in Calls : Drain(c) \/ Queue(c) \/ Reply(c)

-----------------------------------------------------------------------------
(* The user. *)

\* browser_inbox_take: the row is read, then deleted, and the page opens it.
TakeRead == /\ boot = "up" /\ taking = {} /\ \E u \in inbox : taking' = {u}
            /\ UNCHANGED <<host, ready, parked, calls, boot, opened, removed, inbox, told, trouble>>
TakeDelete == /\ taking # {} /\ taking' = {} /\ inbox' = inbox \ taking /\ opened' = opened \union taking
              /\ UNCHANGED <<host, ready, parked, calls, boot, removed, told, trouble>>

InboxRemove == /\ boot = "up" /\ taking = {}
          /\ \E u \in inbox : inbox' = inbox \ {u} /\ removed' = removed \union {u}
          /\ UNCHANGED <<host, ready, parked, calls, boot, taking, opened, told, trouble>>

SetMode == /\ boot = "up" /\ quiet' = ~quiet
           /\ UNCHANGED <<clicked, wire, hand, ready, parked, page, inbox, told, trouble>>

Next == \/ Click \/ Listen \/ Receive \/ Boot \/ JobStarted \/ Snapshot
        \/ TakeRead \/ TakeDelete \/ InboxRemove \/ SetMode
Spec == Init /\ [][Next]_vars

\* The threads go on, and the page boots.
FairSpec == /\ Spec /\ WF_vars(Listen) /\ \A t \in Threads : WF_vars(Parse(t) \/ AddRow(t) \/ Park(t) \/ Emit(t))
            /\ WF_vars(Boot) /\ WF_vars(Snapshot) /\ WF_vars(TakeDelete)

-----------------------------------------------------------------------------
(* Properties *)

Landed == opened \union inbox \union removed \union told

\* Every link sent is opened, waits in the inbox, or is reported as lost, whatever
\* the page's boot, the mode and the database do around it.
Clicked(s) == s \in clicked
Lands(s) == Url[s] \in Landed
SendLands == \A s \in Sends : Clicked(s) ~> Lands(s)
=============================================================================
