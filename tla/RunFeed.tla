------------------------------- MODULE RunFeed -------------------------------
(***************************************************************************)
(* What a page sees of the runs of one job category: the service stamps    *)
(* and keeps the Activity lines of the run in flight (_track_run), emits   *)
(* them on the bus, and answers snapshots; the page merges events and      *)
(* snapshot answers into its feed and its idea of "running".               *)
(*                                                                         *)
(* A run's thread releases its slot before it closes its record, and       *)
(* tracks an event before it emits it, so two runs' threads interleave.    *)
(* Events reach the page in order over a socket that may drop; snapshots   *)
(* are calls of their own, read in two steps, and their answers may        *)
(* overtake each other.                                                    *)
(***************************************************************************)
EXTENDS Naturals, Sequences, SequencesExt, FiniteSets

CONSTANTS
    MaxRuns,    \* bound: runs ever started
    MaxLines,   \* bound: Activity lines one run reports
    Limit,      \* ACTIVITY_LIMIT, on the host and on the page
    MaxAsks,    \* bound: snapshots in flight at once
    MaxWire,    \* bound: events on their way before the next is emitted
    MaxCuts     \* bound: lost connections and page loads

ASSUME LimitAssumption == Limit \in Nat \ {0}
\* A page load asks, so a page has room for one snapshot at least.
ASSUME BoundsAssumption ==
    {MaxRuns, MaxLines, MaxAsks, MaxWire, MaxCuts} \subseteq Nat /\ MaxAsks > 0

VARIABLES
    slot,     \* `_jobs[job]`: the run that holds the category, or None
    thread,   \* run -> where its thread stands, lines reported, event to emit
    record,   \* `_run_job_id`, `_run_seq` and `_run_activity` of the category
    link,     \* whether the page's socket is subscribed
    cuts,     \* connections lost and pages loaded so far
    wire,     \* events on their way to the page
    asks,     \* snapshots the page asked for, in the order it asked
    page      \* `act` and `dl.running` / `wl.running`

host == <<slot, thread, record>>
net     == <<link, cuts>>
browser == <<net, wire, asks, page>>
vars == <<host, browser>>

-----------------------------------------------------------------------------
Run  == 1 .. MaxRuns
None == 0

Started(r)  == [type |-> "started", id |-> r]
Finished    == [type |-> "finished"]
Status      == [type |-> "status"]
\* A line as the page gets it; `of` is history: the run that reported it.
Line(id, l) == [type |-> "line", id |-> id, line |-> l]

Thread(pc, n) == [pc |-> pc, n |-> n, out |-> <<>>]
NoRecord      == [id |-> None, seq |-> 0, lines |-> {}]

\* deque(maxlen) and slice(-ACTIVITY_LIMIT): the newest Limit lines.
Newest(lines) ==
    {l \in lines : Cardinality({k \in lines : k.seq > l.seq}) < Limit}

\* History.  stale, torn: the last answer applied was old, or left a hole.
\* mixed: lines that name no run joined the feed since it was reset.
NoPage == [loaded |-> FALSE, id |-> None, lines |-> {}, running |-> FALSE,
           stale |-> FALSE, torn |-> FALSE, mixed |-> FALSE]
\* History.  old: a later ask was answered first, or the host read this one
\* before the page's present subscription.  behind: the host read this one
\* before the page's feed was reset by an answer about an earlier run.
Asked == [pc |-> "asked", id |-> None, lines |-> {}, running |-> FALSE,
          old |-> FALSE, behind |-> FALSE]

\* The host is idle and a page is open on it.
Init ==
    /\ slot = None
    /\ thread = [r \in Run |-> Thread("unborn", 0)]
    /\ record = NoRecord
    /\ link = "on"
    /\ cuts = 0
    /\ wire = <<>>
    /\ asks = <<>>
    /\ page = [NoPage EXCEPT !.loaded = TRUE]

-----------------------------------------------------------------------------
(* The host: _start_job and its thread *)

SetThread(r, rec) == thread' = [thread EXCEPT ![r] = rec]
\* An event is emitted after it was tracked, by the same thread.
Emitting(r, event) ==
    SetThread(r, [thread[r] EXCEPT !.pc = "emitting", !.out = <<event>>])

\* Mutant of Start: the slot is taken over its holder.
StartOverHolder(r) ==
    /\ thread[r].pc = "unborn"
    /\ \A s \in Run : s < r => thread[s].pc # "unborn"
    /\ slot' = r
    /\ SetThread(r, Thread("claimed", 0))
    /\ UNCHANGED <<record, browser>>

\* The slot is taken under the lock ...
Start(r) ==
    /\ slot = None
    /\ thread[r].pc = "unborn"
    /\ \A s \in Run : s < r => thread[s].pc # "unborn"
    /\ slot' = r
    /\ SetThread(r, Thread("claimed", 0))
    /\ UNCHANGED <<record, browser>>

\* Mutant of TrackStarted: the category's record is taken over as it is.
TrackStartedKept(r) ==
    /\ thread[r].pc = "claimed"
    /\ record' = [record EXCEPT !.id = r]
    /\ Emitting(r, Started(r))
    /\ UNCHANGED <<slot, browser>>

\* ... and JOB_STARTED opens the category's record outside it.
TrackStarted(r) ==
    /\ thread[r].pc = "claimed"
    /\ record' = [NoRecord EXCEPT !.id = r]
    /\ Emitting(r, Started(r))
    /\ UNCHANGED <<slot, browser>>

\* A line is stamped with what the record says now.
TrackLine(r) ==
    /\ thread[r].pc = "working"
    /\ thread[r].n < MaxLines
    /\ LET line == [seq |-> record.seq + 1, of |-> r]
       IN  /\ record' = [record EXCEPT !.seq = line.seq,
                                       !.lines = Newest(@ \cup {line})]
           /\ SetThread(r, [pc |-> "emitting", n |-> thread[r].n + 1,
                            out |-> <<Line(record.id, line)>>])
    /\ UNCHANGED <<slot, browser>>

\* The target returned: the slot is free before anything is announced.
ReleaseSlot(r) ==
    /\ thread[r].pc = "working"
    /\ slot' = None
    /\ SetThread(r, Thread("released", 0))
    /\ UNCHANGED <<record, browser>>

\* JOB_FINISHED closes the category's record, whoever's it is by now; what it
\* held becomes `last_run`, unless that was nothing.
TrackFinished(r) ==
    /\ thread[r].pc = "released"
    /\ record' = NoRecord
    /\ Emitting(r, Finished)
    /\ UNCHANGED <<slot, browser>>

\* The bus hands the event to the page's socket, if it is subscribed.
Emit(r) ==
    /\ thread[r].pc = "emitting"
    /\ Len(wire) < MaxWire
    /\ wire' = IF link = "on" THEN wire \o thread[r].out ELSE wire
    /\ IF thread[r].out = <<Finished>> THEN SetThread(r, Thread("over", 0))
       ELSE SetThread(r, Thread("working", thread[r].n))
    /\ UNCHANGED <<slot, record, net, asks, page>>

-----------------------------------------------------------------------------
(* The socket and the snapshots *)

Cut == cuts < MaxCuts /\ cuts' = cuts + 1

Disconnect ==
    /\ Cut
    /\ link = "on"
    /\ link' = "off"
    /\ wire' = <<>>
    /\ UNCHANGED <<host, asks, page>>

\* The server subscribes and sends host.status as the first frame.
Connect ==
    /\ link = "off"
    /\ link' = "on"
    /\ wire' = <<Status>>
    /\ asks' = [i \in DOMAIN asks |->
                   [asks[i] EXCEPT !.old = @ \/ asks[i].pc # "asked"]]
    /\ UNCHANGED <<host, cuts, page>>

\* A page load: nothing of the old page is left, and boot asks a snapshot.
Reload ==
    /\ Cut
    /\ link' = "off"
    /\ wire' = <<>>
    /\ asks' = <<Asked>>
    /\ page' = NoPage
    /\ UNCHANGED host

\* snapshot() reads run_activity first ...
ReadFeed(i) ==
    /\ asks[i].pc = "asked"
    /\ asks' = [asks EXCEPT ![i].pc = "read", ![i].id = record.id,
                            ![i].lines = record.lines]
    /\ UNCHANGED <<host, net, wire, page>>

\* ... and "running" a little later.
ReadRunning(i) ==
    /\ asks[i].pc = "read"
    /\ asks' = [asks EXCEPT ![i].pc = "answered", ![i].running = slot # None]
    /\ UNCHANGED <<host, net, wire, page>>

\* A call may fail while the connection is down.
AskFails(i) ==
    /\ link = "off"
    /\ asks' = RemoveAt(asks, i)
    /\ UNCHANGED <<host, net, wire, page>>

-----------------------------------------------------------------------------
(* The page *)

CanAsk == Len(asks) < MaxAsks
Ask    == CanAsk /\ asks' = Append(asks, Asked)

ResetActivity(p, id) == [p EXCEPT !.id = id, !.lines = {}, !.mixed = FALSE]

\* Mutant of SyncActivity: the host's lines replace the page's.
SyncActivityReplaces(p, ask) ==
    LET q == IF ask.id \notin {None, p.id} THEN ResetActivity(p, ask.id) ELSE p
    IN  [q EXCEPT !.lines = ask.lines]

\* The snapshot's lines join the page's own, by seq, if a run is on.
SyncActivity(p, ask) ==
    LET q == IF ask.id \notin {None, p.id} THEN ResetActivity(p, ask.id) ELSE p
        have == {l.seq : l \in q.lines}
        unseen == {l \in ask.lines : l.seq \notin have}
    IN  [q EXCEPT !.lines = Newest(@ \cup unseen),
                  !.mixed = @ \/ (ask.id = None /\ unseen # {})]

\* refresh: "running" is taken at face value.
Apply(i) ==
    /\ asks[i].pc = "answered"
    /\ LET ask == asks[i]
           p == IF ask.running THEN SyncActivity(page, ask) ELSE page
           backward == p.id < page.id
       IN  /\ page' = [p EXCEPT !.loaded = TRUE, !.running = ask.running,
                                !.stale = ask.old,
                                !.torn = ask.old \/ ask.behind \/ backward]
           /\ asks' = RemoveAt([j \in DOMAIN asks |-> [asks[j] EXCEPT
                         !.old = @ \/ j < i,
                         !.behind = @ \/ (backward /\ asks[j].pc # "asked")]], i)
    /\ UNCHANGED <<host, net, wire>>

\* Any screen may ask for a resync; bound: when no other is in flight.
Refresh ==
    /\ asks = <<>>
    /\ Ask
    /\ UNCHANGED <<host, net, wire, page>>

Arrived(type) == wire # <<>> /\ Head(wire).type = type /\ wire' = Tail(wire)

OnStarted ==
    /\ Arrived("started")
    /\ page' = [ResetActivity(page, Head(wire).id) EXCEPT !.running = TRUE]
    /\ Ask
    /\ UNCHANGED <<host, net>>

\* Mutant of OnFinished: the end is believed without asking.
OnFinishedUnasked ==
    /\ Arrived("finished")
    /\ page' = [page EXCEPT !.running = FALSE]
    /\ UNCHANGED <<host, net, asks>>

OnFinished ==
    /\ Arrived("finished")
    /\ page' = [page EXCEPT !.running = FALSE]
    /\ Ask
    /\ UNCHANGED <<host, net>>

\* host.status: a page that has no state yet leaves the resync to boot.
OnStatus ==
    /\ Arrived("status")
    /\ IF page.loaded THEN Ask ELSE UNCHANGED asks
    /\ UNCHANGED <<host, net, page>>

\* appendActivity: another run's line resets the feed, an older one is dropped.
OnLine ==
    /\ Arrived("line")
    /\ LET e == Head(wire)
           q == IF e.id \notin {None, page.id} THEN ResetActivity(page, e.id)
                                               ELSE page
       IN  page' = IF \E l \in q.lines : l.seq >= e.line.seq THEN q
                   ELSE [q EXCEPT !.lines = Newest(@ \cup {e.line}),
                                  !.mixed = @ \/ e.id = None]
    /\ UNCHANGED <<host, net, asks>>

-----------------------------------------------------------------------------
Next ==
    \/ \E r \in Run : \/ Start(r) \/ TrackStarted(r) \/ TrackLine(r)
                      \/ ReleaseSlot(r) \/ TrackFinished(r) \/ Emit(r)
    \/ Disconnect \/ Connect \/ Reload
    \/ \E i \in DOMAIN asks : ReadFeed(i) \/ ReadRunning(i) \/ AskFails(i)
                              \/ Apply(i)
    \/ Refresh \/ OnStarted \/ OnFinished \/ OnStatus \/ OnLine

Spec == Init /\ [][Next]_vars

-----------------------------------------------------------------------------
(* Properties *)

LineType == [seq : Nat \ {0}, of : Run]

TypeOK ==
    /\ slot \in Run \cup {None}
    /\ \A r \in Run :
          /\ thread[r].pc \in {"unborn", "claimed", "emitting", "working",
                               "released", "over"}
          /\ slot = r => thread[r].pc \in {"claimed", "emitting", "working"}
          /\ thread[r].pc \in {"claimed", "working"} => slot = r
    /\ record.id \in Run \cup {None}
    /\ record.seq \in Nat
    /\ \A lines \in {record.lines, page.lines} :
          lines \subseteq LineType /\ Cardinality(lines) <= Limit
    /\ link \in {"on", "off"}
    /\ link = "off" => wire = <<>>
    /\ Len(asks) <= MaxAsks

\* Nothing is under way: every event was emitted and handled, every snapshot
\* applied, and the page is loaded and connected.
Settled ==
    /\ \A r \in Run : thread[r].pc \in {"unborn", "working", "over"}
    /\ link = "on" /\ wire = <<>> /\ asks = <<>> /\ page.loaded

\* refresh()'s comment: the snapshot "can be taken at face value".  Whatever
\* two runs' starts and ends crossed on the way, a settled page shows a run
\* exactly when there is one.  Excepted: the last answer applied was out of
\* date, because a later one overtook it or because the host read it before
\* the page was subscribed.
RunningIsTruth ==
    Settled /\ ~page.stale => (page.running <=> slot # None)

\* _track_run and syncActivity: a page that was reloaded, cut off or late shows
\* the lines of the run in flight, all that the host keeps, none twice, none of
\* another run; as long as the host's record knows its run.  Excepted: as above,
\* or the answer was read before one about an earlier run reset the feed, or the
\* feed took in lines that name no run, those of a run whose record an earlier
\* run's end had closed.
FeedIsWhole ==
    Settled /\ ~page.torn /\ ~page.mixed /\ slot # None /\ record.id = slot =>
        /\ page.lines = record.lines
        /\ \A l \in page.lines : l.of = slot

\* _track_run: what a run leaves behind as `last_run` is the record it closes;
\* a record never mixes the lines of two runs, also when a new run's start
\* comes before the old run's end.
RecordIsOneRun == \A k, l \in record.lines : k.of = l.of
=============================================================================
