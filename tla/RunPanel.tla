------------------------------ MODULE RunPanel ------------------------------
(***************************************************************************)
(* What a Watch List run shows while it goes and leaves behind: one row per *)
(* channel in the queue panel, kept by the host as the last run; a bar and  *)
(* a card per channel; an Activity tally and a closing announcement. The    *)
(* frames come from the run's thread, from the calls that join a channel or *)
(* import over one, and from the page's own resyncs.                        *)
(***************************************************************************)
EXTENDS Naturals, Sequences, FiniteSets

CONSTANTS Chans,
          Orders,                         \* what a run may be asked for
          MaxTracks, MaxRuns, MaxImports  \* bounds

VARIABLES run,     \* WatchlistOps' run: [id, mode, pc, at, todo, cid, left, stopped, failed, lost, errors]
          queue,   \* _queue
          flags,   \* _cancel_all, _cancel_cids
          joins,   \* enqueue: channels appended whose row is not out yet
          panel,   \* _run_rows: {[at, cid, state, why]}
          last,    \* last_run, with the closing announcement
          status,  \* the rows' status column
          bars,    \* _scan_prog
          page,    \* [cards, bars]: what the page shows
          asks,    \* its resyncs under way, answered in the order asked
          import,  \* an import over a channel: [cid, seen]
          imports,
          late,    \* history: rows that a join's own frame put back
          overtaken \* history: cards last drawn from an older row

host == <<run, queue, flags, joins, panel, last>>
browser == <<page, asks, overtaken>>
other == <<import, imports>>
vars == <<host, status, bars, browser, other, late>>

Settled == {"done", "skipped", "error"}
NotAsked == [cards |-> [c \in Chans |-> "unread"], bars |-> [c \in Chans |-> "unread"]]
NoRun == [id |-> 0, mode |-> "none", pc |-> "none", at |-> 1, todo |-> <<>>, cid |-> "none",
          left |-> 0, stopped |-> FALSE, failed |-> 0, lost |-> 0, errors |-> 0]
NoImport == [cid |-> "none", seen |-> "none"]
None == [rows |-> {}, walked |-> 1, warn |-> FALSE, lost |-> 0, errors |-> 0]
Here == run.at - 1     \* the position of the channel at hand

-----------------------------------------------------------------------------
(* Frames. *)

\* _queue_row, kept by _track_run under its index and id.
QueueRow(at, c, state, why) ==
    {r \in panel : <<r.at, r.cid>> # <<at, c>>} \union {[at |-> at, cid |-> c, state |-> state, why |-> why]}
\* _card: the row as it stands, on the page.
Card(c, s) == /\ page' = [page EXCEPT !.cards[c] = s]
              /\ overtaken' = IF s = status'[c] THEN overtaken \ {c} ELSE overtaken \union {c}
              /\ UNCHANGED asks
\* _progress and _progress_done: the host's map, then the page's.
Bars(cs, s) == bars' = [c \in Chans |-> IF c \in cs THEN s ELSE bars[c]]
ShowBars(cs, s) == [c \in Chans |-> IF c \in cs THEN s ELSE page.bars[c]]
\* _activity through _emit_activity, which counts the feed's error lines.
Erred(r, why) == [r EXCEPT !.errors = IF why = "none" THEN @ ELSE @ + 1]

Init == /\ run = NoRun /\ queue = <<>> /\ flags = [all |-> FALSE, cids |-> {}] /\ joins = {} /\ panel = {}
        /\ last = None /\ status = [c \in Chans |-> "idle"] /\ bars = [c \in Chans |-> "none"]
        /\ page = [cards |-> status, bars |-> bars] /\ asks = <<>> /\ import = NoImport /\ imports = 0
        /\ late = {} /\ overtaken = {}

\* job.started, then _begin; a scan's channels all wait.
Begin(mode, cids) ==
    LET waiting == IF mode = "scan" THEN {cids[i] : i \in DOMAIN cids} ELSE {} IN
    /\ run.pc = "none" /\ run.id < MaxRuns /\ Len(asks) <= 1
    /\ run' = [NoRun EXCEPT !.id = run.id + 1, !.mode = mode, !.todo = cids,
                            !.pc = IF mode = "scan" THEN "next" ELSE "publish"]
    /\ queue' = IF mode = "scan" THEN <<>> ELSE cids
    /\ flags' = [all |-> FALSE, cids |-> {}] /\ panel' = {}
    /\ Bars(waiting, "waiting") /\ page' = [page EXCEPT !.bars = ShowBars(waiting, "waiting")]
    /\ asks' = Append(asks, NotAsked)
    /\ UNCHANGED <<joins, last, status, other, late, overtaken>>

-----------------------------------------------------------------------------
(* A download run. *)

\* _publish_queue: the queue as it is now, row by row.
PublishCopy == /\ run.pc = "publish" /\ run' = [run EXCEPT !.pc = "rows", !.todo = queue]
               /\ UNCHANGED <<queue, flags, joins, panel, last, status, bars, browser, other, late>>
PublishRow == /\ run.pc = "rows"
              /\ IF run.at > Len(run.todo) THEN run' = [run EXCEPT !.pc = "next", !.at = 1] /\ UNCHANGED panel
                 ELSE run' = [run EXCEPT !.at = @ + 1] /\ panel' = QueueRow(run.at, run.todo[run.at], "queued", "none")
              /\ UNCHANGED <<queue, flags, joins, last, status, bars, browser, other, late>>

\* enqueue: appended under the lock, announced after it.
Join(c) == /\ run.mode = "download" /\ \A i \in DOMAIN queue : queue[i] # c
           /\ queue' = Append(queue, c) /\ joins' = joins \union {[run |-> run.id, at |-> Len(queue) + 1, cid |-> c]}
           /\ UNCHANGED <<run, flags, panel, last, status, bars, browser, other, late>>
JoinRow(j) == /\ joins' = joins \ {j} /\ panel' = QueueRow(j.at, j.cid, "queued", "none")
              /\ late' = IF j.run # run.id \/ \E r \in panel : r.at = j.at /\ r.cid = j.cid /\ r.state # "queued"
                         THEN late \union {j} ELSE late
              /\ UNCHANGED <<run, queue, flags, last, status, bars, browser, other>>

\* The walk reads the queue live.
Walk == /\ run.pc = "next" /\ run.mode = "download"
        /\ run' = IF flags.all \/ run.at > Len(queue) THEN [run EXCEPT !.pc = "end"]
                  ELSE [run EXCEPT !.pc = "channel", !.cid = queue[run.at], !.at = @ + 1]
        /\ UNCHANGED <<queue, flags, joins, panel, last, status, bars, browser, other, late>>

Cancelled == flags.all \/ run.cid \in flags.cids

\* The exits of _download_channel that fetch nothing: what the row settles on, and
\* the error it names.
Exits == {[state |-> "skipped", why |-> "none"], [state |-> "error", why |-> "link"], [state |-> "error", why |-> "listing"]}
Row(exit) == QueueRow(Here, run.cid, exit.state, exit.why)
\* Mutant of Exit: a channel with nothing pending says nothing.
ExitUnsaid == /\ run.pc = "channel" /\ run.mode = "download"
              /\ \E exit \in Exits :
                    /\ Cancelled => exit.state = "skipped"
                    /\ panel' = IF exit.state = "skipped" /\ ~Cancelled THEN panel ELSE Row(exit)
                    /\ run' = Erred([run EXCEPT !.pc = "next", !.failed = @ + (IF exit.why = "listing" THEN 1 ELSE 0)], exit.why)
              /\ UNCHANGED <<queue, flags, joins, last, status, bars, browser, other, late>>
Exit == /\ run.pc = "channel" /\ run.mode = "download"
        /\ \E exit \in Exits :
              /\ Cancelled => exit.state = "skipped"
              /\ panel' = Row(exit)
              /\ run' = Erred([run EXCEPT !.pc = "next", !.failed = @ + (IF exit.why = "listing" THEN 1 ELSE 0)], exit.why)
        /\ UNCHANGED <<queue, flags, joins, last, status, bars, browser, other, late>>

Fetch == /\ run.pc = "channel" /\ run.mode = "download"
         /\ status' = [status EXCEPT ![run.cid] = "downloading"] /\ Card(run.cid, "downloading")
         /\ panel' = QueueRow(Here, run.cid, "active", "none")
         /\ \E n \in 1 .. MaxTracks : run' = [run EXCEPT !.pc = "tracks", !.left = n, !.stopped = FALSE]
         /\ UNCHANGED <<queue, flags, joins, last, bars, other, late>>

\* run_tracks: a track settles, and _channel_emit redraws the card with it.
Track == /\ run.pc = "tracks" /\ run.left > 0 /\ ~run.stopped /\ ~Cancelled
         /\ \E failed \in BOOLEAN :
               run' = Erred([run EXCEPT !.left = @ - 1, !.lost = @ + (IF failed THEN 1 ELSE 0)],
                            IF failed THEN "track" ELSE "none")
         /\ UNCHANGED status /\ Card(run.cid, status[run.cid])
         /\ UNCHANGED <<queue, flags, joins, panel, last, bars, other, late>>
Stopped == /\ run.pc = "tracks" /\ run.left > 0 /\ Cancelled /\ run' = [run EXCEPT !.stopped = TRUE]
           /\ UNCHANGED <<queue, flags, joins, panel, last, status, bars, browser, other, late>>
\* run_tracks raised: the row goes idle, and the card is left as it was.
Raise == /\ run.pc = "tracks" /\ status' = [status EXCEPT ![run.cid] = "idle"]
         /\ panel' = QueueRow(Here, run.cid, "error", "raise")
         /\ run' = Erred([run EXCEPT !.pc = "next", !.failed = @ + 1], "raise")
         /\ UNCHANGED <<queue, flags, joins, last, bars, browser, other, late>>
\* channel_verdict.
Verdict == IF run.stopped THEN "skipped" ELSE "done"
Settle == /\ run.pc = "tracks" /\ (run.left = 0 \/ run.stopped)
          /\ status' = [status EXCEPT ![run.cid] = "idle"] /\ Card(run.cid, "idle")
          /\ panel' = QueueRow(Here, run.cid, Verdict, "none") /\ run' = [run EXCEPT !.pc = "next"]
          /\ UNCHANGED <<queue, flags, joins, last, bars, other, late>>

-----------------------------------------------------------------------------
(* A scan. *)

ScanNext == /\ run.pc = "next" /\ run.mode = "scan"
            /\ run' = IF flags.all \/ run.at > Len(run.todo) THEN [run EXCEPT !.pc = "end"]
                      ELSE [run EXCEPT !.pc = "channel", !.cid = run.todo[run.at], !.at = @ + 1]
            /\ UNCHANGED <<queue, flags, joins, panel, last, status, bars, browser, other, late>>

ScanLists == /\ run.pc = "channel" /\ run.mode = "scan" /\ ~Cancelled /\ run' = [run EXCEPT !.pc = "listing"]
             /\ status' = [status EXCEPT ![run.cid] = "scanning"] /\ Bars({run.cid}, "scanning")
             /\ page' = [cards |-> [page.cards EXCEPT ![run.cid] = "scanning"], bars |-> ShowBars({run.cid}, "scanning")]
             /\ overtaken' = overtaken \ {run.cid}
             /\ UNCHANGED <<queue, flags, joins, panel, last, asks, other, late>>
\* _scan_counter: the running count, once a second at least.
Report == /\ run.pc = "listing" /\ page' = [page EXCEPT !.bars = ShowBars({run.cid}, "scanning")]
          /\ UNCHANGED <<host, status, bars, asks, overtaken, other, late>>

\* A scan's ways out: a link never resolved, a cancel, a verdict, a result; then
\* _card and _progress_done.
ScanSettles(s, failed) ==
    /\ status' = [status EXCEPT ![run.cid] = s] /\ Bars({run.cid}, "none")
    /\ page' = [cards |-> [page.cards EXCEPT ![run.cid] = s], bars |-> ShowBars({run.cid}, "none")]
    /\ overtaken' = overtaken \ {run.cid}
    /\ run' = [run EXCEPT !.pc = "next", !.failed = @ + (IF failed THEN 1 ELSE 0)]
    /\ UNCHANGED <<queue, flags, joins, panel, last, asks, other, late>>
ScanCancelled == run.pc \in {"channel", "listing"} /\ run.mode = "scan" /\ Cancelled /\ ScanSettles("idle", FALSE)
ScanUnresolved == run.pc = "channel" /\ run.mode = "scan" /\ ScanSettles("needs_resolve", FALSE)
ScanFailed == run.pc = "listing" /\ \E s \in {"needs_resolve", "offline", "error"} : ScanSettles(s, TRUE)
ScanFound == run.pc = "listing" /\ \E s \in {"found", "idle"} : ScanSettles(s, FALSE)
\* Nothing to scan any more, or a raise: no card, and the bar alone goes.
ScanNothing == /\ run.pc \in {"channel", "listing"} /\ run.mode = "scan"
               /\ run' = [run EXCEPT !.pc = "next", !.failed = @ + (IF run.pc = "listing" THEN 1 ELSE 0)]
               /\ Bars({run.cid}, "none") /\ page' = [page EXCEPT !.bars = ShowBars({run.cid}, "none")]
               /\ UNCHANGED <<queue, flags, joins, panel, last, status, asks, overtaken, other, late>>

-----------------------------------------------------------------------------
(* The end: the bars, _end, then the slot and job.finished. *)

EndRun == /\ run.pc = "end" /\ run' = [run EXCEPT !.pc = "free", !.mode = "none"]
          /\ Bars(Chans, "none") /\ page' = [page EXCEPT !.bars = ShowBars({c \in Chans : bars[c] # "none"}, "none")]
          /\ UNCHANGED <<queue, flags, joins, panel, last, status, asks, overtaken, other, late>>
\* _notify, and _track_run on job.finished.
Free == /\ run.pc = "free" /\ run' = [run EXCEPT !.pc = "none"]
        /\ last' = IF panel = {} THEN last
                   ELSE [rows |-> panel, walked |-> IF queue = <<>> THEN 1 ELSE run.at, warn |-> run.failed > 0 \/ run.lost > 0,
                         lost |-> run.lost, errors |-> run.errors]
        /\ asks' = Append(asks, NotAsked)
        /\ UNCHANGED <<queue, flags, joins, panel, status, bars, page, overtaken, other, late>>

Cancel(c) == /\ run.pc # "none" /\ flags' = [flags EXCEPT !.cids = @ \union {c}]
             /\ UNCHANGED <<run, queue, joins, panel, last, status, bars, browser, other, late>>
CancelAll == /\ run.pc # "none" /\ flags' = [flags EXCEPT !.all = TRUE]
             /\ UNCHANGED <<run, queue, joins, panel, last, status, bars, browser, other, late>>

\* refresh: the snapshot's cards and scan_progress are read, then applied.
Unread == {i \in DOMAIN asks : asks[i] = NotAsked}
Snapshot == /\ Unread # {}
            /\ \E i \in Unread : /\ \A k \in Unread : i <= k
                                 /\ asks' = [asks EXCEPT ![i] = [cards |-> status, bars |-> bars]]
            /\ UNCHANGED <<host, status, bars, page, overtaken, other, late>>
Resync == /\ asks # <<>> /\ Head(asks) # NotAsked /\ page' = Head(asks) /\ asks' = Tail(asks)
          /\ overtaken' = {c \in Chans : Head(asks).cards[c] # status[c]}
          /\ UNCHANGED <<host, status, bars, other, late>>

\* import_entry over an existing row: the status column, then its card.
ImportWrite(c) == /\ import = NoImport /\ imports < MaxImports /\ imports' = imports + 1
                  /\ status' = [status EXCEPT ![c] = "idle"] /\ import' = [cid |-> c, seen |-> "none"]
                  /\ UNCHANGED <<host, bars, browser, late>>
ImportRead == /\ import # NoImport /\ import.seen = "none" /\ import' = [import EXCEPT !.seen = status[import.cid]]
              /\ UNCHANGED <<host, status, bars, browser, imports, late>>
ImportCard == /\ import # NoImport /\ import.seen # "none" /\ UNCHANGED status /\ Card(import.cid, import.seen)
              /\ import' = NoImport /\ UNCHANGED <<host, bars, imports, late>>

Next == \/ \E cids \in Orders : Begin("download", cids) \/ Begin("scan", cids)
        \/ PublishCopy \/ PublishRow \/ Walk \/ Exit \/ Fetch \/ Track \/ Stopped \/ Raise \/ Settle
        \/ ScanNext \/ ScanLists \/ Report \/ ScanCancelled \/ ScanUnresolved \/ ScanFailed \/ ScanFound \/ ScanNothing
        \/ EndRun \/ Free \/ CancelAll \/ Snapshot \/ Resync \/ ImportRead \/ ImportCard
        \/ \E c \in Chans : Join(c) \/ Cancel(c) \/ ImportWrite(c)
        \/ \E j \in joins : JoinRow(j)
Spec == Init /\ [][Next]_vars

-----------------------------------------------------------------------------
(* Properties *)

\* A run that ended left every channel it walked on a settled row, unless the frame
\* of a join put the row back; a channel that broke made its closing announcement a
\* warning and counts in its tally; and a page at rest shows no bar, and each
\* channel as its row stands, unless an older picture was drawn over a newer one.
PanelSettles ==
    /\ \A i \in 1 .. (last.walked - 1) :
          \E r \in last.rows : r.at = i /\ (r.state \in Settled \/ \E j \in late : j.at = i /\ j.cid = r.cid)
    /\ LET broken == {r \in last.rows : r.state = "error"} IN
          /\ (last.lost > 0 \/ \E r \in broken : r.why # "link") => last.warn
          /\ last.errors >= Cardinality(broken) + last.lost
    /\ (run.pc = "none" /\ asks = <<>> /\ import = NoImport) =>
          \A c \in Chans : page.bars[c] = "none" /\ (page.cards[c] = status[c] \/ c \in overtaken)

-----------------------------------------------------------------------------
(* The inductive invariant that the property follows from. *)

Marks == {"unread", "none", "waiting", "scanning", "idle", "downloading", "needs_resolve", "offline", "error", "found"}
Views == [cards : [Chans -> Marks], bars : [Chans -> Marks]]
RunOK == /\ run = [id |-> run.id, mode |-> run.mode, pc |-> run.pc, at |-> run.at, todo |-> run.todo, cid |-> run.cid,
                   left |-> run.left, stopped |-> run.stopped, failed |-> run.failed, lost |-> run.lost, errors |-> run.errors]
         /\ run.at \in Nat /\ run.at >= 1 /\ run.failed \in Nat /\ run.lost \in Nat /\ run.errors \in Nat
PageOK == /\ status \in [Chans -> Marks] /\ bars \in [Chans -> Marks] /\ page \in Views /\ asks \in Seq(Views)
          /\ import = NoImport \/ (import.cid \in Chans /\ import.seen \in Marks /\ import = [cid |-> import.cid, seen |-> import.seen])
TypeOK == RunOK /\ IsFiniteSet(panel) /\ PageOK
Modes == /\ run.mode = "scan" => queue = << >>
         /\ run.pc \in {"none", "free"} => run.mode = "none"
         /\ run.pc \in {"publish", "rows", "tracks"} => run.mode = "download"
\* A row that may be left behind at i: settled, unless a join's frame put it back.
Held(r, i) == r.at = i /\ (r.state \in Settled \/ \E j \in late : j.at = i /\ j.cid = r.cid)
Walking == run.pc \in {"next", "channel", "listing", "tracks", "end", "free"} /\ (run.mode = "download" \/ queue # << >>)
RowsAreHeld == Walking => \A i \in 1 .. (run.at - 1) : \/ run.pc \in {"channel", "tracks"} /\ i = Here
                                                       \/ \E r \in panel : Held(r, i)
Broken(rows) == {r \in rows : r.state = "error"}
RowsAreTold == /\ \A r \in Broken(panel) : r.why # "link" => run.failed > 0
               /\ run.errors >= Cardinality(Broken(panel)) + run.lost
\* The last run's picture.
LastIsTold == /\ \A i \in 1 .. (last.walked - 1) : \E r \in last.rows : Held(r, i)
              /\ (last.lost > 0 \/ \E r \in Broken(last.rows) : r.why # "link") => last.warn
              /\ last.errors >= Cardinality(Broken(last.rows)) + last.lost
\* The page after a run: its bars are gone once the last resync is in, its cards
\* are the rows' but for what an import or a resync will redraw.
NoBars(bs) == \A c \in Chans : bs[c] = "none"
PageFollows == run.pc \in {"none", "free"} => NoBars(bars)
BarsGo == run.pc = "none" => IF asks = << >> THEN NoBars(page.bars)
                             ELSE asks[Len(asks)] = NotAsked \/ NoBars(asks[Len(asks)].bars)
CardsFollow == run.pc = "none" => \A c \in Chans : \/ page.cards[c] = status[c] \/ c \in overtaken
                                                   \/ asks # << >> \/ (import # NoImport /\ import.cid = c)
PanelInv == /\ TypeOK /\ Modes /\ RowsAreHeld /\ RowsAreTold /\ LastIsTold
            /\ PageFollows /\ BarsGo /\ CardsFollow
=============================================================================
