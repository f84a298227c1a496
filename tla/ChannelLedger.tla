---------------------------- MODULE ChannelLedger ----------------------------
(***************************************************************************)
(* What is kept of a Watch List channel by its link: the downloads it is    *)
(* credited with, the tracks remembered as permanently unavailable, and the *)
(* row's own pending list and total. A link has two spellings: as it was    *)
(* added, and with the listing tab that yt-dlp is fed.                      *)
(***************************************************************************)
EXTENDS Naturals, FiniteSets

CONSTANTS Rows,      \* Watch List rows
          Added,  \* the link each was added with: [page, tab]
          Tabbed,    \* pages that have a listing tab; a playlist has none
          Tracks, Lists,  \* the tracks each row's channel lists
          Legacy,    \* tracks on disk from before the database
          Expiry,    \* GEO_RECHECK_SECONDS, in ticks
          MaxTime,
          MaxRuns,   \* bound: scans and downloads
          MaxEdits   \* bound: links changed

VARIABLES link,      \* [Rows -> link]
          pending,   \* [Rows -> SUBSET Tracks]: pending_entries_json
          status, total,
          recorded,  \* the downloads table: [Tracks -> the link its row carries, or None]
          memory,    \* unavailable_tracks: [Tracks -> [url, reason, attempts, last]]
          run,       \* the watchlist job: [pc, row, left, failed, seen, known]
          hidden,    \* history: [Rows -> what its last scan left out as unavailable]
          failures,  \* history: [Tracks -> permanent failures since it was forgotten]
          current,   \* history: rows whose total was counted and nothing recorded since
          now, used

ledger == <<recorded, memory, failures>>
rowVars == <<link, pending, status, total>>
vars == <<rowVars, ledger, run, hidden, current, now, used>>

None == [page |-> "none", tab |-> FALSE]
Reasons == {"DRM-protected", "Removed", "Geo-blocked"}
Unknown == [url |-> None, reason |-> "none", attempts |-> 0, last |-> 0]
NoRun == [pc |-> "none", row |-> "none", left |-> {}, failed |-> FALSE, seen |-> {}, known |-> {}]
Of(u) == {t \in Tracks : recorded[t] = u}

-----------------------------------------------------------------------------
(* Links. *)

\* watch_scan_url and watch_fetch_url: what yt-dlp lists.
Listing(u) == [u EXCEPT !.tab = @ \/ u.page \in Tabbed]
\* Mutant of Canonical: the link as it is.
CanonicalNot(u) == u
\* canonical_channel_url: their inverse.
Canonical(u) == [u EXCEPT !.tab = FALSE]

-----------------------------------------------------------------------------
(* is_suppressed and get_suppressed_reasons. *)

Suppressed(m) == \/ m.reason = "DRM-protected"
                 \/ m.reason = "Removed" /\ m.attempts >= 2
                 \/ m.reason = "Geo-blocked" /\ m.attempts >= 2 /\ now - m.last < Expiry
SuppressedTracks == {t \in Tracks : Suppressed(memory[t])}

\* record_unavailable: the first failure inserts, a repeat counts, and the newest
\* reason and channel win.
Remembered(t, u, reason) ==
    [memory EXCEPT ![t] = [url |-> u, reason |-> reason, attempts |-> @.attempts + 1, last |-> now]]

Init == /\ link = [r \in Rows |-> Added[r]]
        /\ pending = [r \in Rows |-> {}] /\ status = [r \in Rows |-> "idle"] /\ total = [r \in Rows |-> 0]
        /\ recorded = [t \in Tracks |-> None] /\ memory = [t \in Tracks |-> Unknown]
        /\ run = NoRun /\ hidden = [r \in Rows |-> {}] /\ failures = [t \in Tracks |-> 0] /\ current = Rows
        /\ now = 0 /\ used = [runs |-> 0, edits |-> 0]

Start(r, pc) == /\ run = NoRun /\ used.runs < MaxRuns /\ used' = [used EXCEPT !.runs = @ + 1]
                /\ run' = [NoRun EXCEPT !.pc = pc, !.row = r]

-----------------------------------------------------------------------------
(* A scan. *)

StartScan(r) == /\ Start(r, "list") /\ status' = [status EXCEPT ![r] = "scanning"]
                /\ UNCHANGED <<link, pending, total, ledger, hidden, current, now>>

\* The listing, then what is known of its tracks, read before anything is written.
List == /\ run.pc = "list"
        /\ run' = [run EXCEPT !.pc = "write", !.seen = SuppressedTracks,
                              !.known = {t \in Tracks : recorded[t] # None}]
        /\ UNCHANGED <<rowVars, ledger, hidden, current, now, used>>

\* _scan_cancelled, and a listing that failed for want of a network.
ScanStops == /\ run.pc \in {"list", "write"} /\ run' = NoRun
             /\ status' = [status EXCEPT ![run.row] = "idle"]
             /\ UNCHANGED <<link, pending, total, ledger, hidden, current, now, used>>

\* ChannelCrate.classify, _backfill under the row's own link, and
\* update_watchlist_scan_result.
Offered == Lists[run.row] \ (run.known \union run.seen)
OnDisk == Offered \intersect Legacy
Due == Offered \ Legacy
ScanResult == /\ run.pc = "write" /\ run' = NoRun
              /\ recorded' = [t \in Tracks |-> IF t \in OnDisk THEN link[run.row] ELSE recorded[t]]
              /\ pending' = [pending EXCEPT ![run.row] = Due]
              /\ status' = [status EXCEPT ![run.row] = IF Due = {} THEN "idle" ELSE "found"]
              /\ hidden' = [hidden EXCEPT ![run.row] = (run.seen \intersect Lists[run.row]) \ run.known]
              /\ current' = IF OnDisk = {} THEN current ELSE {}
              /\ UNCHANGED <<link, total, memory, failures, now, used>>

-----------------------------------------------------------------------------
(* A download. *)

\* The pending list, or under force the whole listing.
StartDownload(r) == /\ \E force \in BOOLEAN :
                         LET entries == IF force THEN Lists[r] ELSE pending[r] IN
                         /\ entries # {} /\ run = NoRun /\ used.runs < MaxRuns
                         /\ run' = [NoRun EXCEPT !.pc = "fetch", !.row = r, !.left = entries]
                    /\ used' = [used EXCEPT !.runs = @ + 1]
                    /\ status' = [status EXCEPT ![r] = "downloading"]
                    /\ UNCHANGED <<link, pending, total, ledger, hidden, current, now>>

\* track_specs: a track is recorded under the listing's link, and remembered as
\* unavailable under the canonical one.
SpecUrl == Listing(link[run.row])

Fetch(t) == /\ run.pc = "fetch" /\ t \in run.left /\ run' = [run EXCEPT !.left = @ \ {t}]
            /\ recorded' = [recorded EXCEPT ![t] = SpecUrl] /\ current' = {}
            /\ UNCHANGED <<rowVars, memory, failures, hidden, now, used>>

Unavailable(t) == /\ run.pc = "fetch" /\ t \in run.left
                  /\ run' = [run EXCEPT !.left = @ \ {t}, !.failed = TRUE]
                  /\ \E reason \in Reasons : memory' = Remembered(t, Canonical(SpecUrl), reason)
                  /\ failures' = [failures EXCEPT ![t] = @ + 1]
                  /\ UNCHANGED <<rowVars, recorded, hidden, current, now, used>>

\* classify_deferred_failure: a premiere is reported, and stays pending.
Deferred(t) == /\ run.pc = "fetch" /\ t \in run.left /\ run' = [run EXCEPT !.left = @ \ {t}, !.failed = TRUE]
               /\ UNCHANGED <<rowVars, ledger, hidden, current, now, used>>

\* clear_pending_for_channel and refresh_watchlist_total.
Cleared == [pending EXCEPT ![run.row] = {}]
Counted(r) == Cardinality(Of(link[r]))
\* Every track settled, or the run was stopped.
EndDownload == /\ run.pc = "fetch" /\ run' = NoRun
               /\ pending' = IF run.left = {} /\ ~run.failed THEN Cleared ELSE pending
               /\ total' = [total EXCEPT ![run.row] = Counted(run.row)]
               /\ current' = current \union {run.row}
               /\ status' = [status EXCEPT ![run.row] = "idle"]
               /\ UNCHANGED <<link, ledger, hidden, now, used>>

-----------------------------------------------------------------------------
(* The card's buttons, the other runs, and time. *)

\* details counts what Forget would drop, and forget_unavailable drops it.
Forgettable(r) == {t \in Tracks : memory[t].url = Canonical(link[r])}
Forgotten(r) == [t \in Tracks |-> IF t \in Forgettable(r) THEN Unknown ELSE memory[t]]
Forget(r) == /\ Forgettable(r) # {} /\ memory' = Forgotten(r)
             /\ failures' = [t \in Tracks |-> IF t \in Forgettable(r) THEN 0 ELSE failures[t]]
             /\ UNCHANGED <<rowVars, recorded, run, hidden, current, now, used>>

\* refresh_watchlist_totals, at the end of a rebuild or a de-dup.
RefreshTotals == /\ run = NoRun /\ total' = [r \in Rows |-> Counted(r)] /\ current' = Rows
                 /\ UNCHANGED <<link, pending, status, ledger, run, hidden, now, used>>

EditLink(r, u) == /\ u # link[r] /\ used.edits < MaxEdits /\ used' = [used EXCEPT !.edits = @ + 1]
                  /\ link' = [link EXCEPT ![r] = u] /\ status' = [status EXCEPT ![r] = "idle"]
                  /\ current' = current \ {r}
                  /\ UNCHANGED <<pending, total, ledger, run, hidden, now>>

\* reset_stale_watchlist_scans at the next start.
Restart == /\ run # NoRun /\ run' = NoRun
           /\ status' = [r \in Rows |-> IF status[r] \in {"scanning", "downloading"} THEN "idle" ELSE status[r]]
           /\ UNCHANGED <<link, pending, total, ledger, hidden, current, now, used>>

Tick == /\ now < MaxTime /\ now' = now + 1 /\ UNCHANGED <<rowVars, ledger, run, hidden, current, used>>

Next == \/ \E r \in Rows : \/ StartScan(r) \/ StartDownload(r) \/ Forget(r)
                           \/ \E tab \in BOOLEAN : EditLink(r, [Added[r] EXCEPT !.tab = tab])
        \/ \E t \in Tracks : Fetch(t) \/ Unavailable(t) \/ Deferred(t)
        \/ List \/ ScanStops \/ ScanResult \/ EndDownload \/ RefreshTotals \/ Restart \/ Tick
Spec == Init /\ [][Next]_vars

-----------------------------------------------------------------------------
(* Properties *)

\* A track a scan leaves out has failed for good, and the row that hides it can
\* give it back: while it is suppressed it is among what that row's Forget drops,
\* whichever spelling of the link the row was added with or edited to.
HiddenCanBeForgotten ==
    \A r \in Rows : \A t \in hidden[r] \ {x \in Tracks : recorded[x] # None} :
        Suppressed(memory[t]) => t \in Forgettable(r) /\ failures[t] >= 1

\* A card's total is the downloads recorded for its channel, the Watch List's own
\* among them.
TotalCountsDownloads ==
    \A r \in current : run = NoRun =>
        total[r] >= Cardinality({t \in Tracks : recorded[t] # None /\ Canonical(recorded[t]) = Canonical(link[r])})

-----------------------------------------------------------------------------
(* The inductive invariant that the property follows from. *)

Pages == {Added[r].page : r \in Rows}

LinkState == [page : Pages \union {"none"}, tab : BOOLEAN]

RunState == [pc : {"none", "list", "write", "fetch"}, row : Rows \union {"none"}, left : SUBSET Tracks,
             failed : BOOLEAN, seen : SUBSET Tracks, known : SUBSET Tracks]

MemoryState == [url : LinkState, reason : Reasons \union {"none"}, attempts : Nat, last : Nat]

LedgerTypes == /\ link \in [Rows -> LinkState] /\ pending \in [Rows -> SUBSET Tracks] /\ hidden \in [Rows -> SUBSET Tracks]
               /\ run \in RunState /\ memory \in [Tracks -> MemoryState] /\ failures \in [Tracks -> Nat] /\ now \in Nat

\* A row's link keeps its page, whatever its spelling.
LinksKeepPage == \A r \in Rows : link[r].page = Added[r].page

\* What a run goes by, and what a row keeps, are tracks its channel lists.
ListsAreOwn == /\ run.pc # "none" => run.row \in Rows
               /\ run.pc = "fetch" => run.left \subseteq Lists[run.row]
               /\ \A r \in Rows : pending[r] \subseteq Lists[r] /\ hidden[r] \subseteq Lists[r]

\* What the memory has of a track was written by a failure, under the page that lists it.
MemoryIsOwned == \A t \in Tracks : memory[t].reason # "none" =>
    failures[t] >= 1 /\ \E r \in Rows : t \in Lists[r] /\ memory[t].url = [page |-> Added[r].page, tab |-> FALSE]

LedgerInv == LedgerTypes /\ LinksKeepPage /\ ListsAreOwn /\ MemoryIsOwned
=============================================================================
