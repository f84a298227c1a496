---------------------------- MODULE TrackDownload ----------------------------
(***************************************************************************)
(* One channel's tracks over many runs: the scan that surfaces them, the    *)
(* skip decision, the two-rung attempt ladder of a download, what it writes *)
(* when it ends, and the memory of tracks that can never be had. A file is  *)
(* its normalized track key; an error is the set of markers its text has.   *)
(***************************************************************************)
EXTENDS Integers, FiniteSets

CONSTANTS Tracks,     \* video ids the channel lists
          Keys,       \* normalized track keys
          Key,        \* the key each track's title normalizes to
          Gated,      \* the tracks behind the age gate
          Locked,     \* those of them that stay gated without cookies too
          Modes,      \* the skip modes runs use: "watch", "both", "folder", "db"
          MaxAttempts,\* attempts per rung (MAX_ATTEMPTS)
          MaxTrouble, \* bound: wobbles, lost writes, kills and cancels
          MaxBlips    \* bound: permanent-looking failures of a track that is there

VARIABLES site,    \* "soon", "out" or "gone": what the channel really has
          disk,    \* keys with a file in the channel's folder
          rows,    \* the downloads table, by path: the video id each row holds
          memory,  \* unavailable_tracks: [why, n, old] per track
          run,     \* the run in flight
          fetched, \* how often each key's file was fetched since it last went missing
          vanished,\* tracks that were once really gone from the site
          blips,   \* permanent-looking failures of tracks that were there (bounded)
          trouble  \* (bounded)

vars == <<site, disk, rows, memory, run, fetched, vanished, blips, trouble>>

None == "none"
Idle == [pc |-> "idle", mode |-> None, todo |-> {}, upcoming |-> {}, snap |-> {}, t |-> None,
         auth |-> FALSE, attempt |-> 0, calls |-> 0, age |-> None, cookies |-> FALSE]
Forgotten == [why |-> None, n |-> 0, old |-> FALSE]

\* Mutant of Suppressed: after one bad answer.
SuppressedAtOnce(m) == m.why # None /\ m.n >= 1 /\ ~m.old
\* db.is_suppressed; a Geo-blocked memory is old after GEO_RECHECK_SECONDS.
Suppressed(m) == \/ m.why = "DRM-protected" /\ m.n >= 1
                 \/ m.why = "Removed" /\ m.n >= 2
                 \/ m.why = "Geo-blocked" /\ m.n >= 2 /\ ~m.old

InTable(t) == \E k \in Keys : rows[k] = t

\* is_unreleased_entry: which entries of a listing say they are not out yet. Some
\* listings do not say (a live_status that is missing from the page's markup).
Listings == {{t \in Tracks : site[t] = "soon"}, {}}

\* ChannelCrate.owns: the scan's verdict.
Verdict(t, upcoming, snap) == CASE InTable(t) -> "owned-by-id"
                      [] ~InTable(t) /\ Suppressed(memory[t]) -> "unavailable"
                      [] ~InTable(t) /\ ~Suppressed(memory[t]) /\ t \in upcoming -> "upcoming"
                      [] OTHER -> IF Key[t] \in snap THEN "owned-on-disk" ELSE "new"

\* skip_decision, unattended: asking about a redownload answers skip.
Skips(mode, indb, ondisk) == CASE mode \in {"watch", "both"} -> indb \/ ondisk
                               [] mode = "folder" -> ondisk
                               [] mode = "db" -> indb

Permanent == {"DRM-protected", "Removed", "Geo-blocked"}

\* Mutant of Classify: what is gone before what is not out yet.
ClassifyGoneFirst(error) == IF error \cap Permanent # {} THEN "unavailable"
                            ELSE IF "soon" \in error THEN "deferred" ELSE "failed"
\* classify_download_failure: deferred is looked for first, then what is permanent.
Classify(error) == IF "soon" \in error THEN "deferred"
                   ELSE IF error \cap Permanent # {} THEN "unavailable"
                   ELSE "failed"

Init == /\ site \in [Tracks -> {"soon", "out"}] /\ disk = {} /\ rows = [k \in Keys |-> None]
        /\ memory = [t \in Tracks |-> Forgotten] /\ run = Idle
        /\ fetched = [k \in Keys |-> 0] /\ vanished = {} /\ blips = 0 /\ trouble = 0

Trouble == trouble < MaxTrouble /\ trouble' = trouble + 1
At(pc) == run.pc = pc

\* The scan of a Watch List run: what it finds on disk it records, what is new
\* is downloaded. classify_scan_entries, then backfill_downloads.
ScanAndStart ==
    /\ At("idle") /\ "watch" \in Modes
    /\ \E upcoming \in Listings, cookies \in BOOLEAN :
         LET Listed(v) == {t \in Tracks : site[t] # "gone" /\ Verdict(t, upcoming, disk) = v}
             old == Listed("owned-on-disk")
         IN  /\ \E to \in [{Key[t] : t \in old} -> old] :
                  /\ \A k \in DOMAIN to : Key[to[k]] = k
                  /\ rows' = [k \in Keys |-> IF k \in DOMAIN to /\ rows[k] = None THEN to[k] ELSE rows[k]]
             /\ run' = [Idle EXCEPT !.pc = "next", !.mode = "watch", !.todo = Listed("new"), !.upcoming = upcoming,
                                    !.snap = disk, !.cookies = cookies]
    /\ UNCHANGED <<site, disk, memory, fetched, vanished, blips, trouble>>

\* A row of the queue: every track of the channel, in the user's skip mode.
BatchStart ==
    /\ At("idle")
    /\ \E mode \in Modes \ {"watch"}, upcoming \in Listings, cookies \in BOOLEAN :
         run' = [Idle EXCEPT !.pc = "next", !.mode = mode, !.todo = {t \in Tracks : site[t] # "gone"},
                             !.upcoming = upcoming, !.snap = disk, !.cookies = cookies]
    /\ UNCHANGED <<site, disk, rows, memory, fetched, vanished, blips, trouble>>

\* run_tracks: the next track's pre-flight, which downloads it, skips or holds it.
PreFlight == /\ At("next")
             /\ \E t \in run.todo :
                  run' = IF t \in run.upcoming \/ Skips(run.mode, InTable(t), Key[t] \in run.snap)
                         THEN [run EXCEPT !.todo = @ \ {t}]
                         ELSE [run EXCEPT !.todo = @ \ {t}, !.pc = "call", !.t = t, !.auth = run.cookies,
                                          !.attempt = 1, !.calls = 1, !.age = None]
             /\ UNCHANGED <<site, disk, rows, memory, fetched, vanished, blips, trouble>>
RunEnds == /\ At("next") /\ run.todo = {} /\ run' = Idle
           /\ UNCHANGED <<site, disk, rows, memory, fetched, vanished, blips, trouble>>

\* What the runner raises for a track that cannot be had now.
Refusals(t) == CASE site[t] = "soon" -> {{"soon"}, {"soon", "Removed"}}
                 [] site[t] = "gone" -> {{"DRM-protected"}, {"Removed"}, {"Geo-blocked"}}
                 [] OTHER -> IF t \in Gated /\ (run.auth \/ t \in Locked) THEN {{"age"}} ELSE {}

\* Mutant of ClimbsDown: also when the rung had no cookies to drop.
ClimbsDownAgain(age, error) == age = "yes" /\ "wobble" \notin error
\* After a failure that is not worth another attempt: once without cookies when
\* the first failure of the track read like the age gate, else _record_failure.
ClimbsDown(age, error) == age = "yes" /\ run.auth /\ "wobble" \notin error
Failed(error) ==
    LET age == IF run.age # None THEN run.age ELSE IF "age" \in error THEN "yes" ELSE "no"
    IN  IF ClimbsDown(age, error)
        THEN /\ run' = [run EXCEPT !.auth = FALSE, !.attempt = 1, !.calls = @ + 1, !.age = age]
             /\ UNCHANGED memory
        ELSE /\ IF Classify(error) = "unavailable"
                THEN \E why \in error \cap Permanent :
                       memory' = [memory EXCEPT ![run.t] = [why |-> why, n |-> @.n + 1, old |-> FALSE]]
                ELSE UNCHANGED memory
             /\ run' = [run EXCEPT !.pc = "next", !.t = None, !.calls = 0]

\* _attempts: the runner was refused, or its transient errors ran out.
Refused == /\ At("call") /\ \E error \in Refusals(run.t) : Failed(error)
           /\ UNCHANGED <<site, disk, rows, fetched, vanished, blips, trouble>>
Blip == /\ At("call") /\ site[run.t] # "gone" /\ blips < MaxBlips /\ blips' = blips + 1
        /\ \E why \in {"Removed", "Geo-blocked"} : Failed({why})
        /\ UNCHANGED <<site, disk, rows, fetched, vanished, trouble>>
Wobbled == /\ At("call") /\ Trouble
           /\ IF run.attempt < MaxAttempts
              THEN run' = [run EXCEPT !.attempt = @ + 1, !.calls = @ + 1] /\ UNCHANGED memory
              ELSE \E error \in {{"wobble"}} \union {e \union {"wobble"} : e \in Refusals(run.t)} : Failed(error)
           /\ UNCHANGED <<site, disk, rows, fetched, vanished, blips>>

\* Mutant of Remember: the index is not told of a new file.
RememberNot(snap, k) == snap
\* _record_success: the file is there, the crate remembers it, and the row names
\* it; a row of another id at this path is taken over (add_download), a write
\* that fails is only logged.
Remember(snap, k) == snap \union {k}
Fetched == /\ At("call") /\ site[run.t] = "out" /\ Refusals(run.t) = {}
           /\ LET k == Key[run.t] IN
                /\ disk' = disk \union {k} /\ fetched' = [fetched EXCEPT ![k] = @ + 1]
                /\ \/ rows' = [rows EXCEPT ![k] = run.t] /\ UNCHANGED trouble
                   \/ Trouble /\ UNCHANGED rows
                /\ run' = [run EXCEPT !.pc = "next", !.t = None, !.calls = 0, !.snap = Remember(@, k)]
           /\ UNCHANGED <<site, memory, vanished, blips>>

\* Cancelling (the run, or the row's Skip) or a kill: the track leaves nothing.
Stop == /\ ~At("idle") /\ Trouble /\ run' = Idle
        /\ UNCHANGED <<site, disk, rows, memory, fetched, vanished, blips>>

\* The world: premieres air, tracks are withdrawn, a Geo memory ages, the user
\* deletes a file or forgets the channel's unavailable tracks.
Airs == /\ \E t \in Tracks : site[t] = "soon" /\ site' = [site EXCEPT ![t] = "out"]
        /\ UNCHANGED <<disk, rows, memory, run, fetched, vanished, blips, trouble>>
Withdrawn == /\ Trouble
             /\ \E t \in Tracks : /\ site[t] = "out" /\ site' = [site EXCEPT ![t] = "gone"]
                                  /\ vanished' = vanished \union {t}
             /\ UNCHANGED <<disk, rows, memory, run, fetched, blips>>
GeoAges == /\ \E t \in Tracks : /\ memory[t].why = "Geo-blocked" /\ ~memory[t].old
                                /\ memory' = [memory EXCEPT ![t].old = TRUE]
           /\ UNCHANGED <<site, disk, rows, run, fetched, vanished, blips, trouble>>
Deletes == /\ Trouble
           /\ \E k \in disk : disk' = disk \ {k} /\ fetched' = [fetched EXCEPT ![k] = 0]
           /\ UNCHANGED <<site, rows, memory, run, vanished, blips>>
Forget == /\ Trouble /\ memory' = [t \in Tracks |-> Forgotten]
          /\ UNCHANGED <<site, disk, rows, run, fetched, vanished, blips>>

Next == \/ ScanAndStart \/ BatchStart \/ PreFlight \/ RunEnds \/ Refused \/ Blip \/ Wobbled \/ Fetched
        \/ Stop \/ Airs \/ Withdrawn \/ GeoAges \/ Deletes \/ Forget
Spec == Init /\ [][Next]_vars

\* Watch List runs come round, a run goes on, and the ladder never hangs.
FairSpec == /\ Spec /\ WF_vars(ScanAndStart) /\ WF_vars(PreFlight) /\ WF_vars(RunEnds)
            /\ WF_vars(Refused) /\ WF_vars(Fetched) /\ WF_vars(Airs)

-----------------------------------------------------------------------------
\* A track that was never really gone is remembered as unavailable no more often
\* than a permanent-looking error struck it, and one such error hides nothing: a
\* premiere that is refused before it airs is never buried, whatever else its
\* error text says.
PremiereIsKept == \A t \in Tracks \ vanished : /\ memory[t].n <= blips
                                               /\ blips <= 1 => ~Suppressed(memory[t])

\* However the attempts, the wobbles and the age gate combine, one track costs at
\* most one rung with cookies and one without.
LadderEnds == run.calls <= 2 * MaxAttempts

\* A file is fetched once for as long as it stays on disk, though two tracks of a
\* channel normalize to its name, a row was lost, or runs were stopped half way.
OneFetchPerFile == \A k \in Keys : fetched[k] <= 1

\* A track that is out and stays out is had in the end, or its name is: through
\* premieres, wobbles, stopped runs, lost rows and the age gate.
Out(t) == site[t] # "gone"
Had(t) == Key[t] \in disk \/ InTable(t)
TrackArrives == \A t \in Tracks \ Locked : Out(t) ~> ~Out(t) \/ Had(t)

-----------------------------------------------------------------------------
(* The inductive invariant that the property follows from. *)

RunState == [pc : {"idle", "next", "call"}, mode : Modes \union {None},
             todo : SUBSET Tracks, upcoming : SUBSET Tracks, snap : SUBSET Keys,
             t : Tracks \union {None}, auth : BOOLEAN, attempt : Nat, calls : Nat,
             age : {None, "yes"}, cookies : BOOLEAN]

\* A rung is climbed down once, and only from the one with cookies.
RunIsSane ==
    /\ run \in RunState /\ disk \subseteq Keys
    /\ ~At("idle") => run.mode \in Modes
    /\ At("call") =>
          /\ run.t \in Tracks /\ 1 <= run.attempt /\ run.attempt <= MaxAttempts
          /\ run.age = None => run.calls = run.attempt
          /\ run.age = "yes" => ~run.auth /\ run.calls <= MaxAttempts + run.attempt
    /\ ~At("call") => run.calls = 0

\* What was fetched is there, and the run in flight knows; it fetches nothing else.
FetchesAreKnown ==
    /\ fetched \in [Keys -> Nat]
    /\ \A k \in Keys : /\ fetched[k] <= 1
                       /\ fetched[k] > 0 => k \in disk /\ (~At("idle") => k \in run.snap)
    /\ At("call") => Key[run.t] \notin run.snap

\* Only a blip is remembered of a track that was never gone, and never as DRM.
MemoryIsFair ==
    /\ memory \in [Tracks -> [why : Permanent \union {None}, n : Nat, old : BOOLEAN]]
    /\ site \in [Tracks -> {"soon", "out", "gone"}] /\ blips \in Nat
    /\ \A t \in Tracks : site[t] = "gone" => t \in vanished
    /\ \A t \in Tracks \ vanished : memory[t].n <= blips /\ memory[t].why # "DRM-protected"

Remembered(t, why) == memory' = [memory EXCEPT ![t] = [why |-> why, n |-> @.n + 1, old |-> FALSE]]
=============================================================================
