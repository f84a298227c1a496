------------------------------- MODULE Rebuild -------------------------------
(***************************************************************************)
(* Rebuild Database from Files: the artwork columns are snapshotted, the    *)
(* crate is walked genre by genre and folder by folder, and only when all   *)
(* of it was read is the downloads table cleared and filled again. Beside   *)
(* it: the user's cancel, a genre move that was let in just before, folders *)
(* that cannot be read, database calls that fail quietly, and a kill.       *)
(***************************************************************************)
EXTENDS Integers, FiniteSets, Sequences

CONSTANTS Genres,    \* in the order the walk lists them
          Channels,  \* names of channel folders
          Tracks, Owner, \* audio files, and the channel folder each is in
          Overlap,   \* whether a rebuild may start while a move that was let in goes on
          MaxRuns, MaxMoves, MaxFaults \* bounds

VARIABLES place,    \* the genre each channel's folder is filed under
          rows,     \* the downloads table: <<track, genre in its file_path>>
          art,      \* those of its rows that know their cover art
          covered,  \* tracks whose art is on disk: a sidecar, or in the file
          run,      \* [pc, at, todo, found, snap]: the rebuild
          cancel,   \* its cancel event
          move,     \* a genre move: [pc, c, to], past its refusals
          known, knownart, \* history: at the run's start, tracks with a right row; with art in it
          excused,  \* history: tracks a fault or a kill took from the table, as documented
          runs, moves, faults \* (bounded)

vars == <<place, rows, art, covered, run, cancel, move, known, knownart, excused, runs, moves, faults>>

GenreNames == {Genres[i] : i \in DOMAIN Genres}
Path(t) == <<t, place[Owner[t]]>>
Idle == [pc |-> "idle", at |-> 1, todo |-> {}, found |-> {}, snap |-> {}]
Still == [pc |-> "idle", c |-> "", to |-> ""]
At(pc) == run.pc = pc
Fault == faults < MaxFaults /\ faults' = faults + 1

\* Some rows are right, some name a folder the track is no longer in.
Init == /\ place \in [Channels -> GenreNames] /\ rows \in SUBSET (Tracks \X GenreNames)
        /\ \A t \in Tracks : Cardinality({r \in rows : r[1] = t}) <= 1
        /\ art \in SUBSET rows /\ covered \in SUBSET Tracks
        /\ run = Idle /\ cancel = FALSE /\ move = Still
        /\ known = {} /\ knownart = {} /\ excused = {} /\ runs = 0 /\ moves = 0 /\ faults = 0

\* maintenance_start took the slot; _begin clears the cancel. Nothing in the code
\* keeps it from starting between a move's refusals and its end.
Begin == /\ At("idle") /\ (Overlap \/ move = Still) /\ runs < MaxRuns /\ runs' = runs + 1 /\ cancel' = FALSE
         /\ run' = [Idle EXCEPT !.pc = "snap"]
         /\ known' = {t \in Tracks : Path(t) \in rows} /\ knownart' = {t \in Tracks : Path(t) \in art} /\ excused' = {}
         /\ UNCHANGED <<place, rows, art, covered, move, moves, faults>>

\* get_artwork_by_path: {} when the query fails.
Snapshot == /\ At("snap")
            /\ \/ run' = [run EXCEPT !.pc = "list", !.snap = art] /\ UNCHANGED <<knownart, faults>>
               \/ Fault /\ run' = [run EXCEPT !.pc = "list"] /\ knownart' = {}
            /\ UNCHANGED <<place, rows, art, covered, cancel, move, known, excused, runs, moves>>

\* Mutant of Unreadable: a folder that cannot be read counts as empty.
UnreadableIsEmpty == run' = [run EXCEPT !.at = @ + 1]
\* A folder that cannot be read ends the rebuild before the clear; reading it as
\* empty would leave its tracks out.
Unreadable == run' = Idle

\* channel_folders(strict): the genre folders, each with its channels.
ListGenre == /\ At("list")
             /\ IF run.at > Len(Genres) THEN run' = [run EXCEPT !.pc = "walk"] /\ UNCHANGED faults
                ELSE \/ /\ run' = [run EXCEPT !.at = @ + 1,
                                              !.todo = @ \union {<<c, Genres[run.at]>> : c \in {c \in Channels : place[c] = Genres[run.at]}}]
                        /\ UNCHANGED faults
                     \/ Fault /\ Unreadable
             /\ UNCHANGED <<place, rows, art, covered, cancel, move, known, knownart, excused, runs, moves>>

\* One channel folder: _scan_channel. A file whose mtime cannot be read is left
\* out, and so is its row; a folder that is no longer there raises.
ScanChannel == /\ At("walk") /\ ~cancel /\ run.todo # {}
               /\ \E f \in run.todo :
                    \/ /\ place[f[1]] = f[2]
                       /\ \E missed \in {{}} \union {{t} : t \in {t \in Tracks : Owner[t] = f[1]}} :
                            /\ IF missed = {} THEN UNCHANGED faults ELSE Fault
                            /\ excused' = excused \union missed
                            /\ run' = [run EXCEPT !.todo = @ \ {f},
                                         !.found = @ \union {<<t, f[2]>> : t \in {t \in Tracks : Owner[t] = f[1]} \ missed}]
                    \/ place[f[1]] # f[2] /\ run' = Idle /\ UNCHANGED <<excused, faults>>
                    \/ Fault /\ run' = Idle /\ UNCHANGED excused
               /\ UNCHANGED <<place, rows, art, covered, cancel, move, known, knownart, runs, moves>>

\* After the walk: a cancelled one, or one that found nothing, changes nothing.
Judge == /\ At("walk") /\ (cancel \/ run.todo = {})
         /\ run' = IF cancel \/ run.found = {} THEN Idle ELSE [run EXCEPT !.pc = "clear"]
         /\ UNCHANGED <<place, rows, art, covered, cancel, move, known, knownart, excused, runs, moves, faults>>

\* clear_all_downloads and backfill_downloads: a transaction each, and each logs
\* its failure and returns.
Clear == /\ At("clear") /\ run' = [run EXCEPT !.pc = "fill"]
         /\ \/ rows' = {} /\ art' = {} /\ UNCHANGED faults
            \/ Fault /\ UNCHANGED <<rows, art>>
         /\ UNCHANGED <<place, covered, cancel, move, known, knownart, excused, runs, moves>>
\* Mutant of Resolved: the snapshot is not asked.
ResolvedOnDisk(found, snap) == {r \in found : r[1] \in covered}
\* resolve_artwork: what is on disk, then the snapshot, by exact path.
Resolved(found, snap) == {r \in found : r[1] \in covered \/ r \in snap}
Fill == /\ At("fill") /\ run' = Idle
        /\ \/ /\ rows' = rows \union run.found
              /\ art' = art \union Resolved(run.found, run.snap)
              /\ UNCHANGED <<excused, faults>>
           \/ Fault /\ excused' = Tracks /\ UNCHANGED <<rows, art>>
        /\ UNCHANGED <<place, covered, cancel, move, known, knownart, runs, moves>>

\* maintenance_cancel, at any moment.
Cancel == /\ ~cancel /\ cancel' = TRUE
          /\ UNCHANGED <<place, rows, art, covered, run, move, known, knownart, excused, runs, moves, faults>>

\* A kill; one between the clear and the fill takes the table with it.
Kill == /\ Fault /\ ~At("idle") /\ run' = Idle /\ move' = Still /\ cancel' = FALSE
        /\ excused' = IF At("fill") THEN Tracks ELSE excused
        /\ UNCHANGED <<place, rows, art, covered, known, knownart, runs, moves>>

\* watchlist_edit: the maintenance slot is looked at once, then the folder is
\* moved and the rows are pointed at it (ChannelEdit has the whole call).
EditChecked == /\ move = Still /\ At("idle") /\ moves < MaxMoves /\ moves' = moves + 1
               /\ \E c \in Channels, g \in GenreNames : g # place[c] /\ move' = [pc |-> "checked", c |-> c, to |-> g]
               /\ UNCHANGED <<place, rows, art, covered, run, cancel, known, knownart, excused, runs, faults>>
EditMoves == /\ move.pc = "checked" /\ move' = [move EXCEPT !.pc = "moved"]
             /\ place' = [place EXCEPT ![move.c] = move.to]
             /\ UNCHANGED <<rows, art, covered, run, cancel, known, knownart, excused, runs, moves, faults>>
EditRows == LET Repointed(S) == {IF Owner[r[1]] = move.c THEN <<r[1], move.to>> ELSE r : r \in S}
            IN  /\ move.pc = "moved" /\ move' = Still
                /\ rows' = Repointed(rows) /\ art' = Repointed(art)
                /\ UNCHANGED <<place, covered, run, cancel, known, knownart, excused, runs, moves, faults>>

Next == \/ Begin \/ Snapshot \/ ListGenre \/ ScanChannel \/ Judge \/ Clear \/ Fill \/ Cancel \/ Kill
        \/ EditChecked \/ EditMoves \/ EditRows
Spec == Init /\ [][Next]_vars

-----------------------------------------------------------------------------
\* A rebuild loses no track's row, whatever folder could not be read, however it
\* was cancelled and whatever was moved meanwhile: only a fault in the two writes
\* (or a kill between them) can, or a file that cannot be read itself.
HistoryKept == (~At("fill") /\ move.pc # "moved") => \A t \in known \ excused : Path(t) \in rows

\* And what the table knew of a track's cover art outlives it, found on disk or not.
ArtKept == (~At("fill") /\ move.pc # "moved") => \A t \in knownart \ excused : Path(t) \in art

-----------------------------------------------------------------------------
(* The inductive invariant that the property follows from. *)

Paths == Tracks \X GenreNames

RunState == [pc : {"idle", "snap", "list", "walk", "clear", "fill"}, at : Nat,
             todo : SUBSET (Channels \X GenreNames), found : SUBSET Paths, snap : SUBSET Paths]

RebuildTypes == /\ place \in [Channels -> GenreNames] /\ rows \subseteq Paths /\ art \subseteq Paths
                /\ run \in RunState /\ known \subseteq Tracks /\ knownart \subseteq Tracks
                /\ move = Still \/ move \in [pc : {"checked", "moved"}, c : Channels, to : GenreNames]
                /\ move.pc = "moved" => place[move.c] = move.to

\* No folder is moved while a rebuild runs.
Apart == ~At("idle") => move = Still

\* A table knows a track under its path, or under an older one that the move under
\* way is about to put right.
Knows(table, t) == IF move.pc = "moved" /\ Owner[t] = move.c THEN \E g \in GenreNames : <<t, g>> \in table
                   ELSE Path(t) \in table

\* What was known is in the tables; between the clear and the fill it is in what the
\* walk found, and its art in the snapshot.
TablesKnow == ~At("fill") => /\ \A t \in known \ excused : Knows(rows, t)
                             /\ \A t \in knownart \ excused : Knows(art, t)

SnapKnows == /\ At("snap") => excused = {}
             /\ run.pc \in {"list", "walk", "clear", "fill"} => \A t \in knownart : Path(t) \in run.snap

\* Every folder is listed before the walk, and a track whose folder was walked was
\* found or is excused.
Listed == /\ At("snap") => run.at = 1
          /\ At("list") => \A i \in DOMAIN Genres, c \in Channels :
                i < run.at /\ place[c] = Genres[i] => <<c, Genres[i]>> \in run.todo

WalkIsWhole == run.pc \in {"walk", "clear", "fill"} =>
    \A t \in Tracks \ excused : <<Owner[t], place[Owner[t]]>> \in run.todo \/ Path(t) \in run.found

AllWalked == run.pc \in {"clear", "fill"} => run.todo = {}

RebuildInv == RebuildTypes /\ Apart /\ TablesKnow /\ SnapKnows /\ Listed /\ WalkIsWhole /\ AllWalked

Same == UNCHANGED <<place, rows, art, covered, known, move>>
=============================================================================
