----------------------------- MODULE ChannelEdit -----------------------------
(***************************************************************************)
(* Editing a watched channel: its genre (the folder is moved, then the     *)
(* database rewritten, then the link store and the sidecar follow) and then *)
(* its link. Every write may fail; the move is undone when the database    *)
(* did not take it. A folder is named by its genre and its channel's name; *)
(* tracks keep their file names when it moves.                             *)
(***************************************************************************)
EXTENDS Integers, FiniteSets

CONSTANTS Channels,   \* watchlist rows; also the names of their folders
          Genres,
          Urls,       \* links a row may have
          Direct,     \* those of them that spell a channel id
          Tracks,     \* audio files
          Owner,      \* the channel whose folder each is in at first
          Strays,     \* folders of no watched channel, as <<genre, name>>
          Like,       \* pairs <<a, b>> of different names where SQL's LIKE takes a for b
          MaxFaults   \* bound: writes of one call that fail

VARIABLES row,     \* each channel's row: its genre and url
          folders, \* the folders on disk
          file,    \* each track's folder
          record,  \* the folder its downloads row names
          links,   \* the link store: <<genre, name>> |-> url, as triples
          edit,    \* the call: [pc, channel, from, to, url, as]
          faults   \* (bounded)

vars == <<row, folders, file, record, links, edit, faults>>

None == "none"
NoEdit == [pc |-> None, channel |-> None, from |-> None, to |-> None, url |-> None, as |-> None]
Audio(f) == {t \in Tracks : file[t] = f}

\* The channels start filed in one genre, with different links.
Init == /\ \E g \in Genres, u \in [Channels -> Urls] :
             /\ \A a, b \in Channels : a # b => u[a] # u[b]
             /\ row = [c \in Channels |-> [genre |-> g, url |-> u[c]]]
             /\ file = [t \in Tracks |-> <<g, Owner[t]>>]
             /\ folders = {<<g, c>> : c \in Channels} \union Strays
             /\ links = {<<g, c, u[c]>> : c \in Channels}
        /\ \E known \in SUBSET Tracks : record = [t \in Tracks |-> IF t \in known THEN file[t] ELSE <<>>]
        /\ edit = NoEdit /\ faults = 0

At(pc) == edit.pc = pc
Goto(pc) == edit' = [edit EXCEPT !.pc = pc]
Fault == faults < MaxFaults /\ faults' = faults + 1
c0 == edit.channel
Src == <<edit.from, c0>>
Dst == <<edit.to, c0>>

\* After the genre: the link, when the call brought one that is new. The row is
\* read again, its genre is what the link is filed under.
ToLink(genre) == edit' = IF edit.url \in {None, row[c0].url} THEN NoEdit
                         ELSE [edit EXCEPT !.pc = "link", !.as = genre]

-----------------------------------------------------------------------------
\* edit: a genre, a link or both.
Edit(c, g, u) == /\ At(None)
                 /\ edit' = [pc |-> IF g = row[c].genre THEN "same" ELSE "look", channel |-> c,
                             from |-> row[c].genre, to |-> g, url |-> u, as |-> None]
                 /\ faults' = 0 /\ UNCHANGED <<row, folders, file, record, links>>

SameGenre == /\ At("same") /\ ToLink(row[c0].genre)
             /\ UNCHANGED <<row, folders, file, record, links, faults>>

\* _change_genre: a destination that exists is refused, never merged.
Refuse == /\ At("look") /\ Audio(Src) # {} /\ Dst \in folders
          /\ edit' = NoEdit
          /\ UNCHANGED <<row, folders, file, record, links, faults>>

MoveFolder(from, to) == /\ folders' = (folders \ {from}) \union {to}
                        /\ file' = [t \in Tracks |-> IF file[t] = from THEN to ELSE file[t]]

Move == /\ At("look") /\ Audio(Src) # {} /\ Dst \notin folders
        /\ \/ MoveFolder(Src, Dst) /\ Goto("record") /\ UNCHANGED faults
           \/ Fault /\ edit' = NoEdit /\ UNCHANGED <<folders, file>>
        /\ UNCHANGED <<row, record, links>>

\* file_path LIKE 'old/%': the name itself, and any name it takes for it.
Matches(r) == r # <<>> /\ r[1] = edit.from /\ (r[2] = c0 \/ <<c0, r[2]>> \in Like)

\* move_channel_downloads: the records and the row's genre in one transaction,
\* or none of it, and no word.
MoveRecords == /\ At("record") /\ Goto("verdict")
               /\ \/ /\ record' = [t \in Tracks |-> IF Matches(record[t]) THEN Dst ELSE record[t]]
                     /\ row' = [row EXCEPT ![c0].genre = edit.to] /\ UNCHANGED faults
                  \/ Fault /\ UNCHANGED <<row, record>>
               /\ UNCHANGED <<folders, file, links>>

\* Mutant of GenreCommitted: by the count of records moved, as the monolith does.
GenreCommittedByCount == \E t \in Tracks : record[t] = Dst

\* _genre_committed: the row is read back.
GenreCommitted == row[c0].genre = edit.to

Committed == /\ At("verdict") /\ GenreCommitted /\ Goto("mirror")
             /\ UNCHANGED <<row, folders, file, record, links, faults>>

\* _rollback_move: the files go back, or the row goes after them.
RollBack == /\ At("verdict") /\ ~GenreCommitted
            /\ \/ MoveFolder(Dst, Src) /\ edit' = NoEdit /\ UNCHANGED faults
               \/ Fault /\ Goto("drag") /\ UNCHANGED <<folders, file>>
            /\ UNCHANGED <<row, record, links>>

DragRow == /\ At("drag") /\ edit' = NoEdit
           /\ \/ row' = [row EXCEPT ![c0].genre = edit.to] /\ UNCHANGED faults
              \/ Fault /\ UNCHANGED row
           /\ UNCHANGED <<folders, file, record, links>>

\* No tracks: an empty folder goes along if it can, the row is written unasked.
MovePlaceholder == /\ At("look") /\ Audio(Src) = {} /\ Goto("file")
                   /\ \/ /\ Src \in folders /\ Dst \notin folders
                         /\ MoveFolder(Src, Dst) /\ UNCHANGED faults
                      \/ /\ Src \notin folders \/ Dst \in folders
                         /\ UNCHANGED <<folders, file, faults>>
                      \/ Fault /\ UNCHANGED <<folders, file>>
                   /\ UNCHANGED <<row, record, links>>

FileRow == /\ At("file") /\ Goto("mirror")
           /\ \/ row' = [row EXCEPT ![c0].genre = edit.to] /\ UNCHANGED faults
              \/ Fault /\ UNCHANGED row
           /\ UNCHANGED <<folders, file, record, links>>

\* save_link under one key, remove_link of another.
Saved(ls, g, u) == {l \in ls : ~(l[1] = g /\ l[2] = c0)} \union {<<g, c0, u>>}
Removed(ls, g) == {l \in ls : ~(l[1] = g /\ l[2] = c0)}

\* _repoint: two writes that may each fail, then the sidecar.
Mirror == /\ At("mirror") /\ ToLink(row[c0].genre)
          /\ \/ links' = Removed(Saved(links, edit.to, row[c0].url), edit.from) /\ UNCHANGED faults
             \/ Fault /\ links' \in {Removed(links, edit.from), Saved(links, edit.to, row[c0].url)}
          /\ UNCHANGED <<row, folders, file, record>>

-----------------------------------------------------------------------------
(* _apply_url and _persist_resolved *)

\* A link that spells no id is stored, then probed; the probe may not tell.
StoreUrl == /\ At("link") /\ edit.url \notin Direct
            /\ LET free == \A c \in Channels \ {c0} : row[c].url # edit.url
               IN  row' = IF free THEN [row EXCEPT ![c0].url = edit.url] ELSE row
            /\ links' = Saved(links, edit.as, edit.url)
            /\ \/ Goto("persist") \/ edit' = NoEdit
            /\ UNCHANGED <<folders, file, record, faults>>

\* Owned by another row: refused. The row, the link store, then the folder, made
\* if it is not there, for its sidecar.
Persist == /\ At("persist") \/ (At("link") /\ edit.url \in Direct)
           /\ edit' = NoEdit
           /\ IF \E c \in Channels \ {c0} : row[c].url = edit.url
              THEN UNCHANGED <<row, folders, links>>
              ELSE /\ row' = [row EXCEPT ![c0].url = edit.url]
                   /\ links' = Saved(links, edit.as, edit.url)
                   /\ folders' = folders \union {<<edit.as, c0>>}
           /\ UNCHANGED <<file, record, faults>>

PersistFails == /\ At("persist") \/ (At("link") /\ edit.url \in Direct)
                /\ Fault /\ edit' = NoEdit
                /\ UNCHANGED <<row, folders, file, record, links>>

Next == \/ \E c \in Channels, g \in Genres, u \in Urls \union {None} : Edit(c, g, u)
        \/ SameGenre \/ Refuse \/ Move \/ MoveRecords \/ Committed \/ RollBack \/ DragRow
        \/ MovePlaceholder \/ FileRow \/ Mirror \/ StoreUrl \/ Persist \/ PersistFails

Spec == Init /\ [][Next]_vars

-----------------------------------------------------------------------------
(* Properties *)

\* Whatever write fails, once the call has returned a channel's tracks are all in
\* the folder its row names.
FiledTogether == At(None) => \A t \in Tracks : file[t] = <<row[Owner[t]].genre, Owner[t]>>

\* Moving a channel leaves the records of the others alone (move_channel_downloads'
\* docstring: partial-name collisions can't leak).
OtherRecordsKept ==
    [][At("record") => \A t \in Tracks : Owner[t] # c0 => record'[t] = record[t]]_vars

-----------------------------------------------------------------------------
(* The inductive invariant that the property follows from. *)

EditState == [pc : {None, "same", "look", "record", "verdict", "drag", "file", "mirror", "link", "persist"},
              channel : Channels \union {None}, from : Genres \union {None}, to : Genres \union {None},
              url : Urls \union {None}, as : Genres \union {None}]

EditTypes == /\ row \in [Channels -> [genre : Genres, url : Urls]] /\ file \in [Tracks -> Genres \X Channels]
             /\ edit \in EditState /\ faults \in 0 .. MaxFaults
             /\ At("link") \/ At("persist") => edit.url \in Urls
             /\ ~At(None) => c0 \in Channels /\ edit.from \in Genres /\ edit.to \in Genres

\* A track is in the folder its channel's row names.
Filed(t) == file[t] = <<row[Owner[t]].genre, Owner[t]>>

\* Where the channel's tracks and its row are during the call: a row that stays
\* behind its folder cost the call a write, one that is dragged after it two.
PhaseIs(pc, c, from, to) ==
    /\ pc \in {"same", "look", "mirror", "link", "persist"} => \A t \in Tracks : Owner[t] = c => Filed(t)
    /\ pc \in {"record", "verdict", "drag"} => \A t \in Tracks : Owner[t] = c => file[t] = <<to, c>>
    /\ pc = "file" => \A t \in Tracks : Owner[t] # c
    /\ pc \in {"look", "record", "drag"} => row[c].genre = from
    /\ pc \in {"look", "record", "verdict"} => from # to
    /\ pc = "verdict" => row[c].genre = to \/ (row[c].genre = from /\ faults >= 1)
    /\ pc = "drag" => faults >= 2

CallIsKnown == /\ \A t \in Tracks : (~At(None) /\ Owner[t] = c0) \/ Filed(t)
               /\ ~At(None) => PhaseIs(edit.pc, c0, edit.from, edit.to)

EditInv == EditTypes /\ CallIsKnown

\* The state a step leaves, typed.
Rest == /\ row' \in [Channels -> [genre : Genres, url : Urls]] /\ file' \in [Tracks -> Genres \X Channels]
        /\ faults' \in 0 .. MaxFaults
=============================================================================
