----------------------------- MODULE TagRepair -----------------------------
(***************************************************************************)
(* The genre inside a file and the folder it is filed under: the           *)
(* maintenance sweep that realigns every tag (run_repair_tags over         *)
(* genrefix.py and tagging.py), the genre move of a Watch List channel and *)
(* the retag it spawns, and genre folders that are made and removed.       *)
(***************************************************************************)
EXTENDS Integers

CONSTANTS Channels, Genres,     \* genres are the folder order, numbers
          Tracks,               \* the tracks of each channel's folder
          Editors,              \* threads that may be in watchlist_edit
          MaxEdits, MaxSweeps,
          MaxTrouble            \* writes that fail, and kills

VARIABLES folder,   \* the genre folder each channel is in
          dirs,     \* the genre folders on disk
          tag,      \* each track's [genre, title]; 0 is none
          typed,    \* tracks whose title the user has written by hand
          facts,    \* the sweep's snapshot: <<track, folder>> rows with a title
          sweep,    \* [pc, dirs, channels, tracks] of run_repair_tags
          cancel,
          retag,    \* [pc, channel, genre, tracks] of the worker, with the right to write tags
          edit,     \* [pc, channel, from, to] of each editor
          excused,  \* ghost: channels whose tags somebody was told about, or that no run has seen
          fresh,    \* ghost: those of them since the sweep began
          used

tags == <<tag, typed>>
jobs == <<facts, sweep, cancel>>
ghosts == <<excused, fresh>>
vars == <<folder, dirs, tags, jobs, retag, edit, ghosts, used>>

AllTracks == UNION {Tracks[c] : c \in Channels}
ChannelOf(t) == CHOOSE c \in Channels : t \in Tracks[c]
Resting == [pc |-> "rest", dirs |-> {}, channels |-> {}, tracks |-> {}, genre |-> 0]
NoRetag == [pc |-> "rest", channel |-> 0, genre |-> 0, tracks |-> {}]
NoEdit == [pc |-> "rest", channel |-> 0, from |-> 0, to |-> 0]

(* A library downloaded by older versions: any genre tag, titles there or not. *)
Init == /\ folder \in [Channels -> Genres] /\ dirs = Genres
        /\ \E g \in Genres : tag = [t \in AllTracks |-> [genre |-> g, title |-> "absent"]]
        /\ typed = {} /\ facts = {}
        /\ sweep = Resting /\ cancel = FALSE /\ retag = NoRetag
        /\ edit = [e \in Editors |-> NoEdit]
        /\ excused = Channels /\ fresh = {}
        /\ used = [edits |-> 0, sweeps |-> 0, trouble |-> 0]

Sweeping == sweep.pc # "rest"
Retagging == retag.pc # "rest"
Excuse(c) == excused' = excused \cup {c} /\ fresh' = fresh \cup {c}
Trouble == used.trouble < MaxTrouble /\ used' = [used EXCEPT !.trouble = @ + 1]

-----------------------------------------------------------------------------
\* Mutant of Forced: only where there is no genre.
ForcedIfAbsent(old, wanted) == IF old = 0 THEN wanted ELSE old
(* set_track_genre: the folder wins over what the file says, and a file that
   already agrees is not written. *)
Forced(old, wanted) == wanted

\* Mutant of Filled: what is there is written over.
FilledAlways(old, value) == IF value = "absent" THEN old ELSE value
(* write_track_tags_any without overwrite: only what is absent. *)
Filled(old, value) == IF old = "absent" THEN value ELSE old

(* The database's title, or the file's name when the walk's path is not among
   the facts that were read before it. *)
Known(t, g) == <<t, g>> \in facts
TitleFor(t, g) == IF Known(t, g) THEN "real" ELSE "filename"

(* repair_track: both writers swallow their failures. *)
Repair(t, g, title) ==
    \/ /\ tag' = [tag EXCEPT ![t] = [genre |-> Forced(@.genre, g), title |-> Filled(@.title, title)]]
       /\ UNCHANGED <<used, ghosts>>
    \/ /\ Trouble /\ Excuse(ChannelOf(t))
       /\ UNCHANGED tag

-----------------------------------------------------------------------------
(* run_repair_tags. _start_job and _refuse_while_retagging let it begin. *)
StartSweep ==
    /\ ~Sweeping /\ ~Retagging /\ used.sweeps < MaxSweeps
    /\ used' = [used EXCEPT !.sweeps = @ + 1]
    /\ sweep' = [Resting EXCEPT !.pc = "walk", !.dirs = dirs]
    /\ \E known \in {{}, AllTracks} : facts' = {<<t, folder[ChannelOf(t)]>> : t \in known}
    /\ cancel' = FALSE /\ fresh' = {}
    /\ UNCHANGED <<folder, dirs, tags, retag, edit, excused>>

(* iter_library_tracks lists each level, in order, as the walk comes to it. *)
EnterGenre ==
    /\ sweep.pc = "walk" /\ sweep.tracks = {} /\ sweep.channels = {}
    /\ \E g \in sweep.dirs :
         /\ \A h \in sweep.dirs : g <= h
         /\ sweep' = [sweep EXCEPT !.dirs = @ \ {g}, !.genre = g,
                                   !.channels = {c \in Channels : folder[c] = g}]
    /\ UNCHANGED <<folder, dirs, tags, facts, cancel, retag, edit, ghosts, used>>

EnterChannel(c) ==
    /\ sweep.pc = "walk" /\ sweep.tracks = {} /\ c \in sweep.channels
    /\ sweep' = [sweep EXCEPT !.channels = @ \ {c},
                              !.tracks = IF folder[c] = sweep.genre THEN Tracks[c] ELSE {}]
    /\ UNCHANGED <<folder, dirs, tags, facts, cancel, retag, edit, ghosts, used>>

SweepTrack(t) ==
    /\ sweep.pc = "walk" /\ t \in sweep.tracks /\ ~cancel
    /\ sweep' = [sweep EXCEPT !.tracks = @ \ {t}]
    /\ IF folder[ChannelOf(t)] = sweep.genre
       THEN Repair(t, sweep.genre, TitleFor(t, sweep.genre))
       ELSE UNCHANGED <<tag, used, ghosts>>
    /\ UNCHANGED <<folder, dirs, typed, facts, cancel, retag, edit>>

(* The walk is through, or a cancel was seen before the next file. *)
EndSweep ==
    /\ sweep.pc = "walk"
    /\ \/ cancel /\ sweep.tracks # {} /\ UNCHANGED excused
       \/ sweep.tracks = {} /\ sweep.channels = {} /\ sweep.dirs = {} /\ excused' = fresh
    /\ sweep' = Resting
    /\ UNCHANGED <<folder, dirs, tags, facts, cancel, retag, edit, fresh, used>>

Cancel == /\ Sweeping /\ ~cancel /\ cancel' = TRUE
          /\ UNCHANGED <<folder, dirs, tags, facts, sweep, retag, edit, ghosts, used>>

-----------------------------------------------------------------------------
(* watchlist_edit's refusals, read without the lock, and _change_genre. *)
StartEdit(e, c, g) ==
    /\ edit[e].pc = "rest" /\ used.edits < MaxEdits /\ g # folder[c]
    /\ ~Retagging /\ ~Sweeping
    /\ used' = [used EXCEPT !.edits = @ + 1]
    /\ edit' = [edit EXCEPT ![e] = [pc |-> "mkdir", channel |-> c, from |-> folder[c], to |-> g]]
    /\ UNCHANGED <<folder, dirs, tags, jobs, retag, ghosts>>

MakeDir(e) ==
    /\ edit[e].pc = "mkdir" /\ dirs' = dirs \cup {edit[e].to}
    /\ edit' = [edit EXCEPT ![e].pc = "move"]
    /\ UNCHANGED <<folder, tags, jobs, retag, ghosts, used>>

(* shutil.move: nothing to move when another edit has taken the folder; a genre
   folder that has gone since is made again by the copy it falls back to. *)
Move(e) ==
    LET ed == edit[e] IN
    /\ ed.pc = "move"
    /\ IF folder[ed.channel] = ed.from
       THEN /\ folder' = [folder EXCEPT ![ed.channel] = ed.to]
            /\ dirs' = dirs \cup {ed.to}
            /\ edit' = [edit EXCEPT ![e].pc = "retag"]
       ELSE /\ UNCHANGED <<folder, dirs>>
            /\ edit' = [edit EXCEPT ![e] = NoEdit]
    /\ UNCHANGED <<tags, jobs, retag, ghosts, used>>

(* _retag: claim_tag_writes, or a line in the scan log that the tags were not
   updated. *)
RetagClaimed(e) ==
    /\ edit[e].pc = "retag" /\ ~Sweeping /\ ~Retagging
    /\ retag' = [pc |-> "list", channel |-> edit[e].channel, genre |-> edit[e].to, tracks |-> {}]
    /\ edit' = [edit EXCEPT ![e] = NoEdit]
    /\ UNCHANGED <<folder, dirs, tags, jobs, ghosts, used>>

RetagRefused(e) ==
    /\ edit[e].pc = "retag" /\ (Sweeping \/ Retagging)
    /\ Excuse(edit[e].channel)
    /\ edit' = [edit EXCEPT ![e] = NoEdit]
    /\ UNCHANGED <<folder, dirs, tags, jobs, retag, used>>

(* iter_channel_tracks on the worker thread. *)
ListRetag ==
    /\ retag.pc = "list"
    /\ retag' = [retag EXCEPT !.pc = "walk",
                   !.tracks = IF folder[retag.channel] = retag.genre THEN Tracks[retag.channel] ELSE {}]
    /\ UNCHANGED <<folder, dirs, tags, jobs, edit, ghosts, used>>

RetagTrack(t) ==
    /\ retag.pc = "walk" /\ t \in retag.tracks
    /\ retag' = [retag EXCEPT !.tracks = @ \ {t}]
    /\ IF folder[ChannelOf(t)] = retag.genre THEN Repair(t, retag.genre, "absent")
       ELSE UNCHANGED <<tag, used, ghosts>>
    /\ UNCHANGED <<folder, dirs, typed, jobs, edit>>

EndRetag == /\ retag.pc = "walk" /\ retag.tracks = {} /\ retag' = NoRetag
            /\ UNCHANGED <<folder, dirs, tags, jobs, edit, ghosts, used>>

-----------------------------------------------------------------------------
(* genres_remove: an empty folder only. *)
RemoveGenre(g) == g \in dirs /\ \A c \in Channels : folder[c] # g

RemoveFolder(g) ==
    /\ RemoveGenre(g) /\ dirs' = dirs \ {g}
    /\ UNCHANGED <<folder, tags, jobs, retag, edit, ghosts, used>>

CreateFolder(g) ==
    /\ g \notin dirs /\ dirs' = dirs \cup {g}
    /\ UNCHANGED <<folder, tags, jobs, retag, edit, ghosts, used>>

(* The user types a title in another program. *)
Type(t) == /\ t \notin typed /\ typed' = typed \cup {t}
           /\ tag' = [tag EXCEPT ![t].title = "typed"]
           /\ UNCHANGED <<folder, dirs, jobs, retag, edit, ghosts, used>>

(* The process is killed: the files are as they are, and nothing takes a
   half-done retag up again. *)
Kill == /\ Trouble
        /\ sweep' = Resting /\ retag' = NoRetag /\ edit' = [e \in Editors |-> NoEdit]
        /\ excused' = excused \cup {edit[e].channel : e \in {x \in Editors : edit[x].pc = "retag"}}
                      \cup (IF Retagging THEN {retag.channel} ELSE {})
        /\ cancel' = FALSE /\ UNCHANGED <<folder, dirs, tags, facts, fresh>>

Next == \/ StartSweep \/ EnterGenre \/ EndSweep \/ Cancel \/ ListRetag \/ EndRetag \/ Kill
        \/ \E c \in Channels : EnterChannel(c)
        \/ \E t \in AllTracks : SweepTrack(t) \/ RetagTrack(t) \/ Type(t)
        \/ \E e \in Editors : \/ MakeDir(e) \/ Move(e) \/ RetagClaimed(e) \/ RetagRefused(e)
                              \/ \E c \in Channels, g \in Genres : StartEdit(e, c, g)
        \/ \E g \in Genres : RemoveFolder(g) \/ CreateFolder(g)

Spec == Init /\ [][Next]_vars

(* Once no sweep, retag or edit is under way, the tags of a channel name the
   folder it is in, or somebody was told: the scan log (a refused retag), the
   cancelled sweep's summary, or nobody has asked for a sweep yet. A title typed
   by hand survives every sweep. *)
TagsFollowFolders ==
    /\ ~Sweeping /\ ~Retagging /\ (\A e \in Editors : edit[e].pc # "retag") =>
         \A c \in Channels \ excused : \A t \in Tracks[c] : tag[t].genre = folder[c]
    /\ \A t \in typed : tag[t].title = "typed"

-----------------------------------------------------------------------------
(* The inductive invariant that the property follows from. *)

TagState == [genre : Genres, title : {"absent", "real", "filename", "typed"}]

SweepState == [pc : {"rest", "walk"}, dirs : SUBSET Genres, channels : SUBSET Channels,
               tracks : SUBSET AllTracks, genre : Genres \union {0}]

RetagState == [pc : {"rest", "list", "walk"}, channel : Channels \union {0},
               genre : Genres \union {0}, tracks : SUBSET AllTracks]

EditState == [pc : {"rest", "mkdir", "move", "retag"}, channel : Channels \union {0},
              from : Genres \union {0}, to : Genres \union {0}]

TagTypes ==
    /\ folder \in [Channels -> Genres]
    /\ tag \in [AllTracks -> TagState]
    /\ typed \subseteq AllTracks
    /\ sweep \in SweepState /\ retag \in RetagState /\ edit \in [Editors -> EditState]
    /\ dirs \subseteq Genres

\* Whoever is not at rest is about a channel and a genre.
WorkIsNamed ==
    /\ Retagging => retag.channel \in Channels /\ retag.genre \in Genres
    /\ \A e \in Editors : edit[e].pc # "rest" => edit[e].channel \in Channels /\ edit[e].to \in Genres

FoldersExist == \A c \in Channels : folder[c] \in dirs

TypedStays == \A t \in typed : tag[t].title = "typed"

\* Where a channel stands: its tags agree, or a move of it has its retag to come, or the
\* retag is at it and has the rest of it before it.
Wrong(c) == {t \in Tracks[c] : tag[t].genre # folder[c]}

ToRetag(c) == \E e \in Editors : /\ edit[e].pc = "retag" /\ edit[e].channel = c
                                 /\ edit[e].to = folder[c]

InRetag(c) == /\ retag.channel = c /\ retag.genre = folder[c]
              /\ retag.pc = "list" \/ (retag.pc = "walk" /\ Wrong(c) \subseteq retag.tracks)

Cared(c) == Wrong(c) = {} \/ ToRetag(c) \/ InRetag(c)

\* ... or the sweep has yet to come to it, or is at it.
Ahead(c) == \/ folder[c] \in sweep.dirs
            \/ folder[c] = sweep.genre /\ (c \in sweep.channels \/ Wrong(c) \subseteq sweep.tracks)

CaredNow == \A c \in Channels \ excused : Cared(c)

SweptOrAhead == Sweeping => \A c \in Channels \ fresh : Cared(c) \/ Ahead(c)

TagInv == TagTypes /\ WorkIsNamed /\ FoldersExist /\ TypedStays /\ CaredNow /\ SweptOrAhead
=============================================================================
