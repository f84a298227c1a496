------------------------------ MODULE TrackNames ------------------------------
(***************************************************************************)
(* Titles and the files that hold them. yt-dlp names a file its own way,    *)
(* the crate knows files and titles by a key few characters survive in, the *)
(* channel's listing by another; a file's tag, its row and its cover art    *)
(* say which upload it is. Beside the runs: database rebuilds, the artwork  *)
(* backfill's recovery of lost ids, kills, and files others put or change.  *)
(***************************************************************************)
EXTENDS FiniteSets, Naturals

CONSTANTS Tracks,    \* uploads
          Listings,  \* sets of them a channel may list at first
          Title,     \* of each: its words, a mark among them, padding, whether it ends in ".wav"
          Owned,     \* names of MP3s that may be in the folder before the first run
          MaxTrouble \* bound: tags lost, uploads withdrawn, kills

VARIABLES files,   \* the channel's folder, by name: [of, tag, art], the upload in it, in its tag, in its cover
          thumbs,  \* images beside the tracks, by stem: the upload each is of
          rows,    \* the downloads table, by path: the video id, or None
          listed,  \* the uploads the channel lists
          run,     \* the batch in flight: [pc, mode, keep, todo, index, t, cover]
          found,   \* the last recovery: [file, id]
          astray,  \* history: files whose tag was lost or never written
          adopted, \* history: files an original-format run recorded for the one it wrote
          trouble  \* (bounded)

vars == <<files, thumbs, rows, listed, run, found, astray, adopted, trouble>>

None == "none"
NoKey == <<>>
Idle == [pc |-> "idle", mode |-> None, keep |-> FALSE, todo |-> {}, index |-> <<>>, t |-> None, cover |-> FALSE]
NotYet == [file |-> None, id |-> None]
At(pc) == run.pc = pc
Put(f, k, x) == [i \in DOMAIN f \cup {k} |-> IF i = k THEN x ELSE f[i]]
Trouble == trouble < MaxTrouble /\ trouble' = trouble + 1

-----------------------------------------------------------------------------
(* Names. *)

Named(title, mark, pad, ext) ==
    [words |-> title.words, mark |-> mark, pad |-> pad, ends |-> title.ends, ext |-> ext]

\* yt-dlp's sanitize_filename: a look-alike for what a file name cannot hold.
YtdlName(title, ext) == Named(title, IF title.mark = "query" THEN "wide" ELSE title.mark, title.pad, ext)

\* safe_filename, stripped.
LegacyName(title) == Named(title, IF title.mark = "query" THEN "underscore" ELSE title.mark, FALSE, "mp3")

Stem(name) == Named(name, name.mark, name.pad, "")

\* normalize_track_key: ASCII letters and digits, after one audio extension.
NormalizeTrackKey(x) == IF x.words = "beyond ascii" THEN NoKey
                        ELSE <<x.words, "ext" \in DOMAIN x /\ x.ends>>

\* normalize_title_key, of a title or of a file's stem: all letters and digits.
NormalizeTitleKey(x) == <<x.words, x.ends>>

\* Mutant of FindExisting: the legacy name first.
FindLegacyFirst(title) == IF LegacyName(title) \in DOMAIN files THEN {LegacyName(title)}
                          ELSE DOMAIN files \cap {YtdlName(title, "mp3")}
\* find_existing: what yt-dlp writes today, then the legacy name.
FindExisting(title) == IF YtdlName(title, "mp3") \in DOMAIN files THEN {YtdlName(title, "mp3")}
                       ELSE DOMAIN files \cap {LegacyName(title)}

\* index_folder: one of the MP3s of each key, none for an empty key.
Mp3s == {f \in DOMAIN files : f.ext = "mp3"}
Keys(names) == {NormalizeTrackKey(f) : f \in names} \ {NoKey}
IndexFolder == {index \in [Keys(Mp3s) -> Mp3s] : \A k \in Keys(Mp3s) : NormalizeTrackKey(index[k]) = k}

\* ChannelCrate.remember: the first name wins.
Remember(index, f) == LET k == NormalizeTrackKey(f)
                      IN IF k = NoKey \/ k \in DOMAIN index THEN index ELSE Put(index, k, f)

\* build_title_index and lookup_video_id: a key two uploads share gives none of them.
LookupVideoId(f) == LET alike == {t \in listed : NormalizeTitleKey(Title[t]) = NormalizeTitleKey(f)}
                    IN IF Cardinality(alike) = 1 THEN alike ELSE {}

Init == /\ \E names \in SUBSET Owned : files = [f \in names |-> [of |-> "user", tag |-> None, art |-> None]]
        /\ thumbs = <<>> /\ rows = <<>> /\ listed \in Listings /\ run = Idle
        /\ found = NotYet
        /\ astray = {} /\ adopted = {} /\ trouble = 0

-----------------------------------------------------------------------------
(* A batch over the channel. *)

Start == /\ At("idle")
         /\ \E mode \in {"both", "db"}, keep \in BOOLEAN, index \in IndexFolder :
              run' = [Idle EXCEPT !.pc = "next", !.mode = mode, !.keep = keep, !.todo = listed, !.index = index]
         /\ found' = NotYet
         /\ UNCHANGED <<files, thumbs, rows, listed, astray, adopted, trouble>>

InDb(t) == \E f \in DOMAIN rows : rows[f] = t
Path(t) == LET k == NormalizeTrackKey(Title[t]) IN IF k \in DOMAIN run.index THEN {run.index[k]} ELSE {}
Skips(t) == InDb(t) \/ (run.mode = "both" /\ Path(t) # {})

\* tag_track: a field that is there is left alone; a WebM takes no tags.
Tag(f, t) == IF f.ext = "mp3" /\ files[f].tag = None THEN [files[f] EXCEPT !.tag = t] ELSE files[f]

\* A skipped track's file is tagged if it has no tag (_settle).
Skip == /\ At("next")
        /\ \E t \in run.todo : /\ Skips(t)
                               /\ run' = [run EXCEPT !.todo = @ \ {t}]
                               /\ files' = [f \in DOMAIN files |-> IF f \in Path(t) THEN Tag(f, t) ELSE files[f]]
        /\ UNCHANGED <<thumbs, rows, listed, found, astray, adopted, trouble>>

\* yt-dlp: an MP3 is encoded anew, an original that is there is not fetched again;
\* the image goes beside it unless one is there.
Fetch == /\ At("next")
         /\ \E t \in run.todo, cover \in BOOLEAN :
              LET f == YtdlName(Title[t], IF run.keep THEN "webm" ELSE "mp3")
              IN /\ ~Skips(t)
                 /\ files' = IF run.keep /\ f \in DOMAIN files THEN files
                             ELSE Put(files, f, [of |-> t, tag |-> None, art |-> None])
                 /\ thumbs' = IF cover /\ Stem(f) \notin DOMAIN thumbs THEN Put(thumbs, Stem(f), t) ELSE thumbs
                 /\ run' = [run EXCEPT !.pc = "record", !.todo = @ \ {t}, !.t = t, !.cover = cover]
         /\ UNCHANGED <<rows, listed, found, astray, adopted, trouble>>

Written == YtdlName(Title[run.t], IF run.keep THEN "webm" ELSE "mp3")

\* _record_success: the file is looked up, remembered, tagged, given its cover
\* (harvest_cover_art) and its row.
Record == /\ At("record")
          /\ \E f \in IF FindExisting(Title[run.t]) = {} THEN {Written} ELSE FindExisting(Title[run.t]) :
               LET cover == run.cover /\ Stem(f) \in DOMAIN thumbs
               IN /\ files' = [files EXCEPT ![f] = IF cover THEN [Tag(f, run.t) EXCEPT !.art = thumbs[Stem(f)]]
                                                   ELSE Tag(f, run.t)]
                  /\ thumbs' = IF cover THEN [s \in DOMAIN thumbs \ {Stem(f)} |-> thumbs[s]] ELSE thumbs
                  /\ rows' = Put(rows, f, run.t)
                  /\ run' = [run EXCEPT !.pc = "next", !.t = None, !.cover = FALSE, !.index = Remember(@, f)]
                  /\ adopted' = IF f = Written THEN adopted \ {f} ELSE adopted \cup {f}
                  /\ astray' = IF f = Written THEN astray \ {f} ELSE astray
          /\ UNCHANGED <<listed, found, trouble>>

End == /\ At("next") /\ run.todo = {} /\ run' = Idle
       /\ UNCHANGED <<files, thumbs, rows, listed, found, astray, adopted, trouble>>

Kill == /\ ~At("idle") /\ Trouble /\ run' = Idle
        /\ astray' = IF At("record") THEN astray \cup {Written} ELSE astray
        /\ UNCHANGED <<files, thumbs, rows, listed, found, adopted>>

-----------------------------------------------------------------------------
(* The maintenance jobs. *)

\* Rebuild: a row per file, its id from the file's tag (recover_video_id) or, when
\* the old row had anything of a cover, from that row.
Rebuild == /\ At("idle") /\ DOMAIN files # {}
           /\ \E kept \in {{}, DOMAIN rows} :
                rows' = [f \in DOMAIN files |-> IF files[f].tag # None THEN files[f].tag
                                                ELSE IF f \in kept THEN rows[f] ELSE None]
           /\ UNCHANGED <<files, thumbs, listed, run, found, astray, adopted, trouble>>

\* _process: a lost id from the listing, then the image beside the track, or the
\* one the id leads to.
Backfill(f) ==
    /\ At("idle") /\ f \in DOMAIN rows /\ files[f].art = None
    /\ \E id \in IF rows[f] # None THEN {rows[f]} ELSE LookupVideoId(f) \cup {None} :
         /\ rows' = [rows EXCEPT ![f] = id]
         /\ found' = IF rows[f] = None THEN [file |-> f, id |-> id] ELSE found
         /\ files' = [files EXCEPT ![f].art = IF Stem(f) \in DOMAIN thumbs THEN thumbs[Stem(f)] ELSE id]
         /\ thumbs' = [s \in DOMAIN thumbs \ {Stem(f)} |-> thumbs[s]]
    /\ UNCHANGED <<listed, run, astray, adopted, trouble>>

-----------------------------------------------------------------------------
(* The rest of the world. *)

\* Another program rewrites a file's tags.
Untag(f) == /\ At("idle") /\ Trouble /\ files[f].tag # None
            /\ files' = [files EXCEPT ![f].tag = None] /\ astray' = astray \cup {f}
            /\ UNCHANGED <<thumbs, rows, listed, run, found, adopted>>

Withdraw(t) == /\ At("idle") /\ Trouble /\ t \in listed /\ listed' = listed \ {t}
               /\ UNCHANGED <<files, thumbs, rows, run, found, astray, adopted>>

Next == \/ Start \/ Skip \/ Fetch \/ Record \/ End \/ Kill \/ Rebuild
        \/ \E f \in DOMAIN files : Backfill(f) \/ Untag(f)
        \/ \E t \in Tracks : Withdraw(t)

Spec == Init /\ [][Next]_vars

-----------------------------------------------------------------------------
(* Properties *)

Fetched(f) == files[f].of \in Tracks /\ ~(At("record") /\ f = Written)

\* An MP3 a run fetched is on record as the upload it is, in its row and in its tag,
\* whatever files of like names the folder holds, through later runs and rebuilds,
\* until its tag is lost or an original-format run takes it for its own file.
FetchedIsRecorded ==
    \A f \in Mp3s \ (astray \cup adopted) :
        Fetched(f) => f \in DOMAIN rows /\ rows[f] = files[f].of /\ files[f].tag = files[f].of

\* A lost id that is given back is the file's own while the channel lists that
\* (build_title_index: matching it would risk embedding the wrong art).
RecoveredIsRight ==
    found.id # None /\ found.file \in DOMAIN files /\ files[found.file].of \in listed
        => found.id = files[found.file].of

\* Every MP3 a run wrote is in the index the run goes on with, and the next look at
\* the folder finds it under its upload's title: none is fetched twice for its name,
\* but titles without ASCII letters and titles that end like an audio file.
WrittenIsFound ==
    /\ At("next") => Keys(Mp3s) \subseteq DOMAIN run.index
    /\ \A f \in Mp3s : Fetched(f) => LET k == NormalizeTrackKey(Title[files[f].of])
                                     IN k \in Keys(Mp3s) \/ k = NoKey \/ f.ends

\* The cover in an MP3 a run fetched is an upload's of that very title, though images
\* lie about from runs that were killed.
CoverIsItsOwn ==
    \A f \in Mp3s \ (astray \cup adopted) :
        Fetched(f) /\ files[f].art # None => YtdlName(Title[files[f].art], "mp3") = f

NamesAreKept == FetchedIsRecorded /\ RecoveredIsRight /\ WrittenIsFound /\ CoverIsItsOwn

-----------------------------------------------------------------------------
(* The inductive invariant that the property follows from. *)

Mp3(t) == YtdlName(Title[t], "mp3")

Uploads == Tracks \union {None}

FileState == [of : Tracks \union {"user"}, tag : Uploads, art : Uploads]

RunState(index) == [pc : {"idle", "next", "record"}, mode : {"both", "db", None}, keep : BOOLEAN,
                    todo : SUBSET Tracks, index : {index}, t : Uploads, cover : BOOLEAN]

NameTypes == /\ files \in [DOMAIN files -> FileState]
             /\ thumbs \in [DOMAIN thumbs -> Tracks]
             /\ rows \in [DOMAIN rows -> Uploads]
             /\ listed \subseteq Tracks
             /\ run \in RunState(run.index)
             /\ At("record") => run.t \in Tracks /\ Written \in DOMAIN files

\* A fetched file and an image go by the title of their upload.
NamedAfter == /\ \A f \in DOMAIN files : files[f].of \in Tracks => f = YtdlName(Title[files[f].of], f.ext)
              /\ \A s \in DOMAIN thumbs : Stem(Mp3(thumbs[s])) = s

\* A recovery is forgotten when a run starts, and is right.
RecoveryIsOld == /\ ~At("idle") => found = NotYet
                 /\ RecoveredIsRight

\* The run's index has every MP3 but the one in hand, and that one is new.
IndexIsWhole ==
    /\ ~At("idle") => \A f \in Mp3s : \/ NormalizeTrackKey(f) \in DOMAIN run.index \union {NoKey}
                                      \/ At("record") /\ f = Written
    /\ At("record") /\ ~run.keep => files[Written] = [of |-> run.t, tag |-> None, art |-> None]

NamesInv == NameTypes /\ NamedAfter /\ RecoveryIsOld /\ IndexIsWhole /\ FetchedIsRecorded /\ CoverIsItsOwn
=============================================================================
