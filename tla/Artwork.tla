------------------------------- MODULE Artwork -------------------------------
(***************************************************************************)
(* The artwork backfill: one row at a time, through a ladder of places art  *)
(* may be found in, to a sidecar, to the file itself - a WebM is rewrapped  *)
(* as Opus first, so the row must follow the file - and to the row. A call  *)
(* out runs on a thread the walk abandons when Skip or Cancel comes.        *)
(***************************************************************************)
EXTENDS Naturals

CONSTANTS Tracks,    \* rows without cover art
          Nameless,  \* those whose video id a rebuild lost
          MaxTrouble \* bound: writes that fail, and kills

VARIABLES files,   \* [Tracks -> SUBSET Exts]: the audio on disk
          art,     \* [Tracks -> SUBSET Exts]: those with a cover in them
          jpg,     \* [Tracks -> SUBSET Keys]: sidecars in .artwork
          raw,     \* tracks with an image fetched and not ingested
          row,     \* [Tracks -> [path, embedded, id]]
          left,    \* rows of the worklist not walked yet
          at,      \* the row in hand: [t, path, id, key, pc]
          listed,  \* whether the folder's listing is cached
          aside,   \* tracks an abandoned call still fetches for
          skip,    \* _skip
          cancel,  \* _cancel
          trouble  \* (bounded)

vars == <<files, art, jpg, raw, row, left, at, listed, aside, skip, cancel, trouble>>

Exts == {"webm", "opus"}
Keys == {"id", "stem"}
Nobody == [t |-> "none", path |-> "opus", id |-> FALSE, key |-> "stem", pc |-> "idle"]
KeyOf(id) == IF id THEN "id" ELSE "stem" \* artwork_key

Init == /\ files \in [Tracks -> {{e} : e \in Exts}] /\ art = [t \in Tracks |-> {}]
        /\ jpg = [t \in Tracks |-> {}] /\ raw = {}
        /\ row = [t \in Tracks |-> [path |-> CHOOSE e \in files[t] : TRUE, embedded |-> FALSE, id |-> t \notin Nameless]]
        /\ left = {} /\ at = Nobody /\ listed = FALSE /\ aside = {} /\ skip = FALSE /\ cancel = FALSE
        /\ trouble = 0

Hand == at.t
Goto(pc) == at' = [at EXCEPT !.pc = pc]
Fault == trouble < MaxTrouble /\ trouble' = trouble + 1

disk == <<files, art, jpg, raw>>
asked == <<skip, cancel>>
walk == <<left, listed>>

-----------------------------------------------------------------------------
(* The walk. *)

Missing == {x \in Tracks : ~row[x].embedded}

\* run_fetch_artwork: get_downloads_missing_artwork; _begin clears both requests.
Start == /\ at.pc = "idle" /\ left' = Missing /\ Goto("next") /\ listed' = FALSE
         /\ skip' = FALSE /\ cancel' = FALSE
         /\ UNCHANGED <<disk, row, aside, trouble>>

\* Skip only ever applies to one row.
Take == /\ at.pc = "next" /\ ~cancel /\ skip' = FALSE
        /\ \E x \in left : /\ left' = left \ {x}
                           /\ at' = [t |-> x, path |-> row[x].path, id |-> row[x].id, key |-> KeyOf(row[x].id), pc |-> "look"]
        /\ UNCHANGED <<disk, row, listed, aside, cancel, trouble>>

End == /\ at.pc = "next" /\ (left = {} \/ cancel) /\ at' = Nobody
       /\ UNCHANGED <<disk, row, walk, aside, asked, trouble>>

\* A file gone, one with a cover already - its row is corrected - or the ladder.
Look == /\ at.pc = "look"
        /\ IF at.path \notin files[Hand] THEN Goto("next") /\ UNCHANGED <<row, trouble>>
           ELSE IF at.path \in art[Hand]
           THEN /\ Goto("next")
                /\ \/ row' = [row EXCEPT ![Hand].embedded = (row[Hand].path = at.path) \/ @] /\ UNCHANGED trouble
                   \/ Fault /\ UNCHANGED row
           ELSE Goto(IF at.id THEN "sidecar" ELSE "recover") /\ UNCHANGED <<row, trouble>>
        /\ UNCHANGED <<disk, walk, aside, asked>>

\* _interruptible: the walk has its answer at once when asked to stop.
Abandons == skip \/ cancel

\* _recover_video_id: the folder's listing, once, and the id the file's name finds there.
Recover == /\ at.pc = "recover"
           /\ \/ /\ listed' = TRUE
                 /\ \/ /\ at' = [at EXCEPT !.id = TRUE, !.key = "id", !.pc = "sidecar"]
                       /\ \/ row' = [row EXCEPT ![Hand].id = @ \/ row[Hand].path = at.path] /\ UNCHANGED trouble
                          \/ Fault /\ UNCHANGED row
                    \/ Goto("sidecar") /\ UNCHANGED <<row, trouble>>
              \/ ~listed /\ Abandons /\ Goto("sidecar") /\ UNCHANGED <<row, listed, trouble>>
           /\ UNCHANGED <<disk, left, aside, asked>>

\* existing_sidecar, an image left beside the track, or the network.
Sidecar == /\ at.pc = "sidecar"
           /\ \/ at.key \in jpg[Hand] /\ Goto("found") /\ UNCHANGED jpg
              \/ at.key \notin jpg[Hand] /\ jpg' = [jpg EXCEPT ![Hand] = @ \union {at.key}] /\ Goto("found")
              \/ at.key \notin jpg[Hand] /\ Goto("fetch") /\ UNCHANGED jpg
           /\ UNCHANGED <<files, art, raw, row, walk, aside, asked, trouble>>

\* _fetch_sidecar: each candidate until one is an image; none, and the row has none.
Fetch == /\ at.pc = "fetch"
         /\ \/ raw' = raw \union {Hand} /\ Goto("ingest") /\ UNCHANGED <<aside>>
            \/ Goto("next") /\ UNCHANGED <<raw, aside>>
            \/ /\ Abandons /\ aside' = aside \union {Hand} /\ Goto("next") /\ UNCHANGED raw
         /\ UNCHANGED <<files, art, jpg, row, walk, asked, trouble>>

\* ingest_thumbnail, which removes the image it read.
Ingest == /\ at.pc = "ingest"
          /\ \/ jpg' = [jpg EXCEPT ![Hand] = @ \union {at.key}] /\ raw' = raw \ {Hand} /\ Goto("found")
             \/ Goto("fetch") /\ UNCHANGED <<jpg, raw>>
          /\ UNCHANGED <<files, art, row, walk, aside, asked, trouble>>

Found == /\ at.pc = "found"
         /\ Goto(IF skip THEN "next" ELSE IF at.path = "webm" THEN "remux" ELSE "embed")
         /\ UNCHANGED <<disk, row, walk, aside, asked, trouble>>

-----------------------------------------------------------------------------
(* The file and the row. *)

\* Mutant of Remux: the old file is gone before the new one is whole.
RemuxInPlace == /\ at.pc = "remux" /\ files' = [files EXCEPT ![Hand] = @ \ {"webm"}] /\ Goto("embed")
                /\ UNCHANGED <<art, jpg, raw, row, walk, aside, asked, trouble>>
\* remux_webm_to_opus: the new file is whole before the old one goes, if it goes.
Remux == /\ at.pc = "remux"
         /\ \/ /\ files' = [files EXCEPT ![Hand] = @ \union {"opus"}] /\ art' = [art EXCEPT ![Hand] = @ \ {"opus"}]
               /\ Goto("tidy")
            \/ Goto("write") /\ UNCHANGED <<files, art>>
         /\ UNCHANGED <<jpg, raw, row, walk, aside, asked, trouble>>

Tidy == /\ at.pc = "tidy" /\ Goto("embed")
        /\ files' = [files EXCEPT ![Hand] = @ \ {"webm"}] \/ UNCHANGED files
        /\ UNCHANGED <<art, jpg, raw, row, walk, aside, asked, trouble>>

\* embed_cover and its siblings: into the Opus, the only one a cover fits.
Final == IF at.path = "webm" /\ "opus" \in files[Hand] THEN "opus" ELSE at.path
Embed == /\ at.pc = "embed" /\ Goto("follow")
         /\ art' = [art EXCEPT ![Hand] = @ \union ({"opus"} \intersect files[Hand])] \/ UNCHANGED art
         /\ UNCHANGED <<files, jpg, raw, row, walk, aside, asked, trouble>>

\* update_download_path, which says of no row when the database refuses.
Follow == /\ at.pc = "follow"
          /\ \/ /\ row' = IF row[Hand].path = at.path THEN [row EXCEPT ![Hand].path = Final] ELSE row
                /\ UNCHANGED trouble
             \/ Fault /\ UNCHANGED row
          /\ at' = [at EXCEPT !.path = Final, !.pc = "write"]
          /\ UNCHANGED <<disk, walk, aside, asked>>

\* Mutant of Write: marked as embedded whatever the embedding said.
WriteAlways == /\ at.pc = "write" /\ Goto("next") /\ row' = [row EXCEPT ![Hand].embedded = TRUE]
               /\ UNCHANGED <<disk, walk, aside, asked, trouble>>
\* set_download_artwork, with what the embedding said.
Write == /\ at.pc = "write"
         /\ LET embedded == at.path \in art[Hand] IN
              /\ Goto("next")
              /\ \/ /\ row' = IF row[Hand].path = at.path THEN [row EXCEPT ![Hand].embedded = embedded] ELSE row
                    /\ UNCHANGED trouble
                 \/ Fault /\ UNCHANGED row
         /\ UNCHANGED <<disk, walk, aside, asked>>

\* What an abandoned call fetched is nobody's.
LateFetch == /\ \E x \in aside : aside' = aside \ {x} /\ raw' \in {raw, raw \union {x}}
             /\ UNCHANGED <<files, art, jpg, row, walk, at, asked, trouble>>

Skip == /\ at.pc # "idle" /\ ~skip /\ skip' = TRUE
        /\ UNCHANGED <<disk, row, walk, at, aside, cancel, trouble>>
Cancel == /\ at.pc # "idle" /\ ~cancel /\ cancel' = TRUE
          /\ UNCHANGED <<disk, row, walk, at, aside, skip, trouble>>

Kill == /\ at.pc # "idle" /\ Fault /\ at' = Nobody /\ aside' = {} /\ left' = {}
        /\ UNCHANGED <<disk, row, listed, asked>>

Step == \/ Take \/ End \/ Look \/ Recover \/ Sidecar \/ Fetch \/ Ingest \/ Found
        \/ Remux \/ Tidy \/ Embed \/ Follow \/ Write
Next == Start \/ Step \/ LateFetch \/ Skip \/ Cancel \/ Kill
Spec == Init /\ [][Next]_vars

-----------------------------------------------------------------------------
(* Properties *)

\* No track loses its audio to the rewrapping, and a row that says embedded names a
\* file with a cover in it, whatever is skipped, refused by the database or killed.
ArtIsTrue == \A x \in Tracks : files[x] # {} /\ (row[x].embedded => row[x].path \in art[x])

-----------------------------------------------------------------------------
(* The inductive invariant that the property follows from. *)

RowState == [path : Exts, embedded : BOOLEAN, id : BOOLEAN]

Hands == {"look", "recover", "sidecar", "fetch", "ingest", "found", "remux", "tidy", "embed", "follow"}

AtState == [t : Tracks \union {"none"}, path : Exts, id : BOOLEAN, key : Keys,
            pc : Hands \union {"idle", "next", "write"}]

ArtTypes == /\ files \in [Tracks -> SUBSET Exts] /\ art \in [Tracks -> SUBSET Exts]
            /\ jpg \in [Tracks -> SUBSET Keys]
            /\ row \in [Tracks -> RowState] /\ left \subseteq Tracks /\ at \in AtState

\* The row in hand names the file in hand until the file has moved on, and is not yet
\* said to have a cover; the old file goes only beside the new one.
HandIsTrue == /\ at.pc \in Hands => Hand \in Tracks /\ row[Hand].path = at.path
              /\ at.pc \in (Hands \ {"look"}) \union {"write"} => Hand \in Tracks /\ ~row[Hand].embedded
              /\ at.pc \in {"remux", "tidy"} => at.path = "webm"
              /\ at.pc = "tidy" => "opus" \in files[Hand]

ArtInv == ArtTypes /\ HandIsTrue /\ ArtIsTrue
=============================================================================
