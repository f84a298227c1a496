----------------------------- MODULE RowResolver -----------------------------
(***************************************************************************)
(* What a queue row's link turns out to hold, before a track of it is        *)
(* downloaded: the probe, the listing, the folder, the identity stamped into *)
(* it and the Watch List card, for the rows of many batches, while the user  *)
(* turns auto-add on and off and removes cards. The rows of a batch are      *)
(* resolved one at a time.                                                   *)
(***************************************************************************)
EXTENDS Naturals, FiniteSets, Sequences

CONSTANTS Channels,  \* a channel's id and its name are itself
          Genres,    \* genres a row can be queued under
          MaxRows,   \* bound: rows resolved
          MaxTrouble \* bound: folders and stamps that cannot be written, cards removed, switches

None == "none"
\* How a row's link names its channel; "track" is a link to one of its tracks.
Links == [of : Channels, form : {"id", "handle", "videos", "track"}]

VARIABLES row,     \* the row in hand: see Fresh
          auto,    \* auto_add_to_watchlist
          folders, \* channel folders: [genre, name, id], the id as its sidecar says
          cards,   \* the Watch List: [url, id, name]
          specs,   \* tracks handed to the loop: [of, genre, dir, sup, whole]
          resolved,\* rows so far (bounded)
          trouble  \* (bounded)

vars == <<row, auto, folders, cards, specs, resolved, trouble>>

NoLink == [of |-> None, form |-> "none"]
\* info: what the probe said, [whole, id, title, uploader].
NoInfo == [whole |-> FALSE, id |-> None, title |-> None, suffix |-> FALSE, uploader |-> None]
Fresh == [pc |-> "idle", url |-> NoLink, genre |-> None, info |-> NoInfo]

Init == /\ row = Fresh /\ auto \in BOOLEAN /\ folders = {} /\ cards = {} /\ specs = {}
        /\ resolved = 0 /\ trouble = 0

Trouble == trouble < MaxTrouble /\ trouble' = trouble + 1
At(pc) == row.pc = pc
Goto(pc) == row' = [row EXCEPT !.pc = pc]

Begin == /\ At("idle") /\ resolved < MaxRows /\ resolved' = resolved + 1
         /\ \E url \in Links, genre \in Genres :
              row' = [Fresh EXCEPT !.pc = "probe", !.url = url, !.genre = genre]
         /\ UNCHANGED <<auto, folders, cards, specs, trouble>>

\* probe_metadata: a track, or a collection whose listing may leave the id or the
\* title out, and may call itself "<name> - Videos".
Probe == /\ At("probe")
         /\ \/ \E id, title, up \in {row.url.of, None}, suffix \in BOOLEAN :
                 LET whole == row.url.form # "track" IN
                 row' = [row EXCEPT !.pc = IF whole THEN "list" ELSE "home",
                                    !.info = [whole |-> whole, id |-> id, title |-> title,
                                              suffix |-> suffix /\ title # None, uploader |-> up]]
            \/ row' = Fresh
         /\ UNCHANGED <<auto, folders, cards, specs, resolved, trouble>>

\* list_channel, of a collection: nothing is written before it answers.
List == /\ At("list") /\ (Goto("home") \/ row' = Fresh)
        /\ UNCHANGED <<auto, folders, cards, specs, resolved, trouble>>

\* Mutant of Name: the suffix of a title stays on.
NameAsTitled(info) == IF info.title # None /\ info.suffix THEN <<info.title, "videos">> ELSE <<info.title>>
\* derive_collection_name: the title, without its suffix, else the uploader, else the id.
Name(info) == IF info.title # None THEN <<info.title>>
              ELSE IF info.uploader # None THEN <<info.uploader>>
              ELSE IF info.id # None THEN <<info.id, "as id">> ELSE <<>>
Collection == IF row.info.whole THEN Name(row.info) ELSE <<>>

\* channel_dir: the channel's folder under the genre's, or the genre's own.
Home == [genre |-> row.genre, name |-> Collection]
InHome(f) == f.genre = Home.genre /\ f.name = Home.name

\* makedirs; an error fails the row. _stamp_channel follows for a collection that
\* carries an id: what was stamped there before is overlaid, a failed write ignored.
MakeHome == /\ At("home")
            /\ \/ /\ UNCHANGED trouble /\ Goto("card")
                  /\ LET was == {f \in folders : InHome(f)}
                         old == IF was = {} THEN None ELSE (CHOOSE f \in was : TRUE).id
                         new == IF row.info.whole /\ row.info.id # None THEN row.info.id ELSE old
                     IN  \E id \in {new, old} :
                           folders' = (folders \ was) \union {[genre |-> Home.genre, name |-> Home.name, id |-> id]}
               \/ Trouble /\ row' = Fresh /\ UNCHANGED folders
            /\ UNCHANGED <<auto, cards, specs, resolved>>

\* find_matching_watchlist_row: by id, by link, by any spelling of the link.
Key(url, id) == IF id # None THEN [of |-> id, form |-> "known"]
                ELSE IF url.form = "videos" THEN [url EXCEPT !.form = "handle"] ELSE url
MatchByLink(url, id) == {c \in cards : c.url = url}
Match(url, id) == LET ids == {c \in cards : id # None /\ c.id = id}
                      urls == {c \in cards : c.url = url}
                  IN  IF ids # {} THEN ids ELSE IF urls # {} THEN urls
                      ELSE {c \in cards : Key(c.url, c.id) = Key(url, id)}

\* _auto_add: the card goes up before a track is downloaded; a tracked channel's card
\* is filled in instead, and one without a name is never put up.
AutoAdd == /\ At("card") /\ Goto("hand")
           /\ LET id == row.info.id  found == Match(row.url, id) IN
              IF ~auto \/ ~row.info.whole THEN UNCHANGED cards
              ELSE IF found # {}
              THEN \E c \in found : cards' = (cards \ {c}) \union {[c EXCEPT !.id = IF @ = None THEN id ELSE @]}
              ELSE IF Collection = <<>> THEN UNCHANGED cards
              ELSE cards' = cards \union {[url |-> row.url, id |-> id, name |-> Collection]}
           /\ UNCHANGED <<auto, folders, specs, resolved, trouble>>

\* ResolvedRow: the tracks go to the loop with their folder and the link under which a
\* track that cannot be had will be remembered.
Hand == /\ At("hand") /\ row' = Fresh
        /\ specs' = specs \union {[of |-> row.url.of, genre |-> row.genre, dir |-> Home, whole |-> row.info.whole,
                                   titled |-> row.info.title # None \/ row.info.uploader # None,
                                   sup |-> IF row.info.whole \/ row.info.id = None THEN row.url
                                           ELSE [of |-> row.info.id, form |-> "id"]]}
        /\ UNCHANGED <<auto, folders, cards, resolved, trouble>>

Switch == Trouble /\ auto' = ~auto /\ UNCHANGED <<row, folders, cards, specs, resolved>>
Untrack == /\ Trouble /\ \E c \in cards : cards' = cards \ {c}
           /\ UNCHANGED <<row, auto, folders, specs, resolved>>

Next == Begin \/ Probe \/ List \/ MakeHome \/ AutoAdd \/ Hand \/ Switch \/ Untrack
Spec == Init /\ [][Next]_vars

-----------------------------------------------------------------------------
(* Properties *)

\* Whichever of its links the user queues, under one genre a channel has one folder,
\* as long as a listing names it: what the skip decision and every later scan rest on.
OneFolder == \A s, t \in specs :
                s.whole /\ t.whole /\ s.titled /\ t.titled /\ s.of = t.of /\ s.genre = t.genre => s.dir = t.dir

\* ... and one card, as far as its cards know whose they are.
OneCard == \A c, d \in cards : c # d => c.id = None \/ c.id # d.id

\* A channel's folder carries its own identity or none: no other channel's.
OwnIdentity == \A f \in folders : f.id # None /\ f.name # <<>> => f.name[1] = f.id

HomeIsOne == OneFolder /\ OneCard /\ OwnIdentity

-----------------------------------------------------------------------------
(* The inductive invariant that the property follows from. *)

\* A row's link, what its probe said of it, and a card.
LinksAndNone == Links \union {NoLink}

NamesAndNone == Channels \union {None}

InfoState == [whole : BOOLEAN, id : NamesAndNone, title : NamesAndNone, suffix : BOOLEAN, uploader : NamesAndNone]

RowState == [pc : {"idle", "probe", "list", "home", "card", "hand"}, url : LinksAndNone,
             genre : Genres \union {None}, info : InfoState]

CardState == [url : LinksAndNone, id : NamesAndNone, name : Seq(NamesAndNone \union {"as id"})]

\* What a probe says of a link is true or left out.
InfoIsOwn == /\ row.info.id \in {row.url.of, None} /\ row.info.title \in {row.url.of, None}
             /\ row.info.uploader \in {row.url.of, None}

\* A track's folder is the one of its channel's own name, when a listing names it.
SpecsAtHome == \A s \in specs : s.whole /\ s.titled => s.dir = [genre |-> s.genre, name |-> <<s.of>>]

ResolverInv == /\ row \in RowState /\ cards \subseteq CardState
               /\ InfoIsOwn /\ SpecsAtHome /\ OneCard /\ OwnIdentity
=============================================================================
