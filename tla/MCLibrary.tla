------------------------------ MODULE MCLibrary ------------------------------
(***************************************************************************)
(* The parts that keep the crate, its files and its tables together, each   *)
(* on a small instance. They share no state, so a behavior is one part's:   *)
(* part names it, s1, s2... are its variables.                              *)
(***************************************************************************)
EXTENDS Integers, Sequences, FiniteSets, FiniteSetTheorems, WellFoundedInduction, TLAPS

CONSTANTS Target, Ceiling, Rates, MaxAttempts, MaxTrouble,        \* transfer
          Titled, Listings, Title, Owned, MaxMishaps,             \* names
          Covered, Nameless, MaxArtFaults,                        \* covers
          Uploaders, Queued, MaxResolved, MaxSlips,               \* resolver
          Shared, GoneBy, Received, MaxShared, MaxTurns,          \* list
          EditChannels, EditGenres, EditUrls, Direct, EditTracks, \* editor
          EditOwner, Strays, Like, EditFaults,
          Genres, Channels, Tracks, Owner, Overlap, MaxRuns,      \* rebuild
          MaxMoves, MaxFaults,
          Watched, Callers, Folders, MaxWatched,                  \* watchlist
          TablePaths, Added, MaxRows, MaxLocked,                  \* downloads
          TagChannels, TagGenres, TagTracks, Editors,             \* tags
          MaxTagEdits, MaxSweeps, MaxTagTrouble,
          LedgerRows, LedgerAdded, Tabbed, LedgerTracks,          \* ledger
          LedgerLists, Legacy, Expiry, MaxTime, MaxScans, MaxLinkEdits

VARIABLES part, s1, s2, s3, s4, s5, s6, s7, s8, s9, s10, s11, s12,
          s13

\* A part with fewer variables leaves the others blank.
Blank == "blank"
BlankFrom13 == s13 = Blank
BlankFrom12 == s12 = Blank /\ BlankFrom13
BlankFrom11 == s11 = Blank /\ BlankFrom12
BlankFrom10 == s10 = Blank /\ BlankFrom11
BlankFrom9 == s9 = Blank /\ BlankFrom10
BlankFrom8 == s8 = Blank /\ BlankFrom9
BlankFrom7 == s7 = Blank /\ BlankFrom8
BlankFrom6 == s6 = Blank /\ BlankFrom7
BlankFrom5 == s5 = Blank /\ BlankFrom6
BlankFrom4 == s4 = Blank /\ BlankFrom5
KeepFrom14 == UNCHANGED part
KeepFrom13 == UNCHANGED s13 /\ KeepFrom14
KeepFrom12 == UNCHANGED s12 /\ KeepFrom13
KeepFrom11 == UNCHANGED s11 /\ KeepFrom12
KeepFrom10 == UNCHANGED s10 /\ KeepFrom11
KeepFrom9 == UNCHANGED s9 /\ KeepFrom10
KeepFrom8 == UNCHANGED s8 /\ KeepFrom9
KeepFrom7 == UNCHANGED s7 /\ KeepFrom8
KeepFrom6 == UNCHANGED s6 /\ KeepFrom7
KeepFrom5 == UNCHANGED s5 /\ KeepFrom6
KeepFrom4 == UNCHANGED s4 /\ KeepFrom5

\* Two titles a file name makes alike, one that ends in ".wav", two that are the
\* same and beyond ASCII; an MP3 the user had under a's and b's legacy name.
NameOf(words, mark, pad, ends) == [words |-> words, mark |-> mark, pad |-> pad, ends |-> ends]
TitleValue == [t \in Titled |->
                   CASE t = "a" -> NameOf("mix", "query", FALSE, FALSE)
                     [] t = "b" -> NameOf("mix", "underscore", FALSE, FALSE)
                     [] t = "c" -> NameOf("mix", "none", FALSE, TRUE)
                     [] OTHER -> NameOf("beyond ascii", "none", TRUE, FALSE)]
ListingsValue == {{"a", "b"}, {"b", "c"}, {"e", "g"}}
OwnedValue == {[words |-> "mix", mark |-> "underscore", pad |-> FALSE, ends |-> FALSE, ext |-> "mp3"]}

\* List files: two spellings of a channel, another that takes a known name, a
\* link the import drops, a file that is no list.
Entry(c, form, id, name) == [url |-> [of |-> c, form |-> form], id |-> id, name |-> name]
ListsValue == { <<Entry("c", "videos", "none", "n"), Entry("c", "handle", "c", "none")>>,
                <<Entry("d", "handle", "none", "n"), Entry("c", "odd", "none", "none")>>, <<>> }

\* A track in each of two channel folders.
GenresValue == <<"House", "Techno">>
OwnerValue == [t \in Tracks |-> IF t = "z" THEN "c2" ELSE "c1"]

\* The one of the two channels with a track, beside a folder nobody watches.
EditOwnerValue == [t \in EditTracks |-> "a_b"]
StraysValue == {<<"House", "a_b">>}

\* A folder whose sidecar knows the channel's id, one without a sidecar.
FoldersValue == { [url |-> [of |-> "c", form |-> "handle"], id |-> "c", name |-> "n"],
                  [url |-> [of |-> "x", form |-> "unresolved"], id |-> "none", name |-> "x"] }

\* A track with no platform, one in no genre, one in no channel, one without art.
Track(platform, genre, channel, title, art, hit) ==
    [kind |-> "track", platform |-> platform, genre |-> genre, channel |-> channel,
     title |-> title, art |-> art, lost |-> art, hit |-> hit]
RowValue == << Track("yt", "", "c", 1, TRUE, TRUE), Track("", "(none)", "c", 1, TRUE, TRUE),
               Track("yt", "House", "", 1, TRUE, FALSE), Track("yt", "", "d", 2, FALSE, TRUE) >>
Query(table, preset, root, search, filter, desc) ==
    [table |-> table, preset |-> preset, root |-> root, search |-> search, filter |-> filter,
     col |-> "title", desc |-> desc]
NoRoot == [k \in {} |-> "x"]
QueriesValue == { Query("downloads", "platform, channel", NoRoot, FALSE, "All tracks", TRUE),
                  Query("downloads", "channel", [genre |-> "(none)"], TRUE, "All tracks", FALSE),
                  Query("artwork", "channel", NoRoot, FALSE, "All tracks", TRUE),
                  Query("artwork", "channel", NoRoot, FALSE, "Sidecar missing on disk", FALSE) }

TracksOf == [c \in TagChannels |-> {c}]

\* A channel added by its listing tab.
LinkOf == [r \in LedgerRows |-> [page |-> r, tab |-> TRUE]]
TracksListed == [r \in LedgerRows |-> {"x", "y"}]

transfer == INSTANCE Transfer WITH policy <- s1, asked <- s2, job <- s3, shown <- s4, heard <- s5,
    out <- s6, wrote <- s7, row <- s8, trouble <- s9
names == INSTANCE TrackNames WITH Tracks <- Titled, MaxTrouble <- MaxMishaps, files <- s1,
    thumbs <- s2, rows <- s3, listed <- s4, run <- s5, found <- s6, astray <- s7, adopted <- s8,
    trouble <- s9
resolver == INSTANCE RowResolver WITH Channels <- Uploaders, Genres <- Queued, MaxRows <- MaxResolved,
    MaxTrouble <- MaxSlips, row <- s1, auto <- s2, folders <- s3, cards <- s4, specs <- s5,
    resolved <- s6, trouble <- s7
list == INSTANCE ListShare WITH Channels <- Shared, Names <- GoneBy, MaxRows <- MaxShared,
    rows <- s1, file <- s2, own <- s3, dialog <- s4, turns <- s5
editor == INSTANCE ChannelEdit WITH Urls <- EditUrls, Channels <- EditChannels, Genres <- EditGenres,
    Tracks <- EditTracks, Owner <- EditOwner, MaxFaults <- EditFaults, row <- s1, folders <- s2,
    file <- s3, record <- s4, links <- s5, edit <- s6, faults <- s7
rebuild == INSTANCE Rebuild WITH place <- s1, rows <- s2, art <- s3, covered <- s4, run <- s5,
    cancel <- s6, move <- s7, known <- s8, knownart <- s9, excused <- s10, runs <- s11,
    moves <- s12, faults <- s13
covers == INSTANCE Artwork WITH Tracks <- Covered, MaxTrouble <- MaxArtFaults, files <- s1, art <- s2,
    jpg <- s3, raw <- s4, row <- s5, left <- s6, at <- s7, listed <- s8, aside <- s9, skip <- s10,
    cancel <- s11, trouble <- s12
watchlist == INSTANCE WatchlistRows WITH Channels <- Watched, MaxRows <- MaxWatched, rows <- s1,
    next <- s2, call <- s3
downloads == INSTANCE DownloadRows WITH Paths <- TablePaths, MaxTrouble <- MaxLocked, rows <- s1, next <- s2,
    index <- s3, absent <- s4, cutoff <- s5, conn <- s6, known <- s7, refused <- s8, trouble <- s9
screen == INSTANCE LibraryView WITH Row <- RowValue, Queries <- QueriesValue, PageSize <- 1,
    MaxCalls <- 2, MaxOpens <- 2, MaxChanges <- 1, MaxTrouble <- 0, db <- s1, gone <- s2,
    view <- s3, calls <- s4, calm <- s5, used <- s6
screentrouble == INSTANCE LibraryView WITH Row <- RowValue, Queries <- QueriesValue, PageSize <- 1,
    MaxCalls <- 2, MaxOpens <- 1, MaxChanges <- 1, MaxTrouble <- 1, db <- s1, gone <- s2,
    view <- s3, calls <- s4, calm <- s5, used <- s6
tags == INSTANCE TagRepair WITH Channels <- TagChannels, Genres <- TagGenres, Tracks <- TagTracks,
    MaxEdits <- MaxTagEdits, MaxTrouble <- MaxTagTrouble, folder <- s1, dirs <- s2, tag <- s3,
    typed <- s4, facts <- s5, sweep <- s6, cancel <- s7, retag <- s8, edit <- s9, excused <- s10,
    fresh <- s11, used <- s12
ledger == INSTANCE ChannelLedger WITH Rows <- LedgerRows, Added <- LedgerAdded, Tracks <- LedgerTracks,
    Lists <- LedgerLists, MaxRuns <- MaxScans, MaxEdits <- MaxLinkEdits, link <- s1, pending <- s2,
    status <- s3, total <- s4, recorded <- s5, memory <- s6, run <- s7, hidden <- s8,
    failures <- s9, current <- s10, now <- s11, used <- s12

-----------------------------------------------------------------------------
Init ==
    \/ part = "transfer" /\ transfer!Init /\ BlankFrom10
    \/ part = "names" /\ names!Init /\ BlankFrom10
    \/ part = "resolver" /\ resolver!Init /\ BlankFrom8
    \/ part = "list" /\ list!Init /\ BlankFrom6
    \/ part = "editor" /\ editor!Init /\ BlankFrom8
    \/ part = "rebuild" /\ rebuild!Init
    \/ part = "covers" /\ covers!Init /\ BlankFrom13
    \/ part = "watchlist" /\ watchlist!Init /\ BlankFrom4
    \/ part = "downloads" /\ downloads!Init /\ BlankFrom10
    \/ part = "screen" /\ screen!Init /\ BlankFrom7
    \/ part = "screentrouble" /\ screentrouble!Init /\ BlankFrom7
    \/ part = "tags" /\ tags!Init /\ BlankFrom13
    \/ part = "ledger" /\ ledger!Init /\ BlankFrom13

Next ==
    \/ part = "transfer" /\ transfer!Next /\ KeepFrom10
    \/ part = "names" /\ names!Next /\ KeepFrom10
    \/ part = "resolver" /\ resolver!Next /\ KeepFrom8
    \/ part = "list" /\ list!Next /\ KeepFrom6
    \/ part = "editor" /\ editor!Next /\ KeepFrom8
    \/ part = "rebuild" /\ rebuild!Next /\ KeepFrom14
    \/ part = "covers" /\ covers!Next /\ KeepFrom13
    \/ part = "watchlist" /\ watchlist!Next /\ KeepFrom4
    \/ part = "downloads" /\ downloads!Next /\ KeepFrom10
    \/ part = "screen" /\ screen!Next /\ KeepFrom7
    \/ part = "screentrouble" /\ screentrouble!Next /\ KeepFrom7
    \/ part = "tags" /\ tags!Next /\ KeepFrom13
    \/ part = "ledger" /\ ledger!Next /\ KeepFrom13

vars == <<part, s1, s2, s3, s4, s5, s6, s7, s8, s9, s10, s11, s12, s13>>
Spec == Init /\ [][Next]_vars

-----------------------------------------------------------------------------
(* Properties *)

\* A channel has one row, under whichever spelling of its link it comes - added by
\* hand, by a batch, from a list file or found in the library - and one home folder
\* for the tracks a batch row downloads; a channel's tracks are in the folder that its
\* row names. One's own list, read back, is tracked.
RowsAreOne == /\ part = "watchlist" => watchlist!TrackedOnce
              /\ part = "resolver" => resolver!HomeIsOne
              /\ part = "list" => list!ImportIsWhole
              /\ part = "editor" => editor!FiledTogether

\* A library screen shows each row of its table once, under the groups that count it.
ListsAreWhole == /\ part = "screen" => screen!ViewIsWhole
                 /\ part = "screentrouble" => screentrouble!ViewIsWhole

\* Nothing the crate knew of a track is lost: by a rebuild, by a row that is
\* recorded, merged or migrated again; a track the memory hides can be given back.
RecordIsKept == /\ part = "rebuild" => rebuild!HistoryKept /\ rebuild!ArtKept
                /\ part = "downloads" => downloads!KnownIsKept
                /\ part = "ledger" => ledger!HiddenCanBeForgotten

\* What is said of a file is true of it: the bitrates of a transfer, its cover art,
\* which upload it is, whatever other names are like its own.
FilesAreTrue == /\ part = "transfer" => transfer!TransferIsTrue
                /\ part = "names" => names!NamesAreKept
                /\ part = "covers" => covers!ArtIsTrue

\* Once no sweep, retag or edit is under way a channel's tags name the folder it is
\* in, or somebody was told; a title typed by hand survives every sweep.
TagsFollowFolders == part = "tags" => tags!TagsFollowFolders

-----------------------------------------------------------------------------
(* What the proofs assume of the constants. *)

ASSUME UploadsAssumption == IsFiniteSet(Titled) /\ "user" \notin Titled /\ names!None \notin Titled
ASSUME ListingsAssumption == Listings \subseteq SUBSET Titled
ASSUME TitlesAssumption == \A t \in Titled : DOMAIN Title[t] = {"words", "mark", "pad", "ends"}
ASSUME FoldersAreFinite == IsFiniteSet(Folders)
ASSUME OneCaller == \A t, u \in Callers : t = u
ASSUME ReceivedAssumption == Received \subseteq Seq(list!EntryState)
ASSUME OwnersAssumption == EditOwner \in [EditTracks -> EditChannels]
\* Three writes of one call that fail leave a folder and its row apart.
ASSUME FaultsAssumption == EditFaults \in 0 .. 2
ASSUME GenresAssumption == Genres \in Seq(rebuild!GenreNames)
ASSUME OwnerAssumption == Owner \in [Tracks -> Channels]
ASSUME NoOverlap == Overlap = FALSE
ASSUME BoundAssumption == MaxRows \in Nat
\* A file is in one folder, and a channel's folder is a genre's.
ASSUME TracksAssumption == /\ \A c, d \in TagChannels : c # d => TagTracks[c] \intersect TagTracks[d] = {}
                           /\ 0 \notin TagChannels
\* Each track is listed by one row's channel.
ASSUME ListsAssumption == /\ LedgerLists \in [LedgerRows -> SUBSET LedgerTracks]
                          /\ LedgerAdded \in [LedgerRows -> ledger!LinkState]
                          /\ \A r, q \in LedgerRows : r # q => LedgerLists[r] \intersect LedgerLists[q] = {}

-----------------------------------------------------------------------------
(* Numbers and finite sets. *)

LEMMA LeastNat == ASSUME NEW S, S \subseteq Nat, S # {} PROVE \E m \in S : \A n \in S : m <= n
  <1>1. PICK m \in S : \A n \in S : ~(<<n, m>> \in OpToRel(<, Nat))
    BY NatLessThanWellFounded, WFMin
  <1>2. \A n \in S : ~(n < m)
    BY <1>1 DEF OpToRel
  <1> QED
    BY <1>2

\* watchlist's FiniteSets is the FiniteSets of the theorems cited.
LEMMA WatchlistSets == \A S : (watchlist!IsFiniteSet(S) <=> IsFiniteSet(S))
    /\ watchlist!Cardinality(S) = Cardinality(S)
  BY DEF IsFiniteSet, Cardinality, watchlist!IsFiniteSet, watchlist!Cardinality

LEMMA WatchlistCounted == ASSUME NEW S, watchlist!IsFiniteSet(S) PROVE watchlist!Cardinality(S) \in Nat
  BY FS_CardinalityType, WatchlistSets

\* list's FiniteSets is the FiniteSets of the theorems cited.
LEMMA ListSets == \A S : (list!IsFiniteSet(S) <=> IsFiniteSet(S)) /\ list!Cardinality(S) = Cardinality(S)
  BY DEF IsFiniteSet, Cardinality, list!IsFiniteSet, list!Cardinality

LEMMA ListInterval == \A a, b \in Int : list!IsFiniteSet(a .. b)
  BY FS_Interval, ListSets

LEMMA ListSubset == ASSUME NEW S, list!IsFiniteSet(S), NEW T \in SUBSET S
  PROVE  /\ list!IsFiniteSet(T)
         /\ list!Cardinality(T) <= list!Cardinality(S)
         /\ list!Cardinality(S) = list!Cardinality(T) => S = T
  BY FS_Subset, ListSets

LEMMA ListCounted == ASSUME NEW S, list!IsFiniteSet(S) PROVE list!Cardinality(S) \in Nat
  BY FS_CardinalityType, ListSets

\* names's FiniteSets is the FiniteSets of the theorems cited.
LEMMA NamesSets == \A S : (names!IsFiniteSet(S) <=> IsFiniteSet(S)) /\ names!Cardinality(S) = Cardinality(S)
  BY DEF IsFiniteSet, Cardinality, names!IsFiniteSet, names!Cardinality

LEMMA NamesSubset == ASSUME NEW S, names!IsFiniteSet(S), NEW T \in SUBSET S
  PROVE  /\ names!IsFiniteSet(T)
         /\ names!Cardinality(T) <= names!Cardinality(S)
         /\ names!Cardinality(S) = names!Cardinality(T) => S = T
  BY FS_Subset, NamesSets

LEMMA NamesSingle == ASSUME NEW S, names!IsFiniteSet(S), names!Cardinality(S) = 1 PROVE \E x : S = {x}
  BY FS_Singleton, NamesSets

-----------------------------------------------------------------------------
(* Transfer: one bitrate for a rung, and nothing filed before the end. *)

LEMMA TransferInit == transfer!Init => transfer!TransferInv
  BY DEF transfer!Init, transfer!TransferInv, transfer!Fresh, transfer!JobState, transfer!Kbps,
     transfer!RungIsOne, transfer!FiledAtTheEnd, transfer!TransferIsTrue, transfer!RowIsTrue,
         transfer!PanelIsTrue, transfer!StoppedIsNotFiled, transfer!At, transfer!None, transfer!NoRate

\* What a step that only turns the call's page does.
LEMMA TransferPageTurns ==
  ASSUME NEW j \in transfer!JobState, NEW pc \in {"start", "call", "stream", "wait", "record", "done"}
  PROVE  /\ [j EXCEPT !.pc = pc] \in transfer!JobState
         /\ [j EXCEPT !.pc = pc].pc = pc
         /\ [j EXCEPT !.pc = pc].announced = j.announced /\ [j EXCEPT !.pc = pc].coded = j.coded
         /\ [j EXCEPT !.pc = pc].abr = j.abr
  BY DEF transfer!JobState

\* A new rung has one bitrate and no source bitrate.
LEMMA RungBegins ==
  ASSUME NEW j \in transfer!JobState, NEW auth \in BOOLEAN
  PROVE  /\ transfer!Rung(j, auth) \in transfer!JobState
         /\ transfer!Rung(j, auth).pc = "call" /\ transfer!Rung(j, auth).abr = 0
         /\ s1.convert => transfer!Rung(j, auth).announced = transfer!Rung(j, auth).coded
  <1> DEFINE k == transfer!RungKbps(auth, j.up)
             o == transfer!Opts(auth, j.up)
             zero == 0
             one == 1
  <1>1. k \in transfer!Kbps /\ o \in transfer!Kbps /\ (s1.convert => k = o)
          /\ zero \in transfer!Kbps /\ zero = 0 /\ one \in Nat
    BY DEF transfer!RungKbps, transfer!Opts, transfer!Kbps, transfer!JobState
  <1> HIDE DEF k, o, zero, one
  <1>2. transfer!Rung(j, auth) = [j EXCEPT !.pc = "call", !.auth = auth, !.attempt = one, !.abr = zero, !.announced = k, !.coded = o]
    BY DEF transfer!Rung, k, o, zero, one
  <1>3. /\ transfer!Rung(j, auth).pc = "call" /\ transfer!Rung(j, auth).abr = 0
        /\ transfer!Rung(j, auth).announced = k /\ transfer!Rung(j, auth).coded = o
    BY <1>1, <1>2 DEF transfer!JobState
  <1>4. transfer!Rung(j, auth) \in transfer!JobState
    <2> DEFINE a == [j EXCEPT !.pc = "call", !.auth = auth, !.attempt = one]
    <2>1. a \in transfer!JobState
      BY <1>1 DEF transfer!JobState
    <2>2. [a EXCEPT !.abr = zero, !.announced = k, !.coded = o] \in transfer!JobState
      <3> HIDE DEF a
      <3> QED
        BY <1>1, <2>1 DEF transfer!JobState
    <2> QED
      BY <1>2, <2>2 DEF transfer!JobState
  <1> QED
    BY <1>1, <1>3, <1>4

LEMMA UpIsKnown == ASSUME NEW j \in transfer!JobState, NEW up \in transfer!Kbps
  PROVE [j EXCEPT !.up = up] \in transfer!JobState
  BY DEF transfer!JobState

LEMMA Probed == ASSUME transfer!TransferInv, transfer!Probe PROVE transfer!TransferInv'
  <1>1. PICK up \in transfer!Kbps, auth \in BOOLEAN : s3' = transfer!Rung([s3 EXCEPT !.up = up], auth)
    <2>1. CASE transfer!Probes /\ \E best \in Rates :
                 s3' = transfer!Rung([s3 EXCEPT !.up = IF best > Target THEN transfer!Lower(best, Ceiling) ELSE Target], TRUE)
      <3>1. PICK best \in Rates :
              s3' = transfer!Rung([s3 EXCEPT !.up = IF best > Target THEN transfer!Lower(best, Ceiling) ELSE Target], TRUE)
        BY <2>1
      <3>2. (IF best > Target THEN transfer!Lower(best, Ceiling) ELSE Target) \in transfer!Kbps
        BY DEF transfer!Kbps, transfer!Lower
      <3> QED
        BY <3>1, <3>2
    <2>2. CASE s3' = transfer!Rung([s3 EXCEPT !.up = Target], TRUE)
      BY <2>2 DEF transfer!Kbps
    <2>3. CASE s3' = transfer!Rung([s3 EXCEPT !.up = Target], s1.cookies)
      BY <2>3 DEF transfer!Kbps, transfer!TransferInv
    <2> QED
      BY <2>1, <2>2, <2>3 DEF transfer!Probe
  <1> DEFINE j == [s3 EXCEPT !.up = up]
  <1>2. j \in transfer!JobState
    BY UpIsKnown DEF transfer!TransferInv
  <1> HIDE DEF j
  <1>3. /\ s3' \in transfer!JobState /\ s3'.pc = "call" /\ s3'.abr = 0
        /\ s1.convert => s3'.announced = s3'.coded
    BY <1>1, <1>2, RungBegins DEF j
  <1>4. s3.pc = "start" /\ UNCHANGED <<s1, s2, s4, s6, s7, s8>>
    BY DEF transfer!Probe, transfer!At
  <1> QED
    BY <1>3, <1>4 DEF transfer!TransferInv, transfer!RungIsOne, transfer!FiledAtTheEnd,
       transfer!TransferIsTrue, transfer!RowIsTrue, transfer!PanelIsTrue,
       transfer!StoppedIsNotFiled, transfer!At

\* A step that turns the page and writes nothing.
LEMMA TransferPasses ==
  ASSUME transfer!TransferInv, ~transfer!At("start"), ~transfer!At("done"), UNCHANGED <<s1, s2, s4, s5, s7, s8>>,
         NEW pc \in {"call", "stream", "wait", "record", "done"}, s3' = [s3 EXCEPT !.pc = pc]
  PROVE  transfer!TransferInv'
  <1>1. /\ s3' \in transfer!JobState /\ s3'.announced = s3.announced /\ s3'.coded = s3.coded
        /\ s3'.abr = s3.abr /\ s3'.pc = pc
    BY DEF transfer!TransferInv, transfer!JobState
  <1>2. "row" \notin s7 /\ s7 \intersect {"error", "memory"} = {}
    BY DEF transfer!TransferInv, transfer!FiledAtTheEnd
  <1> QED
    BY <1>1, <1>2 DEF transfer!TransferInv, transfer!RungIsOne, transfer!FiledAtTheEnd,
       transfer!TransferIsTrue, transfer!RowIsTrue, transfer!PanelIsTrue,
       transfer!StoppedIsNotFiled, transfer!At

LEMMA Calls == ASSUME transfer!TransferInv, transfer!Call \/ transfer!Arrived \/ transfer!Guard
  PROVE transfer!TransferInv'
  BY TransferPasses DEF transfer!Call, transfer!Arrived, transfer!Guard, transfer!Ends, transfer!At

LEMMA Waits == ASSUME transfer!TransferInv, transfer!Backoff PROVE transfer!TransferInv'
  <1>1. CASE transfer!Stopping
    BY <1>1, TransferPasses DEF transfer!Backoff, transfer!Ends, transfer!At
  <1>2. CASE ~transfer!Stopping
    <2>1. s3' = [s3 EXCEPT !.pc = "call", !.attempt = @ + 1]
      BY <1>2 DEF transfer!Backoff
    <2> DEFINE n == s3.attempt + 1
    <2>2. n \in Nat
      BY DEF transfer!TransferInv, transfer!JobState
    <2>3. s3' = [s3 EXCEPT !.pc = "call", !.attempt = n]
      BY <2>1
    <2> HIDE DEF n
    <2>4. /\ s3' \in transfer!JobState /\ s3'.pc = "call" /\ s3'.abr = s3.abr
          /\ s3'.announced = s3.announced /\ s3'.coded = s3.coded
      BY <2>2, <2>3 DEF transfer!TransferInv, transfer!JobState
    <2> QED
      BY <2>4 DEF transfer!Backoff, transfer!TransferInv, transfer!RungIsOne,
         transfer!FiledAtTheEnd, transfer!TransferIsTrue, transfer!RowIsTrue,
         transfer!PanelIsTrue,
         transfer!StoppedIsNotFiled, transfer!At
  <1> QED
    BY <1>1, <1>2

LEMMA Hears == ASSUME transfer!TransferInv, transfer!Hook PROVE transfer!TransferInv'
  <1>1. CASE transfer!Stopping
    BY <1>1, TransferPasses DEF transfer!Hook, transfer!Ends, transfer!At
  <1>2. CASE ~transfer!Stopping
    <2>1. PICK abr \in Rates : /\ s5' = s5 \union {abr} /\ s3' = [s3 EXCEPT !.abr = abr]
                               /\ s4' = [abr |-> abr, kbps |-> s3.announced]
      BY <1>2 DEF transfer!Hook
    <2>2. /\ s3' \in transfer!JobState /\ s3'.pc = s3.pc /\ s3'.abr = abr
          /\ s3'.announced = s3.announced /\ s3'.coded = s3.coded
      BY <2>1 DEF transfer!TransferInv, transfer!JobState, transfer!Kbps
    <2> QED
      BY <2>1, <2>2 DEF transfer!Hook, transfer!TransferInv, transfer!RungIsOne,
         transfer!FiledAtTheEnd, transfer!TransferIsTrue, transfer!RowIsTrue,
         transfer!PanelIsTrue,
         transfer!StoppedIsNotFiled, transfer!At
  <1> QED
    BY <1>1, <1>2

LEMMA Failed == ASSUME transfer!TransferInv, transfer!Refused PROVE transfer!TransferInv'
  <1>1. CASE transfer!Stopping
    BY <1>1, TransferPasses DEF transfer!Refused, transfer!Raises, transfer!Ends, transfer!At
  <1>2. CASE ~transfer!Stopping
    <2>1. PICK error \in transfer!Errors : transfer!Fails(error)
      BY <1>2 DEF transfer!Refused, transfer!Raises
    <2>2. transfer!At("stream") /\ UNCHANGED <<s1, s2, s4, s8>>
      BY DEF transfer!Refused
    <2> DEFINE age == IF s3.age # transfer!None THEN s3.age ELSE IF error = "age" THEN "yes" ELSE "no"
    <2>3. CASE s3' = [s3 EXCEPT !.pc = "wait"] /\ UNCHANGED <<s7, s5>>
      BY <2>2, <2>3, TransferPasses DEF transfer!At
    <2>4. CASE s3' = transfer!Rung([s3 EXCEPT !.age = age], FALSE) /\ s5' = {} /\ UNCHANGED s7
      <3> DEFINE j == [s3 EXCEPT !.age = age]
      <3>1. age \in {"yes", "no", transfer!None}
        BY DEF transfer!TransferInv, transfer!JobState
      <3>2. j \in transfer!JobState
        <4> HIDE DEF age
        <4> QED
          BY <3>1 DEF transfer!TransferInv, transfer!JobState
      <3>3. s3' = transfer!Rung(j, FALSE)
        BY <2>4
      <3> HIDE DEF j
      <3>4. /\ s3' \in transfer!JobState /\ s3'.pc = "call" /\ s3'.abr = 0
            /\ s1.convert => s3'.announced = s3'.coded
        BY <3>2, <3>3, RungBegins
      <3> QED
        BY <2>2, <2>4, <3>4 DEF transfer!TransferInv, transfer!RungIsOne, transfer!FiledAtTheEnd,
           transfer!TransferIsTrue, transfer!RowIsTrue, transfer!PanelIsTrue,
           transfer!StoppedIsNotFiled, transfer!At
    <2>5. CASE s3' = [s3 EXCEPT !.pc = "done"] /\ UNCHANGED s5 /\ s7' \subseteq s7 \union {"error", "memory"}
      BY <1>2, <2>2, <2>5, TransferPageTurns DEF transfer!TransferInv, transfer!RungIsOne,
         transfer!FiledAtTheEnd, transfer!TransferIsTrue, transfer!RowIsTrue,
         transfer!PanelIsTrue, transfer!StoppedIsNotFiled, transfer!At, transfer!Stopping
    <2> QED
      BY <2>1, <2>3, <2>4, <2>5 DEF transfer!Fails, transfer!Ends
  <1> QED
    BY <1>1, <1>2

LEMMA TransferRecords == ASSUME transfer!TransferInv, transfer!Remember \/ transfer!AddRow
  PROVE transfer!TransferInv'
  <1>1. CASE transfer!Remember
    BY <1>1 DEF transfer!Remember, transfer!TransferInv, transfer!RungIsOne,
       transfer!FiledAtTheEnd, transfer!TransferIsTrue, transfer!RowIsTrue, transfer!PanelIsTrue,
       transfer!StoppedIsNotFiled, transfer!At
  <1>2. CASE transfer!AddRow
    BY <1>2, TransferPageTurns DEF transfer!AddRow, transfer!Ends, transfer!TransferInv,
       transfer!RungIsOne, transfer!FiledAtTheEnd, transfer!TransferIsTrue, transfer!RowIsTrue,
       transfer!PanelIsTrue, transfer!StoppedIsNotFiled, transfer!At
  <1> QED
    BY <1>1, <1>2

LEMMA Asks == ASSUME transfer!TransferInv, transfer!Ask \/ UNCHANGED transfer!vars PROVE transfer!TransferInv'
  BY DEF transfer!Ask, transfer!vars, transfer!TransferInv, transfer!RungIsOne,
     transfer!FiledAtTheEnd, transfer!TransferIsTrue, transfer!RowIsTrue, transfer!PanelIsTrue,
     transfer!StoppedIsNotFiled, transfer!At

LEMMA TransferStep == transfer!TransferInv /\ (transfer!Next \/ UNCHANGED transfer!vars) =>
    transfer!TransferInv'
  BY Probed, Calls, Waits, Hears, Failed, TransferRecords, Asks DEF transfer!Next

LEMMA TransferHolds == transfer!TransferInv => transfer!TransferIsTrue
  BY DEF transfer!TransferInv

-----------------------------------------------------------------------------
(* TrackNames: a file, its name, its tag and its row are of one upload. *)

\* A name is told by its stem and its extension, and so is the upload's title.
LEMMA NameOfUpload ==
  ASSUME NEW t \in Titled, NEW ext
  PROVE  /\ names!YtdlName(Title[t], ext).ext = ext /\ names!YtdlName(Title[t], ext).words = Title[t].words
         /\ names!YtdlName(Title[t], ext).ends = Title[t].ends
         /\ names!Stem(names!YtdlName(Title[t], ext)) = names!Stem(names!Mp3(t))
         /\ DOMAIN names!YtdlName(Title[t], ext) = {"words", "mark", "pad", "ends", "ext"}
  BY DEF names!YtdlName, names!Named, names!Stem, names!Mp3

LEMMA StemTells ==
  ASSUME NEW t \in Titled, NEW u \in Titled, NEW ext,
         names!Stem(names!Mp3(u)) = names!Stem(names!YtdlName(Title[t], ext))
  PROVE  names!YtdlName(Title[u], ext) = names!YtdlName(Title[t], ext)
  BY DEF names!YtdlName, names!Named, names!Stem, names!Mp3

LEMMA NamesInit == names!Init => names!NamesInv
  <1> SUFFICES ASSUME names!Init PROVE names!NamesInv
    OBVIOUS
  <1>1. PICK owned \in SUBSET Owned : s1 = [f \in owned |-> [of |-> "user", tag |-> names!None, art |-> names!None]]
    BY DEF names!Init
  <1>2. \A f \in DOMAIN s1 : s1[f] \in names!FileState /\ s1[f].of = "user"
    BY <1>1 DEF names!FileState, names!Uploads
  <1>3. s5 \in names!RunState(s5.index) /\ s5.pc = "idle"
    BY DEF names!Init, names!Idle, names!Uploads, names!RunState
  <1>4. s1 \in [DOMAIN s1 -> names!FileState] /\ DOMAIN s2 = {} /\ DOMAIN s3 = {}
    BY <1>1, <1>2 DEF names!Init
  <1>5. s2 \in [DOMAIN s2 -> Titled] /\ s3 \in [DOMAIN s3 -> names!Uploads]
    BY <1>4 DEF names!Init
  <1>6. s4 \subseteq Titled /\ s6.id = names!None
    BY ListingsAssumption DEF names!Init, names!NotYet
  <1> QED
    BY <1>2, <1>3, <1>4, <1>5, <1>6, UploadsAssumption DEF names!NamesInv, names!NameTypes,
       names!NamedAfter, names!RecoveryIsOld, names!RecoveredIsRight,
       names!IndexIsWhole, names!FetchedIsRecorded, names!CoverIsItsOwn, names!Fetched, names!Mp3s, names!At

LEMMA NamesAtRest == names!Idle \in names!RunState(names!Idle.index) /\ names!Idle.pc = "idle"
  BY DEF names!Idle, names!RunState, names!Uploads

\* Whatever the files are and say stays so: what was known of them is known.
LEMMA FilesStay ==
  ASSUME names!NamesInv, UNCHANGED <<s1, s3>>, s7 \subseteq s7', s8' = s8,
         \A f \in DOMAIN s1 : names!At("record") /\ f = names!Written =>
             (names!At("record")' /\ names!Written' = names!Written) \/ f \in s7'
  PROVE  names!FetchedIsRecorded' /\ names!CoverIsItsOwn'
  BY DEF names!NamesInv, names!FetchedIsRecorded, names!CoverIsItsOwn, names!Fetched, names!Mp3s

LEMMA Starts == ASSUME names!NamesInv, names!Start PROVE names!NamesInv'
  <1>1. PICK mode \in {"both", "db"}, keep \in BOOLEAN, index \in names!IndexFolder :
          s5' = [names!Idle EXCEPT !.pc = "next", !.mode = mode, !.keep = keep, !.todo = s4, !.index = index]
    BY DEF names!Start
  <1>2. s5' \in names!RunState(index) /\ s5'.pc = "next" /\ s5'.index = index
    <2>1. s4 \in SUBSET Titled
      BY DEF names!NamesInv, names!NameTypes
    <2> QED
      BY <1>1, <2>1 DEF names!Idle, names!RunState, names!Uploads
  <1>3. \A f \in names!Mp3s : names!NormalizeTrackKey(f) \in DOMAIN index \union {names!NoKey}
    BY DEF names!IndexFolder, names!Keys
  <1>4. UNCHANGED <<s1, s2, s3, s4, s7, s8>> /\ s6' = names!NotYet /\ s5.pc = "idle"
    BY DEF names!Start, names!At
  <1>5. names!FetchedIsRecorded' /\ names!CoverIsItsOwn'
    BY <1>4, FilesStay DEF names!At
  <1>6. names!NameTypes' /\ names!NamedAfter'
    BY <1>2, <1>4 DEF names!NamesInv, names!NameTypes, names!NamedAfter, names!At, names!RunState
  <1>7. names!RecoveryIsOld' /\ names!IndexIsWhole'
    BY <1>2, <1>3, <1>4 DEF names!RecoveryIsOld, names!RecoveredIsRight, names!NotYet,
       names!IndexIsWhole, names!At, names!Mp3s
  <1> QED
    BY <1>5, <1>6, <1>7 DEF names!NamesInv

LEMMA Ends == ASSUME names!NamesInv, names!End \/ names!Kill PROVE names!NamesInv'
  <1>1. s5' = names!Idle /\ UNCHANGED <<s1, s2, s3, s4, s6, s8>>
    BY DEF names!End, names!Kill
  <1>2. s5' \in names!RunState(s5'.index) /\ s5'.pc = "idle"
    BY <1>1, NamesAtRest
  <1>3. names!FetchedIsRecorded' /\ names!CoverIsItsOwn'
    BY <1>1, FilesStay DEF names!End, names!Kill, names!At
  <1>4. names!NameTypes' /\ names!NamedAfter'
    BY <1>1, <1>2 DEF names!NamesInv, names!NameTypes, names!NamedAfter, names!At, names!RunState
  <1>5. names!RecoveryIsOld' /\ names!IndexIsWhole'
    BY <1>1, <1>2 DEF names!NamesInv, names!RecoveryIsOld, names!RecoveredIsRight,
       names!IndexIsWhole, names!At
  <1> QED
    BY <1>3, <1>4, <1>5 DEF names!NamesInv

LEMMA Withdraws == ASSUME names!NamesInv, NEW t \in Titled, names!Withdraw(t) PROVE names!NamesInv'
  <1>1. UNCHANGED <<s1, s2, s3, s5, s6, s7, s8>> /\ s4' \subseteq s4
    BY DEF names!Withdraw
  <1>2. names!FetchedIsRecorded' /\ names!CoverIsItsOwn'
    BY <1>1, FilesStay DEF names!At, names!Written
  <1> QED
    BY <1>1, <1>2 DEF names!NamesInv, names!NameTypes, names!NamedAfter, names!RecoveryIsOld,
       names!RecoveredIsRight, names!IndexIsWhole, names!At, names!Written, names!Mp3s

\* A tag written where there was none leaves a good file alone.
LEMMA TagKeeps ==
  ASSUME NEW f \in DOMAIN s1, NEW t \in Titled, s1[f] \in names!FileState
  PROVE  /\ names!Tag(f, t) \in names!FileState /\ names!Tag(f, t).of = s1[f].of
            /\ names!Tag(f, t).art = s1[f].art
         /\ s1[f].tag # names!None => names!Tag(f, t) = s1[f]
         /\ f.ext = "mp3" /\ s1[f].tag = names!None => names!Tag(f, t).tag = t
  BY DEF names!Tag, names!FileState, names!Uploads

LEMMA Skipped == ASSUME names!NamesInv, names!Skip PROVE names!NamesInv'
  <1>1. PICK t \in s5.todo : /\ s5' = [s5 EXCEPT !.todo = @ \ {t}]
                             /\ s1' = [f \in DOMAIN s1 |-> IF f \in names!Path(t) THEN names!Tag(f, t) ELSE s1[f]]
    BY DEF names!Skip
  <1> DEFINE todo == s5.todo \ {t}
  <1>2. t \in Titled /\ s5 \in names!RunState(s5.index) /\ s5.pc = "next" /\ todo \subseteq Titled
    BY DEF names!NamesInv, names!NameTypes, names!Skip, names!At, names!RunState
  <1>3. s5' = [s5 EXCEPT !.todo = todo]
    BY <1>1
  <1> HIDE DEF todo
  <1>4. s5' \in names!RunState(s5'.index) /\ s5'.pc = "next" /\ s5'.index = s5.index
    BY <1>2, <1>3 DEF names!RunState
  <1>5. /\ DOMAIN s1' = DOMAIN s1
        /\ \A f \in DOMAIN s1 : /\ s1'[f] \in names!FileState /\ s1'[f].of = s1[f].of /\ s1'[f].art = s1[f].art
                                /\ s1[f].tag # names!None => s1'[f].tag = s1[f].tag
    BY <1>1, <1>2, TagKeeps DEF names!NamesInv, names!NameTypes
  <1>6. UNCHANGED <<s2, s3, s4, s6, s7, s8>>
    BY DEF names!Skip
  <1>7. s1' \in [DOMAIN s1' -> names!FileState]
    BY <1>1, <1>5
  <1>8. names!NameTypes' /\ names!NamedAfter'
    BY <1>2, <1>4, <1>5, <1>6, <1>7 DEF names!NamesInv, names!NameTypes, names!NamedAfter,
       names!At, names!RunState
  <1>9. names!RecoveryIsOld' /\ names!IndexIsWhole'
    BY <1>2, <1>4, <1>5, <1>6 DEF names!NamesInv, names!RecoveryIsOld, names!RecoveredIsRight,
       names!NotYet, names!IndexIsWhole, names!At, names!Mp3s
  <1>10. names!FetchedIsRecorded' /\ names!CoverIsItsOwn'
    BY <1>2, <1>4, <1>5, <1>6, UploadsAssumption DEF names!NamesInv, names!FetchedIsRecorded,
       names!CoverIsItsOwn, names!Fetched, names!At, names!Mp3s
  <1> QED
    BY <1>8, <1>9, <1>10 DEF names!NamesInv

LEMMA PutIs ==
  ASSUME NEW f, NEW k, NEW x
  PROVE  /\ DOMAIN names!Put(f, k, x) = DOMAIN f \union {k} /\ names!Put(f, k, x)[k] = x
         /\ \A i \in DOMAIN f \ {k} : names!Put(f, k, x)[i] = f[i]
  BY DEF names!Put

LEMMA Fetches == ASSUME names!NamesInv, names!Fetch PROVE names!NamesInv'
  <1> DEFINE Name(t) == names!YtdlName(Title[t], IF s5.keep THEN "webm" ELSE "mp3")
  <1>1. PICK t \in s5.todo, cover \in BOOLEAN :
          /\ s1' = IF s5.keep /\ Name(t) \in DOMAIN s1 THEN s1
                      ELSE names!Put(s1, Name(t), [of |-> t, tag |-> names!None, art |-> names!None])
          /\ s2' = IF cover /\ names!Stem(Name(t)) \notin DOMAIN s2
                   THEN names!Put(s2, names!Stem(Name(t)), t) ELSE s2
          /\ s5' = [s5 EXCEPT !.pc = "record", !.todo = @ \ {t}, !.t = t, !.cover = cover]
    BY DEF names!Fetch
  <1> DEFINE todo == s5.todo \ {t}
             w == Name(t)
  <1>2. t \in Titled /\ s5 \in names!RunState(s5.index) /\ s5.pc = "next" /\ todo \subseteq Titled
          /\ t \in names!Uploads
    BY DEF names!NamesInv, names!NameTypes, names!Fetch, names!At, names!RunState, names!Uploads
  <1>3. s5' = [s5 EXCEPT !.pc = "record", !.todo = todo, !.t = t, !.cover = cover]
    BY <1>1
  <1> HIDE DEF todo
  <1>4. s5' \in names!RunState(s5'.index) /\ s5'.pc = "record" /\ s5'.index = s5.index /\ s5'.t = t
          /\ s5'.keep = s5.keep
    BY <1>2, <1>3 DEF names!RunState
  <1>5. names!Written' = w /\ UNCHANGED <<s3, s4, s6, s7, s8>>
    BY <1>4 DEF names!Written, names!Fetch
  <1>6. w.ext = (IF s5.keep THEN "webm" ELSE "mp3") /\ names!Stem(w) = names!Stem(names!Mp3(t))
          /\ w = names!YtdlName(Title[t], w.ext)
    BY <1>2, NameOfUpload
  <1> DEFINE new == [of |-> t, tag |-> names!None, art |-> names!None]
  <1>7. new \in names!FileState /\ new.of = t
    BY <1>2 DEF names!FileState, names!Uploads
  <1>8. /\ w \in DOMAIN s1' /\ DOMAIN s1' = DOMAIN s1 \union {w}
        /\ \A f \in DOMAIN s1 \ {w} : s1'[f] = s1[f]
        /\ \/ s1'[w] = new
           \/ s5.keep /\ w \in DOMAIN s1 /\ s1'[w] = s1[w]
    <2> HIDE DEF w, new
    <2>1. s1' = IF s5.keep /\ w \in DOMAIN s1 THEN s1 ELSE names!Put(s1, w, new)
      BY <1>1 DEF w, new
    <2>2. CASE s5.keep /\ w \in DOMAIN s1
      BY <2>1, <2>2
    <2>3. CASE s1' = names!Put(s1, w, new)
      BY <2>3 DEF names!Put
    <2> QED
      BY <2>1, <2>2, <2>3
  <1>9. /\ DOMAIN s2' \subseteq DOMAIN s2 \union {names!Stem(w)}
        /\ \A s \in DOMAIN s2' : s2'[s] \in Titled /\ (s \in DOMAIN s2 => s2'[s] = s2[s])
        /\ \A s \in DOMAIN s2' \ DOMAIN s2 : s = names!Stem(w) /\ s2'[s] = t
        /\ s2' \in [DOMAIN s2' -> Titled]
    <2> HIDE DEF w
    <2>1. s2' = s2 \/ (names!Stem(w) \notin DOMAIN s2 /\ s2' = names!Put(s2, names!Stem(w), t))
      BY <1>1 DEF w
    <2>2. CASE s2' = s2
      BY <2>2 DEF names!NamesInv, names!NameTypes
    <2>3. CASE names!Stem(w) \notin DOMAIN s2 /\ s2' = names!Put(s2, names!Stem(w), t)
      BY <1>2, <2>3, PutIs DEF names!NamesInv, names!NameTypes, names!Put
    <2> QED
      BY <2>1, <2>2, <2>3
  <1> HIDE DEF w, new
  <1>10. s1' \in [DOMAIN s1' -> names!FileState]
    <2>1. CASE s1' = s1
      BY <2>1 DEF names!NamesInv, names!NameTypes
    <2>2. CASE s1' = names!Put(s1, w, new)
      BY <1>7, <2>2 DEF names!NamesInv, names!NameTypes, names!Put
    <2> QED
      BY <1>1, <2>1, <2>2 DEF w, new
  <1>11. names!NameTypes' /\ names!NamedAfter'
    BY <1>2, <1>4, <1>5, <1>6, <1>7, <1>8, <1>9, <1>10 DEF names!NamesInv, names!NameTypes,
       names!NamedAfter, names!At, names!RunState
  <1>12. names!RecoveryIsOld' /\ names!IndexIsWhole'
    BY <1>2, <1>4, <1>5, <1>6, <1>7, <1>8 DEF new, names!NamesInv, names!RecoveryIsOld,
       names!RecoveredIsRight, names!NotYet, names!IndexIsWhole, names!At, names!Mp3s
  <1>13. names!FetchedIsRecorded' /\ names!CoverIsItsOwn'
    BY <1>2, <1>4, <1>5, <1>8 DEF names!NamesInv, names!FetchedIsRecorded, names!CoverIsItsOwn,
       names!Fetched, names!At, names!Mp3s
  <1> QED
    BY <1>11, <1>12, <1>13 DEF names!NamesInv

LEMMA NamesRecords == ASSUME names!NamesInv, names!Record PROVE names!NamesInv'
  <1> DEFINE cover(f) == s5.cover /\ names!Stem(f) \in DOMAIN s2
  <1>1. PICK f \in IF names!FindExisting(Title[s5.t]) = {} THEN {names!Written} ELSE names!FindExisting(Title[s5.t]) :
          /\ s1' = [s1 EXCEPT ![f] = IF cover(f) THEN [names!Tag(f, s5.t) EXCEPT !.art = s2[names!Stem(f)]] ELSE names!Tag(f, s5.t)]
          /\ s2' = IF cover(f) THEN [s \in DOMAIN s2 \ {names!Stem(f)} |-> s2[s]] ELSE s2
          /\ s3' = names!Put(s3, f, s5.t)
          /\ s5' = [s5 EXCEPT !.pc = "next", !.t = names!None, !.cover = FALSE, !.index = names!Remember(@, f)]
          /\ s8' = IF f = names!Written THEN s8 \ {f} ELSE s8 \cup {f}
          /\ s7' = IF f = names!Written THEN s7 \ {f} ELSE s7
    BY DEF names!Record
  <1>2. /\ s5.pc = "record" /\ s5.t \in Titled /\ names!Written \in DOMAIN s1 /\ UNCHANGED <<s4, s6>>
        /\ s5 \in names!RunState(s5.index)
    BY DEF names!Record, names!At, names!NamesInv, names!NameTypes
  <1> DEFINE w == names!Written
             t == s5.t
  <1>3. /\ w = names!YtdlName(Title[t], IF s5.keep THEN "webm" ELSE "mp3")
        /\ w.ext = (IF s5.keep THEN "webm" ELSE "mp3")
        /\ ~s5.keep => names!FindExisting(Title[t]) = {w}
    BY <1>2, NameOfUpload DEF names!Written, names!FindExisting
  <1>4. f \in DOMAIN s1 /\ (~s5.keep => f = w)
    BY <1>1, <1>2, <1>3 DEF names!FindExisting
  <1> DEFINE index == names!Remember(s5.index, f)
  <1>5. s5' \in names!RunState(s5'.index) /\ s5'.pc = "next" /\ s5'.index = index
    <2> HIDE DEF index
    <2>1. s5' = [s5 EXCEPT !.pc = "next", !.t = names!None, !.cover = FALSE, !.index = index]
      BY <1>1 DEF index
    <2> QED
      BY <1>2, <2>1 DEF names!RunState, names!Uploads
  <1>6. /\ DOMAIN s5.index \subseteq DOMAIN index
        /\ names!NormalizeTrackKey(f) \in DOMAIN index \union {names!NoKey}
    BY DEF names!Remember, names!Put
  <1> DEFINE tagged == names!Tag(f, t)
             file == IF cover(f) THEN [tagged EXCEPT !.art = s2[names!Stem(f)]] ELSE tagged
  <1>7. /\ tagged \in names!FileState /\ tagged.of = s1[f].of /\ tagged.art = s1[f].art
        /\ f.ext = "mp3" /\ s1[f].tag = names!None => tagged.tag = t
    BY <1>2, <1>4, TagKeeps DEF names!NamesInv, names!NameTypes
  <1>8. cover(f) => s2[names!Stem(f)] \in Titled /\ names!Stem(names!Mp3(s2[names!Stem(f)])) = names!Stem(f)
    BY DEF names!NamesInv, names!NameTypes, names!NamedAfter
  <1>9. /\ file \in names!FileState /\ file.of = s1[f].of /\ file.tag = tagged.tag
        /\ file.art = tagged.art \/ (file.art \in Titled /\ names!Stem(names!Mp3(file.art)) = names!Stem(f))
    <2> HIDE DEF tagged
    <2>1. CASE cover(f)
      <3> DEFINE c == s2[names!Stem(f)]
      <3>1. c \in names!Uploads
        BY <1>8, <2>1 DEF names!Uploads
      <3>2. file = [tagged EXCEPT !.art = c]
        BY <2>1
      <3> HIDE DEF c
      <3>3. file \in names!FileState /\ file.of = tagged.of /\ file.tag = tagged.tag /\ file.art = c
        BY <1>7, <3>1, <3>2 DEF names!FileState
      <3> QED
        BY <1>7, <1>8, <2>1, <3>3 DEF c
    <2>2. CASE ~cover(f)
      BY <1>7, <2>2
    <2> QED
      BY <2>1, <2>2
  <1>10. s1' = [s1 EXCEPT ![f] = file]
    BY <1>1
  <1> HIDE DEF tagged, file, cover, index
  <1>11. /\ DOMAIN s1' = DOMAIN s1 /\ s1'[f] = file /\ \A g \in DOMAIN s1 \ {f} : s1'[g] = s1[g]
         /\ s1' \in [DOMAIN s1' -> names!FileState]
    BY <1>4, <1>9, <1>10 DEF names!NamesInv, names!NameTypes
  <1>12. /\ DOMAIN s3' = DOMAIN s3 \union {f} /\ s3'[f] = t /\ \A g \in DOMAIN s3 \ {f} : s3'[g] = s3[g]
         /\ s3' \in [DOMAIN s3' -> names!Uploads]
    BY <1>1, <1>2 DEF names!Put, names!NamesInv, names!NameTypes, names!Uploads
  <1>13. /\ DOMAIN s2' \subseteq DOMAIN s2 /\ \A s \in DOMAIN s2' : s2'[s] = s2[s]
         /\ s2' \in [DOMAIN s2' -> Titled]
    BY <1>1 DEF names!NamesInv, names!NameTypes
  <1>14. names!NameTypes' /\ names!NamedAfter'
    BY <1>2, <1>5, <1>9, <1>11, <1>12, <1>13 DEF names!NamesInv, names!NameTypes,
       names!NamedAfter, names!At, names!RunState
  <1>15. names!RecoveryIsOld' /\ names!IndexIsWhole'
    <2>1. names!Mp3s' = names!Mp3s
      BY <1>11 DEF names!Mp3s
    <2>2. \A g \in names!Mp3s : g = w => g = f
      BY <1>3, <1>4 DEF names!Mp3s
    <2> QED
      BY <1>2, <1>5, <1>6, <1>11, <2>1, <2>2 DEF names!NamesInv, names!RecoveryIsOld,
         names!RecoveredIsRight, names!NotYet, names!IndexIsWhole, names!At
  <1>16. \A g \in names!Mp3s : g # f => g # w
    BY <1>3, <1>4 DEF names!Mp3s
  <1>17. f # w => f \in s8'
    BY <1>1
  <1>18. f = w /\ f.ext = "mp3" => /\ s1[f] = [of |-> t, tag |-> names!None, art |-> names!None]
                                      /\ file.of = t /\ file.tag = t
                                   /\ file.art = names!None \/ names!YtdlName(Title[file.art], "mp3") = f
    <2> SUFFICES ASSUME f = w, f.ext = "mp3"
                 PROVE  /\ s1[f] = [of |-> t, tag |-> names!None, art |-> names!None] /\ file.of = t
                           /\ file.tag = t
                        /\ file.art = names!None \/ names!YtdlName(Title[file.art], "mp3") = f
      OBVIOUS
    <2>1. ~s5.keep /\ w = names!YtdlName(Title[t], "mp3")
      BY <1>3
    <2>2. s1[f] = [of |-> t, tag |-> names!None, art |-> names!None]
      BY <1>2, <2>1 DEF names!NamesInv, names!IndexIsWhole, names!At
    <2>3. file.of = t /\ file.tag = t
            /\ (file.art = names!None
               \/ (file.art \in Titled /\ names!Stem(names!Mp3(file.art)) = names!Stem(f)))
      BY <1>7, <1>9, <2>2
    <2>4. file.art \in Titled /\ names!Stem(names!Mp3(file.art)) = names!Stem(f) =>
            names!YtdlName(Title[file.art], "mp3") = f
      BY <1>2, <2>1, StemTells
    <2> QED
      BY <2>2, <2>3, <2>4
  <1>19. /\ \A g \in names!Mp3s : g # f => (g \in s7' <=> g \in s7) /\ (g \in s8' <=> g \in s8)
         /\ s5'.pc = "next"
    BY <1>1, <1>5
  <1>20. names!FetchedIsRecorded' /\ names!CoverIsItsOwn'
    <2> SUFFICES ASSUME NEW g \in names!Mp3s, g \notin s7' \union s8', s1'[g].of \in Titled
                 PROVE  /\ g \in DOMAIN s3' /\ s3'[g] = s1'[g].of /\ s1'[g].tag = s1'[g].of
                        /\ s1'[g].art # names!None => names!YtdlName(Title[s1'[g].art], "mp3") = g
      BY <1>11 DEF names!FetchedIsRecorded, names!CoverIsItsOwn, names!Fetched, names!Mp3s
    <2>1. CASE g = f
      BY <1>11, <1>12, <1>17, <1>18, <2>1 DEF names!Mp3s
    <2>2. CASE g # f
      BY <1>11, <1>12, <1>16, <1>19, <2>2 DEF names!NamesInv, names!FetchedIsRecorded,
         names!CoverIsItsOwn, names!Fetched, names!Mp3s
    <2> QED
      BY <2>1, <2>2
  <1> QED
    BY <1>14, <1>15, <1>20 DEF names!NamesInv

LEMMA Rebuilds == ASSUME names!NamesInv, names!Rebuild PROVE names!NamesInv'
  <1>1. PICK kept \in {{}, DOMAIN s3} :
          s3' = [f \in DOMAIN s1 |-> IF s1[f].tag # names!None THEN s1[f].tag
                                          ELSE IF f \in kept THEN s3[f] ELSE names!None]
    BY DEF names!Rebuild
  <1>2. UNCHANGED <<s1, s2, s4, s5, s6, s7, s8>> /\ s5.pc = "idle"
    BY DEF names!Rebuild, names!At
  <1>3. s3' \in [DOMAIN s3' -> names!Uploads] /\ DOMAIN s3' = DOMAIN s1
        /\ \A f \in DOMAIN s1 : s1[f].tag # names!None => s3'[f] = s1[f].tag
    BY <1>1 DEF names!NamesInv, names!NameTypes, names!FileState, names!Uploads
  <1>4. names!FetchedIsRecorded' /\ names!CoverIsItsOwn'
    BY <1>2, <1>3, UploadsAssumption DEF names!NamesInv, names!FetchedIsRecorded,
       names!CoverIsItsOwn, names!Fetched, names!Mp3s, names!At, names!Written
  <1> QED
    BY <1>2, <1>3, <1>4 DEF names!NamesInv, names!NameTypes, names!NamedAfter,
       names!RecoveryIsOld, names!RecoveredIsRight, names!IndexIsWhole, names!At, names!Written,
       names!Mp3s

\* The listing gives a file no upload but the one it was fetched as.
LEMMA LookedUp ==
  ASSUME names!NamesInv, NEW f \in DOMAIN s1, NEW id \in names!LookupVideoId(f)
  PROVE  id \in Titled /\ (s1[f].of \in s4 => id = s1[f].of)
  <1> DEFINE alike == {t \in s4 : names!NormalizeTitleKey(Title[t]) = names!NormalizeTitleKey(f)}
  <1>1. alike \subseteq Titled /\ names!IsFiniteSet(alike)
    BY UploadsAssumption, NamesSets, NamesSubset DEF names!NamesInv, names!NameTypes
  <1>2. names!Cardinality(alike) = 1 /\ id \in alike
    BY DEF names!LookupVideoId
  <1>3. \E x : alike = {x}
    BY <1>1, <1>2, NamesSingle
  <1>4. s1[f].of \in s4 => s1[f].of \in alike
    <2> SUFFICES ASSUME s1[f].of \in s4
      PROVE names!NormalizeTitleKey(Title[s1[f].of]) = names!NormalizeTitleKey(f)
      OBVIOUS
    <2>1. s1[f].of \in Titled /\ f = names!YtdlName(Title[s1[f].of], f.ext)
      BY DEF names!NamesInv, names!NameTypes, names!NamedAfter
    <2> QED
      BY <2>1, NameOfUpload DEF names!NormalizeTitleKey
  <1> QED
    BY <1>1, <1>2, <1>3, <1>4

LEMMA NamesBackfills == ASSUME names!NamesInv, NEW f \in DOMAIN s1, names!Backfill(f) PROVE names!NamesInv'
  <1>1. PICK id \in IF s3[f] # names!None THEN {s3[f]} ELSE names!LookupVideoId(f) \cup {names!None} :
          /\ s3' = [s3 EXCEPT ![f] = id]
          /\ s6' = IF s3[f] = names!None THEN [file |-> f, id |-> id] ELSE s6
          /\ s1' = [s1 EXCEPT ![f].art = IF names!Stem(f) \in DOMAIN s2 THEN s2[names!Stem(f)] ELSE id]
          /\ s2' = [s \in DOMAIN s2 \ {names!Stem(f)} |-> s2[s]]
    BY DEF names!Backfill
  <1>2. s5.pc = "idle" /\ f \in DOMAIN s3 /\ UNCHANGED <<s4, s5, s7, s8>>
    BY DEF names!Backfill, names!At
  <1>3. id \in names!Uploads /\ (s3[f] = names!None /\ id # names!None /\ s1[f].of \in s4 => id = s1[f].of)
        /\ (s3[f] # names!None => id = s3[f])
    BY <1>1, <1>2, LookedUp DEF names!NamesInv, names!NameTypes, names!Uploads
  <1> DEFINE c == IF names!Stem(f) \in DOMAIN s2 THEN s2[names!Stem(f)] ELSE id
  <1>4. c \in names!Uploads /\ (c = id \/ (c \in Titled /\ names!Stem(names!Mp3(c)) = names!Stem(f)))
    BY <1>3 DEF names!NamesInv, names!NameTypes, names!NamedAfter, names!Uploads
  <1>5. s1' = [s1 EXCEPT ![f].art = c]
    BY <1>1
  <1> HIDE DEF c
  <1>6. /\ s1' \in [DOMAIN s1' -> names!FileState] /\ DOMAIN s1' = DOMAIN s1
        /\ s1'[f].of = s1[f].of /\ s1'[f].tag = s1[f].tag /\ s1'[f].art = c
        /\ \A g \in DOMAIN s1 \ {f} : s1'[g] = s1[g]
    BY <1>4, <1>5 DEF names!NamesInv, names!NameTypes, names!FileState
  <1>7. /\ s3' \in [DOMAIN s3' -> names!Uploads] /\ DOMAIN s3' = DOMAIN s3 /\ s3'[f] = id
        /\ \A g \in DOMAIN s3 \ {f} : s3'[g] = s3[g]
    BY <1>1, <1>2, <1>3 DEF names!NamesInv, names!NameTypes
  <1>8. /\ DOMAIN s2' \subseteq DOMAIN s2 /\ \A s \in DOMAIN s2' : s2'[s] = s2[s]
        /\ s2' \in [DOMAIN s2' -> Titled]
    BY <1>1 DEF names!NamesInv, names!NameTypes
  <1>9. names!NameTypes' /\ names!NamedAfter'
    BY <1>2, <1>6, <1>7, <1>8 DEF names!NamesInv, names!NameTypes, names!NamedAfter, names!At,
       names!Written
  <1>10. names!RecoveryIsOld' /\ names!IndexIsWhole'
    <2>1. s6' = s6 \/ (s6'.file = f /\ s6'.id = id /\ s3[f] = names!None)
      BY <1>1
    <2> QED
      BY <1>2, <1>3, <1>6, <2>1 DEF names!NamesInv, names!RecoveryIsOld, names!RecoveredIsRight,
         names!IndexIsWhole, names!At
  <1>11. names!FetchedIsRecorded' /\ names!CoverIsItsOwn'
    <2> SUFFICES ASSUME NEW g \in names!Mp3s, g \notin s7 \union s8, s1[g].of \in Titled
                 PROVE  /\ g \in DOMAIN s3' /\ s3'[g] = s1'[g].of /\ s1'[g].tag = s1'[g].of
                        /\ s1'[g].art # names!None => names!YtdlName(Title[s1'[g].art], "mp3") = g
      BY <1>2, <1>6 DEF names!FetchedIsRecorded, names!CoverIsItsOwn, names!Fetched, names!Mp3s
    <2>1. /\ g \in DOMAIN s3 /\ s3[g] = s1[g].of /\ s1[g].tag = s1[g].of
          /\ s1[g].art # names!None => names!YtdlName(Title[s1[g].art], "mp3") = g
      BY <1>2 DEF names!NamesInv, names!FetchedIsRecorded, names!CoverIsItsOwn, names!Fetched,
         names!At
    <2>2. g \in DOMAIN s1 /\ g.ext = "mp3" /\ g = names!YtdlName(Title[s1[g].of], "mp3")
      BY DEF names!Mp3s, names!NamesInv, names!NamedAfter
    <2>3. CASE g # f
      BY <1>6, <1>7, <2>1, <2>2, <2>3
    <2>4. CASE g = f
      <3>1. id = s1[f].of /\ s3'[g] = id
        BY <1>3, <1>7, <2>1, <2>4, UploadsAssumption
      <3>2. c \in Titled => names!YtdlName(Title[c], "mp3") = g
        BY <1>4, <2>2, <2>4, <3>1, StemTells
      <3> QED
        BY <1>4, <1>6, <1>7, <2>1, <2>4, <3>1, <3>2 DEF names!Uploads
    <2> QED
      BY <2>3, <2>4
  <1> QED
    BY <1>9, <1>10, <1>11 DEF names!NamesInv

LEMMA Untags == ASSUME names!NamesInv, NEW f \in DOMAIN s1, names!Untag(f) PROVE names!NamesInv'
  <1>1. s1' = [s1 EXCEPT ![f].tag = names!None] /\ s7' = s7 \cup {f} /\ s5.pc = "idle"
        /\ UNCHANGED <<s2, s3, s4, s5, s6, s8>>
    BY DEF names!Untag, names!At
  <1>2. /\ s1' \in [DOMAIN s1' -> names!FileState] /\ DOMAIN s1' = DOMAIN s1
        /\ \A g \in DOMAIN s1 : s1'[g].of = s1[g].of /\ s1'[g].art = s1[g].art
        /\ \A g \in DOMAIN s1 \ {f} : s1'[g] = s1[g]
    BY <1>1 DEF names!NamesInv, names!NameTypes, names!FileState, names!Uploads
  <1>3. names!NameTypes' /\ names!NamedAfter'
    BY <1>1, <1>2 DEF names!NamesInv, names!NameTypes, names!NamedAfter, names!At, names!Written
  <1>4. names!RecoveryIsOld' /\ names!IndexIsWhole'
    BY <1>1, <1>2 DEF names!NamesInv, names!RecoveryIsOld, names!RecoveredIsRight,
       names!IndexIsWhole, names!At
  <1>5. names!FetchedIsRecorded' /\ names!CoverIsItsOwn'
    BY <1>1, <1>2 DEF names!NamesInv, names!FetchedIsRecorded, names!CoverIsItsOwn, names!Fetched,
       names!Mp3s, names!At, names!Written
  <1> QED
    BY <1>3, <1>4, <1>5 DEF names!NamesInv

LEMMA NamesStep == names!NamesInv /\ (names!Next \/ UNCHANGED names!vars) => names!NamesInv'
  <1>1. ASSUME names!NamesInv, UNCHANGED names!vars PROVE names!NamesInv'
    BY <1>1 DEF names!vars, names!NamesInv, names!NameTypes, names!NamedAfter,
       names!RecoveryIsOld, names!RecoveredIsRight, names!IndexIsWhole, names!FetchedIsRecorded,
       names!CoverIsItsOwn, names!Fetched, names!Mp3s, names!At, names!Written
  <1> QED
    BY <1>1, Starts, Skipped, Fetches, NamesRecords, Ends, Rebuilds, NamesBackfills, Untags,
       Withdraws DEF names!Next

\* A fetched file's key is its title's, but where the file's name is longer than its title.
LEMMA NamesHold == names!NamesInv => names!NamesAreKept
  <1> SUFFICES ASSUME names!NamesInv PROVE names!WrittenIsFound
    BY DEF names!NamesInv, names!RecoveryIsOld, names!NamesAreKept
  <1>1. names!At("next") => names!Keys(names!Mp3s) \subseteq DOMAIN s5.index
    BY DEF names!NamesInv, names!IndexIsWhole, names!Keys, names!At
  <1>2. ASSUME NEW f \in names!Mp3s, names!Fetched(f)
        PROVE  LET k == names!NormalizeTrackKey(Title[s1[f].of]) IN k \in names!Keys(names!Mp3s)
            \/ k = names!NoKey \/ f.ends
    <2> DEFINE t == s1[f].of
    <2>1. t \in Titled /\ f = names!YtdlName(Title[t], f.ext)
      BY <1>2 DEF names!Fetched, names!Mp3s, names!NamesInv, names!NamedAfter
    <2> HIDE DEF t
    <2>2. /\ f.words = Title[t].words /\ f.ends = Title[t].ends /\ "ext" \in DOMAIN f
          /\ "ext" \notin DOMAIN Title[t]
      BY <2>1, NameOfUpload, TitlesAssumption
    <2>3. ~f.ends => names!NormalizeTrackKey(Title[t]) = names!NormalizeTrackKey(f)
      BY <2>2 DEF names!NormalizeTrackKey
    <2> QED
      BY <2>3 DEF names!Keys, t
  <1> QED
    BY <1>1, <1>2 DEF names!WrittenIsFound

-----------------------------------------------------------------------------
(* Artwork: the row in hand and the file it names. *)

LEMMA ArtInit == covers!Init => covers!ArtInv
  <1> SUFFICES ASSUME covers!Init PROVE covers!ArtInv
    OBVIOUS
  <1>1. \A t \in Covered : \E e \in covers!Exts : s1[t] = {e}
    BY DEF covers!Init
  <1>2. \A t \in Covered : (CHOOSE e \in s1[t] : TRUE) \in covers!Exts
    BY <1>1
  <1>3. s5 \in [Covered -> covers!RowState] /\ \A t \in Covered : ~s5[t].embedded
    BY <1>2 DEF covers!Init, covers!RowState
  <1>4. s7 \in covers!AtState /\ s7.pc = "idle"
    BY DEF covers!Init, covers!Nobody, covers!AtState, covers!Exts, covers!Keys
  <1>5. s1 \in [Covered -> SUBSET covers!Exts] /\ \A t \in Covered : s1[t] # {}
    BY <1>1 DEF covers!Init
  <1> QED
    BY <1>3, <1>4, <1>5 DEF covers!Init, covers!ArtInv, covers!ArtTypes, covers!HandIsTrue,
       covers!ArtIsTrue, covers!Hands

\* What turning a page leaves of the row in hand.
LEMMA CoversPageTurns ==
  ASSUME NEW a \in covers!AtState, NEW pc \in covers!Hands \union {"idle", "next", "write"}
  PROVE  /\ [a EXCEPT !.pc = pc] \in covers!AtState /\ [a EXCEPT !.pc = pc].pc = pc
         /\ [a EXCEPT !.pc = pc].t = a.t /\ [a EXCEPT !.pc = pc].path = a.path
  BY DEF covers!AtState

\* A page turned within the hand, with nothing the invariant looks at changed.
LEMMA Goes ==
  ASSUME covers!ArtInv, NEW pc \in covers!Hands \union {"next", "write"}, covers!Goto(pc),
         UNCHANGED <<s1, s2, s5>>, s6' \subseteq Covered, s3' \in [Covered -> SUBSET covers!Keys],
         pc \notin {"next", "look"} => s7.pc \in covers!Hands \ {"look"}
             \/ (s7.pc \in covers!Hands /\ ~s5[covers!Hand].embedded),
         pc \in {"remux", "tidy"} => s7.path = "webm",
         pc = "tidy" => "opus" \in s1[covers!Hand], pc # "look"
  PROVE  covers!ArtInv'
  <1>1. s7' \in covers!AtState /\ s7'.pc = pc /\ s7'.t = s7.t /\ s7'.path = s7.path
    BY CoversPageTurns DEF covers!ArtInv, covers!ArtTypes, covers!Goto
  <1> QED
    BY <1>1 DEF covers!ArtInv, covers!ArtTypes, covers!HandIsTrue, covers!ArtIsTrue, covers!Hand,
       covers!Hands

LEMMA Rests == ASSUME covers!ArtInv, UNCHANGED <<s1, s2, s5>>, s3' \in [Covered -> SUBSET covers!Keys],
                      s6' \subseteq Covered, s7' = covers!Nobody \/ s7' = s7
               PROVE  covers!ArtInv'
  <1>1. CASE s7' = covers!Nobody
    <2>1. covers!Nobody \in covers!AtState /\ covers!Nobody.pc = "idle"
      BY DEF covers!Nobody, covers!AtState, covers!Exts, covers!Keys
    <2> QED
      BY <1>1, <2>1 DEF covers!ArtInv, covers!ArtTypes, covers!HandIsTrue, covers!ArtIsTrue,
         covers!Hands
  <1>2. CASE s7' = s7
    BY <1>2 DEF covers!ArtInv, covers!ArtTypes, covers!HandIsTrue, covers!ArtIsTrue, covers!Hand
  <1> QED
    BY <1>1, <1>2

LEMMA Begins == ASSUME covers!ArtInv, covers!Start PROVE covers!ArtInv'
  BY Goes DEF covers!Start, covers!Missing, covers!disk, covers!ArtInv, covers!ArtTypes,
     covers!Hands

LEMMA Takes == ASSUME covers!ArtInv, covers!Take PROVE covers!ArtInv'
  <1>1. PICK x \in s6 : /\ s6' = s6 \ {x}
                        /\ s7' = [t |-> x, path |-> s5[x].path, id |-> s5[x].id, key |-> covers!KeyOf(s5[x].id), pc |-> "look"]
    BY DEF covers!Take
  <1>2. x \in Covered /\ s5[x] \in covers!RowState
    BY DEF covers!ArtInv, covers!ArtTypes
  <1>3. s7' \in covers!AtState /\ s7'.pc = "look" /\ s7'.t = x /\ s7'.path = s5[x].path
    BY <1>1, <1>2 DEF covers!AtState, covers!RowState, covers!KeyOf, covers!Keys, covers!Hands
  <1> QED
    BY <1>1, <1>2, <1>3 DEF covers!Take, covers!disk, covers!ArtInv, covers!ArtTypes,
       covers!HandIsTrue, covers!ArtIsTrue, covers!Hand, covers!Hands

\* What writing a row leaves true, when the page is turned to the next row.
LEMMA CoversWrites ==
  ASSUME covers!ArtInv, covers!Goto("next"), UNCHANGED <<s1, s2, s3>>, s6' = s6, s5' \in [Covered -> covers!RowState],
         \A x \in Covered : s5'[x].embedded => s5'[x].path \in s2[x]
  PROVE  covers!ArtInv'
  <1>1. s7' \in covers!AtState /\ s7'.pc = "next"
    BY CoversPageTurns DEF covers!ArtInv, covers!ArtTypes, covers!Goto
  <1> QED
    BY <1>1 DEF covers!ArtInv, covers!ArtTypes, covers!HandIsTrue, covers!ArtIsTrue, covers!Hands

LEMMA CoversLooks == ASSUME covers!ArtInv, covers!Look PROVE covers!ArtInv'
  <1>1. covers!Hand \in Covered /\ s5[covers!Hand].path = s7.path /\ s7.pc = "look"
    BY DEF covers!Look, covers!ArtInv, covers!HandIsTrue, covers!Hands
  <1>2. CASE s5' = s5 /\ covers!Goto("next")
    BY <1>2, Goes DEF covers!Look, covers!disk, covers!walk, covers!ArtInv, covers!ArtTypes
  <1>3. CASE s7.path \in s2[covers!Hand] /\ covers!Goto("next")
          /\ s5' = [s5 EXCEPT ![covers!Hand].embedded = (s5[covers!Hand].path = s7.path) \/ @]
    <2> DEFINE b == (s5[covers!Hand].path = s7.path) \/ s5[covers!Hand].embedded
    <2>1. b \in BOOLEAN
      OBVIOUS
    <2>2. s5' = [s5 EXCEPT ![covers!Hand].embedded = b]
      BY <1>3
    <2> HIDE DEF b
    <2>3. /\ s5' \in [Covered -> covers!RowState] /\ s5'[covers!Hand].path = s5[covers!Hand].path
          /\ \A u \in Covered \ {covers!Hand} : s5'[u] = s5[u]
      BY <1>1, <2>1, <2>2 DEF covers!ArtInv, covers!ArtTypes, covers!RowState
    <2> QED
      BY <1>1, <1>3, <2>3, CoversWrites DEF covers!Look, covers!disk, covers!walk, covers!ArtInv,
         covers!ArtIsTrue
  <1>4. CASE s7.path \notin s2[covers!Hand] /\ covers!Goto(IF s7.id THEN "sidecar" ELSE "recover") /\ s5' = s5
    <2>1. ~s5[covers!Hand].embedded
      BY <1>1, <1>4 DEF covers!ArtInv, covers!ArtIsTrue, covers!ArtTypes, covers!RowState
    <2>2. CASE s7.id
      BY <1>1, <1>4, <2>1, <2>2, Goes DEF covers!Look, covers!disk, covers!walk, covers!ArtInv,
         covers!ArtTypes, covers!Hands
    <2>3. CASE ~s7.id
      BY <1>1, <1>4, <2>1, <2>3, Goes DEF covers!Look, covers!disk, covers!walk, covers!ArtInv,
         covers!ArtTypes, covers!Hands
    <2> QED
      BY <2>2, <2>3
  <1> QED
    BY <1>2, <1>3, <1>4 DEF covers!Look

LEMMA Recovers == ASSUME covers!ArtInv, covers!Recover PROVE covers!ArtInv'
  <1>1. covers!Hand \in Covered /\ s5[covers!Hand].path = s7.path /\ s7.pc = "recover"
          /\ ~s5[covers!Hand].embedded
    BY DEF covers!Recover, covers!ArtInv, covers!HandIsTrue, covers!Hands
  <1>2. CASE covers!Goto("sidecar") /\ UNCHANGED s5
    BY <1>1, <1>2, Goes DEF covers!Recover, covers!disk, covers!ArtInv, covers!ArtTypes,
       covers!Hands
  <1>3. CASE /\ s7' = [s7 EXCEPT !.id = TRUE, !.key = "id", !.pc = "sidecar"]
             /\ s5' = s5 \/ s5' = [s5 EXCEPT ![covers!Hand].id = @ \/ s5[covers!Hand].path = s7.path]
    <2>1. s7' \in covers!AtState /\ s7'.pc = "sidecar" /\ s7'.t = s7.t /\ s7'.path = s7.path
      BY <1>3 DEF covers!ArtInv, covers!ArtTypes, covers!AtState, covers!Keys, covers!Hands
    <2> DEFINE b == s5[covers!Hand].id \/ s5[covers!Hand].path = s7.path
    <2>2. b \in BOOLEAN
      OBVIOUS
    <2>3. s5' = s5 \/ s5' = [s5 EXCEPT ![covers!Hand].id = b]
      BY <1>3
    <2> HIDE DEF b
    <2>4. /\ s5' \in [Covered -> covers!RowState] /\ s5'[covers!Hand].path = s5[covers!Hand].path
             /\ s5'[covers!Hand].embedded = s5[covers!Hand].embedded
          /\ \A u \in Covered \ {covers!Hand} : s5'[u] = s5[u]
      BY <1>1, <2>2, <2>3 DEF covers!ArtInv, covers!ArtTypes, covers!RowState
    <2> QED
      BY <1>1, <2>1, <2>4 DEF covers!Recover, covers!disk, covers!ArtInv, covers!ArtTypes,
         covers!HandIsTrue, covers!ArtIsTrue, covers!Hand, covers!Hands
  <1> QED
    BY <1>2, <1>3 DEF covers!Recover

LEMMA FindsImage == ASSUME covers!ArtInv, covers!Sidecar \/ covers!Fetch \/ covers!Ingest PROVE covers!ArtInv'
  <1>1. covers!Hand \in Covered /\ s7.pc \in {"sidecar", "fetch", "ingest"} /\ s7.key \in covers!Keys
    BY DEF covers!Sidecar, covers!Fetch, covers!Ingest, covers!ArtInv, covers!ArtTypes,
       covers!HandIsTrue, covers!AtState, covers!Hands
  <1>2. [s3 EXCEPT ![covers!Hand] = @ \union {s7.key}] \in [Covered -> SUBSET covers!Keys]
    BY <1>1 DEF covers!ArtInv, covers!ArtTypes
  <1>3. \A pc \in {"found", "fetch", "ingest", "next"} :
          covers!Goto(pc) /\ UNCHANGED <<s1, s2, s5, covers!walk>>
              /\ s3' \in [Covered -> SUBSET covers!Keys] => covers!ArtInv'
    BY <1>1, Goes DEF covers!ArtInv, covers!ArtTypes, covers!walk, covers!Hands
  <1>4. s3 \in [Covered -> SUBSET covers!Keys]
    BY DEF covers!ArtInv, covers!ArtTypes
  <1>5. s3' \in [Covered -> SUBSET covers!Keys]
    BY <1>2, <1>4 DEF covers!Sidecar, covers!Fetch, covers!Ingest
  <1>6. \E pc \in {"found", "fetch", "ingest", "next"} : covers!Goto(pc)
    BY DEF covers!Sidecar, covers!Fetch, covers!Ingest
  <1>7. UNCHANGED <<s1, s2, s5, covers!walk>>
    BY DEF covers!Sidecar, covers!Fetch, covers!Ingest
  <1> QED
    BY <1>3, <1>5, <1>6, <1>7

LEMMA Finds == ASSUME covers!ArtInv, covers!Found PROVE covers!ArtInv'
  <1>1. s7.pc = "found" /\ covers!Hand \in Covered /\ UNCHANGED <<s1, s2, s3, s5, s6>>
    BY DEF covers!Found, covers!disk, covers!walk, covers!ArtInv, covers!HandIsTrue, covers!Hands
  <1>2. CASE covers!Goto("next")
    BY <1>1, <1>2, Goes DEF covers!ArtInv, covers!ArtTypes, covers!Hands
  <1>3. CASE covers!Goto("remux") /\ s7.path = "webm"
    BY <1>1, <1>3, Goes DEF covers!ArtInv, covers!ArtTypes, covers!Hands
  <1>4. CASE covers!Goto("embed")
    BY <1>1, <1>4, Goes DEF covers!ArtInv, covers!ArtTypes, covers!Hands
  <1> QED
    BY <1>2, <1>3, <1>4 DEF covers!Found

LEMMA Remuxes == ASSUME covers!ArtInv, covers!Remux \/ covers!Tidy PROVE covers!ArtInv'
  <1>1. covers!Hand \in Covered /\ s7.pc \in {"remux", "tidy"} /\ s7.path = "webm"
          /\ ~s5[covers!Hand].embedded /\ s5[covers!Hand].path = s7.path
    BY DEF covers!Remux, covers!Tidy, covers!ArtInv, covers!HandIsTrue, covers!Hands
  <1>2. CASE covers!Goto("write") /\ UNCHANGED <<s1, s2, s3, s5, covers!walk>>
    BY <1>1, <1>2, Goes DEF covers!ArtInv, covers!ArtTypes, covers!walk, covers!Hands
  <1>3. CASE covers!Remux /\ covers!Goto("tidy")
          /\ s1' = [s1 EXCEPT ![covers!Hand] = @ \union {"opus"}]
             /\ s2' = [s2 EXCEPT ![covers!Hand] = @ \ {"opus"}]
    <2>1. s7' \in covers!AtState /\ s7'.pc = "tidy" /\ s7'.t = s7.t /\ s7'.path = s7.path
      BY <1>3, CoversPageTurns DEF covers!ArtInv, covers!ArtTypes, covers!Goto, covers!Hands
    <2> QED
      BY <1>1, <1>3, <2>1 DEF covers!Remux, covers!walk, covers!ArtInv, covers!ArtTypes,
         covers!HandIsTrue, covers!ArtIsTrue, covers!Hand, covers!Hands, covers!Exts
  <1>4. CASE covers!Tidy
    <2>1. s7' \in covers!AtState /\ s7'.pc = "embed" /\ s7'.t = s7.t /\ s7'.path = s7.path
      BY <1>4, CoversPageTurns DEF covers!Tidy, covers!ArtInv, covers!ArtTypes, covers!Goto,
         covers!Hands
    <2>2. "opus" \in s1[covers!Hand]
      BY <1>4 DEF covers!Tidy, covers!ArtInv, covers!HandIsTrue
    <2> QED
      BY <1>1, <1>4, <2>1, <2>2 DEF covers!Tidy, covers!walk, covers!ArtInv, covers!ArtTypes,
         covers!HandIsTrue, covers!ArtIsTrue, covers!Hand, covers!Hands
  <1> QED
    BY <1>2, <1>3, <1>4 DEF covers!Remux

LEMMA Embeds == ASSUME covers!ArtInv, covers!Embed PROVE covers!ArtInv'
  <1>1. covers!Hand \in Covered /\ s7.pc = "embed"
    BY DEF covers!Embed, covers!ArtInv, covers!HandIsTrue, covers!Hands
  <1>2. s7' \in covers!AtState /\ s7'.pc = "follow" /\ s7'.t = s7.t /\ s7'.path = s7.path
    BY CoversPageTurns DEF covers!Embed, covers!ArtInv, covers!ArtTypes, covers!Goto, covers!Hands
  <1>3. s2' \in [Covered -> SUBSET covers!Exts] /\ \A x \in Covered : s2[x] \subseteq s2'[x]
    BY <1>1 DEF covers!Embed, covers!ArtInv, covers!ArtTypes, covers!Exts
  <1> QED
    BY <1>1, <1>2, <1>3 DEF covers!Embed, covers!walk, covers!ArtInv, covers!ArtTypes,
       covers!HandIsTrue, covers!ArtIsTrue, covers!Hand, covers!Hands

LEMMA Follows == ASSUME covers!ArtInv, covers!Follow PROVE covers!ArtInv'
  <1>1. covers!Hand \in Covered /\ s7.pc = "follow" /\ ~s5[covers!Hand].embedded /\ covers!Final \in covers!Exts
    BY DEF covers!Follow, covers!ArtInv, covers!ArtTypes, covers!HandIsTrue, covers!Hands,
       covers!Final, covers!Exts, covers!AtState
  <1> DEFINE f == covers!Final
  <1>2. s7' = [s7 EXCEPT !.path = f, !.pc = "write"] /\ (s5' = s5 \/ s5' = [s5 EXCEPT ![covers!Hand].path = f])
    BY DEF covers!Follow
  <1>3. f \in covers!Exts
    BY <1>1
  <1> HIDE DEF f
  <1>4. s7' \in covers!AtState /\ s7'.pc = "write" /\ s7'.t = s7.t
    BY <1>2, <1>3 DEF covers!ArtInv, covers!ArtTypes, covers!AtState
  <1>5. /\ s5' \in [Covered -> covers!RowState] /\ ~s5'[covers!Hand].embedded
        /\ \A u \in Covered \ {covers!Hand} : s5'[u] = s5[u]
    BY <1>1, <1>2, <1>3 DEF covers!ArtInv, covers!ArtTypes, covers!RowState
  <1> QED
    BY <1>1, <1>4, <1>5 DEF covers!Follow, covers!disk, covers!walk, covers!ArtInv,
       covers!ArtTypes, covers!HandIsTrue, covers!ArtIsTrue, covers!Hand, covers!Hands

LEMMA Marks == ASSUME covers!ArtInv, covers!Write PROVE covers!ArtInv'
  <1>1. covers!Hand \in Covered /\ ~s5[covers!Hand].embedded
    BY DEF covers!Write, covers!ArtInv, covers!HandIsTrue
  <1> DEFINE b == s7.path \in s2[covers!Hand]
  <1>2. s5' = s5 \/ (s5[covers!Hand].path = s7.path /\ s5' = [s5 EXCEPT ![covers!Hand].embedded = b])
    BY DEF covers!Write
  <1>3. b \in BOOLEAN /\ (b => s7.path \in s2[covers!Hand])
    OBVIOUS
  <1> HIDE DEF b
  <1>4. CASE s5' = s5
    BY <1>4, Goes, <1>1 DEF covers!Write, covers!disk, covers!walk, covers!ArtInv, covers!ArtTypes
  <1>5. CASE s5[covers!Hand].path = s7.path /\ s5' = [s5 EXCEPT ![covers!Hand].embedded = b]
    <2>1. /\ s5' \in [Covered -> covers!RowState] /\ s5'[covers!Hand].embedded = b
             /\ s5'[covers!Hand].path = s7.path
          /\ \A u \in Covered \ {covers!Hand} : s5'[u] = s5[u]
      BY <1>1, <1>3, <1>5 DEF covers!ArtInv, covers!ArtTypes, covers!RowState
    <2> QED
      BY <1>1, <1>3, <2>1, CoversWrites DEF covers!Write, covers!disk, covers!walk, covers!ArtInv,
         covers!ArtIsTrue
  <1> QED
    BY <1>2, <1>4, <1>5

LEMMA ArtStep == covers!ArtInv /\ (covers!Next \/ UNCHANGED covers!vars) => covers!ArtInv'
  <1> SUFFICES ASSUME covers!ArtInv, covers!Next \/ UNCHANGED covers!vars PROVE covers!ArtInv'
    OBVIOUS
  <1>1. CASE covers!End \/ covers!LateFetch \/ covers!Skip \/ covers!Cancel \/ covers!Kill
          \/ UNCHANGED covers!vars
    BY <1>1, Rests DEF covers!End, covers!LateFetch, covers!Skip, covers!Cancel, covers!Kill,
       covers!vars, covers!disk, covers!walk, covers!ArtInv, covers!ArtTypes
  <1> QED
    BY <1>1, Begins, Takes, CoversLooks, Recovers, FindsImage, Finds, Remuxes, Embeds, Follows,
       Marks DEF covers!Next, covers!Step

-----------------------------------------------------------------------------
(* RowResolver: one home folder for a row's tracks, one card for a channel. *)

LEMMA ResolverInit == resolver!Init => resolver!ResolverInv
  BY DEF resolver!Init, resolver!ResolverInv, resolver!RowState, resolver!CardState,
     resolver!InfoState, resolver!LinksAndNone, resolver!NamesAndNone, resolver!InfoIsOwn,
     resolver!SpecsAtHome,
     resolver!OneCard, resolver!OwnIdentity, resolver!Fresh, resolver!NoInfo, resolver!NoLink, resolver!None

\* A row is let go of.
LEMMA FreshRow == resolver!Fresh \in resolver!RowState /\ resolver!Fresh.info.id = resolver!None
    /\ resolver!Fresh.info.title = resolver!None /\ resolver!Fresh.info.uploader = resolver!None
  BY DEF resolver!Fresh, resolver!NoInfo, resolver!RowState, resolver!InfoState,
     resolver!LinksAndNone, resolver!NamesAndNone

LEMMA OneOrTwo == ASSUME NEW S, NEW x \in S, NEW y \in S PROVE <<x>> \in Seq(S) /\ <<x, y>> \in Seq(S)
  OBVIOUS

\* The folder of a row in hand has its channel's name, or none.
LEMMA HomeIsOwn ==
  ASSUME s1 \in resolver!RowState, resolver!InfoIsOwn
  PROVE  /\ resolver!Collection \in Seq(resolver!NamesAndNone \union {"as id"})
         /\ resolver!Collection = <<>> \/ resolver!Collection[1] = s1.url.of
         /\ s1.info.whole /\ (s1.info.title # resolver!None \/ s1.info.uploader # resolver!None) =>
            resolver!Collection = <<s1.url.of>>
  <1> DEFINE info == s1.info  AllNames == Seq(resolver!NamesAndNone \union {"as id"})
  <1>1. info.id \in resolver!NamesAndNone /\ info.title \in resolver!NamesAndNone
          /\ info.uploader \in resolver!NamesAndNone
    BY DEF resolver!RowState, resolver!InfoState
  <1>2. \A x \in resolver!NamesAndNone : <<x>> \in AllNames /\ <<x, "as id">> \in AllNames
    BY OneOrTwo DEF resolver!NamesAndNone
  <1>3. <<>> \in AllNames
    OBVIOUS
  <1>4. resolver!Name(info) \in AllNames
    BY <1>1, <1>2, <1>3 DEF resolver!Name
  <1>5. resolver!Name(info) = <<>> \/ resolver!Name(info)[1] = s1.url.of
    BY DEF resolver!Name, resolver!InfoIsOwn
  <1>6. info.title # resolver!None \/ info.uploader # resolver!None => resolver!Name(info) = <<s1.url.of>>
    BY DEF resolver!Name, resolver!InfoIsOwn
  <1> QED
    BY <1>3, <1>4, <1>5, <1>6 DEF resolver!Collection

LEMMA RowStep ==
  ASSUME resolver!ResolverInv, resolver!Next \/ UNCHANGED resolver!vars
  PROVE  s1' \in resolver!RowState /\ resolver!InfoIsOwn'
  <1>1. CASE resolver!Begin
    <2>1. PICK url \in resolver!Links, genre \in Queued : s1' = [resolver!Fresh EXCEPT !.pc = "probe", !.url = url, !.genre = genre]
      BY <1>1 DEF resolver!Begin
    <2> QED
      BY <2>1, FreshRow DEF resolver!RowState, resolver!InfoIsOwn, resolver!LinksAndNone,
         resolver!Fresh
  <1>2. CASE resolver!Probe
    <2>1. CASE s1' = resolver!Fresh
      BY <2>1, FreshRow DEF resolver!InfoIsOwn
    <2>2. CASE s1' # resolver!Fresh
      <3>1. PICK id \in {s1.url.of, resolver!None}, title \in {s1.url.of, resolver!None}, up \in {s1.url.of, resolver!None}, suffix \in BOOLEAN :
              s1' = [s1 EXCEPT !.pc = IF s1.url.form # "track" THEN "list" ELSE "home",
                                 !.info = [whole |-> s1.url.form # "track", id |-> id, title |-> title,
                                           suffix |-> suffix /\ title # resolver!None, uploader |-> up]]
        BY <1>2, <2>2 DEF resolver!Probe
      <3>2. s1.url.of \in resolver!NamesAndNone
        BY DEF resolver!ResolverInv, resolver!RowState, resolver!LinksAndNone, resolver!Links,
           resolver!NoLink, resolver!NamesAndNone
      <3>3. resolver!None \in resolver!NamesAndNone
        BY DEF resolver!NamesAndNone
      <3> DEFINE said == [whole |-> s1.url.form # "track", id |-> id, title |-> title,
                          suffix |-> suffix /\ title # resolver!None, uploader |-> up]
      <3>4. said \in resolver!InfoState
        BY <3>2, <3>3 DEF resolver!InfoState
      <3> QED
        BY <3>1, <3>4 DEF resolver!ResolverInv, resolver!RowState, resolver!InfoIsOwn
    <2> QED
      BY <2>1, <2>2
  <1>3. CASE resolver!List
    BY <1>3, FreshRow DEF resolver!List, resolver!Goto, resolver!ResolverInv, resolver!RowState,
       resolver!InfoIsOwn
  <1>4. CASE resolver!MakeHome
    BY <1>4, FreshRow DEF resolver!MakeHome, resolver!Goto, resolver!ResolverInv,
       resolver!RowState, resolver!InfoIsOwn
  <1>5. CASE resolver!AutoAdd
    BY <1>5 DEF resolver!AutoAdd, resolver!Goto, resolver!ResolverInv, resolver!RowState,
       resolver!InfoIsOwn
  <1>6. CASE resolver!Hand
    BY <1>6, FreshRow DEF resolver!Hand, resolver!InfoIsOwn
  <1>7. CASE resolver!Switch \/ resolver!Untrack \/ UNCHANGED resolver!vars
    BY <1>7 DEF resolver!Switch, resolver!Untrack, resolver!vars, resolver!ResolverInv,
       resolver!InfoIsOwn
  <1> QED
    BY <1>1, <1>2, <1>3, <1>4, <1>5, <1>6, <1>7 DEF resolver!Next

LEMMA SpecsStep == ASSUME resolver!ResolverInv, resolver!Next \/ UNCHANGED resolver!vars
  PROVE resolver!SpecsAtHome'
  <1>1. CASE resolver!Hand
    <2> DEFINE one == [of |-> s1.url.of, genre |-> s1.genre, dir |-> resolver!Home, whole |-> s1.info.whole,
                       titled |-> s1.info.title # resolver!None \/ s1.info.uploader # resolver!None,
                       sup |-> IF s1.info.whole \/ s1.info.id = resolver!None THEN s1.url
                               ELSE [of |-> s1.info.id, form |-> "id"]]
    <2>1. s5' = s5 \union {one}
      BY <1>1 DEF resolver!Hand
    <2>2. one.whole /\ one.titled => one.dir = [genre |-> one.genre, name |-> <<one.of>>]
      BY HomeIsOwn DEF resolver!Home, resolver!ResolverInv
    <2> HIDE DEF one
    <2> QED
      BY <2>1, <2>2 DEF resolver!SpecsAtHome, resolver!ResolverInv
  <1>2. CASE ~resolver!Hand
    BY <1>2 DEF resolver!Next, resolver!Begin, resolver!Probe, resolver!List, resolver!MakeHome,
       resolver!AutoAdd, resolver!Switch, resolver!Untrack, resolver!vars, resolver!SpecsAtHome,
       resolver!ResolverInv
  <1> QED
    BY <1>1, <1>2

LEMMA ResolverFoldersStep == ASSUME resolver!ResolverInv, resolver!Next \/ UNCHANGED resolver!vars
  PROVE resolver!OwnIdentity'
  <1>1. CASE resolver!MakeHome
    <2>1. CASE s3' = s3
      BY <2>1 DEF resolver!ResolverInv, resolver!OwnIdentity
    <2>2. CASE s3' # s3
      <3> DEFINE was == {f \in s3 : resolver!InHome(f)}
                 old == IF was = {} THEN resolver!None ELSE (CHOOSE f \in was : TRUE).id
                 new == IF s1.info.whole /\ s1.info.id # resolver!None THEN s1.info.id ELSE old
      <3>1. PICK id \in {new, old} :
              s3' = (s3 \ was) \union {[genre |-> resolver!Home.genre, name |-> resolver!Home.name, id |-> id]}
        BY <1>1, <2>2 DEF resolver!MakeHome
      <3>2. old # resolver!None /\ resolver!Home.name # <<>> => resolver!Home.name[1] = old
        BY DEF resolver!ResolverInv, resolver!OwnIdentity, resolver!InHome
      <3>3. resolver!Home.name = <<>> \/ resolver!Home.name[1] = s1.url.of
        BY HomeIsOwn DEF resolver!Home, resolver!ResolverInv
      <3>4. new = old \/ new = s1.url.of
        BY DEF resolver!ResolverInv, resolver!InfoIsOwn
      <3>5. id # resolver!None /\ resolver!Home.name # <<>> => resolver!Home.name[1] = id
        BY <3>1, <3>2, <3>3, <3>4
      <3> HIDE DEF was, old, new
      <3> QED
        BY <3>1, <3>5 DEF resolver!ResolverInv, resolver!OwnIdentity
    <2> QED
      BY <2>1, <2>2
  <1>2. CASE ~resolver!MakeHome
    BY <1>2 DEF resolver!Next, resolver!Begin, resolver!Probe, resolver!List, resolver!Hand,
       resolver!AutoAdd, resolver!Switch, resolver!Untrack, resolver!vars, resolver!OwnIdentity,
       resolver!ResolverInv
  <1> QED
    BY <1>1, <1>2

LEMMA CardsStep == ASSUME resolver!ResolverInv, resolver!Next \/ UNCHANGED resolver!vars
  PROVE s4' \subseteq resolver!CardState /\ resolver!OneCard'
  <1> USE DEF resolver!ResolverInv
  <1>1. CASE resolver!AutoAdd
    <2>1. CASE s4' = s4
      BY <2>1 DEF resolver!OneCard
    <2> DEFINE id == s1.info.id
    <2>2. id \in resolver!NamesAndNone
      BY DEF resolver!RowState, resolver!InfoState
    <2>3. ASSUME s4' # s4, resolver!Match(s1.url, id) # {}
      PROVE s4' \subseteq resolver!CardState /\ resolver!OneCard'
      <3>1. PICK c \in resolver!Match(s1.url, id) : s4' = (s4 \ {c}) \union {[c EXCEPT !.id = IF @ = resolver!None THEN id ELSE @]}
        BY <1>1, <2>3 DEF resolver!AutoAdd
      <3> DEFINE d == [c EXCEPT !.id = IF @ = resolver!None THEN id ELSE @]
      <3>2. c \in s4 /\ c \in resolver!CardState
        BY DEF resolver!Match
      <3>3. d \in resolver!CardState /\ d.id = IF c.id = resolver!None THEN id ELSE c.id
        BY <2>2, <3>2 DEF resolver!CardState
      <3>4. c.id = resolver!None /\ id # resolver!None => \A e \in s4 : e.id # id
        BY <2>3, <3>2 DEF resolver!Match
      <3> HIDE DEF d
      <3>5. \A e \in s4 \ {c} : e.id = resolver!None \/ e.id # d.id
        BY <3>2, <3>3, <3>4 DEF resolver!OneCard
      <3> QED
        BY <3>1, <3>3, <3>5 DEF resolver!OneCard, d
    <2>4. ASSUME s4' # s4, resolver!Match(s1.url, id) = {}
      PROVE s4' \subseteq resolver!CardState /\ resolver!OneCard'
      <3> DEFINE d == [url |-> s1.url, id |-> id, name |-> resolver!Collection]
      <3>1. s4' = s4 \union {d}
        BY <1>1, <2>4 DEF resolver!AutoAdd
      <3>2. d \in resolver!CardState /\ d.id = id
        BY <2>2, HomeIsOwn DEF resolver!CardState, resolver!RowState
      <3>3. id # resolver!None => \A e \in s4 : e.id # id
        BY <2>4 DEF resolver!Match
      <3> HIDE DEF d
      <3> QED
        BY <3>1, <3>2, <3>3 DEF resolver!OneCard
    <2> QED
      BY <2>1, <2>3, <2>4
  <1>2. CASE ~resolver!AutoAdd
    BY <1>2 DEF resolver!Next, resolver!Begin, resolver!Probe, resolver!List, resolver!Hand,
       resolver!MakeHome, resolver!Switch, resolver!Untrack, resolver!vars, resolver!OneCard
  <1> QED
    BY <1>1, <1>2

LEMMA ResolverStep == resolver!ResolverInv /\ (resolver!Next \/ UNCHANGED resolver!vars) =>
    resolver!ResolverInv'
  BY RowStep, SpecsStep, ResolverFoldersStep, CardsStep DEF resolver!ResolverInv

LEMMA ResolverHolds == resolver!ResolverInv => resolver!HomeIsOne
  BY DEF resolver!ResolverInv, resolver!HomeIsOne, resolver!OneFolder, resolver!SpecsAtHome

-----------------------------------------------------------------------------
(* WatchlistRows: one row for a channel, whatever the call in hand has read. *)

\* A table that is not empty has a first row.
LEMMA FirstIsOne == ASSUME NEW rs, rs \subseteq watchlist!RowState, rs # {} PROVE watchlist!First(rs) \in rs
  <1> DEFINE S == {r.n : r \in rs}
  <1>1. S \subseteq Nat /\ S # {}
    BY DEF watchlist!RowState
  <1>2. \E m \in S : \A n \in S : m <= n
    <2> HIDE DEF S
    <2> QED
      BY <1>1, LeastNat
  <1>3. \E r \in rs : \A q \in rs : r.n <= q.n
    BY <1>2
  <1> QED
    BY <1>3 DEF watchlist!First

LEMMA RowsInit == watchlist!Init => watchlist!RowsInv
  <1> SUFFICES ASSUME watchlist!Init PROVE watchlist!RowsInv
    OBVIOUS
  <1> DEFINE k == watchlist!Cardinality(Folders)
  <1>1. k \in Nat
    BY FoldersAreFinite, WatchlistSets, WatchlistCounted
  <1> HIDE DEF k
  <1>2. PICK fs \in SUBSET Folders, num \in [Folders -> 1 .. k] :
          /\ \A f, g \in fs : f # g => num[f] # num[g] /\ f.url # g.url
          /\ s1 = {watchlist!FolderRow(f, num[f]) : f \in fs}
    BY DEF watchlist!Init, k
  <1>3. \A f \in fs : watchlist!FolderRow(f, num[f]) \in watchlist!RowState
          /\ watchlist!FolderRow(f, num[f]).n \in 1 .. k
                      /\ watchlist!FolderRow(f, num[f]).matched = FALSE
                         /\ watchlist!FolderRow(f, num[f]).n = num[f]
    BY <1>1, <1>2 DEF watchlist!FolderRow, watchlist!RowState, watchlist!Urls, watchlist!Ids,
       watchlist!Names
  <1>4. watchlist!Idle \in watchlist!CallState /\ watchlist!Idle.pc = "idle"
    BY DEF watchlist!Idle, watchlist!CallState, watchlist!Urls, watchlist!Ids, watchlist!Names
  <1>5. s2 = k + 1 /\ s3 = [t \in Callers |-> watchlist!Idle]
    BY DEF watchlist!Init, k
  <1>6. \A r, q \in s1 : r.n = q.n => r = q
    BY <1>2, <1>3
  <1>7. \A r \in s1 : r \in watchlist!RowState /\ r.n < s2 /\ ~r.matched
    BY <1>1, <1>2, <1>3, <1>5
  <1> QED
    BY <1>1, <1>4, <1>5, <1>6, <1>7 DEF watchlist!RowsInv, watchlist!RowTypes,
       watchlist!TrackedOnce, watchlist!MatchHolds

LEMMA WatchlistAtRest == watchlist!Idle \in watchlist!CallState /\ watchlist!Idle.pc = "idle"
  BY DEF watchlist!Idle, watchlist!CallState, watchlist!Urls, watchlist!Ids, watchlist!Names

\* A call that turns leaves the others where they are.
LEMMA CallTurns ==
  ASSUME watchlist!RowsInv, NEW t \in Callers, NEW c \in watchlist!CallState, watchlist!Goto(t, c)
  PROVE  s3' \in [Callers -> watchlist!CallState] /\ s3'[t] = c /\ \A u \in Callers : u = t
  BY OneCaller DEF watchlist!RowsInv, watchlist!RowTypes, watchlist!Goto

\* When a call only looked, what it carries decides.
LEMMA Looked ==
  ASSUME watchlist!RowsInv, NEW t \in Callers,
      NEW c \in watchlist!CallState, watchlist!Goto(t, c), s1' = s1, s2' = s2,
         c.pc \in {"insert", "backfill"} => watchlist!ById(s1, c.id) = {},
         c.pc = "repoint" => \/ watchlist!ById(s1, c.id) = {}
                             \/ \E r \in s1 : r.n = c.row /\ r.id = c.id
  PROVE  watchlist!RowsInv'
  BY CallTurns DEF watchlist!RowsInv, watchlist!RowTypes, watchlist!TrackedOnce,
     watchlist!MatchHolds, watchlist!ById

\* When it wrote, it is over.
LEMMA Wrote ==
  ASSUME watchlist!RowsInv, NEW t \in Callers, watchlist!Return(t), watchlist!RowTypes' , watchlist!TrackedOnce'
  PROVE  watchlist!RowsInv'
  BY CallTurns, WatchlistAtRest DEF watchlist!RowsInv, watchlist!MatchHolds, watchlist!Return,
     watchlist!Goto

LEMMA MatchIsOf ==
  ASSUME watchlist!RowsInv, NEW url, NEW id
  PROVE  /\ watchlist!Match(s1, url, id) \subseteq s1
         /\ watchlist!Match(s1, url, id) = {} => watchlist!ById(s1, id) = {}
         /\ watchlist!ById(s1, id) # {} => watchlist!Match(s1, url, id) = watchlist!ById(s1, id)
  BY DEF watchlist!Match, watchlist!ById, watchlist!ByLink, watchlist!ByKey

\* Rows rewritten in place: each keeps its number, and what one learns of its
\* channel no other row knew.
LEMMA Rewritten ==
  ASSUME watchlist!RowsInv, NEW n, NEW f \in [s1 -> watchlist!RowState], s1' = {f[r] : r \in s1}, s2' = s2,
         \A r \in s1 : f[r].n = r.n /\ (r.n # n => f[r] = r),
         \A r \in s1 : r.n = n /\ f[r].matched =>
            \/ f[r].id = watchlist!None
            \/ r.matched /\ f[r].id = r.id
            \/ \A q \in s1 : q.n # n => q.id # f[r].id,
         NEW t \in Callers, watchlist!Return(t)
  PROVE  watchlist!RowsInv'
  <1>1. s3' \in [Callers -> watchlist!CallState]
    BY CallTurns, WatchlistAtRest DEF watchlist!Return
  <1>2. watchlist!RowTypes'
    BY <1>1 DEF watchlist!RowsInv, watchlist!RowTypes
  <1>3. ASSUME NEW r \in s1, NEW q \in s1, f[r].n # f[q].n, f[r].matched, f[q].matched
        PROVE  f[r].id # f[q].id \/ f[r].id = watchlist!None
    <2>1. r.n # q.n
      BY <1>3
    <2>2. CASE r.n # n /\ q.n # n
      BY <1>3, <2>1, <2>2 DEF watchlist!RowsInv, watchlist!TrackedOnce
    <2>3. CASE r.n = n
      BY <1>3, <2>1, <2>3 DEF watchlist!RowsInv, watchlist!TrackedOnce
    <2>4. CASE q.n = n
      BY <1>3, <2>1, <2>4 DEF watchlist!RowsInv, watchlist!TrackedOnce
    <2> QED
      BY <2>2, <2>3, <2>4
  <1>4. watchlist!TrackedOnce'
    BY <1>3 DEF watchlist!TrackedOnce
  <1> QED
    BY <1>2, <1>4, Wrote

LEMMA CallIs == ASSUME watchlist!RowsInv, NEW t \in Callers PROVE s3[t] \in watchlist!CallState
  BY DEF watchlist!RowsInv, watchlist!RowTypes

LEMMA WatchlistAdds == ASSUME watchlist!RowsInv, NEW t \in Callers, watchlist!Add(t) PROVE watchlist!RowsInv'
  <1>1. PICK url \in watchlist!Links, op \in {"add", "auto"} : \E id \in {url.of, watchlist!FromLink(url)} :
          watchlist!Goto(t, [watchlist!Idle EXCEPT !.pc = "match", !.op = op, !.url = url, !.id = id,
                               !.name = IF op = "add" /\ id # url.of THEN "unread" ELSE url.of])
    BY DEF watchlist!Add
  <1>1a. PICK id \in {url.of, watchlist!FromLink(url)} :
          watchlist!Goto(t, [watchlist!Idle EXCEPT !.pc = "match", !.op = op, !.url = url, !.id = id,
                               !.name = IF op = "add" /\ id # url.of THEN "unread" ELSE url.of])
    BY <1>1
  <1> DEFINE c == [watchlist!Idle EXCEPT !.pc = "match", !.op = op, !.url = url, !.id = id,
                               !.name = IF op = "add" /\ id # url.of THEN "unread" ELSE url.of]
  <1>2. url.of \in Watched
    BY DEF watchlist!Links
  <1>3. c \in watchlist!CallState /\ c.pc = "match"
    BY <1>2 DEF watchlist!CallState, watchlist!Idle, watchlist!Urls, watchlist!Ids,
       watchlist!Names, watchlist!FromLink
  <1> HIDE DEF c
  <1> QED
    BY <1>1a, <1>3, Looked DEF c, watchlist!Add

LEMMA Matches == ASSUME watchlist!RowsInv, NEW t \in Callers, watchlist!AddMatch(t) PROVE watchlist!RowsInv'
  <1> DEFINE c == s3[t]  found == watchlist!Match(s1, c.url, c.id)
  <1>0. c \in watchlist!CallState
    BY CallIs
  <1>1. CASE found = {}
    <2> DEFINE d == [c EXCEPT !.pc = "insert"]
    <2>1. d \in watchlist!CallState /\ d.pc = "insert" /\ d.id = c.id
      BY <1>0 DEF watchlist!CallState
    <2>2. watchlist!ById(s1, d.id) = {}
      BY <1>1, <2>1, MatchIsOf
    <2>3. watchlist!Goto(t, d) /\ s1' = s1 /\ s2' = s2
      BY <1>1 DEF watchlist!AddMatch
    <2> HIDE DEF d
    <2> QED
      BY <2>1, <2>2, <2>3, Looked
  <1>2. CASE found # {} /\ c.op = "auto" /\ watchlist!First(found).id = watchlist!None /\ c.id # watchlist!None
    <2> DEFINE n == watchlist!First(found).n
    <2>1. watchlist!First(found) \in found /\ found \subseteq s1 /\ found \subseteq watchlist!RowState
      BY <1>2, FirstIsOne, MatchIsOf DEF watchlist!RowsInv, watchlist!RowTypes
    <2>2. n \in Nat
      BY <2>1 DEF watchlist!RowState
    <2> DEFINE d == [c EXCEPT !.pc = "backfill", !.row = n]
    <2>3. watchlist!ById(s1, c.id) = {}
      <3> SUFFICES ASSUME watchlist!ById(s1, c.id) # {} PROVE FALSE
        OBVIOUS
      <3>1. found = watchlist!ById(s1, c.id)
        BY MatchIsOf
      <3> QED
        BY <3>1, <2>1, <1>2 DEF watchlist!ById
    <2>4. watchlist!Goto(t, d) /\ s1' = s1 /\ s2' = s2
      BY <1>2 DEF watchlist!AddMatch
    <2> HIDE DEF n
    <2>5. d \in watchlist!CallState /\ d.pc = "backfill" /\ d.id = c.id
      BY <1>0, <2>2 DEF watchlist!CallState
    <2> HIDE DEF d
    <2> QED
      BY <2>3, <2>4, <2>5, Looked
  <1>3. CASE ~(found = {})
          /\ ~(c.op = "auto" /\ watchlist!First(found).id = watchlist!None /\ c.id # watchlist!None)
    BY <1>3, WatchlistAtRest, Looked DEF watchlist!AddMatch, watchlist!Return
  <1> QED
    BY <1>1, <1>2, <1>3

LEMMA Inserts == ASSUME watchlist!RowsInv, NEW t \in Callers, watchlist!AddInsert(t) PROVE watchlist!RowsInv'
  <1> DEFINE c == s3[t]
  <1>0. c \in watchlist!CallState /\ watchlist!Return(t) /\ s3' \in [Callers -> watchlist!CallState]
    BY CallIs, CallTurns, WatchlistAtRest DEF watchlist!AddInsert, watchlist!Return
  <1>1. CASE \E r \in s1 : r.url = c.url
    BY <1>0, <1>1, Wrote DEF watchlist!AddInsert, watchlist!Insert, watchlist!RowsInv,
       watchlist!RowTypes, watchlist!TrackedOnce
  <1>2. CASE ~ \E r \in s1 : r.url = c.url
    <2> DEFINE new == [n |-> s2, url |-> c.url, id |-> c.id, name |-> c.name, matched |-> TRUE]
    <2>1. s1' = s1 \union {new} /\ s2' = s2 + 1
      BY <1>2 DEF watchlist!AddInsert, watchlist!Insert
    <2>2. new \in watchlist!RowState /\ new.n = s2 /\ new.id = c.id
      BY <1>0 DEF watchlist!CallState, watchlist!RowState, watchlist!RowsInv, watchlist!RowTypes
    <2>3. c.id = watchlist!None \/ \A r \in s1 : r.id # c.id
      BY DEF watchlist!RowsInv, watchlist!MatchHolds, watchlist!AddInsert, watchlist!ById
    <2> HIDE DEF new
    <2>4. s2 \in Nat /\ (\A r \in s1 : r.n \in Nat /\ r.n < s2)
      BY DEF watchlist!RowsInv, watchlist!RowTypes, watchlist!RowState
    <2>5. watchlist!RowTypes'
      BY <1>0, <2>1, <2>2, <2>4 DEF watchlist!RowsInv, watchlist!RowTypes
    <2>6. watchlist!TrackedOnce'
      BY <2>1, <2>2, <2>3 DEF watchlist!TrackedOnce, watchlist!RowsInv
    <2> QED
      BY <1>0, <2>5, <2>6, Wrote
  <1> QED
    BY <1>1, <1>2

LEMMA WatchlistBackfills == ASSUME watchlist!RowsInv, NEW t \in Callers, watchlist!Backfill(t)
  PROVE watchlist!RowsInv'
  <1> DEFINE c == s3[t]
             f == [r \in s1 |-> IF r.n = c.row THEN [r EXCEPT !.id = c.id] ELSE r]
  <1>0. c \in watchlist!CallState /\ watchlist!ById(s1, c.id) = {}
    BY CallIs DEF watchlist!Backfill, watchlist!RowsInv, watchlist!MatchHolds
  <1>1. s1' = {f[r] : r \in s1} /\ s2' = s2 /\ watchlist!Return(t)
    BY DEF watchlist!Backfill
  <1>2. \A r \in s1 : f[r] \in watchlist!RowState /\ f[r].n = r.n /\ (r.n # c.row => f[r] = r)
          /\ (r.n = c.row => f[r].id = c.id)
    BY <1>0 DEF watchlist!RowsInv, watchlist!RowTypes, watchlist!RowState, watchlist!CallState
  <1>3. f \in [s1 -> watchlist!RowState]
    BY <1>2
  <1>4. c.id = watchlist!None \/ \A q \in s1 : q.id # c.id
    BY <1>0 DEF watchlist!ById
  <1> HIDE DEF f
  <1> QED
    BY <1>1, <1>2, <1>3, <1>4, Rewritten

LEMMA Imports == ASSUME watchlist!RowsInv, NEW t \in Callers, watchlist!Import(t) PROVE watchlist!RowsInv'
  <1>1. PICK url \in watchlist!Links, name \in Watched, answer \in watchlist!Answers : \E id \in {url.of, watchlist!None} :
          LET clash == watchlist!Clash(url, id, name)
              typed == [watchlist!Idle EXCEPT !.url = url, !.id = id, !.name = name]
          IN IF clash = {} THEN watchlist!Goto(t, [typed EXCEPT !.pc = "insert"])
             ELSE IF answer = "overwrite"
             THEN watchlist!Goto(t, [typed EXCEPT !.pc = "repoint", !.row = watchlist!First(clash).n,
                                       !.id = IF id = watchlist!None THEN watchlist!First(clash).id ELSE id])
             ELSE /\ answer = "new" /\ watchlist!Match(s1, url, id) = {} /\ ~ \E r \in s1 : r.name = "typed"
                  /\ watchlist!Goto(t, [typed EXCEPT !.pc = "insert", !.name = "typed"])
    BY DEF watchlist!Import
  <1>1a. PICK id \in {url.of, watchlist!None} :
          LET clash == watchlist!Clash(url, id, name)
              typed == [watchlist!Idle EXCEPT !.url = url, !.id = id, !.name = name]
          IN IF clash = {} THEN watchlist!Goto(t, [typed EXCEPT !.pc = "insert"])
             ELSE IF answer = "overwrite"
             THEN watchlist!Goto(t, [typed EXCEPT !.pc = "repoint", !.row = watchlist!First(clash).n,
                                       !.id = IF id = watchlist!None THEN watchlist!First(clash).id ELSE id])
             ELSE /\ answer = "new" /\ watchlist!Match(s1, url, id) = {} /\ ~ \E r \in s1 : r.name = "typed"
                  /\ watchlist!Goto(t, [typed EXCEPT !.pc = "insert", !.name = "typed"])
    BY <1>1
  <1> DEFINE clash == watchlist!Clash(url, id, name)
             typed == [watchlist!Idle EXCEPT !.url = url, !.id = id, !.name = name]
  <1>2. url.of \in Watched /\ url \in watchlist!Urls /\ id \in watchlist!Ids
          /\ name \in watchlist!Names /\ "typed" \in watchlist!Names
    BY DEF watchlist!Links, watchlist!Urls, watchlist!Ids, watchlist!Names
  <1>3. typed \in watchlist!CallState /\ typed.id = id
    BY <1>2 DEF watchlist!CallState, watchlist!Idle, watchlist!None
  <1>4. s1' = s1 /\ s2' = s2
    BY DEF watchlist!Import
  <1>5. CASE clash = {} \/ (answer # "overwrite" /\ watchlist!Match(s1, url, id) = {})
    <2>1. watchlist!ById(s1, id) = {}
      BY <1>5, MatchIsOf DEF watchlist!Clash
    <2>2. ASSUME NEW x \in {[typed EXCEPT !.pc = "insert"], [typed EXCEPT !.pc = "insert", !.name = "typed"]}
          PROVE  x \in watchlist!CallState /\ x.pc = "insert" /\ x.id = id
      BY <1>2, <1>3 DEF watchlist!CallState
    <2>3. PICK x \in {[typed EXCEPT !.pc = "insert"], [typed EXCEPT !.pc = "insert", !.name = "typed"]} : watchlist!Goto(t, x)
      BY <1>1a, <1>5
    <2> HIDE DEF typed
    <2> QED
      BY <1>4, <2>1, <2>2, <2>3, Looked
  <1>6. CASE clash # {} /\ answer = "overwrite"
    <2>1. clash \subseteq s1 /\ clash \subseteq watchlist!RowState
      BY MatchIsOf DEF watchlist!Clash, watchlist!RowsInv, watchlist!RowTypes
    <2>2. watchlist!First(clash) \in clash
      BY <1>6, <2>1, FirstIsOne
    <2> DEFINE f == watchlist!First(clash)  n == f.n  own == IF id = watchlist!None THEN f.id ELSE id
    <2>3. n \in Nat /\ f.id \in watchlist!Ids /\ own \in watchlist!Ids
      BY <1>2, <2>1, <2>2 DEF watchlist!RowState
    <2>4. watchlist!ById(s1, own) = {} \/ \E r \in s1 : r.n = n /\ r.id = own
      <3>1. CASE id = watchlist!None
        BY <2>1, <2>2, <3>1
      <3>2. CASE id # watchlist!None /\ watchlist!ById(s1, id) = {}
        BY <3>2
      <3>3. CASE id # watchlist!None /\ watchlist!ById(s1, id) # {}
        <4>1. clash = watchlist!ById(s1, id)
          BY <3>3, MatchIsOf DEF watchlist!Clash
        <4> QED
          BY <3>3, <4>1, <2>1, <2>2 DEF watchlist!ById
      <3> QED
        BY <3>1, <3>2, <3>3
    <2> DEFINE x == [typed EXCEPT !.pc = "repoint", !.row = n, !.id = own]
    <2>5. watchlist!Goto(t, x)
      BY <1>1a, <1>6
    <2> HIDE DEF n, own
    <2>6. x \in watchlist!CallState /\ x.pc = "repoint" /\ x.id = own /\ x.row = n
      BY <1>2, <1>3, <2>3 DEF watchlist!CallState
    <2> HIDE DEF x
    <2> QED
      BY <1>4, <2>4, <2>5, <2>6, Looked
  <1> QED
    BY <1>1a, <1>5, <1>6

LEMMA Repoints == ASSUME watchlist!RowsInv, NEW t \in Callers, watchlist!Repoint(t) PROVE watchlist!RowsInv'
  <1> DEFINE c == s3[t]
             f == [r \in s1 |-> IF r.n = c.row THEN [r EXCEPT !.url = c.url, !.id = c.id] ELSE r]
  <1>0. c \in watchlist!CallState /\ watchlist!Return(t) /\ s2' = s2
    BY CallIs DEF watchlist!Repoint
  <1>1. CASE s1' = s1
    <2>1. watchlist!RowTypes' /\ watchlist!TrackedOnce'
      BY <1>0, <1>1, CallTurns, WatchlistAtRest DEF watchlist!RowsInv, watchlist!RowTypes,
         watchlist!TrackedOnce, watchlist!Return
    <2> QED
      BY <1>0, <2>1, Wrote
  <1>2. CASE s1' # s1
    <2>1. s1' = {f[r] : r \in s1}
      BY <1>2 DEF watchlist!Repoint
    <2>2. \A r \in s1 : f[r] \in watchlist!RowState /\ f[r].n = r.n /\ (r.n # c.row => f[r] = r)
                       /\ (r.n = c.row => f[r].id = c.id /\ f[r].matched = r.matched)
      <3>1. c.url \in watchlist!Urls /\ c.id \in watchlist!Ids /\ s1 \subseteq watchlist!RowState
        BY <1>0 DEF watchlist!RowsInv, watchlist!RowTypes, watchlist!CallState
      <3> HIDE DEF c
      <3>2. ASSUME NEW r \in s1, r.n # c.row PROVE f[r] = r
        BY <3>2
      <3>3. ASSUME NEW r \in s1, r.n = c.row
            PROVE  f[r] \in watchlist!RowState /\ f[r].n = r.n /\ f[r].id = c.id /\ f[r].matched = r.matched
        <4> DEFINE u == c.url  i == c.id
        <4>1. f[r] = [r EXCEPT !.url = u, !.id = i] /\ r \in watchlist!RowState
          BY <3>1, <3>3
        <4>2. u \in watchlist!Urls /\ i \in watchlist!Ids
          BY <3>1
        <4> HIDE DEF f, u, i
        <4>3. f[r] \in watchlist!RowState /\ f[r].n = r.n /\ f[r].id = i /\ f[r].matched = r.matched
          BY <4>1, <4>2 DEF watchlist!RowState
        <4> QED
          BY <4>3 DEF i
      <3> QED
        BY <3>1, <3>2, <3>3
    <2>3. f \in [s1 -> watchlist!RowState]
      BY <2>2
    <2>4. \/ c.id = watchlist!None
          \/ \A q \in s1 : q.id # c.id
          \/ \A r \in s1 : r.n = c.row => r.id = c.id
      BY DEF watchlist!RowsInv, watchlist!RowTypes, watchlist!MatchHolds, watchlist!Repoint,
         watchlist!ById
    <2> HIDE DEF f
    <2> QED
      BY <1>0, <2>1, <2>2, <2>3, <2>4, Rewritten
  <1> QED
    BY <1>1, <1>2

LEMMA Resolves == ASSUME watchlist!RowsInv, NEW t \in Callers, watchlist!Resolve(t) PROVE watchlist!RowsInv'
  <1>1. PICK r \in s1 : watchlist!Goto(t, [watchlist!Idle EXCEPT !.pc = "chooses", !.row = r.n, !.search = {c \in Watched :
                                  watchlist!Match(s1 \ {r}, [of |-> c, form |-> "id"], c) = {}}])
    BY DEF watchlist!Resolve
  <1> DEFINE S == {c \in Watched : watchlist!Match(s1 \ {r}, [of |-> c, form |-> "id"], c) = {}}
             n == r.n
             c0 == [watchlist!Idle EXCEPT !.pc = "chooses", !.row = n, !.search = S]
  <1>2. watchlist!Goto(t, c0) /\ S \subseteq Watched /\ s1' = s1 /\ s2' = s2
    BY <1>1 DEF watchlist!Resolve
  <1>3. n \in Nat
    BY DEF watchlist!RowsInv, watchlist!RowTypes, watchlist!RowState
  <1> HIDE DEF S, n
  <1>4. c0 \in watchlist!CallState /\ c0.pc = "chooses"
    BY <1>2, <1>3, WatchlistAtRest DEF watchlist!CallState, watchlist!Idle
  <1> HIDE DEF c0
  <1> QED
    BY <1>2, <1>4, Looked

LEMMA Picks == ASSUME watchlist!RowsInv, NEW t \in Callers, watchlist!Pick(t) PROVE watchlist!RowsInv'
  <1>1. CASE watchlist!Return(t)
    BY <1>1, WatchlistAtRest, Looked DEF watchlist!Pick, watchlist!Return
  <1>2. CASE ~watchlist!Return(t)
    <2>1. PICK c \in s3[t].search : watchlist!Goto(t, [s3[t] EXCEPT !.pc = "own", !.id = c, !.url = [of |-> c, form |-> "id"]])
      BY <1>2 DEF watchlist!Pick
    <2> DEFINE u == [of |-> c, form |-> "id"]
               d == [s3[t] EXCEPT !.pc = "own", !.id = c, !.url = u]
    <2>2. c \in Watched
      BY CallIs DEF watchlist!CallState
    <2>3. u \in watchlist!Urls /\ c \in watchlist!Ids
      BY <2>2 DEF watchlist!Urls, watchlist!Links, watchlist!Ids
    <2>4. watchlist!Goto(t, d)
      BY <2>1
    <2> HIDE DEF u
    <2>5. d \in watchlist!CallState /\ d.pc = "own"
      BY <2>3, CallIs DEF watchlist!CallState
    <2> HIDE DEF d
    <2> QED
      BY <2>4, <2>5, Looked DEF watchlist!Pick
  <1> QED
    BY <1>1, <1>2

\* A call that looked and goes on to a step that matches nothing.
LEMMA TurnedTo ==
  ASSUME watchlist!RowsInv, NEW t \in Callers,
      NEW pc \in {"own", "persist"}, watchlist!Goto(t, [s3[t] EXCEPT !.pc = pc]),
         s1' = s1, s2' = s2
  PROVE  watchlist!RowsInv'
  <1> DEFINE d == [s3[t] EXCEPT !.pc = pc]
  <1>1. d \in watchlist!CallState /\ d.pc = pc
    BY CallIs DEF watchlist!CallState
  <1>2. watchlist!Goto(t, d)
    OBVIOUS
  <1> HIDE DEF d
  <1> QED
    BY <1>1, <1>2, Looked

LEMMA Probes == ASSUME watchlist!RowsInv, NEW t \in Callers, watchlist!Probe(t) \/ watchlist!Own(t)
  PROVE watchlist!RowsInv'
  <1>1. CASE watchlist!Return(t)
    BY <1>1, WatchlistAtRest, Looked DEF watchlist!Probe, watchlist!Own, watchlist!Return
  <1>2. CASE ~watchlist!Return(t)
    BY <1>2, TurnedTo DEF watchlist!Probe, watchlist!Own
  <1> QED
    BY <1>1, <1>2

LEMMA Edits == ASSUME watchlist!RowsInv, NEW t \in Callers, watchlist!Edit(t) PROVE watchlist!RowsInv'
  <1>1. PICK r \in s1, url \in watchlist!Links : r.url # url /\
          LET c == [watchlist!Idle EXCEPT !.row = r.n, !.url = url, !.id = url.of] IN
          IF url.form = "id" THEN watchlist!Goto(t, [c EXCEPT !.pc = "own"]) /\ UNCHANGED s1
          ELSE /\ watchlist!Goto(t, [c EXCEPT !.pc = "probe"])
               /\ s1' = IF watchlist!ByLink(s1, url) # {} THEN s1
                          ELSE (s1 \ {r}) \union {[r EXCEPT !.url = url, !.matched = FALSE]}
    BY DEF watchlist!Edit
  <1> DEFINE n == r.n  id == url.of
             c == [watchlist!Idle EXCEPT !.row = n, !.url = url, !.id = id]
             own == [c EXCEPT !.pc = "own"]  probe == [c EXCEPT !.pc = "probe"]
  <1>2. n \in Nat /\ url \in watchlist!Urls /\ id \in watchlist!Ids /\ s2' = s2 /\ r \in watchlist!RowState
    BY DEF watchlist!RowsInv, watchlist!RowTypes, watchlist!RowState, watchlist!Urls,
       watchlist!Links, watchlist!Ids, watchlist!Edit
  <1>3. \/ watchlist!Goto(t, own) /\ s1' = s1
        \/ /\ watchlist!Goto(t, probe)
           /\ s1' = IF watchlist!ByLink(s1, url) # {} THEN s1
                      ELSE (s1 \ {r}) \union {[r EXCEPT !.url = url, !.matched = FALSE]}
    BY <1>1
  <1> HIDE DEF n, id
  <1>4. own \in watchlist!CallState /\ own.pc = "own" /\ probe \in watchlist!CallState /\ probe.pc = "probe"
    BY <1>2, WatchlistAtRest DEF watchlist!CallState, watchlist!Idle
  <1> HIDE DEF own, probe
  <1>5. CASE s1' = s1
    BY <1>2, <1>3, <1>4, <1>5, Looked
  <1>6. CASE s1' # s1
    <2> DEFINE q == [r EXCEPT !.url = url, !.matched = FALSE]
    <2>1. s1' = (s1 \ {r}) \union {q} /\ watchlist!Goto(t, probe)
      BY <1>3, <1>6
    <2>2. q \in watchlist!RowState /\ q.n = r.n /\ q.matched = FALSE
      BY <1>2 DEF watchlist!RowState
    <2> HIDE DEF q
    <2>3. watchlist!RowTypes'
      BY <1>2, <1>4, <2>1, <2>2, CallTurns DEF watchlist!RowsInv, watchlist!RowTypes
    <2>4. watchlist!TrackedOnce'
      BY <2>1, <2>2 DEF watchlist!RowsInv, watchlist!TrackedOnce
    <2>5. \A u \in Callers : watchlist!MatchHolds(u)'
      BY <1>4, <2>1, CallTurns DEF watchlist!MatchHolds
    <2> QED
      BY <2>3, <2>4, <2>5 DEF watchlist!RowsInv
  <1> QED
    BY <1>5, <1>6

LEMMA Persists == ASSUME watchlist!RowsInv, NEW t \in Callers, watchlist!Persist(t) PROVE watchlist!RowsInv'
  <1> DEFINE c == s3[t]
             f == [r \in s1 |-> IF r.n = c.row THEN [r EXCEPT !.url = c.url, !.id = c.id, !.matched = FALSE] ELSE r]
  <1>0. c \in watchlist!CallState /\ watchlist!Return(t) /\ s2' = s2
    BY CallIs DEF watchlist!Persist
  <1>1. CASE s1' = s1
    <2>1. watchlist!RowTypes' /\ watchlist!TrackedOnce'
      BY <1>0, <1>1, CallTurns, WatchlistAtRest DEF watchlist!RowsInv, watchlist!RowTypes,
         watchlist!TrackedOnce, watchlist!Return
    <2> QED
      BY <1>0, <2>1, Wrote
  <1>2. CASE s1' # s1
    <2>1. s1' = {f[r] : r \in s1}
      BY <1>2 DEF watchlist!Persist
    <2>2. \A r \in s1 : f[r] \in watchlist!RowState /\ f[r].n = r.n /\ (r.n # c.row => f[r] = r)
                       /\ (r.n = c.row => f[r].matched = FALSE)
      <3>1. c.url \in watchlist!Urls /\ c.id \in watchlist!Ids /\ s1 \subseteq watchlist!RowState
        BY <1>0 DEF watchlist!RowsInv, watchlist!RowTypes, watchlist!CallState
      <3> HIDE DEF c
      <3>2. ASSUME NEW r \in s1, r.n # c.row PROVE f[r] = r
        BY <3>2
      <3>3. ASSUME NEW r \in s1, r.n = c.row
            PROVE  f[r] \in watchlist!RowState /\ f[r].n = r.n /\ f[r].matched = FALSE
        <4> DEFINE u == c.url  i == c.id
        <4>1. f[r] = [r EXCEPT !.url = u, !.id = i, !.matched = FALSE] /\ r \in watchlist!RowState
          BY <3>1, <3>3
        <4>2. u \in watchlist!Urls /\ i \in watchlist!Ids
          BY <3>1
        <4> HIDE DEF f, u, i
        <4> QED
          BY <4>1, <4>2 DEF watchlist!RowState
      <3> QED
        BY <3>1, <3>2, <3>3
    <2>3. f \in [s1 -> watchlist!RowState]
      BY <2>2
    <2> HIDE DEF f
    <2> QED
      BY <1>0, <2>1, <2>2, <2>3, Rewritten
  <1> QED
    BY <1>1, <1>2

LEMMA Removes == ASSUME watchlist!RowsInv, NEW t \in Callers, watchlist!Remove(t) PROVE watchlist!RowsInv'
  <1>1. s3[t] = watchlist!Idle /\ s3' = s3 /\ s2' = s2 /\ s1' \subseteq s1
    BY DEF watchlist!Remove
  <1>2. \A u \in Callers : s3[u].pc = "idle"
    BY <1>1, OneCaller, WatchlistAtRest
  <1> QED
    BY <1>1, <1>2 DEF watchlist!RowsInv, watchlist!RowTypes, watchlist!TrackedOnce,
       watchlist!MatchHolds

LEMMA RowsStep == watchlist!RowsInv /\ (watchlist!Next \/ UNCHANGED watchlist!vars) => watchlist!RowsInv'
  <1>1. ASSUME watchlist!RowsInv, UNCHANGED watchlist!vars PROVE watchlist!RowsInv'
    BY <1>1 DEF watchlist!RowsInv, watchlist!RowTypes, watchlist!TrackedOnce,
       watchlist!MatchHolds, watchlist!ById, watchlist!vars
  <1>2. ASSUME watchlist!RowsInv, NEW t \in Callers, watchlist!Step(t) PROVE watchlist!RowsInv'
    BY <1>2, WatchlistAdds, Matches, Inserts, WatchlistBackfills, Imports, Repoints, Resolves,
       Picks, Edits, Probes, Persists, Removes DEF watchlist!Step
  <1> QED
    BY <1>1, <1>2 DEF watchlist!Next

-----------------------------------------------------------------------------
(* ListShare: a list file landed over a list, and one's own read back. *)

\* The positions of a set's members in order are a sequence of them.
LEMMA Ordered == ASSUME NEW n \in Nat, NEW is \in SUBSET (1 .. n), NEW at \in list!InOrder(is)
                 PROVE  /\ list!Cardinality(is) \in Nat /\ DOMAIN at = 1 .. list!Cardinality(is)
                        /\ \A i \in DOMAIN at : at[i] \in is
  <1>1. list!IsFiniteSet(is)
    <2>1. list!IsFiniteSet(1 .. n)
      BY ListInterval
    <2> QED
      BY <2>1, ListSubset
  <1> QED
    BY <1>1, ListCounted DEF list!InOrder

LEMMA FirstIsOfThem == ASSUME NEW rs \in Seq(list!RowState), NEW is \in SUBSET DOMAIN rs, is # {}
  PROVE list!First(is) \in is
  <1>1. \E m \in is : \A n \in is : m <= n
    BY LeastNat
  <1> QED
    BY <1>1 DEF list!First

\* What a clash is: the first row of the link, or of the name where none has the link.
LEMMA ConflictIs ==
  ASSUME NEW rs \in Seq(list!RowState), NEW e \in list!SaneState
  PROVE  /\ list!FindConflict(rs, e) \in Nat
         /\ list!FindConflict(rs, e) = 0 => list!SameLink(rs, e) = {} /\ list!SameName(rs, e.name) = {}
         /\ list!FindConflict(rs, e) # 0 => list!FindConflict(rs, e) \in DOMAIN rs
         /\ list!FindConflict(rs, e) # 0 /\ list!SameLink(rs, e) # {} =>
            list!FindConflict(rs, e) \in list!SameLink(rs, e)
  <1>1. list!SameLink(rs, e) \subseteq DOMAIN rs /\ list!SameName(rs, e.name) \subseteq DOMAIN rs
    BY DEF list!SameLink, list!SameName, list!At
  <1>2. list!SameLink(rs, e) # {} => list!First(list!SameLink(rs, e)) \in list!SameLink(rs, e)
    BY <1>1, FirstIsOfThem
  <1>3. list!SameName(rs, e.name) # {} => list!First(list!SameName(rs, e.name)) \in list!SameName(rs, e.name)
    BY <1>1, FirstIsOfThem
  <1>4. \A i \in DOMAIN rs : i \in Nat /\ i # 0
    OBVIOUS
  <1> HIDE DEF list!SameLink, list!SameName
  <1> QED
    BY <1>1, <1>2, <1>3, <1>4 DEF list!FindConflict

\* A row with an id is known by it, and one without by its link.
LEMMA KeyIs == ASSUME NEW r, r.url \in list!LinkState
               PROVE  /\ r.id # list!None => list!Key(r).form = "known" /\ list!Key(r).of = r.id
                      /\ r.id = list!None => list!Key(r).form # "known"
  BY DEF list!Key, list!Link, list!LinkState

LEMMA KeyOfBoth == ASSUME NEW r, NEW e, r.url = e.url, r.id = e.id PROVE list!Key(r) = list!Key(e)
  BY DEF list!Key

LEMMA KeyOfId == ASSUME NEW r, NEW e, r.id = e.id, r.id # list!None PROVE list!Key(r) = list!Key(e)
  BY DEF list!Key

\* The rows that are of a link, by the first way that finds one.
LEMMA LinkIs ==
  ASSUME NEW rs \in Seq(list!RowState), NEW e \in list!SaneState
  PROVE  /\ list!SameLink(rs, e) = {} => \A i \in DOMAIN rs : rs[i].url # e.url
            /\ list!Key(rs[i]) # list!Key(e) /\ (e.id # list!None => rs[i].id # e.id)
         /\ \A i \in list!SameLink(rs, e) :
              \/ e.id # list!None /\ rs[i].id = e.id
              \/ /\ \A j \in DOMAIN rs : e.id # list!None => rs[j].id # e.id
                 /\ rs[i].url = e.url \/ list!Key(rs[i]) = list!Key(e)
  <1> DEFINE ids == list!At(rs, LAMBDA r : e.id # list!None /\ r.id = e.id)
             urls == list!At(rs, LAMBDA r : r.url = e.url)
             keys == list!At(rs, LAMBDA r : list!Key(r) = list!Key(e))
  <1>1. ids = {i \in DOMAIN rs : e.id # list!None /\ rs[i].id = e.id}
    BY DEF list!At
  <1>2. urls = {i \in DOMAIN rs : rs[i].url = e.url}
    BY DEF list!At
  <1>3. keys = {i \in DOMAIN rs : list!Key(rs[i]) = list!Key(e)}
    BY DEF list!At
  <1>4. list!SameLink(rs, e) = IF ids # {} THEN ids ELSE IF urls # {} THEN urls ELSE keys
    BY DEF list!SameLink
  <1> HIDE DEF ids, urls, keys
  <1> QED
    BY <1>1, <1>2, <1>3, <1>4

\* What the first call and its answer leave of the dialog.
LEMMA ListMoves ==
  ASSUME NEW d \in list!DialogState, d.todo # <<>>, Len(d.marks) = Len(d.todo)
  PROVE  /\ list!NextEntry(d) \in list!DialogState /\ list!NextEntry(d).pc = "next"
         /\ list!NextEntry(d).marks = Tail(d.marks)
            /\ Len(list!NextEntry(d).marks) = Len(list!NextEntry(d).todo)
         /\ Head(d.todo) \in list!SaneState
         /\ \A i \in DOMAIN list!NextEntry(d).marks : i + 1 \in DOMAIN d.marks
            /\ list!NextEntry(d).marks[i] = d.marks[i + 1]
  <1>1. d.todo \in Seq(list!SaneState) /\ d.marks \in Seq(Nat)
    BY DEF list!DialogState
  <1>2. Tail(d.todo) \in Seq(list!SaneState) /\ Tail(d.marks) \in Seq(Nat)
          /\ Len(Tail(d.marks)) = Len(Tail(d.todo)) /\ Head(d.todo) \in list!SaneState
    <2>1. d.todo[1] \in list!SaneState /\ Head(d.todo) = d.todo[1]
      BY <1>1
    <2>2. Tail(d.todo) \in Seq(list!SaneState) /\ Len(Tail(d.todo)) = Len(d.todo) - 1
      BY <1>1
    <2>3. d.marks # <<>>
      BY <1>1
    <2>4. Tail(d.marks) \in Seq(Nat) /\ Len(Tail(d.marks)) = Len(d.marks) - 1
      BY <1>1, <2>3
    <2> QED
      BY <1>1, <2>1, <2>2, <2>4
  <1> DEFINE todo == Tail(d.todo)
             marks == Tail(d.marks)
  <1>3. list!NextEntry(d) = [d EXCEPT !.pc = "next", !.todo = todo, !.marks = marks]
    BY DEF list!NextEntry
  <1> HIDE DEF todo, marks
  <1>4. todo \in Seq(list!SaneState) /\ marks \in Seq(Nat)
    BY <1>2 DEF todo, marks
  <1>5. list!NextEntry(d) \in list!DialogState /\ list!NextEntry(d).pc = "next"
          /\ list!NextEntry(d).todo = todo /\ list!NextEntry(d).marks = marks
    BY <1>3, <1>4 DEF list!DialogState
  <1>6. \A i \in DOMAIN marks : i + 1 \in DOMAIN d.marks /\ marks[i] = d.marks[i + 1]
    BY <1>1 DEF marks
  <1> QED
    BY <1>2, <1>5, <1>6 DEF todo, marks

LEMMA ClosedIs == /\ list!Closed \in list!DialogState /\ list!Closed.pc = "closed"
                     /\ list!Closed.marks = <<>> /\ list!Closed.todo = <<>>
                  /\ Len(list!Closed.marks) = Len(list!Closed.todo) /\ \A i \in DOMAIN list!Closed.marks : FALSE
  BY DEF list!Closed, list!DialogState

LEMMA ListInit == list!Init => list!ListInv
  <1> SUFFICES ASSUME list!Init PROVE list!ListInv
    OBVIOUS
  <1>1. PICK id \in Shared \union {list!None}, c \in Shared, name \in GoneBy, form \in {"handle", "odd", "parked"} :
             s1 = <<[url |-> list!Link(c, form), id |-> id, name |-> name, landed |-> FALSE]>>
    BY DEF list!Init
  <1>2. [url |-> list!Link(c, form), id |-> id, name |-> name, landed |-> FALSE] \in list!RowState
    BY DEF list!Link, list!LinkState, list!RowState
  <1>3. s1 \in Seq(list!RowState) /\ Len(s1) = 1
    BY <1>1, <1>2
  <1>4. list!KeptApart /\ list!NamesApart
    BY <1>3 DEF list!KeptApart, list!NamesApart
  <1>5. s2 \in Seq(list!EntryState) /\ s3 = FALSE /\ s4 = list!Closed
    BY DEF list!Init, list!Damaged
  <1> QED
    BY <1>3, <1>4, <1>5, ClosedIs DEF list!ListInv, list!ListTypes, list!OwnIsTracked

\* Nothing but the dialog and the file change, and what is one's own stays marked.
LEMMA ListLooks ==
  ASSUME list!ListInv, UNCHANGED s1, s2' \in Seq(list!EntryState), s3' \in BOOLEAN, s4' \in list!DialogState,
         Len(s4'.marks) = Len(s4'.todo), s4'.pc = "ask" => s4'.todo # <<>>,
         s3' => /\ \A i \in DOMAIN s2' : \E j \in DOMAIN s1 : s1[j].url = s2'[i].url
                /\ \A i \in DOMAIN s4'.marks : s4'.marks[i] # 0
  PROVE  list!ListInv'
  BY DEF list!ListInv, list!ListTypes, list!KeptApart, list!NamesApart, list!OwnIsTracked

LEMMA Exports == ASSUME list!ListInv, list!Export PROVE list!ListInv'
  <1> DEFINE is == {i \in DOMAIN s1 : s1[i].url.form # "parked"}
  <1>1. PICK at \in list!InOrder(is) :
          s2' = [i \in DOMAIN at |-> [url |-> s1[at[i]].url, id |-> s1[at[i]].id, name |-> s1[at[i]].name]]
    BY DEF list!Export, list!Exported
  <1>2. /\ list!Cardinality(is) \in Nat /\ DOMAIN at = 1 .. list!Cardinality(is)
           /\ \A i \in DOMAIN at : at[i] \in DOMAIN s1
    <2>1. is \in SUBSET (1 .. Len(s1)) /\ Len(s1) \in Nat
      BY DEF list!ListInv, list!ListTypes
    <2> HIDE DEF is
    <2>2. is \subseteq DOMAIN s1
      BY DEF is
    <2> QED
      BY <1>1, <2>1, <2>2, Ordered
  <1> HIDE DEF is
  <1>3. \A i \in DOMAIN at : [url |-> s1[at[i]].url, id |-> s1[at[i]].id, name |-> s1[at[i]].name] \in list!EntryState
    <2> TAKE i \in DOMAIN at
    <2>1. s1[at[i]] \in list!RowState
      BY <1>2 DEF list!ListInv, list!ListTypes
    <2> QED
      BY <2>1 DEF list!RowState, list!EntryState
  <1>4. s2' \in Seq(list!EntryState)
    BY <1>1, <1>2, <1>3
  <1>5. \A i \in DOMAIN s2' : s2'[i].url = s1[at[i]].url /\ at[i] \in DOMAIN s1
    BY <1>1, <1>2
  <1> QED
    BY <1>4, <1>5, ClosedIs, ListLooks DEF list!Export

LEMMA Receives == ASSUME list!ListInv, list!Receive PROVE list!ListInv'
  BY ReceivedAssumption, ClosedIs, ListLooks DEF list!Receive

LEMMA Reads == ASSUME list!ListInv, list!Read PROVE list!ListInv'
  <1>1. PICK ticked \in SUBSET list!Sane : \E at \in list!InOrder(ticked) :
             LET todo == [i \in DOMAIN at |-> list!Sanitized(s2[at[i]])]
             IN  s4' = [list!Closed EXCEPT !.pc = "next", !.todo = todo,
                                          !.marks = [i \in DOMAIN todo |-> list!FindConflict(s1, todo[i])]]
    BY DEF list!Read
  <1>2. PICK at \in list!InOrder(ticked) :
             LET todo == [i \in DOMAIN at |-> list!Sanitized(s2[at[i]])]
             IN  s4' = [list!Closed EXCEPT !.pc = "next", !.todo = todo,
                                          !.marks = [i \in DOMAIN todo |-> list!FindConflict(s1, todo[i])]]
    BY <1>1
  <1> DEFINE todo == [i \in DOMAIN at |-> list!Sanitized(s2[at[i]])]
             marks == [i \in DOMAIN todo |-> list!FindConflict(s1, todo[i])]
             n == list!Cardinality(ticked)
  <1>3. s4' = [list!Closed EXCEPT !.pc = "next", !.todo = todo, !.marks = marks]
    BY <1>2
  <1>4. n \in Nat /\ DOMAIN at = 1 .. n /\ \A i \in DOMAIN at : at[i] \in DOMAIN s2
    <2>1. ticked \in SUBSET (1 .. Len(s2)) /\ Len(s2) \in Nat /\ ticked \subseteq DOMAIN s2
      BY DEF list!ListInv, list!ListTypes, list!Sane
    <2> QED
      BY <1>2, <2>1, Ordered
  <1> HIDE DEF n
  <1>5. \A i \in DOMAIN at : list!Sanitized(s2[at[i]]) \in list!SaneState
          /\ list!Sanitized(s2[at[i]]).url = s2[at[i]].url
    <2> TAKE i \in DOMAIN at
    <2>1. s2[at[i]] \in list!EntryState
      BY <1>4 DEF list!ListInv, list!ListTypes
    <2> QED
      BY <2>1 DEF list!EntryState, list!SaneState, list!Sanitized
  <1>6. todo \in Seq(list!SaneState) /\ Len(todo) = n /\ DOMAIN todo = 1 .. n
    BY <1>4, <1>5
  <1>7. \A i \in DOMAIN todo : todo[i] \in list!SaneState /\ todo[i].url = s2[at[i]].url /\ at[i] \in DOMAIN s2
    BY <1>4, <1>5
  <1> HIDE DEF todo
  <1>8. \A i \in DOMAIN todo : list!FindConflict(s1, todo[i]) \in Nat
    BY <1>7, ConflictIs DEF list!ListInv, list!ListTypes
  <1>9. marks \in Seq(Nat) /\ Len(marks) = n /\ DOMAIN marks = 1 .. n
    BY <1>4, <1>6, <1>8
  <1>10. s3 => \A i \in DOMAIN marks : marks[i] # 0
    <2> SUFFICES ASSUME s3, NEW i \in DOMAIN todo PROVE list!FindConflict(s1, todo[i]) # 0
      OBVIOUS
    <2>1. PICK j \in DOMAIN s1 : s1[j].url = todo[i].url
      BY <1>7 DEF list!ListInv, list!OwnIsTracked
    <2>2. list!SameLink(s1, todo[i]) # {}
      BY <1>7, <2>1, LinkIs DEF list!ListInv, list!ListTypes
    <2> QED
      BY <1>7, <2>2, ConflictIs DEF list!ListInv, list!ListTypes
  <1> HIDE DEF marks
  <1>11. s4' \in list!DialogState /\ s4'.pc = "next" /\ s4'.todo = todo /\ s4'.marks = marks
    BY <1>3, <1>6, <1>9 DEF list!Closed, list!DialogState
  <1> QED
    BY <1>6, <1>9, <1>10, <1>11, ListLooks DEF list!Read, list!ListInv, list!ListTypes,
       list!OwnIsTracked

\* What a row at the end leaves true, if none has its link, its key or its name.
LEMMA Appends ==
  ASSUME list!ListInv, NEW r \in list!RowState, s1' = Append(s1, r), UNCHANGED s2, s3' = FALSE,
         s4' \in list!DialogState, Len(s4'.marks) = Len(s4'.todo), s4'.pc = "ask" => s4'.todo # <<>>,
         \A i \in DOMAIN s1 : s1[i].url # r.url /\ list!Key(s1[i]) # list!Key(r),
         r.landed => list!SameName(s1, r.name) = {}
  PROVE  list!ListInv'
  <1>1. /\ s1' \in Seq(list!RowState) /\ DOMAIN s1' = 1 .. Len(s1) + 1 /\ DOMAIN s1 = 1 .. Len(s1)
        /\ \A i \in DOMAIN s1 : s1'[i] = s1[i]
        /\ s1'[Len(s1) + 1] = r /\ Len(s1) \in Nat
    BY DEF list!ListInv, list!ListTypes
  <1>2. \A i, j \in DOMAIN s1' : i < j => i \in DOMAIN s1 /\ (j \in DOMAIN s1 \/ j = Len(s1) + 1)
    BY <1>1
  <1>3. list!KeptApart'
    BY <1>1, <1>2 DEF list!ListInv, list!KeptApart
  <1>4. r.landed /\ r.name # list!None => \A i \in DOMAIN s1 : s1[i].name # r.name
    BY DEF list!SameName, list!At
  <1>5. list!NamesApart'
    BY <1>1, <1>2, <1>4 DEF list!ListInv, list!NamesApart
  <1> QED
    BY <1>1, <1>3, <1>5 DEF list!ListInv, list!ListTypes, list!OwnIsTracked

LEMMA ListAdds ==
  ASSUME list!ListInv, NEW e \in list!SaneState,
      NEW name \in GoneBy \union {list!None}, list!ImportAdd(e, name), UNCHANGED s2,
         list!SameLink(s1, e) = {}, list!SameName(s1, name) = {}, s4.todo # <<>>
  PROVE  list!ListInv'
  <1>1. CASE s4' = list!Closed /\ UNCHANGED <<s1, s3>>
    BY <1>1, ClosedIs, ListLooks DEF list!ListInv, list!ListTypes, list!OwnIsTracked
  <1>2. CASE /\ s1' = Append(s1, [url |-> e.url, id |-> e.id, name |-> name, landed |-> TRUE])
             /\ s3' = FALSE /\ s4' = list!NextEntry(s4)
    <2> DEFINE r == [url |-> e.url, id |-> e.id, name |-> name, landed |-> TRUE]
    <2>1. r \in list!RowState /\ r.url = e.url /\ r.id = e.id /\ r.name = name
      BY DEF list!SaneState, list!RowState
    <2> HIDE DEF r
    <2>2. list!Key(r) = list!Key(e)
      BY <2>1, KeyOfBoth
    <2>3. \A i \in DOMAIN s1 : s1[i].url # r.url /\ list!Key(s1[i]) # list!Key(r)
      BY <2>1, <2>2, LinkIs DEF list!ListInv, list!ListTypes
    <2>4. s1' = Append(s1, r)
      BY <1>2 DEF r
    <2> QED
      BY <1>2, <2>1, <2>3, <2>4, ListMoves, Appends DEF list!ListInv, list!ListTypes
  <1> QED
    BY <1>1, <1>2 DEF list!ImportAdd

LEMMA EntryIs == ASSUME list!ListInv, s4.todo # <<>>
  PROVE list!Entry \in list!SaneState /\ list!Entry.name \in GoneBy \union {list!None}
  BY ListMoves DEF list!ListInv, list!ListTypes, list!Entry, list!SaneState

LEMMA Lands == ASSUME list!ListInv, list!Land PROVE list!ListInv'
  <1>1. s4.todo # <<>> /\ list!Entry \in list!SaneState
          /\ list!Entry.name \in GoneBy \union {list!None} /\ s1 \in Seq(list!RowState)
    BY EntryIs DEF list!Land, list!ListInv, list!ListTypes
  <1>2. CASE list!Clash(list!Entry) = 0
    BY <1>1, <1>2, ConflictIs, ListAdds DEF list!Land, list!Clash
  <1>3. CASE s4' = [s4 EXCEPT !.pc = "ask"] /\ UNCHANGED <<s1, s3>>
    <2>1. s4' \in list!DialogState /\ s4'.todo = s4.todo /\ s4'.marks = s4.marks
      BY <1>3 DEF list!ListInv, list!ListTypes, list!DialogState
    <2> QED
      BY <1>1, <1>3, <2>1, ListLooks DEF list!Land, list!ListInv, list!ListTypes, list!OwnIsTracked
  <1> QED
    BY <1>2, <1>3 DEF list!Land

\* The row of a clash takes the entry's link: it stays what it was known by, or is known by
\* what none other is.
LEMMA Overwrites ==
  ASSUME list!ListInv, NEW at, NEW e \in list!SaneState, at = list!FindConflict(s1, e), at # 0,
         \A j \in DOMAIN s1 : s1[j].url = e.url => j = at,
         s1' = [s1 EXCEPT ![at] = list!Overwritten(@, e)],
         s3' = (s3 /\ s1' = s1), s4' = list!NextEntry(s4), s4.todo # <<>>, UNCHANGED s2
  PROVE  list!ListInv'
  <1> DEFINE id == IF e.id # list!None THEN e.id ELSE s1[at].id
  <1>1. s1 \in Seq(list!RowState) /\ at \in DOMAIN s1 /\ s1[at] \in list!RowState
    BY ConflictIs DEF list!ListInv, list!ListTypes
  <1>2. id \in Shared \union {list!None} /\ e.url \in list!LinkState
    BY <1>1 DEF list!SaneState, list!RowState
  <1>3. (e.id # list!None => id = e.id) /\ (e.id = list!None => id = s1[at].id)
    OBVIOUS
  <1> DEFINE r == list!Overwritten(s1[at], e)
  <1>4. s1' = [s1 EXCEPT ![at] = r]
    OBVIOUS
  <1> HIDE DEF id, r
  <1>5. /\ DOMAIN s1' = DOMAIN s1 /\ s1' \in Seq(list!RowState)
        /\ \A j \in DOMAIN s1 \ {at} : s1'[j] = s1[j]
        /\ s1'[at].url = e.url /\ s1'[at].id = id /\ s1'[at].name = s1[at].name
           /\ s1'[at].landed = s1[at].landed
    <2>1. r = [s1[at] EXCEPT !.url = e.url, !.id = id]
      BY DEF r, id, list!Overwritten
    <2>2. r \in list!RowState /\ r.url = e.url /\ r.id = id /\ r.name = s1[at].name /\ r.landed = s1[at].landed
      BY <1>1, <1>2, <2>1 DEF list!RowState
    <2> QED
      BY <1>1, <1>4, <2>2
  <1>6. \A j \in DOMAIN s1 \ {at} : list!Key(s1[j]) # list!Key(s1[at])
    BY <1>1 DEF list!ListInv, list!ListTypes, list!KeptApart
  <1>7. \A j \in DOMAIN s1 : s1[j].url \in list!LinkState /\ s1[j].id \in Shared \union {list!None}
    <2> TAKE j \in DOMAIN s1
    <2>1. s1[j] \in list!RowState
      BY <1>1
    <2> QED
      BY <2>1 DEF list!RowState
  <1>8. \A j \in DOMAIN s1 \ {at} : list!Key(s1[j]) # list!Key(s1'[at])
    <2> SUFFICES ASSUME NEW j \in DOMAIN s1 \ {at}, list!Key(s1[j]) = list!Key(s1'[at]) PROVE FALSE
      OBVIOUS
    <2>1. CASE id # list!None
      <3> DEFINE q == s1'[at]
      <3>0. q.url \in list!LinkState /\ q.id = id
        BY <1>2, <1>5
      <3>1. s1[j].id = id
        <4> HIDE DEF q
        <4>1. list!Key(q).form = "known" /\ list!Key(q).of = id
          BY <2>1, <3>0, KeyIs
        <4>2. list!Key(s1[j]) = list!Key(q)
          BY DEF q
        <4> QED
          BY <1>7, <4>1, <4>2, KeyIs
      <3>2. CASE e.id = list!None
        BY <1>3, <1>6, <2>1, <3>1, <3>2, KeyOfId
      <3>3. CASE e.id # list!None
        <4>1. CASE list!SameLink(s1, e) = {}
          BY <1>1, <1>3, <3>1, <3>3, <4>1, LinkIs
        <4>2. CASE at \in list!SameLink(s1, e)
          BY <1>1, <1>3, <1>6, <2>1, <3>1, <3>3, <4>2, LinkIs, KeyOfId
        <4> QED
          BY <1>1, <4>1, <4>2, ConflictIs
      <3> QED
        BY <3>2, <3>3
    <2>2. CASE id = list!None
      <3>1. e.id = list!None /\ s1[at].id = list!None
        BY <1>3, <2>2
      <3>2. list!Key(s1'[at]) = list!Key(e)
        <4>1. s1'[at].url = e.url /\ s1'[at].id = e.id
          BY <1>5, <2>2, <3>1
        <4> QED
          BY <4>1 DEF list!Key
      <3>3. CASE list!SameLink(s1, e) = {}
        BY <1>1, <3>2, <3>3, LinkIs
      <3>4. CASE at \in list!SameLink(s1, e)
        <4>1. s1[at].url = e.url \/ list!Key(s1[at]) = list!Key(e)
          BY <1>1, <3>1, <3>4, LinkIs
        <4>2. list!Key(s1[at]) = list!Key(e)
          BY <3>1, <4>1, KeyOfBoth
        <4> QED
          BY <1>6, <3>2, <4>2
      <3> QED
        BY <1>1, <3>3, <3>4, ConflictIs
    <2> QED
      BY <2>1, <2>2
  <1>9. list!KeptApart'
    <2> SUFFICES ASSUME NEW i \in DOMAIN s1, NEW j \in DOMAIN s1, i < j
                 PROVE  s1'[i].url # s1'[j].url /\ list!Key(s1'[i]) # list!Key(s1'[j])
      BY <1>5 DEF list!KeptApart
    <2>1. i # j /\ i \in Nat /\ j \in Nat
      BY <1>1
    <2>2. CASE i # at /\ j # at
      BY <1>5, <2>2 DEF list!ListInv, list!KeptApart
    <2>3. CASE i = at
      BY <1>5, <1>8, <2>1, <2>3
    <2>4. CASE j = at
      BY <1>5, <1>8, <2>1, <2>4
    <2> QED
      BY <2>2, <2>3, <2>4
  <1>10. list!NamesApart'
    <2>1. \A j \in DOMAIN s1 : s1'[j].name = s1[j].name /\ s1'[j].landed = s1[j].landed
      BY <1>5
    <2> QED
      BY <1>5, <2>1 DEF list!ListInv, list!NamesApart
  <1>11. list!OwnIsTracked'
    <2> SUFFICES ASSUME s3'
                 PROVE  /\ \A i \in DOMAIN s2' : \E j \in DOMAIN s1' : s1'[j].url = s2'[i].url
                        /\ \A i \in DOMAIN s4'.marks : s4'.marks[i] # 0
      BY DEF list!OwnIsTracked
    <2>1. s3 /\ s1' = s1
      OBVIOUS
    <2>2. \A i \in DOMAIN s4'.marks : s4'.marks[i] # 0
      BY <2>1, ListMoves DEF list!ListInv, list!ListTypes, list!OwnIsTracked
    <2>3. \A i \in DOMAIN s2' : \E j \in DOMAIN s1' : s1'[j].url = s2'[i].url
      BY <2>1 DEF list!ListInv, list!OwnIsTracked
    <2> QED
      BY <2>2, <2>3
  <1> QED
    BY <1>5, <1>9, <1>10, <1>11, ListMoves DEF list!ListInv, list!ListTypes

LEMMA Answers == ASSUME list!ListInv,
    NEW action, list!Answered(action), action \in {"skip", "overwrite", "new"},
                        s4.pc = "ask", UNCHANGED <<s2, s5>>
                 PROVE  list!ListInv'
  <1>1. s4.todo # <<>> /\ list!Entry \in list!SaneState
          /\ list!Entry.name \in GoneBy \union {list!None} /\ s1 \in Seq(list!RowState)
    BY EntryIs DEF list!ListInv, list!ListTypes
  <1>2. CASE list!Clash(list!Entry) = 0
    BY <1>1, <1>2, ConflictIs, ListAdds DEF list!Answered, list!Clash
  <1>3. CASE list!Clash(list!Entry) # 0 /\ s4' = list!NextEntry(s4) /\ UNCHANGED <<s1, s3>>
    BY <1>1, <1>3, ListMoves, ListLooks DEF list!ListInv, list!ListTypes, list!OwnIsTracked
  <1>4. CASE list!Clash(list!Entry) # 0 /\ action = "overwrite"
    <2> DEFINE at == list!Clash(list!Entry)
               others == list!At(s1, LAMBDA r : r.url = list!Entry.url) \ {at}
    <2>1. others = {i \in DOMAIN s1 : s1[i].url = list!Entry.url} \ {at}
      BY DEF list!At
    <2>2. CASE s4' = list!Closed /\ UNCHANGED <<s1, s3>>
      BY <2>2, ClosedIs, ListLooks DEF list!ListInv, list!ListTypes, list!OwnIsTracked
    <2>3. CASE /\ others = {}
               /\ s1' = [s1 EXCEPT ![at] = list!Overwritten(@, list!Entry)]
               /\ s3' = (s3 /\ s1' = s1)
               /\ s4' = list!NextEntry(s4)
      <3>1. \A j \in DOMAIN s1 : s1[j].url = list!Entry.url => j = at
        BY <2>1, <2>3
      <3> QED
        BY <1>1, <1>4, <2>3, <3>1, Overwrites DEF list!Clash
    <2> QED
      BY <1>4, <2>2, <2>3 DEF list!Answered
  <1>5. CASE list!Clash(list!Entry) # 0 /\ action = "new"
    <2>1. PICK name \in GoneBy : IF list!SameLink(s1, list!Entry) # {} \/ list!SameName(s1, name) # {}
                                THEN UNCHANGED <<s1, s3, s4>> ELSE list!ImportAdd(list!Entry, name)
      BY <1>5 DEF list!Answered
    <2>2. CASE UNCHANGED <<s1, s3, s4>>
      BY <2>2, ListLooks DEF list!ListInv, list!ListTypes, list!OwnIsTracked
    <2> QED
      BY <1>1, <2>1, <2>2, ListAdds
  <1> QED
    BY <1>2, <1>3, <1>4, <1>5 DEF list!Answered

LEMMA AutoAdds == ASSUME list!ListInv, list!AutoAdd PROVE list!ListInv'
  <1>1. PICK c \in Shared, id \in Shared \union {list!None}, name \in GoneBy :
                LET e == [url |-> list!Link(c, "videos"), id |-> id, name |-> name] IN
                /\ id \in {c, list!None} /\ list!SameLink(s1, e) = {}
                /\ s1' = Append(s1, [url |-> e.url, id |-> id, name |-> name, landed |-> FALSE])
    BY DEF list!AutoAdd
  <1> DEFINE e == [url |-> list!Link(c, "videos"), id |-> id, name |-> name]
             r == [url |-> list!Link(c, "videos"), id |-> id, name |-> name, landed |-> FALSE]
  <1>2. /\ e \in list!SaneState /\ r \in list!RowState /\ r.url = e.url /\ r.id = e.id /\ ~r.landed
        /\ list!SameLink(s1, e) = {} /\ s1' = Append(s1, r)
    BY <1>1 DEF list!SaneState, list!RowState, list!LinkState, list!Link
  <1> HIDE DEF e, r
  <1>3. list!Key(r) = list!Key(e)
    BY <1>2, KeyOfBoth
  <1>4. \A i \in DOMAIN s1 : s1[i].url # r.url /\ list!Key(s1[i]) # list!Key(r)
    BY <1>2, <1>3, LinkIs DEF list!ListInv, list!ListTypes
  <1> QED
    BY <1>2, <1>4, Appends DEF list!AutoAdd, list!ListInv, list!ListTypes

LEMMA Untracks == ASSUME list!ListInv, list!Untrack PROVE list!ListInv'
  <1>1. PICK k \in DOMAIN s1 : s1' = list!Without(s1, k)
    BY DEF list!Untrack
  <1>2. s1 \in Seq(list!RowState) /\ k \in 1 .. Len(s1) /\ Len(s1) \in Nat /\ DOMAIN s1 = 1 .. Len(s1)
    BY <1>1 DEF list!ListInv, list!ListTypes
  <1> DEFINE n == Len(s1) - 1
             At2(i) == IF i < k THEN i ELSE i + 1
  <1>3. n \in Nat /\ \A i \in 1 .. n : At2(i) \in DOMAIN s1
    BY <1>2
  <1>4. s1' = [i \in 1 .. n |-> s1[At2(i)]]
    BY <1>1 DEF list!Without
  <1>5. \A i, j \in 1 .. n : i < j => At2(i) < At2(j)
    BY <1>2
  <1> HIDE DEF n, At2
  <1>6. \A i \in 1 .. n : s1[At2(i)] \in list!RowState
    BY <1>2, <1>3
  <1>7. s1' \in Seq(list!RowState) /\ DOMAIN s1' = 1 .. n
    BY <1>3, <1>4, <1>6
  <1>8. \A i, j \in DOMAIN s1' : i < j =>
          /\ At2(i) \in DOMAIN s1 /\ At2(j) \in DOMAIN s1 /\ At2(i) < At2(j)
          /\ s1'[i] = s1[At2(i)] /\ s1'[j] = s1[At2(j)]
    BY <1>3, <1>4, <1>5, <1>7
  <1>9. list!KeptApart' /\ list!NamesApart'
    BY <1>8 DEF list!ListInv, list!KeptApart, list!NamesApart
  <1> QED
    BY <1>7, <1>9 DEF list!Untrack, list!ListInv, list!ListTypes, list!OwnIsTracked

LEMMA ListStep == ASSUME list!ListInv, list!Next \/ UNCHANGED list!vars PROVE list!ListInv'
  <1>1. CASE list!Answer
    BY <1>1, Answers DEF list!Answer, list!ListInv, list!ListTypes, list!DialogState
  <1>2. CASE list!ApplyToAll
    <2>1. PICK action \in {"skip", "overwrite"} : s4' = [s4 EXCEPT !.remembered = action]
      BY <1>2 DEF list!ApplyToAll
    <2>2. s4' \in list!DialogState /\ s4'.todo = s4.todo /\ s4'.marks = s4.marks
      BY <2>1 DEF list!ListInv, list!ListTypes, list!DialogState
    <2> QED
      BY <1>2, <2>2, ListLooks DEF list!ApplyToAll, list!ListInv, list!ListTypes, list!OwnIsTracked
  <1>3. CASE list!Stop
    BY <1>3, ClosedIs, ListLooks DEF list!Stop, list!ListInv, list!ListTypes, list!OwnIsTracked
  <1>4. CASE UNCHANGED list!vars
    BY <1>4, ListLooks DEF list!vars, list!ListInv, list!ListTypes, list!OwnIsTracked
  <1> QED
    BY <1>1, <1>2, <1>3, <1>4, Exports, Receives, Reads, Lands, AutoAdds, Untracks DEF list!Next

LEMMA ListHolds == ASSUME list!ListInv PROVE list!ImportIsWhole
  BY DEF list!ListInv, list!OwnIsTracked, list!ImportIsWhole, list!RoundTrip

-----------------------------------------------------------------------------
(* ChannelEdit: a channel's tracks are in the folder that its row names. *)

LEMMA EditInit == editor!Init => editor!EditInv
  BY OwnersAssumption, FaultsAssumption DEF editor!Init, editor!EditInv, editor!EditTypes,
     editor!EditState, editor!CallIsKnown, editor!NoEdit, editor!Filed, editor!At, editor!None

LEMMA CallEnds ==
  ASSUME editor!EditInv, s6' = editor!NoEdit, editor!Rest, \A t \in EditTracks : editor!Filed(t)'
  PROVE  editor!EditInv'
  BY DEF editor!Rest, editor!EditInv, editor!EditTypes, editor!EditState, editor!CallIsKnown,
     editor!NoEdit, editor!At, editor!None

\* A call that goes on is the same call.
LEMMA CallGoesOn ==
  ASSUME editor!EditInv,
      NEW pc \in {"record", "verdict", "drag", "file", "mirror", "link", "persist"}, ~editor!At(editor!None), editor!Rest,
         editor!Goto(pc) \/ \E g \in EditGenres : s6' = [s6 EXCEPT !.pc = pc, !.as = g],
         NEW c, NEW from, NEW to, c = editor!c0, from = s6.from, to = s6.to,
         pc \in {"link", "persist"} => s6.url \in EditUrls,
         editor!PhaseIs(pc, c, from, to)', \A t \in EditTracks : EditOwner[t] # c => editor!Filed(t)'
  PROVE  editor!EditInv'
  <1>1. s6'.url = s6.url /\ s6' \in editor!EditState /\ s6'.pc = pc /\ s6'.channel = c
          /\ s6'.from = from /\ s6'.to = to
    BY DEF editor!EditInv, editor!EditTypes, editor!EditState, editor!Goto, editor!c0
  <1>2. editor!EditTypes'
    BY <1>1 DEF editor!EditInv, editor!EditTypes, editor!Rest, editor!At, editor!c0
  <1>3. ~editor!At(editor!None)' /\ editor!c0' = c
    BY <1>1 DEF editor!At, editor!None, editor!c0
  <1> QED
    BY <1>1, <1>2, <1>3 DEF editor!EditInv, editor!CallIsKnown

\* A call under way: its folders are its channel's, under a genre.
LEMMA Under ==
  ASSUME editor!EditInv, ~editor!At(editor!None)
  PROVE  /\ editor!c0 \in EditChannels /\ s6.from \in EditGenres /\ s6.to \in EditGenres
         /\ editor!PhaseIs(s6.pc, editor!c0, s6.from, s6.to)
         /\ \A t \in EditTracks : EditOwner[t] \in EditChannels /\ (EditOwner[t] # editor!c0 => editor!Filed(t))
         /\ s1 \in [EditChannels -> [genre : EditGenres, url : EditUrls]]
            /\ s3 \in [EditTracks -> EditGenres \X EditChannels]
         /\ s7 \in 0 .. EditFaults
  BY OwnersAssumption DEF editor!EditInv, editor!EditTypes, editor!CallIsKnown

LEMMA OneFault == ASSUME editor!EditInv, editor!Fault
  PROVE s7' \in 0 .. EditFaults /\ s7' = s7 + 1 /\ s7 >= 0 /\ s7' <= 2
  BY FaultsAssumption DEF editor!EditInv, editor!EditTypes, editor!Fault

LEMMA RowFollows ==
  ASSUME editor!EditInv, ~editor!At(editor!None), s1' = [s1 EXCEPT ![editor!c0].genre = s6.to]
  PROVE  /\ s1' \in [EditChannels -> [genre : EditGenres, url : EditUrls]]
         /\ \A c \in EditChannels : s1'[c].genre = IF c = editor!c0 THEN s6.to ELSE s1[c].genre
  BY DEF editor!EditInv, editor!EditTypes

LEMMA LinkIsSet ==
  ASSUME editor!EditInv, ~editor!At(editor!None), s6.url \in EditUrls, s1' = [s1 EXCEPT ![editor!c0].url = s6.url]
  PROVE  /\ s1' \in [EditChannels -> [genre : EditGenres, url : EditUrls]]
         /\ \A c \in EditChannels : s1'[c].genre = s1[c].genre
  BY DEF editor!EditInv, editor!EditTypes

LEMMA EditorFolderMoves ==
  ASSUME editor!EditInv, NEW f, NEW g \in EditGenres \X EditChannels, editor!MoveFolder(f, g)
  PROVE  /\ s3' \in [EditTracks -> EditGenres \X EditChannels]
         /\ \A t \in EditTracks : s3'[t] = IF s3[t] = f THEN g ELSE s3[t]
  BY DEF editor!EditInv, editor!EditTypes, editor!MoveFolder

\* After the genre the call ends, or goes on to its link.
LEMMA LinkIsNext ==
  ASSUME editor!EditInv, ~editor!At(editor!None), editor!ToLink(s1[editor!c0].genre), s1' = s1, s3' = s3, s7' \in 0 .. EditFaults,
         \A t \in EditTracks : editor!Filed(t)
  PROVE  editor!EditInv'
  <1>1. editor!Rest /\ \A t \in EditTracks : editor!Filed(t)'
    BY Under DEF editor!Rest, editor!Filed
  <1>2. CASE s6' = editor!NoEdit
    BY <1>1, <1>2, CallEnds
  <1>3. CASE s6' # editor!NoEdit
    <2>1. s6.url \in EditUrls /\ \E g \in EditGenres : s6' = [s6 EXCEPT !.pc = "link", !.as = g]
      BY <1>3, Under DEF editor!ToLink, editor!EditInv, editor!EditTypes, editor!EditState
    <2>2. \A c, from, to : editor!PhaseIs("link", c, from, to)'
      BY <1>1 DEF editor!PhaseIs
    <2> QED
      BY <1>1, <2>1, <2>2, CallGoesOn
  <1> QED
    BY <1>2, <1>3

LEMMA EditBegins == ASSUME editor!EditInv, NEW c \in EditChannels, NEW g \in EditGenres,
    NEW u \in EditUrls \union {editor!None}, editor!Edit(c, g, u)
  PROVE editor!EditInv'
  <1>0. PICK from, pc : from = s1[c].genre /\ pc = IF g = from THEN "same" ELSE "look"
    OBVIOUS
  <1>1. from \in EditGenres /\ s1' = s1 /\ s3' = s3 /\ s7' = 0 /\ \A t \in EditTracks : editor!Filed(t)
    BY <1>0 DEF editor!Edit, editor!EditInv, editor!EditTypes, editor!CallIsKnown, editor!At
  <1>2. s6' = [pc |-> pc, channel |-> c, from |-> from, to |-> g, url |-> u, as |-> editor!None]
    BY <1>0 DEF editor!Edit
  <1>3. editor!PhaseIs(pc, c, from, g)' /\ \A t \in EditTracks : editor!Filed(t)'
    BY <1>0, <1>1 DEF editor!PhaseIs, editor!Filed
  <1>4. pc \in {"same", "look"}
    BY <1>0
  <1>5. s6' \in editor!EditState /\ s6'.pc = pc /\ s6'.pc \in {"same", "look"}
          /\ s6'.pc # editor!None /\ editor!c0' = c /\ s6'.from = from /\ s6'.to = g
    BY <1>1, <1>2, <1>4 DEF editor!EditState, editor!c0, editor!None
  <1>6. editor!EditTypes'
    BY <1>1, <1>5, FaultsAssumption DEF editor!EditInv, editor!EditTypes, editor!At
  <1> QED
    BY <1>3, <1>5, <1>6 DEF editor!EditInv, editor!CallIsKnown

LEMMA Refusals == ASSUME editor!EditInv, editor!Refuse \/ (editor!Move /\ s6' = editor!NoEdit)
  PROVE editor!EditInv'
  <1>1. ~editor!At(editor!None) /\ s6.pc = "look" /\ s6' = editor!NoEdit /\ s1' = s1
          /\ (s3' = s3 \/ editor!Goto("record"))
    BY DEF editor!Refuse, editor!Move, editor!At, editor!None
  <1>2. ~editor!Goto("record")
    BY <1>1 DEF editor!Goto, editor!NoEdit, editor!EditInv, editor!EditTypes, editor!EditState,
       editor!None
  <1>3. s7' \in 0 .. EditFaults
    BY <1>1, <1>2, Under, OneFault DEF editor!Refuse, editor!Move
  <1>4. \A t \in EditTracks : editor!Filed(t)
    BY <1>1, Under DEF editor!PhaseIs
  <1>5. editor!Rest /\ \A t \in EditTracks : editor!Filed(t)'
    BY <1>1, <1>2, <1>3, <1>4, Under DEF editor!Rest, editor!Filed
  <1> QED
    BY <1>1, <1>5, CallEnds

LEMMA EditorMoves == ASSUME editor!EditInv, editor!Move PROVE editor!EditInv'
  <1>1. CASE s6' = editor!NoEdit
    BY <1>1, Refusals
  <1>2. CASE s6' # editor!NoEdit
    <2>1. ~editor!At(editor!None) /\ s6.pc = "look" /\ editor!MoveFolder(editor!Src, editor!Dst)
            /\ editor!Goto("record") /\ s1' = s1 /\ s7' = s7
      BY <1>2 DEF editor!Move, editor!At, editor!None
    <2>2. editor!Dst \in EditGenres \X EditChannels
      BY <2>1, Under DEF editor!Dst
    <2>3. /\ s3' \in [EditTracks -> EditGenres \X EditChannels]
          /\ \A t \in EditTracks : s3'[t] = IF s3[t] = editor!Src THEN editor!Dst ELSE s3[t]
      BY <2>1, <2>2, EditorFolderMoves
    <2>4. \A t \in EditTracks : s3[t] = <<s1[EditOwner[t]].genre, EditOwner[t]>>
      BY <2>1, Under DEF editor!PhaseIs, editor!Filed
    <2>5. editor!Rest
      BY <2>1, <2>3, Under DEF editor!Rest
    <2>6. s1[editor!c0].genre = s6.from /\ s6.from # s6.to
      BY <2>1, Under DEF editor!PhaseIs
    <2>7. \A t \in EditTracks : EditOwner[t] # editor!c0 => s3'[t] = <<s1'[EditOwner[t]].genre, EditOwner[t]>>
      BY <2>1, <2>3, <2>4 DEF editor!Src
    <2>8. \A t \in EditTracks : EditOwner[t] = editor!c0 => s3'[t] = editor!Dst
      BY <2>3, <2>4, <2>6 DEF editor!Src
    <2>9. PICK d, f, o : d = editor!c0 /\ f = s6.from /\ o = s6.to
      OBVIOUS
    <2>10. editor!PhaseIs("record", d, f, o)'
      BY <2>1, <2>6, <2>8, <2>9 DEF editor!PhaseIs, editor!Dst
    <2>11. \A t \in EditTracks : EditOwner[t] # d => editor!Filed(t)'
      BY <2>7, <2>9 DEF editor!Filed
    <2> QED
      BY <2>1, <2>5, <2>9, <2>10, <2>11, CallGoesOn
  <1> QED
    BY <1>1, <1>2

\* The same step without the folder: what is left to show is where the row is.
LEMMA RowStepIs ==
  ASSUME editor!EditInv, ~editor!At(editor!None),
      NEW pc \in {"verdict", "mirror"}, editor!Goto(pc), s3' = s3, s7' \in 0 .. EditFaults,
         s1' \in [EditChannels -> [genre : EditGenres, url : EditUrls]],
         \A c \in EditChannels : c # editor!c0 => s1'[c].genre = s1[c].genre,
         NEW c, NEW from, NEW to, c = editor!c0, from = s6.from, to = s6.to, editor!PhaseIs(pc, c, from, to)'
  PROVE  editor!EditInv'
  <1>1. editor!Rest
    BY Under DEF editor!Rest
  <1>2. \A t \in EditTracks : EditOwner[t] # c => editor!Filed(t)'
    BY Under DEF editor!Filed
  <1> QED
    BY <1>1, <1>2, CallGoesOn

LEMMA MovesRecords == ASSUME editor!EditInv, editor!MoveRecords PROVE editor!EditInv'
  <1>0. PICK c, from, to : c = editor!c0 /\ from = s6.from /\ to = s6.to
    OBVIOUS
  <1>1. ~editor!At(editor!None) /\ s6.pc = "record" /\ s3' = s3 /\ editor!Goto("verdict")
    BY DEF editor!MoveRecords, editor!At, editor!None
  <1>2. /\ \A t \in EditTracks : EditOwner[t] = c => s3[t] = <<to, c>>
        /\ s1[c].genre = from /\ from # to /\ c \in EditChannels
    BY <1>0, <1>1, Under DEF editor!PhaseIs
  <1>3. CASE s1' = [s1 EXCEPT ![editor!c0].genre = s6.to] /\ s7' = s7
    <2>1. editor!PhaseIs("verdict", c, from, to)'
      BY <1>0, <1>1, <1>2, <1>3, RowFollows DEF editor!PhaseIs
    <2> QED
      BY <1>0, <1>1, <1>3, <2>1, RowFollows, RowStepIs, Under
  <1>4. CASE s1' = s1 /\ editor!Fault
    <2>1. s7' \in 0 .. EditFaults /\ s7' >= 1
      BY <1>4, OneFault DEF editor!EditInv, editor!EditTypes
    <2>2. editor!PhaseIs("verdict", c, from, to)'
      BY <1>1, <1>2, <1>4, <2>1 DEF editor!PhaseIs
    <2> QED
      BY <1>0, <1>1, <1>4, <2>1, <2>2, RowStepIs, Under
  <1> QED
    BY <1>3, <1>4 DEF editor!MoveRecords

LEMMA Commits == ASSUME editor!EditInv, editor!Committed PROVE editor!EditInv'
  <1>0. PICK c, from, to : c = editor!c0 /\ from = s6.from /\ to = s6.to
    OBVIOUS
  <1>1. ~editor!At(editor!None) /\ s6.pc = "verdict" /\ s3' = s3 /\ s1' = s1 /\ s7' = s7
          /\ editor!Goto("mirror")
    BY DEF editor!Committed, editor!At, editor!None
  <1>2. s1[c].genre = to /\ \A t \in EditTracks : EditOwner[t] = c => s3[t] = <<to, c>>
    BY <1>0, <1>1, Under DEF editor!PhaseIs, editor!Committed, editor!GenreCommitted
  <1>3. editor!PhaseIs("mirror", c, from, to)'
    BY <1>1, <1>2 DEF editor!PhaseIs, editor!Filed
  <1> QED
    BY <1>0, <1>1, <1>3, RowStepIs, Under

LEMMA RollsBack == ASSUME editor!EditInv, editor!RollBack PROVE editor!EditInv'
  <1>0. PICK c, from, to : c = editor!c0 /\ from = s6.from /\ to = s6.to
    OBVIOUS
  <1>1. ~editor!At(editor!None) /\ s6.pc = "verdict" /\ s1' = s1 /\ s1[c].genre # to
    BY <1>0 DEF editor!RollBack, editor!GenreCommitted, editor!At, editor!None
  <1>2. /\ \A t \in EditTracks : EditOwner[t] = c => s3[t] = <<to, c>>
        /\ s1[c].genre = from /\ from # to /\ s7 >= 1 /\ c \in EditChannels
    BY <1>0, <1>1, Under DEF editor!PhaseIs
  <1>3. CASE editor!MoveFolder(editor!Dst, editor!Src) /\ s6' = editor!NoEdit /\ s7' = s7
    <2>1. editor!Src \in EditGenres \X EditChannels
      BY <1>1, Under DEF editor!Src
    <2>2. /\ s3' \in [EditTracks -> EditGenres \X EditChannels]
          /\ \A t \in EditTracks : s3'[t] = IF s3[t] = <<to, c>> THEN <<from, c>> ELSE s3[t]
      BY <1>0, <1>3, <2>1, EditorFolderMoves DEF editor!Src, editor!Dst
    <2>3. ASSUME NEW t \in EditTracks PROVE s3'[t] = <<s1'[EditOwner[t]].genre, EditOwner[t]>>
      <3>1. CASE EditOwner[t] = c
        BY <1>1, <1>2, <2>2, <3>1
      <3>2. CASE EditOwner[t] # c
        <4>1. s3[t] = <<s1[EditOwner[t]].genre, EditOwner[t]>>
          BY <1>0, <1>1, <3>2, Under DEF editor!Filed
        <4> QED
          BY <1>1, <2>2, <3>2, <4>1
      <3> QED
        BY <3>1, <3>2
    <2>4. editor!Rest
      BY <1>1, <1>3, <2>2, Under DEF editor!Rest
    <2> QED
      BY <1>3, <2>3, <2>4, CallEnds DEF editor!Filed
  <1>4. CASE editor!Fault /\ editor!Goto("drag") /\ s3' = s3
    <2>1. s7' \in 0 .. EditFaults /\ s7' >= 2
      <3>1. s7' = s7 + 1 /\ s7' \in 0 .. EditFaults /\ s7 \in Int
        BY <1>4, OneFault DEF editor!EditInv, editor!EditTypes
      <3> QED
        BY <3>1, <1>2
    <2>2. editor!PhaseIs("drag", c, from, to)'
      BY <1>1, <1>2, <1>4, <2>1 DEF editor!PhaseIs
    <2>3. editor!Rest /\ \A t \in EditTracks : EditOwner[t] # c => editor!Filed(t)'
      BY <1>0, <1>1, <1>4, <2>1, Under DEF editor!Rest, editor!Filed
    <2> QED
      BY <1>0, <1>1, <1>4, <2>2, <2>3, CallGoesOn
  <1> QED
    BY <1>3, <1>4 DEF editor!RollBack

\* Two writes of the call have failed: the third does not.
LEMMA Drags == ASSUME editor!EditInv, editor!DragRow PROVE editor!EditInv'
  <1>1. ~editor!At(editor!None) /\ s6.pc = "drag" /\ s3' = s3 /\ s6' = editor!NoEdit
    BY DEF editor!DragRow, editor!At, editor!None
  <1>2. s7 >= 2 /\ \A t \in EditTracks : EditOwner[t] = editor!c0 => s3[t] = editor!Dst
    BY <1>1, Under DEF editor!PhaseIs, editor!Dst
  <1>3. ~editor!Fault
    BY <1>2, OneFault DEF editor!EditInv, editor!EditTypes
  <1>4. s1' = [s1 EXCEPT ![editor!c0].genre = s6.to] /\ s7' = s7
    BY <1>3 DEF editor!DragRow
  <1>5. \A c \in EditChannels : s1'[c].genre = IF c = editor!c0 THEN s6.to ELSE s1[c].genre
    BY <1>1, <1>4, RowFollows
  <1>6. \A t \in EditTracks : s3'[t] = <<s1'[EditOwner[t]].genre, EditOwner[t]>>
    BY <1>1, <1>2, <1>5, Under DEF editor!Dst, editor!Filed
  <1>7. editor!Rest
    BY <1>1, <1>4, RowFollows, Under DEF editor!Rest
  <1> QED
    BY <1>1, <1>6, <1>7, CallEnds DEF editor!Filed

LEMMA MovesPlaceholder == ASSUME editor!EditInv, editor!MovePlaceholder PROVE editor!EditInv'
  <1>0. PICK c, from, to : c = editor!c0 /\ from = s6.from /\ to = s6.to
    OBVIOUS
  <1>1. ~editor!At(editor!None) /\ s6.pc = "look" /\ s1' = s1 /\ editor!Goto("file")
          /\ editor!Audio(editor!Src) = {}
    BY DEF editor!MovePlaceholder, editor!At, editor!None
  <1>2. s1[c].genre = from /\ \A t \in EditTracks : s3[t] = <<s1[EditOwner[t]].genre, EditOwner[t]>>
    BY <1>0, <1>1, Under DEF editor!PhaseIs, editor!Filed
  <1>3. \A t \in EditTracks : s3[t] # editor!Src
    BY <1>1 DEF editor!Audio
  <1>4. \A t \in EditTracks : EditOwner[t] # c
    BY <1>0, <1>2, <1>3 DEF editor!Src
  <1>5. s3' \in [EditTracks -> EditGenres \X EditChannels] /\ \A t \in EditTracks : s3'[t] = s3[t]
    <2>1. CASE editor!MoveFolder(editor!Src, editor!Dst)
      <3>1. editor!Dst \in EditGenres \X EditChannels
        BY <1>1, Under DEF editor!Dst
      <3> QED
        BY <1>3, <2>1, <3>1, EditorFolderMoves
    <2>2. CASE s3' = s3
      BY <2>2, <1>1, Under
    <2> QED
      BY <2>1, <2>2 DEF editor!MovePlaceholder
  <1>6. s7' \in 0 .. EditFaults
    BY <1>1, OneFault, Under DEF editor!MovePlaceholder
  <1>7. editor!PhaseIs("file", c, from, to)'
    BY <1>4 DEF editor!PhaseIs
  <1>8. editor!Rest /\ \A t \in EditTracks : EditOwner[t] # c => editor!Filed(t)'
    BY <1>1, <1>2, <1>5, <1>6, Under DEF editor!Rest, editor!Filed
  <1> QED
    BY <1>0, <1>1, <1>7, <1>8, CallGoesOn

LEMMA FilesRow == ASSUME editor!EditInv, editor!FileRow PROVE editor!EditInv'
  <1>0. PICK c, from, to : c = editor!c0 /\ from = s6.from /\ to = s6.to
    OBVIOUS
  <1>1. ~editor!At(editor!None) /\ s6.pc = "file" /\ s3' = s3 /\ editor!Goto("mirror")
    BY DEF editor!FileRow, editor!At, editor!None
  <1>2. \A t \in EditTracks : EditOwner[t] # c
    BY <1>0, <1>1, Under DEF editor!PhaseIs
  <1>3. editor!PhaseIs("mirror", c, from, to)'
    BY <1>2 DEF editor!PhaseIs
  <1>4. s1' \in [EditChannels -> [genre : EditGenres, url : EditUrls]]
          /\ \A d \in EditChannels : d # editor!c0 => s1'[d].genre = s1[d].genre
    BY <1>1, Under, RowFollows DEF editor!FileRow
  <1>5. s7' \in 0 .. EditFaults
    BY <1>1, OneFault, Under DEF editor!FileRow
  <1> QED
    BY <1>0, <1>1, <1>3, <1>4, <1>5, RowStepIs

LEMMA ToItsLink == ASSUME editor!EditInv, editor!SameGenre \/ editor!Mirror PROVE editor!EditInv'
  <1>1. ~editor!At(editor!None) /\ s6.pc \in {"same", "mirror"} /\ s1' = s1 /\ s3' = s3
          /\ editor!ToLink(s1[editor!c0].genre)
    BY DEF editor!SameGenre, editor!Mirror, editor!At, editor!None
  <1>2. \A t \in EditTracks : editor!Filed(t)
    BY <1>1, Under DEF editor!PhaseIs
  <1>3. s7' \in 0 .. EditFaults
    BY <1>1, OneFault, Under DEF editor!SameGenre, editor!Mirror
  <1> QED
    BY <1>1, <1>2, <1>3, LinkIsNext

LEMMA StoresLink == ASSUME editor!EditInv, editor!StoreUrl \/ editor!Persist \/ editor!PersistFails
  PROVE editor!EditInv'
  <1>1. ~editor!At(editor!None) /\ s6.pc \in {"link", "persist"} /\ s3' = s3 /\ s6.url \in EditUrls
    BY DEF editor!StoreUrl, editor!Persist, editor!PersistFails, editor!At, editor!None,
       editor!EditInv, editor!EditTypes
  <1>2. \A t \in EditTracks : editor!Filed(t)
    BY <1>1, Under DEF editor!PhaseIs
  <1>3. s7' \in 0 .. EditFaults
    BY <1>1, OneFault, Under DEF editor!StoreUrl, editor!Persist, editor!PersistFails
  <1>4. s1' = s1 \/ s1' = [s1 EXCEPT ![editor!c0].url = s6.url]
    BY DEF editor!StoreUrl, editor!Persist, editor!PersistFails
  <1>5. s1' \in [EditChannels -> [genre : EditGenres, url : EditUrls]]
          /\ \A c \in EditChannels : s1'[c].genre = s1[c].genre
    BY <1>1, <1>4, Under, LinkIsSet
  <1>6. editor!Rest /\ \A t \in EditTracks : editor!Filed(t)'
    BY <1>1, <1>2, <1>3, <1>5, Under DEF editor!Rest, editor!Filed
  <1>7. CASE s6' = editor!NoEdit
    BY <1>6, <1>7, CallEnds
  <1>8. CASE s6' # editor!NoEdit
    <2>1. editor!Goto("persist")
      BY <1>8 DEF editor!StoreUrl, editor!Persist, editor!PersistFails
    <2>2. \A c, from, to : editor!PhaseIs("persist", c, from, to)'
      BY <1>6 DEF editor!PhaseIs
    <2> QED
      BY <1>1, <1>6, <2>1, <2>2, CallGoesOn
  <1> QED
    BY <1>7, <1>8

LEMMA EditStep == editor!EditInv /\ (editor!Next \/ UNCHANGED editor!vars) => editor!EditInv'
  <1>1. ASSUME editor!EditInv, UNCHANGED editor!vars PROVE editor!EditInv'
    BY <1>1 DEF editor!EditInv, editor!EditTypes, editor!CallIsKnown, editor!PhaseIs,
       editor!Filed, editor!At, editor!c0, editor!vars
  <1> QED
    BY <1>1, EditBegins, Refusals, EditorMoves, MovesRecords, Commits, RollsBack, Drags,
       MovesPlaceholder, FilesRow, ToItsLink,
       StoresLink DEF editor!Next

LEMMA EditHolds == editor!EditInv => editor!FiledTogether
  BY DEF editor!EditInv, editor!CallIsKnown, editor!Filed, editor!FiledTogether

-----------------------------------------------------------------------------
(* Rebuild: what is to be listed, what was found and what the snapshot knows. *)

LEMMA RunRests == rebuild!Idle \in rebuild!RunState /\ rebuild!Idle.pc = "idle" /\ rebuild!Still.pc = "idle"
  BY DEF rebuild!Idle, rebuild!RunState, rebuild!Still

LEMMA RebuildInit == rebuild!Init => rebuild!RebuildInv
  <1> SUFFICES ASSUME rebuild!Init PROVE rebuild!RebuildInv
    OBVIOUS
  <1>1. s5 = rebuild!Idle /\ s7 = rebuild!Still /\ s10 = {} /\ s8 = {} /\ s9 = {}
          /\ s1 \in [Channels -> rebuild!GenreNames]
        /\ s2 \subseteq rebuild!Paths /\ s3 \subseteq rebuild!Paths
    BY DEF rebuild!Init, rebuild!Paths
  <1> QED
    BY <1>1, RunRests DEF rebuild!RebuildInv, rebuild!RebuildTypes, rebuild!Apart,
       rebuild!TablesKnow, rebuild!SnapKnows, rebuild!Listed, rebuild!WalkIsWhole,
       rebuild!AllWalked, rebuild!Knows, rebuild!At

LEMMA Lists ==
  ASSUME rebuild!RebuildInv, rebuild!ListGenre
  PROVE  /\ rebuild!Same /\ UNCHANGED <<s9, s10>> /\ s5.pc = "list" /\ s7 = rebuild!Still
            /\ s5' \in rebuild!RunState
         /\ \/ /\ s5.at > Len(Genres) /\ s5'.pc = "walk" /\ s5'.todo = s5.todo
               /\ s5'.found = s5.found /\ s5'.snap = s5.snap
            \/ /\ s5'.pc = "list" /\ s5'.at = s5.at + 1 /\ s5'.found = s5.found /\ s5'.snap = s5.snap
               /\ \A c \in Channels : s1[c] = Genres[s5.at] => <<c, Genres[s5.at]>> \in s5'.todo
               /\ s5.todo \subseteq s5'.todo
            \/ s5' = rebuild!Idle
  <1>1. rebuild!Same /\ UNCHANGED <<s9, s10>> /\ s5.pc = "list" /\ s7 = rebuild!Still /\ s5 \in rebuild!RunState
    BY DEF rebuild!ListGenre, rebuild!RebuildInv, rebuild!RebuildTypes, rebuild!Apart, rebuild!At,
       rebuild!Same
  <1>2. CASE s5.at > Len(Genres)
    <2>1. s5' = [s5 EXCEPT !.pc = "walk"]
      BY <1>2 DEF rebuild!ListGenre
    <2> QED
      BY <1>1, <1>2, <2>1 DEF rebuild!RunState
  <1>3. CASE ~(s5.at > Len(Genres)) /\ s5' # rebuild!Idle
    <2> DEFINE g == Genres[s5.at]  new == {<<c, g>> : c \in {c \in Channels : s1[c] = g}}
    <2> DEFINE k == s5.at + 1
    <2>1. s5' = [s5 EXCEPT !.at = k, !.todo = @ \union new] /\ k \in Nat
      BY <1>1, <1>3 DEF rebuild!ListGenre, rebuild!Unreadable, rebuild!RunState
    <2>2. new \subseteq Channels \X rebuild!GenreNames
      BY DEF rebuild!RebuildInv, rebuild!RebuildTypes
    <2> HIDE DEF new, k
    <2>3. s5' \in rebuild!RunState /\ s5'.pc = "list" /\ s5'.at = k /\ s5'.found = s5.found
            /\ s5'.snap = s5.snap
          /\ s5'.todo = s5.todo \union new
      BY <1>1, <2>1, <2>2 DEF rebuild!RunState
    <2> QED
      BY <1>1, <2>3 DEF new, k
  <1>4. CASE s5' = rebuild!Idle
    BY <1>1, <1>4, RunRests
  <1> QED
    BY <1>2, <1>3, <1>4

LEMMA Scans ==
  ASSUME rebuild!RebuildInv, rebuild!ScanChannel
  PROVE  /\ rebuild!Same /\ UNCHANGED s9 /\ s5.pc = "walk" /\ s7 = rebuild!Still /\ s5' \in rebuild!RunState
         /\ \/ s5' = rebuild!Idle /\ s10 \subseteq s10'
            \/ /\ s5'.pc = "walk" /\ s5'.snap = s5.snap
               /\ \E f \in s5.todo :
                    /\ s1[f[1]] = f[2] /\ s5'.todo = s5.todo \ {f} /\ s5.found \subseteq s5'.found
                    /\ \A t \in Tracks \ s10' : Owner[t] = f[1] => <<t, f[2]>> \in s5'.found
                    /\ s10 \subseteq s10'
  <1>1. rebuild!Same /\ UNCHANGED s9 /\ s5.pc = "walk" /\ s7 = rebuild!Still /\ s5 \in rebuild!RunState
    BY DEF rebuild!ScanChannel, rebuild!RebuildInv, rebuild!RebuildTypes, rebuild!Apart,
       rebuild!At, rebuild!Same
  <1>2. CASE s5' = rebuild!Idle
    BY <1>1, <1>2, RunRests DEF rebuild!ScanChannel
  <1>3. CASE s5' # rebuild!Idle
    <2>1. PICK f \in s5.todo :
            /\ s1[f[1]] = f[2]
            /\ \E missed \in {{}} \union {{t} : t \in {t \in Tracks : Owner[t] = f[1]}} :
                 /\ s10' = s10 \union missed
                 /\ s5' = [s5 EXCEPT !.todo = @ \ {f},
                              !.found = @ \union {<<t, f[2]>> : t \in {t \in Tracks : Owner[t] = f[1]} \ missed}]
      BY <1>3 DEF rebuild!ScanChannel
    <2>2. PICK missed : /\ s10' = s10 \union missed
                        /\ s5' = [s5 EXCEPT !.todo = @ \ {f},
                              !.found = @ \union {<<t, f[2]>> : t \in {t \in Tracks : Owner[t] = f[1]} \ missed}]
      BY <2>1
    <2> DEFINE new == {<<t, f[2]>> : t \in {t \in Tracks : Owner[t] = f[1]} \ missed}
               left == s5.todo \ {f}
    <2>3. f[2] \in rebuild!GenreNames /\ left \subseteq Channels \X rebuild!GenreNames
      BY <1>1 DEF rebuild!RunState
    <2>4. new \subseteq rebuild!Paths
      BY <2>3 DEF rebuild!Paths
    <2>5. s5' = [s5 EXCEPT !.todo = left, !.found = @ \union new]
      BY <2>2
    <2>6. \A t \in Tracks \ s10' : Owner[t] = f[1] => <<t, f[2]>> \in new
      BY <2>2
    <2>7. left = s5.todo \ {f}
      OBVIOUS
    <2> HIDE DEF new, left
    <2>8. s5' \in rebuild!RunState /\ s5'.pc = "walk" /\ s5'.snap = s5.snap /\ s5'.todo = left
            /\ s5'.found = s5.found \union new
      BY <1>1, <2>3, <2>4, <2>5 DEF rebuild!RunState
    <2> QED
      BY <1>1, <2>1, <2>2, <2>6, <2>7, <2>8
  <1> QED
    BY <1>2, <1>3

LEMMA Snaps ==
  ASSUME rebuild!RebuildInv, rebuild!Snapshot
  PROVE  /\ rebuild!Same /\ UNCHANGED s10 /\ s5.pc = "snap" /\ s7 = rebuild!Still
            /\ s5' \in rebuild!RunState /\ s5'.pc = "list"
         /\ s5'.at = s5.at /\ (s9' = {} \/ (s9' = s9 /\ s5'.snap = s3))
  BY DEF rebuild!Snapshot, rebuild!RebuildInv, rebuild!RebuildTypes, rebuild!RunState,
     rebuild!Apart, rebuild!At, rebuild!Same

\* A folder that moves: the tracks of the others stay where they are.
LEMMA RebuildFolderMoves ==
  ASSUME rebuild!RebuildInv, rebuild!EditMoves
  PROVE  /\ s5' = s5 /\ s5.pc = "idle" /\ UNCHANGED <<s2, s3, s8, s9, s10>>
         /\ s7' \in [pc : {"checked", "moved"}, c : Channels, to : rebuild!GenreNames] /\ s7'.pc = "moved"
         /\ s7'.c = s7.c /\ s7.pc # "moved" /\ s1' \in [Channels -> rebuild!GenreNames]
         /\ s1'[s7.c] = s7'.to /\ \A c \in Channels : c # s7.c => s1'[c] = s1[c]
  <1>1. s7.pc = "checked" /\ s7 # rebuild!Still
    BY RunRests DEF rebuild!EditMoves
  <1>2. s7 \in [pc : {"checked", "moved"}, c : Channels, to : rebuild!GenreNames] /\ s5.pc = "idle"
    BY <1>1 DEF rebuild!RebuildInv, rebuild!RebuildTypes, rebuild!Apart, rebuild!At
  <1>3. /\ s7' = [s7 EXCEPT !.pc = "moved"] /\ s1' = [s1 EXCEPT ![s7.c] = s7.to]
        /\ UNCHANGED <<s5, s2, s3, s8, s9, s10>> /\ s1 \in [Channels -> rebuild!GenreNames]
    BY DEF rebuild!EditMoves, rebuild!RebuildInv, rebuild!RebuildTypes
  <1>4. /\ s7' \in [pc : {"checked", "moved"}, c : Channels, to : rebuild!GenreNames] /\ s7'.pc = "moved"
        /\ s7'.c = s7.c /\ s7'.to = s7.to
    BY <1>2, <1>3
  <1> QED
    BY <1>1, <1>2, <1>3, <1>4

LEMMA RowsFollow ==
  ASSUME rebuild!RebuildInv, rebuild!EditRows
  PROVE  /\ UNCHANGED <<s1, s5, s8, s9, s10>> /\ s7' = rebuild!Still /\ s5.pc = "idle" /\ s7.pc = "moved"
         /\ s2' \subseteq rebuild!Paths /\ s3' \subseteq rebuild!Paths
         /\ \A t \in Tracks : rebuild!Knows(s2, t) => rebuild!Path(t) \in s2'
         /\ \A t \in Tracks : rebuild!Knows(s3, t) => rebuild!Path(t) \in s3'
  <1> DEFINE Repointed(S) == {IF Owner[r[1]] = s7.c THEN <<r[1], s7.to>> ELSE r : r \in S}
  <1>1. /\ UNCHANGED <<s1, s5, s8, s9, s10>> /\ s7' = rebuild!Still /\ s5.pc = "idle" /\ s7.pc = "moved"
        /\ s7.to \in rebuild!GenreNames /\ s1[s7.c] = s7.to
        /\ s2' = Repointed(s2) /\ s3' = Repointed(s3) /\ s2 \subseteq rebuild!Paths
           /\ s3 \subseteq rebuild!Paths
    <2>1. s7.pc = "moved" /\ s7 # rebuild!Still
      BY RunRests DEF rebuild!EditRows
    <2>2. s7.to \in rebuild!GenreNames /\ s5.pc = "idle" /\ s1[s7.c] = s7.to
      BY <2>1 DEF rebuild!RebuildInv, rebuild!RebuildTypes, rebuild!Apart, rebuild!At
    <2> QED
      BY <2>1, <2>2 DEF rebuild!EditRows, rebuild!RebuildInv, rebuild!RebuildTypes
  <1>2. ASSUME NEW S, S \subseteq rebuild!Paths
        PROVE  Repointed(S) \subseteq rebuild!Paths /\ \A t \in Tracks : rebuild!Knows(S, t) =>
            rebuild!Path(t) \in Repointed(S)
    <2>1. Repointed(S) \subseteq rebuild!Paths
      BY <1>1, <1>2 DEF rebuild!Paths
    <2>2. ASSUME NEW t \in Tracks, rebuild!Knows(S, t), Owner[t] = s7.c PROVE rebuild!Path(t) \in Repointed(S)
      <3>1. PICK g \in rebuild!GenreNames : <<t, g>> \in S
        BY <1>1, <2>2 DEF rebuild!Knows
      <3>2. <<t, s7.to>> \in Repointed(S)
        BY <2>2, <3>1
      <3> QED
        BY <1>1, <2>2, <3>2 DEF rebuild!Path
    <2>3. ASSUME NEW t \in Tracks, rebuild!Knows(S, t), Owner[t] # s7.c PROVE rebuild!Path(t) \in Repointed(S)
      BY <1>1, <2>3 DEF rebuild!Path, rebuild!Knows
    <2> QED
      BY <2>1, <2>2, <2>3
  <1> QED
    BY <1>1, <1>2

LEMMA RebuildTypesStep == ASSUME rebuild!RebuildInv, rebuild!Next \/ UNCHANGED rebuild!vars
  PROVE rebuild!RebuildTypes'
  <1>1. CASE rebuild!Begin
    BY <1>1, NoOverlap, OwnerAssumption DEF rebuild!Begin, rebuild!Idle, rebuild!RebuildInv,
       rebuild!Apart, rebuild!RebuildTypes, rebuild!RunState, rebuild!Paths, rebuild!Still,
       rebuild!GenreNames, rebuild!Path, rebuild!At
  <1>2. CASE rebuild!Snapshot
    BY <1>2, NoOverlap, OwnerAssumption DEF rebuild!Snapshot, rebuild!RebuildInv, rebuild!Apart,
       rebuild!RebuildTypes, rebuild!RunState, rebuild!Paths, rebuild!Still, rebuild!GenreNames,
       rebuild!Path, rebuild!At
  <1>3. CASE rebuild!ListGenre
    BY <1>3, Lists, RunRests, GenresAssumption, OwnerAssumption DEF rebuild!Same,
       rebuild!RebuildInv, rebuild!RebuildTypes, rebuild!At
  <1>4. CASE rebuild!ScanChannel
    BY <1>4, Scans, RunRests, OwnerAssumption DEF rebuild!Same, rebuild!RebuildInv,
       rebuild!RebuildTypes, rebuild!At
  <1>5. CASE rebuild!Judge
    BY <1>5, NoOverlap, OwnerAssumption DEF rebuild!Judge, rebuild!Idle, rebuild!RebuildInv,
       rebuild!Apart, rebuild!RebuildTypes, rebuild!RunState, rebuild!Paths, rebuild!Still,
       rebuild!GenreNames, rebuild!Path, rebuild!At
  <1>6. CASE rebuild!Clear
    BY <1>6, NoOverlap, OwnerAssumption DEF rebuild!Clear, rebuild!RebuildInv, rebuild!Apart,
       rebuild!RebuildTypes, rebuild!RunState, rebuild!Paths, rebuild!Still, rebuild!GenreNames,
       rebuild!Path, rebuild!At
  <1>7. CASE rebuild!Fill
    BY <1>7, NoOverlap, OwnerAssumption DEF rebuild!Fill, rebuild!Idle, rebuild!Resolved,
       rebuild!RebuildInv, rebuild!Apart, rebuild!RebuildTypes, rebuild!RunState, rebuild!Paths,
       rebuild!Still, rebuild!GenreNames, rebuild!Path, rebuild!At
  <1>8. CASE rebuild!Cancel
    BY <1>8, NoOverlap, OwnerAssumption DEF rebuild!Cancel, rebuild!RebuildInv, rebuild!Apart,
       rebuild!RebuildTypes, rebuild!RunState, rebuild!Paths, rebuild!Still, rebuild!GenreNames,
       rebuild!Path, rebuild!At
  <1>9. CASE rebuild!Kill
    BY <1>9, NoOverlap, OwnerAssumption DEF rebuild!Kill, rebuild!Idle, rebuild!RebuildInv,
       rebuild!Apart, rebuild!RebuildTypes, rebuild!RunState, rebuild!Paths, rebuild!Still,
       rebuild!GenreNames, rebuild!Path, rebuild!At
  <1>10. CASE rebuild!EditChecked
    BY <1>10 DEF rebuild!EditChecked, rebuild!RebuildInv, rebuild!RebuildTypes
  <1>11. CASE rebuild!EditMoves
    BY <1>11, RebuildFolderMoves, OwnerAssumption DEF rebuild!RebuildInv, rebuild!RebuildTypes,
       rebuild!At
  <1>12. CASE rebuild!EditRows
    BY <1>12, RowsFollow, RunRests DEF rebuild!RebuildInv, rebuild!RebuildTypes, rebuild!At
  <1>13. CASE UNCHANGED rebuild!vars
    BY <1>13 DEF rebuild!vars, rebuild!RebuildInv, rebuild!Apart, rebuild!RebuildTypes,
       rebuild!RunState, rebuild!Paths, rebuild!Still, rebuild!GenreNames, rebuild!Path,
       rebuild!At
  <1> QED
    BY <1>1, <1>2, <1>3, <1>4, <1>5, <1>6, <1>7, <1>8, <1>9, <1>10, <1>11, <1>12,
       <1>13 DEF rebuild!Next

LEMMA ApartStep == ASSUME rebuild!RebuildInv, rebuild!Next \/ UNCHANGED rebuild!vars PROVE rebuild!Apart'
  <1>1. CASE rebuild!Begin
    BY <1>1, NoOverlap, OwnerAssumption DEF rebuild!Begin, rebuild!Idle, rebuild!RebuildInv,
       rebuild!Apart, rebuild!RebuildTypes, rebuild!RunState, rebuild!Still, rebuild!At
  <1>2. CASE rebuild!Snapshot
    BY <1>2, NoOverlap, OwnerAssumption DEF rebuild!Snapshot, rebuild!RebuildInv, rebuild!Apart,
       rebuild!RebuildTypes, rebuild!RunState, rebuild!Still, rebuild!At
  <1>3. CASE rebuild!ListGenre
    BY <1>3, NoOverlap, OwnerAssumption DEF rebuild!ListGenre, rebuild!Unreadable, rebuild!Idle,
       rebuild!RebuildInv, rebuild!Apart, rebuild!RebuildTypes, rebuild!RunState, rebuild!Still,
       rebuild!At
  <1>4. CASE rebuild!ScanChannel
    BY <1>4, NoOverlap, OwnerAssumption DEF rebuild!ScanChannel, rebuild!Idle, rebuild!RebuildInv,
       rebuild!Apart, rebuild!RebuildTypes, rebuild!RunState, rebuild!Still, rebuild!At
  <1>5. CASE rebuild!Judge
    BY <1>5, NoOverlap, OwnerAssumption DEF rebuild!Judge, rebuild!Idle, rebuild!RebuildInv,
       rebuild!Apart, rebuild!RebuildTypes, rebuild!RunState, rebuild!Still, rebuild!At
  <1>6. CASE rebuild!Clear
    BY <1>6, NoOverlap, OwnerAssumption DEF rebuild!Clear, rebuild!RebuildInv, rebuild!Apart,
       rebuild!RebuildTypes, rebuild!RunState, rebuild!Still, rebuild!At
  <1>7. CASE rebuild!Fill
    BY <1>7, NoOverlap, OwnerAssumption DEF rebuild!Fill, rebuild!Idle, rebuild!Resolved,
       rebuild!RebuildInv, rebuild!Apart, rebuild!RebuildTypes, rebuild!RunState, rebuild!Still,
       rebuild!At
  <1>8. CASE rebuild!Cancel
    BY <1>8, NoOverlap, OwnerAssumption DEF rebuild!Cancel, rebuild!RebuildInv, rebuild!Apart,
       rebuild!RebuildTypes, rebuild!RunState, rebuild!Still, rebuild!At
  <1>9. CASE rebuild!Kill
    BY <1>9, NoOverlap, OwnerAssumption DEF rebuild!Kill, rebuild!Idle, rebuild!RebuildInv,
       rebuild!Apart, rebuild!RebuildTypes, rebuild!RunState, rebuild!Still, rebuild!At
  <1>10. CASE rebuild!EditChecked
    BY <1>10, NoOverlap, OwnerAssumption DEF rebuild!EditChecked, rebuild!RebuildInv,
       rebuild!Apart, rebuild!RebuildTypes, rebuild!RunState, rebuild!Still, rebuild!At
  <1>11. CASE rebuild!EditMoves
    BY <1>11, RebuildFolderMoves, OwnerAssumption DEF rebuild!RebuildInv, rebuild!Apart, rebuild!At
  <1>12. CASE rebuild!EditRows
    BY <1>12, NoOverlap, OwnerAssumption DEF rebuild!EditRows, rebuild!RebuildInv, rebuild!Apart,
       rebuild!RebuildTypes, rebuild!RunState, rebuild!Still, rebuild!At
  <1>13. CASE UNCHANGED rebuild!vars
    BY <1>13 DEF rebuild!vars, rebuild!RebuildInv, rebuild!Apart, rebuild!RebuildTypes,
       rebuild!RunState, rebuild!Still, rebuild!At
  <1> QED
    BY <1>1, <1>2, <1>3, <1>4, <1>5, <1>6, <1>7, <1>8, <1>9, <1>10, <1>11, <1>12,
       <1>13 DEF rebuild!Next

LEMMA TablesStep == ASSUME rebuild!RebuildInv, rebuild!Next \/ UNCHANGED rebuild!vars PROVE rebuild!TablesKnow'
  <1>1. CASE rebuild!Begin
    BY <1>1, NoOverlap, OwnerAssumption DEF rebuild!Begin, rebuild!Idle, rebuild!RebuildInv,
       rebuild!Apart, rebuild!TablesKnow, rebuild!Knows, rebuild!RebuildTypes, rebuild!RunState,
       rebuild!Still, rebuild!Path, rebuild!SnapKnows, rebuild!WalkIsWhole, rebuild!AllWalked,
       rebuild!At
  <1>2. CASE rebuild!Snapshot
    BY <1>2, NoOverlap, OwnerAssumption DEF rebuild!Snapshot, rebuild!RebuildInv, rebuild!Apart,
       rebuild!TablesKnow, rebuild!Knows, rebuild!RebuildTypes, rebuild!RunState, rebuild!Still,
       rebuild!Path, rebuild!SnapKnows, rebuild!WalkIsWhole, rebuild!AllWalked, rebuild!At
  <1>3. CASE rebuild!ListGenre
    BY <1>3, NoOverlap, OwnerAssumption DEF rebuild!ListGenre, rebuild!Unreadable, rebuild!Idle,
       rebuild!RebuildInv, rebuild!Apart, rebuild!TablesKnow, rebuild!Knows, rebuild!RebuildTypes,
       rebuild!RunState, rebuild!Still, rebuild!Path, rebuild!SnapKnows, rebuild!WalkIsWhole,
       rebuild!AllWalked, rebuild!At
  <1>4. CASE rebuild!ScanChannel
    BY <1>4, NoOverlap, OwnerAssumption DEF rebuild!ScanChannel, rebuild!Idle, rebuild!RebuildInv,
       rebuild!Apart, rebuild!TablesKnow, rebuild!Knows, rebuild!RebuildTypes, rebuild!RunState,
       rebuild!Still, rebuild!Path, rebuild!SnapKnows, rebuild!WalkIsWhole, rebuild!AllWalked,
       rebuild!At
  <1>5. CASE rebuild!Judge
    BY <1>5, NoOverlap, OwnerAssumption DEF rebuild!Judge, rebuild!Idle, rebuild!RebuildInv,
       rebuild!Apart, rebuild!TablesKnow, rebuild!Knows, rebuild!RebuildTypes, rebuild!RunState,
       rebuild!Still, rebuild!Path, rebuild!SnapKnows, rebuild!WalkIsWhole, rebuild!AllWalked,
       rebuild!At
  <1>6. CASE rebuild!Clear
    BY <1>6, NoOverlap, OwnerAssumption DEF rebuild!Clear, rebuild!RebuildInv, rebuild!Apart,
       rebuild!TablesKnow, rebuild!Knows, rebuild!RebuildTypes, rebuild!RunState, rebuild!Still,
       rebuild!Path, rebuild!SnapKnows, rebuild!WalkIsWhole, rebuild!AllWalked, rebuild!At
  <1>7. CASE rebuild!Fill
    BY <1>7, NoOverlap, OwnerAssumption DEF rebuild!Fill, rebuild!Idle, rebuild!Resolved,
       rebuild!RebuildInv, rebuild!Apart, rebuild!TablesKnow, rebuild!Knows, rebuild!RebuildTypes,
       rebuild!RunState, rebuild!Still, rebuild!Path, rebuild!SnapKnows, rebuild!WalkIsWhole,
       rebuild!AllWalked, rebuild!At
  <1>8. CASE rebuild!Cancel
    BY <1>8, NoOverlap, OwnerAssumption DEF rebuild!Cancel, rebuild!RebuildInv, rebuild!Apart,
       rebuild!TablesKnow, rebuild!Knows, rebuild!RebuildTypes, rebuild!RunState, rebuild!Still,
       rebuild!Path, rebuild!SnapKnows, rebuild!WalkIsWhole, rebuild!AllWalked, rebuild!At
  <1>9. CASE rebuild!Kill
    BY <1>9, NoOverlap, OwnerAssumption DEF rebuild!Kill, rebuild!Idle, rebuild!RebuildInv,
       rebuild!Apart, rebuild!TablesKnow, rebuild!Knows, rebuild!RebuildTypes, rebuild!RunState,
       rebuild!Still, rebuild!Path, rebuild!SnapKnows, rebuild!WalkIsWhole, rebuild!AllWalked,
       rebuild!At
  <1>10. CASE rebuild!EditChecked
    BY <1>10, NoOverlap, OwnerAssumption DEF rebuild!EditChecked, rebuild!RebuildInv,
       rebuild!Apart, rebuild!TablesKnow, rebuild!Knows, rebuild!RebuildTypes, rebuild!RunState,
       rebuild!Still, rebuild!Path, rebuild!SnapKnows, rebuild!WalkIsWhole, rebuild!AllWalked,
       rebuild!At
  <1>11. CASE rebuild!EditMoves
    BY <1>11, RebuildFolderMoves, OwnerAssumption DEF rebuild!RebuildInv, rebuild!TablesKnow,
       rebuild!Knows, rebuild!Path, rebuild!RebuildTypes, rebuild!Paths, rebuild!At
  <1>12. CASE rebuild!EditRows
    BY <1>12, RowsFollow, RunRests DEF rebuild!RebuildInv, rebuild!TablesKnow, rebuild!Knows,
       rebuild!Path, rebuild!RebuildTypes, rebuild!At
  <1>13. CASE UNCHANGED rebuild!vars
    BY <1>13 DEF rebuild!vars, rebuild!RebuildInv, rebuild!Apart, rebuild!TablesKnow,
       rebuild!Knows, rebuild!RebuildTypes, rebuild!RunState, rebuild!Still, rebuild!Path,
       rebuild!SnapKnows, rebuild!WalkIsWhole, rebuild!AllWalked, rebuild!At
  <1> QED
    BY <1>1, <1>2, <1>3, <1>4, <1>5, <1>6, <1>7, <1>8, <1>9, <1>10, <1>11, <1>12,
       <1>13 DEF rebuild!Next

LEMMA SnapStep == ASSUME rebuild!RebuildInv, rebuild!Next \/ UNCHANGED rebuild!vars PROVE rebuild!SnapKnows'
  <1>1. CASE rebuild!Begin
    BY <1>1, NoOverlap, OwnerAssumption DEF rebuild!Begin, rebuild!Idle, rebuild!RebuildInv,
       rebuild!Apart, rebuild!SnapKnows, rebuild!TablesKnow, rebuild!Knows, rebuild!RebuildTypes,
       rebuild!RunState, rebuild!Path, rebuild!Still, rebuild!At
  <1>2. CASE rebuild!Snapshot
    <2>1. CASE s9' = {}
      BY <1>2, <2>1, Snaps DEF rebuild!SnapKnows, rebuild!At
    <2>2. CASE s9' = s9 /\ s5'.snap = s3
      <3>1. s5.pc = "snap" /\ s7 = rebuild!Still /\ rebuild!Same
        BY <1>2, Snaps
      <3>2. \A t \in s9 \ s10 : rebuild!Path(t) \in s3
        BY <3>1, RunRests DEF rebuild!RebuildInv, rebuild!TablesKnow, rebuild!Knows, rebuild!At
      <3>3. s10 = {}
        BY <3>1 DEF rebuild!RebuildInv, rebuild!SnapKnows, rebuild!At
      <3> QED
        BY <1>2, <2>2, <3>1, <3>2, <3>3, Snaps DEF rebuild!SnapKnows, rebuild!Path, rebuild!Same,
           rebuild!At
    <2> QED
      BY <1>2, Snaps, <2>1, <2>2
  <1>3. CASE rebuild!ListGenre
    BY <1>3, Lists, RunRests, GenresAssumption, OwnerAssumption DEF rebuild!Same,
       rebuild!RebuildInv, rebuild!SnapKnows, rebuild!Path, rebuild!At
  <1>4. CASE rebuild!ScanChannel
    BY <1>4, Scans, RunRests, OwnerAssumption DEF rebuild!Same, rebuild!RebuildInv,
       rebuild!SnapKnows, rebuild!Path, rebuild!At
  <1>5. CASE rebuild!Judge
    BY <1>5, NoOverlap, OwnerAssumption DEF rebuild!Judge, rebuild!Idle, rebuild!RebuildInv,
       rebuild!Apart, rebuild!SnapKnows, rebuild!TablesKnow, rebuild!Knows, rebuild!RebuildTypes,
       rebuild!RunState, rebuild!Path, rebuild!Still, rebuild!At
  <1>6. CASE rebuild!Clear
    BY <1>6, NoOverlap, OwnerAssumption DEF rebuild!Clear, rebuild!RebuildInv, rebuild!Apart,
       rebuild!SnapKnows, rebuild!TablesKnow, rebuild!Knows, rebuild!RebuildTypes,
       rebuild!RunState, rebuild!Path, rebuild!Still, rebuild!At
  <1>7. CASE rebuild!Fill
    BY <1>7, NoOverlap, OwnerAssumption DEF rebuild!Fill, rebuild!Idle, rebuild!Resolved,
       rebuild!RebuildInv, rebuild!Apart, rebuild!SnapKnows, rebuild!TablesKnow, rebuild!Knows,
       rebuild!RebuildTypes, rebuild!RunState, rebuild!Path, rebuild!Still, rebuild!At
  <1>8. CASE rebuild!Cancel
    BY <1>8, NoOverlap, OwnerAssumption DEF rebuild!Cancel, rebuild!RebuildInv, rebuild!Apart,
       rebuild!SnapKnows, rebuild!TablesKnow, rebuild!Knows, rebuild!RebuildTypes,
       rebuild!RunState, rebuild!Path, rebuild!Still, rebuild!At
  <1>9. CASE rebuild!Kill
    BY <1>9, NoOverlap, OwnerAssumption DEF rebuild!Kill, rebuild!Idle, rebuild!RebuildInv,
       rebuild!Apart, rebuild!SnapKnows, rebuild!TablesKnow, rebuild!Knows, rebuild!RebuildTypes,
       rebuild!RunState, rebuild!Path, rebuild!Still, rebuild!At
  <1>10. CASE rebuild!EditChecked
    BY <1>10, NoOverlap, OwnerAssumption DEF rebuild!EditChecked, rebuild!RebuildInv,
       rebuild!Apart, rebuild!SnapKnows, rebuild!TablesKnow, rebuild!Knows, rebuild!RebuildTypes,
       rebuild!RunState, rebuild!Path, rebuild!Still, rebuild!At
  <1>11. CASE rebuild!EditMoves
    BY <1>11, RebuildFolderMoves, OwnerAssumption DEF rebuild!RebuildInv, rebuild!SnapKnows,
       rebuild!At
  <1>12. CASE rebuild!EditRows
    BY <1>12, NoOverlap, OwnerAssumption DEF rebuild!EditRows, rebuild!RebuildInv, rebuild!Apart,
       rebuild!SnapKnows, rebuild!TablesKnow, rebuild!Knows, rebuild!RebuildTypes,
       rebuild!RunState, rebuild!Path, rebuild!Still, rebuild!At
  <1>13. CASE UNCHANGED rebuild!vars
    BY <1>13 DEF rebuild!vars, rebuild!RebuildInv, rebuild!Apart, rebuild!SnapKnows,
       rebuild!TablesKnow, rebuild!Knows, rebuild!RebuildTypes, rebuild!RunState, rebuild!Path,
       rebuild!Still, rebuild!At
  <1> QED
    BY <1>1, <1>2, <1>3, <1>4, <1>5, <1>6, <1>7, <1>8, <1>9, <1>10, <1>11, <1>12,
       <1>13 DEF rebuild!Next

LEMMA ListedStep == ASSUME rebuild!RebuildInv, rebuild!Next \/ UNCHANGED rebuild!vars PROVE rebuild!Listed'
  <1>1. CASE rebuild!Begin
    BY <1>1, NoOverlap, OwnerAssumption DEF rebuild!Begin, rebuild!Idle, rebuild!RebuildInv,
       rebuild!Apart, rebuild!Listed, rebuild!RebuildTypes, rebuild!RunState, rebuild!Still,
       rebuild!At
  <1>2. CASE rebuild!Snapshot
    BY <1>2, Snaps, RunRests, GenresAssumption, OwnerAssumption DEF rebuild!Same,
       rebuild!RebuildInv, rebuild!Listed, rebuild!RebuildTypes, rebuild!RunState, rebuild!At
  <1>3. CASE rebuild!ListGenre
    <2>1. CASE s5'.pc = "list" /\ s5' # rebuild!Idle
      <3>1. rebuild!Same /\ s5.at \in Nat /\ s5'.at = s5.at + 1 /\ s5.todo \subseteq s5'.todo
            /\ \A c \in Channels : s1[c] = Genres[s5.at] => <<c, Genres[s5.at]>> \in s5'.todo
        BY <1>3, <2>1, Lists DEF rebuild!RebuildInv, rebuild!RebuildTypes, rebuild!RunState
      <3>2. ASSUME NEW i \in DOMAIN Genres, NEW c \in Channels, i < s5'.at, s1[c] = Genres[i]
            PROVE  <<c, Genres[i]>> \in s5'.todo
        <4>1. CASE i = s5.at
          BY <3>1, <3>2, <4>1
        <4>2. CASE i < s5.at
          BY <1>3, <3>1, <3>2, <4>2, Lists DEF rebuild!RebuildInv, rebuild!Listed, rebuild!At
        <4>3. i \in Nat
          BY GenresAssumption
        <4> QED
          BY <3>1, <3>2, <4>1, <4>2, <4>3
      <3> QED
        BY <2>1, <3>1, <3>2 DEF rebuild!Listed, rebuild!At, rebuild!Same
    <2>2. CASE s5'.pc # "list" \/ s5' = rebuild!Idle
      BY <1>3, <2>2, Lists, RunRests DEF rebuild!Listed, rebuild!At
    <2> QED
      BY <2>1, <2>2
  <1>4. CASE rebuild!ScanChannel
    BY <1>4, Scans, RunRests, OwnerAssumption DEF rebuild!Same, rebuild!RebuildInv,
       rebuild!Listed, rebuild!At
  <1>5. CASE rebuild!Judge
    BY <1>5, NoOverlap, OwnerAssumption DEF rebuild!Judge, rebuild!Idle, rebuild!RebuildInv,
       rebuild!Apart, rebuild!Listed, rebuild!RebuildTypes, rebuild!RunState, rebuild!Still,
       rebuild!At
  <1>6. CASE rebuild!Clear
    BY <1>6, NoOverlap, OwnerAssumption DEF rebuild!Clear, rebuild!RebuildInv, rebuild!Apart,
       rebuild!Listed, rebuild!RebuildTypes, rebuild!RunState, rebuild!Still, rebuild!At
  <1>7. CASE rebuild!Fill
    BY <1>7, NoOverlap, OwnerAssumption DEF rebuild!Fill, rebuild!Idle, rebuild!Resolved,
       rebuild!RebuildInv, rebuild!Apart, rebuild!Listed, rebuild!RebuildTypes, rebuild!RunState,
       rebuild!Still, rebuild!At
  <1>8. CASE rebuild!Cancel
    BY <1>8, NoOverlap, OwnerAssumption DEF rebuild!Cancel, rebuild!RebuildInv, rebuild!Apart,
       rebuild!Listed, rebuild!RebuildTypes, rebuild!RunState, rebuild!Still, rebuild!At
  <1>9. CASE rebuild!Kill
    BY <1>9, NoOverlap, OwnerAssumption DEF rebuild!Kill, rebuild!Idle, rebuild!RebuildInv,
       rebuild!Apart, rebuild!Listed, rebuild!RebuildTypes, rebuild!RunState, rebuild!Still,
       rebuild!At
  <1>10. CASE rebuild!EditChecked
    BY <1>10, NoOverlap, OwnerAssumption DEF rebuild!EditChecked, rebuild!RebuildInv,
       rebuild!Apart, rebuild!Listed, rebuild!RebuildTypes, rebuild!RunState, rebuild!Still,
       rebuild!At
  <1>11. CASE rebuild!EditMoves
    BY <1>11, RebuildFolderMoves, OwnerAssumption DEF rebuild!RebuildInv, rebuild!Listed, rebuild!At
  <1>12. CASE rebuild!EditRows
    BY <1>12, NoOverlap, OwnerAssumption DEF rebuild!EditRows, rebuild!RebuildInv, rebuild!Apart,
       rebuild!Listed, rebuild!RebuildTypes, rebuild!RunState, rebuild!Still, rebuild!At
  <1>13. CASE UNCHANGED rebuild!vars
    BY <1>13 DEF rebuild!vars, rebuild!RebuildInv, rebuild!Apart, rebuild!Listed,
       rebuild!RebuildTypes, rebuild!RunState, rebuild!Still, rebuild!At
  <1> QED
    BY <1>1, <1>2, <1>3, <1>4, <1>5, <1>6, <1>7, <1>8, <1>9, <1>10, <1>11, <1>12,
       <1>13 DEF rebuild!Next

LEMMA WalkStep == ASSUME rebuild!RebuildInv, rebuild!Next \/ UNCHANGED rebuild!vars PROVE rebuild!WalkIsWhole'
  <1>1. CASE rebuild!Begin
    BY <1>1, NoOverlap, OwnerAssumption DEF rebuild!Begin, rebuild!Idle, rebuild!RebuildInv,
       rebuild!Apart, rebuild!WalkIsWhole, rebuild!Listed, rebuild!RebuildTypes, rebuild!RunState,
       rebuild!Path, rebuild!Still, rebuild!Paths, rebuild!At
  <1>2. CASE rebuild!Snapshot
    BY <1>2, NoOverlap, OwnerAssumption DEF rebuild!Snapshot, rebuild!RebuildInv, rebuild!Apart,
       rebuild!WalkIsWhole, rebuild!Listed, rebuild!RebuildTypes, rebuild!RunState, rebuild!Path,
       rebuild!Still, rebuild!Paths, rebuild!At
  <1>3. CASE rebuild!ListGenre
    <2>1. CASE s5'.pc = "walk" /\ s5.at > Len(Genres)
      <3>1. rebuild!Same /\ s5.at \in Nat /\ s5.pc = "list" /\ s5'.todo = s5.todo
        BY <1>3, <2>1, Lists, RunRests DEF rebuild!RebuildInv, rebuild!RebuildTypes,
           rebuild!RunState
      <3>2. ASSUME NEW t \in Tracks PROVE <<Owner[t], s1[Owner[t]]>> \in s5.todo
        <4>1. Owner[t] \in Channels /\ s1[Owner[t]] \in rebuild!GenreNames
          BY OwnerAssumption DEF rebuild!RebuildInv, rebuild!RebuildTypes
        <4>2. PICK i \in DOMAIN Genres : Genres[i] = s1[Owner[t]]
          BY <4>1 DEF rebuild!GenreNames
        <4>3. i < s5.at
          BY <2>1, <3>1, GenresAssumption
        <4> QED
          BY <3>1, <4>1, <4>2, <4>3 DEF rebuild!RebuildInv, rebuild!Listed, rebuild!At
      <3> QED
        BY <3>1, <3>2 DEF rebuild!WalkIsWhole, rebuild!Same
    <2>2. CASE s5'.pc \notin {"walk", "clear", "fill"}
      BY <2>2 DEF rebuild!WalkIsWhole
    <2> QED
      BY <1>3, <2>1, <2>2, Lists, RunRests
  <1>4. CASE rebuild!ScanChannel
    BY <1>4, Scans, RunRests, OwnerAssumption DEF rebuild!Same, rebuild!RebuildInv,
       rebuild!WalkIsWhole, rebuild!RebuildTypes, rebuild!Path, rebuild!At
  <1>5. CASE rebuild!Judge
    BY <1>5, NoOverlap, OwnerAssumption DEF rebuild!Judge, rebuild!Idle, rebuild!RebuildInv,
       rebuild!Apart, rebuild!WalkIsWhole, rebuild!Listed, rebuild!RebuildTypes, rebuild!RunState,
       rebuild!Path, rebuild!Still, rebuild!Paths, rebuild!At
  <1>6. CASE rebuild!Clear
    BY <1>6, NoOverlap, OwnerAssumption DEF rebuild!Clear, rebuild!RebuildInv, rebuild!Apart,
       rebuild!WalkIsWhole, rebuild!Listed, rebuild!RebuildTypes, rebuild!RunState, rebuild!Path,
       rebuild!Still, rebuild!Paths, rebuild!At
  <1>7. CASE rebuild!Fill
    BY <1>7, NoOverlap, OwnerAssumption DEF rebuild!Fill, rebuild!Idle, rebuild!Resolved,
       rebuild!RebuildInv, rebuild!Apart, rebuild!WalkIsWhole, rebuild!Listed,
       rebuild!RebuildTypes, rebuild!RunState, rebuild!Path, rebuild!Still, rebuild!Paths,
       rebuild!At
  <1>8. CASE rebuild!Cancel
    BY <1>8, NoOverlap, OwnerAssumption DEF rebuild!Cancel, rebuild!RebuildInv, rebuild!Apart,
       rebuild!WalkIsWhole, rebuild!Listed, rebuild!RebuildTypes, rebuild!RunState, rebuild!Path,
       rebuild!Still, rebuild!Paths, rebuild!At
  <1>9. CASE rebuild!Kill
    BY <1>9, NoOverlap, OwnerAssumption DEF rebuild!Kill, rebuild!Idle, rebuild!RebuildInv,
       rebuild!Apart, rebuild!WalkIsWhole, rebuild!Listed, rebuild!RebuildTypes, rebuild!RunState,
       rebuild!Path, rebuild!Still, rebuild!Paths, rebuild!At
  <1>10. CASE rebuild!EditChecked
    BY <1>10, NoOverlap, OwnerAssumption DEF rebuild!EditChecked, rebuild!RebuildInv,
       rebuild!Apart, rebuild!WalkIsWhole, rebuild!Listed, rebuild!RebuildTypes, rebuild!RunState,
       rebuild!Path, rebuild!Still, rebuild!Paths, rebuild!At
  <1>11. CASE rebuild!EditMoves
    BY <1>11, RebuildFolderMoves, OwnerAssumption DEF rebuild!RebuildInv, rebuild!WalkIsWhole,
       rebuild!At
  <1>12. CASE rebuild!EditRows
    BY <1>12, NoOverlap, OwnerAssumption DEF rebuild!EditRows, rebuild!RebuildInv, rebuild!Apart,
       rebuild!WalkIsWhole, rebuild!Listed, rebuild!RebuildTypes, rebuild!RunState, rebuild!Path,
       rebuild!Still, rebuild!Paths, rebuild!At
  <1>13. CASE UNCHANGED rebuild!vars
    BY <1>13 DEF rebuild!vars, rebuild!RebuildInv, rebuild!Apart, rebuild!WalkIsWhole,
       rebuild!Listed, rebuild!RebuildTypes, rebuild!RunState, rebuild!Path, rebuild!Still,
       rebuild!Paths, rebuild!At
  <1> QED
    BY <1>1, <1>2, <1>3, <1>4, <1>5, <1>6, <1>7, <1>8, <1>9, <1>10, <1>11, <1>12,
       <1>13 DEF rebuild!Next

LEMMA AllWalkedStep == ASSUME rebuild!RebuildInv, rebuild!Next \/ UNCHANGED rebuild!vars
  PROVE rebuild!AllWalked'
  <1>1. CASE rebuild!Begin
    BY <1>1, NoOverlap, OwnerAssumption DEF rebuild!Begin, rebuild!Idle, rebuild!RebuildInv,
       rebuild!Apart, rebuild!AllWalked, rebuild!RebuildTypes, rebuild!RunState, rebuild!At
  <1>2. CASE rebuild!Snapshot
    BY <1>2, NoOverlap, OwnerAssumption DEF rebuild!Snapshot, rebuild!RebuildInv, rebuild!Apart,
       rebuild!AllWalked, rebuild!RebuildTypes, rebuild!RunState, rebuild!At
  <1>3. CASE rebuild!ListGenre
    BY <1>3, Lists, RunRests, GenresAssumption, OwnerAssumption DEF rebuild!Same,
       rebuild!RebuildInv, rebuild!AllWalked, rebuild!At
  <1>4. CASE rebuild!ScanChannel
    BY <1>4, Scans, RunRests, OwnerAssumption DEF rebuild!Same, rebuild!RebuildInv,
       rebuild!AllWalked, rebuild!At
  <1>5. CASE rebuild!Judge
    BY <1>5, NoOverlap, OwnerAssumption DEF rebuild!Judge, rebuild!Idle, rebuild!RebuildInv,
       rebuild!Apart, rebuild!AllWalked, rebuild!RebuildTypes, rebuild!RunState, rebuild!At
  <1>6. CASE rebuild!Clear
    BY <1>6, NoOverlap, OwnerAssumption DEF rebuild!Clear, rebuild!RebuildInv, rebuild!Apart,
       rebuild!AllWalked, rebuild!RebuildTypes, rebuild!RunState, rebuild!At
  <1>7. CASE rebuild!Fill
    BY <1>7, NoOverlap, OwnerAssumption DEF rebuild!Fill, rebuild!Idle, rebuild!Resolved,
       rebuild!RebuildInv, rebuild!Apart, rebuild!AllWalked, rebuild!RebuildTypes,
       rebuild!RunState, rebuild!At
  <1>8. CASE rebuild!Cancel
    BY <1>8, NoOverlap, OwnerAssumption DEF rebuild!Cancel, rebuild!RebuildInv, rebuild!Apart,
       rebuild!AllWalked, rebuild!RebuildTypes, rebuild!RunState, rebuild!At
  <1>9. CASE rebuild!Kill
    BY <1>9, NoOverlap, OwnerAssumption DEF rebuild!Kill, rebuild!Idle, rebuild!RebuildInv,
       rebuild!Apart, rebuild!AllWalked, rebuild!RebuildTypes, rebuild!RunState, rebuild!At
  <1>10. CASE rebuild!EditChecked
    BY <1>10, NoOverlap, OwnerAssumption DEF rebuild!EditChecked, rebuild!RebuildInv,
       rebuild!Apart, rebuild!AllWalked, rebuild!RebuildTypes, rebuild!RunState, rebuild!At
  <1>11. CASE rebuild!EditMoves
    BY <1>11, NoOverlap, OwnerAssumption DEF rebuild!EditMoves, rebuild!RebuildInv, rebuild!Apart,
       rebuild!AllWalked, rebuild!RebuildTypes, rebuild!RunState, rebuild!At
  <1>12. CASE rebuild!EditRows
    BY <1>12, NoOverlap, OwnerAssumption DEF rebuild!EditRows, rebuild!RebuildInv, rebuild!Apart,
       rebuild!AllWalked, rebuild!RebuildTypes, rebuild!RunState, rebuild!At
  <1>13. CASE UNCHANGED rebuild!vars
    BY <1>13 DEF rebuild!vars, rebuild!RebuildInv, rebuild!Apart, rebuild!AllWalked,
       rebuild!RebuildTypes, rebuild!RunState, rebuild!At
  <1> QED
    BY <1>1, <1>2, <1>3, <1>4, <1>5, <1>6, <1>7, <1>8, <1>9, <1>10, <1>11, <1>12,
       <1>13 DEF rebuild!Next

LEMMA RebuildStep == rebuild!RebuildInv /\ (rebuild!Next \/ UNCHANGED rebuild!vars) => rebuild!RebuildInv'
  BY RebuildTypesStep, ApartStep, TablesStep, SnapStep, ListedStep, WalkStep,
     AllWalkedStep DEF rebuild!RebuildInv

LEMMA RebuildHolds == rebuild!RebuildInv => rebuild!HistoryKept /\ rebuild!ArtKept
  BY DEF rebuild!RebuildInv, rebuild!TablesKnow, rebuild!Knows, rebuild!HistoryKept, rebuild!ArtKept

-----------------------------------------------------------------------------
(* DownloadRows: the richest of a file's rows is kept. *)

LEMMA TableInit == downloads!Init => downloads!TableInv
  <1> SUFFICES ASSUME downloads!Init PROVE downloads!TableInv
    OBVIOUS
  <1>1. PICK first \in SUBSET TablePaths, second \in SUBSET TablePaths, a \in SUBSET downloads!Columns, b \in SUBSET downloads!Columns :
          /\ second \subseteq first
          /\ s1 = {[n |-> 1, path |-> p, know |-> a] : p \in first} \union {[n |-> 2, path |-> p, know |-> b] : p \in second}
          /\ s3 \in {FALSE, second = {}}
    BY DEF downloads!Init
  <1>2. s1 \subseteq downloads!RowState /\ \A r \in s1 : r.n \in {1, 2} /\ (r.n = 1 => r.know = a)
          /\ (r.n = 2 => r.know = b /\ r.path \in second)
    BY <1>1 DEF downloads!RowState
  <1>3. \A r, q \in s1 : r.path = q.path /\ r.n = q.n => r = q
    BY <1>2 DEF downloads!RowState
  <1>4. s7 = [p \in TablePaths |-> UNION {r.know : r \in downloads!Of(p)}] /\ s2 = 3
    BY DEF downloads!Init
  <1>5. \A p \in TablePaths : UNION {r.know : r \in downloads!Of(p)} \in SUBSET downloads!Columns
    BY <1>2 DEF downloads!Of, downloads!RowState
  <1>6. downloads!TableTypes
    BY <1>2, <1>3, <1>4, <1>5 DEF downloads!TableTypes
  <1>7. s3 => ~downloads!Doubled(s1)
    <2>1. ASSUME second = {}, NEW r \in s1, NEW q \in s1, r.path = q.path PROVE r = q
      <3>1. r.n = 1 /\ q.n = 1
        BY <1>2, <2>1
      <3> QED
        BY <1>3, <2>1, <3>1
    <2>2. s3 => second = {}
      BY <1>1
    <2> QED
      BY <2>1, <2>2 DEF downloads!Doubled
  <1> QED
    BY <1>4, <1>6, <1>7 DEF downloads!TableInv, downloads!KnownIsKept

\* The rows of a file have a richest: what is compared is its two columns, then
\* its number.
LEMMA RichestIsThere ==
  ASSUME downloads!TableInv, NEW p \in TablePaths, downloads!Of(p) # {}
  PROVE  \E r \in downloads!Of(p) : \A q \in downloads!Of(p) \ {r} : downloads!Richer(r, q)
  <1>1. downloads!Of(p) \subseteq downloads!RowState /\ \A r, q \in downloads!Of(p) : r.n = q.n => r = q
    BY DEF downloads!TableInv, downloads!TableTypes, downloads!Of
  <1> DEFINE A == {r \in downloads!Of(p) : downloads!Has(r, "bitrate") = 1
        \/ \A q \in downloads!Of(p) : downloads!Has(q, "bitrate") = 0}
             B == {r \in A : downloads!Has(r, "video") = 1 \/ \A q \in A : downloads!Has(q, "video") = 0}
  <1>2. \A r \in downloads!Of(p) : downloads!Has(r, "bitrate") \in {0, 1}
          /\ downloads!Has(r, "video") \in {0, 1}
    BY DEF downloads!Has
  <1>3. A # {} /\ B # {} /\ B \subseteq A /\ A \subseteq downloads!Of(p)
    BY <1>2
  <1>4. \E r \in B : \A q \in B : r.n <= q.n
    <2> DEFINE S == {r.n : r \in B}
    <2>1. S \subseteq Nat /\ S # {}
      BY <1>1, <1>3 DEF downloads!RowState
    <2> HIDE DEF B
    <2>2. \E m \in S : \A n \in S : m <= n
      <3> HIDE DEF S
      <3> QED
        BY <2>1, LeastNat
    <2> QED
      BY <2>2
  <1>5. PICK r \in B : \A q \in B : r.n <= q.n
    BY <1>4
  <1>6. ASSUME NEW q \in downloads!Of(p) \ {r} PROVE downloads!Richer(r, q)
    <2>1. r \in downloads!Of(p) /\ r.n \in Nat /\ q.n \in Nat /\ r.n # q.n
      BY <1>1, <1>3, <1>5 DEF downloads!RowState
    <2>2. downloads!Richness(r) = <<downloads!Has(r, "bitrate"), downloads!Has(r, "video"), MaxRows - r.n>> /\ downloads!Richness(q) = <<downloads!Has(q, "bitrate"), downloads!Has(q, "video"), MaxRows - q.n>>
      BY DEF downloads!Richness
    <2>3. downloads!Has(r, "bitrate") \in {0, 1} /\ downloads!Has(r, "video") \in {0, 1}
            /\ downloads!Has(q, "bitrate") \in {0, 1} /\ downloads!Has(q, "video") \in {0, 1}
      BY <1>2, <2>1
    <2>4. CASE q \notin A
      <3>1. downloads!Richness(r)[1] > downloads!Richness(q)[1]
        BY <1>2, <1>3, <1>5, <2>2, <2>3, <2>4
      <3> QED
        BY <3>1 DEF downloads!Richer
    <2>5. CASE q \in A /\ q \notin B
      <3>1. downloads!Has(r, "bitrate") = downloads!Has(q, "bitrate")
        BY <1>2, <1>3, <1>5, <2>1, <2>3, <2>5
      <3>2. downloads!Richness(r)[2] > downloads!Richness(q)[2]
              /\ downloads!Richness(r)[1] = downloads!Richness(q)[1]
        BY <1>2, <1>3, <1>5, <2>2, <2>3, <2>5, <3>1
      <3> QED
        BY <3>2 DEF downloads!Richer
    <2>6. CASE q \in B
      <3>1. downloads!Has(r, "bitrate") = downloads!Has(q, "bitrate")
              /\ downloads!Has(r, "video") = downloads!Has(q, "video")
        BY <1>2, <1>3, <1>5, <2>1, <2>3, <2>6
      <3>2. r.n < q.n
        BY <1>5, <2>1, <2>6
      <3>3. downloads!Richness(r)[3] > downloads!Richness(q)[3]
              /\ downloads!Richness(r)[1] = downloads!Richness(q)[1]
                 /\ downloads!Richness(r)[2] = downloads!Richness(q)[2]
        BY <2>1, <2>2, <3>1, <3>2, BoundAssumption
      <3>4. \A j \in 1 .. (3 - 1) : j = 1 \/ j = 2
        OBVIOUS
      <3> QED
        BY <3>3, <3>4 DEF downloads!Richer
    <2> QED
      BY <2>4, <2>5, <2>6
  <1> QED
    BY <1>3, <1>5, <1>6

LEMMA MergedIsWhole ==
  ASSUME downloads!TableInv, NEW p \in TablePaths, downloads!Of(p) # {}
  PROVE  /\ downloads!Merged(p) \in downloads!RowState /\ downloads!Merged(p).path = p
            /\ downloads!Merged(p).n < s2
         /\ downloads!Merged(p).know = UNION {r.know : r \in downloads!Of(p)}
  <1>1. downloads!Keeper(p) \in downloads!Of(p)
    BY RichestIsThere DEF downloads!Keeper
  <1>2. downloads!Keeper(p) \in downloads!RowState /\ downloads!Keeper(p).path = p /\ downloads!Keeper(p).n < s2
    BY <1>1 DEF downloads!TableInv, downloads!TableTypes, downloads!Of
  <1> DEFINE all == UNION {r.know : r \in downloads!Of(p)}  k == downloads!Keeper(p)
  <1>3. all \in SUBSET downloads!Columns
    BY DEF downloads!TableInv, downloads!TableTypes, downloads!Of, downloads!RowState
  <1>4. downloads!Merged(p) = [k EXCEPT !.know = all]
    BY DEF downloads!Merged
  <1> HIDE DEF all, k
  <1>5. downloads!Merged(p) \in downloads!RowState /\ downloads!Merged(p).path = k.path
          /\ downloads!Merged(p).n = k.n /\ downloads!Merged(p).know = all
    BY <1>2, <1>3, <1>4 DEF downloads!RowState, k
  <1> QED
    BY <1>2, <1>5 DEF k, all

LEMMA Dedupes == ASSUME downloads!TableInv, downloads!Dedupe PROVE downloads!TableInv'
  <1>1. s1' = {downloads!Merged(r.path) : r \in s1} /\ UNCHANGED <<s2, s7, s3>>
    BY DEF downloads!Dedupe
  <1>2. ASSUME NEW r \in s1
        PROVE  /\ downloads!Merged(r.path) \in downloads!RowState
                  /\ downloads!Merged(r.path).path = r.path /\ downloads!Merged(r.path).n < s2
               /\ downloads!Merged(r.path).know = UNION {q.know : q \in downloads!Of(r.path)}
                  /\ r.path \in TablePaths
    <2>1. r.path \in TablePaths /\ downloads!Of(r.path) # {}
      BY DEF downloads!TableInv, downloads!TableTypes, downloads!RowState, downloads!Of
    <2> QED
      BY <2>1, MergedIsWhole
  <1>3. \A x, y \in s1' : x.path = y.path => x = y
    BY <1>1, <1>2
  <1>4. downloads!TableTypes'
    BY <1>1, <1>2, <1>3 DEF downloads!TableInv, downloads!TableTypes
  <1>5. ASSUME NEW p \in TablePaths PROVE s7'[p] \subseteq UNION {x.know : x \in downloads!Of(p)'}
    <2>1. CASE downloads!Of(p) = {}
      BY <1>1, <2>1 DEF downloads!TableInv, downloads!KnownIsKept
    <2>2. CASE downloads!Of(p) # {}
      <3>1. PICK r \in s1 : r.path = p
        BY <2>2 DEF downloads!Of
      <3>2. downloads!Merged(p) \in downloads!Of(p)'
        BY <1>1, <1>2, <3>1 DEF downloads!Of
      <3>3. s7[p] \subseteq downloads!Merged(p).know
        BY <1>2, <3>1 DEF downloads!TableInv, downloads!KnownIsKept
      <3> QED
        BY <1>1, <3>2, <3>3
    <2> QED
      BY <2>1, <2>2
  <1>6. ~downloads!Doubled(s1')
    BY <1>3 DEF downloads!Doubled
  <1> QED
    BY <1>4, <1>5, <1>6 DEF downloads!TableInv, downloads!KnownIsKept

\* A write of some files: each is learned by its rows, or by one new row.
LEMMA DownloadsWrites ==
  ASSUME downloads!TableInv, NEW i \in downloads!Openers, NEW ps \in SUBSET TablePaths,
      NEW know \in SUBSET downloads!Columns, ~downloads!Refused(i, ps),
         s1' = downloads!Upserted(i, ps, know) \union downloads!New(i, ps, know), downloads!Learn(ps, know), s2' = s2 + 1, s3' = s3
  PROVE  downloads!TableInv'
  <1> DEFINE up(r) == IF r.path \in ps
        /\ downloads!Upserts(i, r.path) THEN [r EXCEPT !.know = @ \union know] ELSE r
  <1>1. ASSUME NEW r \in s1
        PROVE  /\ up(r) \in downloads!RowState /\ up(r).n = r.n /\ up(r).path = r.path
                  /\ r.know \subseteq up(r).know
               /\ r.path \in ps /\ downloads!Upserts(i, r.path) => know \subseteq up(r).know
    <2>1. r \in downloads!RowState
      BY DEF downloads!TableInv, downloads!TableTypes
    <2>2. CASE r.path \in ps /\ downloads!Upserts(i, r.path)
      <3> DEFINE all == r.know \union know
      <3>1. all \in SUBSET downloads!Columns /\ up(r) = [r EXCEPT !.know = all]
        BY <2>1, <2>2 DEF downloads!RowState
      <3>2. up(r) \in downloads!RowState /\ up(r).n = r.n /\ up(r).path = r.path /\ up(r).know = all
        <4> HIDE DEF all, up
        <4> QED
          BY <2>1, <3>1 DEF downloads!RowState
      <3> QED
        BY <3>2
    <2>3. CASE ~(r.path \in ps /\ downloads!Upserts(i, r.path))
      BY <2>1, <2>3
    <2> QED
      BY <2>2, <2>3
  <1>2. s1' = {up(r) : r \in s1} \union downloads!New(i, ps, know)
    BY DEF downloads!Upserted
  <1> HIDE DEF up
  <1>3. \A x \in downloads!New(i, ps, know) : x \in downloads!RowState /\ x.n = s2 /\ x.path \in ps
          /\ ~downloads!Upserts(i, x.path) /\ x.know = know
    BY DEF downloads!New, downloads!RowState, downloads!TableInv, downloads!TableTypes
  <1>4. \A p \in ps : downloads!Upserts(i, p)
          \/ [n |-> s2, path |-> p, know |-> know] \in downloads!New(i, ps, know)
    BY DEF downloads!New
  <1>5. \A x, y \in downloads!New(i, ps, know) : x.path = y.path => x = y
    BY DEF downloads!New
  <1>6. s2 \in Nat /\ \A r \in s1 : r.n \in Nat /\ r.n < s2
    BY DEF downloads!TableInv, downloads!TableTypes, downloads!RowState
  <1>7. s7' \in [TablePaths -> SUBSET downloads!Columns]
    BY DEF downloads!Learn, downloads!TableInv, downloads!TableTypes
  <1>8. \A x, y \in s1' : x.path = y.path /\ x.n = y.n => x = y
    BY <1>1, <1>2, <1>3, <1>5, <1>6 DEF downloads!TableInv, downloads!TableTypes
  <1>9. downloads!TableTypes'
    BY <1>1, <1>2, <1>3, <1>6, <1>7, <1>8 DEF downloads!TableTypes
  <1>10. ASSUME NEW p \in TablePaths PROVE s7'[p] \subseteq UNION {x.know : x \in downloads!Of(p)'}
    <2>1. s7'[p] = IF p \in ps THEN s7[p] \union know ELSE s7[p]
      BY DEF downloads!Learn
    <2>2. s7[p] \subseteq UNION {r.know : r \in downloads!Of(p)}
      BY DEF downloads!TableInv, downloads!KnownIsKept
    <2>3. s7[p] \subseteq UNION {x.know : x \in downloads!Of(p)'}
      <3> SUFFICES ASSUME NEW c \in s7[p] PROVE \E x \in downloads!Of(p)' : c \in x.know
        OBVIOUS
      <3>1. PICK r \in s1 : r.path = p /\ c \in r.know
        BY <2>2 DEF downloads!Of
      <3>2. up(r) \in downloads!Of(p)' /\ c \in up(r).know
        BY <1>1, <1>2, <3>1 DEF downloads!Of
      <3> QED
        BY <3>2
    <2>4. p \in ps => know \subseteq UNION {x.know : x \in downloads!Of(p)'}
      <3> SUFFICES ASSUME p \in ps, NEW c \in know PROVE \E x \in downloads!Of(p)' : c \in x.know
        OBVIOUS
      <3>1. CASE downloads!Upserts(i, p)
        <4>1. PICK r \in s1 : r.path = p
          BY <3>1 DEF downloads!Upserts, downloads!Of
        <4> QED
          BY <1>1, <1>2, <3>1, <4>1 DEF downloads!Of
      <3>2. CASE ~downloads!Upserts(i, p)
        <4> DEFINE x == [n |-> s2, path |-> p, know |-> know]
        <4>1. x \in s1' /\ x.path = p /\ x.know = know
          BY <1>2, <1>4, <3>2
        <4> HIDE DEF x
        <4> QED
          BY <4>1 DEF downloads!Of
      <3> QED
        BY <3>1, <3>2
    <2> QED
      BY <2>1, <2>3, <2>4
  <1>11. ASSUME s3 PROVE ~downloads!Doubled(s1')
    <2>1. \A r, q \in s1 : r.path = q.path => r = q
      BY <1>11 DEF downloads!TableInv, downloads!KnownIsKept, downloads!Doubled
    <2>2. \A x \in downloads!New(i, ps, know) : downloads!Of(x.path) = {}
      BY <1>3, <1>11 DEF downloads!Refused, downloads!Upserts
    <2>3. \A x \in downloads!New(i, ps, know), r \in s1 : up(r).path # x.path
      BY <1>1, <2>2 DEF downloads!Of
    <2> QED
      BY <1>1, <1>2, <1>5, <2>1, <2>3 DEF downloads!Doubled
  <1> QED
    BY <1>9, <1>10, <1>11 DEF downloads!TableInv, downloads!KnownIsKept

\* A write that is refused only counts.
LEMMA DownloadsPasses == ASSUME downloads!TableInv, s1' = s1, s7' = s7, s2' \in {s2, s2 + 1}, s3' =>
    s3 \/ ~downloads!Doubled(s1)
                PROVE downloads!TableInv'
  BY DEF downloads!TableInv, downloads!TableTypes, downloads!RowState, downloads!KnownIsKept,
     downloads!Of, downloads!Doubled

LEMMA TableStep == downloads!TableInv /\ (downloads!Next \/ UNCHANGED downloads!vars) => downloads!TableInv'
  <1>1. ASSUME downloads!TableInv, UNCHANGED downloads!vars \/ downloads!Opening \/ downloads!Kill
          \/ downloads!AddChannel
    PROVE downloads!TableInv'
    <2>1. s1' = s1 /\ s7' = s7 /\ s2' = s2 /\ (s3' => s3 \/ ~downloads!Doubled(s1))
      <3>1. CASE UNCHANGED downloads!vars
        BY <3>1 DEF downloads!vars
      <3>2. ASSUME NEW i \in downloads!Openers, downloads!Open(i) \/ downloads!Alter(i)
              \/ downloads!DropCutoff(i) \/ downloads!Close(i)
            PROVE  s1' = s1 /\ s7' = s7 /\ s2' = s2 /\ s3' = s3
        BY <3>2 DEF downloads!Open, downloads!Alter, downloads!DropCutoff, downloads!Close,
           downloads!table
      <3>3. ASSUME NEW i \in downloads!Openers, downloads!TryUniquePathIndex(i)
            PROVE  s1' = s1 /\ s7' = s7 /\ s2' = s2 /\ (s3' => s3 \/ ~downloads!Doubled(s1))
        <4>1. s3' = (s3 \/ ~downloads!Doubled(s1)) \/ s3' = s3
          BY <3>3 DEF downloads!TryUniquePathIndex
        <4>2. s3' => s3 \/ ~downloads!Doubled(s1)
          BY <4>1, Zenon
        <4>3. s1' = s1 /\ s7' = s7 /\ s2' = s2
          BY <3>3 DEF downloads!TryUniquePathIndex, downloads!table
        <4> QED
          BY <4>2, <4>3
      <3>4. CASE downloads!Kill \/ downloads!AddChannel
        BY <3>4 DEF downloads!Kill, downloads!AddChannel, downloads!table
      <3> QED
        BY <1>1, <3>1, <3>2, <3>3, <3>4 DEF downloads!Opening
    <2> QED
      BY <1>1, <2>1, DownloadsPasses
  <1>2. ASSUME downloads!TableInv, NEW i \in downloads!Openers, downloads!Fetch(i) PROVE downloads!TableInv'
    <2>1. PICK p \in TablePaths, video \in BOOLEAN :
            LET know == {"bitrate"} \union (IF video THEN {"video"} ELSE {}) IN
            IF downloads!Refused(i, {p}) THEN s8' = s8 \union {"download"} /\ UNCHANGED <<s1, s7>>
            ELSE /\ s1' = downloads!Upserted(i, {p}, know) \union downloads!New(i, {p}, know)
                 /\ downloads!Learn({p}, know) /\ UNCHANGED s8
      BY <1>2 DEF downloads!Fetch
    <2> DEFINE know == {"bitrate"} \union (IF video THEN {"video"} ELSE {})
    <2>2. know \in SUBSET downloads!Columns /\ s2' = s2 + 1 /\ s3' = s3 /\ {p} \in SUBSET TablePaths
      BY <1>2 DEF downloads!Columns, downloads!Fetch
    <2>3. CASE downloads!Refused(i, {p})
      BY <1>2, <2>1, <2>2, <2>3, DownloadsPasses
    <2>4. CASE ~downloads!Refused(i, {p})
      <3>1. s1' = downloads!Upserted(i, {p}, know) \union downloads!New(i, {p}, know)
              /\ downloads!Learn({p}, know)
        BY <2>1, <2>4
      <3> HIDE DEF know
      <3> QED
        BY <1>2, <2>2, <2>4, <3>1, DownloadsWrites
    <2> QED
      BY <2>3, <2>4
  <1>3. ASSUME downloads!TableInv, downloads!Backfill PROVE downloads!TableInv'
    <2>1. PICK ps \in SUBSET TablePaths :
            IF downloads!Refused("watch", ps) THEN s8' = s8 \union {"scan"} /\ UNCHANGED <<s1, s7>>
            ELSE /\ s1' = downloads!Upserted("watch", ps, {"video"}) \union downloads!New("watch", ps, {"video"})
                 /\ downloads!Learn(ps, {"video"}) /\ UNCHANGED s8
      BY <1>3 DEF downloads!Backfill
    <2>2. {"video"} \in SUBSET downloads!Columns /\ "watch" \in downloads!Openers /\ s2' = s2 + 1 /\ s3' = s3
      BY <1>3 DEF downloads!Columns, downloads!Openers, downloads!Backfill
    <2>3. CASE downloads!Refused("watch", ps)
      BY <1>3, <2>1, <2>2, <2>3, DownloadsPasses
    <2>4. CASE ~downloads!Refused("watch", ps)
      BY <1>3, <2>1, <2>2, <2>4, DownloadsWrites
    <2> QED
      BY <2>3, <2>4
  <1>4. ASSUME downloads!TableInv, downloads!Delete PROVE downloads!TableInv'
    <2>1. PICK p \in TablePaths : s1' = s1 \ downloads!Of(p) /\ s7' = [s7 EXCEPT ![p] = {}]
      BY <1>4 DEF downloads!Delete
    <2>2. s2' = s2 /\ s3' = s3
      BY <1>4 DEF downloads!Delete
    <2> QED
      BY <1>4, <2>1, <2>2 DEF downloads!TableInv, downloads!TableTypes, downloads!KnownIsKept,
         downloads!Of, downloads!Doubled
  <1> QED
    BY <1>1, <1>2, <1>3, <1>4, Dedupes DEF downloads!Next

-----------------------------------------------------------------------------
(* TagRepair: a tag that is wrong is on somebody's list, or was told of. *)

LEMMA OneChannel == ASSUME NEW c \in TagChannels, NEW t \in TagTracks[c] PROVE tags!ChannelOf(t) = c
  BY TracksAssumption DEF tags!ChannelOf

LEMMA TrackHasOne == ASSUME NEW t \in tags!AllTracks
  PROVE tags!ChannelOf(t) \in TagChannels /\ t \in TagTracks[tags!ChannelOf(t)]
  BY DEF tags!AllTracks, tags!ChannelOf

LEMMA TagInit == tags!Init => tags!TagInv
  BY DEF tags!Init, tags!TagInv, tags!TagTypes, tags!TagState, tags!SweepState, tags!RetagState,
     tags!EditState, tags!WorkIsNamed, tags!FoldersExist, tags!TypedStays, tags!CaredNow,
     tags!SweptOrAhead, tags!Resting,
     tags!NoRetag, tags!NoEdit, tags!Sweeping, tags!Retagging

\* A repair sets the genre and fills the title, or is a failure somebody is told of.
LEMMA RepairSets ==
  ASSUME tags!TagInv, NEW t \in tags!AllTracks, NEW g \in TagGenres,
      NEW title \in {"absent", "real", "filename"},
         tags!Repair(t, g, title), UNCHANGED s4
  PROVE  /\ s3' \in [tags!AllTracks -> tags!TagState]
         /\ tags!TypedStays'
         /\ \/ /\ s3'[t].genre = g /\ \A u \in tags!AllTracks \ {t} : s3'[u] = s3[u]
               /\ UNCHANGED tags!ghosts
            \/ s3' = s3 /\ tags!Excuse(tags!ChannelOf(t))
  <1>1. CASE s3' = s3 /\ tags!Excuse(tags!ChannelOf(t))
    BY <1>1 DEF tags!TagInv, tags!TagTypes, tags!TypedStays
  <1>2. CASE UNCHANGED tags!ghosts
          /\ s3' = [s3 EXCEPT ![t] = [genre |-> tags!Forced(@.genre, g), title |-> tags!Filled(@.title, title)]]
    <2> DEFINE new == [genre |-> g, title |-> tags!Filled(s3[t].title, title)]
    <2>1. s3' = [s3 EXCEPT ![t] = new]
      BY <1>2 DEF tags!Forced
    <2>2. /\ new \in tags!TagState
          /\ new.genre = g
          /\ s3[t].title = "typed" => new.title = "typed"
      BY DEF tags!Filled, tags!TagInv, tags!TagTypes, tags!TagState
    <2> HIDE DEF new
    <2>3. /\ s3' \in [tags!AllTracks -> tags!TagState]
          /\ s3'[t] = new /\ \A u \in tags!AllTracks \ {t} : s3'[u] = s3[u]
      BY <2>1, <2>2 DEF tags!TagInv, tags!TagTypes
    <2>4. tags!TypedStays'
      BY <2>2, <2>3 DEF tags!TypedStays, tags!TagInv, tags!TagTypes, tags!TagState
    <2> QED
      BY <1>2, <2>2, <2>3, <2>4
  <1> QED
    BY <1>1, <1>2 DEF tags!Repair

\* A repair to the genre its channel is in leaves no other channel worse off.
LEMMA RepairCares ==
  ASSUME tags!TagInv, NEW t \in tags!AllTracks, NEW title \in {"absent", "real", "filename"},
         tags!Repair(t, s1[tags!ChannelOf(t)], title), UNCHANGED <<s4, s1>>,
         NEW c \in TagChannels
  PROVE  /\ c \notin s10' => c \notin s10
         /\ c \notin s11' => c \notin s11
         /\ tags!Wrong(c)' \subseteq tags!Wrong(c)
         /\ t \in tags!Wrong(c)' => c \in s10' /\ c \in s11'
  <1> DEFINE g == s1[tags!ChannelOf(t)]
  <1>1. tags!ChannelOf(t) \in TagChannels /\ g \in TagGenres
    BY TrackHasOne DEF tags!TagInv, tags!TagTypes
  <1>2. tags!Repair(t, g, title)
    OBVIOUS
  <1> HIDE DEF g
  <1>3. \/ /\ s3'[t].genre = g /\ \A u \in tags!AllTracks \ {t} : s3'[u] = s3[u]
           /\ UNCHANGED tags!ghosts
        \/ s3' = s3 /\ tags!Excuse(tags!ChannelOf(t))
    BY <1>1, <1>2, RepairSets
  <1>4. TagTracks[c] \subseteq tags!AllTracks
    BY DEF tags!AllTracks
  <1>5. t \in TagTracks[c] => tags!ChannelOf(t) = c
    BY OneChannel
  <1>6. CASE s3' = s3 /\ tags!Excuse(tags!ChannelOf(t))
    BY <1>5, <1>6 DEF tags!Excuse, tags!Wrong
  <1>7. CASE s3'[t].genre = g /\ (\A u \in tags!AllTracks \ {t} : s3'[u] = s3[u]) /\ UNCHANGED tags!ghosts
    BY <1>4, <1>5, <1>7 DEF tags!Wrong, tags!ghosts, g
  <1> QED
    BY <1>3, <1>6, <1>7

\* A step that leaves folders and tags alone, and moves, retags and the sweep as they are.
LEMMA StillCared ==
  ASSUME NEW c \in TagChannels, tags!Cared(c), UNCHANGED <<s1, s3, s8>>,
         \A e \in Editors : s9[e].pc = "retag" => s9'[e] = s9[e]
  PROVE  tags!Cared(c)'
  BY DEF tags!Cared, tags!Wrong, tags!ToRetag, tags!InRetag

\* What each record becomes where a step changes some of its fields.
LEMMA EditTurns ==
  ASSUME tags!TagInv, NEW e \in Editors, NEW pc \in {"rest", "mkdir", "move", "retag"},
         s9' = [s9 EXCEPT ![e].pc = pc]
  PROVE  /\ s9' \in [Editors -> tags!EditState]
         /\ s9'[e].pc = pc /\ s9'[e].channel = s9[e].channel /\ s9'[e].to = s9[e].to
         /\ \A f \in Editors \ {e} : s9'[f] = s9[f]
  <1> DEFINE new == [s9[e] EXCEPT !.pc = pc]
  <1>1. /\ new \in tags!EditState /\ new.pc = pc
        /\ new.channel = s9[e].channel /\ new.to = s9[e].to
    BY DEF tags!TagInv, tags!TagTypes, tags!EditState
  <1>2. s9' = [s9 EXCEPT ![e] = new]
    OBVIOUS
  <1> HIDE DEF new
  <1> QED
    BY <1>1, <1>2 DEF tags!TagInv, tags!TagTypes

LEMMA EditSet ==
  ASSUME tags!TagInv, NEW e \in Editors, NEW new \in tags!EditState, s9' = [s9 EXCEPT ![e] = new]
  PROVE  /\ s9' \in [Editors -> tags!EditState] /\ s9'[e] = new
         /\ \A f \in Editors \ {e} : s9'[f] = s9[f]
  BY DEF tags!TagInv, tags!TagTypes

LEMMA TagsAtRest == tags!NoEdit \in tags!EditState /\ tags!NoEdit.pc = "rest"
  BY DEF tags!NoEdit, tags!EditState

\* Walks name their tracks.
LEMMA TracksAreAll == \A c \in TagChannels : TagTracks[c] \subseteq tags!AllTracks
  BY DEF tags!AllTracks

LEMMA SweepTakes ==
  ASSUME tags!TagInv, NEW t, s6' = [s6 EXCEPT !.tracks = @ \ {t}]
  PROVE  /\ s6' \in tags!SweepState /\ s6'.pc = s6.pc /\ s6'.dirs = s6.dirs
         /\ s6'.channels = s6.channels /\ s6'.genre = s6.genre
         /\ s6'.tracks = s6.tracks \ {t}
  BY DEF tags!TagInv, tags!TagTypes, tags!SweepState

LEMMA RetagTakes ==
  ASSUME tags!TagInv, NEW t, s8' = [s8 EXCEPT !.tracks = @ \ {t}]
  PROVE  /\ s8' \in tags!RetagState /\ s8'.pc = s8.pc /\ s8'.channel = s8.channel
         /\ s8'.genre = s8.genre /\ s8'.tracks = s8.tracks \ {t}
  BY DEF tags!TagInv, tags!TagTypes, tags!RetagState

\* A track of a walk at its channel's genre is repaired, or was moved away.
LEMMA SweepRepairs ==
  ASSUME tags!TagInv, NEW t \in tags!AllTracks, tags!SweepTrack(t)
  PROVE  /\ s6.pc = "walk" /\ s6' = [s6 EXCEPT !.tracks = @ \ {t}]
         /\ UNCHANGED <<s1, s2, s4, s5, s7, s8, s9>>
         /\ \/ UNCHANGED <<s3, tags!ghosts>> /\ s1[tags!ChannelOf(t)] # s6.genre
            \/ \E title \in {"absent", "real", "filename"} :
                  /\ s1[tags!ChannelOf(t)] = s6.genre /\ tags!Repair(t, s1[tags!ChannelOf(t)], title)
  <1>1. tags!TitleFor(t, s6.genre) \in {"absent", "real", "filename"}
    BY DEF tags!TitleFor
  <1> QED
    BY <1>1 DEF tags!SweepTrack

LEMMA RetagRepairs ==
  ASSUME tags!TagInv, NEW t \in tags!AllTracks, tags!RetagTrack(t)
  PROVE  /\ s8.pc = "walk" /\ s8' = [s8 EXCEPT !.tracks = @ \ {t}]
         /\ UNCHANGED <<s1, s2, s4, tags!jobs, s9>>
         /\ \/ UNCHANGED <<s3, tags!ghosts>> /\ s1[tags!ChannelOf(t)] # s8.genre
            \/ \E title \in {"absent", "real", "filename"} :
                  /\ s1[tags!ChannelOf(t)] = s8.genre /\ tags!Repair(t, s1[tags!ChannelOf(t)], title)
  BY DEF tags!RetagTrack

LEMMA RepairKeeps ==
  ASSUME tags!TagInv, NEW t \in tags!AllTracks, NEW title \in {"absent", "real", "filename"},
         tags!Repair(t, s1[tags!ChannelOf(t)], title), UNCHANGED s4
  PROVE  s3' \in [tags!AllTracks -> tags!TagState] /\ tags!TypedStays'
  <1>1. s1[tags!ChannelOf(t)] \in TagGenres
    BY TrackHasOne DEF tags!TagInv, tags!TagTypes
  <1> QED
    BY <1>1, RepairSets

\* Whoever moves a folder has its retag to come.
LEMMA MoveCares ==
  ASSUME tags!TagInv, NEW e \in Editors, tags!Move(e), NEW c \in TagChannels
  PROVE  (tags!Cared(c) => tags!Cared(c)') /\ (tags!Ahead(c) => tags!Cared(c)' \/ tags!Ahead(c)')
  <1>1. s9[e].pc = "move" /\ s9[e].channel \in TagChannels /\ UNCHANGED <<s3, s6, s8>>
    BY DEF tags!Move, tags!TagInv, tags!WorkIsNamed, tags!tags, tags!jobs
  <1>2. CASE s1[s9[e].channel] = s9[e].from
    <2>1. /\ s1' = [s1 EXCEPT ![s9[e].channel] = s9[e].to]
          /\ s9' = [s9 EXCEPT ![e].pc = "retag"]
      BY <1>2 DEF tags!Move
    <2>2. /\ s9'[e].pc = "retag" /\ s9'[e].channel = s9[e].channel /\ s9'[e].to = s9[e].to
          /\ \A f \in Editors \ {e} : s9'[f] = s9[f]
      BY <2>1, EditTurns
    <2>3. CASE c = s9[e].channel
      <3>1. s1'[c] = s9[e].to
        BY <1>1, <2>1, <2>3 DEF tags!TagInv, tags!TagTypes
      <3> QED
        BY <2>2, <2>3, <3>1 DEF tags!Cared, tags!ToRetag
    <2>4. CASE c # s9[e].channel
      <3>1. s1'[c] = s1[c]
        BY <2>1, <2>4 DEF tags!TagInv, tags!TagTypes
      <3>2. tags!ToRetag(c) => tags!ToRetag(c)'
        BY <1>1, <2>2, <3>1 DEF tags!ToRetag
      <3> QED
        BY <1>1, <3>1, <3>2 DEF tags!Cared, tags!InRetag, tags!Wrong, tags!Ahead
    <2> QED
      BY <2>3, <2>4
  <1>3. CASE s1[s9[e].channel] # s9[e].from
    <2>1. s1' = s1 /\ \A f \in Editors : s9[f].pc = "retag" => s9'[f] = s9[f]
      BY <1>1, <1>3, EditSet, TagsAtRest DEF tags!Move
    <2> QED
      BY <1>1, <2>1, StillCared DEF tags!Ahead, tags!Wrong
  <1> QED
    BY <1>2, <1>3

LEMMA RefusedCares ==
  ASSUME tags!TagInv, NEW e \in Editors, tags!RetagRefused(e),
      NEW c \in TagChannels, c # s9[e].channel, tags!Cared(c)
  PROVE  tags!Cared(c)'
  <1>1. UNCHANGED <<s1, s3, s8>> /\ \A f \in Editors \ {e} : s9'[f] = s9[f]
    BY EditSet, TagsAtRest DEF tags!RetagRefused, tags!tags
  <1> QED
    BY <1>1 DEF tags!Cared, tags!ToRetag, tags!InRetag, tags!Wrong

LEMMA TypesStep == ASSUME tags!TagInv, tags!Next \/ UNCHANGED tags!vars PROVE tags!TagTypes'
  <1>1. ASSUME tags!StartSweep PROVE tags!TagTypes'
    BY <1>1 DEF tags!TagInv, tags!TagTypes, tags!TagState, tags!SweepState, tags!RetagState,
       tags!EditState, tags!Sweeping, tags!Retagging, tags!AllTracks, tags!StartSweep,
       tags!Resting, tags!jobs, tags!tags, tags!ghosts
  <1>2. ASSUME tags!EnterGenre PROVE tags!TagTypes'
    <2>1. PICK g \in s6.dirs : s6' = [s6 EXCEPT !.dirs = @ \ {g}, !.genre = g,
                                         !.channels = {c \in TagChannels : s1[c] = g}]
      BY <1>2 DEF tags!EnterGenre
    <2>2. s6' \in tags!SweepState
      BY <2>1 DEF tags!TagInv, tags!TagTypes, tags!SweepState
    <2> QED
      BY <1>2, <2>2 DEF tags!EnterGenre, tags!TagInv, tags!TagTypes, tags!tags
  <1>3. ASSUME tags!EndSweep PROVE tags!TagTypes'
    BY <1>3 DEF tags!TagInv, tags!TagTypes, tags!TagState, tags!SweepState, tags!RetagState,
       tags!EditState, tags!Sweeping, tags!Retagging, tags!AllTracks, tags!EndSweep, tags!Resting,
       tags!jobs, tags!tags, tags!ghosts
  <1>4. ASSUME tags!Cancel PROVE tags!TagTypes'
    BY <1>4 DEF tags!TagInv, tags!TagTypes, tags!TagState, tags!SweepState, tags!RetagState,
       tags!EditState, tags!Sweeping, tags!Retagging, tags!AllTracks, tags!Cancel, tags!jobs,
       tags!tags, tags!ghosts
  <1>5. ASSUME tags!ListRetag PROVE tags!TagTypes'
    <2>1. s8.channel \in TagChannels
      BY <1>5 DEF tags!ListRetag, tags!TagInv, tags!WorkIsNamed, tags!Retagging
    <2>2. s8' \in tags!RetagState
      BY <1>5, <2>1, TracksAreAll DEF tags!ListRetag, tags!TagInv, tags!TagTypes, tags!RetagState
    <2> QED
      BY <1>5, <2>2 DEF tags!ListRetag, tags!TagInv, tags!TagTypes, tags!tags, tags!jobs
  <1>6. ASSUME tags!EndRetag PROVE tags!TagTypes'
    BY <1>6 DEF tags!TagInv, tags!TagTypes, tags!TagState, tags!SweepState, tags!RetagState,
       tags!EditState, tags!Sweeping, tags!Retagging, tags!AllTracks, tags!EndRetag, tags!NoRetag,
       tags!jobs, tags!tags, tags!ghosts
  <1>7. ASSUME tags!Kill PROVE tags!TagTypes'
    BY <1>7 DEF tags!TagInv, tags!TagTypes, tags!TagState, tags!SweepState, tags!RetagState,
       tags!EditState, tags!Sweeping, tags!Retagging, tags!AllTracks, tags!Kill, tags!Resting,
       tags!NoRetag, tags!NoEdit, tags!jobs, tags!tags, tags!ghosts
  <1>8. ASSUME NEW c \in TagChannels, tags!EnterChannel(c) PROVE tags!TagTypes'
    <2>1. s6' \in tags!SweepState
      BY <1>8, TracksAreAll DEF tags!EnterChannel, tags!TagInv, tags!TagTypes, tags!SweepState
    <2> QED
      BY <1>8, <2>1 DEF tags!EnterChannel, tags!TagInv, tags!TagTypes, tags!tags
  <1>9. ASSUME NEW t \in tags!AllTracks, tags!SweepTrack(t) PROVE tags!TagTypes'
    BY <1>9, SweepRepairs, SweepTakes, RepairKeeps DEF tags!TagInv, tags!TagTypes, tags!ghosts
  <1>10. ASSUME NEW t \in tags!AllTracks, tags!RetagTrack(t) PROVE tags!TagTypes'
    BY <1>10, RetagRepairs, RetagTakes, RepairKeeps DEF tags!TagInv, tags!TagTypes, tags!ghosts,
       tags!jobs
  <1>11. ASSUME NEW t \in tags!AllTracks, tags!Type(t) PROVE tags!TagTypes'
    BY <1>11 DEF tags!TagInv, tags!TagTypes, tags!TagState, tags!SweepState, tags!RetagState,
       tags!EditState, tags!Sweeping, tags!Retagging, tags!AllTracks, tags!Type, tags!jobs,
       tags!tags, tags!ghosts
  <1>12. ASSUME NEW e \in Editors, tags!MakeDir(e) PROVE tags!TagTypes'
    <2>1. s9' \in [Editors -> tags!EditState] /\ s9[e].to \in TagGenres
      BY <1>12, EditTurns DEF tags!MakeDir, tags!TagInv, tags!WorkIsNamed
    <2> QED
      BY <1>12, <2>1 DEF tags!MakeDir, tags!TagInv, tags!TagTypes, tags!tags, tags!jobs
  <1>13. ASSUME NEW e \in Editors, tags!Move(e) PROVE tags!TagTypes'
    <2>1. s9[e].channel \in TagChannels /\ s9[e].to \in TagGenres
      BY <1>13 DEF tags!Move, tags!TagInv, tags!WorkIsNamed
    <2>2. s9' \in [Editors -> tags!EditState]
      BY <1>13, EditTurns, EditSet, TagsAtRest DEF tags!Move
    <2>3. s1' \in [TagChannels -> TagGenres] /\ s2' \subseteq TagGenres
      BY <1>13, <2>1 DEF tags!Move, tags!TagInv, tags!TagTypes
    <2> QED
      BY <1>13, <2>2, <2>3 DEF tags!Move, tags!TagInv, tags!TagTypes, tags!tags, tags!jobs
  <1>14. ASSUME NEW e \in Editors, tags!RetagClaimed(e) PROVE tags!TagTypes'
    BY <1>14 DEF tags!TagInv, tags!TagTypes, tags!TagState, tags!SweepState, tags!RetagState,
       tags!EditState, tags!Sweeping, tags!Retagging, tags!AllTracks, tags!RetagClaimed,
       tags!NoEdit, tags!jobs, tags!tags, tags!ghosts
  <1>15. ASSUME NEW e \in Editors, tags!RetagRefused(e) PROVE tags!TagTypes'
    BY <1>15 DEF tags!TagInv, tags!TagTypes, tags!TagState, tags!SweepState, tags!RetagState,
       tags!EditState, tags!Sweeping, tags!Retagging, tags!AllTracks, tags!RetagRefused,
       tags!NoEdit, tags!jobs, tags!tags, tags!ghosts
  <1>16. ASSUME NEW e \in Editors, NEW c \in TagChannels, NEW g \in TagGenres, tags!StartEdit(e, c, g)
    PROVE tags!TagTypes'
    BY <1>16 DEF tags!TagInv, tags!TagTypes, tags!TagState, tags!SweepState, tags!RetagState,
       tags!EditState, tags!Sweeping, tags!Retagging, tags!AllTracks, tags!StartEdit, tags!jobs,
       tags!tags, tags!ghosts
  <1>17. ASSUME NEW g \in TagGenres, tags!RemoveFolder(g) PROVE tags!TagTypes'
    BY <1>17 DEF tags!TagInv, tags!TagTypes, tags!TagState, tags!SweepState, tags!RetagState,
       tags!EditState, tags!Sweeping, tags!Retagging, tags!AllTracks, tags!RemoveFolder,
       tags!RemoveGenre, tags!jobs, tags!tags, tags!ghosts
  <1>18. ASSUME NEW g \in TagGenres, tags!CreateFolder(g) PROVE tags!TagTypes'
    BY <1>18 DEF tags!TagInv, tags!TagTypes, tags!TagState, tags!SweepState, tags!RetagState,
       tags!EditState, tags!Sweeping, tags!Retagging, tags!AllTracks, tags!CreateFolder,
       tags!jobs, tags!tags, tags!ghosts
  <1>19. ASSUME UNCHANGED tags!vars PROVE tags!TagTypes'
    BY <1>19 DEF tags!TagInv, tags!vars, tags!TagTypes, tags!TagState, tags!SweepState,
       tags!RetagState, tags!EditState, tags!Sweeping, tags!Retagging, tags!AllTracks, tags!jobs,
       tags!tags, tags!ghosts
  <1> QED
    BY <1>1, <1>2, <1>3, <1>4, <1>5, <1>6, <1>7, <1>8, <1>9, <1>10, <1>11, <1>12, <1>13, <1>14,
       <1>15, <1>16, <1>17, <1>18, <1>19 DEF tags!Next

LEMMA NamedStep == ASSUME tags!TagInv, tags!Next \/ UNCHANGED tags!vars PROVE tags!WorkIsNamed'
  <1>1. ASSUME tags!StartSweep PROVE tags!WorkIsNamed'
    BY <1>1 DEF tags!TagInv, tags!WorkIsNamed, tags!Retagging, tags!TagTypes, tags!RetagState,
       tags!EditState, tags!StartSweep, tags!Resting, tags!jobs, tags!tags, tags!ghosts
  <1>2. ASSUME tags!EnterGenre PROVE tags!WorkIsNamed'
    BY <1>2 DEF tags!TagInv, tags!WorkIsNamed, tags!Retagging, tags!TagTypes, tags!RetagState,
       tags!EditState, tags!EnterGenre, tags!jobs, tags!tags, tags!ghosts
  <1>3. ASSUME tags!EndSweep PROVE tags!WorkIsNamed'
    BY <1>3 DEF tags!TagInv, tags!WorkIsNamed, tags!Retagging, tags!TagTypes, tags!RetagState,
       tags!EditState, tags!EndSweep, tags!Resting, tags!jobs, tags!tags, tags!ghosts
  <1>4. ASSUME tags!Cancel PROVE tags!WorkIsNamed'
    BY <1>4 DEF tags!TagInv, tags!WorkIsNamed, tags!Retagging, tags!TagTypes, tags!RetagState,
       tags!EditState, tags!Cancel, tags!jobs, tags!tags, tags!ghosts
  <1>5. ASSUME tags!ListRetag PROVE tags!WorkIsNamed'
    BY <1>5 DEF tags!TagInv, tags!WorkIsNamed, tags!Retagging, tags!TagTypes, tags!RetagState,
       tags!EditState, tags!ListRetag, tags!jobs, tags!tags, tags!ghosts
  <1>6. ASSUME tags!EndRetag PROVE tags!WorkIsNamed'
    BY <1>6 DEF tags!TagInv, tags!WorkIsNamed, tags!Retagging, tags!TagTypes, tags!RetagState,
       tags!EditState, tags!EndRetag, tags!NoRetag, tags!jobs, tags!tags, tags!ghosts
  <1>7. ASSUME tags!Kill PROVE tags!WorkIsNamed'
    BY <1>7 DEF tags!TagInv, tags!WorkIsNamed, tags!Retagging, tags!TagTypes, tags!RetagState,
       tags!EditState, tags!Kill, tags!Resting, tags!NoRetag, tags!NoEdit, tags!jobs, tags!tags,
       tags!ghosts
  <1>8. ASSUME NEW c \in TagChannels, tags!EnterChannel(c) PROVE tags!WorkIsNamed'
    BY <1>8 DEF tags!TagInv, tags!WorkIsNamed, tags!Retagging, tags!TagTypes, tags!RetagState,
       tags!EditState, tags!EnterChannel, tags!jobs, tags!tags, tags!ghosts
  <1>9. ASSUME NEW t \in tags!AllTracks, tags!SweepTrack(t) PROVE tags!WorkIsNamed'
    BY <1>9 DEF tags!TagInv, tags!WorkIsNamed, tags!Retagging, tags!TagTypes, tags!RetagState,
       tags!EditState, tags!SweepTrack, tags!jobs, tags!tags, tags!ghosts
  <1>10. ASSUME NEW t \in tags!AllTracks, tags!RetagTrack(t) PROVE tags!WorkIsNamed'
    BY <1>10 DEF tags!TagInv, tags!WorkIsNamed, tags!Retagging, tags!TagTypes, tags!RetagState,
       tags!EditState, tags!RetagTrack, tags!jobs, tags!tags, tags!ghosts
  <1>11. ASSUME NEW t \in tags!AllTracks, tags!Type(t) PROVE tags!WorkIsNamed'
    BY <1>11 DEF tags!TagInv, tags!WorkIsNamed, tags!Retagging, tags!TagTypes, tags!RetagState,
       tags!EditState, tags!Type, tags!jobs, tags!tags, tags!ghosts
  <1>12. ASSUME NEW e \in Editors, tags!MakeDir(e) PROVE tags!WorkIsNamed'
    BY <1>12 DEF tags!TagInv, tags!WorkIsNamed, tags!Retagging, tags!TagTypes, tags!RetagState,
       tags!EditState, tags!MakeDir, tags!jobs, tags!tags, tags!ghosts
  <1>13. ASSUME NEW e \in Editors, tags!Move(e) PROVE tags!WorkIsNamed'
    BY <1>13 DEF tags!TagInv, tags!WorkIsNamed, tags!Retagging, tags!TagTypes, tags!RetagState,
       tags!EditState, tags!Move, tags!NoEdit, tags!jobs, tags!tags, tags!ghosts
  <1>14. ASSUME NEW e \in Editors, tags!RetagClaimed(e) PROVE tags!WorkIsNamed'
    BY <1>14 DEF tags!TagInv, tags!WorkIsNamed, tags!Retagging, tags!TagTypes, tags!RetagState,
       tags!EditState, tags!RetagClaimed, tags!NoEdit, tags!jobs, tags!tags, tags!ghosts
  <1>15. ASSUME NEW e \in Editors, tags!RetagRefused(e) PROVE tags!WorkIsNamed'
    BY <1>15 DEF tags!TagInv, tags!WorkIsNamed, tags!Retagging, tags!TagTypes, tags!RetagState,
       tags!EditState, tags!RetagRefused, tags!NoEdit, tags!jobs, tags!tags, tags!ghosts
  <1>16. ASSUME NEW e \in Editors, NEW c \in TagChannels, NEW g \in TagGenres, tags!StartEdit(e, c, g)
    PROVE tags!WorkIsNamed'
    BY <1>16 DEF tags!TagInv, tags!WorkIsNamed, tags!Retagging, tags!TagTypes, tags!RetagState,
       tags!EditState, tags!StartEdit, tags!jobs, tags!tags, tags!ghosts
  <1>17. ASSUME NEW g \in TagGenres, tags!RemoveFolder(g) PROVE tags!WorkIsNamed'
    BY <1>17 DEF tags!TagInv, tags!WorkIsNamed, tags!Retagging, tags!TagTypes, tags!RetagState,
       tags!EditState, tags!RemoveFolder, tags!RemoveGenre, tags!jobs, tags!tags, tags!ghosts
  <1>18. ASSUME NEW g \in TagGenres, tags!CreateFolder(g) PROVE tags!WorkIsNamed'
    BY <1>18 DEF tags!TagInv, tags!WorkIsNamed, tags!Retagging, tags!TagTypes, tags!RetagState,
       tags!EditState, tags!CreateFolder, tags!jobs, tags!tags, tags!ghosts
  <1>19. ASSUME UNCHANGED tags!vars PROVE tags!WorkIsNamed'
    BY <1>19 DEF tags!TagInv, tags!vars, tags!WorkIsNamed, tags!Retagging, tags!TagTypes,
       tags!RetagState, tags!EditState, tags!jobs, tags!tags, tags!ghosts
  <1> QED
    BY <1>1, <1>2, <1>3, <1>4, <1>5, <1>6, <1>7, <1>8, <1>9, <1>10, <1>11, <1>12, <1>13, <1>14,
       <1>15, <1>16, <1>17, <1>18, <1>19 DEF tags!Next

LEMMA TagsFoldersStep == ASSUME tags!TagInv, tags!Next \/ UNCHANGED tags!vars PROVE tags!FoldersExist'
  <1>1. ASSUME tags!StartSweep PROVE tags!FoldersExist'
    BY <1>1 DEF tags!TagInv, tags!FoldersExist, tags!TagTypes, tags!TagState, tags!SweepState,
       tags!RetagState, tags!EditState, tags!WorkIsNamed, tags!StartSweep, tags!Resting,
       tags!jobs, tags!tags, tags!ghosts
  <1>2. ASSUME tags!EnterGenre PROVE tags!FoldersExist'
    BY <1>2 DEF tags!TagInv, tags!FoldersExist, tags!TagTypes, tags!TagState, tags!SweepState,
       tags!RetagState, tags!EditState, tags!WorkIsNamed, tags!EnterGenre, tags!jobs, tags!tags,
       tags!ghosts
  <1>3. ASSUME tags!EndSweep PROVE tags!FoldersExist'
    BY <1>3 DEF tags!TagInv, tags!FoldersExist, tags!TagTypes, tags!TagState, tags!SweepState,
       tags!RetagState, tags!EditState, tags!WorkIsNamed, tags!EndSweep, tags!Resting, tags!jobs,
       tags!tags, tags!ghosts
  <1>4. ASSUME tags!Cancel PROVE tags!FoldersExist'
    BY <1>4 DEF tags!TagInv, tags!FoldersExist, tags!TagTypes, tags!TagState, tags!SweepState,
       tags!RetagState, tags!EditState, tags!WorkIsNamed, tags!Cancel, tags!jobs, tags!tags,
       tags!ghosts
  <1>5. ASSUME tags!ListRetag PROVE tags!FoldersExist'
    BY <1>5 DEF tags!TagInv, tags!FoldersExist, tags!TagTypes, tags!TagState, tags!SweepState,
       tags!RetagState, tags!EditState, tags!WorkIsNamed, tags!ListRetag, tags!jobs, tags!tags,
       tags!ghosts
  <1>6. ASSUME tags!EndRetag PROVE tags!FoldersExist'
    BY <1>6 DEF tags!TagInv, tags!FoldersExist, tags!TagTypes, tags!TagState, tags!SweepState,
       tags!RetagState, tags!EditState, tags!WorkIsNamed, tags!EndRetag, tags!NoRetag, tags!jobs,
       tags!tags, tags!ghosts
  <1>7. ASSUME tags!Kill PROVE tags!FoldersExist'
    BY <1>7 DEF tags!TagInv, tags!FoldersExist, tags!TagTypes, tags!TagState, tags!SweepState,
       tags!RetagState, tags!EditState, tags!WorkIsNamed, tags!Kill, tags!Resting, tags!NoRetag,
       tags!NoEdit, tags!jobs, tags!tags, tags!ghosts
  <1>8. ASSUME NEW c \in TagChannels, tags!EnterChannel(c) PROVE tags!FoldersExist'
    BY <1>8 DEF tags!TagInv, tags!FoldersExist, tags!TagTypes, tags!TagState, tags!SweepState,
       tags!RetagState, tags!EditState, tags!WorkIsNamed, tags!EnterChannel, tags!jobs, tags!tags,
       tags!ghosts
  <1>9. ASSUME NEW t \in tags!AllTracks, tags!SweepTrack(t) PROVE tags!FoldersExist'
    BY <1>9 DEF tags!TagInv, tags!FoldersExist, tags!TagTypes, tags!TagState, tags!SweepState,
       tags!RetagState, tags!EditState, tags!WorkIsNamed, tags!SweepTrack, tags!jobs, tags!tags,
       tags!ghosts
  <1>10. ASSUME NEW t \in tags!AllTracks, tags!RetagTrack(t) PROVE tags!FoldersExist'
    BY <1>10 DEF tags!TagInv, tags!FoldersExist, tags!TagTypes, tags!TagState, tags!SweepState,
       tags!RetagState, tags!EditState, tags!WorkIsNamed, tags!RetagTrack, tags!jobs, tags!tags,
       tags!ghosts
  <1>11. ASSUME NEW t \in tags!AllTracks, tags!Type(t) PROVE tags!FoldersExist'
    BY <1>11 DEF tags!TagInv, tags!FoldersExist, tags!TagTypes, tags!TagState, tags!SweepState,
       tags!RetagState, tags!EditState, tags!WorkIsNamed, tags!Type, tags!jobs, tags!tags,
       tags!ghosts
  <1>12. ASSUME NEW e \in Editors, tags!MakeDir(e) PROVE tags!FoldersExist'
    BY <1>12 DEF tags!TagInv, tags!FoldersExist, tags!TagTypes, tags!TagState, tags!SweepState,
       tags!RetagState, tags!EditState, tags!WorkIsNamed, tags!MakeDir, tags!jobs, tags!tags,
       tags!ghosts
  <1>13. ASSUME NEW e \in Editors, tags!Move(e) PROVE tags!FoldersExist'
    BY <1>13 DEF tags!TagInv, tags!FoldersExist, tags!TagTypes, tags!TagState, tags!SweepState,
       tags!RetagState, tags!EditState, tags!WorkIsNamed, tags!Move, tags!NoEdit, tags!jobs,
       tags!tags, tags!ghosts
  <1>14. ASSUME NEW e \in Editors, tags!RetagClaimed(e) PROVE tags!FoldersExist'
    BY <1>14 DEF tags!TagInv, tags!FoldersExist, tags!TagTypes, tags!TagState, tags!SweepState,
       tags!RetagState, tags!EditState, tags!WorkIsNamed, tags!RetagClaimed, tags!NoEdit,
       tags!jobs, tags!tags, tags!ghosts
  <1>15. ASSUME NEW e \in Editors, tags!RetagRefused(e) PROVE tags!FoldersExist'
    BY <1>15 DEF tags!TagInv, tags!FoldersExist, tags!TagTypes, tags!TagState, tags!SweepState,
       tags!RetagState, tags!EditState, tags!WorkIsNamed, tags!RetagRefused, tags!NoEdit,
       tags!jobs, tags!tags, tags!ghosts
  <1>16. ASSUME NEW e \in Editors, NEW c \in TagChannels, NEW g \in TagGenres, tags!StartEdit(e, c, g)
    PROVE tags!FoldersExist'
    BY <1>16 DEF tags!TagInv, tags!FoldersExist, tags!TagTypes, tags!TagState, tags!SweepState,
       tags!RetagState, tags!EditState, tags!WorkIsNamed, tags!StartEdit, tags!jobs, tags!tags,
       tags!ghosts
  <1>17. ASSUME NEW g \in TagGenres, tags!RemoveFolder(g) PROVE tags!FoldersExist'
    BY <1>17 DEF tags!TagInv, tags!FoldersExist, tags!TagTypes, tags!TagState, tags!SweepState,
       tags!RetagState, tags!EditState, tags!WorkIsNamed, tags!RemoveFolder, tags!RemoveGenre,
       tags!jobs, tags!tags, tags!ghosts
  <1>18. ASSUME NEW g \in TagGenres, tags!CreateFolder(g) PROVE tags!FoldersExist'
    BY <1>18 DEF tags!TagInv, tags!FoldersExist, tags!TagTypes, tags!TagState, tags!SweepState,
       tags!RetagState, tags!EditState, tags!WorkIsNamed, tags!CreateFolder, tags!jobs, tags!tags,
       tags!ghosts
  <1>19. ASSUME UNCHANGED tags!vars PROVE tags!FoldersExist'
    BY <1>19 DEF tags!TagInv, tags!vars, tags!FoldersExist, tags!TagTypes, tags!TagState,
       tags!SweepState, tags!RetagState, tags!EditState, tags!WorkIsNamed, tags!jobs, tags!tags,
       tags!ghosts
  <1> QED
    BY <1>1, <1>2, <1>3, <1>4, <1>5, <1>6, <1>7, <1>8, <1>9, <1>10, <1>11, <1>12, <1>13, <1>14,
       <1>15, <1>16, <1>17, <1>18, <1>19 DEF tags!Next

LEMMA TypedStep == ASSUME tags!TagInv, tags!Next \/ UNCHANGED tags!vars PROVE tags!TypedStays'
  <1>1. ASSUME tags!StartSweep PROVE tags!TypedStays'
    BY <1>1 DEF tags!TagInv, tags!TypedStays, tags!TagTypes, tags!TagState, tags!StartSweep,
       tags!Resting, tags!jobs, tags!tags, tags!ghosts
  <1>2. ASSUME tags!EnterGenre PROVE tags!TypedStays'
    BY <1>2 DEF tags!TagInv, tags!TypedStays, tags!TagTypes, tags!TagState, tags!EnterGenre,
       tags!jobs, tags!tags, tags!ghosts
  <1>3. ASSUME tags!EndSweep PROVE tags!TypedStays'
    BY <1>3 DEF tags!TagInv, tags!TypedStays, tags!TagTypes, tags!TagState, tags!EndSweep,
       tags!Resting, tags!jobs, tags!tags, tags!ghosts
  <1>4. ASSUME tags!Cancel PROVE tags!TypedStays'
    BY <1>4 DEF tags!TagInv, tags!TypedStays, tags!TagTypes, tags!TagState, tags!Cancel,
       tags!jobs, tags!tags, tags!ghosts
  <1>5. ASSUME tags!ListRetag PROVE tags!TypedStays'
    BY <1>5 DEF tags!TagInv, tags!TypedStays, tags!TagTypes, tags!TagState, tags!ListRetag,
       tags!jobs, tags!tags, tags!ghosts
  <1>6. ASSUME tags!EndRetag PROVE tags!TypedStays'
    BY <1>6 DEF tags!TagInv, tags!TypedStays, tags!TagTypes, tags!TagState, tags!EndRetag,
       tags!NoRetag, tags!jobs, tags!tags, tags!ghosts
  <1>7. ASSUME tags!Kill PROVE tags!TypedStays'
    BY <1>7 DEF tags!TagInv, tags!TypedStays, tags!TagTypes, tags!TagState, tags!Kill,
       tags!Resting, tags!NoRetag, tags!NoEdit, tags!jobs, tags!tags, tags!ghosts
  <1>8. ASSUME NEW c \in TagChannels, tags!EnterChannel(c) PROVE tags!TypedStays'
    BY <1>8 DEF tags!TagInv, tags!TypedStays, tags!TagTypes, tags!TagState, tags!EnterChannel,
       tags!jobs, tags!tags, tags!ghosts
  <1>9. ASSUME NEW t \in tags!AllTracks, tags!SweepTrack(t) PROVE tags!TypedStays'
    BY <1>9, SweepRepairs, RepairKeeps DEF tags!TagInv, tags!TypedStays
  <1>10. ASSUME NEW t \in tags!AllTracks, tags!RetagTrack(t) PROVE tags!TypedStays'
    BY <1>10, RetagRepairs, RepairKeeps DEF tags!TagInv, tags!TypedStays
  <1>11. ASSUME NEW t \in tags!AllTracks, tags!Type(t) PROVE tags!TypedStays'
    BY <1>11 DEF tags!TagInv, tags!TypedStays, tags!TagTypes, tags!TagState, tags!Type, tags!jobs,
       tags!tags, tags!ghosts
  <1>12. ASSUME NEW e \in Editors, tags!MakeDir(e) PROVE tags!TypedStays'
    BY <1>12 DEF tags!TagInv, tags!TypedStays, tags!TagTypes, tags!TagState, tags!MakeDir,
       tags!jobs, tags!tags, tags!ghosts
  <1>13. ASSUME NEW e \in Editors, tags!Move(e) PROVE tags!TypedStays'
    BY <1>13 DEF tags!TagInv, tags!TypedStays, tags!TagTypes, tags!TagState, tags!Move,
       tags!NoEdit, tags!jobs, tags!tags, tags!ghosts
  <1>14. ASSUME NEW e \in Editors, tags!RetagClaimed(e) PROVE tags!TypedStays'
    BY <1>14 DEF tags!TagInv, tags!TypedStays, tags!TagTypes, tags!TagState, tags!RetagClaimed,
       tags!NoEdit, tags!jobs, tags!tags, tags!ghosts
  <1>15. ASSUME NEW e \in Editors, tags!RetagRefused(e) PROVE tags!TypedStays'
    BY <1>15 DEF tags!TagInv, tags!TypedStays, tags!TagTypes, tags!TagState, tags!RetagRefused,
       tags!NoEdit, tags!jobs, tags!tags, tags!ghosts
  <1>16. ASSUME NEW e \in Editors, NEW c \in TagChannels, NEW g \in TagGenres, tags!StartEdit(e, c, g)
    PROVE tags!TypedStays'
    BY <1>16 DEF tags!TagInv, tags!TypedStays, tags!TagTypes, tags!TagState, tags!StartEdit,
       tags!jobs, tags!tags, tags!ghosts
  <1>17. ASSUME NEW g \in TagGenres, tags!RemoveFolder(g) PROVE tags!TypedStays'
    BY <1>17 DEF tags!TagInv, tags!TypedStays, tags!TagTypes, tags!TagState, tags!RemoveFolder,
       tags!RemoveGenre, tags!jobs, tags!tags, tags!ghosts
  <1>18. ASSUME NEW g \in TagGenres, tags!CreateFolder(g) PROVE tags!TypedStays'
    BY <1>18 DEF tags!TagInv, tags!TypedStays, tags!TagTypes, tags!TagState, tags!CreateFolder,
       tags!jobs, tags!tags, tags!ghosts
  <1>19. ASSUME UNCHANGED tags!vars PROVE tags!TypedStays'
    BY <1>19 DEF tags!TagInv, tags!vars, tags!TypedStays, tags!TagTypes, tags!TagState, tags!jobs,
       tags!tags, tags!ghosts
  <1> QED
    BY <1>1, <1>2, <1>3, <1>4, <1>5, <1>6, <1>7, <1>8, <1>9, <1>10, <1>11, <1>12, <1>13, <1>14,
       <1>15, <1>16, <1>17, <1>18, <1>19 DEF tags!Next

LEMMA CaredStep == ASSUME tags!TagInv, tags!Next \/ UNCHANGED tags!vars PROVE tags!CaredNow'
  <1>1. ASSUME tags!StartSweep PROVE tags!CaredNow'
    BY <1>1 DEF tags!TagInv, tags!CaredNow, tags!Cared, tags!Wrong, tags!ToRetag, tags!InRetag,
       tags!Sweeping, tags!Retagging, tags!TagTypes, tags!TagState, tags!SweepState,
       tags!RetagState, tags!EditState, tags!WorkIsNamed, tags!StartSweep, tags!Resting,
       tags!jobs, tags!tags, tags!ghosts
  <1>2. ASSUME tags!EnterGenre PROVE tags!CaredNow'
    BY <1>2 DEF tags!TagInv, tags!CaredNow, tags!Cared, tags!Wrong, tags!ToRetag, tags!InRetag,
       tags!Sweeping, tags!Retagging, tags!TagTypes, tags!TagState, tags!SweepState,
       tags!RetagState, tags!EditState, tags!WorkIsNamed, tags!EnterGenre, tags!jobs, tags!tags,
       tags!ghosts
  <1>3. ASSUME tags!EndSweep PROVE tags!CaredNow'
    <2>1. ASSUME NEW c \in TagChannels \ s10' PROVE tags!Cared(c)
      <3>1. CASE s10' = s10
        BY <2>1, <3>1 DEF tags!TagInv, tags!CaredNow
      <3>2. CASE /\ s6.tracks = {} /\ s6.channels = {} /\ s6.dirs = {}
                 /\ s10' = s11
        <4>1. tags!Cared(c) \/ tags!Ahead(c)
          BY <1>3, <2>1, <3>2 DEF tags!EndSweep, tags!TagInv, tags!SweptOrAhead, tags!Sweeping
        <4> QED
          BY <3>2, <4>1 DEF tags!Ahead, tags!Cared
      <3> QED
        BY <1>3, <3>1, <3>2 DEF tags!EndSweep
    <2> QED
      BY <1>3, <2>1, StillCared DEF tags!EndSweep, tags!CaredNow, tags!tags
  <1>4. ASSUME tags!Cancel PROVE tags!CaredNow'
    BY <1>4 DEF tags!TagInv, tags!CaredNow, tags!Cared, tags!Wrong, tags!ToRetag, tags!InRetag,
       tags!Sweeping, tags!Retagging, tags!TagTypes, tags!TagState, tags!SweepState,
       tags!RetagState, tags!EditState, tags!WorkIsNamed, tags!Cancel, tags!jobs, tags!tags,
       tags!ghosts
  <1>5. ASSUME tags!ListRetag PROVE tags!CaredNow'
    BY <1>5 DEF tags!TagInv, tags!CaredNow, tags!Cared, tags!Wrong, tags!ToRetag, tags!InRetag,
       tags!Sweeping, tags!Retagging, tags!TagTypes, tags!TagState, tags!SweepState,
       tags!RetagState, tags!EditState, tags!WorkIsNamed, tags!ListRetag, tags!jobs, tags!tags,
       tags!ghosts
  <1>6. ASSUME tags!EndRetag PROVE tags!CaredNow'
    BY <1>6 DEF tags!TagInv, tags!CaredNow, tags!Cared, tags!Wrong, tags!ToRetag, tags!InRetag,
       tags!Sweeping, tags!Retagging, tags!TagTypes, tags!TagState, tags!SweepState,
       tags!RetagState, tags!EditState, tags!WorkIsNamed, tags!EndRetag, tags!NoRetag, tags!jobs,
       tags!tags, tags!ghosts
  <1>7. ASSUME tags!Kill PROVE tags!CaredNow'
    BY <1>7 DEF tags!TagInv, tags!CaredNow, tags!Cared, tags!Wrong, tags!ToRetag, tags!InRetag,
       tags!Sweeping, tags!Retagging, tags!TagTypes, tags!TagState, tags!SweepState,
       tags!RetagState, tags!EditState, tags!WorkIsNamed, tags!Kill, tags!Resting, tags!NoRetag,
       tags!NoEdit, tags!jobs, tags!tags, tags!ghosts
  <1>8. ASSUME NEW c \in TagChannels, tags!EnterChannel(c) PROVE tags!CaredNow'
    BY <1>8 DEF tags!TagInv, tags!CaredNow, tags!Cared, tags!Wrong, tags!ToRetag, tags!InRetag,
       tags!Sweeping, tags!Retagging, tags!TagTypes, tags!TagState, tags!SweepState,
       tags!RetagState, tags!EditState, tags!WorkIsNamed, tags!EnterChannel, tags!jobs, tags!tags,
       tags!ghosts
  <1>9. ASSUME NEW t \in tags!AllTracks, tags!SweepTrack(t) PROVE tags!CaredNow'
    <2> SUFFICES ASSUME NEW c \in TagChannels \ s10' PROVE tags!Cared(c)'
      BY DEF tags!CaredNow
    <2>1. UNCHANGED <<s1, s8, s9, s4>>
      BY <1>9, SweepRepairs
    <2>2. c \notin s10 /\ tags!Wrong(c)' \subseteq tags!Wrong(c)
      BY <1>9, SweepRepairs, RepairCares DEF tags!ghosts, tags!Wrong
    <2> QED
      BY <2>1, <2>2 DEF tags!TagInv, tags!CaredNow, tags!Cared, tags!ToRetag, tags!InRetag
  <1>10. ASSUME NEW t \in tags!AllTracks, tags!RetagTrack(t) PROVE tags!CaredNow'
    <2> SUFFICES ASSUME NEW c \in TagChannels \ s10' PROVE tags!Cared(c)'
      BY DEF tags!CaredNow
    <2>1. UNCHANGED <<s1, s9, s4>> /\ s8.pc = "walk"
      BY <1>10, RetagRepairs
    <2>2. c \notin s10 /\ tags!Wrong(c)' \subseteq tags!Wrong(c)
      BY <1>10, RetagRepairs, RepairCares DEF tags!ghosts, tags!Wrong
    <2>3. s1[c] = s8.genre => t \notin tags!Wrong(c)'
      BY <1>10, RetagRepairs, RepairCares, OneChannel DEF tags!Wrong
    <2>4. /\ s8'.pc = "walk" /\ s8'.genre = s8.genre /\ s8'.channel = s8.channel
          /\ s8'.tracks = s8.tracks \ {t}
      BY <1>10, RetagRepairs, RetagTakes
    <2> QED
      BY <2>1, <2>2, <2>3, <2>4 DEF tags!TagInv, tags!CaredNow, tags!Cared, tags!ToRetag,
         tags!InRetag
  <1>11. ASSUME NEW t \in tags!AllTracks, tags!Type(t) PROVE tags!CaredNow'
    BY <1>11 DEF tags!TagInv, tags!CaredNow, tags!Cared, tags!Wrong, tags!ToRetag, tags!InRetag,
       tags!Sweeping, tags!Retagging, tags!TagTypes, tags!TagState, tags!SweepState,
       tags!RetagState, tags!EditState, tags!WorkIsNamed, tags!Type, tags!jobs, tags!tags,
       tags!ghosts
  <1>12. ASSUME NEW e \in Editors, tags!MakeDir(e) PROVE tags!CaredNow'
    BY <1>12 DEF tags!TagInv, tags!CaredNow, tags!Cared, tags!Wrong, tags!ToRetag, tags!InRetag,
       tags!Sweeping, tags!Retagging, tags!TagTypes, tags!TagState, tags!SweepState,
       tags!RetagState, tags!EditState, tags!WorkIsNamed, tags!MakeDir, tags!jobs, tags!tags,
       tags!ghosts
  <1>13. ASSUME NEW e \in Editors, tags!Move(e) PROVE tags!CaredNow'
    <2> SUFFICES ASSUME NEW c \in TagChannels \ s10' PROVE tags!Cared(c)'
      BY DEF tags!CaredNow
    <2>1. tags!Cared(c)
      BY <1>13 DEF tags!Move, tags!ghosts, tags!TagInv, tags!CaredNow
    <2> QED
      BY <1>13, <2>1, MoveCares
  <1>14. ASSUME NEW e \in Editors, tags!RetagClaimed(e) PROVE tags!CaredNow'
    BY <1>14 DEF tags!TagInv, tags!CaredNow, tags!Cared, tags!Wrong, tags!ToRetag, tags!InRetag,
       tags!Sweeping, tags!Retagging, tags!TagTypes, tags!TagState, tags!SweepState,
       tags!RetagState, tags!EditState, tags!WorkIsNamed, tags!RetagClaimed, tags!NoEdit,
       tags!jobs, tags!tags, tags!ghosts
  <1>15. ASSUME NEW e \in Editors, tags!RetagRefused(e) PROVE tags!CaredNow'
    <2> SUFFICES ASSUME NEW c \in TagChannels \ s10' PROVE tags!Cared(c)'
      BY DEF tags!CaredNow
    <2>1. tags!Cared(c) /\ c # s9[e].channel
      BY <1>15 DEF tags!RetagRefused, tags!Excuse, tags!TagInv, tags!CaredNow
    <2> QED
      BY <1>15, <2>1, RefusedCares
  <1>16. ASSUME NEW e \in Editors, NEW c \in TagChannels, NEW g \in TagGenres, tags!StartEdit(e, c, g)
    PROVE tags!CaredNow'
    BY <1>16 DEF tags!TagInv, tags!CaredNow, tags!Cared, tags!Wrong, tags!ToRetag, tags!InRetag,
       tags!Sweeping, tags!Retagging, tags!TagTypes, tags!TagState, tags!SweepState,
       tags!RetagState, tags!EditState, tags!WorkIsNamed, tags!StartEdit, tags!jobs, tags!tags,
       tags!ghosts
  <1>17. ASSUME NEW g \in TagGenres, tags!RemoveFolder(g) PROVE tags!CaredNow'
    BY <1>17 DEF tags!TagInv, tags!CaredNow, tags!Cared, tags!Wrong, tags!ToRetag, tags!InRetag,
       tags!Sweeping, tags!Retagging, tags!TagTypes, tags!TagState, tags!SweepState,
       tags!RetagState, tags!EditState, tags!WorkIsNamed, tags!RemoveFolder, tags!RemoveGenre,
       tags!jobs, tags!tags, tags!ghosts
  <1>18. ASSUME NEW g \in TagGenres, tags!CreateFolder(g) PROVE tags!CaredNow'
    BY <1>18 DEF tags!TagInv, tags!CaredNow, tags!Cared, tags!Wrong, tags!ToRetag, tags!InRetag,
       tags!Sweeping, tags!Retagging, tags!TagTypes, tags!TagState, tags!SweepState,
       tags!RetagState, tags!EditState, tags!WorkIsNamed, tags!CreateFolder, tags!jobs, tags!tags,
       tags!ghosts
  <1>19. ASSUME UNCHANGED tags!vars PROVE tags!CaredNow'
    BY <1>19 DEF tags!TagInv, tags!vars, tags!CaredNow, tags!Cared, tags!Wrong, tags!ToRetag,
       tags!InRetag, tags!Sweeping, tags!Retagging, tags!TagTypes, tags!TagState, tags!SweepState,
       tags!RetagState, tags!EditState, tags!WorkIsNamed, tags!jobs, tags!tags, tags!ghosts
  <1> QED
    BY <1>1, <1>2, <1>3, <1>4, <1>5, <1>6, <1>7, <1>8, <1>9, <1>10, <1>11, <1>12, <1>13, <1>14,
       <1>15, <1>16, <1>17, <1>18, <1>19 DEF tags!Next

LEMMA AheadStep == ASSUME tags!TagInv, tags!Next \/ UNCHANGED tags!vars PROVE tags!SweptOrAhead'
  <1>1. ASSUME tags!StartSweep PROVE tags!SweptOrAhead'
    BY <1>1 DEF tags!TagInv, tags!SweptOrAhead, tags!Cared, tags!Wrong, tags!ToRetag,
       tags!InRetag, tags!Ahead, tags!Sweeping, tags!Retagging, tags!TagTypes, tags!SweepState,
       tags!RetagState, tags!EditState, tags!WorkIsNamed, tags!FoldersExist, tags!StartSweep,
       tags!Resting, tags!jobs, tags!tags, tags!ghosts
  <1>2. ASSUME tags!EnterGenre PROVE tags!SweptOrAhead'
    BY <1>2 DEF tags!TagInv, tags!SweptOrAhead, tags!Cared, tags!Wrong, tags!ToRetag,
       tags!InRetag, tags!Ahead, tags!Sweeping, tags!Retagging, tags!TagTypes, tags!SweepState,
       tags!RetagState, tags!EditState, tags!WorkIsNamed, tags!FoldersExist, tags!EnterGenre,
       tags!jobs, tags!tags, tags!ghosts
  <1>3. ASSUME tags!EndSweep PROVE tags!SweptOrAhead'
    BY <1>3 DEF tags!TagInv, tags!SweptOrAhead, tags!Cared, tags!Wrong, tags!ToRetag,
       tags!InRetag, tags!Ahead, tags!Sweeping, tags!Retagging, tags!TagTypes, tags!SweepState,
       tags!RetagState, tags!EditState, tags!WorkIsNamed, tags!FoldersExist, tags!EndSweep,
       tags!Resting, tags!jobs, tags!tags, tags!ghosts
  <1>4. ASSUME tags!Cancel PROVE tags!SweptOrAhead'
    BY <1>4 DEF tags!TagInv, tags!SweptOrAhead, tags!Cared, tags!Wrong, tags!ToRetag,
       tags!InRetag, tags!Ahead, tags!Sweeping, tags!Retagging, tags!TagTypes, tags!SweepState,
       tags!RetagState, tags!EditState, tags!WorkIsNamed, tags!FoldersExist, tags!Cancel,
       tags!jobs, tags!tags, tags!ghosts
  <1>5. ASSUME tags!ListRetag PROVE tags!SweptOrAhead'
    BY <1>5 DEF tags!TagInv, tags!SweptOrAhead, tags!Cared, tags!Wrong, tags!ToRetag,
       tags!InRetag, tags!Ahead, tags!Sweeping, tags!Retagging, tags!TagTypes, tags!SweepState,
       tags!RetagState, tags!EditState, tags!WorkIsNamed, tags!FoldersExist, tags!ListRetag,
       tags!jobs, tags!tags, tags!ghosts
  <1>6. ASSUME tags!EndRetag PROVE tags!SweptOrAhead'
    BY <1>6 DEF tags!TagInv, tags!SweptOrAhead, tags!Cared, tags!Wrong, tags!ToRetag,
       tags!InRetag, tags!Ahead, tags!Sweeping, tags!Retagging, tags!TagTypes, tags!SweepState,
       tags!RetagState, tags!EditState, tags!WorkIsNamed, tags!FoldersExist, tags!EndRetag,
       tags!NoRetag, tags!jobs, tags!tags, tags!ghosts
  <1>7. ASSUME tags!Kill PROVE tags!SweptOrAhead'
    BY <1>7 DEF tags!TagInv, tags!SweptOrAhead, tags!Cared, tags!Wrong, tags!ToRetag,
       tags!InRetag, tags!Ahead, tags!Sweeping, tags!Retagging, tags!TagTypes, tags!SweepState,
       tags!RetagState, tags!EditState, tags!WorkIsNamed, tags!FoldersExist, tags!Kill,
       tags!Resting, tags!NoRetag, tags!NoEdit, tags!jobs, tags!tags, tags!ghosts
  <1>8. ASSUME NEW c \in TagChannels, tags!EnterChannel(c) PROVE tags!SweptOrAhead'
    BY <1>8 DEF tags!TagInv, tags!SweptOrAhead, tags!Cared, tags!Wrong, tags!ToRetag,
       tags!InRetag, tags!Ahead, tags!Sweeping, tags!Retagging, tags!TagTypes, tags!SweepState,
       tags!RetagState, tags!EditState, tags!WorkIsNamed, tags!FoldersExist, tags!EnterChannel,
       tags!jobs, tags!tags, tags!ghosts
  <1>9. ASSUME NEW t \in tags!AllTracks, tags!SweepTrack(t) PROVE tags!SweptOrAhead'
    <2> SUFFICES ASSUME NEW c \in TagChannels \ s11' PROVE tags!Cared(c)' \/ tags!Ahead(c)'
      BY DEF tags!SweptOrAhead
    <2>1. UNCHANGED <<s1, s8, s9, s4>> /\ s6.pc = "walk"
      BY <1>9, SweepRepairs
    <2>2. c \notin s11 /\ tags!Wrong(c)' \subseteq tags!Wrong(c)
      BY <1>9, SweepRepairs, RepairCares DEF tags!ghosts, tags!Wrong
    <2>3. s1[c] = s6.genre => t \notin tags!Wrong(c)'
      BY <1>9, SweepRepairs, RepairCares, OneChannel DEF tags!Wrong
    <2>4. /\ s6'.dirs = s6.dirs /\ s6'.genre = s6.genre
          /\ s6'.channels = s6.channels /\ s6'.tracks = s6.tracks \ {t}
      BY <1>9, SweepRepairs, SweepTakes
    <2>5. tags!Cared(c) \/ tags!Ahead(c)
      BY <2>1, <2>2 DEF tags!TagInv, tags!SweptOrAhead, tags!Sweeping
    <2> QED
      BY <2>1, <2>2, <2>3, <2>4, <2>5 DEF tags!Ahead, tags!Cared, tags!ToRetag, tags!InRetag
  <1>10. ASSUME NEW t \in tags!AllTracks, tags!RetagTrack(t) PROVE tags!SweptOrAhead'
    <2> SUFFICES ASSUME NEW c \in TagChannels \ s11', tags!Sweeping PROVE tags!Cared(c)' \/ tags!Ahead(c)'
      BY <1>10 DEF tags!SweptOrAhead, tags!RetagTrack, tags!jobs, tags!Sweeping
    <2>1. UNCHANGED <<s1, s9, s4, s6>> /\ s8.pc = "walk"
      BY <1>10, RetagRepairs DEF tags!jobs
    <2>2. c \notin s11 /\ tags!Wrong(c)' \subseteq tags!Wrong(c)
      BY <1>10, RetagRepairs, RepairCares DEF tags!ghosts, tags!Wrong
    <2>3. s1[c] = s8.genre => t \notin tags!Wrong(c)'
      BY <1>10, RetagRepairs, RepairCares, OneChannel DEF tags!Wrong
    <2>4. /\ s8'.pc = "walk" /\ s8'.genre = s8.genre /\ s8'.channel = s8.channel
          /\ s8'.tracks = s8.tracks \ {t}
      BY <1>10, RetagRepairs, RetagTakes
    <2> QED
      BY <2>1, <2>2, <2>3, <2>4 DEF tags!TagInv, tags!SweptOrAhead, tags!Cared, tags!ToRetag,
         tags!InRetag, tags!Ahead
  <1>11. ASSUME NEW t \in tags!AllTracks, tags!Type(t) PROVE tags!SweptOrAhead'
    BY <1>11 DEF tags!TagInv, tags!SweptOrAhead, tags!Cared, tags!Wrong, tags!ToRetag,
       tags!InRetag, tags!Ahead, tags!Sweeping, tags!Retagging, tags!TagTypes, tags!SweepState,
       tags!RetagState, tags!EditState, tags!WorkIsNamed, tags!FoldersExist, tags!Type, tags!jobs,
       tags!tags, tags!ghosts
  <1>12. ASSUME NEW e \in Editors, tags!MakeDir(e) PROVE tags!SweptOrAhead'
    BY <1>12 DEF tags!TagInv, tags!SweptOrAhead, tags!Cared, tags!Wrong, tags!ToRetag,
       tags!InRetag, tags!Ahead, tags!Sweeping, tags!Retagging, tags!TagTypes, tags!SweepState,
       tags!RetagState, tags!EditState, tags!WorkIsNamed, tags!FoldersExist, tags!MakeDir,
       tags!jobs, tags!tags, tags!ghosts
  <1>13. ASSUME NEW e \in Editors, tags!Move(e) PROVE tags!SweptOrAhead'
    <2> SUFFICES ASSUME NEW c \in TagChannels \ s11', tags!Sweeping PROVE tags!Cared(c)' \/ tags!Ahead(c)'
      BY <1>13 DEF tags!SweptOrAhead, tags!Move, tags!jobs, tags!Sweeping
    <2>1. tags!Cared(c) \/ tags!Ahead(c)
      BY <1>13 DEF tags!Move, tags!ghosts, tags!TagInv, tags!SweptOrAhead
    <2> QED
      BY <1>13, <2>1, MoveCares
  <1>14. ASSUME NEW e \in Editors, tags!RetagClaimed(e) PROVE tags!SweptOrAhead'
    BY <1>14 DEF tags!TagInv, tags!SweptOrAhead, tags!Cared, tags!Wrong, tags!ToRetag,
       tags!InRetag, tags!Ahead, tags!Sweeping, tags!Retagging, tags!TagTypes, tags!SweepState,
       tags!RetagState, tags!EditState, tags!WorkIsNamed, tags!FoldersExist, tags!RetagClaimed,
       tags!NoEdit, tags!jobs, tags!tags, tags!ghosts
  <1>15. ASSUME NEW e \in Editors, tags!RetagRefused(e) PROVE tags!SweptOrAhead'
    <2> SUFFICES ASSUME NEW c \in TagChannels \ s11', tags!Sweeping PROVE tags!Cared(c)' \/ tags!Ahead(c)'
      BY <1>15 DEF tags!SweptOrAhead, tags!RetagRefused, tags!jobs, tags!Sweeping
    <2>1. (tags!Cared(c) \/ tags!Ahead(c)) /\ c # s9[e].channel
      BY <1>15 DEF tags!RetagRefused, tags!Excuse, tags!TagInv, tags!SweptOrAhead
    <2>2. tags!Ahead(c) => tags!Ahead(c)'
      BY <1>15 DEF tags!RetagRefused, tags!Ahead, tags!Wrong, tags!tags, tags!jobs
    <2> QED
      BY <1>15, <2>1, <2>2, RefusedCares
  <1>16. ASSUME NEW e \in Editors, NEW c \in TagChannels, NEW g \in TagGenres, tags!StartEdit(e, c, g)
    PROVE tags!SweptOrAhead'
    BY <1>16 DEF tags!TagInv, tags!SweptOrAhead, tags!Cared, tags!Wrong, tags!ToRetag,
       tags!InRetag, tags!Ahead, tags!Sweeping, tags!Retagging, tags!TagTypes, tags!SweepState,
       tags!RetagState, tags!EditState, tags!WorkIsNamed, tags!FoldersExist, tags!StartEdit,
       tags!jobs, tags!tags, tags!ghosts
  <1>17. ASSUME NEW g \in TagGenres, tags!RemoveFolder(g) PROVE tags!SweptOrAhead'
    BY <1>17 DEF tags!TagInv, tags!SweptOrAhead, tags!Cared, tags!Wrong, tags!ToRetag,
       tags!InRetag, tags!Ahead, tags!Sweeping, tags!Retagging, tags!TagTypes, tags!SweepState,
       tags!RetagState, tags!EditState, tags!WorkIsNamed, tags!FoldersExist, tags!RemoveFolder,
       tags!RemoveGenre, tags!jobs, tags!tags, tags!ghosts
  <1>18. ASSUME NEW g \in TagGenres, tags!CreateFolder(g) PROVE tags!SweptOrAhead'
    BY <1>18 DEF tags!TagInv, tags!SweptOrAhead, tags!Cared, tags!Wrong, tags!ToRetag,
       tags!InRetag, tags!Ahead, tags!Sweeping, tags!Retagging, tags!TagTypes, tags!SweepState,
       tags!RetagState, tags!EditState, tags!WorkIsNamed, tags!FoldersExist, tags!CreateFolder,
       tags!jobs, tags!tags, tags!ghosts
  <1>19. ASSUME UNCHANGED tags!vars PROVE tags!SweptOrAhead'
    BY <1>19 DEF tags!TagInv, tags!vars, tags!SweptOrAhead, tags!Cared, tags!Wrong, tags!ToRetag,
       tags!InRetag, tags!Ahead, tags!Sweeping, tags!Retagging, tags!TagTypes, tags!SweepState,
       tags!RetagState, tags!EditState, tags!WorkIsNamed, tags!FoldersExist, tags!jobs, tags!tags,
       tags!ghosts
  <1> QED
    BY <1>1, <1>2, <1>3, <1>4, <1>5, <1>6, <1>7, <1>8, <1>9, <1>10, <1>11, <1>12, <1>13, <1>14,
       <1>15, <1>16, <1>17, <1>18, <1>19 DEF tags!Next

LEMMA TagStep == tags!TagInv /\ (tags!Next \/ UNCHANGED tags!vars) => tags!TagInv'
  BY TypesStep, NamedStep, TagsFoldersStep, TypedStep, CaredStep, AheadStep DEF tags!TagInv

LEMMA TagHolds == tags!TagInv => tags!TagsFollowFolders
  <1> SUFFICES ASSUME tags!TagInv PROVE tags!TagsFollowFolders
    OBVIOUS
  <1>1. ASSUME ~tags!Sweeping, ~tags!Retagging, \A e \in Editors : s9[e].pc # "retag",
               NEW c \in TagChannels \ s10, NEW t \in TagTracks[c]
        PROVE  s3[t].genre = s1[c]
    BY <1>1 DEF tags!TagInv, tags!CaredNow, tags!Cared, tags!Wrong, tags!ToRetag, tags!InRetag,
       tags!Retagging
  <1> QED
    BY <1>1 DEF tags!TagsFollowFolders, tags!TagInv, tags!TypedStays

-----------------------------------------------------------------------------
(* ChannelLedger: whose link a remembered track carries. *)

LEMMA Blanks == /\ ledger!Unknown \in ledger!MemoryState /\ ledger!Unknown.reason = "none"
                /\ ledger!NoRun \in ledger!RunState /\ ledger!NoRun.pc = "none"
  BY DEF ledger!Unknown, ledger!MemoryState, ledger!LinkState, ledger!NoRun, ledger!RunState,
     ledger!None

LEMMA LedgerInit == ledger!Init => ledger!LedgerInv
  BY Blanks, ListsAssumption DEF ledger!Init, ledger!LedgerInv, ledger!LedgerTypes,
     ledger!LinksKeepPage, ledger!ListsAreOwn, ledger!MemoryIsOwned

\* A link and its canonical form have one page.
LEMMA OnePage ==
  ASSUME ledger!LedgerInv, NEW r \in LedgerRows
  PROVE  /\ ledger!Canonical(s1[r]) = [page |-> LedgerAdded[r].page, tab |-> FALSE]
            /\ ledger!Canonical(s1[r]) \in ledger!LinkState
         /\ ledger!Canonical(ledger!Listing(s1[r])) = [page |-> LedgerAdded[r].page, tab |-> FALSE]
  <1>1. s1[r] \in ledger!LinkState /\ s1[r].page = LedgerAdded[r].page
    BY DEF ledger!LedgerInv, ledger!LedgerTypes, ledger!LinksKeepPage
  <1>2. \A u \in ledger!LinkState : ledger!Canonical(u) \in ledger!LinkState
          /\ ledger!Canonical(u).page = u.page /\ ledger!Canonical(u).tab = FALSE
    BY DEF ledger!Canonical, ledger!LinkState
  <1>3. \A u \in ledger!LinkState : ledger!Listing(u) \in ledger!LinkState /\ ledger!Listing(u).page = u.page
    BY DEF ledger!Listing, ledger!LinkState
  <1>4. \A u, v \in ledger!LinkState : u.page = v.page /\ u.tab = v.tab => u = v
    BY DEF ledger!LinkState
  <1> DEFINE e == [page |-> LedgerAdded[r].page, tab |-> FALSE]
  <1>5. e \in ledger!LinkState /\ e.page = LedgerAdded[r].page /\ e.tab = FALSE
    BY DEF ledger!LinkState, ledger!Pages
  <1> HIDE DEF e
  <1>6. ASSUME NEW u, u \in {s1[r], ledger!Listing(s1[r])} PROVE ledger!Canonical(u) = e
    <2>1. u \in ledger!LinkState /\ u.page = LedgerAdded[r].page
      BY <1>1, <1>3, <1>6
    <2>2. ledger!Canonical(u) \in ledger!LinkState /\ ledger!Canonical(u).page = u.page
            /\ ledger!Canonical(u).tab = FALSE
      BY <1>2, <2>1
    <2> QED
      BY <1>4, <1>5, <2>1, <2>2
  <1>7. ledger!Canonical(s1[r]) = e /\ ledger!Canonical(ledger!Listing(s1[r])) = e
    BY <1>6
  <1> QED
    BY <1>5, <1>6, <1>7 DEF e

\* A run that goes on is its row's.
LEMMA Turns ==
  ASSUME ledger!LedgerInv, NEW t \in LedgerTracks, ledger!Fetch(t) \/ ledger!Unavailable(t)
      \/ ledger!Deferred(t)
  PROVE  /\ s7' \in ledger!RunState /\ s7'.pc = s7.pc /\ s7'.row = s7.row /\ s7'.left \subseteq s7.left
         /\ s7.pc = "fetch" /\ UNCHANGED <<s1, s2, s8, s11>>
  <1> DEFINE l == s7.left \ {t}
  <1>1. s7' = [s7 EXCEPT !.left = l] \/ s7' = [s7 EXCEPT !.left = l, !.failed = TRUE]
    BY DEF ledger!Fetch, ledger!Unavailable, ledger!Deferred
  <1>2. l \subseteq s7.left /\ l \subseteq LedgerTracks
    BY DEF ledger!LedgerInv, ledger!LedgerTypes, ledger!RunState
  <1> HIDE DEF l
  <1>3. s7' \in ledger!RunState /\ s7'.pc = s7.pc /\ s7'.row = s7.row /\ s7'.left = l
    BY <1>1, <1>2 DEF ledger!LedgerInv, ledger!LedgerTypes, ledger!RunState
  <1> QED
    BY <1>2, <1>3 DEF ledger!Fetch, ledger!Unavailable, ledger!Deferred, ledger!rowVars

LEMMA RunBegins ==
  ASSUME ledger!LedgerInv, NEW r \in LedgerRows, ledger!Start(r, "list")
  PROVE  s7' \in ledger!RunState /\ s7'.pc = "list" /\ s7'.row = r
  BY Blanks DEF ledger!Start, ledger!RunState, ledger!NoRun

LEMMA TracksComeIn ==
  ASSUME ledger!LedgerInv, NEW r \in LedgerRows, ledger!StartDownload(r)
  PROVE  s7' \in ledger!RunState /\ s7'.pc = "fetch" /\ s7'.row = r /\ s7'.left \subseteq LedgerLists[r]
  <1>1. PICK force \in BOOLEAN : s7' = [ledger!NoRun EXCEPT !.pc = "fetch", !.row = r, !.left = IF force THEN LedgerLists[r] ELSE s2[r]]
    BY DEF ledger!StartDownload
  <1> DEFINE l == IF force THEN LedgerLists[r] ELSE s2[r]
  <1>2. l \subseteq LedgerLists[r] /\ l \subseteq LedgerTracks
    BY ListsAssumption DEF ledger!LedgerInv, ledger!ListsAreOwn
  <1>3. s7' = [ledger!NoRun EXCEPT !.pc = "fetch", !.row = r, !.left = l]
    BY <1>1
  <1> HIDE DEF l
  <1> QED
    BY <1>2, <1>3 DEF ledger!NoRun, ledger!RunState

\* The listing is read, with what is known.
LEMMA Listed ==
  ASSUME ledger!LedgerInv, ledger!List
  PROVE  s7' \in ledger!RunState /\ s7'.pc = "write" /\ s7.pc = "list" /\ s7'.row = s7.row
  <1> DEFINE s == ledger!SuppressedTracks  k == {t \in LedgerTracks : s5[t] # ledger!None}
  <1>1. s \subseteq LedgerTracks /\ k \subseteq LedgerTracks
          /\ s7' = [s7 EXCEPT !.pc = "write", !.seen = s, !.known = k] /\ s7.pc = "list"
    BY DEF ledger!List, ledger!SuppressedTracks
  <1> HIDE DEF s, k
  <1> QED
    BY <1>1 DEF ledger!LedgerInv, ledger!LedgerTypes, ledger!RunState

\* A failure is remembered under its row's page.
LEMMA FailureIsOwned ==
  ASSUME ledger!LedgerInv, NEW t \in LedgerTracks, ledger!Unavailable(t)
  PROVE  /\ s6' \in [LedgerTracks -> ledger!MemoryState] /\ s9' \in [LedgerTracks -> Nat] /\ s9'[t] >= 1
         /\ \E r \in LedgerRows : t \in LedgerLists[r]
            /\ s6'[t].url = [page |-> LedgerAdded[r].page, tab |-> FALSE]
         /\ \A x \in LedgerTracks : x # t => s6'[x] = s6[x] /\ s9'[x] = s9[x]
         /\ UNCHANGED <<s1, s2, s8, s11>>
  <1>1. PICK reason \in ledger!Reasons : s6' = ledger!Remembered(t, ledger!Canonical(ledger!SpecUrl), reason)
    BY DEF ledger!Unavailable
  <1>2. s7.row \in LedgerRows /\ t \in LedgerLists[s7.row]
    BY DEF ledger!Unavailable, ledger!LedgerInv, ledger!ListsAreOwn
  <1> DEFINE u == ledger!Canonical(ledger!SpecUrl)  e == [page |-> LedgerAdded[s7.row].page, tab |-> FALSE]  a == s6[t].attempts + 1
             m == [url |-> u, reason |-> reason, attempts |-> a, last |-> s11]
  <1>3. u = e
    BY <1>2, OnePage DEF ledger!SpecUrl
  <1>3a. u \in ledger!LinkState
    BY <1>2, <1>3, OnePage
  <1>4. a \in Nat /\ s11 \in Nat
    BY DEF ledger!LedgerInv, ledger!LedgerTypes, ledger!MemoryState
  <1>5. s6' = [s6 EXCEPT ![t] = m]
    BY <1>1 DEF ledger!Remembered
  <1> HIDE DEF u, a, e
  <1>6. m \in ledger!MemoryState /\ m.url = u
    BY <1>3a, <1>4 DEF ledger!MemoryState
  <1> HIDE DEF m
  <1>7. s6' \in [LedgerTracks -> ledger!MemoryState] /\ s6'[t] = m
          /\ \A x \in LedgerTracks : x # t => s6'[x] = s6[x]
    BY <1>5, <1>6 DEF ledger!LedgerInv, ledger!LedgerTypes
  <1>8. s9' \in [LedgerTracks -> Nat] /\ s9'[t] >= 1 /\ \A x \in LedgerTracks : x # t => s9'[x] = s9[x]
    BY DEF ledger!Unavailable, ledger!LedgerInv, ledger!LedgerTypes
  <1> QED
    BY <1>2, <1>3, <1>6, <1>7, <1>8 DEF e, ledger!Unavailable, ledger!rowVars

\* What is forgotten is blank.
LEMMA ForgetsWhole ==
  ASSUME ledger!LedgerInv, NEW r \in LedgerRows, ledger!Forget(r)
  PROVE  /\ s6' \in [LedgerTracks -> ledger!MemoryState] /\ s9' \in [LedgerTracks -> Nat]
            /\ UNCHANGED <<s1, s2, s8, s11, s7>>
         /\ \A t \in LedgerTracks : s6'[t].reason = "none" \/ (s6'[t] = s6[t] /\ s9'[t] = s9[t])
  BY Blanks DEF ledger!Forget, ledger!Forgotten, ledger!LedgerInv, ledger!LedgerTypes,
     ledger!rowVars

LEMMA LedgerTypesStep == ASSUME ledger!LedgerInv, ledger!Next \/ UNCHANGED ledger!vars PROVE ledger!LedgerTypes'
  <1>1. ASSUME NEW r \in LedgerRows, ledger!StartScan(r) PROVE ledger!LedgerTypes'
    BY <1>1, Blanks, ListsAssumption, RunBegins DEF ledger!StartScan, ledger!LedgerInv,
       ledger!LedgerTypes, ledger!rowVars, ledger!ledger
  <1>2. ASSUME NEW r \in LedgerRows, ledger!StartDownload(r) PROVE ledger!LedgerTypes'
    BY <1>2, Blanks, ListsAssumption, TracksComeIn DEF ledger!StartDownload, ledger!LedgerInv,
       ledger!LedgerTypes, ledger!rowVars, ledger!ledger
  <1>3. ASSUME NEW r \in LedgerRows, ledger!Forget(r) PROVE ledger!LedgerTypes'
    BY <1>3, Blanks, ListsAssumption, ForgetsWhole DEF ledger!Forget, ledger!LedgerInv,
       ledger!LedgerTypes, ledger!rowVars, ledger!ledger
  <1>4. ASSUME NEW r \in LedgerRows,
          NEW tab \in BOOLEAN, ledger!EditLink(r, [LedgerAdded[r] EXCEPT !.tab = tab])
    PROVE ledger!LedgerTypes'
    <2> DEFINE u == [LedgerAdded[r] EXCEPT !.tab = tab]
    <2>1. u \in ledger!LinkState
      BY ListsAssumption DEF ledger!LinkState
    <2>2. ledger!EditLink(r, u)
      BY <1>4
    <2> HIDE DEF u
    <2> QED
      BY <2>1, <2>2 DEF ledger!EditLink, ledger!LedgerInv, ledger!LedgerTypes, ledger!ledger
  <1>5. ASSUME NEW t \in LedgerTracks, ledger!Fetch(t) PROVE ledger!LedgerTypes'
    BY <1>5, Blanks, ListsAssumption, Turns DEF ledger!Fetch, ledger!LedgerInv,
       ledger!LedgerTypes, ledger!rowVars, ledger!ledger
  <1>6. ASSUME NEW t \in LedgerTracks, ledger!Unavailable(t) PROVE ledger!LedgerTypes'
    BY <1>6, Blanks, ListsAssumption, FailureIsOwned, Turns DEF ledger!Unavailable,
       ledger!LedgerInv, ledger!LedgerTypes, ledger!rowVars, ledger!ledger
  <1>7. ASSUME NEW t \in LedgerTracks, ledger!Deferred(t) PROVE ledger!LedgerTypes'
    BY <1>7, Blanks, ListsAssumption, Turns DEF ledger!Deferred, ledger!LedgerInv,
       ledger!LedgerTypes, ledger!rowVars, ledger!ledger
  <1>8. ASSUME ledger!List PROVE ledger!LedgerTypes'
    BY <1>8, Blanks, ListsAssumption, Listed DEF ledger!List, ledger!LedgerInv,
       ledger!LedgerTypes, ledger!rowVars, ledger!ledger
  <1>9. ASSUME ledger!ScanStops PROVE ledger!LedgerTypes'
    BY <1>9, Blanks, ListsAssumption DEF ledger!ScanStops, ledger!LedgerInv, ledger!LedgerTypes,
       ledger!rowVars, ledger!ledger
  <1>10. ASSUME ledger!ScanResult PROVE ledger!LedgerTypes'
    BY <1>10, Blanks, ListsAssumption DEF ledger!ScanResult, ledger!Due, ledger!Offered,
       ledger!LedgerInv, ledger!LedgerTypes, ledger!rowVars, ledger!ledger
  <1>11. ASSUME ledger!EndDownload PROVE ledger!LedgerTypes'
    BY <1>11, Blanks, ListsAssumption DEF ledger!EndDownload, ledger!Cleared, ledger!LedgerInv,
       ledger!LedgerTypes, ledger!rowVars, ledger!ledger
  <1>12. ASSUME ledger!RefreshTotals PROVE ledger!LedgerTypes'
    BY <1>12, Blanks, ListsAssumption DEF ledger!RefreshTotals, ledger!LedgerInv,
       ledger!LedgerTypes, ledger!rowVars, ledger!ledger
  <1>13. ASSUME ledger!Restart PROVE ledger!LedgerTypes'
    BY <1>13, Blanks, ListsAssumption DEF ledger!Restart, ledger!LedgerInv, ledger!LedgerTypes,
       ledger!rowVars, ledger!ledger
  <1>14. ASSUME ledger!Tick PROVE ledger!LedgerTypes'
    BY <1>14, Blanks, ListsAssumption DEF ledger!Tick, ledger!LedgerInv, ledger!LedgerTypes,
       ledger!rowVars, ledger!ledger
  <1>15. ASSUME UNCHANGED ledger!vars PROVE ledger!LedgerTypes'
    BY <1>15 DEF ledger!vars, ledger!LedgerInv, ledger!LedgerTypes, ledger!rowVars, ledger!ledger
  <1> QED
    BY <1>1, <1>2, <1>3, <1>4, <1>5, <1>6, <1>7, <1>8, <1>9, <1>10, <1>11, <1>12, <1>13, <1>14,
       <1>15 DEF ledger!Next

LEMMA LinksStep == ASSUME ledger!LedgerInv, ledger!Next \/ UNCHANGED ledger!vars PROVE ledger!LinksKeepPage'
  <1>1. ASSUME NEW r \in LedgerRows, ledger!StartScan(r) PROVE ledger!LinksKeepPage'
    BY <1>1, Blanks, ListsAssumption, RunBegins DEF ledger!StartScan, ledger!LedgerInv,
       ledger!LinksKeepPage, ledger!LedgerTypes, ledger!rowVars, ledger!ledger
  <1>2. ASSUME NEW r \in LedgerRows, ledger!StartDownload(r) PROVE ledger!LinksKeepPage'
    BY <1>2, Blanks, ListsAssumption, TracksComeIn DEF ledger!StartDownload, ledger!LedgerInv,
       ledger!LinksKeepPage, ledger!LedgerTypes, ledger!rowVars, ledger!ledger
  <1>3. ASSUME NEW r \in LedgerRows, ledger!Forget(r) PROVE ledger!LinksKeepPage'
    BY <1>3, Blanks, ListsAssumption, ForgetsWhole DEF ledger!Forget, ledger!LedgerInv,
       ledger!LinksKeepPage, ledger!LedgerTypes, ledger!rowVars, ledger!ledger
  <1>4. ASSUME NEW r \in LedgerRows,
          NEW tab \in BOOLEAN, ledger!EditLink(r, [LedgerAdded[r] EXCEPT !.tab = tab])
    PROVE ledger!LinksKeepPage'
    BY <1>4, Blanks, ListsAssumption DEF ledger!EditLink, ledger!LedgerInv, ledger!LinksKeepPage,
       ledger!LedgerTypes, ledger!rowVars, ledger!ledger
  <1>5. ASSUME NEW t \in LedgerTracks, ledger!Fetch(t) PROVE ledger!LinksKeepPage'
    BY <1>5, Blanks, ListsAssumption, Turns DEF ledger!Fetch, ledger!LedgerInv,
       ledger!LinksKeepPage, ledger!LedgerTypes, ledger!rowVars, ledger!ledger
  <1>6. ASSUME NEW t \in LedgerTracks, ledger!Unavailable(t) PROVE ledger!LinksKeepPage'
    BY <1>6, Blanks, ListsAssumption, FailureIsOwned, Turns DEF ledger!Unavailable,
       ledger!LedgerInv, ledger!LinksKeepPage, ledger!LedgerTypes, ledger!rowVars, ledger!ledger
  <1>7. ASSUME NEW t \in LedgerTracks, ledger!Deferred(t) PROVE ledger!LinksKeepPage'
    BY <1>7, Blanks, ListsAssumption, Turns DEF ledger!Deferred, ledger!LedgerInv,
       ledger!LinksKeepPage, ledger!LedgerTypes, ledger!rowVars, ledger!ledger
  <1>8. ASSUME ledger!List PROVE ledger!LinksKeepPage'
    BY <1>8, Blanks, ListsAssumption, Listed DEF ledger!List, ledger!LedgerInv,
       ledger!LinksKeepPage, ledger!LedgerTypes, ledger!rowVars, ledger!ledger
  <1>9. ASSUME ledger!ScanStops PROVE ledger!LinksKeepPage'
    BY <1>9, Blanks, ListsAssumption DEF ledger!ScanStops, ledger!LedgerInv, ledger!LinksKeepPage,
       ledger!LedgerTypes, ledger!rowVars, ledger!ledger
  <1>10. ASSUME ledger!ScanResult PROVE ledger!LinksKeepPage'
    BY <1>10, Blanks, ListsAssumption DEF ledger!ScanResult, ledger!Due, ledger!Offered,
       ledger!LedgerInv, ledger!LinksKeepPage, ledger!LedgerTypes, ledger!rowVars, ledger!ledger
  <1>11. ASSUME ledger!EndDownload PROVE ledger!LinksKeepPage'
    BY <1>11, Blanks, ListsAssumption DEF ledger!EndDownload, ledger!Cleared, ledger!LedgerInv,
       ledger!LinksKeepPage, ledger!LedgerTypes, ledger!rowVars, ledger!ledger
  <1>12. ASSUME ledger!RefreshTotals PROVE ledger!LinksKeepPage'
    BY <1>12, Blanks, ListsAssumption DEF ledger!RefreshTotals, ledger!LedgerInv,
       ledger!LinksKeepPage, ledger!LedgerTypes, ledger!rowVars, ledger!ledger
  <1>13. ASSUME ledger!Restart PROVE ledger!LinksKeepPage'
    BY <1>13, Blanks, ListsAssumption DEF ledger!Restart, ledger!LedgerInv, ledger!LinksKeepPage,
       ledger!LedgerTypes, ledger!rowVars, ledger!ledger
  <1>14. ASSUME ledger!Tick PROVE ledger!LinksKeepPage'
    BY <1>14, Blanks, ListsAssumption DEF ledger!Tick, ledger!LedgerInv, ledger!LinksKeepPage,
       ledger!LedgerTypes, ledger!rowVars, ledger!ledger
  <1>15. ASSUME UNCHANGED ledger!vars PROVE ledger!LinksKeepPage'
    BY <1>15 DEF ledger!vars, ledger!LedgerInv, ledger!LinksKeepPage, ledger!LedgerTypes,
       ledger!rowVars, ledger!ledger
  <1> QED
    BY <1>1, <1>2, <1>3, <1>4, <1>5, <1>6, <1>7, <1>8, <1>9, <1>10, <1>11, <1>12, <1>13, <1>14,
       <1>15 DEF ledger!Next

LEMMA OwnListsStep == ASSUME ledger!LedgerInv, ledger!Next \/ UNCHANGED ledger!vars PROVE ledger!ListsAreOwn'
  <1>1. ASSUME NEW r \in LedgerRows, ledger!StartScan(r) PROVE ledger!ListsAreOwn'
    BY <1>1, Blanks, ListsAssumption, RunBegins DEF ledger!StartScan, ledger!LedgerInv,
       ledger!ListsAreOwn, ledger!LedgerTypes, ledger!rowVars, ledger!ledger
  <1>2. ASSUME NEW r \in LedgerRows, ledger!StartDownload(r) PROVE ledger!ListsAreOwn'
    BY <1>2, Blanks, ListsAssumption, TracksComeIn DEF ledger!StartDownload, ledger!LedgerInv,
       ledger!ListsAreOwn, ledger!LedgerTypes, ledger!rowVars, ledger!ledger
  <1>3. ASSUME NEW r \in LedgerRows, ledger!Forget(r) PROVE ledger!ListsAreOwn'
    BY <1>3, Blanks, ListsAssumption, ForgetsWhole DEF ledger!Forget, ledger!LedgerInv,
       ledger!ListsAreOwn, ledger!LedgerTypes, ledger!rowVars, ledger!ledger
  <1>4. ASSUME NEW r \in LedgerRows,
          NEW tab \in BOOLEAN, ledger!EditLink(r, [LedgerAdded[r] EXCEPT !.tab = tab])
    PROVE ledger!ListsAreOwn'
    BY <1>4, Blanks, ListsAssumption DEF ledger!EditLink, ledger!LedgerInv, ledger!ListsAreOwn,
       ledger!LedgerTypes, ledger!rowVars, ledger!ledger
  <1>5. ASSUME NEW t \in LedgerTracks, ledger!Fetch(t) PROVE ledger!ListsAreOwn'
    BY <1>5, Turns DEF ledger!LedgerInv, ledger!ListsAreOwn
  <1>6. ASSUME NEW t \in LedgerTracks, ledger!Unavailable(t) PROVE ledger!ListsAreOwn'
    BY <1>6, Turns DEF ledger!LedgerInv, ledger!ListsAreOwn
  <1>7. ASSUME NEW t \in LedgerTracks, ledger!Deferred(t) PROVE ledger!ListsAreOwn'
    BY <1>7, Turns DEF ledger!LedgerInv, ledger!ListsAreOwn
  <1>8. ASSUME ledger!List PROVE ledger!ListsAreOwn'
    BY <1>8, Blanks, ListsAssumption, Listed DEF ledger!List, ledger!LedgerInv,
       ledger!ListsAreOwn, ledger!LedgerTypes, ledger!rowVars, ledger!ledger
  <1>9. ASSUME ledger!ScanStops PROVE ledger!ListsAreOwn'
    BY <1>9, Blanks, ListsAssumption DEF ledger!ScanStops, ledger!LedgerInv, ledger!ListsAreOwn,
       ledger!LedgerTypes, ledger!rowVars, ledger!ledger
  <1>10. ASSUME ledger!ScanResult PROVE ledger!ListsAreOwn'
    BY <1>10, Blanks, ListsAssumption DEF ledger!ScanResult, ledger!Due, ledger!Offered,
       ledger!LedgerInv, ledger!ListsAreOwn, ledger!LedgerTypes, ledger!rowVars, ledger!ledger
  <1>11. ASSUME ledger!EndDownload PROVE ledger!ListsAreOwn'
    BY <1>11, Blanks, ListsAssumption DEF ledger!EndDownload, ledger!Cleared, ledger!LedgerInv,
       ledger!ListsAreOwn, ledger!LedgerTypes, ledger!rowVars, ledger!ledger
  <1>12. ASSUME ledger!RefreshTotals PROVE ledger!ListsAreOwn'
    BY <1>12, Blanks, ListsAssumption DEF ledger!RefreshTotals, ledger!LedgerInv,
       ledger!ListsAreOwn, ledger!LedgerTypes, ledger!rowVars, ledger!ledger
  <1>13. ASSUME ledger!Restart PROVE ledger!ListsAreOwn'
    BY <1>13, Blanks, ListsAssumption DEF ledger!Restart, ledger!LedgerInv, ledger!ListsAreOwn,
       ledger!LedgerTypes, ledger!rowVars, ledger!ledger
  <1>14. ASSUME ledger!Tick PROVE ledger!ListsAreOwn'
    BY <1>14, Blanks, ListsAssumption DEF ledger!Tick, ledger!LedgerInv, ledger!ListsAreOwn,
       ledger!LedgerTypes, ledger!rowVars, ledger!ledger
  <1>15. ASSUME UNCHANGED ledger!vars PROVE ledger!ListsAreOwn'
    BY <1>15 DEF ledger!vars, ledger!LedgerInv, ledger!ListsAreOwn, ledger!LedgerTypes,
       ledger!rowVars, ledger!ledger
  <1> QED
    BY <1>1, <1>2, <1>3, <1>4, <1>5, <1>6, <1>7, <1>8, <1>9, <1>10, <1>11, <1>12, <1>13, <1>14,
       <1>15 DEF ledger!Next

LEMMA MemoryStep == ASSUME ledger!LedgerInv, ledger!Next \/ UNCHANGED ledger!vars PROVE ledger!MemoryIsOwned'
  <1>1. ASSUME NEW r \in LedgerRows, ledger!StartScan(r) PROVE ledger!MemoryIsOwned'
    BY <1>1, Blanks, ListsAssumption, RunBegins DEF ledger!StartScan, ledger!LedgerInv,
       ledger!MemoryIsOwned, ledger!LedgerTypes, ledger!rowVars, ledger!ledger
  <1>2. ASSUME NEW r \in LedgerRows, ledger!StartDownload(r) PROVE ledger!MemoryIsOwned'
    BY <1>2, Blanks, ListsAssumption, TracksComeIn DEF ledger!StartDownload, ledger!LedgerInv,
       ledger!MemoryIsOwned, ledger!LedgerTypes, ledger!rowVars, ledger!ledger
  <1>3. ASSUME NEW r \in LedgerRows, ledger!Forget(r) PROVE ledger!MemoryIsOwned'
    <2>1. /\ UNCHANGED s1
          /\ \A t \in LedgerTracks : s6'[t].reason = "none" \/ (s6'[t] = s6[t] /\ s9'[t] = s9[t])
      BY <1>3, ForgetsWhole
    <2> QED
      BY <2>1 DEF ledger!LedgerInv, ledger!MemoryIsOwned
  <1>4. ASSUME NEW r \in LedgerRows,
          NEW tab \in BOOLEAN, ledger!EditLink(r, [LedgerAdded[r] EXCEPT !.tab = tab])
    PROVE ledger!MemoryIsOwned'
    BY <1>4, Blanks, ListsAssumption DEF ledger!EditLink, ledger!LedgerInv, ledger!MemoryIsOwned,
       ledger!LedgerTypes, ledger!rowVars, ledger!ledger
  <1>5. ASSUME NEW t \in LedgerTracks, ledger!Fetch(t) PROVE ledger!MemoryIsOwned'
    BY <1>5, Blanks, ListsAssumption, Turns DEF ledger!Fetch, ledger!LedgerInv,
       ledger!MemoryIsOwned, ledger!LedgerTypes, ledger!rowVars, ledger!ledger
  <1>6. ASSUME NEW t \in LedgerTracks, ledger!Unavailable(t) PROVE ledger!MemoryIsOwned'
    <2>1. /\ s9'[t] >= 1
          /\ \E r \in LedgerRows : t \in LedgerLists[r]
             /\ s6'[t].url = [page |-> LedgerAdded[r].page, tab |-> FALSE]
          /\ \A x \in LedgerTracks : x # t => s6'[x] = s6[x] /\ s9'[x] = s9[x]
      BY <1>6, FailureIsOwned
    <2> QED
      BY <2>1 DEF ledger!LedgerInv, ledger!MemoryIsOwned
  <1>7. ASSUME NEW t \in LedgerTracks, ledger!Deferred(t) PROVE ledger!MemoryIsOwned'
    BY <1>7, Blanks, ListsAssumption, Turns DEF ledger!Deferred, ledger!LedgerInv,
       ledger!MemoryIsOwned, ledger!LedgerTypes, ledger!rowVars, ledger!ledger
  <1>8. ASSUME ledger!List PROVE ledger!MemoryIsOwned'
    BY <1>8, Blanks, ListsAssumption, Listed DEF ledger!List, ledger!LedgerInv,
       ledger!MemoryIsOwned, ledger!LedgerTypes, ledger!rowVars, ledger!ledger
  <1>9. ASSUME ledger!ScanStops PROVE ledger!MemoryIsOwned'
    BY <1>9, Blanks, ListsAssumption DEF ledger!ScanStops, ledger!LedgerInv, ledger!MemoryIsOwned,
       ledger!LedgerTypes, ledger!rowVars, ledger!ledger
  <1>10. ASSUME ledger!ScanResult PROVE ledger!MemoryIsOwned'
    BY <1>10, Blanks, ListsAssumption DEF ledger!ScanResult, ledger!Due, ledger!Offered,
       ledger!LedgerInv, ledger!MemoryIsOwned, ledger!LedgerTypes, ledger!rowVars, ledger!ledger
  <1>11. ASSUME ledger!EndDownload PROVE ledger!MemoryIsOwned'
    BY <1>11, Blanks, ListsAssumption DEF ledger!EndDownload, ledger!Cleared, ledger!LedgerInv,
       ledger!MemoryIsOwned, ledger!LedgerTypes, ledger!rowVars, ledger!ledger
  <1>12. ASSUME ledger!RefreshTotals PROVE ledger!MemoryIsOwned'
    BY <1>12, Blanks, ListsAssumption DEF ledger!RefreshTotals, ledger!LedgerInv,
       ledger!MemoryIsOwned, ledger!LedgerTypes, ledger!rowVars, ledger!ledger
  <1>13. ASSUME ledger!Restart PROVE ledger!MemoryIsOwned'
    BY <1>13, Blanks, ListsAssumption DEF ledger!Restart, ledger!LedgerInv, ledger!MemoryIsOwned,
       ledger!LedgerTypes, ledger!rowVars, ledger!ledger
  <1>14. ASSUME ledger!Tick PROVE ledger!MemoryIsOwned'
    BY <1>14, Blanks, ListsAssumption DEF ledger!Tick, ledger!LedgerInv, ledger!MemoryIsOwned,
       ledger!LedgerTypes, ledger!rowVars, ledger!ledger
  <1>15. ASSUME UNCHANGED ledger!vars PROVE ledger!MemoryIsOwned'
    BY <1>15 DEF ledger!vars, ledger!LedgerInv, ledger!MemoryIsOwned, ledger!LedgerTypes,
       ledger!rowVars, ledger!ledger
  <1> QED
    BY <1>1, <1>2, <1>3, <1>4, <1>5, <1>6, <1>7, <1>8, <1>9, <1>10, <1>11, <1>12, <1>13, <1>14,
       <1>15 DEF ledger!Next

LEMMA LedgerStep == ledger!LedgerInv /\ (ledger!Next \/ UNCHANGED ledger!vars) => ledger!LedgerInv'
  BY LedgerTypesStep, LinksStep, OwnListsStep, MemoryStep DEF ledger!LedgerInv

LEMMA LedgerHolds == ledger!LedgerInv => ledger!HiddenCanBeForgotten
  <1> SUFFICES ASSUME ledger!LedgerInv, NEW r \in LedgerRows, NEW t \in s8[r], ledger!Suppressed(s6[t])
               PROVE  t \in ledger!Forgettable(r) /\ s9[t] >= 1
    BY DEF ledger!HiddenCanBeForgotten
  <1>1. t \in LedgerTracks /\ t \in LedgerLists[r]
    BY DEF ledger!LedgerInv, ledger!LedgerTypes, ledger!ListsAreOwn
  <1>2. s6[t].reason # "none"
    BY DEF ledger!Suppressed
  <1>3. PICK q \in LedgerRows : t \in LedgerLists[q]
          /\ s6[t].url = [page |-> LedgerAdded[q].page, tab |-> FALSE]
    BY <1>1, <1>2 DEF ledger!LedgerInv, ledger!MemoryIsOwned
  <1>4. q = r
    BY <1>1, <1>3, ListsAssumption
  <1> QED
    BY <1>1, <1>2, <1>3, <1>4, OnePage DEF ledger!LedgerInv, ledger!MemoryIsOwned,
       ledger!Forgettable

-----------------------------------------------------------------------------
(* The parts together. *)

LibraryInv == /\ part = "transfer" => transfer!TransferInv
              /\ part = "names" => names!NamesInv
              /\ part = "covers" => covers!ArtInv
              /\ part = "resolver" => resolver!ResolverInv
              /\ part = "watchlist" => watchlist!RowsInv
              /\ part = "list" => list!ListInv
              /\ part = "editor" => editor!EditInv
              /\ part = "rebuild" => rebuild!RebuildInv
              /\ part = "downloads" => downloads!TableInv
              /\ part = "tags" => tags!TagInv
              /\ part = "ledger" => ledger!LedgerInv

LEMMA LibraryInit == Init => LibraryInv
  BY TransferInit, NamesInit, ArtInit, ResolverInit, RowsInit, ListInit, EditInit, RebuildInit,
     TableInit, TagInit, LedgerInit DEF Init, LibraryInv

\* A step is one part's, and leaves a behavior that part's.
LEMMA OnePart == Next => part' = part
  BY DEF Next, KeepFrom4, KeepFrom5, KeepFrom6, KeepFrom7, KeepFrom8, KeepFrom9, KeepFrom10,
     KeepFrom11, KeepFrom12, KeepFrom13, KeepFrom14

\* What a step of the whole is for the part it is of.
LEMMA StepOfPart ==
  ASSUME Next \/ UNCHANGED vars
  PROVE  /\ part' = part
         /\ part = "transfer" => transfer!Next \/ UNCHANGED transfer!vars
         /\ part = "names" => names!Next \/ UNCHANGED names!vars
         /\ part = "covers" => covers!Next \/ UNCHANGED covers!vars
         /\ part = "resolver" => resolver!Next \/ UNCHANGED resolver!vars
         /\ part = "watchlist" => watchlist!Next \/ UNCHANGED watchlist!vars
         /\ part = "list" => list!Next \/ UNCHANGED list!vars
         /\ part = "editor" => editor!Next \/ UNCHANGED editor!vars
         /\ part = "rebuild" => rebuild!Next \/ UNCHANGED rebuild!vars
         /\ part = "downloads" => downloads!Next \/ UNCHANGED downloads!vars
         /\ part = "tags" => tags!Next \/ UNCHANGED tags!vars
         /\ part = "ledger" => ledger!Next \/ UNCHANGED ledger!vars
  <1>1. part' = part
    BY OnePart DEF vars
  <1>2. CASE Next
    BY <1>1, <1>2 DEF Next
  <1>3. CASE UNCHANGED vars
    BY <1>3 DEF vars, transfer!vars, names!vars, covers!vars, resolver!vars, watchlist!vars,
       list!vars, editor!vars, rebuild!vars, downloads!vars, tags!vars, tags!tags, tags!jobs,
       tags!ghosts, ledger!vars, ledger!rowVars, ledger!ledger
  <1> QED
    BY <1>1, <1>2, <1>3

LEMMA LibraryStep == LibraryInv /\ [Next]_vars => LibraryInv'
  <1> SUFFICES ASSUME LibraryInv, Next \/ UNCHANGED vars PROVE LibraryInv'
    BY DEF vars
  <1>1. part = "transfer" => transfer!TransferInv'
    BY StepOfPart, TransferStep DEF LibraryInv
  <1>2. part = "names" => names!NamesInv'
    BY StepOfPart, NamesStep DEF LibraryInv
  <1>3. part = "covers" => covers!ArtInv'
    BY StepOfPart, ArtStep DEF LibraryInv
  <1>4. part = "resolver" => resolver!ResolverInv'
    BY StepOfPart, ResolverStep DEF LibraryInv
  <1>5. part = "watchlist" => watchlist!RowsInv'
    BY StepOfPart, RowsStep DEF LibraryInv
  <1>6. part = "list" => list!ListInv'
    BY StepOfPart, ListStep DEF LibraryInv
  <1>7. part = "editor" => editor!EditInv'
    BY StepOfPart, EditStep DEF LibraryInv
  <1>8. part = "rebuild" => rebuild!RebuildInv'
    BY StepOfPart, RebuildStep DEF LibraryInv
  <1>9. part = "downloads" => downloads!TableInv'
    BY StepOfPart, TableStep DEF LibraryInv
  <1>10. part = "tags" => tags!TagInv'
    BY StepOfPart, TagStep DEF LibraryInv
  <1>11. part = "ledger" => ledger!LedgerInv'
    BY StepOfPart, LedgerStep DEF LibraryInv
  <1> QED
    BY <1>1, <1>2, <1>3, <1>4, <1>5, <1>6, <1>7, <1>8, <1>9, <1>10, <1>11, StepOfPart DEF LibraryInv

\* A channel has one row and one home folder, its tracks are in the folder that its row
\* names, and a list file lands beside the rows (add_watchlist, _resolve_row,
\* watchlist_edit, watchlist_import_read and import_entry), for any channels, genres, tracks,
\* names, files received, answers and bounds: as long as calls on the table come one at a
\* time and at most two writes of one edit fail.
THEOREM RowsStayOne == Spec => []RowsAreOne
  <1>1. LibraryInv => RowsAreOne
    BY ResolverHolds, EditHolds, ListHolds DEF LibraryInv, RowsAreOne, watchlist!RowsInv
  <1> QED
    BY <1>1, LibraryInit, LibraryStep, PTL DEF Spec

\* What the crate knew of a track outlives a rebuild, a second row and a migration, and what
\* the memory hides can be given back (run_rebuild, _path_unique_index, forget_unavailable),
\* for any genres, channels, tracks, columns and bounds: as long as no folder is moved
\* while a rebuild runs and no track is listed by two rows.
THEOREM RecordStays == Spec => []RecordIsKept
  <1>1. LibraryInv => RecordIsKept
    BY RebuildHolds, LedgerHolds DEF LibraryInv, RecordIsKept, downloads!TableInv
  <1> QED
    BY <1>1, LibraryInit, LibraryStep, PTL DEF Spec

\* A row says the bitrate its file was encoded at, a stopped track is filed nowhere, a file, its
\* tag and its row are one upload's whatever names are like it, and a row that says embedded
\* names a file with a cover (_record_success, find_existing, lookup_video_id,
\* run_fetch_artwork), for any bitrates, titles, listings, tracks, failures and kills.
THEOREM FilesStayTrue == Spec => []FilesAreTrue
  <1>1. LibraryInv => FilesAreTrue
    BY TransferHolds, NamesHold DEF LibraryInv, FilesAreTrue, covers!ArtInv
  <1> QED
    BY <1>1, LibraryInit, LibraryStep, PTL DEF Spec

\* A channel's tags come to name the folder it is in, or somebody was told, and a title typed
\* by hand survives every sweep (run_repair_tags and watchlist_edit's retag), for any
\* channels, genres, tracks, editors, failures and kills.
THEOREM TagsStayTrue == Spec => []TagsFollowFolders
  <1>1. LibraryInv => TagsFollowFolders
    BY TagHolds DEF LibraryInv, TagsFollowFolders
  <1> QED
    BY <1>1, LibraryInit, LibraryStep, PTL DEF Spec
=============================================================================
