--------------------------- MODULE WatchRunProofs ---------------------------
(***************************************************************************)
(* Proofs about WatchRun, for any number of callers and channels and any   *)
(* number of pending tracks.                                               *)
(*                                                                         *)
(* Each property speaks of one kind of memory the run, its callers and the *)
(* database share; each has a part of the inductive invariant of its own:  *)
(* who owns a row's status (StatusIsOwned), what the run still has to do   *)
(* for a row before it may clear it (DueIsLeft), where the loop stands in  *)
(* the queue the joins append to (QueueIsAhead), and which cancels the     *)
(* loop still has to see (WaivedIsCancelled).                              *)
(***************************************************************************)
EXTENDS WatchRun, FiniteSetTheorems, TLAPS

Distinct(s) == \A i, j \in 1 .. Len(s) : s[i] = s[j] => i = j

\* Where the run is on a channel, scanning it or downloading it, and where its
\* row may say "downloading".
Scanning    == {"scan", "listing", "listed"}
AtTracks    == {"register", "tracks", "fetch", "close", "book", "idle_row"}
Downloading == {"channel", "force_listing"} \cup AtTracks

\* Between `_begin` and `_end`.
Open == run.pc \notin {"off", "begin", "release"}

CallsAreSound ==
    \A k \in Callers :
        /\ Distinct(caller[k].cids)
        /\ At(k, "claim") => caller[k].kind \in {"scan", "download"}
        /\ At(k, "enqueue") => caller[k].kind = "download" /\ Len(caller[k].cids) = 1

RunIsSound ==
    /\ Distinct(run.cids)
    /\ run.pc # "off" => run.kind \in {"scan", "download"}
    /\ run.pc \in Scanning => run.kind = "scan"
    /\ run.pc \in Downloading => run.kind = "download"
    /\ run.pc \in Scanning \cup Downloading => run.cur \in Channel
    /\ mode = IF Open THEN run.kind ELSE "none"

StatusIsOwned ==
    \A cid \in Channel : status[cid] = "downloading" => run.pc \in AtTracks /\ run.cur = cid

\* As many tracks of the channel are left as a scan found and nothing has settled.
DueIsLeft ==
    /\ run.pc = "fetch" => run.left > 0
    /\ run.pc \in {"close", "book"} /\ ~run.stopped => run.left = 0
    /\ run.pc \in {"register", "tracks", "fetch", "close", "book"} /\ ~run.force /\ ~run.erred
          => due[run.cur] <= run.left
    /\ run.pc = "force_listing" => run.force

\* The loop's index never passes the end by more than one, the channel it is on is
\* the entry before, and whatever joined ahead is still ahead.
QueueIsAhead ==
    /\ QueuedOnce
    /\ run.pc = "begin" => run.index = 1
    /\ Open /\ run.kind = "download" => run.index <= Len(queue) + 1
    /\ run.pc \in Downloading => run.index > 1 /\ queue[run.index - 1].cid = run.cur
    /\ run.pc \in {"off", "begin"} \/ run.kind = "scan" =>
          \A cid \in Channel : joined[cid] = "no"
    /\ run.pc \notin {"ending", "release"} =>
          \A cid \in Channel : joined[cid] = "ahead" => Ahead(cid)

WaivedIsCancelled ==
    /\ waived \subseteq cancelCids
    /\ run.pc \in {"off", "begin"} => waived = {}
    /\ run.pc \in {"force_listing", "register", "tracks", "fetch"} => run.cur \notin waived

\* What every step keeps.
IndInv == /\ TypeOK /\ CallsAreSound /\ RunIsSound /\ StatusIsOwned
          /\ NothingDueForgotten /\ DueIsLeft
          /\ QueueIsAhead /\ JoinAheadIsServed /\ WaivedIsCancelled

-----------------------------------------------------------------------------
(* Lists of channels *)

\* A list made of a set of rows names each of them once.
LEMMA ListsAreDistinct ==
  ASSUME NEW S \in SUBSET Channel, NEW cids \in SetToSeqs(S)
  PROVE  cids \in Seq(Channel) /\ Distinct(cids)
  <1>1. Cardinality(S) \in Nat
    BY ChannelAssumption, FS_Subset, FS_CardinalityType
  <1>2. /\ cids \in [1 .. Cardinality(S) -> S]
        /\ \A i, j \in 1 .. Cardinality(S) : i # j => cids[i] # cids[j]
    BY DEF SetToSeqs
  <1>3. cids \in Seq(Channel) /\ Len(cids) = Cardinality(S)
    BY <1>1, <1>2
  <1> QED
    BY <1>2, <1>3 DEF Distinct

LEMMA AppendedIsLast ==
  ASSUME NEW S, NEW s \in Seq(S), NEW e \in S
  PROVE  /\ Len(Append(s, e)) = Len(s) + 1 /\ Append(s, e)[Len(s) + 1] = e
         /\ \A i \in 1 .. Len(s) : Append(s, e)[i] = s[i]
  OBVIOUS

LEMMA OneIsDistinct ==
  ASSUME NEW cid \in Channel
  PROVE  <<cid>> \in Seq(Channel) /\ Distinct(<<cid>>) /\ Len(<<cid>>) = 1
  BY DEF Distinct

-----------------------------------------------------------------------------
(* Types *)

LEMMA IdleType == Idle \in CallType
  BY DEF Idle, CallType, CallPc, Kind

LEMMA OffType == Off \in RunType
  BY MaxNewAssumption DEF Off, RunType, RunPc, Kind, Link

\* A call, and the run, move on.
LEMMA CallGoes ==
  ASSUME TypeOK, NEW k \in Callers, NEW pc \in CallPc
  PROVE  [caller EXCEPT ![k].pc = pc] \in [Callers -> CallType]
  BY DEF TypeOK, CallType

LEMMA RunGoes ==
  ASSUME TypeOK, NEW pc \in RunPc
  PROVE  [run EXCEPT !.pc = pc] \in RunType
  BY DEF TypeOK, RunType

LEMMA InitIndInv == Init => IndInv
  <1> SUFFICES ASSUME Init PROVE IndInv
    OBVIOUS
  <1> USE DEF Init
  <1>1. TypeOK
    <2>1. link \in [Channel -> Link]
      BY LinksAssumption DEF Link
    <2>2. queue \in Seq(EntryType) /\ (slot <=> run.pc # "off")
      BY DEF Off
    <2>3. caller \in [Callers -> CallType] /\ run \in RunType
      BY IdleType, OffType
    <2>4. 0 \in 0 .. MaxNew
      BY MaxNewAssumption
    <2>5. joined \in [Channel -> {"no", "ahead", "behind"}]
      BY DEF NotJoined
    <2> QED
      BY <2>1, <2>2, <2>3, <2>4, <2>5 DEF TypeOK, Status, Kind
  <1>2. CallsAreSound /\ RunIsSound /\ StatusIsOwned
    BY DEF CallsAreSound, RunIsSound, StatusIsOwned, Distinct, At, Idle, Off, Open, Scanning,
           Downloading, AtTracks
  <1>3. NothingDueForgotten /\ DueIsLeft /\ QueueIsAhead /\ JoinAheadIsServed /\ WaivedIsCancelled
    BY DEF NothingDueForgotten, DueIsLeft, QueueIsAhead, QueuedOnce, JoinAheadIsServed,
           WaivedIsCancelled, Off, NotJoined, Open, Downloading, AtTracks
  <1> QED
    BY <1>1, <1>2, <1>3 DEF IndInv

\* What the calls do to the types.
LEMMA TypeCall ==
  ASSUME TypeOK, CallsAreSound, NEW k \in Callers, Call(k)
  PROVE  TypeOK'
  <1> USE DEF rows, memory, history, At, Return
  <1>0. ASSUME NEW pc \in CallPc, NEW kind \in Kind, NEW cids \in Seq(Channel),
               NEW force \in BOOLEAN, Ask(k, pc, kind, cids, force)
        PROVE  caller' \in [Callers -> CallType]
    BY <1>0 DEF Ask, TypeOK, CallType
  <1>1. CASE Scan(k)
    <2>1. PICK cids \in SetToSeqs(Channel) \cup {<<cid>> : cid \in Channel} :
             Ask(k, "claim", "scan", cids, FALSE)
      BY <1>1 DEF Scan
    <2>2. cids \in Seq(Channel)
      <3>1. Channel \in SUBSET Channel
        OBVIOUS
      <3> QED
        BY <2>1, <3>1, ListsAreDistinct, OneIsDistinct
    <2>3. caller' \in [Callers -> CallType]
      BY <1>0, <2>1, <2>2 DEF CallPc, Kind
    <2> QED
      BY <1>1, <2>3 DEF Scan, TypeOK
  <1>2. CASE DownloadNew(k)
    <2>1. PICK cid \in Channel : Ask(k, IF slot THEN "enqueue" ELSE "claim", "download",
                                     <<cid>>, FALSE)
      BY <1>2 DEF DownloadNew
    <2>2. <<cid>> \in Seq(Channel)
      BY OneIsDistinct
    <2>3. caller' \in [Callers -> CallType]
      BY <1>0, <2>1, <2>2 DEF CallPc, Kind
    <2> QED
      BY <1>2, <2>3 DEF DownloadNew, TypeOK
  <1>3. CASE DownloadAllNew(k)
    <2>1. PICK cids \in SetToSeqs({cid \in Channel : pending[cid] > 0}) :
             Ask(k, "claim", "download", cids, FALSE)
      BY <1>3 DEF DownloadAllNew
    <2>2. cids \in Seq(Channel)
      BY ListsAreDistinct
    <2>3. caller' \in [Callers -> CallType]
      BY <1>0, <2>1, <2>2 DEF CallPc, Kind
    <2> QED
      BY <1>3, <2>3 DEF DownloadAllNew, TypeOK
  <1>4. CASE ForceDownload(k)
    <2>1. PICK cid \in Channel : Ask(k, "claim", "download", <<cid>>, TRUE)
      BY <1>4 DEF ForceDownload
    <2>2. <<cid>> \in Seq(Channel)
      BY OneIsDistinct
    <2>3. caller' \in [Callers -> CallType]
      BY <1>0, <2>1, <2>2 DEF CallPc, Kind
    <2> QED
      BY <1>4, <2>3 DEF ForceDownload, TypeOK
  <1>5. CASE Enqueue(k)
    <2>1. caller[k].cids \in Seq(Channel) /\ Len(caller[k].cids) = 1
      BY <1>5 DEF Enqueue, CallsAreSound, TypeOK, CallType
    <2>2. caller[k].cids[1] \in Channel
      BY <2>1
    <2>3. Append(queue, Entry(caller[k].cids[1], FALSE)) \in Seq(EntryType)
      BY <2>2 DEF Entry, EntryType, TypeOK
    <2>4. queue' \in Seq(EntryType)
      BY <1>5, <2>3 DEF Enqueue, TypeOK
    <2>5. joined' \in [Channel -> {"no", "ahead", "behind"}]
      BY <1>5 DEF Enqueue, TypeOK
    <2>6. caller' \in [Callers -> CallType]
      BY <1>5, IdleType, CallGoes DEF Enqueue, TypeOK, CallPc
    <2> QED
      BY <1>5, <2>4, <2>5, <2>6 DEF Enqueue, TypeOK
  <1>6. CASE Claim(k)
    <2>1. caller[k].kind \in Kind /\ caller[k].cids \in Seq(Channel)
          /\ caller[k].force \in BOOLEAN
      BY DEF TypeOK, CallType
    <2>2. run' \in RunType /\ (slot' <=> run'.pc # "off")
      <3>1. CASE slot
        BY <1>6, <3>1 DEF Claim, TypeOK
      <3>2. CASE ~slot
        <4>1. run' = [Off EXCEPT !.pc = "begin", !.kind = caller[k].kind,
                         !.cids = caller[k].cids, !.force = caller[k].force]
              /\ slot' = TRUE
          BY <1>6, <3>2 DEF Claim
        <4> QED
          BY <2>1, <4>1, OffType DEF RunType, RunPc
      <3> QED
        BY <3>1, <3>2
    <2>3. slot' \in BOOLEAN /\ caller' \in [Callers -> CallType]
      BY <1>6, IdleType DEF Claim, TypeOK
    <2> QED
      BY <1>6, <2>2, <2>3 DEF Claim, TypeOK
  <1>7. CASE Cancel(k)
    <2>1. caller' \in [Callers -> CallType]
      BY <1>7, CallGoes DEF Cancel, CallPc, TypeOK
    <2> QED
      BY <1>7, <2>1 DEF Cancel, TypeOK
  <1>8. CASE CancelAll(k)
    <2>1. caller' \in [Callers -> CallType]
      BY <1>8, CallGoes DEF CancelAll, CallPc
    <2> QED
      BY <1>8, <2>1 DEF CancelAll, TypeOK
  <1>9. CASE FindRunner(k)
    <2>1. caller' \in [Callers -> CallType]
      BY <1>9, CallGoes DEF FindRunner, CallPc
    <2> QED
      BY <1>9, <2>1 DEF FindRunner, TypeOK
  <1>10. CASE StopRunner(k)
    <2>1. caller' \in [Callers -> CallType]
      BY <1>10, IdleType DEF StopRunner, TypeOK
    <2> QED
      BY <1>10, <2>1 DEF StopRunner, TypeOK
  <1>11. CASE SetLink(k)
    BY <1>11 DEF SetLink, TypeOK, Status, Link
  <1> QED
    BY <1>1, <1>2, <1>3, <1>4, <1>5, <1>6, <1>7, <1>8, <1>9, <1>10, <1>11 DEF Call

\* The run goes on to its next channel, and a row's status is written.
LEMMA NextChannelType ==
  ASSUME TypeOK, NextChannel
  PROVE  run' \in RunType /\ run'.pc = "next"
  BY OffType DEF NextChannel, TypeOK, RunType, RunPc

LEMMA SetStatusType ==
  ASSUME TypeOK, NEW s \in Status, SetStatus(s)
  PROVE  status' \in [Channel -> Status] /\ link' \in [Channel -> Link]
  BY DEF SetStatus, TypeOK

LEMMA ZeroIsLeft == 0 \in 0 .. MaxNew
  BY MaxNewAssumption

\* What the run's thread does to the types while it scans ...
LEMMA TypeScan ==
  ASSUME TypeOK, RunIsSound,
         \/ Begin \/ ScanNext \/ ScanChannel \/ ScanCancelled \/ ScanFailed \/ ScanListed
         \/ ScanResult \/ ScanRaised
  PROVE  TypeOK'
  <1> USE DEF rows, memory, history
  <1>1. CASE Begin
    <2>1. run' \in RunType /\ run'.pc = "next"
      BY <1>1, RunGoes DEF Begin, Goto, RunPc, TypeOK, RunType
    <2>2. run.cids \in Seq(Channel) /\ run.force \in BOOLEAN /\ run.kind \in Kind
      BY DEF TypeOK, RunType
    <2>3. [i \in 1 .. Len(run.cids) |-> Entry(run.cids[i], run.force)] \in Seq(EntryType)
      BY <2>2 DEF Entry, EntryType
    <2>4. queue' \in Seq(EntryType)
      BY <1>1, <2>3 DEF Begin
    <2> QED
      BY <1>1, <2>1, <2>2, <2>4 DEF Begin, TypeOK
  <1>2. CASE ScanNext
    <2>1. run.cids \in Seq(Channel) /\ run.index \in Nat \ {0}
      BY DEF TypeOK, RunType
    <2>2. run.index <= Len(run.cids) => run.cids[run.index] \in Channel
      BY <2>1
    <2>3. run' \in RunType /\ run'.pc # "off"
      <3>1. CASE Goto("ending")
        BY <3>1, RunGoes DEF Goto, RunPc, TypeOK, RunType
      <3>2. CASE run.index <= Len(run.cids) /\
                 run' = [run EXCEPT !.pc = "scan", !.cur = run.cids[run.index], !.index = @ + 1]
        <4>1. run.index + 1 \in Nat \ {0}
          BY <2>1
        <4> QED
          BY <2>2, <3>2, <4>1 DEF RunPc, TypeOK, RunType
      <3> QED
        BY <1>2, <2>1, <3>1, <3>2 DEF ScanNext
    <2> QED
      BY <1>2, <2>3 DEF ScanNext, TypeOK
  <1>3. CASE ScanChannel
    <2>1. run' \in RunType /\ run'.pc # "off"
      <3>1. CASE NextChannel
        BY <3>1, NextChannelType
      <3>2. CASE run' = [run EXCEPT !.pc = "listing", !.link = link[run.cur]]
        <4>1. link[run.cur] \in Link
          BY <1>3 DEF ScanChannel, RunIsSound, Scanning, TypeOK
        <4> QED
          BY <3>2, <4>1 DEF TypeOK, RunType, RunPc
      <3> QED
        BY <1>3, <3>1, <3>2 DEF ScanChannel
    <2>2. status' \in [Channel -> Status] /\ link' \in [Channel -> Link]
      BY <1>3, SetStatusType DEF ScanChannel, Status
    <2> QED
      BY <1>3, <2>1, <2>2 DEF ScanChannel, TypeOK
  <1>4. CASE ScanCancelled
    <2>1. run' \in RunType /\ run'.pc # "off"
      BY <1>4, NextChannelType DEF ScanCancelled
    <2>2. status' \in [Channel -> Status] /\ link' \in [Channel -> Link]
      BY <1>4, SetStatusType DEF ScanCancelled, Status
    <2> QED
      BY <1>4, <2>1, <2>2 DEF ScanCancelled, TypeOK
  <1>5. CASE ScanFailed
    <2>1. run' \in RunType /\ run'.pc # "off"
      BY <1>5, NextChannelType DEF ScanFailed
    <2>2. status' \in [Channel -> Status] /\ link' \in [Channel -> Link]
      BY <1>5, SetStatusType DEF ScanFailed, Status
    <2>3. pending' \in [Channel -> 0 .. MaxNew] /\ due' \in [Channel -> 0 .. MaxNew]
      BY <1>5, ZeroIsLeft DEF ScanFailed, TypeOK
    <2> QED
      BY <1>5, <2>1, <2>2, <2>3 DEF ScanFailed, TypeOK
  <1>6. CASE ScanListed
    <2>1. run' \in RunType /\ run'.pc # "off"
      BY <1>6, RunGoes DEF ScanListed, Goto, RunPc, TypeOK, RunType
    <2> QED
      BY <1>6, <2>1 DEF ScanListed, TypeOK
  <1>7. CASE ScanResult
    <2>1. PICK n \in 0 .. MaxNew :
             /\ SetStatus("idle")
             /\ pending' = [pending EXCEPT ![run.cur] = n]
             /\ due' = [due EXCEPT ![run.cur] = n]
      BY <1>7 DEF ScanResult
    <2>2. run' \in RunType /\ run'.pc # "off"
      BY <1>7, NextChannelType DEF ScanResult
    <2>3. status' \in [Channel -> Status] /\ link' \in [Channel -> Link]
      BY <2>1, SetStatusType DEF Status
    <2>4. pending' \in [Channel -> 0 .. MaxNew] /\ due' \in [Channel -> 0 .. MaxNew]
      BY <2>1 DEF TypeOK
    <2> QED
      BY <1>7, <2>2, <2>3, <2>4 DEF ScanResult, TypeOK
  <1>8. CASE ScanRaised
    <2>1. run' \in RunType /\ run'.pc # "off"
      BY <1>8, NextChannelType DEF ScanRaised
    <2> QED
      BY <1>8, <2>1 DEF ScanRaised, TypeOK
  <1> QED
    BY <1>1, <1>2, <1>3, <1>4, <1>5, <1>6, <1>7, <1>8

LEMMA UnregisterType ==
  ASSUME TypeOK, Unregister
  PROVE  /\ runner' \in Channel \cup {NoChannel} /\ runnerStop' \in BOOLEAN
         /\ caller' \in [Callers -> CallType]
         /\ UNCHANGED <<mode, queue, cancelAll, cancelCids>>
  BY IdleType DEF Unregister, TypeOK

LEMMA StartTracksType ==
  ASSUME TypeOK, NEW n \in 0 .. MaxNew, StartTracks(n)
  PROVE  /\ run' \in RunType /\ run'.pc = "register"
         /\ status' \in [Channel -> Status] /\ link' \in [Channel -> Link]
  <1>1. status' \in [Channel -> Status] /\ link' \in [Channel -> Link]
    BY SetStatusType DEF StartTracks, Status
  <1>2. run' = [run EXCEPT !.pc = "register", !.left = n]
    BY DEF StartTracks
  <1> QED
    BY <1>1, <1>2 DEF TypeOK, RunType, RunPc

\* ... and while it downloads, up to where a channel's tracks are known,
LEMMA TypeDownload ==
  ASSUME TypeOK, RunIsSound,
         \/ DownloadNext \/ DownloadSkipped \/ DownloadPending \/ ForceList \/ ForceListed
  PROVE  TypeOK'
  <1> USE DEF rows, memory, history
  <1>1. CASE DownloadNext
    <2>1. queue \in Seq(EntryType) /\ run.index \in Nat \ {0}
      BY DEF TypeOK, RunType
    <2>2. CASE cancelAll \/ run.index > Len(queue)
      <3>1. run' = [run EXCEPT !.pc = "ending"] /\ UNCHANGED joined
        BY <1>1, <2>2 DEF DownloadNext, Goto
      <3>2. run' \in RunType /\ run'.pc # "off"
        BY <3>1, RunGoes DEF RunPc, TypeOK, RunType
      <3> QED
        BY <1>1, <3>1, <3>2 DEF DownloadNext, TypeOK
    <2>3. CASE ~(cancelAll \/ run.index > Len(queue))
      <3> DEFINE entry == queue[run.index]
      <3>1. entry \in EntryType
        BY <2>1, <2>3
      <3>2. /\ run' = [run EXCEPT !.pc = "channel", !.cur = entry.cid,
                           !.force = entry.force, !.index = @ + 1]
            /\ joined' = [joined EXCEPT ![entry.cid] = "no"]
        BY <1>1, <2>3 DEF DownloadNext
      <3> HIDE DEF entry
      <3>3. run' \in RunType /\ run'.pc # "off"
        <4>1. run.index + 1 \in Nat \ {0}
          BY <2>1
        <4>2. entry.cid \in Channel /\ entry.force \in BOOLEAN
          BY <3>1 DEF EntryType
        <4> QED
          BY <3>2, <4>1, <4>2 DEF RunPc, TypeOK, RunType
      <3>4. joined' \in [Channel -> {"no", "ahead", "behind"}]
        BY <3>1, <3>2 DEF EntryType, TypeOK
      <3> QED
        BY <1>1, <3>3, <3>4 DEF DownloadNext, TypeOK
    <2> QED
      BY <2>2, <2>3
  <1>2. CASE DownloadSkipped
    <2>1. run' \in RunType /\ run'.pc # "off"
      BY <1>2, NextChannelType DEF DownloadSkipped
    <2> QED
      BY <1>2, <2>1 DEF DownloadSkipped, TypeOK
  <1>3. CASE DownloadPending
    <2>1. pending[run.cur] \in 0 .. MaxNew
      BY <1>3 DEF DownloadPending, RunIsSound, Downloading, TypeOK
    <2> QED
      BY <1>3, <2>1, StartTracksType DEF DownloadPending, TypeOK
  <1>4. CASE ForceList
    <2>1. link[run.cur] \in Link
      BY <1>4 DEF ForceList, RunIsSound, Downloading, TypeOK
    <2>2. run' \in RunType /\ run'.pc # "off"
      BY <1>4, <2>1 DEF ForceList, TypeOK, RunType, RunPc
    <2> QED
      BY <1>4, <2>2 DEF ForceList, TypeOK
  <1>5. CASE ForceListed
    <2>1. CASE NextChannel /\ UNCHANGED <<status, link>>
      BY <1>5, <2>1, NextChannelType DEF ForceListed, TypeOK
    <2>2. CASE \E n \in 1 .. MaxNew : StartTracks(n)
      <3>1. PICK n \in 1 .. MaxNew : StartTracks(n)
        BY <2>2
      <3>2. n \in 0 .. MaxNew
        BY MaxNewAssumption
      <3> QED
        BY <1>5, <3>1, <3>2, StartTracksType DEF ForceListed, TypeOK
    <2> QED
      BY <1>5, <2>1, <2>2 DEF ForceListed
  <1> QED
    BY <1>1, <1>2, <1>3, <1>4, <1>5

\* ... with its tracks, and at its end.
LEMMA TypeTracks ==
  ASSUME TypeOK, RunIsSound, DueIsLeft,
         \/ RegisterRunner \/ NextTrack \/ TrackSettled \/ TrackInterrupted \/ TracksRaised
         \/ CloseChannel \/ BookPending \/ IdleRow \/ End \/ Release
  PROVE  TypeOK'
  <1> USE DEF rows, memory, history
  <1>1. CASE RegisterRunner
    <2>1. run' \in RunType /\ run'.pc # "off"
      BY <1>1, RunGoes DEF RegisterRunner, Goto, RunPc, TypeOK, RunType
    <2> QED
      BY <1>1, <2>1 DEF RegisterRunner, TypeOK, RunType
  <1>2. CASE NextTrack
    <2>1. run' \in RunType /\ run'.pc # "off"
      <3>1. \/ run' = [run EXCEPT !.pc = "close"]
            \/ run' = [run EXCEPT !.pc = "close", !.stopped = TRUE]
            \/ run' = [run EXCEPT !.pc = "fetch"]
        BY <1>2 DEF NextTrack
      <3>2. "close" \in RunPc /\ "fetch" \in RunPc /\ run \in RunType
        BY DEF RunPc, TypeOK
      <3> QED
        BY <3>1, <3>2 DEF RunType
    <2> QED
      BY <1>2, <2>1 DEF NextTrack, TypeOK
  <1>3. CASE TrackSettled
    <2>1. run.left - 1 \in 0 .. MaxNew
      <3>1. run.pc = "fetch" /\ run.left \in 0 .. MaxNew
        BY <1>3 DEF TrackSettled, TypeOK, RunType
      <3>2. run.left > 0
        BY <3>1 DEF DueIsLeft
      <3> QED
        BY <3>1, <3>2, MaxNewAssumption
    <2>2. run' \in RunType /\ run'.pc # "off"
      <3>1. \/ run' = [run EXCEPT !.pc = "tracks", !.left = @ - 1]
            \/ run' = [run EXCEPT !.pc = "tracks", !.left = @ - 1, !.erred = TRUE]
        BY <1>3 DEF TrackSettled
      <3>2. "tracks" \in RunPc /\ run \in RunType
        BY DEF RunPc, TypeOK
      <3> QED
        BY <2>1, <3>1, <3>2 DEF RunType
    <2>3. due' \in [Channel -> 0 .. MaxNew]
      <3>1. run.cur \in Channel
        BY <1>3 DEF TrackSettled, RunIsSound, Downloading, AtTracks
      <3>2. due[run.cur] # 0 => due[run.cur] - 1 \in 0 .. MaxNew
        BY <3>1, MaxNewAssumption DEF TypeOK
      <3> QED
        BY <1>3, <3>2 DEF TrackSettled, TypeOK
    <2>4. late' \in Nat
      BY <1>3 DEF TrackSettled, TypeOK
    <2> QED
      BY <1>3, <2>2, <2>3, <2>4 DEF TrackSettled, TypeOK
  <1>4. CASE TrackInterrupted
    <2>1. run' \in RunType /\ run'.pc # "off"
      BY <1>4 DEF TrackInterrupted, RunPc, TypeOK, RunType
    <2> QED
      BY <1>4, <2>1 DEF TrackInterrupted, TypeOK
  <1>5. CASE TracksRaised
    <2>1. run' \in RunType /\ run'.pc # "off"
      BY <1>5, NextChannelType DEF TracksRaised
    <2>2. status' \in [Channel -> Status] /\ link' \in [Channel -> Link]
      BY <1>5, SetStatusType DEF TracksRaised, Status
    <2> QED
      BY <1>5, <2>1, <2>2, UnregisterType DEF TracksRaised, TypeOK
  <1>6. CASE CloseChannel
    <2>1. run' \in RunType /\ run'.pc # "off"
      BY <1>6, RunGoes DEF CloseChannel, Goto, RunPc, TypeOK, RunType
    <2> QED
      BY <1>6, <2>1, UnregisterType DEF CloseChannel, TypeOK
  <1>7. CASE BookPending
    <2>1. run' \in RunType /\ run'.pc # "off"
      BY <1>7, RunGoes DEF BookPending, Goto, RunPc, TypeOK, RunType
    <2>2. pending' \in [Channel -> 0 .. MaxNew]
      BY <1>7, ZeroIsLeft DEF BookPending, TypeOK
    <2> QED
      BY <1>7, <2>1, <2>2 DEF BookPending, TypeOK
  <1>8. CASE IdleRow
    <2>1. run' \in RunType /\ run'.pc # "off"
      BY <1>8, NextChannelType DEF IdleRow
    <2>2. status' \in [Channel -> Status] /\ link' \in [Channel -> Link]
      BY <1>8, SetStatusType DEF IdleRow, Status
    <2> QED
      BY <1>8, <2>1, <2>2 DEF IdleRow, TypeOK
  <1>9. CASE End
    <2>1. run' \in RunType /\ run'.pc # "off"
      BY <1>9, RunGoes DEF End, Goto, RunPc, TypeOK, RunType
    <2>2. queue' \in Seq(EntryType)
      BY <1>9 DEF End
    <2> QED
      BY <1>9, <2>1, <2>2 DEF End, TypeOK, Kind
  <1>10. CASE Release
    <2>1. run' \in RunType /\ run'.pc = "off"
      BY <1>10, OffType DEF Release, Off
    <2> QED
      BY <1>10, <2>1 DEF Release, TypeOK, NotJoined
  <1> QED
    BY <1>1, <1>2, <1>3, <1>4, <1>5, <1>6, <1>7, <1>8, <1>9, <1>10

LEMMA TypeCrash ==
  ASSUME TypeOK, CrashAndRestart
  PROVE  TypeOK'
  <1>1. run' \in RunType /\ run'.pc = "off" /\ slot' = FALSE
    BY OffType DEF CrashAndRestart, Volatile, Off
  <1>2. caller' \in [Callers -> CallType]
    BY IdleType DEF CrashAndRestart, Volatile
  <1>3. status' \in [Channel -> Status]
    BY DEF CrashAndRestart, TypeOK, Status
  <1>4. queue' \in Seq(EntryType)
    BY DEF CrashAndRestart, Volatile
  <1> QED
    BY <1>1, <1>2, <1>3, <1>4 DEF CrashAndRestart, Volatile, TypeOK, Kind, NotJoined

LEMMA TypeStep == IndInv /\ [Next]_vars => TypeOK'
  <1> SUFFICES ASSUME IndInv, [Next]_vars PROVE TypeOK'
    OBVIOUS
  <1>1. TypeOK /\ CallsAreSound /\ RunIsSound /\ DueIsLeft
    BY DEF IndInv
  <1>2. CASE UNCHANGED vars
    BY <1>1, <1>2 DEF vars, rows, memory, history, TypeOK
  <1>3. CASE Next
    BY <1>1, <1>3, TypeCall, TypeScan, TypeDownload, TypeTracks, TypeCrash
    DEF Next, Job, Raise
  <1> QED
    BY <1>2, <1>3

-----------------------------------------------------------------------------
(* Who the run and its callers are *)

LEMMA CallsStep ==
  ASSUME TypeOK, CallsAreSound, [Next]_vars
  PROVE  CallsAreSound'
  <1> USE DEF CallsAreSound, At, memory, history, rows
  <1>0. Distinct(Idle.cids)
    BY DEF Idle, Distinct
  <1>1. ASSUME NEW k \in Callers, Call(k) PROVE CallsAreSound'
    <2> USE DEF Return, Idle
    <2>0. ASSUME NEW pc \in {"claim", "enqueue"}, NEW kind \in {"scan", "download"},
                 NEW cids, Distinct(cids), NEW force, Ask(k, pc, kind, cids, force),
                 pc = "enqueue" => kind = "download" /\ Len(cids) = 1
          PROVE  CallsAreSound'
      BY <2>0 DEF Ask, TypeOK
    <2>1. CASE Scan(k)
      <3>1. PICK cids \in SetToSeqs(Channel) \cup {<<cid>> : cid \in Channel} :
               Ask(k, "claim", "scan", cids, FALSE)
        BY <2>1 DEF Scan
      <3>2. Channel \in SUBSET Channel
        OBVIOUS
      <3>3. Distinct(cids)
        BY <3>1, <3>2, ListsAreDistinct, OneIsDistinct
      <3> QED
        BY <2>0, <3>1, <3>3
    <2>2. CASE DownloadNew(k)
      BY <2>0, <2>2, OneIsDistinct DEF DownloadNew
    <2>3. CASE DownloadAllNew(k)
      <3>1. PICK cids \in SetToSeqs({cid \in Channel : pending[cid] > 0}) :
               Ask(k, "claim", "download", cids, FALSE)
        BY <2>3 DEF DownloadAllNew
      <3>2. Distinct(cids)
        BY ListsAreDistinct
      <3> QED
        BY <2>0, <3>1, <3>2
    <2>4. CASE ForceDownload(k)
      BY <2>0, <2>4, OneIsDistinct DEF ForceDownload
    <2>r. ASSUME Return(k) PROVE CallsAreSound'
      BY <1>0, <2>r DEF TypeOK
    <2>c. ASSUME caller[k].kind \in {"scan", "download"}, caller' = [caller EXCEPT ![k].pc = "claim"]
           PROVE  CallsAreSound'
      BY <2>c DEF TypeOK, CallType
    <2>5. CASE Enqueue(k)
      <3>1. caller[k].kind \in {"scan", "download"}
        BY <2>5 DEF Enqueue
      <3>2. Return(k) \/ caller' = [caller EXCEPT ![k].pc = "claim"]
        BY <2>5 DEF Enqueue
      <3> QED
        BY <2>r, <2>c, <3>1, <3>2
    <2>6. CASE Claim(k) \/ StopRunner(k)
      BY <2>6, <2>r DEF Claim, StopRunner
    <2>7. CASE Cancel(k) \/ CancelAll(k) \/ FindRunner(k)
      BY <2>7 DEF Cancel, CancelAll, FindRunner, TypeOK, CallType
    <2>8. CASE SetLink(k)
      BY <2>8 DEF SetLink
    <2> QED
      BY <1>1, <2>1, <2>2, <2>3, <2>4, <2>5, <2>6, <2>7, <2>8 DEF Call
  <1>2. CASE Unregister
    BY <1>0, <1>2 DEF Unregister, TypeOK, Idle
  <1>3. CASE CrashAndRestart
    BY <1>0, <1>3 DEF CrashAndRestart, Volatile, Idle
  <1>4. CASE UNCHANGED caller
    BY <1>4
  <1>5. Job \/ Raise => Unregister \/ UNCHANGED caller
    BY DEF Job, Raise, Begin, ScanNext, ScanChannel, ScanCancelled, ScanFailed, ScanListed,
           ScanResult, DownloadNext, DownloadSkipped, DownloadPending, ForceList, ForceListed,
           RegisterRunner, NextTrack, TrackSettled, TrackInterrupted, CloseChannel,
           BookPending, IdleRow, End, Release, ScanRaised, TracksRaised
  <1> QED
    BY <1>1, <1>2, <1>3, <1>4, <1>5 DEF Next, vars

\* The calls leave the run alone, except the one that starts it.
LEMMA CallLeavesRun ==
  ASSUME NEW k \in Callers, Call(k)
  PROVE  UNCHANGED <<pending, due, runner, mode>> /\ (UNCHANGED run \/ Claim(k))
  BY DEF Call, Scan, DownloadNew, DownloadAllNew, ForceDownload, Enqueue, Claim, Cancel,
         CancelAll, FindRunner, StopRunner, SetLink, rows, memory, history

\* While a channel's tracks are fetched the run stays on the channel.
LEMMA TracksStayOnChannel ==
  ASSUME run \in RunType, RegisterRunner \/ NextTrack \/ TrackSettled \/ TrackInterrupted
  PROVE  /\ run.pc \in {"register", "tracks", "fetch"} /\ run'.pc \in {"tracks", "fetch", "close"}
         /\ run'.kind = run.kind /\ run'.cids = run.cids
         /\ run'.index = run.index /\ run'.cur = run.cur
  <1>1. /\ run.pc \in {"register", "tracks", "fetch"}
        /\ \/ run' = [run EXCEPT !.pc = "tracks"]
           \/ run' = [run EXCEPT !.pc = "close"]
           \/ run' = [run EXCEPT !.pc = "fetch"]
           \/ run' = [run EXCEPT !.pc = "close", !.stopped = TRUE]
           \/ run' = [run EXCEPT !.pc = "tracks", !.left = run.left - 1]
           \/ run' = [run EXCEPT !.pc = "tracks", !.left = run.left - 1, !.erred = TRUE]
    BY DEF RegisterRunner, NextTrack, TrackSettled, TrackInterrupted, Goto
  <1>2. CASE run' = [run EXCEPT !.pc = "tracks"]
    BY <1>1, <1>2 DEF RunType
  <1>3. CASE run' = [run EXCEPT !.pc = "close"]
    BY <1>1, <1>3 DEF RunType
  <1>4. CASE run' = [run EXCEPT !.pc = "fetch"]
    BY <1>1, <1>4 DEF RunType
  <1>5. CASE run' = [run EXCEPT !.pc = "close", !.stopped = TRUE]
    BY <1>1, <1>5 DEF RunType
  <1>6. CASE run' = [run EXCEPT !.pc = "tracks", !.left = run.left - 1]
    BY <1>1, <1>6 DEF RunType
  <1>7. CASE run' = [run EXCEPT !.pc = "tracks", !.left = run.left - 1, !.erred = TRUE]
    BY <1>1, <1>7 DEF RunType
  <1> QED
    BY <1>1, <1>2, <1>3, <1>4, <1>5, <1>6, <1>7

LEMMA RunStep ==
  ASSUME TypeOK, CallsAreSound, RunIsSound, [Next]_vars
  PROVE  RunIsSound'
  <1> USE DEF RunIsSound, Scanning, Downloading, AtTracks, Open, TypeOK, RunType,
              memory, history, rows
  <1>1. CASE UNCHANGED <<run, mode>>
    BY <1>1
  <1>2. ASSUME NEW k \in Callers, Claim(k) PROVE RunIsSound'
    <2>1. CASE slot
      BY <1>1, <1>2, <2>1 DEF Claim
    <2>2. CASE ~slot
      <3>1. /\ run' = [Off EXCEPT !.pc = "begin", !.kind = caller[k].kind,
                          !.cids = caller[k].cids, !.force = caller[k].force]
            /\ mode' = mode
        BY <1>2, <2>2 DEF Claim
      <3>2. run'.pc = "begin" /\ run'.kind = caller[k].kind /\ run'.cids = caller[k].cids
        BY <3>1 DEF Off
      <3>3. Distinct(caller[k].cids) /\ caller[k].kind \in {"scan", "download"}
        BY <1>2 DEF CallsAreSound, Claim
      <3> QED
        BY <2>2, <3>1, <3>2, <3>3
    <2> QED
      BY <2>1, <2>2
  <1>3. CASE Begin
    BY <1>3 DEF Begin, Goto
  <1>4. CASE NextChannel /\ UNCHANGED mode /\ run.pc \in Scanning \cup Downloading
    <2>1. run'.pc = "next" /\ run'.kind = run.kind /\ run'.cids = run.cids
      BY <1>4 DEF NextChannel, Off
    <2> QED
      BY <1>4, <2>1
  <1>5. CASE ScanNext
    <2>1. CASE Goto("ending")
      BY <1>5, <2>1 DEF ScanNext, Goto
    <2>2. CASE run.index <= Len(run.cids) /\
               run' = [run EXCEPT !.pc = "scan", !.cur = run.cids[run.index], !.index = @ + 1]
      <3>1. run.cids[run.index] \in Channel
        BY <2>2
      <3>2. run'.pc = "scan" /\ run'.kind = run.kind /\ run'.cids = run.cids /\ run'.cur \in Channel
        BY <2>2, <3>1
      <3> QED
        BY <1>5, <3>2 DEF ScanNext
    <2> QED
      BY <1>5, <2>1, <2>2 DEF ScanNext
  <1>6. CASE DownloadNext
    <2>1. CASE Goto("ending")
      BY <1>6, <2>1 DEF DownloadNext, Goto
    <2>2. CASE ~Goto("ending")
      <3> DEFINE entry == queue[run.index]
      <3>1. run.index <= Len(queue)
        BY <1>6, <2>2 DEF DownloadNext
      <3>2. entry \in EntryType
        BY <3>1
      <3>3. run' = [run EXCEPT !.pc = "channel", !.cur = entry.cid,
                               !.force = entry.force, !.index = @ + 1]
        BY <1>6, <2>2 DEF DownloadNext
      <3> HIDE DEF entry
      <3>4. run'.pc = "channel" /\ run'.kind = run.kind /\ run'.cids = run.cids
            /\ run'.cur \in Channel
        BY <3>2, <3>3 DEF EntryType
      <3> QED
        BY <1>6, <3>4 DEF DownloadNext
    <2> QED
      BY <2>1, <2>2
  <1>7. CASE ScanChannel \/ ScanListed
    <2>1. CASE ScanChannel
      BY <1>4, <2>1 DEF ScanChannel, Goto
    <2>2. CASE ScanListed
      BY <1>4, <2>2 DEF ScanListed, Goto
    <2> QED
      BY <1>7, <2>1, <2>2
  <1>8. CASE DownloadPending \/ ForceList \/ ForceListed
    <2>1. CASE DownloadPending
      BY <1>4, <2>1 DEF DownloadPending, StartTracks
    <2>2. CASE ForceList
      BY <1>4, <2>2 DEF ForceList
    <2>3. CASE ForceListed
      BY <1>4, <2>3 DEF ForceListed, StartTracks
    <2> QED
      BY <1>8, <2>1, <2>2, <2>3
  <1>9. CASE ScanCancelled \/ ScanFailed \/ ScanResult \/ ScanRaised \/ DownloadSkipped
             \/ IdleRow \/ TracksRaised
    BY <1>4, <1>9 DEF ScanCancelled, ScanFailed, ScanResult, ScanRaised, DownloadSkipped,
                      IdleRow, TracksRaised, Unregister
  <1>10. CASE RegisterRunner \/ NextTrack \/ TrackSettled \/ TrackInterrupted
    <2>1. UNCHANGED mode
      BY <1>10 DEF RegisterRunner, NextTrack, TrackSettled, TrackInterrupted
    <2> QED
      BY <1>10, <2>1, TracksStayOnChannel
  <1>11. CASE CloseChannel
    BY <1>11 DEF CloseChannel, Unregister, Goto
  <1>14. CASE BookPending
    BY <1>14 DEF BookPending, Goto
  <1>12. CASE End
    BY <1>12 DEF End, Goto
  <1>13. CASE Release \/ CrashAndRestart
    BY <1>13 DEF Release, CrashAndRestart, Volatile, Off, Distinct
  <1> QED
    BY <1>1, <1>2, <1>3, <1>5, <1>6, <1>7, <1>8, <1>9, <1>10, <1>11, <1>12, <1>13, <1>14,
       CallLeavesRun DEF Next, Job, Raise, vars

-----------------------------------------------------------------------------
(* The rows' status and their pending tracks *)

LEMMA StatusStep ==
  ASSUME TypeOK, RunIsSound, StatusIsOwned, [Next]_vars
  PROVE  StatusIsOwned'
  <1> USE DEF StatusIsOwned, rows
  <1>0. /\ run \in RunType
        /\ status \in [Channel -> Status]
        /\ run.pc \in Scanning \cup Downloading => run.cur \in Channel
    BY DEF TypeOK, RunIsSound
  <1>1. CASE UNCHANGED <<status, run>>
    BY <1>1
  <1>2. ASSUME NEW k \in Callers, Call(k) PROVE StatusIsOwned'
    <2>1. CASE Claim(k)
      <3>1. run.pc = "off" => \A cid \in Channel : status[cid] # "downloading"
        BY DEF AtTracks
      <3>2. UNCHANGED status /\ (UNCHANGED run \/ run.pc = "off")
        BY <2>1 DEF Claim, TypeOK
      <3> QED
        BY <3>1, <3>2
    <2>2. CASE SetLink(k)
      BY <1>0, <2>2 DEF SetLink
    <2>3. CASE ~Claim(k) /\ ~SetLink(k)
      BY <1>2, <2>3 DEF Call, Scan, DownloadNew, DownloadAllNew, ForceDownload, Enqueue,
                        Cancel, CancelAll, FindRunner, StopRunner
    <2> QED
      BY <2>1, <2>2, <2>3
  \* Where no row is downloading, a step that makes none keeps it so.
  <1>3. ASSUME run.pc \notin AtTracks,
               UNCHANGED status \/ \E s \in Status \ {"downloading"} : SetStatus(s)
        PROVE  StatusIsOwned'
    BY <1>0, <1>3 DEF SetStatus
  \* The channel at its tracks is left with its row idle.
  <1>4. CASE run.pc \in AtTracks /\ SetStatus("idle")
    BY <1>0, <1>4 DEF SetStatus, Downloading
  <1>5. CASE run.pc \in AtTracks /\ run'.pc \in AtTracks /\ run'.cur = run.cur /\ UNCHANGED status
    BY <1>5
  <1>6. CASE Begin \/ ScanNext \/ ScanListed \/ DownloadNext \/ DownloadSkipped \/ ForceList
             \/ End \/ Release \/ ScanRaised
    BY <1>3, <1>6 DEF Begin, ScanNext, ScanListed, DownloadNext, DownloadSkipped, ForceList,
                      End, Release, ScanRaised, AtTracks
  <1>7. CASE ScanChannel \/ ScanCancelled \/ ScanFailed \/ ScanResult
    BY <1>3, <1>7 DEF ScanChannel, ScanCancelled, ScanFailed, ScanResult, AtTracks, Status
  <1>8. ASSUME NEW n, run.pc \in {"channel", "force_listing"}, StartTracks(n)
        PROVE  StatusIsOwned'
    BY <1>0, <1>8 DEF StartTracks, SetStatus, AtTracks, Downloading, RunType
  <1>9. CASE DownloadPending
    BY <1>8, <1>9 DEF DownloadPending
  <1>10. CASE ForceListed
    BY <1>3, <1>8, <1>10 DEF ForceListed, AtTracks
  <1>11. CASE RegisterRunner \/ CloseChannel \/ BookPending
    BY <1>0, <1>5, <1>11 DEF RegisterRunner, CloseChannel, BookPending, Goto, AtTracks, RunType
  <1>12. CASE NextTrack \/ TrackSettled \/ TrackInterrupted
    <2>1. run.pc \in AtTracks /\ UNCHANGED status
      BY <1>12 DEF NextTrack, TrackSettled, TrackInterrupted, AtTracks
    <2>2. run'.pc \in AtTracks /\ run'.cur = run.cur
      BY <1>0, <1>12, TracksStayOnChannel DEF AtTracks
    <2> QED
      BY <1>5, <2>1, <2>2
  <1>13. CASE IdleRow \/ TracksRaised
    BY <1>4, <1>13 DEF IdleRow, TracksRaised, AtTracks
  <1>14. CASE CrashAndRestart
    BY <1>14 DEF CrashAndRestart
  <1> QED
    BY <1>1, <1>2, <1>6, <1>7, <1>9, <1>10, <1>11, <1>12, <1>13, <1>14
    DEF Next, Job, Raise, vars

LEMMA DueStep ==
  ASSUME TypeOK, RunIsSound, NothingDueForgotten, DueIsLeft, [Next]_vars
  PROVE  NothingDueForgotten' /\ DueIsLeft'
  <1> USE DEF NothingDueForgotten, DueIsLeft, rows, history
  <1>0. /\ run \in RunType
        /\ pending \in [Channel -> 0 .. MaxNew] /\ due \in [Channel -> 0 .. MaxNew]
        /\ run.pc \in Scanning \cup Downloading => run.cur \in Channel
    BY DEF TypeOK, RunIsSound
  <1>1. ASSUME UNCHANGED <<pending, due>>,
               UNCHANGED run \/ run'.pc \notin AtTracks \cup {"force_listing"}
        PROVE  NothingDueForgotten' /\ DueIsLeft'
    BY <1>1 DEF AtTracks
  <1>2. ASSUME NEW k \in Callers, Call(k) PROVE NothingDueForgotten' /\ DueIsLeft'
    <2>1. Claim(k) => UNCHANGED run \/ run'.pc = "begin"
      BY DEF Claim, Off
    <2> QED
      BY <1>1, <1>2, <2>1, CallLeavesRun DEF AtTracks
  <1>3. NextChannel => run'.pc = "next"
    BY DEF NextChannel, Off
  <1>4. CASE Begin \/ ScanNext \/ ScanListed \/ End
    BY <1>0, <1>1, <1>4 DEF Begin, ScanNext, ScanListed, End, Goto, AtTracks, RunType
  <1>5. CASE ScanChannel \/ ScanCancelled \/ ScanRaised \/ DownloadSkipped \/ IdleRow
             \/ TracksRaised
    BY <1>0, <1>1, <1>3, <1>5
    DEF ScanChannel, ScanCancelled, ScanRaised, DownloadSkipped, IdleRow, TracksRaised,
        AtTracks, RunType
  <1>6. CASE DownloadNext
    <2>1. run'.pc \in {"ending", "channel"} /\ UNCHANGED <<pending, due>>
      BY <1>0, <1>6 DEF DownloadNext, Goto, RunType
    <2> QED
      BY <1>1, <2>1 DEF AtTracks
  <1>7. CASE ScanFailed
    <2>1. run'.pc = "next" /\ run.cur \in Channel
      BY <1>0, <1>3, <1>7 DEF ScanFailed, Scanning
    <2>2. \A cid \in Channel : due'[cid] <= pending'[cid]
      BY <1>0, <1>7, <2>1 DEF ScanFailed
    <2> QED
      BY <2>1, <2>2
  <1>8. CASE ScanResult
    <2>1. run'.pc = "next" /\ run.cur \in Channel
      BY <1>0, <1>3, <1>8 DEF ScanResult, Scanning
    <2>2. \A cid \in Channel : due'[cid] <= pending'[cid]
      BY <1>0, <1>8, <2>1 DEF ScanResult
    <2> QED
      BY <2>1, <2>2
  <1>9. CASE DownloadPending
    <2>1. UNCHANGED <<pending, due>> /\ run' = [run EXCEPT !.pc = "register", !.left = pending[run.cur]]
      BY <1>9 DEF DownloadPending, StartTracks
    <2>2. run.cur \in Channel
      BY <1>0, <1>9 DEF DownloadPending, Downloading
    <2>3. run'.pc = "register" /\ run'.cur = run.cur /\ run'.left = pending[run.cur]
      BY <1>0, <2>1 DEF RunType
    <2> QED
      BY <2>1, <2>2, <2>3
  <1>10. CASE ForceList
    <2>1. run'.pc = "force_listing" /\ run'.force /\ UNCHANGED <<pending, due>>
      BY <1>0, <1>10 DEF ForceList, RunType
    <2> QED
      BY <2>1
  <1>11. CASE ForceListed
    <2>1. CASE NextChannel
      BY <1>1, <1>3, <1>11, <2>1 DEF ForceListed, AtTracks
    <2>2. CASE \E n \in 1 .. MaxNew : StartTracks(n)
      <3>1. run'.pc = "register" /\ run'.force = run.force
        BY <1>0, <2>2 DEF StartTracks, RunType
      <3>2. UNCHANGED <<pending, due>> /\ run.force
        BY <1>11 DEF ForceListed
      <3> QED
        BY <3>1, <3>2
    <2> QED
      BY <1>11, <2>1, <2>2 DEF ForceListed
  <1>12. CASE RegisterRunner
    <2>1. run'.pc = "tracks" /\ UNCHANGED <<pending, due>>
          /\ run'.cur = run.cur /\ run'.left = run.left
          /\ run'.force = run.force /\ run'.erred = run.erred
      BY <1>0, <1>12 DEF RegisterRunner, Goto, RunType
    <2> QED
      BY <1>12, <2>1 DEF RegisterRunner
  <1>13. CASE NextTrack
    <2>1. /\ UNCHANGED <<pending, due>>
          /\ run'.cur = run.cur /\ run'.left = run.left
          /\ run'.force = run.force /\ run'.erred = run.erred
          /\ \/ run'.pc = "close" /\ run.left = 0
             \/ run'.pc = "close" /\ run'.stopped
             \/ run'.pc = "fetch" /\ run.left > 0
      BY <1>0, <1>13 DEF NextTrack, RunType
    <2> QED
      BY <1>13, <2>1 DEF NextTrack
  <1>14. CASE TrackSettled
    <2>1. run.cur \in Channel /\ run.left > 0
      BY <1>0, <1>14 DEF TrackSettled, Downloading, AtTracks
    <2>2. run'.pc = "tracks" /\ run'.cur = run.cur /\ run'.left = run.left - 1
          /\ run'.force = run.force /\ UNCHANGED pending
      BY <1>0, <1>14 DEF TrackSettled, RunType
    <2>3. \/ run'.erred /\ UNCHANGED due
          \/ run.force /\ UNCHANGED due
          \/ run'.erred = run.erred /\ due[run.cur] = 0 /\ UNCHANGED due
          \/ run'.erred = run.erred /\ due[run.cur] # 0
             /\ due' = [due EXCEPT ![run.cur] = due[run.cur] - 1]
      BY <1>0, <1>14 DEF TrackSettled, RunType
    <2>4. \A cid \in Channel : due'[cid] <= pending'[cid]
      BY <1>0, <2>1, <2>2, <2>3
    <2>5. ~run.force /\ ~run.erred => due[run.cur] <= run.left
      BY <1>14 DEF TrackSettled
    <2>6. ~run'.force /\ ~run'.erred => due'[run'.cur] <= run'.left
      BY <1>0, <2>1, <2>2, <2>3, <2>5 DEF RunType
    <2> QED
      BY <2>2, <2>4, <2>6
  <1>15. CASE TrackInterrupted
    <2>1. run'.pc = "close" /\ UNCHANGED <<pending, due>> /\ run'.stopped
          /\ run'.cur = run.cur /\ run'.left = run.left
          /\ run'.force = run.force /\ run'.erred = run.erred
      BY <1>0, <1>15 DEF TrackInterrupted, RunType
    <2> QED
      BY <1>15, <2>1 DEF TrackInterrupted
  <1>16. CASE CloseChannel
    <2>1. run'.pc = "book" /\ UNCHANGED <<pending, due>> /\ run'.stopped = run.stopped
          /\ run'.cur = run.cur /\ run'.left = run.left
          /\ run'.force = run.force /\ run'.erred = run.erred
      BY <1>0, <1>16 DEF CloseChannel, Goto, RunType
    <2> QED
      BY <1>16, <2>1 DEF CloseChannel
  <1>17. CASE BookPending
    <2>1. run'.pc = "idle_row" /\ UNCHANGED due /\ run.cur \in Channel
      BY <1>0, <1>17 DEF BookPending, Goto, RunType, Downloading, AtTracks
    <2>2. \/ UNCHANGED pending
          \/ /\ ~run.force /\ ~run.erred /\ ~run.stopped
             /\ pending' = [pending EXCEPT ![run.cur] = 0]
      BY <1>17 DEF BookPending
    <2>3. ~run.force /\ ~run.erred /\ ~run.stopped => due[run.cur] = 0
      BY <1>0, <1>17, <2>1 DEF BookPending
    <2> QED
      BY <1>0, <2>1, <2>2, <2>3
  <1>18. CASE Release \/ CrashAndRestart
    BY <1>1, <1>18 DEF Release, CrashAndRestart, Volatile, Off, AtTracks
  <1>19. CASE UNCHANGED vars
    BY <1>1, <1>19 DEF vars
  <1> QED
    BY <1>2, <1>4, <1>5, <1>6, <1>7, <1>8, <1>9, <1>10, <1>11, <1>12, <1>13, <1>14, <1>15,
       <1>16, <1>17, <1>18, <1>19 DEF Next, Job, Raise

-----------------------------------------------------------------------------
(* The queue, the joins and the cancels *)

LEMMA QueueStep ==
  ASSUME TypeOK, CallsAreSound, RunIsSound, QueueIsAhead, [Next]_vars
  PROVE  QueueIsAhead'
  <1> USE DEF memory, history, rows
  <1>0. /\ run \in RunType /\ run.index \in Nat \ {0} /\ queue \in Seq(EntryType)
        /\ joined \in [Channel -> {"no", "ahead", "behind"}]
        /\ mode = IF Open THEN run.kind ELSE "none"
    BY DEF TypeOK, RunIsSound, RunType
  <1>1. CASE UNCHANGED <<run, queue, joined>>
    BY <1>1 DEF QueueIsAhead, QueuedOnce, Ahead, Open
  <1>2. ASSUME NEW k \in Callers, Claim(k), ~slot PROVE QueueIsAhead'
    <2>1. run'.pc = "begin" /\ run'.index = 1 /\ UNCHANGED <<queue, joined>>
      BY <1>2 DEF Claim, Off
    <2>2. run.pc = "off"
      BY <1>2 DEF TypeOK
    <2> QED
      BY <2>1, <2>2 DEF QueueIsAhead, QueuedOnce, Open, Downloading, AtTracks
  <1>3. ASSUME NEW k \in Callers, Enqueue(k) PROVE QueueIsAhead'
    <2>0. PICK cid \in Channel : cid = caller[k].cids[1]
      <3>1. caller[k].cids \in Seq(Channel) /\ Len(caller[k].cids) = 1
        BY <1>3 DEF Enqueue, CallsAreSound, TypeOK, CallType
      <3> QED
        BY <3>1
    <2>1. CASE mode # "download"
      BY <1>1, <1>3, <2>1 DEF Enqueue
    <2>2. CASE mode = "download"
      <3>1. Open /\ run.kind = "download" /\ run.index <= Len(queue) + 1
        BY <1>0, <2>2 DEF QueueIsAhead
      <3>2. /\ queue' = IF Queued(cid) THEN queue ELSE Append(queue, Entry(cid, FALSE))
            /\ joined' = [joined EXCEPT ![cid] =
                              IF run.pc # "ending" /\ (Ahead(cid) \/ ~Queued(cid))
                              THEN "ahead" ELSE "behind"]
            /\ UNCHANGED run
        BY <1>3, <2>0, <2>2 DEF Enqueue
      <3>3. PICK e \in EntryType : e = Entry(cid, FALSE) /\ e.cid = cid
        <4>1. Entry(cid, FALSE) \in EntryType /\ Entry(cid, FALSE).cid = cid
          BY DEF Entry, EntryType
        <4> QED
          BY <4>1
      <3>4. queue' = IF Queued(cid) THEN queue ELSE Append(queue, e)
        BY <3>2, <3>3
      <3>5. /\ Len(queue') >= Len(queue)
            /\ \A i \in 1 .. Len(queue) : queue'[i] = queue[i]
            /\ ~Queued(cid) => Len(queue') = Len(queue) + 1
                               /\ queue'[Len(queue) + 1].cid = cid
            /\ Queued(cid) => queue' = queue
        <4>1. CASE Queued(cid)
          <5>1. queue' = queue /\ Len(queue) \in Nat
            BY <1>0, <3>4, <4>1
          <5> QED
            BY <4>1, <5>1
        <4>2. CASE ~Queued(cid)
          <5>1. queue' = Append(queue, e)
            BY <3>4, <4>2
          <5>2. Len(queue') = Len(queue) + 1 /\ queue'[Len(queue) + 1] = e
                /\ \A i \in 1 .. Len(queue) : queue'[i] = queue[i]
            BY <1>0, <5>1, AppendedIsLast
          <5>3. Len(queue) \in Nat /\ Len(queue') >= Len(queue)
            BY <1>0, <5>2
          <5> QED
            BY <3>3, <4>2, <5>2, <5>3
        <4> QED
          BY <4>1, <4>2
      <3>6. Len(queue) \in Nat /\ Len(queue') \in Nat
        BY <1>0, <3>3, <3>4
      <3>7. QueuedOnce'
        <4>1. CASE Queued(cid)
          BY <3>5, <4>1 DEF QueueIsAhead, QueuedOnce
        <4>2. CASE ~Queued(cid)
          <5>1. \A i \in 1 .. Len(queue) : queue'[i].cid # cid
            BY <3>5, <4>2 DEF Queued
          <5>2. \A i \in 1 .. Len(queue') : i \in 1 .. Len(queue) \/ i = Len(queue) + 1
            BY <3>5, <3>6, <4>2
          <5> QED
            BY <3>5, <4>2, <5>1, <5>2 DEF QueueIsAhead, QueuedOnce
        <4> QED
          BY <4>1, <4>2
      <3>8. \A c \in Channel : Ahead(c) => Ahead(c)'
        <4>1. \A i \in run.index .. Len(queue) :
                 i \in run.index .. Len(queue') /\ queue'[i] = queue[i]
          BY <1>0, <3>5, <3>6
        <4> QED
          BY <3>2, <4>1 DEF Ahead
      <3>9. ~Queued(cid) => Ahead(cid)'
        <4> SUFFICES ASSUME ~Queued(cid) PROVE Ahead(cid)'
          OBVIOUS
        <4>1. Len(queue) + 1 \in run.index .. Len(queue')
          BY <1>0, <3>1, <3>5, <3>6
        <4> QED
          BY <3>2, <3>5, <4>1 DEF Ahead
      <3>10. run.pc # "ending" => \A c \in Channel : joined'[c] = "ahead" => Ahead(c)'
        <4> SUFFICES ASSUME run.pc # "ending", NEW c \in Channel, joined'[c] = "ahead"
                     PROVE  Ahead(c)'
          OBVIOUS
        <4>1. CASE c = cid
          <5>1. Ahead(cid) \/ ~Queued(cid)
            BY <1>0, <3>2, <4>1
          <5> QED
            BY <3>8, <3>9, <4>1, <5>1
        <4>2. CASE c # cid
          <5>1. joined[c] = "ahead" /\ run.pc \notin {"ending", "release"}
            BY <1>0, <3>1, <3>2, <4>2 DEF Open
          <5> QED
            BY <3>8, <5>1 DEF QueueIsAhead
        <4> QED
          BY <4>1, <4>2
      <3>11. run.pc \in Downloading => queue'[run.index - 1] = queue[run.index - 1]
        BY <1>0, <3>1, <3>5, <3>6 DEF QueueIsAhead
      <3> QED
        <4>1. Open' /\ run'.kind = "download" /\ UNCHANGED run
          BY <3>1, <3>2 DEF Open
        <4>2. run.index <= Len(queue') + 1
          BY <1>0, <3>1, <3>5, <3>6
        <4>3. run.pc \in Downloading => run.index > 1 /\ queue'[run.index - 1].cid = run.cur
          BY <3>11 DEF QueueIsAhead
        <4> QED
          BY <3>7, <3>10, <4>1, <4>2, <4>3 DEF QueueIsAhead, Open
    <2> QED
      BY <2>1, <2>2
  \* The run moves on without touching the queue.
  <1>4. ASSUME UNCHANGED <<queue, joined>>, run'.kind = run.kind, run'.index = run.index,
               run.pc \notin {"off", "begin", "ending", "release"},
               run'.pc \notin {"off", "begin", "release"},
               run'.pc \in Downloading => run.pc \in Downloading /\ run'.cur = run.cur
        PROVE  QueueIsAhead'
    <2>1. \A cid \in Channel : Ahead(cid)' <=> Ahead(cid)
      BY <1>4 DEF Ahead
    <2> QED
      BY <1>4, <2>1 DEF QueueIsAhead, QueuedOnce, Open
  <1>5. NextChannel => run'.pc = "next" /\ run'.kind = run.kind /\ run'.index = run.index
    BY DEF NextChannel, Off
  <1>6. CASE Begin
    <2>1. run'.pc = "next" /\ run'.kind = run.kind /\ run'.index = 1 /\ UNCHANGED joined
      BY <1>0, <1>6 DEF Begin, Goto, RunType, QueueIsAhead
    <2>2. queue' = IF run.kind = "scan" THEN <<>>
                   ELSE [i \in 1 .. Len(run.cids) |-> Entry(run.cids[i], run.force)]
      BY <1>6 DEF Begin
    <2>3. Len(run.cids) \in Nat /\ Distinct(run.cids)
      BY <1>0 DEF RunIsSound, RunType
    <2>4. /\ Len(queue') \in Nat
          /\ \A i \in 1 .. Len(queue') : i \in 1 .. Len(run.cids) /\ queue'[i].cid = run.cids[i]
      BY <2>2, <2>3 DEF Entry
    <2>5. QueuedOnce'
      BY <2>3, <2>4 DEF QueuedOnce, Distinct
    <2>6. \A cid \in Channel : joined'[cid] = "no"
      BY <1>6, <2>1 DEF Begin, QueueIsAhead
    <2> QED
      BY <2>1, <2>4, <2>5, <2>6 DEF QueueIsAhead, Open, Downloading, AtTracks
  <1>7. CASE ScanNext
    <2>1. CASE Goto("ending")
      BY <1>0, <1>4, <1>7, <2>1 DEF ScanNext, Goto, RunType, Downloading, AtTracks
    <2>2. CASE ~Goto("ending")
      <3>1. run'.pc = "scan" /\ run'.kind = "scan" /\ UNCHANGED <<queue, joined>>
        BY <1>0, <1>7, <2>2 DEF ScanNext, RunType
      <3>2. \A cid \in Channel : joined'[cid] = "no"
        BY <1>7, <3>1 DEF ScanNext, QueueIsAhead
      <3> QED
        BY <3>1, <3>2 DEF QueueIsAhead, QueuedOnce, Downloading, AtTracks
    <2> QED
      BY <2>1, <2>2
  <1>8. CASE DownloadNext
    <2>1. CASE cancelAll \/ run.index > Len(queue)
      <3>1. run' = [run EXCEPT !.pc = "ending"] /\ UNCHANGED <<queue, joined>>
        BY <1>8, <2>1 DEF DownloadNext, Goto
      <3>2. run'.pc = "ending" /\ run'.kind = run.kind /\ run'.index = run.index
        BY <1>0, <3>1 DEF RunType
      <3> QED
        BY <1>4, <1>8, <3>1, <3>2 DEF DownloadNext, Downloading, AtTracks
    <2>2. CASE ~(cancelAll \/ run.index > Len(queue))
      <3> DEFINE entry == queue[run.index]
      <3>1. /\ run' = [run EXCEPT !.pc = "channel", !.cur = entry.cid,
                           !.force = entry.force, !.index = @ + 1]
            /\ joined' = [joined EXCEPT ![entry.cid] = "no"]
            /\ UNCHANGED queue
        BY <1>8, <2>2 DEF DownloadNext
      <3>2. Len(queue) \in Nat /\ run.index \in 1 .. Len(queue)
        BY <1>0, <2>2
      <3>3. entry \in EntryType /\ entry.cid \in Channel
        <4>1. entry \in EntryType
          BY <1>0, <3>2
        <4> HIDE DEF entry
        <4> QED
          BY <4>1 DEF EntryType
      <3>4. run'.pc = "channel" /\ run'.cur = queue[run.index].cid /\ run'.kind = run.kind
            /\ run'.index = run.index + 1
        BY <1>0, <3>1 DEF RunType
      <3>5. run.kind = "download" /\ run.pc = "next"
        BY <1>8 DEF DownloadNext
      <3>6. ASSUME NEW cid \in Channel, joined'[cid] = "ahead" PROVE Ahead(cid)'
        <4>1. joined[cid] = "ahead" /\ cid # queue[run.index].cid
          BY <1>0, <3>1, <3>3, <3>6
        <4>2. PICK i \in run.index .. Len(queue) : queue[i].cid = cid
          BY <3>5, <4>1 DEF QueueIsAhead, Ahead
        <4>3. i \in run'.index .. Len(queue)
          BY <3>2, <3>4, <4>1, <4>2
        <4> QED
          BY <3>1, <4>2, <4>3 DEF Ahead
      <3>7. QueuedOnce'
        BY <3>1 DEF QueueIsAhead, QueuedOnce
      <3>8. run'.index - 1 = run.index /\ run'.index > 1 /\ run'.index <= Len(queue) + 1
        BY <3>2, <3>4
      <3> QED
        BY <3>1, <3>4, <3>5, <3>6, <3>7, <3>8 DEF QueueIsAhead
    <2> QED
      BY <2>1, <2>2
  <1>9. CASE ScanChannel \/ ScanCancelled \/ ScanFailed \/ ScanListed \/ ScanResult \/ ScanRaised
    <2>1. UNCHANGED <<queue, joined>> /\ run.pc \in Scanning
      BY <1>9 DEF ScanChannel, ScanCancelled, ScanFailed, ScanListed, ScanResult, ScanRaised,
                  Scanning
    <2>2. run'.pc \in {"next", "listing", "listed"} /\ run'.kind = run.kind
          /\ run'.index = run.index
      BY <1>0, <1>5, <1>9 DEF ScanChannel, ScanCancelled, ScanFailed, ScanListed, ScanResult,
                              ScanRaised, Goto, RunType
    <2> QED
      BY <1>4, <2>1, <2>2 DEF Scanning, Downloading, AtTracks
  <1>10. CASE DownloadSkipped \/ DownloadPending \/ ForceList \/ ForceListed
    <2>1. UNCHANGED <<queue, joined>> /\ run.pc \in {"channel", "force_listing"}
      BY <1>10 DEF DownloadSkipped, DownloadPending, ForceList, ForceListed
    <2>2. /\ run'.kind = run.kind /\ run'.index = run.index
          /\ run'.pc = "next" \/ (run'.pc \in {"force_listing", "register"} /\ run'.cur = run.cur)
      BY <1>0, <1>5, <1>10 DEF DownloadSkipped, DownloadPending, ForceList, ForceListed,
                               StartTracks, RunType
    <2> QED
      BY <1>4, <2>1, <2>2 DEF Downloading, AtTracks
  <1>11. CASE RegisterRunner \/ NextTrack \/ TrackSettled \/ TrackInterrupted \/ CloseChannel
              \/ BookPending
    <2>1. UNCHANGED <<queue, joined>> /\ run.pc \in AtTracks
      BY <1>11 DEF RegisterRunner, NextTrack, TrackSettled, TrackInterrupted, CloseChannel,
                   BookPending, Unregister, AtTracks
    <2>2. run'.kind = run.kind /\ run'.index = run.index /\ run'.cur = run.cur
          /\ run'.pc \in AtTracks
      <3>1. CASE RegisterRunner \/ NextTrack \/ TrackSettled \/ TrackInterrupted
        BY <1>0, <3>1, TracksStayOnChannel DEF AtTracks
      <3>2. CASE CloseChannel \/ BookPending
        BY <1>0, <3>2 DEF CloseChannel, BookPending, Goto, RunType, AtTracks
      <3> QED
        BY <1>11, <3>1, <3>2
    <2> QED
      BY <1>4, <2>1, <2>2 DEF Downloading, AtTracks
  <1>12. CASE IdleRow \/ TracksRaised
    <2>1. UNCHANGED <<queue, joined>> /\ run.pc \in AtTracks
      BY <1>12 DEF IdleRow, TracksRaised, Unregister, AtTracks
    <2> QED
      BY <1>4, <1>5, <1>12, <2>1 DEF IdleRow, TracksRaised, Downloading, AtTracks
  <1>13. CASE End
    <2>1. run'.pc = "release" /\ run'.kind = run.kind /\ queue' = <<>> /\ UNCHANGED joined
      BY <1>0, <1>13 DEF End, Goto, RunType
    <2> QED
      BY <2>1 DEF QueueIsAhead, QueuedOnce, Open, Downloading, AtTracks
  <1>14. CASE Release \/ CrashAndRestart
    <2>1. run'.pc = "off" /\ joined' = NotJoined /\ (UNCHANGED queue \/ queue' = <<>>)
      BY <1>14 DEF Release, CrashAndRestart, Volatile, Off
    <2>2. QueuedOnce' /\ \A cid \in Channel : joined'[cid] = "no"
      BY <2>1 DEF QueueIsAhead, QueuedOnce, NotJoined
    <2> QED
      BY <2>1, <2>2 DEF QueueIsAhead, Open, Downloading, AtTracks
  <1>15. ASSUME NEW k \in Callers, Call(k) PROVE QueueIsAhead'
    <2>1. CASE Claim(k) /\ slot
      BY <1>1, <2>1 DEF Claim
    <2>2. CASE ~Claim(k) /\ ~Enqueue(k)
      BY <1>1, <1>15, <2>2 DEF Call, Scan, DownloadNew, DownloadAllNew, ForceDownload, Cancel,
                               CancelAll, FindRunner, StopRunner, SetLink
    <2> QED
      BY <1>2, <1>3, <2>1, <2>2
  <1>16. CASE UNCHANGED vars
    BY <1>1, <1>16 DEF vars
  <1> QED
    BY <1>6, <1>7, <1>8, <1>9, <1>10, <1>11, <1>12, <1>13, <1>14, <1>15, <1>16
    DEF Next, Job, Raise

\* The loop ends only behind every join it was told of, unless cancelled; a join that
\* comes while it ends is told it is behind.
LEMMA JoinStep ==
  ASSUME TypeOK, RunIsSound, QueueIsAhead, JoinAheadIsServed, [Next]_vars
  PROVE  JoinAheadIsServed'
  <1> USE DEF JoinAheadIsServed, memory, history
  <1>0. run \in RunType /\ run.index \in Nat /\ cancelAll \in BOOLEAN
        /\ joined \in [Channel -> {"no", "ahead", "behind"}]
        /\ mode = IF Open THEN run.kind ELSE "none"
    BY DEF TypeOK, RunIsSound, RunType
  <1>1. ASSUME run'.pc \notin {"ending", "release"} PROVE JoinAheadIsServed'
    BY <1>1
  <1>2. CASE UNCHANGED <<joined, run>> /\ (cancelAll => cancelAll')
    BY <1>2
  <1>3. ASSUME NEW k \in Callers, Call(k) PROVE JoinAheadIsServed'
    <2>1. CASE Enqueue(k)
      <3>1. run.pc = "ending" => UNCHANGED joined
                                 \/ joined' = [joined EXCEPT ![caller[k].cids[1]] = "behind"]
        BY <2>1 DEF Enqueue
      <3>2. run.pc = "release" => UNCHANGED joined
        BY <1>0, <2>1 DEF Enqueue, Open
      <3>3. UNCHANGED <<run, cancelAll>>
        BY <2>1 DEF Enqueue
      <3> QED
        BY <1>0, <3>1, <3>2, <3>3
    <2>2. CASE Claim(k)
      BY <1>2, <2>2 DEF Claim, Off
    <2>3. CASE ~Claim(k) /\ ~Enqueue(k)
      BY <1>2, <1>3, <2>3 DEF Call, Scan, DownloadNew, DownloadAllNew, ForceDownload, Cancel,
                              CancelAll, FindRunner, StopRunner, SetLink
    <2> QED
      BY <2>1, <2>2, <2>3
  <1>4. CASE ScanNext
    <2>1. run.kind = "scan" /\ UNCHANGED joined
      BY <1>4 DEF ScanNext
    <2> QED
      BY <2>1 DEF QueueIsAhead
  <1>5. CASE DownloadNext
    <2>1. CASE run.index > Len(queue)
      <3>1. \A cid \in Channel : ~Ahead(cid)
        <4>1. Len(queue) \in Nat
          BY DEF TypeOK
        <4> QED
          BY <1>0, <2>1, <4>1 DEF Ahead
      <3>2. \A cid \in Channel : joined[cid] # "ahead"
        BY <1>5, <3>1 DEF DownloadNext, QueueIsAhead
      <3> QED
        BY <1>5, <2>1, <3>2 DEF DownloadNext
    <2>2. CASE cancelAll
      BY <1>5, <2>2 DEF DownloadNext
    <2>3. CASE ~(cancelAll \/ run.index > Len(queue))
      <3>1. run'.pc = "channel"
        BY <1>0, <1>5, <2>3 DEF DownloadNext, RunType
      <3> QED
        BY <1>1, <3>1
    <2> QED
      BY <2>1, <2>2, <2>3
  <1>6. NextChannel => run'.pc = "next"
    BY DEF NextChannel, Off
  <1>7. CASE \/ Begin \/ ScanChannel \/ ScanCancelled \/ ScanFailed \/ ScanListed \/ ScanResult
             \/ ScanRaised \/ DownloadSkipped \/ DownloadPending \/ ForceList \/ ForceListed
    <2>1. run'.pc \in {"next", "listing", "listed", "register", "force_listing"}
      BY <1>0, <1>6, <1>7
      DEF Begin, ScanChannel, ScanCancelled, ScanFailed, ScanListed, ScanResult, ScanRaised,
          DownloadSkipped, DownloadPending, ForceList, ForceListed, StartTracks, Goto, RunType
    <2> QED
      BY <1>1, <2>1
  <1>8. CASE \/ RegisterRunner \/ NextTrack \/ TrackSettled \/ TrackInterrupted
             \/ CloseChannel \/ BookPending \/ IdleRow \/ TracksRaised
    <2>1. run'.pc \in AtTracks \cup {"next"}
      BY <1>0, <1>6, <1>8
      DEF RegisterRunner, NextTrack, TrackSettled, TrackInterrupted, CloseChannel,
          BookPending, IdleRow, TracksRaised, Goto, RunType, AtTracks
    <2> QED
      BY <1>1, <2>1 DEF AtTracks
  <1>9. CASE End
    BY <1>9 DEF End
  <1>10. CASE Release \/ CrashAndRestart
    BY <1>10 DEF Release, CrashAndRestart, Volatile, Off
  <1>11. CASE UNCHANGED vars
    BY <1>2, <1>11 DEF vars
  <1> QED
    BY <1>3, <1>4, <1>5, <1>7, <1>8, <1>9, <1>10, <1>11 DEF Next, Job, Raise

LEMMA WaivedStep ==
  ASSUME TypeOK, RunIsSound, QueueIsAhead, WaivedIsCancelled, [Next]_vars
  PROVE  WaivedIsCancelled'
  <1> USE DEF WaivedIsCancelled, memory, history
  <1>0. run \in RunType /\ mode = IF Open THEN run.kind ELSE "none"
    BY DEF TypeOK, RunIsSound
  <1>1. ASSUME UNCHANGED waived, cancelCids \subseteq cancelCids',
               \/ UNCHANGED run
               \/ run'.pc \notin {"off", "begin", "force_listing", "register", "tracks", "fetch"}
               \/ run.pc = "off" /\ run'.pc = "begin"
               \/ /\ run.pc \in {"force_listing", "register", "tracks", "fetch"}
                  /\ run'.pc \notin {"off", "begin"} /\ run'.cur = run.cur
        PROVE  WaivedIsCancelled'
    BY <1>1
  <1>2. ASSUME NEW k \in Callers, Cancel(k) PROVE WaivedIsCancelled'
    <2>1. PICK cid \in Channel :
             /\ cancelCids' = cancelCids \cup {cid}
             /\ waived' = IF mode = "download" /\ Ahead(cid) THEN waived \cup {cid} ELSE waived
      BY <1>2 DEF Cancel
    <2>2. UNCHANGED run
      BY <1>2 DEF Cancel
    <2>3. mode = "download" => run.pc \notin {"off", "begin"}
      BY <1>0 DEF Open
    <2>4. run.pc \in Downloading /\ Ahead(cid) => run.cur # cid
      <3> SUFFICES ASSUME run.pc \in Downloading, Ahead(cid), run.cur = cid PROVE FALSE
        OBVIOUS
      <3>1. PICK i \in run.index .. Len(queue) : queue[i].cid = cid
        BY DEF Ahead
      <3>2. run.index \in Nat /\ Len(queue) \in Nat
        BY DEF TypeOK, RunType
      <3>3. run.index > 1 /\ queue[run.index - 1].cid = cid
        BY DEF QueueIsAhead
      <3>4. run.index - 1 \in 1 .. Len(queue) /\ i \in 1 .. Len(queue) /\ run.index - 1 # i
        BY <3>1, <3>2, <3>3
      <3> QED
        BY <3>1, <3>3, <3>4 DEF QueueIsAhead, QueuedOnce
    <2> QED
      BY <2>1, <2>2, <2>3, <2>4 DEF Downloading, AtTracks
  <1>3. ASSUME NEW k \in Callers, Call(k) PROVE WaivedIsCancelled'
    <2>1. CASE Claim(k)
      <3>1. slot \/ run.pc = "off"
        BY DEF TypeOK
      <3>2. UNCHANGED run \/ (run.pc = "off" /\ run'.pc = "begin")
        BY <2>1, <3>1 DEF Claim, Off
      <3> QED
        BY <1>1, <2>1, <3>2 DEF Claim
    <2>2. CASE ~Claim(k) /\ ~Cancel(k)
      BY <1>1, <1>3, <2>2 DEF Call, Scan, DownloadNew, DownloadAllNew, ForceDownload, Enqueue,
                              CancelAll, FindRunner, StopRunner, SetLink
    <2> QED
      BY <1>2, <2>1, <2>2
  <1>4. CASE Begin
    <2>1. run'.pc = "next" /\ cancelCids' = {} /\ waived = {} /\ UNCHANGED waived
      BY <1>0, <1>4 DEF Begin, Goto, RunType
    <2> QED
      BY <2>1
  <1>5. NextChannel => run'.pc = "next"
    BY DEF NextChannel, Off
  <1>6. CASE \/ ScanNext \/ ScanChannel \/ ScanCancelled \/ ScanFailed \/ ScanListed
             \/ ScanResult \/ ScanRaised \/ DownloadNext \/ DownloadSkipped
    <2>1. UNCHANGED <<waived, cancelCids>>
      BY <1>6 DEF ScanNext, ScanChannel, ScanCancelled, ScanFailed, ScanListed, ScanResult,
                  ScanRaised, DownloadNext, DownloadSkipped
    <2>2. run'.pc \in {"ending", "next", "scan", "listing", "listed", "channel"}
      <3>1. CASE ScanNext \/ DownloadNext
        BY <1>0, <3>1 DEF ScanNext, DownloadNext, Goto, RunType
      <3>2. CASE ScanChannel \/ ScanListed
        BY <1>0, <1>5, <3>2 DEF ScanChannel, ScanListed, Goto, RunType
      <3>3. CASE ScanCancelled \/ ScanFailed \/ ScanResult \/ ScanRaised \/ DownloadSkipped
        BY <1>5, <3>3 DEF ScanCancelled, ScanFailed, ScanResult, ScanRaised, DownloadSkipped
      <3> QED
        BY <1>6, <3>1, <3>2, <3>3
    <2> QED
      BY <1>1, <2>1, <2>2
  \* Where a channel's tracks are started its cancel has just been looked at.
  <1>7. CASE DownloadPending \/ ForceList
    <2>1. run.cur \notin cancelCids /\ UNCHANGED <<waived, cancelCids>>
      BY <1>7 DEF DownloadPending, ForceList, IsCancelled
    <2>2. run'.pc \in {"register", "force_listing"} /\ run'.cur = run.cur
      BY <1>0, <1>7 DEF DownloadPending, ForceList, StartTracks, RunType
    <2> QED
      BY <2>1, <2>2
  <1>8. CASE ForceListed
    <2>1. UNCHANGED <<waived, cancelCids>> /\ run.pc = "force_listing"
      BY <1>8 DEF ForceListed
    <2>2. run'.pc = "next" \/ (run'.pc = "register" /\ run'.cur = run.cur)
      BY <1>0, <1>5, <1>8 DEF ForceListed, StartTracks, RunType
    <2> QED
      BY <1>1, <2>1, <2>2
  <1>9. CASE RegisterRunner \/ NextTrack \/ TrackSettled \/ TrackInterrupted
    <2>1. UNCHANGED <<waived, cancelCids>> /\ run.pc \in {"register", "tracks", "fetch"}
      BY <1>9 DEF RegisterRunner, NextTrack, TrackSettled, TrackInterrupted
    <2>2. run'.pc \in {"tracks", "fetch", "close"} /\ run'.cur = run.cur
      BY <1>0, <1>9, TracksStayOnChannel
    <2> QED
      BY <1>1, <2>1, <2>2
  <1>10. CASE CloseChannel \/ BookPending \/ IdleRow \/ TracksRaised \/ End
    <2>1. UNCHANGED <<waived, cancelCids>>
      BY <1>10 DEF CloseChannel, BookPending, IdleRow, TracksRaised, End, Unregister
    <2>2. run'.pc \in {"book", "idle_row", "next", "release"}
      BY <1>0, <1>5, <1>10 DEF CloseChannel, BookPending, IdleRow, TracksRaised, End, Goto, RunType
    <2> QED
      BY <1>1, <2>1, <2>2
  <1>11. CASE Release \/ CrashAndRestart
    BY <1>11 DEF Release, CrashAndRestart, Volatile, Off
  <1>12. CASE UNCHANGED vars
    BY <1>1, <1>12 DEF vars
  <1> QED
    BY <1>3, <1>4, <1>6, <1>7, <1>8, <1>9, <1>10, <1>11, <1>12 DEF Next, Job, Raise

LEMMA IndInvStep == IndInv /\ [Next]_vars => IndInv'
  <1> SUFFICES ASSUME IndInv, [Next]_vars PROVE IndInv'
    OBVIOUS
  <1>1. TypeOK'
    BY TypeStep
  <1>2. CallsAreSound' /\ RunIsSound'
    BY CallsStep, RunStep DEF IndInv
  <1>3. StatusIsOwned' /\ NothingDueForgotten' /\ DueIsLeft'
    BY StatusStep, DueStep DEF IndInv
  <1>4. QueueIsAhead' /\ JoinAheadIsServed' /\ WaivedIsCancelled'
    BY QueueStep, JoinStep, WaivedStep DEF IndInv
  <1> QED
    BY <1>1, <1>2, <1>3, <1>4 DEF IndInv

-----------------------------------------------------------------------------
(* Theorems *)

\* Database, memory, callers and the run's thread have their types; the slot is taken
\* exactly while a run is there.
THEOREM TypeCorrect == Spec => []TypeOK
  <1>1. IndInv => TypeOK
    BY DEF IndInv
  <1> QED
    BY <1>1, InitIndInv, IndInvStep, PTL DEF Spec

\* No row says "downloading" without the run that is on it, through cancels, raises,
\* crashes and restarts.
THEOREM NoGhostDownload == Spec => []DownloadingIsOwned
  <1>1. IndInv => DownloadingIsOwned
    BY DEF IndInv, StatusIsOwned, DownloadingIsOwned, TypeOK, AtTracks
  <1> QED
    BY <1>1, InitIndInv, IndInvStep, PTL DEF Spec

\* What a scan found stays pending until it is settled: a run that is stopped, fails a
\* track, raises or dies never clears a row it has not finished.
THEOREM NothingIsForgotten == Spec => []NothingDueForgotten
  <1>1. IndInv => NothingDueForgotten
    BY DEF IndInv
  <1> QED
    BY <1>1, InitIndInv, IndInvStep, PTL DEF Spec

\* A channel told it joined ahead of the loop is taken before the run closes.
THEOREM JoinsAheadAreServed == Spec => []JoinAheadIsServed
  <1>1. IndInv => JoinAheadIsServed
    BY DEF IndInv
  <1> QED
    BY <1>1, InitIndInv, IndInvStep, PTL DEF Spec

\* A channel cancelled while it waits for its turn is never downloaded in that run.
THEOREM WaitingCancelIsKept == Spec => []CancelledWaitingIsDropped
  <1>1. IndInv => CancelledWaitingIsDropped
    BY DEF IndInv, WaivedIsCancelled, CancelledWaitingIsDropped
  <1> QED
    BY <1>1, InitIndInv, IndInvStep, PTL DEF Spec

\* However many calls join at once, the queue names a channel once.
THEOREM NoChannelTwice == Spec => []QueuedOnce
  <1>1. IndInv => QueuedOnce
    BY DEF IndInv, QueueIsAhead
  <1> QED
    BY <1>1, InitIndInv, IndInvStep, PTL DEF Spec
=============================================================================
