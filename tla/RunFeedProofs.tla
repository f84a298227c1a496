---------------------------- MODULE RunFeedProofs ----------------------------
(***************************************************************************)
(* Proofs about RunFeed, for any number of runs, lines, snapshots and lost *)
(* connections.                                                            *)
(*                                                                         *)
(* The host's half stands on who owns the slot (SlotIsOwned: exactly the   *)
(* run that is at work) and on whose lines the record holds (LinesAreOwned *)
(* : once a run has announced itself every line kept is its own, since     *)
(* every other thread is before its start or past its last line).          *)
(*                                                                         *)
(* The page's half is an argument about news (PageIsTold): as long as no   *)
(* start or end is still to be tracked, emitted or heard and the page is   *)
(* connected, the last snapshot it waits for, or the page itself if it     *)
(* waits for none, tells the truth about the slot, or is known to be old.  *)
(* So a page may be wrong, but never without something under way that      *)
(* makes it ask again.                                                     *)
(*                                                                         *)
(* The feed's half follows the lines of the run in flight (FeedIsTold).    *)
(* Unless something on its way makes the page ask again (Resync), the last *)
(* snapshot it waits for fits: from the n lines it was given on, the page  *)
(* lacks none but those that are on their way (Bridged(n)); and a page     *)
(* that waits for none is bridged from the first line on (Whole).  What    *)
(* that rests on: the record holds the newest of its run's lines           *)
(* (HostIsOrdered), no line names a run that is not its own or is ahead of *)
(* the record (LinesAreNamed), and the lines come in the order in which    *)
(* they were stamped (WireIsOrdered).                                      *)
(***************************************************************************)
EXTENDS RunFeed, SequenceTheorems, FiniteSetTheorems, WellFoundedInduction, TLAPS

Runs == Run \cup {None}

\* Lines a host or a page keeps: at most Limit of them, none twice.
Distinct(lines) == \A k, l \in lines : k.seq = l.seq => k = l
Feed == {lines \in SUBSET LineType :
            IsFiniteSet(lines) /\ Distinct(lines) /\ Cardinality(lines) <= Limit}

Event == [type : {"started"}, id : Run] \cup [type : {"finished"}]
            \cup [type : {"line"}, id : Runs, line : LineType]
ThreadState == [pc : {"unborn", "claimed", "emitting", "working", "released", "over"},
                n : Nat, out : Seq(Event)]
Snapshot == [pc : {"asked", "read", "answered"}, id : Runs, lines : Feed,
             running : BOOLEAN, old : BOOLEAN, behind : BOOLEAN]
Frame == Event \cup [type : {"status"}]
PageState == [loaded : BOOLEAN, id : Runs, lines : Feed, running : BOOLEAN,
              stale : BOOLEAN, torn : BOOLEAN, mixed : BOOLEAN]

HostTyped ==
    /\ slot \in Runs
    /\ thread \in [Run -> ThreadState]
    /\ \A r \in Run : thread[r].pc = "emitting" => Len(thread[r].out) = 1
    /\ record \in [id : Runs, seq : Nat, lines : Feed]
    /\ \A l \in record.lines : l.seq <= record.seq

BrowserTyped ==
    /\ link \in {"on", "off"}
    /\ link = "off" => wire = <<>>
    /\ cuts \in Nat
    /\ wire \in Seq(Frame)
    /\ asks \in Seq(Snapshot) /\ Len(asks) <= MaxAsks
    /\ page \in PageState

Typed == HostTyped /\ BrowserTyped

\* The run in flight is the one that has the slot, from the claim to its release.
Announces(r) == thread[r].pc = "emitting" /\ thread[r].out # <<Finished>>
AtWork(r) == thread[r].pc \in {"claimed", "working"} \/ Announces(r)
SlotIsOwned == \A r \in Run : slot = r <=> AtWork(r)

\* What is kept while a run reports is that run's.
LinesAreOwned ==
    \A r \in Run : thread[r].pc = "working" \/ Announces(r) =>
                      \A l \in record.lines : l.of = r

\* Something the page has not heard changes the answer, or may have.
Told == {"started", "finished"}
Telling(r) == \/ thread[r].pc \in {"claimed", "released"}
              \/ thread[r].pc = "emitting" /\ thread[r].out[1].type \in Told
OnTheWay == \E i \in 1 .. Len(wire) : \/ wire[i].type \in Told
                                      \/ wire[i].type = "status" /\ page.loaded
News == link = "off" \/ OnTheWay \/ \E r \in Run : Telling(r)

\* A snapshot that is applied last tells the truth, or is known to be old.
Truthful(ask) == ask.pc = "answered" => ask.old \/ (ask.running <=> slot # None)
Known == IF asks = <<>> THEN page.loaded => page.stale \/ (page.running <=> slot # None)
         ELSE Truthful(asks[Len(asks)])
PageIsTold == News \/ Known

\* A run has announced itself once its record was opened.
Begun(r) == thread[r].pc \notin {"unborn", "claimed"}

\* The record is the one of the run in flight.
Open == slot # None /\ record.id = slot

RunLine(r, k) == [seq |-> k, of |-> r]
\* The newest Limit of the first n lines of a run.
LastLines(r, n) == {RunLine(r, k) : k \in {j \in 1 .. n : j + Limit > n}}

\* Runs start one after the other; a record is the run's that opened it last, and
\* keeps the newest of its lines.
HostIsOrdered ==
    /\ \A s, t \in Run : s < t /\ thread[s].pc = "unborn" => thread[t].pc = "unborn"
    /\ slot # None => \A t \in Run : slot < t => thread[t].pc = "unborn"
    /\ record.id # None => Begun(record.id)
    /\ \A r \in Run : thread[r].pc = "working" \/ Announces(r) => record.id \in {None, r}
    /\ Open => record.lines = LastLines(slot, record.seq)

\* Lines are of runs that have begun, none of a line the run has not reported;
\* lines that name a run are that run's.
Reported(lines) == \A l \in lines : Begun(l.of) /\ (Open /\ l.of = slot => l.seq <= record.seq)
Named(id, lines) == id # None => Begun(id) /\ \A l \in lines : l.of = id
KnownEvent(e) == /\ e.type = "line" => Reported({e.line}) /\ Named(e.id, {e.line})
                 /\ e.type = "started" => Begun(e.id)
KnownAnswer(ask) ==
    /\ Reported(ask.lines) /\ Named(ask.id, ask.lines)
    /\ Open /\ ask.id = slot => \E n \in 0 .. record.seq : ask.lines = LastLines(slot, n)
KnownPage ==
    /\ Reported(page.lines) /\ (page.id # None => Begun(page.id))
    /\ ~page.mixed => \A l \in page.lines : l.of = page.id
LinesAreNamed ==
    /\ Reported(record.lines) /\ Named(record.id, record.lines)
    /\ \A r \in Run : thread[r].pc = "emitting" =>
          KnownEvent(thread[r].out[1])
          /\ (thread[r].out[1].type = "line" => thread[r].out[1].line.of = r)
    /\ \A i \in 1 .. Len(wire) : KnownEvent(wire[i])
    /\ \A i \in 1 .. Len(asks) : KnownAnswer(asks[i])
    /\ KnownPage

\* The events of the run in flight, from its thread's hand to the page.
InHand(e) == thread[slot].pc = "emitting" /\ thread[slot].out[1] = e
Coming(e) == InHand(e) \/ \E i \in 1 .. Len(wire) : wire[i] = e
OfSlot(e) == e.type = "line" /\ e.id = slot

\* The lines of the run in flight come in order; before another run's line, the
\* page hears of the start.
WireIsOrdered == Open =>
    /\ \A i, j \in 1 .. Len(wire) :
          i < j /\ OfSlot(wire[i]) /\ OfSlot(wire[j]) => wire[i].line.seq < wire[j].line.seq
    /\ thread[slot].pc = "emitting" /\ OfSlot(thread[slot].out[1]) =>
          \A i \in 1 .. Len(wire) :
             OfSlot(wire[i]) => wire[i].line.seq < thread[slot].out[1].line.seq
    /\ \A i \in 1 .. Len(wire) :
          wire[i].type = "line" /\ wire[i].id \notin {None, slot} =>
             InHand(Started(slot)) \/ \E j \in i + 1 .. Len(wire) : wire[j] = Started(slot)

\* Something on its way will make the page ask.
Resync == \/ link = "off"
          \/ page.loaded /\ \E i \in 1 .. Len(wire) : wire[i].type = "status"
          \/ Coming(Started(slot))

\* Every line of the run in flight after its m-th is on its way to the page.
RestIsComing(m) == \A k \in m + 1 .. record.seq : Coming(Line(slot, RunLine(slot, k)))

\* Of the lines after the n-th the feed has the newest, up to the m-th, unbroken.
Unbroken(lines, n, m) ==
    /\ \A l \in lines : l.seq <= m
    /\ \A k \in n + 1 .. m : k + Limit > m => RunLine(slot, k) \in lines

\* Given the first n lines, the page lacks none that is not on its way.
Lacks(n, m) ==
    /\ n <= m /\ m <= record.seq /\ RestIsComing(m)
    /\ IF page.id = slot THEN page.mixed \/ Unbroken(page.lines, n, m) ELSE m = n
Bridged(n) == \E m \in Nat : Lacks(n, m)

Fitting(ask) == \/ ask.pc = "asked" \/ ask.old \/ ask.behind
                \/ /\ ask.id = slot
                   /\ ask.pc = "answered" => ask.running
                   /\ \E n \in Nat : ask.lines = LastLines(slot, n) /\ Bridged(n)
Whole == page.torn \/ (page.id = slot /\ Bridged(0))
FeedIsTold == Open => \/ Resync
                      \/ IF asks = <<>> THEN page.loaded => Whole
                         ELSE Fitting(asks[Len(asks)])

-----------------------------------------------------------------------------
(* Sequences and feeds *)

LEMMA RemovedAt ==
  ASSUME NEW S, NEW s \in Seq(S), NEW i \in 1 .. Len(s)
  PROVE  /\ RemoveAt(s, i) \in Seq(S)
         /\ Len(RemoveAt(s, i)) = Len(s) - 1
         /\ \A j \in 1 .. Len(s) - 1 : RemoveAt(s, i)[j] = IF j < i THEN s[j] ELSE s[j + 1]
  <1> DEFINE a == SubSeq(s, 1, i - 1)
             b == SubSeq(s, i + 1, Len(s))
  <1>1. Len(s) \in Nat /\ \A j \in 1 .. Len(s) : s[j] \in S
    OBVIOUS
  <1>2. /\ a \in Seq(S) /\ Len(a) = i - 1
        /\ \A j \in 1 .. i - 1 : a[j] = s[j]
    <2>1. \A j \in 1 .. i - 1 : s[j] \in S
      BY <1>1
    <2>2. /\ a \in Seq(S) /\ Len(a) = IF 1 <= i - 1 THEN i - 1 - 1 + 1 ELSE 0
          /\ \A j \in 1 .. i - 1 - 1 + 1 : a[j] = s[1 + j - 1]
      BY <1>1, <2>1, SubSeqProperties
    <2> QED
      BY <1>1, <2>2
  <1>3. /\ b \in Seq(S) /\ Len(b) = Len(s) - i
        /\ \A j \in 1 .. Len(s) - i : b[j] = s[i + j]
    <2>1. \A j \in i + 1 .. Len(s) : s[j] \in S
      BY <1>1
    <2>2. /\ b \in Seq(S) /\ Len(b) = IF i + 1 <= Len(s) THEN Len(s) - (i + 1) + 1 ELSE 0
          /\ \A j \in 1 .. Len(s) - (i + 1) + 1 : b[j] = s[i + 1 + j - 1]
      BY <1>1, <2>1, SubSeqProperties
    <2> QED
      BY <1>1, <2>2
  <1>4. /\ a \o b \in Seq(S) /\ Len(a \o b) = Len(a) + Len(b)
        /\ \A j \in 1 .. Len(a) + Len(b) :
              (a \o b)[j] = IF j <= Len(a) THEN a[j] ELSE b[j - Len(a)]
    BY <1>2, <1>3, ConcatProperties
  <1>5. RemoveAt(s, i) = a \o b
    BY DEF RemoveAt
  <1> HIDE DEF a, b
  <1>6. Len(a \o b) = Len(s) - 1
    BY <1>1, <1>2, <1>3, <1>4
  <1>7. ASSUME NEW j \in 1 .. Len(s) - 1
        PROVE  (a \o b)[j] = IF j < i THEN s[j] ELSE s[j + 1]
    <2>1. (a \o b)[j] = IF j <= i - 1 THEN a[j] ELSE b[j - (i - 1)]
      BY <1>1, <1>2, <1>3, <1>4
    <2>2. CASE j < i
      BY <2>1, <2>2, <1>1, <1>2
    <2>3. CASE ~(j < i)
      <3>1. j - (i - 1) \in 1 .. Len(s) - i
        BY <2>3, <1>1
      <3>2. b[j - (i - 1)] = s[i + (j - (i - 1))]
        BY <3>1, <1>3
      <3>3. i + (j - (i - 1)) = j + 1 /\ ~(j <= i - 1)
        BY <2>3, <1>1
      <3> QED
        BY <2>1, <2>3, <3>2, <3>3
    <2> QED
      BY <2>2, <2>3
  <1> QED
    BY <1>4, <1>5, <1>6, <1>7

Less == {p \in Nat \X Nat : p[1] < p[2]}

\* Of some lines, one is the oldest.
LEMMA OldestOfSome ==
  ASSUME NEW lines \in SUBSET LineType, lines # {}
  PROVE  \E m \in lines : \A l \in lines : m.seq <= l.seq
  <1> DEFINE Seqs == {l.seq : l \in lines}
  <1>1. \A l \in lines : l.seq \in Nat
    BY DEF LineType
  <1>2. Seqs \subseteq Nat /\ Seqs # {}
    BY <1>1
  <1>3. IsWellFoundedOn(Less, Nat)
    BY NatLessThanWellFounded DEF OpToRel, Less, IsWellFoundedOn
  <1>4. PICK s \in Seqs : \A q \in Seqs : ~(<<q, s>> \in Less)
    BY <1>2, <1>3, WFMin, Zenon
  <1>5. \A q \in Seqs : ~(q < s)
    BY <1>2, <1>4 DEF Less
  <1>6. PICK m \in lines : s = m.seq
    OBVIOUS
  <1>7. \A l \in lines : l.seq \in Seqs /\ ~(l.seq < m.seq)
    BY <1>5, <1>6
  <1> QED
    BY <1>1, <1>6, <1>7

After(lines, l) == {k \in lines : k.seq > l.seq}

\* What Newest keeps of lines that are all different is a feed.
LEMMA NewestIsFeed ==
  ASSUME NEW lines \in SUBSET LineType, IsFiniteSet(lines), Distinct(lines)
  PROVE  Newest(lines) \in Feed /\ Newest(lines) \subseteq lines
  <1> DEFINE kept == Newest(lines)
  <1>1. kept \subseteq lines
    BY DEF Newest
  <1>2. IsFiniteSet(kept) /\ Cardinality(kept) \in Nat
    BY <1>1, FS_Subset, FS_CardinalityType
  <1>3. Distinct(kept)
    BY <1>1 DEF Distinct
  <1>4. Cardinality(kept) <= Limit
    <2>1. Limit \in Nat /\ Limit > 0
      BY LimitAssumption
    <2>2. CASE kept = {}
      BY <2>1, <2>2, FS_EmptySet
    <2>3. CASE kept # {}
      <3>1. PICK m \in kept : \A l \in kept : m.seq <= l.seq
        <4> HIDE DEF kept
        <4> QED
          BY <1>1, <2>3, OldestOfSome
      <3>2. Cardinality(After(lines, m)) < Limit
        BY <3>1 DEF Newest, After
      <3>3. ASSUME NEW l \in kept \ {m} PROVE l \in After(lines, m)
        <4>1. l \in lines /\ l \in LineType /\ m \in LineType
          BY <1>1, <3>1, <3>3
        <4>2. l.seq # m.seq
          BY <1>3, <3>1, <3>3 DEF Distinct
        <4>3. l.seq \in Nat /\ m.seq \in Nat
          BY <4>1 DEF LineType
        <4>4. l.seq > m.seq
          BY <3>1, <3>3, <4>2, <4>3
        <4> QED
          BY <4>1, <4>4 DEF After
      <3>4. After(lines, m) \subseteq lines /\ IsFiniteSet(After(lines, m)) /\ Cardinality(After(lines, m)) \in Nat
        <4>1. After(lines, m) \subseteq lines
          BY DEF After
        <4>2. IsFiniteSet(After(lines, m))
          BY <4>1, FS_Subset
        <4> QED
          BY <4>1, <4>2, FS_CardinalityType
      <3>5. Cardinality(kept \ {m}) <= Cardinality(After(lines, m))
        BY <3>3, <3>4, FS_Subset
      <3>6. Cardinality(kept \ {m}) = Cardinality(kept) - 1
        BY <1>2, <3>1, FS_RemoveElement
      <3> QED
        BY <1>2, <2>1, <3>2, <3>4, <3>5, <3>6
    <2> QED
      BY <2>2, <2>3
  <1> QED
    BY <1>1, <1>2, <1>3, <1>4 DEF Feed

LEMMA NoLines == {} \in Feed
  BY FS_EmptySet, LimitAssumption DEF Feed, Distinct

\* A line of another number joins a feed; so do those of a second feed.
LEMMA OneJoins ==
  ASSUME NEW lines \in Feed, NEW line \in LineType,
         \A l \in lines : l.seq # line.seq
  PROVE  Newest(lines \cup {line}) \in Feed /\ Newest(lines \cup {line}) \subseteq lines \cup {line}
  <1>1. lines \cup {line} \in SUBSET LineType /\ Distinct(lines \cup {line})
    BY DEF Feed, Distinct
  <1>2. IsFiniteSet(lines \cup {line})
    BY FS_AddElement DEF Feed
  <1> QED
    BY <1>1, <1>2, NewestIsFeed

LEMMA FeedsJoin ==
  ASSUME NEW lines \in Feed, NEW more \in Feed
  PROVE  Newest(lines \cup {l \in more : l.seq \notin {k.seq : k \in lines}}) \in Feed
  <1> DEFINE new == {l \in more : l.seq \notin {k.seq : k \in lines}}
  <1>1. IsFiniteSet(new)
    BY FS_Subset DEF Feed
  <1>2. IsFiniteSet(lines \cup new)
    BY <1>1, FS_Union DEF Feed
  <1>3. lines \cup new \in SUBSET LineType
    BY DEF Feed
  <1>4. Distinct(lines \cup new)
    BY DEF Feed, Distinct
  <1> QED
    BY <1>2, <1>3, <1>4, NewestIsFeed

\* The page when something of run `id` comes: another run's resets the feed.
Base(p, id) == IF id \notin {None, p.id} THEN ResetActivity(p, id) ELSE p

LEMMA BaseTyped ==
  ASSUME NEW p \in PageState, NEW id \in Runs
  PROVE  /\ Base(p, id) \in PageState
         /\ Base(p, id).id = IF id # None THEN id ELSE p.id
         /\ id \in {None, p.id} => Base(p, id) = p
         /\ id \notin {None, p.id} => Base(p, id).lines = {} /\ ~Base(p, id).mixed
         /\ Base(p, id).running = p.running /\ Base(p, id).loaded = p.loaded
         /\ Base(p, id).stale = p.stale /\ Base(p, id).torn = p.torn
  BY NoLines DEF Base, PageState, ResetActivity

Unseen(lines, more) == {l \in more : l.seq \notin {k.seq : k \in lines}}

\* A snapshot's answer changes the page's feed, and nothing else of it.
LEMMA SyncedPage ==
  ASSUME NEW p \in PageState, NEW ask \in Snapshot
  PROVE  LET q   == Base(p, ask.id)
             new == Unseen(q.lines, ask.lines)
         IN  /\ SyncActivity(p, ask) \in PageState
             /\ SyncActivity(p, ask).running = p.running
             /\ SyncActivity(p, ask).id = q.id
             /\ SyncActivity(p, ask).lines = Newest(q.lines \cup new)
             /\ q.mixed \/ (ask.id = None /\ new # {}) <=> SyncActivity(p, ask).mixed
  <1> DEFINE q == Base(p, ask.id)
             new == Unseen(q.lines, ask.lines)
             lines == Newest(q.lines \cup new)
             mixed == q.mixed \/ (ask.id = None /\ new # {})
  <1>1. ask.id \in Runs /\ ask.lines \in Feed
    BY DEF Snapshot
  <1>2. q \in PageState /\ q.running = p.running
    BY <1>1, BaseTyped
  <1>3. lines \in Feed
    BY <1>1, <1>2, FeedsJoin DEF PageState, Unseen
  <1>4. SyncActivity(p, ask) = [q EXCEPT !.lines = lines, !.mixed = mixed]
    BY DEF SyncActivity, Base, Unseen
  <1>5. mixed \in BOOLEAN
    BY <1>2 DEF PageState
  <1> HIDE DEF lines, mixed, q
  <1>6. /\ SyncActivity(p, ask) \in PageState
        /\ SyncActivity(p, ask).running = q.running /\ SyncActivity(p, ask).id = q.id
        /\ SyncActivity(p, ask).lines = lines /\ SyncActivity(p, ask).mixed = mixed
    BY <1>2, <1>3, <1>4, <1>5 DEF PageState
  <1>7. mixed <=> SyncActivity(p, ask).mixed
    BY <1>6
  <1> QED
    BY <1>2, <1>6, <1>7 DEF q, lines, mixed

-----------------------------------------------------------------------------
(* Type correctness *)

LEMMA FinishedIsAnEvent == Finished \in Event /\ \A r \in Run : Started(r) \in Event
  BY DEF Finished, Started, Event

\* An event that is emitted is the thread's one; only the last one is Finished.
LEMMA OneOut ==
  ASSUME HostTyped, NEW r \in Run, thread[r].pc = "emitting"
  PROVE  /\ thread[r].out[1] \in Event /\ thread[r].out = <<thread[r].out[1]>>
         /\ thread[r].out = <<Finished>> <=> thread[r].out[1].type = "finished"
  <1>1. thread[r].out \in Seq(Event) /\ Len(thread[r].out) = 1
    BY DEF HostTyped, ThreadState
  <1>2. thread[r].out[1] \in Event /\ thread[r].out = <<thread[r].out[1]>>
    BY <1>1
  <1>3. ASSUME NEW e \in Event, e.type = "finished" PROVE e = Finished
    BY <1>3 DEF Event, Finished
  <1>4. Finished.type = "finished"
    BY DEF Finished
  <1> QED
    BY <1>2, <1>3, <1>4

LEMMA InitTyped == Init => Typed
  <1> SUFFICES ASSUME Init PROVE Typed
    OBVIOUS
  <1> USE NoLines
  <1>1. HostTyped
    BY DEF Init, HostTyped, Thread, NoRecord, ThreadState, Runs
  <1>2. MaxAsks \in Nat
    BY BoundsAssumption
  <1>3. page \in PageState
    BY DEF Init, NoPage, PageState, Runs
  <1>4. BrowserTyped
    BY <1>2, <1>3 DEF Init, BrowserTyped
  <1> QED
    BY <1>1, <1>4 DEF Typed

LEMMA ThreadSet ==
  ASSUME HostTyped, NEW r \in Run, NEW t \in ThreadState, SetThread(r, t),
         t.pc = "emitting" => Len(t.out) = 1
  PROVE  /\ thread' \in [Run -> ThreadState] /\ thread'[r] = t
         /\ \A s \in Run : s # r => thread'[s] = thread[s]
         /\ \A s \in Run : thread'[s].pc = "emitting" => Len(thread'[s].out) = 1
  BY DEF HostTyped, SetThread

LEMMA EmittingSet ==
  ASSUME HostTyped, NEW r \in Run, NEW e \in Event, Emitting(r, e)
  PROVE  /\ thread' \in [Run -> ThreadState]
         /\ thread'[r].pc = "emitting" /\ thread'[r].out = <<e>>
         /\ \A s \in Run : s # r => thread'[s] = thread[s]
         /\ \A s \in Run : thread'[s].pc = "emitting" => Len(thread'[s].out) = 1
  <1> DEFINE t == [thread[r] EXCEPT !.pc = "emitting", !.out = <<e>>]
  <1>1. thread[r] \in ThreadState
    BY DEF HostTyped
  <1>2. <<e>> \in Seq(Event) /\ Len(<<e>>) = 1
    OBVIOUS
  <1>3. ASSUME NEW x \in ThreadState, NEW o \in Seq(Event)
        PROVE  /\ [x EXCEPT !.pc = "emitting", !.out = o] \in ThreadState
               /\ [x EXCEPT !.pc = "emitting", !.out = o].pc = "emitting"
               /\ [x EXCEPT !.pc = "emitting", !.out = o].out = o
    BY DEF ThreadState
  <1>4. t \in ThreadState /\ t.pc = "emitting" /\ t.out = <<e>>
    BY <1>1, <1>2, <1>3
  <1>5. SetThread(r, t)
    BY DEF Emitting
  <1> HIDE DEF t
  <1> QED
    BY <1>2, <1>4, <1>5, ThreadSet

LEMMA FreshThread ==
  /\ \A pc \in {"unborn", "claimed", "released", "over"} :
        Thread(pc, 0) \in ThreadState /\ Thread(pc, 0).pc = pc
  /\ \A n \in Nat : Thread("working", n) \in ThreadState /\ Thread("working", n).pc = "working"
  BY DEF Thread, ThreadState

LEMMA HostStaysTyped ==
  ASSUME HostTyped, NEW r \in Run,
         \/ Start(r) \/ TrackStarted(r) \/ TrackLine(r)
         \/ ReleaseSlot(r) \/ TrackFinished(r) \/ Emit(r)
  PROVE  HostTyped'
  <1> r \in Runs /\ None \in Runs
    BY DEF Runs
  <1>1. CASE Start(r)
    BY <1>1, FreshThread, ThreadSet DEF Start, HostTyped
  <1>2. CASE TrackStarted(r)
    <2>1. Emitting(r, Started(r)) /\ slot' = slot
      BY <1>2 DEF TrackStarted
    <2>2. /\ thread' \in [Run -> ThreadState]
          /\ \A s \in Run : thread'[s].pc = "emitting" => Len(thread'[s].out) = 1
      BY <2>1, EmittingSet, FinishedIsAnEvent
    <2>3. record' = [id |-> r, seq |-> 0, lines |-> {}]
      BY <1>2 DEF TrackStarted, NoRecord
    <2> QED
      BY <2>1, <2>2, <2>3, NoLines DEF HostTyped
  <1>3. CASE TrackLine(r)
    <2> DEFINE line == [seq |-> record.seq + 1, of |-> r]
               kept == Newest(record.lines \cup {line})
               t == [pc |-> "emitting", n |-> thread[r].n + 1, out |-> <<Line(record.id, line)>>]
    <2>1. /\ record.id \in Runs /\ record.seq \in Nat /\ record.lines \in Feed
          /\ thread[r].n \in Nat
          /\ \A l \in record.lines : l \in LineType /\ l.seq \in Nat /\ l.seq <= record.seq
      BY DEF HostTyped, ThreadState, Feed, LineType
    <2>2. line \in LineType
      BY <2>1 DEF LineType
    <2>3. kept \in Feed /\ kept \subseteq record.lines \cup {line}
      <3>1. \A l \in record.lines : l.seq # line.seq
        BY <2>1
      <3> HIDE DEF line
      <3> QED
        BY <2>1, <2>2, <3>1, OneJoins
    <2>4. Line(record.id, line) \in Event
      BY <2>1, <2>2 DEF Line, Event
    <2>5. t \in ThreadState /\ t.pc = "emitting" /\ Len(t.out) = 1
      <3> HIDE DEF line
      <3> QED
        BY <2>1, <2>4 DEF ThreadState
    <2>6. SetThread(r, t) /\ slot' = slot /\ record' = [record EXCEPT !.seq = record.seq + 1, !.lines = kept]
      BY <1>3 DEF TrackLine
    <2>7. record' = [id |-> record.id, seq |-> record.seq + 1, lines |-> kept]
      BY <2>6 DEF HostTyped
    <2>8. \A l \in record'.lines : l.seq <= record'.seq
      <3>1. line.seq = record.seq + 1
        OBVIOUS
      <3> HIDE DEF line, kept
      <3>2. \A l \in kept : l.seq <= record.seq + 1
        BY <2>1, <2>3, <3>1
      <3> QED
        BY <2>7, <3>2
    <2>9. /\ thread' \in [Run -> ThreadState]
          /\ \A s \in Run : thread'[s].pc = "emitting" => Len(thread'[s].out) = 1
      <3> HIDE DEF t
      <3> QED
        BY <2>5, <2>6, ThreadSet
    <2> HIDE DEF kept
    <2> QED
      BY <2>1, <2>3, <2>6, <2>7, <2>8, <2>9 DEF HostTyped
  <1>4. CASE ReleaseSlot(r)
    BY <1>4, FreshThread, ThreadSet DEF ReleaseSlot, HostTyped
  <1>5. CASE TrackFinished(r)
    <2>1. Emitting(r, Finished) /\ slot' = slot
      BY <1>5 DEF TrackFinished
    <2>2. /\ thread' \in [Run -> ThreadState]
          /\ \A s \in Run : thread'[s].pc = "emitting" => Len(thread'[s].out) = 1
      BY <2>1, EmittingSet, FinishedIsAnEvent
    <2>3. record' = [id |-> None, seq |-> 0, lines |-> {}]
      BY <1>5 DEF TrackFinished, NoRecord
    <2> QED
      BY <2>1, <2>2, <2>3, NoLines DEF HostTyped
  <1>6. CASE Emit(r)
    <2>1. thread[r].n \in Nat /\ slot' = slot /\ record' = record
      BY <1>6 DEF Emit, HostTyped, ThreadState
    <2>2. PICK t \in ThreadState : SetThread(r, t) /\ t.pc # "emitting"
      BY <1>6, <2>1, FreshThread DEF Emit
    <2>3. /\ thread' \in [Run -> ThreadState]
          /\ \A s \in Run : thread'[s].pc = "emitting" => Len(thread'[s].out) = 1
      BY <2>2, ThreadSet
    <2> QED
      BY <2>1, <2>3 DEF HostTyped
  <1> QED
    BY <1>1, <1>2, <1>3, <1>4, <1>5, <1>6

LEMMA HostUntouched ==
  ASSUME HostTyped, UNCHANGED host
  PROVE  HostTyped'
  BY DEF HostTyped, host

LEMMA AFunctionIsASeq ==
  ASSUME NEW S, NEW n \in Nat, NEW f \in [1 .. n -> S]
  PROVE  f \in Seq(S) /\ Len(f) = n
  BY SeqDef

LEMMA NewSnapshot ==
  Asked \in Snapshot /\ Asked.pc = "asked" /\ Asked.old = FALSE
  BY NoLines DEF Asked, Snapshot, Runs

LEMMA AskedAgain ==
  ASSUME BrowserTyped, Ask
  PROVE  /\ asks' \in Seq(Snapshot) /\ Len(asks') <= MaxAsks
         /\ Len(asks') = Len(asks) + 1 /\ asks'[Len(asks')] = Asked
         /\ \A i \in 1 .. Len(asks) : asks'[i] = asks[i]
  <1>1. asks \in Seq(Snapshot) /\ Len(asks) \in Nat /\ Len(asks) < MaxAsks /\ MaxAsks \in Nat
    BY BoundsAssumption DEF Ask, CanAsk, BrowserTyped
  <1>2. asks' = Append(asks, Asked)
    BY DEF Ask
  <1> QED
    BY <1>1, <1>2, NewSnapshot, AppendProperties

LEMMA ArrivedTyped ==
  ASSUME BrowserTyped, NEW type, Arrived(type)
  PROVE  /\ Head(wire) \in Frame /\ Head(wire).type = type /\ Head(wire) = wire[1]
         /\ Len(wire) \in Nat /\ Len(wire) > 0 /\ link = "on"
         /\ wire' \in Seq(Frame) /\ Len(wire') = Len(wire) - 1
         /\ \A i \in 1 .. Len(wire) - 1 : wire'[i] = wire[i + 1]
  <1>1. wire \in Seq(Frame) /\ wire # <<>> /\ Head(wire).type = type /\ wire' = Tail(wire)
    BY DEF Arrived, BrowserTyped
  <1>2. link = "on"
    BY <1>1 DEF BrowserTyped
  <1> QED
    BY <1>1, <1>2, HeadTailProperties

\* What Connect makes of the snapshots in flight, and Apply of those that are left.
LEMMA ConnectAges ==
  ASSUME BrowserTyped, Connect
  PROVE  /\ asks' \in Seq(Snapshot) /\ Len(asks') = Len(asks)
         /\ \A i \in 1 .. Len(asks) : /\ asks'[i].pc = asks[i].pc
                                      /\ asks'[i].id = asks[i].id
                                      /\ asks'[i].lines = asks[i].lines
                                      /\ asks'[i].old = (asks[i].old \/ asks[i].pc # "asked")
  <1>1. /\ asks \in Seq(Snapshot) /\ Len(asks) \in Nat /\ DOMAIN asks = 1 .. Len(asks)
        /\ \A i \in 1 .. Len(asks) : asks[i] \in Snapshot
    BY DEF BrowserTyped
  <1>2. asks' = [i \in 1 .. Len(asks) |-> [asks[i] EXCEPT !.old = @ \/ asks[i].pc # "asked"]]
    BY <1>1 DEF Connect
  <1>3. ASSUME NEW i \in 1 .. Len(asks)
        PROVE  /\ asks'[i] \in Snapshot /\ asks'[i].pc = asks[i].pc
               /\ asks'[i].id = asks[i].id /\ asks'[i].lines = asks[i].lines
               /\ asks'[i].old = (asks[i].old \/ asks[i].pc # "asked")
    <2> DEFINE late == asks[i].pc # "asked"
    <2>1. asks'[i] = [asks[i] EXCEPT !.old = @ \/ late]
      BY <1>2
    <2>2. late \in BOOLEAN /\ asks[i] \in Snapshot
      BY <1>1
    <2> HIDE DEF late
    <2>3. /\ asks'[i] \in Snapshot /\ asks'[i].pc = asks[i].pc
          /\ asks'[i].id = asks[i].id /\ asks'[i].lines = asks[i].lines
          /\ asks'[i].old = (asks[i].old \/ late)
      BY <2>1, <2>2 DEF Snapshot
    <2> QED
      BY <2>3 DEF late
  <1>4. asks' \in [1 .. Len(asks) -> Snapshot]
    BY <1>2, <1>3
  <1>5. asks' \in Seq(Snapshot) /\ Len(asks') = Len(asks)
    BY <1>1, <1>4, AFunctionIsASeq
  <1> QED
    BY <1>3, <1>5

Applied(i)  == IF asks[i].running THEN SyncActivity(page, asks[i]) ELSE page
Backward(i) == Applied(i).id < page.id

LEMMA ApplyAges ==
  ASSUME BrowserTyped, NEW i \in 1 .. Len(asks), Apply(i)
  PROVE  /\ asks' \in Seq(Snapshot) /\ Len(asks') = Len(asks) - 1 /\ Len(asks) \in Nat
         /\ \A j \in 1 .. Len(asks) - 1 :
               LET k == IF j < i THEN j ELSE j + 1
               IN  /\ asks'[j].pc = asks[k].pc
                   /\ asks'[j].running = asks[k].running
                   /\ asks'[j].id = asks[k].id /\ asks'[j].lines = asks[k].lines
                   /\ asks'[j].old = (asks[k].old \/ k < i)
                   /\ asks[k].behind \/ (Backward(i) /\ asks[k].pc # "asked") => asks'[j].behind
  <1>1. /\ asks \in Seq(Snapshot) /\ Len(asks) \in Nat /\ DOMAIN asks = 1 .. Len(asks)
        /\ \A j \in 1 .. Len(asks) : asks[j] \in Snapshot
    BY DEF BrowserTyped
  <1> DEFINE backward == Backward(i)
             aged == [j \in 1 .. Len(asks) |->
                        [asks[j] EXCEPT !.old = @ \/ j < i,
                                        !.behind = @ \/ (backward /\ asks[j].pc # "asked")]]
  <1>2. asks' = RemoveAt(aged, i)
    BY <1>1 DEF Apply, Backward, Applied
  <1> HIDE DEF backward
  <1>3. ASSUME NEW j \in 1 .. Len(asks)
        PROVE  /\ aged[j] \in Snapshot /\ aged[j].pc = asks[j].pc
               /\ aged[j].running = asks[j].running
               /\ aged[j].id = asks[j].id /\ aged[j].lines = asks[j].lines
               /\ aged[j].old = (asks[j].old \/ j < i)
               /\ asks[j].behind \/ (backward /\ asks[j].pc # "asked") => aged[j].behind
    <2> DEFINE late  == j < i
               after == backward /\ asks[j].pc # "asked"
    <2>1. late \in BOOLEAN /\ after \in BOOLEAN /\ asks[j] \in Snapshot
      BY <1>1
    <2>2. aged[j] = [asks[j] EXCEPT !.old = @ \/ late, !.behind = @ \/ after]
      OBVIOUS
    <2> HIDE DEF late, after, aged
    <2>3. /\ aged[j] \in Snapshot /\ aged[j].pc = asks[j].pc
          /\ aged[j].running = asks[j].running
          /\ aged[j].id = asks[j].id /\ aged[j].lines = asks[j].lines
          /\ aged[j].old = (asks[j].old \/ late) /\ aged[j].behind = (asks[j].behind \/ after)
      BY <2>1, <2>2 DEF Snapshot
    <2> QED
      BY <2>3 DEF late, after
  <1>4. aged \in Seq(Snapshot) /\ Len(aged) = Len(asks)
    <2>1. aged \in [1 .. Len(asks) -> Snapshot]
      BY <1>3
    <2> HIDE DEF aged
    <2> QED
      BY <1>1, <2>1, AFunctionIsASeq
  <1> HIDE DEF aged
  <1>5. /\ asks' \in Seq(Snapshot) /\ Len(asks') = Len(asks) - 1
        /\ \A j \in 1 .. Len(asks) - 1 : asks'[j] = IF j < i THEN aged[j] ELSE aged[j + 1]
    BY <1>2, <1>4, RemovedAt
  <1>6. ASSUME NEW j \in 1 .. Len(asks) - 1
        PROVE  LET k == IF j < i THEN j ELSE j + 1
               IN  /\ asks'[j].pc = asks[k].pc
                   /\ asks'[j].running = asks[k].running
                   /\ asks'[j].id = asks[k].id /\ asks'[j].lines = asks[k].lines
                   /\ asks'[j].old = (asks[k].old \/ k < i)
                   /\ asks[k].behind \/ (backward /\ asks[k].pc # "asked") => asks'[j].behind
    <2>1. j \in 1 .. Len(asks) /\ j + 1 \in 1 .. Len(asks)
      BY <1>1
    <2> QED
      BY <1>3, <1>5, <2>1
  <1> QED
    BY <1>1, <1>5, <1>6 DEF backward

\* An answer gives the page its feed, its flag and its age.
LEMMA ApplyTells ==
  ASSUME BrowserTyped, NEW i \in 1 .. Len(asks), Apply(i)
  PROVE  /\ page' \in PageState
         /\ page'.loaded = TRUE /\ page'.running = asks[i].running /\ page'.stale = asks[i].old
         /\ page'.id = Applied(i).id /\ page'.lines = Applied(i).lines
         /\ page'.mixed = Applied(i).mixed
         /\ asks[i].old \/ asks[i].behind => page'.torn
  <1> DEFINE ask == asks[i]
             p == Applied(i)
             torn == ask.old \/ ask.behind \/ Backward(i)
  <1>1. ask \in Snapshot /\ page \in PageState
    BY DEF BrowserTyped
  <1>2. p \in PageState
    BY <1>1, SyncedPage DEF Applied
  <1>3. page' = [p EXCEPT !.loaded = TRUE, !.running = ask.running, !.stale = ask.old, !.torn = torn]
    BY DEF Apply, Applied, Backward
  <1>4. torn \in BOOLEAN /\ ask.running \in BOOLEAN /\ ask.old \in BOOLEAN
    BY <1>1 DEF Snapshot
  <1> HIDE DEF p, torn
  <1>5. /\ page' \in PageState
        /\ page'.loaded = TRUE /\ page'.running = ask.running /\ page'.stale = ask.old
        /\ page'.id = p.id /\ page'.lines = p.lines /\ page'.mixed = p.mixed /\ page'.torn = torn
    BY <1>2, <1>3, <1>4 DEF PageState
  <1> QED
    BY <1>5 DEF p, torn

LEMMA AnsweredAt ==
  ASSUME BrowserTyped, NEW i \in 1 .. Len(asks), ReadFeed(i) \/ ReadRunning(i), HostTyped
  PROVE  /\ asks' \in Seq(Snapshot) /\ Len(asks') = Len(asks)
         /\ \A j \in 1 .. Len(asks) : j # i => asks'[j] = asks[j]
         /\ ReadFeed(i) => /\ asks'[i].pc = "read"
                           /\ asks'[i].id = record.id /\ asks'[i].lines = record.lines
         /\ ReadRunning(i) => /\ asks[i].pc = "read" /\ asks'[i].running = (slot # None)
                              /\ asks'[i].id = asks[i].id /\ asks'[i].lines = asks[i].lines
                              /\ asks'[i].old = asks[i].old /\ asks'[i].behind = asks[i].behind
  <1>1. asks \in Seq(Snapshot) /\ asks[i] \in Snapshot /\ record.id \in Runs /\ record.lines \in Feed
    BY DEF BrowserTyped, HostTyped
  <1>2. CASE ReadFeed(i)
    <2> DEFINE x == [asks[i] EXCEPT !.pc = "read", !.id = record.id, !.lines = record.lines]
    <2>1. x \in Snapshot /\ x.pc = "read" /\ x.id = record.id /\ x.lines = record.lines
      BY <1>1 DEF Snapshot
    <2>2. asks' = [asks EXCEPT ![i] = x]
      BY <1>2 DEF ReadFeed
    <2>3. asks[i].pc = "asked"
      BY <1>2 DEF ReadFeed
    <2>4. ~ReadRunning(i)
      BY <2>3 DEF ReadRunning
    <2> HIDE DEF x
    <2>5. /\ asks' \in Seq(Snapshot) /\ Len(asks') = Len(asks) /\ asks'[i] = x
          /\ \A j \in 1 .. Len(asks) : j # i => asks'[j] = asks[j]
      BY <1>1, <2>1, <2>2, ExceptSeq
    <2> QED
      BY <2>1, <2>3, <2>4, <2>5
  <1>3. CASE ReadRunning(i)
    <2> DEFINE busy == slot # None
               x == [asks[i] EXCEPT !.pc = "answered", !.running = busy]
    <2>1. asks' = [asks EXCEPT ![i] = x]
      BY <1>3 DEF ReadRunning
    <2>2. /\ x \in Snapshot /\ x.running = busy
          /\ x.id = asks[i].id /\ x.lines = asks[i].lines
          /\ x.old = asks[i].old /\ x.behind = asks[i].behind
      BY <1>1 DEF Snapshot
    <2>3. asks[i].pc = "read"
      BY <1>3 DEF ReadRunning
    <2>4. ~ReadFeed(i)
      BY <2>3 DEF ReadFeed
    <2> HIDE DEF x
    <2>5. /\ asks' \in Seq(Snapshot) /\ Len(asks') = Len(asks) /\ asks'[i] = x
          /\ \A j \in 1 .. Len(asks) : j # i => asks'[j] = asks[j]
      BY <1>1, <2>1, <2>2, ExceptSeq
    <2> QED
      BY <2>2, <2>3, <2>4, <2>5 DEF busy
  <1> QED
    BY <1>2, <1>3

LEMMA LineIsAdded ==
  ASSUME BrowserTyped, OnLine
  PROVE  LET e == Head(wire)
             q == Base(page, e.id)
         IN  /\ page' \in PageState /\ page'.running = page.running
             /\ page'.loaded = page.loaded /\ page'.stale = page.stale /\ page'.torn = page.torn
             /\ page'.id = q.id
             /\ \/ /\ \E l \in q.lines : l.seq >= e.line.seq
                   /\ page'.lines = q.lines /\ page'.mixed = q.mixed
                \/ /\ \A l \in q.lines : l.seq < e.line.seq
                   /\ page'.lines = Newest(q.lines \cup {e.line})
                   /\ q.mixed \/ e.id = None <=> page'.mixed
  <1> DEFINE e == Head(wire)
             q == Base(page, e.id)
  <1>1. e \in Frame /\ e.type = "line"
    BY ArrivedTyped DEF OnLine
  <1>2. e.id \in Runs /\ e.line \in LineType
    BY <1>1 DEF Frame, Event
  <1>3. page \in PageState
    BY DEF BrowserTyped
  <1>4. /\ q \in PageState /\ q.running = page.running
        /\ q.loaded = page.loaded /\ q.stale = page.stale /\ q.torn = page.torn
    BY <1>2, <1>3, BaseTyped
  <1>5. page' = IF \E l \in q.lines : l.seq >= e.line.seq THEN q
                ELSE [q EXCEPT !.lines = Newest(q.lines \cup {e.line}),
                               !.mixed = q.mixed \/ e.id = None]
    BY DEF OnLine, Base
  <1> HIDE DEF e, q
  <1>6. CASE \E l \in q.lines : l.seq >= e.line.seq
    BY <1>4, <1>5, <1>6 DEF e, q
  <1>7. CASE ~\E l \in q.lines : l.seq >= e.line.seq
    <2> DEFINE lines == Newest(q.lines \cup {e.line})
    <2>1. q.lines \in Feed /\ \A l \in q.lines : l.seq < e.line.seq /\ l.seq # e.line.seq
      BY <1>2, <1>4, <1>7 DEF PageState, Feed, LineType
    <2>2. lines \in Feed
      BY <1>2, <2>1, OneJoins
    <2> DEFINE mixed == q.mixed \/ e.id = None
    <2>3. page' = [q EXCEPT !.lines = lines, !.mixed = mixed]
      BY <1>5, <1>7
    <2>4. mixed \in BOOLEAN
      BY <1>4 DEF PageState
    <2> HIDE DEF lines, mixed
    <2>5. /\ page' \in PageState /\ page'.running = q.running
          /\ page'.loaded = q.loaded /\ page'.stale = q.stale /\ page'.torn = q.torn
          /\ page'.id = q.id /\ page'.lines = lines /\ page'.mixed = mixed
      BY <1>4, <2>2, <2>3, <2>4 DEF PageState
    <2>6. mixed <=> page'.mixed
      BY <2>5
    <2> QED
      BY <1>4, <2>1, <2>5, <2>6 DEF e, q, lines, mixed
  <1> QED
    BY <1>6, <1>7

LEMMA PageIsTurned ==
  ASSUME BrowserTyped
  PROVE  /\ OnStarted => /\ page' \in PageState /\ page'.id = Head(wire).id
                         /\ page'.lines = {} /\ ~page'.mixed
         /\ OnFinished => /\ page' \in PageState /\ page'.id = page.id
                          /\ page'.lines = page.lines /\ page'.mixed = page.mixed
         /\ Reload => /\ page' \in PageState /\ page'.loaded = FALSE
                      /\ page'.id = None /\ page'.lines = {} /\ ~page'.mixed
  <1>1. page \in PageState
    BY DEF BrowserTyped
  <1>2. ASSUME OnStarted
        PROVE  page' \in PageState /\ page'.id = Head(wire).id /\ page'.lines = {} /\ ~page'.mixed
    <2>1. Head(wire) \in Frame /\ Head(wire).type = "started"
      BY <1>2, ArrivedTyped DEF OnStarted
    <2>2. Head(wire).id \in Runs
      BY <2>1 DEF Frame, Event, Runs
    <2> QED
      BY <1>1, <1>2, <2>2, NoLines DEF OnStarted, ResetActivity, PageState
  <1>3. ASSUME OnFinished
        PROVE  /\ page' \in PageState /\ page'.id = page.id
               /\ page'.lines = page.lines /\ page'.mixed = page.mixed
    BY <1>1, <1>3 DEF OnFinished, PageState
  <1>4. ASSUME Reload
        PROVE  /\ page' \in PageState /\ page'.loaded = FALSE
               /\ page'.id = None /\ page'.lines = {} /\ ~page'.mixed
    BY <1>4, NoLines DEF Reload, NoPage, PageState, Runs
  <1> QED
    BY <1>2, <1>3, <1>4

\* What an emitted event does to the wire.
LEMMA Delivered ==
  ASSUME HostTyped, BrowserTyped, NEW r \in Run, Emit(r)
  PROVE  /\ wire' \in Seq(Frame)
         /\ link = "off" => wire' = <<>>
         /\ link = "on" => /\ Len(wire') = Len(wire) + 1 /\ Len(wire) \in Nat
                           /\ wire'[Len(wire) + 1] = thread[r].out[1]
                           /\ \A i \in 1 .. Len(wire) : wire'[i] = wire[i]
  <1> DEFINE e == thread[r].out[1]
  <1>1. wire \in Seq(Frame) /\ Len(wire) \in Nat /\ (link = "off" => wire = <<>>)
    BY DEF BrowserTyped
  <1>2. e \in Frame /\ thread[r].out = <<e>>
    BY OneOut DEF Emit, Frame
  <1>3. wire' = IF link = "on" THEN wire \o <<e>> ELSE wire
    BY <1>2 DEF Emit
  <1> HIDE DEF e
  <1>4. <<e>> \in Seq(Frame) /\ Len(<<e>>) = 1 /\ <<e>>[1] = e
    BY <1>2
  <1>5. /\ wire \o <<e>> \in Seq(Frame) /\ Len(wire \o <<e>>) = Len(wire) + 1
        /\ \A i \in 1 .. Len(wire) + 1 :
              (wire \o <<e>>)[i] = IF i <= Len(wire) THEN wire[i] ELSE <<e>>[i - Len(wire)]
    BY <1>1, <1>4, ConcatProperties
  <1>6. (wire \o <<e>>)[Len(wire) + 1] = e
    BY <1>1, <1>4, <1>5
  <1>7. \A i \in 1 .. Len(wire) : (wire \o <<e>>)[i] = wire[i]
    BY <1>1, <1>5
  <1> QED
    BY <1>1, <1>3, <1>5, <1>6, <1>7 DEF e

\* The steps of the browser's side.
BrowserStep == \/ Disconnect \/ Connect \/ Reload
               \/ \E i \in 1 .. Len(asks) : ReadFeed(i) \/ ReadRunning(i) \/ AskFails(i) \/ Apply(i)
               \/ Refresh \/ OnStarted \/ OnFinished \/ OnStatus \/ OnLine
HostStep(r) == \/ Start(r) \/ TrackStarted(r) \/ TrackLine(r)
               \/ ReleaseSlot(r) \/ TrackFinished(r) \/ Emit(r)

LEMMA StepSplits ==
  ASSUME BrowserTyped, Next
  PROVE  (\E r \in Run : HostStep(r)) \/ BrowserStep
  <1>1. DOMAIN asks = 1 .. Len(asks)
    BY DEF BrowserTyped
  <1> QED
    BY <1>1 DEF Next, HostStep, BrowserStep

LEMMA BrowserKeepsHost == BrowserStep => UNCHANGED host
  BY DEF BrowserStep, Disconnect, Connect, Reload, ReadFeed, ReadRunning, AskFails, Apply,
         Refresh, OnStarted, OnFinished, OnStatus, OnLine

LEMMA BrowserStaysTyped ==
  ASSUME Typed, BrowserStep
  PROVE  BrowserTyped'
  <1>1. BrowserTyped /\ HostTyped /\ MaxAsks \in Nat /\ MaxAsks > 0 /\ Len(asks) \in Nat
    BY BoundsAssumption DEF Typed, BrowserTyped
  <1>2. <<>> \in Seq(Frame) /\ <<Status>> \in Seq(Frame)
    BY DEF Status, Frame
  <1>3. CASE Disconnect
    BY <1>1, <1>2, <1>3 DEF Disconnect, Cut, BrowserTyped
  <1>4. CASE Connect
    BY <1>1, <1>2, <1>4, ConnectAges DEF Connect, BrowserTyped
  <1>5. CASE Reload
    <2>1. page' \in PageState
      BY <1>1, <1>5, PageIsTurned
    <2>2. cuts' \in Nat /\ link' = "off" /\ wire' = <<>> /\ asks' = <<Asked>>
      BY <1>1, <1>5 DEF Reload, Cut, BrowserTyped
    <2>3. <<Asked>> \in Seq(Snapshot) /\ Len(<<Asked>>) = 1
      BY NewSnapshot
    <2> QED
      BY <1>1, <1>2, <2>1, <2>2, <2>3 DEF BrowserTyped
  <1>6. CASE \E i \in 1 .. Len(asks) : ReadFeed(i) \/ ReadRunning(i)
    <2>1. PICK i \in 1 .. Len(asks) : ReadFeed(i) \/ ReadRunning(i)
      BY <1>6
    <2>2. asks' \in Seq(Snapshot) /\ Len(asks') = Len(asks)
      BY <1>1, <2>1, AnsweredAt
    <2>3. UNCHANGED <<link, cuts, wire, page>>
      BY <2>1 DEF ReadFeed, ReadRunning, net
    <2> QED
      BY <1>1, <2>2, <2>3 DEF BrowserTyped
  <1>7. CASE \E i \in 1 .. Len(asks) : AskFails(i)
    <2>1. PICK i \in 1 .. Len(asks) : AskFails(i)
      BY <1>7
    <2>2. asks' = RemoveAt(asks, i) /\ UNCHANGED <<link, cuts, wire, page>>
      BY <2>1 DEF AskFails, net
    <2>3. asks' \in Seq(Snapshot) /\ Len(asks') = Len(asks) - 1
      BY <1>1, <2>2, RemovedAt DEF BrowserTyped
    <2> QED
      BY <1>1, <2>2, <2>3 DEF BrowserTyped
  <1>8. CASE \E i \in 1 .. Len(asks) : Apply(i)
    <2>1. PICK i \in 1 .. Len(asks) : Apply(i)
      BY <1>8
    <2>2. asks' \in Seq(Snapshot) /\ Len(asks') = Len(asks) - 1
      BY <1>1, <2>1, ApplyAges
    <2>3. page' \in PageState
      BY <1>1, <2>1, ApplyTells
    <2>4. UNCHANGED <<link, cuts, wire>>
      BY <2>1 DEF Apply, net
    <2> QED
      BY <1>1, <2>2, <2>3, <2>4 DEF BrowserTyped
  <1>9. CASE Refresh
    BY <1>1, <1>9, AskedAgain DEF Refresh, net, BrowserTyped
  <1>10. CASE OnStarted
    <2>1. Arrived("started") /\ Ask /\ UNCHANGED <<link, cuts>>
      BY <1>10 DEF OnStarted, net
    <2>2. page' \in PageState
      BY <1>1, <1>10, PageIsTurned
    <2> QED
      BY <1>1, <2>1, <2>2, AskedAgain, ArrivedTyped DEF BrowserTyped
  <1>11. CASE OnFinished
    <2>1. Arrived("finished") /\ Ask /\ UNCHANGED <<link, cuts>>
      BY <1>11 DEF OnFinished, net
    <2>2. page' \in PageState
      BY <1>1, <1>11, PageIsTurned
    <2> QED
      BY <1>1, <2>1, <2>2, AskedAgain, ArrivedTyped DEF BrowserTyped
  <1>12. CASE OnStatus
    <2>1. Arrived("status") /\ UNCHANGED <<link, cuts, page>> /\ (Ask \/ UNCHANGED asks)
      BY <1>12 DEF OnStatus, net
    <2> QED
      BY <1>1, <2>1, AskedAgain, ArrivedTyped DEF BrowserTyped
  <1>13. CASE OnLine
    <2>1. Arrived("line") /\ UNCHANGED <<link, cuts, asks>>
      BY <1>13 DEF OnLine, net
    <2>2. page' \in PageState
      BY <1>1, <1>13, LineIsAdded
    <2> QED
      BY <1>1, <2>1, <2>2, ArrivedTyped DEF BrowserTyped
  <1> QED
    BY <1>3, <1>4, <1>5, <1>6, <1>7, <1>8, <1>9, <1>10, <1>11, <1>12, <1>13 DEF BrowserStep

LEMMA StaysTyped ==
  ASSUME Typed, [Next]_vars
  PROVE  Typed'
  <1>1. HostTyped /\ BrowserTyped
    BY DEF Typed
  <1>2. CASE UNCHANGED vars
    <2>1. UNCHANGED host /\ UNCHANGED <<link, cuts, wire, asks, page>>
      BY <1>2 DEF vars, browser, net
    <2> QED
      BY <1>1, <2>1, HostUntouched DEF Typed, BrowserTyped
  <1>3. CASE \E r \in Run : HostStep(r)
    <2>1. PICK r \in Run : HostStep(r)
      BY <1>3
    <2>2. HostTyped'
      BY <1>1, <2>1, HostStaysTyped DEF HostStep
    <2>3. CASE Emit(r)
      <3>1. UNCHANGED <<link, cuts, asks, page>>
        BY <2>3 DEF Emit, net
      <3>2. wire' \in Seq(Frame) /\ (link = "off" => wire' = <<>>)
        BY <1>1, <2>3, Delivered
      <3> QED
        BY <1>1, <2>2, <3>1, <3>2 DEF Typed, BrowserTyped
    <2>4. CASE UNCHANGED browser
      <3>1. UNCHANGED <<link, cuts, wire, asks, page>>
        BY <2>4 DEF browser, net
      <3> QED
        BY <1>1, <2>2, <3>1 DEF Typed, BrowserTyped
    <2> QED
      BY <2>1, <2>3, <2>4 DEF HostStep, Start, TrackStarted, TrackLine, ReleaseSlot, TrackFinished
  <1>4. CASE BrowserStep
    BY <1>1, <1>4, BrowserStaysTyped, BrowserKeepsHost, HostUntouched DEF Typed
  <1> QED
    BY <1>1, <1>2, <1>3, <1>4, StepSplits

-----------------------------------------------------------------------------
(* Who has the slot, and whose lines are kept *)

\* What each step of a run's thread makes of the thread, the slot and the record.
LEMMA ThreadMoves ==
  ASSUME HostTyped, NEW r \in Run, HostStep(r)
  PROVE  /\ \A s \in Run : s # r => thread'[s] = thread[s]
         /\ \/ /\ slot = None /\ slot' = r /\ record' = record
               /\ thread[r].pc = "unborn" /\ thread'[r].pc = "claimed"
            \/ /\ slot' = slot /\ record'.lines = {}
               /\ thread[r].pc = "claimed"
               /\ thread'[r].pc = "emitting" /\ thread'[r].out = <<Started(r)>>
            \/ /\ slot' = slot /\ thread[r].pc = "working"
               /\ thread'[r].pc = "emitting" /\ thread'[r].out[1].type = "line"
               /\ \A l \in record'.lines : l \in record.lines \/ l.of = r
            \/ /\ slot' = None /\ record' = record
               /\ thread[r].pc = "working" /\ thread'[r].pc = "released"
            \/ /\ slot' = slot /\ record'.lines = {}
               /\ thread[r].pc = "released"
               /\ thread'[r].pc = "emitting" /\ thread'[r].out = <<Finished>>
            \/ /\ slot' = slot /\ record' = record /\ Emit(r)
               /\ thread[r].pc = "emitting"
               /\ thread'[r].pc = IF thread[r].out = <<Finished>> THEN "over" ELSE "working"
  <1>1. CASE Start(r)
    BY <1>1, FreshThread, ThreadSet DEF Start
  <1>2. CASE TrackStarted(r)
    <2>1. Emitting(r, Started(r)) /\ slot' = slot /\ thread[r].pc = "claimed" /\ record'.lines = {}
      BY <1>2 DEF TrackStarted, NoRecord
    <2> QED
      BY <2>1, EmittingSet, FinishedIsAnEvent
  <1>3. CASE TrackLine(r)
    <2> DEFINE line == [seq |-> record.seq + 1, of |-> r]
               t == [pc |-> "emitting", n |-> thread[r].n + 1, out |-> <<Line(record.id, line)>>]
    <2>1. slot' = slot /\ thread[r].pc = "working" /\ SetThread(r, t)
      BY <1>3 DEF TrackLine
    <2>2. t.pc = "emitting" /\ t.out[1].type = "line"
      BY DEF Line
    <2>3. thread'[r] = t /\ \A s \in Run : s # r => thread'[s] = thread[s]
      BY <2>1 DEF SetThread, HostTyped
    <2>4. record'.lines = Newest(record.lines \cup {line})
      BY <1>3 DEF TrackLine, HostTyped
    <2>5. record'.lines \subseteq record.lines \cup {line} /\ line.of = r
      BY <2>4 DEF Newest
    <2> HIDE DEF t, line
    <2> QED
      BY <2>1, <2>2, <2>3, <2>5
  <1>4. CASE ReleaseSlot(r)
    BY <1>4, FreshThread, ThreadSet DEF ReleaseSlot
  <1>5. CASE TrackFinished(r)
    <2>1. Emitting(r, Finished) /\ slot' = slot /\ thread[r].pc = "released" /\ record'.lines = {}
      BY <1>5 DEF TrackFinished, NoRecord
    <2> QED
      BY <2>1, EmittingSet, FinishedIsAnEvent
  <1>6. CASE Emit(r)
    <2>1. thread[r].n \in Nat /\ slot' = slot /\ record' = record /\ thread[r].pc = "emitting"
      BY <1>6 DEF Emit, HostTyped, ThreadState
    <2>2. CASE thread[r].out = <<Finished>>
      BY <1>6, <2>1, <2>2, FreshThread, ThreadSet DEF Emit
    <2>3. CASE thread[r].out # <<Finished>>
      BY <1>6, <2>1, <2>3, FreshThread, ThreadSet DEF Emit
    <2> QED
      BY <2>2, <2>3
  <1> QED
    BY <1>1, <1>2, <1>3, <1>4, <1>5, <1>6 DEF HostStep

LEMMA EventsDiffer ==
  /\ \A r \in Run : <<Started(r)>> # <<Finished>> /\ <<Started(r)>>[1].type = "started"
  /\ <<Finished>>[1].type = "finished"
  /\ \A out : out[1].type = "line" => out # <<Finished>>
  <1>1. Finished.type = "finished" /\ \A r \in Run : Started(r).type = "started"
    BY DEF Finished, Started
  <1>2. \A e : <<e>>[1] = e
    OBVIOUS
  <1> QED
    BY <1>1, <1>2

LEMMA NoneIsNoRun == None \notin Run
  BY DEF None, Run

LEMMA SlotStaysOwned ==
  ASSUME HostTyped, SlotIsOwned, NEW r \in Run, HostStep(r)
  PROVE  SlotIsOwned'
  <1>1. \A s \in Run : s # r => thread'[s] = thread[s]
    BY ThreadMoves
  <1>2. \A s \in Run : s # r => (AtWork(s)' <=> AtWork(s))
    BY <1>1 DEF AtWork, Announces
  <1>3. CASE slot = None /\ slot' = r /\ thread'[r].pc = "claimed"
    BY <1>2, <1>3, NoneIsNoRun DEF SlotIsOwned, AtWork
  <1>4. CASE slot' = slot /\ AtWork(r) /\ AtWork(r)'
    BY <1>2, <1>4 DEF SlotIsOwned
  <1>5. CASE slot' = slot /\ ~AtWork(r) /\ ~AtWork(r)'
    BY <1>2, <1>5 DEF SlotIsOwned
  <1>6. CASE slot' = None /\ thread[r].pc = "working" /\ thread'[r].pc = "released"
    BY <1>2, <1>6, NoneIsNoRun DEF SlotIsOwned, AtWork, Announces
  <1>7. \/ slot = None /\ slot' = r /\ thread'[r].pc = "claimed"
        \/ slot' = slot /\ AtWork(r) /\ AtWork(r)'
        \/ slot' = slot /\ ~AtWork(r) /\ ~AtWork(r)'
        \/ slot' = None /\ thread[r].pc = "working" /\ thread'[r].pc = "released"
    BY ThreadMoves, EventsDiffer DEF AtWork, Announces
  <1> QED
    BY <1>3, <1>4, <1>5, <1>6, <1>7

\* Two runs never report at once, since both would have the slot.
LEMMA LinesStayOwned ==
  ASSUME HostTyped, SlotIsOwned, LinesAreOwned, RecordIsOneRun, NEW r \in Run, HostStep(r)
  PROVE  LinesAreOwned' /\ RecordIsOneRun'
  <1> DEFINE Reports(s) == thread[s].pc = "working" \/ Announces(s)
  <1>1. \A s \in Run : s # r => (Reports(s)' <=> Reports(s))
    BY ThreadMoves DEF Announces
  <1>2. CASE record'.lines = {}
    BY <1>2 DEF LinesAreOwned, RecordIsOneRun
  <1>3. CASE record' = record /\ (Reports(r)' => Reports(r))
    BY <1>1, <1>3 DEF LinesAreOwned, RecordIsOneRun
  <1>4. CASE /\ thread[r].pc = "working"
             /\ \A l \in record'.lines : l \in record.lines \/ l.of = r
    <2>1. \A l \in record'.lines : l.of = r
      BY <1>4 DEF LinesAreOwned
    <2>2. slot = r
      BY <1>4 DEF SlotIsOwned, AtWork
    <2>3. \A s \in Run : s # r => ~Reports(s)
      BY <2>2 DEF SlotIsOwned, AtWork
    <2> QED
      BY <1>1, <2>1, <2>3 DEF LinesAreOwned, RecordIsOneRun
  <1>5. \/ record'.lines = {}
        \/ record' = record /\ (Reports(r)' => Reports(r))
        \/ /\ thread[r].pc = "working"
           /\ \A l \in record'.lines : l \in record.lines \/ l.of = r
    BY ThreadMoves, EventsDiffer DEF Announces
  <1> QED
    BY <1>2, <1>3, <1>4, <1>5

-----------------------------------------------------------------------------
(* What the page has been told *)

LEMMA HostTells ==
  ASSUME Typed, PageIsTold, NEW r \in Run, HostStep(r)
  PROVE  PageIsTold'
  <1>1. HostTyped /\ BrowserTyped
    BY DEF Typed
  <1>2. CASE Telling(r)'
    BY <1>2 DEF PageIsTold, News
  <1>3. CASE /\ ~Telling(r) /\ slot' = slot /\ UNCHANGED <<link, wire, asks, page>>
    <2>1. \A s \in Run : Telling(s) => Telling(s)'
      BY <1>1, <1>3, ThreadMoves DEF Telling
    <2> QED
      BY <1>3, <2>1 DEF PageIsTold, News, OnTheWay, Known, Truthful
  <1>4. CASE Emit(r)
    <2>1. UNCHANGED <<slot, link, asks, page>> /\ thread[r].pc = "emitting"
      BY <1>4 DEF Emit, net
    <2>2. CASE link = "off"
      BY <2>1, <2>2 DEF PageIsTold, News
    <2>3. CASE link = "on"
      <3>1. /\ Len(wire) \in Nat /\ Len(wire') = Len(wire) + 1
            /\ wire'[Len(wire) + 1] = thread[r].out[1]
            /\ \A i \in 1 .. Len(wire) : wire'[i] = wire[i]
        BY <1>1, <1>4, <2>3, Delivered
      <3>2. Telling(r) => OnTheWay'
        <4> SUFFICES ASSUME Telling(r) PROVE OnTheWay'
          OBVIOUS
        <4>1. wire'[Len(wire')].type \in Told /\ Len(wire') \in 1 .. Len(wire')
          BY <2>1, <3>1 DEF Telling
        <4> QED
          BY <4>1 DEF OnTheWay
      <3>3. OnTheWay => OnTheWay'
        <4> SUFFICES ASSUME OnTheWay PROVE OnTheWay'
          OBVIOUS
        <4>1. PICK i \in 1 .. Len(wire) : \/ wire[i].type \in Told
                                          \/ wire[i].type = "status" /\ page.loaded
          BY DEF OnTheWay
        <4>2. i \in 1 .. Len(wire') /\ wire'[i] = wire[i]
          BY <3>1
        <4> QED
          BY <2>1, <4>1, <4>2 DEF OnTheWay
      <3>4. \A s \in Run : s # r => (Telling(s) => Telling(s)')
        BY <1>1, ThreadMoves DEF Telling
      <3> QED
        BY <2>1, <2>3, <3>2, <3>3, <3>4 DEF PageIsTold, News, Known, Truthful
    <2> QED
      BY <1>1, <2>2, <2>3 DEF BrowserTyped
  <1>5. Telling(r)' \/ (~Telling(r) /\ slot' = slot /\ UNCHANGED <<link, wire, asks, page>>) \/ Emit(r)
    <2>1. CASE TrackLine(r)
      BY <1>1, <2>1 DEF TrackLine, Telling, browser, net
    <2>2. CASE Start(r) \/ TrackStarted(r) \/ ReleaseSlot(r) \/ TrackFinished(r)
      <3>1. thread[r].pc # "working" \/ thread'[r].pc # "emitting"
        BY <1>1, <2>2, FreshThread, ThreadSet DEF Start, TrackStarted, ReleaseSlot, TrackFinished
      <3>2. ~(thread[r].pc = "emitting")
        BY <2>2 DEF Start, TrackStarted, ReleaseSlot, TrackFinished
      <3> QED
        BY <1>1, <3>1, <3>2, ThreadMoves, EventsDiffer DEF Telling, Told
    <2> QED
      BY <2>1, <2>2 DEF HostStep
  <1> QED
    BY <1>2, <1>3, <1>4, <1>5

LEMMA BrowserIsTold ==
  ASSUME Typed, PageIsTold, BrowserStep
  PROVE  PageIsTold'
  <1>1. HostTyped /\ BrowserTyped /\ Len(asks) \in Nat
    BY DEF Typed, BrowserTyped
  <1>2. slot' = slot /\ thread' = thread
    BY BrowserKeepsHost DEF host
  <1>3. \A r \in Run : Telling(r)' <=> Telling(r)
    BY <1>2 DEF Telling
  <1>4. ASSUME Ask PROVE PageIsTold'
    <2>1. Len(asks') > 0 /\ asks'[Len(asks')].pc = "asked"
      BY <1>1, <1>4, AskedAgain, NewSnapshot
    <2>2. asks' # <<>>
      BY <2>1
    <2> QED
      BY <2>1, <2>2 DEF PageIsTold, Known, Truthful
  <1>5. CASE Disconnect \/ Reload \/ \E i \in 1 .. Len(asks) : AskFails(i)
    BY <1>5 DEF Disconnect, Reload, AskFails, net, PageIsTold, News
  <1>6. CASE Connect
    <2>1. /\ wire' = <<Status>> /\ page' = page
          /\ Len(asks') = Len(asks)
          /\ \A i \in 1 .. Len(asks) : /\ asks'[i].pc = asks[i].pc
                                       /\ asks'[i].old = (asks[i].old \/ asks[i].pc # "asked")
      BY <1>1, <1>6, ConnectAges DEF Connect
    <2>2. CASE page.loaded
      <3>1. Len(wire') = 1 /\ wire'[1].type = "status"
        BY <2>1 DEF Status
      <3>2. 1 \in 1 .. Len(wire') /\ page'.loaded
        BY <2>1, <2>2, <3>1
      <3> QED
        BY <3>1, <3>2 DEF PageIsTold, News, OnTheWay
    <2>3. CASE ~page.loaded /\ asks' = <<>>
      BY <2>1, <2>3 DEF PageIsTold, Known
    <2>4. CASE asks' # <<>>
      <3>1. Len(asks') \in 1 .. Len(asks)
        <4>1. asks' \in Seq(Snapshot)
          BY <1>1, <1>6, ConnectAges
        <4> QED
          BY <1>1, <2>1, <2>4, <4>1, EmptySeq
      <3> QED
        BY <2>1, <2>4, <3>1 DEF PageIsTold, Known, Truthful
    <2> QED
      BY <2>2, <2>3, <2>4
  <1>7. CASE \E i \in 1 .. Len(asks) : ReadFeed(i) \/ ReadRunning(i)
    <2>1. PICK i \in 1 .. Len(asks) : ReadFeed(i) \/ ReadRunning(i)
      BY <1>7
    <2>2. UNCHANGED <<link, wire, page>> /\ Len(asks) > 0
      BY <1>1, <2>1 DEF ReadFeed, ReadRunning, net
    <2>3. /\ asks' \in Seq(Snapshot) /\ Len(asks') = Len(asks)
          /\ \A j \in 1 .. Len(asks) : j # i => asks'[j] = asks[j]
          /\ ReadFeed(i) => asks'[i].pc = "read"
          /\ ReadRunning(i) => asks'[i].running = (slot # None)
      BY <1>1, <2>1, AnsweredAt
    <2>4. asks # <<>> /\ asks' # <<>> /\ Len(asks) \in 1 .. Len(asks)
      BY <1>1, <2>2, <2>3
    <2>5. News => News'
      BY <1>3, <2>2 DEF News, OnTheWay
    <2>6. Truthful(asks[Len(asks)]) => Truthful(asks[Len(asks)])'
      <3>1. CASE i # Len(asks)
        BY <1>2, <2>3, <2>4, <3>1 DEF Truthful
      <3>2. CASE i = Len(asks) /\ ReadFeed(i)
        BY <2>3, <3>2 DEF Truthful
      <3>3. CASE i = Len(asks) /\ ReadRunning(i)
        BY <1>2, <2>3, <3>3 DEF Truthful
      <3> QED
        BY <2>1, <3>1, <3>2, <3>3
    <2> QED
      BY <2>4, <2>5, <2>6 DEF PageIsTold, Known
  <1>8. CASE \E i \in 1 .. Len(asks) : Apply(i)
    <2>1. PICK i \in 1 .. Len(asks) : Apply(i)
      BY <1>8
    <2>2. asks[i].pc = "answered" /\ UNCHANGED <<link, wire>>
      BY <2>1 DEF Apply, net
    <2>3. page'.loaded /\ page'.running = asks[i].running /\ page'.stale = asks[i].old
      BY <1>1, <2>1, ApplyTells
    <2>4. /\ asks' \in Seq(Snapshot) /\ Len(asks') = Len(asks) - 1
          /\ \A j \in 1 .. Len(asks) - 1 :
                LET k == IF j < i THEN j ELSE j + 1
                IN  /\ asks'[j].pc = asks[k].pc
                    /\ asks'[j].running = asks[k].running
                    /\ asks'[j].old = (asks[k].old \/ k < i)
      BY <1>1, <2>1, ApplyAges
    <2>5. News => News'
      BY <1>3, <2>2, <2>3 DEF News, OnTheWay
    <2>6. asks # <<>>
      BY <1>1, <2>1
    <2>7. ASSUME Truthful(asks[Len(asks)]) PROVE Known'
      <3>1. CASE Len(asks) = 1
        <4>1. asks' = <<>> /\ i = Len(asks)
          BY <1>1, <2>1, <2>4, <3>1, EmptySeq
        <4> QED
          BY <1>2, <2>2, <2>3, <2>7, <4>1 DEF Known, Truthful
      <3>2. CASE Len(asks) > 1
        <4> DEFINE j == Len(asks) - 1
        <4>1. j \in 1 .. Len(asks) - 1 /\ j = Len(asks') /\ asks' # <<>>
          BY <1>1, <2>4, <3>2
        <4>2. CASE i = Len(asks)
          <5>1. asks'[j].old
            <6>1. j < i /\ asks'[j].old = (asks[j].old \/ j < i)
              BY <1>1, <2>4, <4>1, <4>2
            <6> QED
              BY <6>1
          <5> QED
            BY <4>1, <5>1 DEF Known, Truthful
        <4>3. CASE i # Len(asks)
          <5>1. ~(j < i) /\ j + 1 = Len(asks) /\ ~(j + 1 < i)
            BY <1>1, <4>3, <3>2
          <5>2. /\ asks'[j].pc = asks[Len(asks)].pc
                /\ asks'[j].running = asks[Len(asks)].running
                /\ asks[Len(asks)].old => asks'[j].old
            BY <2>4, <4>1, <5>1
          <5> QED
            BY <1>2, <2>7, <4>1, <5>2 DEF Known, Truthful
        <4> QED
          BY <4>2, <4>3
      <3>3. Len(asks) = 1 \/ Len(asks) > 1
        <4>1. Len(asks) > 0
          BY <1>1, <2>1
        <4> QED
          BY <1>1, <4>1
      <3> QED
        BY <3>1, <3>2, <3>3
    <2> QED
      BY <2>5, <2>6, <2>7 DEF PageIsTold, Known
  <1>9. CASE Refresh \/ OnStarted \/ OnFinished \/ (OnStatus /\ page.loaded)
    BY <1>4, <1>9 DEF Refresh, OnStarted, OnFinished, OnStatus
  <1>10. CASE (OnStatus /\ ~page.loaded) \/ OnLine
    <2>1. /\ UNCHANGED <<link, asks>>
          /\ page'.loaded = page.loaded /\ page'.running = page.running /\ page'.stale = page.stale
      BY <1>1, <1>10, LineIsAdded DEF OnStatus, OnLine, net
    <2>2. /\ Len(wire) \in Nat /\ Len(wire') = Len(wire) - 1
          /\ \A i \in 1 .. Len(wire) - 1 : wire'[i] = wire[i + 1]
          /\ wire[1].type = "line" \/ (wire[1].type = "status" /\ ~page.loaded)
      BY <1>1, <1>10, ArrivedTyped DEF OnStatus, OnLine
    <2>3. OnTheWay => OnTheWay'
      <3> SUFFICES ASSUME OnTheWay PROVE OnTheWay'
        OBVIOUS
      <3>1. PICK i \in 1 .. Len(wire) : \/ wire[i].type \in Told
                                        \/ wire[i].type = "status" /\ page.loaded
        BY DEF OnTheWay
      <3>2. i # 1
        BY <2>2, <3>1 DEF Told
      <3>3. i - 1 \in 1 .. Len(wire') /\ wire'[i - 1] = wire[i]
        <4>1. i - 1 \in 1 .. Len(wire) - 1 /\ (i - 1) + 1 = i
          BY <2>2, <3>2
        <4> QED
          BY <2>2, <4>1
      <3> QED
        BY <2>1, <3>1, <3>3 DEF OnTheWay
    <2> QED
      BY <1>2, <1>3, <2>1, <2>3 DEF PageIsTold, News, Known, Truthful
  <1> QED
    BY <1>5, <1>6, <1>7, <1>8, <1>9, <1>10 DEF BrowserStep

-----------------------------------------------------------------------------
(* The newest lines of a run *)

\* A stretch of a run's lines has as many lines as numbers.
LEMMA StretchSize ==
  ASSUME NEW r, NEW a \in Nat, NEW b \in Nat
  PROVE  /\ IsFiniteSet({RunLine(r, j) : j \in a .. b})
         /\ Cardinality({RunLine(r, j) : j \in a .. b}) = IF a > b THEN 0 ELSE b - a + 1
  <1> DEFINE T == {RunLine(r, j) : j \in a .. b}
             f == [j \in a .. b |-> RunLine(r, j)]
  <1>1. \A j, k \in a .. b : RunLine(r, j) = RunLine(r, k) => j = k
    <2>1. \A j : RunLine(r, j).seq = j
      BY DEF RunLine
    <2> QED
      BY <2>1
  <1>2. f \in Surjection(a .. b, T) /\ f \in Injection(a .. b, T)
    BY <1>1 DEF Surjection, Injection, IsInjective
  <1>3. IsFiniteSet(a .. b) /\ Cardinality(a .. b) = IF a > b THEN 0 ELSE b - a + 1
    BY FS_Interval
  <1> HIDE DEF f, T
  <1>4. IsFiniteSet(T) /\ Cardinality(T) = Cardinality(a .. b)
    BY <1>2, <1>3, FS_Surjection
  <1> QED
    BY <1>3, <1>4 DEF T

\* Of lines up to the m-th of a run, Newest keeps those of the last Limit there are.
LEMMA NewestAreKept ==
  ASSUME NEW r, NEW m \in Nat, NEW lines \in SUBSET LineType,
         \A l \in lines : l.of = r /\ l.seq <= m,
         NEW k \in 1 .. m, k + Limit > m, RunLine(r, k) \in lines
  PROVE  RunLine(r, k) \in Newest(lines)
  <1> DEFINE above == {l \in lines : l.seq > RunLine(r, k).seq}
             T == {RunLine(r, j) : j \in k + 1 .. m}
  <1>1. above \subseteq T
    <2> SUFFICES ASSUME NEW l \in above PROVE l \in T
      OBVIOUS
    <2>1. l.seq \in Nat /\ l.of = r /\ l.seq <= m /\ l.seq > k /\ l = RunLine(r, l.seq)
      BY DEF LineType, RunLine
    <2> QED
      BY <2>1
  <1>2. IsFiniteSet(T) /\ Cardinality(T) = IF k + 1 > m THEN 0 ELSE m - (k + 1) + 1
    <2>1. k + 1 \in Nat
      OBVIOUS
    <2> HIDE DEF T
    <2> QED
      BY <2>1, StretchSize DEF T
  <1> HIDE DEF above, T
  <1>3. Cardinality(above) <= Cardinality(T) /\ Cardinality(above) \in Nat
    BY <1>1, <1>2, FS_Subset, FS_CardinalityType
  <1>4. Cardinality(above) < Limit
    BY <1>2, <1>3, LimitAssumption
  <1> QED
    BY <1>4 DEF Newest, above

\* A feed that holds the last lines there are of a run, and nothing of another,
\* is those lines: an older one would be one too many.
LEMMA FullFeed ==
  ASSUME NEW r \in Run, NEW m \in Nat, NEW lines \in Feed,
         \A l \in lines : l.of = r /\ l.seq <= m,
         \A k \in 1 .. m : k + Limit > m => RunLine(r, k) \in lines
  PROVE  lines = LastLines(r, m)
  <1>1. Limit \in Nat /\ Limit > 0
    BY LimitAssumption
  <1>2. \A l \in lines : l.seq \in Nat /\ l.seq > 0 /\ l = RunLine(r, l.seq)
    BY DEF Feed, LineType, RunLine
  <1>3. LastLines(r, m) \subseteq lines
    BY DEF LastLines
  <1>4. ASSUME NEW l \in lines, ~(l.seq + Limit > m) PROVE FALSE
    <2> DEFINE a == m - Limit + 1
               T == {RunLine(r, j) : j \in a .. m}
    <2>1. a \in Nat /\ l.seq \in Nat /\ l.seq > 0 /\ l.seq < a /\ a <= m /\ m - a + 1 = Limit
      BY <1>1, <1>2, <1>4
    <2>2. T \subseteq lines
      <3> SUFFICES ASSUME NEW j \in a .. m PROVE RunLine(r, j) \in lines
        OBVIOUS
      <3>1. j \in 1 .. m /\ j + Limit > m
        BY <1>1, <2>1
      <3> QED
        BY <3>1
    <2>3. l \notin T
      <3>1. \A j \in a .. m : RunLine(r, j).seq = j /\ j # l.seq
        BY <2>1 DEF RunLine
      <3> QED
        BY <3>1
    <2> HIDE DEF a
    <2>4. IsFiniteSet(T) /\ Cardinality(T) = Limit
      <3>1. IsFiniteSet(T) /\ Cardinality(T) = IF a > m THEN 0 ELSE m - a + 1
        <4> HIDE DEF T
        <4>1. a \in Nat /\ m \in Nat
          BY <2>1
        <4> QED
          BY <4>1, StretchSize DEF T
      <3> QED
        BY <1>1, <2>1, <3>1
    <2> HIDE DEF T
    <2>5. IsFiniteSet(lines) /\ Cardinality(lines) <= Limit /\ Cardinality(lines) \in Nat
      BY FS_CardinalityType DEF Feed
    <2>6. T \cup {l} \subseteq lines /\ Cardinality(T \cup {l}) = Limit + 1
      BY <2>2, <2>3, <2>4, FS_AddElement
    <2>7. Cardinality(T \cup {l}) <= Cardinality(lines)
      BY <2>5, <2>6, FS_Subset
    <2> QED
      BY <1>1, <2>5, <2>6, <2>7
  <1>5. ASSUME NEW l \in lines PROVE l \in LastLines(r, m)
    <2>1. l.seq \in 1 .. m /\ l.seq + Limit > m /\ l = RunLine(r, l.seq)
      BY <1>2, <1>4, <1>5
    <2> QED
      BY <2>1 DEF LastLines
  <1> QED
    BY <1>3, <1>5

\* One more line makes the last lines of one more.
LEMMA LastLinesGrow ==
  ASSUME NEW r \in Run, NEW n \in Nat
  PROVE  Newest(LastLines(r, n) \cup {RunLine(r, n + 1)}) = LastLines(r, n + 1)
  <1> DEFINE lines == LastLines(r, n) \cup {RunLine(r, n + 1)}
  <1>0. Limit \in Nat /\ Limit > 0
    BY LimitAssumption
  <1>1. lines \in SUBSET LineType /\ \A l \in lines : l.of = r /\ l.seq <= n + 1
    <2>1. ASSUME NEW l \in lines PROVE l \in LineType /\ l.of = r /\ l.seq <= n + 1
      <3>1. PICK k \in 1 .. n + 1 : l = RunLine(r, k)
        BY DEF LastLines
      <3> QED
        BY <3>1 DEF RunLine, LineType
    <2> QED
      BY <2>1
  <1>2. IsFiniteSet(lines) /\ Distinct(lines)
    <2>1. lines \subseteq {RunLine(r, j) : j \in 1 .. n + 1}
      BY DEF LastLines
    <2>2. 1 \in Nat /\ n + 1 \in Nat
      OBVIOUS
    <2>3. IsFiniteSet({RunLine(r, j) : j \in 1 .. n + 1})
      BY <2>2, StretchSize
    <2>4. Distinct(lines)
      BY <1>1 DEF Distinct, LineType
    <2> QED
      BY <2>1, <2>3, <2>4, FS_Subset
  <1>3. ASSUME NEW k \in 1 .. n + 1, k + Limit > n + 1
        PROVE  RunLine(r, k) \in Newest(lines)
    <2>1. RunLine(r, k) \in lines
      <3>1. CASE k = n + 1
        BY <3>1
      <3>2. CASE k \in 1 .. n
        BY <1>0, <1>3, <3>2 DEF LastLines
      <3> QED
        BY <3>1, <3>2
    <2> HIDE DEF lines
    <2> QED
      BY <1>1, <1>3, <2>1, NewestAreKept
  <1> HIDE DEF lines
  <1>4. Newest(lines) \in Feed /\ Newest(lines) \subseteq lines
    BY <1>1, <1>2, NewestIsFeed
  <1>5. Newest(lines) = LastLines(r, n + 1)
    BY <1>1, <1>3, <1>4, FullFeed
  <1> QED
    BY <1>5 DEF lines

\* Less than a feed is kept as it is.
LEMMA NewestOfFeed ==
  ASSUME NEW lines \in Feed
  PROVE  Newest(lines) = lines
  <1> SUFFICES ASSUME NEW l \in lines PROVE l \in Newest(lines)
    BY DEF Newest
  <1> DEFINE above == {k \in lines : k.seq > l.seq}
  <1>1. IsFiniteSet(lines) /\ Cardinality(lines) <= Limit /\ Cardinality(lines) \in Nat
    BY FS_CardinalityType DEF Feed
  <1>2. above \subseteq lines \ {l}
    BY DEF Feed, LineType
  <1> HIDE DEF above
  <1>3. IsFiniteSet(lines \ {l}) /\ Cardinality(lines \ {l}) = Cardinality(lines) - 1
    BY <1>1, FS_RemoveElement
  <1>4. Cardinality(above) <= Cardinality(lines \ {l}) /\ Cardinality(above) \in Nat
    BY <1>2, <1>3, FS_Subset, FS_CardinalityType
  <1>5. Cardinality(above) < Limit
    BY <1>1, <1>3, <1>4, LimitAssumption
  <1> QED
    BY <1>5 DEF Newest, above

-----------------------------------------------------------------------------
(* The record of the run in flight *)

\* What each step of a run's thread does, by its name.
LEMMA HostMoves ==
  ASSUME HostTyped, NEW r \in Run
  PROVE  /\ Start(r) => /\ slot = None /\ slot' = r /\ record' = record
                        /\ thread[r].pc = "unborn" /\ thread'[r].pc = "claimed"
                        /\ \A s \in Run : s < r => thread[s].pc # "unborn"
         /\ TrackStarted(r) => /\ slot' = slot /\ thread[r].pc = "claimed"
                               /\ record'.id = r /\ record'.seq = 0 /\ record'.lines = {}
                               /\ thread'[r].pc = "emitting" /\ thread'[r].out[1] = Started(r)
         /\ TrackLine(r) => /\ slot' = slot /\ thread[r].pc = "working"
                            /\ record'.id = record.id /\ record'.seq = record.seq + 1
                            /\ record'.lines
                                  = Newest(record.lines \cup {RunLine(r, record.seq + 1)})
                            /\ thread'[r].pc = "emitting"
                            /\ thread'[r].out[1] = Line(record.id, RunLine(r, record.seq + 1))
         /\ ReleaseSlot(r) => slot' = None /\ record' = record /\ thread[r].pc = "working"
                              /\ thread'[r].pc = "released"
         /\ TrackFinished(r) => /\ slot' = slot /\ record'.id = None /\ record'.lines = {}
                                /\ thread[r].pc = "released" /\ thread'[r].pc = "emitting"
                                /\ thread'[r].out[1] = Finished
         /\ Emit(r) => /\ slot' = slot /\ record' = record /\ thread[r].pc = "emitting"
                       /\ thread'[r].pc = IF thread[r].out = <<Finished>> THEN "over" ELSE "working"
         /\ HostStep(r) => \A s \in Run : s # r => thread'[s] = thread[s]
         /\ HostStep(r) /\ ~Emit(r) => UNCHANGED <<link, wire, asks, page>>
         /\ Emit(r) => UNCHANGED <<link, asks, page>>
  <1>1. ASSUME Start(r)
        PROVE  /\ slot = None /\ slot' = r /\ record' = record
               /\ thread[r].pc = "unborn" /\ thread'[r].pc = "claimed"
               /\ \A s \in Run : s < r => thread[s].pc # "unborn"
    BY <1>1, FreshThread, ThreadSet DEF Start
  <1>2. ASSUME TrackStarted(r)
        PROVE  /\ slot' = slot /\ thread[r].pc = "claimed"
               /\ record'.id = r /\ record'.seq = 0 /\ record'.lines = {}
               /\ thread'[r].pc = "emitting" /\ thread'[r].out[1] = Started(r)
    <2>1. Emitting(r, Started(r)) /\ slot' = slot /\ thread[r].pc = "claimed"
      BY <1>2 DEF TrackStarted
    <2>2. thread'[r].pc = "emitting" /\ thread'[r].out = <<Started(r)>>
      BY <2>1, EmittingSet, FinishedIsAnEvent
    <2>3. record'.id = r /\ record'.seq = 0 /\ record'.lines = {}
      BY <1>2 DEF TrackStarted, NoRecord
    <2> QED
      BY <2>1, <2>2, <2>3
  <1>3. ASSUME TrackLine(r)
        PROVE  /\ slot' = slot /\ thread[r].pc = "working"
               /\ record'.id = record.id /\ record'.seq = record.seq + 1
               /\ record'.lines = Newest(record.lines \cup {RunLine(r, record.seq + 1)})
               /\ thread'[r].pc = "emitting"
               /\ thread'[r].out[1] = Line(record.id, RunLine(r, record.seq + 1))
    <2> DEFINE line == RunLine(r, record.seq + 1)
               kept == Newest(record.lines \cup {line})
               t == [pc |-> "emitting", n |-> thread[r].n + 1, out |-> <<Line(record.id, line)>>]
    <2>1. /\ slot' = slot /\ thread[r].pc = "working" /\ SetThread(r, t)
          /\ record' = [record EXCEPT !.seq = record.seq + 1, !.lines = kept]
      BY <1>3 DEF TrackLine, RunLine
    <2>2. t.pc = "emitting" /\ t.out[1] = Line(record.id, line)
      OBVIOUS
    <2>3. thread'[r] = t
      BY <2>1 DEF SetThread, HostTyped
    <2> HIDE DEF t, kept, line
    <2>4. record'.id = record.id /\ record'.seq = record.seq + 1 /\ record'.lines = kept
      BY <2>1 DEF HostTyped
    <2> QED
      BY <2>1, <2>2, <2>3, <2>4 DEF kept, line
  <1>4. ASSUME ReleaseSlot(r)
        PROVE  slot' = None /\ record' = record /\ thread[r].pc = "working" /\ thread'[r].pc = "released"
    BY <1>4, FreshThread, ThreadSet DEF ReleaseSlot
  <1>5. ASSUME TrackFinished(r)
        PROVE  /\ slot' = slot /\ record'.id = None /\ record'.lines = {}
               /\ thread[r].pc = "released" /\ thread'[r].pc = "emitting"
               /\ thread'[r].out[1] = Finished
    <2>1. Emitting(r, Finished) /\ slot' = slot /\ thread[r].pc = "released"
      BY <1>5 DEF TrackFinished
    <2>2. thread'[r].pc = "emitting" /\ thread'[r].out = <<Finished>>
      BY <2>1, EmittingSet, FinishedIsAnEvent
    <2>3. record'.id = None /\ record'.lines = {}
      BY <1>5 DEF TrackFinished, NoRecord
    <2> QED
      BY <2>1, <2>2, <2>3
  <1>6. ASSUME Emit(r)
        PROVE  /\ slot' = slot /\ record' = record /\ thread[r].pc = "emitting"
               /\ thread'[r].pc = IF thread[r].out = <<Finished>> THEN "over" ELSE "working"
    <2>1. thread[r].n \in Nat /\ slot' = slot /\ record' = record /\ thread[r].pc = "emitting"
      BY <1>6 DEF Emit, HostTyped, ThreadState
    <2>2. CASE thread[r].out = <<Finished>>
      BY <1>6, <2>1, <2>2, FreshThread, ThreadSet DEF Emit
    <2>3. CASE thread[r].out # <<Finished>>
      BY <1>6, <2>1, <2>3, FreshThread, ThreadSet DEF Emit
    <2> QED
      BY <2>2, <2>3
  <1>7. ASSUME HostStep(r) PROVE \A s \in Run : s # r => thread'[s] = thread[s]
    BY <1>7, ThreadMoves
  <1>8. ASSUME HostStep(r), ~Emit(r) PROVE UNCHANGED <<link, wire, asks, page>>
    BY <1>8 DEF HostStep, Start, TrackStarted, TrackLine, ReleaseSlot, TrackFinished, browser, net
  <1>9. ASSUME Emit(r) PROVE UNCHANGED <<link, asks, page>>
    BY <1>9 DEF Emit, net
  <1> QED
    BY <1>1, <1>2, <1>3, <1>4, <1>5, <1>6, <1>7, <1>8, <1>9

\* A thread that announces or works is the slot's; the slot's thread is one.
LEMMA SlotsThread ==
  ASSUME HostTyped, SlotIsOwned, NEW r \in Run
  PROVE  /\ thread[r].pc \in {"claimed", "working"} => slot = r
         /\ thread[r].pc = "emitting" /\ thread[r].out # <<Finished>> => slot = r
         /\ thread[r].pc \in {"unborn", "released", "over"} => slot # r
         /\ slot \in Runs /\ None \notin Run
  BY NoneIsNoRun DEF HostTyped, SlotIsOwned, AtWork, Announces

\* A run that has begun stays so; a record that is open was so before, or is that
\* of a run that had not begun.
LEMMA OpenStays ==
  ASSUME HostTyped, SlotIsOwned, HostIsOrdered, NEW r \in Run, HostStep(r)
  PROVE  /\ \A s \in Run : thread[s].pc \notin {"unborn", "claimed"}
                              => thread'[s].pc \notin {"unborn", "claimed"}
         /\ Open' => /\ slot \in Run /\ slot' = slot
                     /\ \/ Open /\ record.seq <= record'.seq /\ ~TrackStarted(r)
                        \/ slot = r /\ TrackStarted(r) /\ thread[r].pc = "claimed"
  <1>0. record.seq \in Nat
    BY DEF HostTyped
  <1>1. \A s \in Run : s # r => thread'[s] = thread[s]
    BY HostMoves
  <1>2. CASE Start(r)
    <2>1. record.id # r
      BY <1>2, HostMoves, NoneIsNoRun DEF HostIsOrdered, Begun
    <2> QED
      BY <1>1, <1>2, <2>1, HostMoves DEF Open
  <1>3. CASE TrackStarted(r)
    BY <1>1, <1>3, HostMoves, SlotsThread DEF Open
  <1>4. CASE TrackLine(r)
    <2>1. /\ slot' = slot /\ thread[r].pc = "working" /\ thread'[r].pc = "emitting"
          /\ record'.id = record.id /\ record'.seq = record.seq + 1
      BY <1>4, HostMoves
    <2>2. ~TrackStarted(r) /\ record.seq <= record'.seq
      BY <1>0, <2>1 DEF TrackStarted
    <2>3. slot = r
      BY <2>1, SlotsThread
    <2> QED
      BY <1>1, <2>1, <2>2, <2>3 DEF Open
  <1>5. CASE ReleaseSlot(r)
    BY <1>1, <1>5, HostMoves DEF Open
  <1>6. CASE TrackFinished(r)
    BY <1>1, <1>6, HostMoves DEF Open
  <1>7. CASE Emit(r)
    <2>1. slot \in Runs /\ record.seq <= record.seq /\ ~TrackStarted(r)
      BY <1>0, <1>7, SlotsThread DEF TrackStarted, Emit
    <2> QED
      BY <1>1, <1>7, <2>1, HostMoves DEF Open, Runs
  <1> QED
    BY <1>2, <1>3, <1>4, <1>5, <1>6, <1>7 DEF HostStep

LEMMA StaysOrdered ==
  ASSUME HostTyped, SlotIsOwned, LinesAreOwned, HostIsOrdered, NEW r \in Run, HostStep(r)
  PROVE  HostIsOrdered'
  <1>0. \A s \in Run : s # r => thread'[s] = thread[s]
    BY HostMoves
  <1>1. \A s, t \in Run : s < t /\ thread'[s].pc = "unborn" => thread'[t].pc = "unborn"
    <2>1. \A s \in Run : thread'[s].pc = "unborn" => thread[s].pc = "unborn"
      BY <1>0, HostMoves DEF HostStep
    <2>2. CASE Start(r)
      <3>1. \A s \in Run : s < r => thread[s].pc # "unborn"
        BY <2>2, HostMoves
      <3> QED
        BY <1>0, <2>1, <3>1 DEF HostIsOrdered
    <2>3. CASE ~Start(r)
      <3>1. thread[r].pc # "unborn"
        BY <2>3, HostMoves DEF HostStep
      <3> QED
        BY <1>0, <2>1, <3>1 DEF HostIsOrdered
    <2> QED
      BY <2>2, <2>3
  <1>2. slot' # None => \A t \in Run : slot' < t => thread'[t].pc = "unborn"
    <2>1. CASE Start(r)
      <3> SUFFICES ASSUME NEW t \in Run, r < t PROVE thread'[t].pc = "unborn"
        BY <2>1, HostMoves
      <3>0. thread[r].pc = "unborn" /\ t # r
        <4>1. thread[r].pc = "unborn"
          BY <2>1, HostMoves
        <4> QED
          BY <4>1 DEF Run
      <3>1. thread[t].pc = "unborn"
        BY <3>0 DEF HostIsOrdered
      <3> QED
        BY <1>0, <3>0, <3>1
    <2>2. CASE ~Start(r)
      <3>1. slot' \in {slot, None} /\ thread[r].pc # "unborn"
        BY <2>2, HostMoves DEF HostStep
      <3> QED
        BY <1>0, <3>1 DEF HostIsOrdered
    <2> QED
      BY <2>1, <2>2
  <1>3. record'.id # None => record'.id \in Run /\ thread'[record'.id].pc \notin {"unborn", "claimed"}
    <2>1. record.id \in Run \/ record.id = None
      BY DEF HostTyped, Runs
    <2>2. record'.id \in {record.id, None} \/ (record'.id = r /\ thread'[r].pc = "emitting")
      BY HostMoves DEF HostStep
    <2> QED
      BY <2>1, <2>2, OpenStays DEF HostIsOrdered, Begun
  <1>4. ASSUME NEW s \in Run, thread'[s].pc = "working" \/ Announces(s)'
        PROVE  record'.id \in {None, s}
    <2>0. thread'[s].pc = "working" \/ (thread'[s].pc = "emitting" /\ thread'[s].out # <<Finished>>)
      BY <1>4 DEF Announces
    <2>1. CASE s = r
      <3>1. \/ record'.id \in {None, r}
            \/ record' = record /\ (thread[r].pc = "working" \/ Announces(r))
            \/ TrackLine(r)
        BY <2>0, <2>1, HostMoves DEF HostStep, Announces
      <3> QED
        BY <2>1, <3>1, HostMoves DEF HostIsOrdered
    <2>2. CASE s # r
      <3>1. thread[s].pc = "working" \/ Announces(s)
        BY <1>0, <2>0, <2>2 DEF Announces
      <3>2. slot = s
        BY <3>1, SlotsThread DEF Announces
      <3>3. ~TrackStarted(r) /\ ~TrackLine(r)
        BY <2>2, <3>2, HostMoves, SlotsThread
      <3>4. record'.id \in {None, record.id}
        BY <3>3, HostMoves DEF HostStep
      <3> QED
        BY <3>1, <3>4 DEF HostIsOrdered
    <2> QED
      BY <2>1, <2>2
  <1>5. Open' => record'.lines = LastLines(slot', record'.seq)
    <2> SUFFICES ASSUME Open' PROVE record'.lines = LastLines(slot', record'.seq)
      OBVIOUS
    <2>1. slot \in Run /\ slot' = slot /\ record.seq \in Nat
      BY OpenStays DEF HostTyped
    <2>2. CASE TrackStarted(r)
      <3>1. record'.seq = 0 /\ record'.lines = {}
        BY <2>2, HostMoves
      <3>2. \A s : LastLines(s, 0) = {}
        BY DEF LastLines
      <3> QED
        BY <3>1, <3>2
    <2>3. CASE TrackLine(r)
      <3>1. Open /\ slot = r
        BY <2>3, OpenStays, HostMoves, SlotsThread DEF TrackStarted
      <3>2. record.lines = LastLines(r, record.seq)
        BY <3>1 DEF HostIsOrdered
      <3>3. record'.lines = Newest(record.lines \cup {RunLine(r, record.seq + 1)})
            /\ record'.seq = record.seq + 1
        BY <2>3, HostMoves
      <3> QED
        BY <2>1, <3>1, <3>2, <3>3, LastLinesGrow
    <2>4. CASE ~TrackStarted(r) /\ ~TrackLine(r)
      <3>1. Open
        BY <2>4, OpenStays
      <3>2. record' = record
        <4>1. ~TrackFinished(r)
          BY HostMoves, <2>1, NoneIsNoRun DEF Open
        <4> QED
          BY <2>4, <4>1, HostMoves DEF HostStep
      <3> QED
        BY <2>1, <3>1, <3>2 DEF HostIsOrdered
    <2> QED
      BY <2>2, <2>3, <2>4
  <1>6. /\ record'.id # None => Begun(record.id)'
        /\ \A s \in Run : thread'[s].pc = "working" \/ Announces(s)' => record'.id \in {None, s}
    BY <1>3, <1>4 DEF Begun
  <1> QED
    BY <1>1, <1>2, <1>5, <1>6 DEF HostIsOrdered

-----------------------------------------------------------------------------
(* Lines and their names *)

\* What is known of a line, an event, an answer and a page stays so over a host's step.
LEMMA LinesStayKnown ==
  ASSUME HostTyped, SlotIsOwned, HostIsOrdered, NEW r \in Run, HostStep(r)
  PROVE  /\ \A l \in LineType :
               Begun(l.of) /\ (Open /\ l.of = slot => l.seq <= record.seq)
                  => thread'[l.of].pc \notin {"unborn", "claimed"}
                     /\ (Open' /\ l.of = slot' => l.seq <= record'.seq)
         /\ \A ask \in Snapshot : KnownAnswer(ask) => KnownAnswer(ask)'
         /\ \A e \in Frame : KnownEvent(e) => KnownEvent(e)'
  <1>0. record.seq \in Nat /\ record'.seq \in Nat
    BY HostStaysTyped DEF HostTyped, HostStep
  <1>1. \A s \in Run : thread[s].pc \notin {"unborn", "claimed"}
                          => thread'[s].pc \notin {"unborn", "claimed"}
    BY OpenStays
  <1>2. Open' => slot \in Run /\ slot' = slot
                 /\ ((Open /\ record.seq <= record'.seq) \/ thread[slot].pc = "claimed")
    BY OpenStays
  <1>3. ASSUME NEW l \in LineType,
               Begun(l.of), Open /\ l.of = slot => l.seq <= record.seq
        PROVE  thread'[l.of].pc \notin {"unborn", "claimed"}
               /\ (Open' /\ l.of = slot' => l.seq <= record'.seq)
    <2>1. l.of \in Run /\ l.seq \in Nat
      BY DEF LineType
    <2> QED
      BY <1>0, <1>1, <1>2, <1>3, <2>1 DEF Begun
  <1>4. ASSUME NEW ask \in Snapshot, KnownAnswer(ask) PROVE KnownAnswer(ask)'
    <2>1. ask.id \in Runs /\ ask.lines \subseteq LineType
      BY DEF Snapshot, Feed
    <2>2. Reported(ask.lines)'
      BY <1>3, <1>4, <2>1 DEF KnownAnswer, Reported, Begun
    <2>3. Named(ask.id, ask.lines)'
      BY <1>1, <1>4, <2>1 DEF KnownAnswer, Named, Begun, Runs
    <2>4. ASSUME Open', ask.id = slot'
          PROVE  \E n \in 0 .. record'.seq : ask.lines = LastLines(slot', n)
      <3>1. Begun(slot) /\ slot' = slot
        BY <1>2, <1>4, <2>4, NoneIsNoRun DEF KnownAnswer, Named
      <3>2. Open /\ record.seq <= record'.seq
        BY <1>2, <2>4, <3>1 DEF Begun
      <3>3. PICK n \in 0 .. record.seq : ask.lines = LastLines(slot, n)
        BY <1>4, <2>4, <3>1, <3>2 DEF KnownAnswer
      <3>4. n \in 0 .. record'.seq
        BY <1>0, <3>2
      <3> QED
        BY <3>1, <3>3, <3>4
    <2> QED
      BY <2>2, <2>3, <2>4 DEF KnownAnswer
  <1>5. ASSUME NEW e \in Frame, KnownEvent(e) PROVE KnownEvent(e)'
    <2>1. CASE e.type = "line"
      <3>1. e.line \in LineType /\ e.id \in Runs
        BY <2>1 DEF Frame, Event
      <3>2. Reported({e.line})'
        BY <1>3, <1>5, <2>1, <3>1 DEF KnownEvent, Reported, Begun
      <3>3. Named(e.id, {e.line})'
        BY <1>1, <1>5, <2>1, <3>1 DEF KnownEvent, Named, Begun, Runs
      <3> QED
        BY <2>1, <3>2, <3>3 DEF KnownEvent
    <2>2. CASE e.type = "started"
      <3>1. e.id \in Run
        BY <2>2 DEF Frame, Event
      <3> QED
        BY <1>1, <1>5, <2>2, <3>1 DEF KnownEvent, Begun
    <2>3. CASE e.type \notin {"line", "started"}
      BY <2>3 DEF KnownEvent
    <2> QED
      BY <2>1, <2>2, <2>3
  <1> QED
    BY <1>3, <1>4, <1>5

LEMMA HostNames ==
  ASSUME Typed, SlotIsOwned, LinesAreOwned, HostIsOrdered, LinesAreNamed,
         NEW r \in Run, HostStep(r)
  PROVE  LinesAreNamed'
  <1>0. HostTyped /\ BrowserTyped
    BY DEF Typed
  <1>a. \A l \in LineType :
           Begun(l.of) /\ (Open /\ l.of = slot => l.seq <= record.seq)
              => thread'[l.of].pc \notin {"unborn", "claimed"}
                 /\ (Open' /\ l.of = slot' => l.seq <= record'.seq)
    BY <1>0, LinesStayKnown
  <1>b. \A s \in Run : thread[s].pc \notin {"unborn", "claimed"}
                          => thread'[s].pc \notin {"unborn", "claimed"}
    BY <1>0, OpenStays
  <1>c. record.lines \subseteq LineType /\ record.id \in Runs /\ record.seq \in Nat
    BY <1>0 DEF HostTyped, Feed
  <1>1. Reported(record.lines)' /\ Named(record.id, record.lines)'
    <2>1. CASE record' = record
      <3>1. Reported(record.lines) /\ Named(record.id, record.lines)
        BY DEF LinesAreNamed
      <3>2. Reported(record.lines)'
        BY <1>a, <1>c, <2>1, <3>1 DEF Reported, Begun
      <3>3. Named(record.id, record.lines)'
        BY <1>b, <1>c, <2>1, <3>1 DEF Named, Begun, Runs
      <3> QED
        BY <3>2, <3>3
    <2>2. CASE TrackStarted(r) \/ TrackFinished(r)
      BY <1>0, <2>2, HostMoves, NoneIsNoRun DEF Reported, Named, Begun
    <2>3. CASE TrackLine(r)
      <3> DEFINE line == RunLine(r, record.seq + 1)
      <3>1. /\ record'.id = record.id /\ record'.seq = record.seq + 1
            /\ record'.lines \subseteq record.lines \cup {line}
            /\ thread[r].pc = "working" /\ thread'[r].pc = "emitting"
        BY <1>0, <2>3, HostMoves DEF Newest
      <3>2. line.of = r /\ line.seq = record.seq + 1 /\ line.seq <= record'.seq
        BY <1>c, <3>1 DEF RunLine
      <3>3. record.id \in {None, r}
        BY <3>1 DEF HostIsOrdered
      <3> HIDE DEF line
      <3>4. Reported(record.lines)'
        <4> SUFFICES ASSUME NEW l \in record'.lines
                     PROVE  /\ thread'[l.of].pc \notin {"unborn", "claimed"}
                            /\ Open' /\ l.of = slot' => l.seq <= record'.seq
          BY DEF Reported, Begun
        <4>1. CASE l \in record.lines
          BY <1>a, <1>c, <4>1 DEF LinesAreNamed, Reported
        <4>2. CASE l = line
          BY <3>1, <3>2, <4>2
        <4> QED
          BY <3>1, <4>1, <4>2
      <3>5. Named(record.id, record.lines)'
        BY <3>1, <3>2, <3>3 DEF LinesAreNamed, Named, Begun
      <3> QED
        BY <3>4, <3>5
    <2>4. record' = record \/ TrackStarted(r) \/ TrackFinished(r) \/ TrackLine(r)
      BY <1>0, HostMoves DEF HostStep
    <2> QED
      BY <2>1, <2>2, <2>3, <2>4
  <1>2. ASSUME NEW s \in Run, thread'[s].pc = "emitting"
        PROVE  /\ KnownEvent(thread[s].out[1])'
               /\ thread'[s].out[1].type = "line" => thread'[s].out[1].line.of = s
    <2>1. CASE s # r
      <3>1. thread'[s] = thread[s]
        BY <1>0, <2>1, HostMoves
      <3>2. /\ KnownEvent(thread[s].out[1])
            /\ thread[s].out[1].type = "line" => thread[s].out[1].line.of = s
        BY <1>2, <3>1 DEF LinesAreNamed
      <3>3. thread[s].out[1] \in Frame
        BY <1>0, <1>2, <3>1, OneOut DEF Frame
      <3>4. PICK e \in Frame : e = thread[s].out[1] /\ e = thread'[s].out[1]
        BY <3>1, <3>3
      <3>5. KnownEvent(e)
        BY <3>2, <3>4
      <3>6. KnownEvent(e)'
        BY <1>0, <3>5, LinesStayKnown
      <3> QED
        BY <3>1, <3>2, <3>4, <3>6 DEF KnownEvent, Reported, Named
    <2>2. CASE s = r /\ TrackStarted(r)
      <3>1. thread'[r].out[1].type = "started" /\ thread'[r].out[1].id = r
        <4>1. thread'[r].out[1] = Started(r)
          BY <1>0, <2>2, HostMoves
        <4> QED
          BY <4>1 DEF Started
      <3> QED
        BY <1>2, <2>2, <3>1 DEF KnownEvent, Begun
    <2>3. CASE s = r /\ TrackFinished(r)
      <3>1. thread'[r].out[1].type = "finished"
        <4>1. thread'[r].out[1] = Finished
          BY <1>0, <2>3, HostMoves
        <4> QED
          BY <4>1 DEF Finished
      <3> QED
        BY <2>3, <3>1 DEF KnownEvent
    <2>4. CASE s = r /\ TrackLine(r)
      <3>1. /\ record'.seq = record.seq + 1 /\ thread[r].pc = "working"
            /\ thread'[r].out[1] = Line(record.id, RunLine(r, record.seq + 1))
        BY <1>0, <2>4, HostMoves
      <3>2. /\ thread'[r].out[1].type = "line" /\ thread'[r].out[1].id = record.id
            /\ thread'[r].out[1].line.of = r /\ thread'[r].out[1].line.seq <= record'.seq
        BY <1>c, <3>1 DEF Line, RunLine
      <3>3. record.id \in {None, r}
        BY <3>1 DEF HostIsOrdered
      <3> QED
        BY <1>2, <2>4, <3>2, <3>3 DEF KnownEvent, Reported, Named, Begun
    <2>5. s = r => TrackStarted(r) \/ TrackFinished(r) \/ TrackLine(r)
      BY <1>0, <1>2, HostMoves DEF HostStep
    <2> QED
      BY <2>1, <2>2, <2>3, <2>4, <2>5
  <1>3. ASSUME NEW i \in 1 .. Len(wire') PROVE KnownEvent(wire[i])'
    <2>1. wire'[i] \in Frame
          /\ \/ i \in 1 .. Len(wire) /\ wire'[i] = wire[i]
             \/ thread[r].pc = "emitting" /\ wire'[i] = thread[r].out[1]
      <3>0. wire \in Seq(Frame) /\ Len(wire) \in Nat
        BY <1>0 DEF BrowserTyped
      <3>1. CASE ~Emit(r)
        <4>1. wire' = wire
          BY <1>0, <3>1, HostMoves
        <4> QED
          BY <3>0, <4>1
      <3>2. CASE Emit(r) /\ link = "off"
        BY <1>0, <3>0, <3>2, Delivered
      <3>3. CASE Emit(r) /\ link = "on"
        <4>1. /\ wire' \in Seq(Frame) /\ Len(wire') = Len(wire) + 1
              /\ wire'[Len(wire) + 1] = thread[r].out[1]
              /\ \A j \in 1 .. Len(wire) : wire'[j] = wire[j]
          BY <1>0, <3>3, Delivered
        <4>2. i \in 1 .. Len(wire) \/ i = Len(wire) + 1
          BY <3>0, <4>1
        <4>3. thread[r].pc = "emitting" /\ wire'[i] \in Frame
          BY <3>3, <4>1 DEF Emit
        <4> QED
          BY <4>1, <4>2, <4>3
      <3> QED
        BY <1>0, <3>1, <3>2, <3>3 DEF BrowserTyped
    <2>2. PICK e \in Frame : /\ e = wire'[i]
                             /\ \/ i \in 1 .. Len(wire) /\ e = wire[i]
                                \/ thread[r].pc = "emitting" /\ e = thread[r].out[1]
      BY <2>1
    <2>3. KnownEvent(e)
      BY <2>2 DEF LinesAreNamed
    <2>4. KnownEvent(e)'
      BY <1>0, <2>3, LinesStayKnown
    <2> QED
      BY <2>2, <2>4 DEF KnownEvent, Reported, Named
  <1>4. asks' = asks /\ page' = page
    BY <1>0, HostMoves
  <1>5. ASSUME NEW i \in 1 .. Len(asks') PROVE KnownAnswer(asks[i])'
    <2>1. PICK ask \in Snapshot : ask = asks[i] /\ ask = asks'[i]
      BY <1>0, <1>4 DEF BrowserTyped
    <2>2. KnownAnswer(ask)
      BY <1>4, <2>1 DEF LinesAreNamed
    <2>3. KnownAnswer(ask)'
      BY <1>0, <2>2, LinesStayKnown
    <2> QED
      BY <2>1, <2>3 DEF KnownAnswer, Reported, Named
  <1>6. KnownPage'
    <2>1. page.lines \subseteq LineType /\ page.id \in Runs /\ KnownPage
      BY <1>0 DEF BrowserTyped, PageState, Feed, LinesAreNamed
    <2>2. Reported(page.lines)'
      BY <1>a, <1>4, <2>1 DEF KnownPage, Reported, Begun
    <2>3. page'.id # None => Begun(page.id)'
      BY <1>b, <1>4, <2>1 DEF KnownPage, Begun, Runs
    <2> QED
      BY <1>4, <2>1, <2>2, <2>3 DEF KnownPage
  <1> QED
    BY <1>1, <1>2, <1>3, <1>5, <1>6 DEF LinesAreNamed

\* Something of run id, with lines that are known, comes to the page.
LEMMA PageKnows ==
  ASSUME BrowserTyped, KnownPage, UNCHANGED host,
         NEW id \in Runs, NEW more \in SUBSET LineType, Reported(more), Named(id, more),
         page'.id = Base(page, id).id,
         page'.lines \subseteq Base(page, id).lines \cup more,
         ~page'.mixed => /\ ~Base(page, id).mixed
                         /\ id = None => page'.lines \subseteq page.lines
  PROVE  KnownPage'
  <1> DEFINE q == Base(page, id)
  <1>1. page \in PageState /\ slot' = slot /\ thread' = thread /\ record' = record
    BY DEF BrowserTyped, host
  <1>2. /\ q.id = IF id # None THEN id ELSE page.id
        /\ id \in {None, page.id} => q = page
        /\ id \notin {None, page.id} => q.lines = {} /\ ~q.mixed
    BY <1>1, BaseTyped
  <1> HIDE DEF q
  <1>3. page'.id = q.id /\ page'.lines \subseteq q.lines \cup more
        /\ (~page'.mixed => ~q.mixed /\ (id = None => page'.lines \subseteq page.lines))
    BY DEF q
  <1>4. q.lines \subseteq page.lines
    BY <1>2
  <1>5. Reported(page.lines)'
    BY <1>1, <1>3, <1>4 DEF KnownPage, Reported, Begun, Open
  <1>6. page'.id # None => Begun(page.id)'
    BY <1>1, <1>2, <1>3 DEF KnownPage, Named, Begun
  <1>7. ASSUME ~page'.mixed, NEW l \in page'.lines PROVE l.of = page'.id
    <2>1. CASE id = None
      BY <1>2, <1>3, <1>7, <2>1 DEF KnownPage
    <2>2. CASE id # None /\ l \in more
      BY <1>2, <1>3, <2>2 DEF Named
    <2>3. CASE id # None /\ l \in q.lines
      <3>1. q = page /\ ~page.mixed
        BY <1>2, <1>3, <1>7, <2>3
      <3> QED
        BY <1>2, <1>3, <2>3, <3>1 DEF KnownPage
    <2> QED
      BY <1>3, <1>7, <2>1, <2>2, <2>3
  <1> QED
    BY <1>5, <1>6, <1>7 DEF KnownPage

\* An answer changes the page's feed, or leaves the page's id, lines and mixture.
LEMMA AppliedPage ==
  ASSUME BrowserTyped, NEW i \in 1 .. Len(asks), Apply(i)
  PROVE  LET q   == Base(page, asks[i].id)
             new == Unseen(q.lines, asks[i].lines)
         IN  \/ /\ ~asks[i].running
                /\ page'.id = page.id /\ page'.lines = page.lines /\ page'.mixed = page.mixed
             \/ /\ asks[i].running
                /\ page'.id = q.id /\ page'.lines = Newest(q.lines \cup new)
                /\ q.mixed \/ (asks[i].id = None /\ new # {}) <=> page'.mixed
  <1>1. page \in PageState /\ asks[i] \in Snapshot
    BY DEF BrowserTyped
  <1>2. page'.id = Applied(i).id /\ page'.lines = Applied(i).lines /\ page'.mixed = Applied(i).mixed
    BY ApplyTells
  <1>3. CASE ~asks[i].running
    BY <1>2, <1>3 DEF Applied
  <1>4. CASE asks[i].running
    <2>1. Applied(i) = SyncActivity(page, asks[i])
      BY <1>4 DEF Applied
    <2> DEFINE q == Base(page, asks[i].id)
               new == Unseen(q.lines, asks[i].lines)
               mixed == q.mixed \/ (asks[i].id = None /\ new # {})
    <2>2. /\ SyncActivity(page, asks[i]).id = q.id
          /\ SyncActivity(page, asks[i]).lines = Newest(q.lines \cup new)
          /\ mixed <=> SyncActivity(page, asks[i]).mixed
      BY <1>1, SyncedPage
    <2> HIDE DEF q, new, mixed
    <2>3. /\ page'.id = q.id /\ page'.lines = Newest(q.lines \cup new)
          /\ mixed <=> page'.mixed
      BY <1>2, <2>1, <2>2
    <2> QED
      BY <1>4, <2>3 DEF q, new, mixed
  <1> QED
    BY <1>3, <1>4

LEMMA BrowserNames ==
  ASSUME Typed, HostIsOrdered, LinesAreNamed, BrowserStep
  PROVE  LinesAreNamed'
  <1>0. HostTyped /\ BrowserTyped /\ Len(asks) \in Nat /\ Len(wire) \in Nat
    BY DEF Typed, BrowserTyped
  <1>1. UNCHANGED host /\ slot' = slot /\ thread' = thread /\ record' = record
    BY BrowserKeepsHost DEF host
  <1>2. /\ \A e \in Frame : KnownEvent(e) => KnownEvent(e)'
        /\ \A ask \in Snapshot : KnownAnswer(ask) => KnownAnswer(ask)'
    BY <1>1 DEF KnownEvent, KnownAnswer, Reported, Named, Begun, Open
  <1>3. /\ Reported(record.lines)' /\ Named(record.id, record.lines)'
        /\ \A r \in Run : thread'[r].pc = "emitting" =>
              KnownEvent(thread[r].out[1])'
              /\ (thread'[r].out[1].type = "line" => thread'[r].out[1].line.of = r)
    BY <1>1 DEF LinesAreNamed, KnownEvent, Reported, Named, Begun, Open
  <1>4. ASSUME NEW i \in 1 .. Len(wire') PROVE KnownEvent(wire[i])'
    <2>1. \/ wire'[i] = Status
          \/ \E j \in 1 .. Len(wire) : wire'[i] = wire[j]
      <3>1. CASE Disconnect \/ Reload
        BY <3>1 DEF Disconnect, Reload
      <3>2. CASE Connect
        BY <3>2 DEF Connect
      <3>3. CASE OnStarted \/ OnFinished \/ OnStatus \/ OnLine
        <4>1. Len(wire') = Len(wire) - 1 /\ \A j \in 1 .. Len(wire) - 1 : wire'[j] = wire[j + 1]
          BY <1>0, <3>3, ArrivedTyped DEF OnStarted, OnFinished, OnStatus, OnLine
        <4>2. i + 1 \in 1 .. Len(wire) /\ wire'[i] = wire[i + 1]
          BY <1>0, <4>1
        <4> QED
          BY <4>2
      <3>4. CASE wire' = wire
        BY <3>4
      <3>5. (\E j \in 1 .. Len(asks) : ReadFeed(j) \/ ReadRunning(j) \/ AskFails(j) \/ Apply(j))
               \/ Refresh => wire' = wire
        BY DEF ReadFeed, ReadRunning, AskFails, Apply, Refresh
      <3> QED
        BY <3>1, <3>2, <3>3, <3>4, <3>5 DEF BrowserStep
    <2>2. CASE wire'[i] = Status
      BY <2>2 DEF Status, KnownEvent
    <2>3. CASE \E j \in 1 .. Len(wire) : wire'[i] = wire[j]
      <3>1. PICK e \in Frame : e = wire'[i] /\ KnownEvent(e)
        BY <1>0, <2>3 DEF BrowserTyped, LinesAreNamed
      <3>2. KnownEvent(e)'
        BY <1>2, <3>1
      <3> QED
        BY <3>1, <3>2 DEF KnownEvent, Reported, Named
    <2> QED
      BY <2>1, <2>2, <2>3
  <1>5. ASSUME NEW i \in 1 .. Len(asks') PROVE KnownAnswer(asks[i])'
    <2>1. \/ asks'[i].lines = {} /\ asks'[i].id = None
          \/ asks'[i].lines = record.lines /\ asks'[i].id = record.id
          \/ \E j \in 1 .. Len(asks) : asks'[i].lines = asks[j].lines /\ asks'[i].id = asks[j].id
      <3>1. CASE Ask
        <4>1. /\ Len(asks') = Len(asks) + 1 /\ asks'[Len(asks')] = Asked
              /\ \A j \in 1 .. Len(asks) : asks'[j] = asks[j]
          BY <1>0, <3>1, AskedAgain
        <4>2. i \in 1 .. Len(asks) \/ i = Len(asks')
          BY <1>0, <4>1
        <4> QED
          BY <4>1, <4>2 DEF Asked
      <3>2. CASE asks' = asks
        BY <3>2
      <3>3. CASE Reload
        BY <3>3 DEF Reload, Asked
      <3>4. CASE Connect
        BY <1>0, <3>4, ConnectAges
      <3>5. CASE \E j \in 1 .. Len(asks) : ReadFeed(j) \/ ReadRunning(j)
        <4>1. PICK j \in 1 .. Len(asks) : ReadFeed(j) \/ ReadRunning(j)
          BY <3>5
        <4> QED
          BY <1>0, <4>1, AnsweredAt
      <3>6. CASE \E j \in 1 .. Len(asks) : AskFails(j)
        <4>1. PICK j \in 1 .. Len(asks) : asks' = RemoveAt(asks, j)
          BY <3>6 DEF AskFails
        <4>2. /\ Len(asks') = Len(asks) - 1
              /\ \A k \in 1 .. Len(asks) - 1 : asks'[k] = IF k < j THEN asks[k] ELSE asks[k + 1]
          BY <1>0, <4>1, RemovedAt DEF BrowserTyped
        <4>3. i \in 1 .. Len(asks) /\ i + 1 \in 1 .. Len(asks)
          BY <1>0, <4>2
        <4> QED
          BY <1>0, <4>2, <4>3
      <3>7. CASE \E j \in 1 .. Len(asks) : Apply(j)
        <4>1. PICK j \in 1 .. Len(asks) : Apply(j)
          BY <3>7
        <4>2. /\ Len(asks') = Len(asks) - 1
              /\ \A m \in 1 .. Len(asks) - 1 :
                    LET k == IF m < j THEN m ELSE m + 1
                    IN  asks'[m].lines = asks[k].lines /\ asks'[m].id = asks[k].id
          BY <1>0, <4>1, ApplyAges
        <4>3. i \in 1 .. Len(asks) /\ i + 1 \in 1 .. Len(asks) /\ i \in 1 .. Len(asks) - 1
          BY <1>0, <4>2
        <4> QED
          BY <4>2, <4>3
      <3>8. Refresh \/ OnStarted \/ OnFinished \/ OnStatus => Ask \/ asks' = asks
        BY DEF Refresh, OnStarted, OnFinished, OnStatus
      <3>9. Disconnect \/ OnLine => asks' = asks
        BY DEF Disconnect, OnLine
      <3> QED
        BY <3>1, <3>2, <3>3, <3>4, <3>5, <3>6, <3>7, <3>8, <3>9 DEF BrowserStep
    <2>2. CASE asks'[i].lines = {} /\ asks'[i].id = None
      BY <2>2 DEF KnownAnswer, Reported, Named, Open
    <2>3. CASE asks'[i].lines = record.lines /\ asks'[i].id = record.id
      <3>1. record.seq \in 0 .. record.seq
        BY <1>0 DEF HostTyped
      <3>2. Open' => record.lines = LastLines(slot', record.seq)
        BY <1>1 DEF HostIsOrdered, Open
      <3> QED
        BY <1>1, <1>3, <2>3, <3>1, <3>2 DEF KnownAnswer, Reported, Named
    <2>4. CASE \E j \in 1 .. Len(asks) : asks'[i].lines = asks[j].lines /\ asks'[i].id = asks[j].id
      <3>1. PICK ask \in Snapshot : /\ KnownAnswer(ask)
                                    /\ asks'[i].lines = ask.lines /\ asks'[i].id = ask.id
        BY <1>0, <2>4 DEF BrowserTyped, LinesAreNamed
      <3>2. KnownAnswer(ask)'
        BY <1>2, <3>1
      <3> QED
        BY <3>1, <3>2 DEF KnownAnswer, Reported, Named
    <2> QED
      BY <2>1, <2>2, <2>3, <2>4
  <1>6. KnownPage'
    <2>0. KnownPage
      BY DEF LinesAreNamed
    <2>1. CASE page'.id = page.id /\ page'.lines = page.lines /\ page'.mixed = page.mixed
      BY <1>1, <2>0, <2>1 DEF KnownPage, Reported, Begun, Open
    <2>2. CASE Reload
      BY <1>0, <2>2, PageIsTurned DEF KnownPage, Reported
    <2>3. CASE OnStarted
      <3>1. /\ Head(wire) = wire[1] /\ wire[1].type = "started" /\ 1 \in 1 .. Len(wire)
        BY <1>0, <2>3, ArrivedTyped DEF OnStarted
      <3>2. Begun(wire[1].id)
        BY <3>1 DEF LinesAreNamed, KnownEvent
      <3> QED
        BY <1>0, <1>1, <2>3, <3>1, <3>2, PageIsTurned DEF KnownPage, Reported, Begun
    <2>4. CASE OnLine
      <3> DEFINE e == Head(wire)
                 q == Base(page, e.id)
      <3>1. e = wire[1] /\ e.type = "line" /\ 1 \in 1 .. Len(wire) /\ e \in Frame
        BY <1>0, <2>4, ArrivedTyped DEF OnLine
      <3>2. e.id \in Runs /\ {e.line} \in SUBSET LineType
        BY <3>1 DEF Frame, Event
      <3>3. Reported({e.line}) /\ Named(e.id, {e.line})
        BY <3>1 DEF LinesAreNamed, KnownEvent
      <3>4. /\ page'.id = q.id
            /\ \/ page'.lines = q.lines /\ page'.mixed = q.mixed
               \/ /\ page'.lines = Newest(q.lines \cup {e.line})
                  /\ q.mixed \/ e.id = None <=> page'.mixed
        BY <1>0, <2>4, LineIsAdded
      <3>5. page \in PageState /\ (e.id = None => q = page)
        BY <1>0, <3>2, BaseTyped DEF BrowserTyped
      <3> HIDE DEF e, q
      <3>6. /\ page'.id = q.id /\ page'.lines \subseteq q.lines \cup {e.line}
            /\ ~page'.mixed => ~q.mixed /\ (e.id = None => page'.lines \subseteq page.lines)
        BY <3>4, <3>5 DEF Newest
      <3> QED
        BY <1>0, <1>1, <2>0, <3>2, <3>3, <3>6, PageKnows DEF q
    <2>5. CASE \E i \in 1 .. Len(asks) : Apply(i)
      <3>1. PICK i \in 1 .. Len(asks) : Apply(i)
        BY <2>5
      <3> DEFINE id == asks[i].id
                 more == asks[i].lines
                 q == Base(page, id)
                 new == Unseen(q.lines, more)
      <3>2. id \in Runs /\ more \in SUBSET LineType /\ Reported(more) /\ Named(id, more)
        <4>1. asks[i] \in Snapshot /\ KnownAnswer(asks[i])
          BY <1>0 DEF BrowserTyped, LinesAreNamed
        <4>2. asks[i].lines \in Feed /\ asks[i].id \in Runs
          BY <4>1 DEF Snapshot
        <4> QED
          BY <4>1, <4>2 DEF KnownAnswer, Feed
      <3>3. CASE ~asks[i].running
        BY <1>0, <2>1, <3>1, <3>3, AppliedPage
      <3>4. CASE asks[i].running
        <4>1. /\ page'.id = q.id /\ page'.lines = Newest(q.lines \cup new)
              /\ q.mixed \/ (id = None /\ new # {}) <=> page'.mixed
          BY <1>0, <3>1, <3>4, AppliedPage
        <4>2. page \in PageState /\ (id = None => q = page)
          BY <1>0, <3>2, BaseTyped DEF BrowserTyped
        <4>3. new \subseteq more
          BY DEF Unseen
        <4> HIDE DEF id, more, q, new
        <4>4. /\ page'.id = q.id /\ page'.lines \subseteq q.lines \cup more
              /\ ~page'.mixed => ~q.mixed /\ (id = None => page'.lines \subseteq page.lines)
          BY <4>1, <4>2, <4>3 DEF Newest
        <4> QED
          BY <1>0, <1>1, <2>0, <3>2, <4>4, PageKnows DEF q
      <3> QED
        BY <3>3, <3>4
    <2>6. CASE OnFinished
      BY <1>0, <2>1, <2>6, PageIsTurned
    <2>7. CASE page' = page
      BY <2>1, <2>7
    <2>8. \/ page' = page \/ Reload \/ OnStarted \/ OnLine \/ OnFinished
          \/ \E i \in 1 .. Len(asks) : Apply(i)
      BY DEF BrowserStep, Disconnect, Connect, ReadFeed, ReadRunning, AskFails, Refresh, OnStatus
    <2> QED
      BY <2>2, <2>3, <2>4, <2>5, <2>6, <2>7, <2>8
  <1> QED
    BY <1>3, <1>4, <1>5, <1>6 DEF LinesAreNamed

-----------------------------------------------------------------------------
(* The order of what is on its way *)

\* A line that names the run in flight is one it reported; the run has begun.
LEMMA SlotsLine ==
  ASSUME Typed, LinesAreNamed, Open, NEW e \in Frame, KnownEvent(e), OfSlot(e)
  PROVE  /\ Begun(slot) /\ slot \in Run
         /\ e.line.seq \in 1 .. record.seq /\ e.line = RunLine(slot, e.line.seq)
         /\ e = Line(slot, e.line)
  <1>1. e.type = "line" /\ e.id = slot /\ slot # None
    BY DEF OfSlot, Open
  <1>2. e \in [type : {"line"}, id : Runs, line : LineType]
    BY <1>1 DEF Frame, Event
  <1>3. Reported({e.line}) /\ Named(slot, {e.line})
    BY <1>1 DEF KnownEvent
  <1>4. Begun(slot) /\ e.line.of = slot /\ e.line.seq <= record.seq
    BY <1>1, <1>3 DEF Reported, Named, Open
  <1>5. e.line \in LineType /\ record.seq \in Nat
    BY <1>2 DEF Typed, HostTyped
  <1>6. e = Line(slot, e.line)
    BY <1>1, <1>2 DEF Line
  <1>7. e.line = RunLine(slot, e.line.seq) /\ e.line.seq \in 1 .. record.seq /\ slot \in Run
    BY <1>4, <1>5 DEF LineType, RunLine
  <1> QED
    BY <1>4, <1>6, <1>7

LEMMA HostKeepsOrder ==
  ASSUME Typed, SlotIsOwned, HostIsOrdered, LinesAreNamed, WireIsOrdered, NEW r \in Run, HostStep(r)
  PROVE  WireIsOrdered'
  <1> SUFFICES ASSUME Open' PROVE WireIsOrdered'
    BY DEF WireIsOrdered
  <1>0. HostTyped /\ BrowserTyped /\ wire \in Seq(Frame) /\ Len(wire) \in Nat /\ record.seq \in Nat
    BY DEF Typed, BrowserTyped, HostTyped
  <1>1. /\ slot \in Run /\ slot' = slot
        /\ \/ Open /\ ~TrackStarted(r)
           \/ slot = r /\ TrackStarted(r) /\ thread[r].pc = "claimed"
    BY <1>0, OpenStays
  <1>2. CASE TrackStarted(r)
    <2>1. slot = r /\ thread[r].pc = "claimed" /\ wire' = wire
          /\ thread'[r].pc = "emitting" /\ thread'[r].out[1] = Started(r)
      BY <1>0, <1>1, <1>2, HostMoves, SlotsThread
    <2>2. \A i \in 1 .. Len(wire) : ~(wire[i].type = "line" /\ wire[i].id = slot)
      BY <2>1, NoneIsNoRun DEF LinesAreNamed, KnownEvent, Named, Begun
    <2>3. Started(r).type # "line"
      BY DEF Started
    <2> QED
      BY <1>1, <2>1, <2>2, <2>3 DEF WireIsOrdered, OfSlot, InHand
  <1>3. CASE ~TrackStarted(r) /\ ~Emit(r)
    <2>1. Open /\ wire' = wire
      BY <1>0, <1>1, <1>3, HostMoves
    <2>2. CASE TrackLine(r)
      <3>1. slot = r /\ thread[slot].pc = "working" /\ thread'[slot].pc = "emitting"
            /\ thread'[slot].out[1] = Line(record.id, RunLine(r, record.seq + 1))
        BY <1>0, <2>2, HostMoves, SlotsThread
      <3>2. thread'[slot].out[1].line.seq = record.seq + 1
        BY <3>1 DEF Line, RunLine
      <3>3. ASSUME NEW i \in 1 .. Len(wire), OfSlot(wire[i])
            PROVE  wire[i].line.seq < record.seq + 1
        <4>1. wire[i] \in Frame /\ KnownEvent(wire[i])
          BY <1>0 DEF LinesAreNamed
        <4>2. wire[i].line.seq \in 1 .. record.seq
          BY <2>1, <3>3, <4>1, SlotsLine
        <4> QED
          BY <1>0, <4>2
      <3>4. ~InHand(Started(slot))
        BY <3>1 DEF InHand
      <3> QED
        BY <1>1, <2>1, <3>2, <3>3, <3>4 DEF WireIsOrdered, OfSlot
    <2>3. CASE ~TrackLine(r)
      <3>1. Start(r) \/ ReleaseSlot(r) \/ TrackFinished(r)
        BY <1>3, <2>3 DEF HostStep
      <3>2. FALSE
        BY <1>0, <1>1, <2>1, <3>1, HostMoves, NoneIsNoRun DEF Open
      <3> QED
        BY <3>2
    <2> QED
      BY <2>2, <2>3
  <1>4. CASE Emit(r)
    <2>1. Open /\ thread[r].pc = "emitting" /\ thread'[r].pc # "emitting"
          /\ \A s \in Run : s # r => thread'[s] = thread[s]
      BY <1>0, <1>1, <1>4, HostMoves DEF TrackStarted, Emit
    <2>2. CASE link = "off"
      BY <1>0, <1>4, <2>2, Delivered DEF WireIsOrdered
    <2>3. CASE link = "on"
      <3> DEFINE n == Len(wire)
                 e == thread[r].out[1]
      <3>1. /\ Len(wire') = n + 1 /\ wire'[n + 1] = e
            /\ \A i \in 1 .. n : wire'[i] = wire[i]
        BY <1>0, <1>4, <2>3, Delivered
      <3>2. e.type = "line" => slot = r /\ e.line.of = r /\ (e.id \in {None, r})
        <4>1. e.type = "line" => e.line.of = r /\ Named(e.id, {e.line})
          BY <2>1 DEF LinesAreNamed, KnownEvent
        <4>2. e.type = "line" => slot = r
          BY <1>0, <2>1, OneOut, SlotsThread
        <4> QED
          BY <4>1, <4>2 DEF Named
      <3>3. ASSUME slot = r, NEW i \in 1 .. n, OfSlot(wire[i]), OfSlot(e)
            PROVE  wire[i].line.seq < e.line.seq
        BY <2>1, <3>3 DEF WireIsOrdered
      <3>4. thread'[slot].pc = "emitting" => slot # r /\ thread'[slot] = thread[slot]
        BY <1>1, <2>1
      <3> HIDE DEF n, e
      <3>5. \A i, j \in 1 .. n + 1 :
               i < j /\ (wire'[i].type = "line" /\ wire'[i].id = slot)
                     /\ (wire'[j].type = "line" /\ wire'[j].id = slot)
                  => wire'[i].line.seq < wire'[j].line.seq
        <4> SUFFICES ASSUME NEW i \in 1 .. n + 1, NEW j \in 1 .. n + 1, i < j,
                            wire'[i].type = "line", wire'[i].id = slot,
                            wire'[j].type = "line", wire'[j].id = slot
                     PROVE  wire'[i].line.seq < wire'[j].line.seq
          OBVIOUS
        <4>1. i \in 1 .. n /\ wire'[i] = wire[i] /\ (j \in 1 .. n \/ j = n + 1)
          BY <1>0, <3>1 DEF n
        <4>2. CASE j \in 1 .. n
          BY <2>1, <3>1, <4>1, <4>2 DEF WireIsOrdered, OfSlot, n
        <4>3. CASE j = n + 1
          BY <3>1, <3>2, <3>3, <4>1, <4>3 DEF OfSlot
        <4> QED
          BY <4>1, <4>2, <4>3
      <3>6. thread'[slot].pc = "emitting" =>
               ~(thread'[slot].out[1].type = "line" /\ thread'[slot].out[1].id = slot)
               \/ \A i \in 1 .. n + 1 : wire'[i].type = "line" /\ wire'[i].id = slot =>
                       wire'[i].line.seq < thread'[slot].out[1].line.seq
        <4> SUFFICES ASSUME thread'[slot].pc = "emitting",
                            thread[slot].out[1].type = "line", thread[slot].out[1].id = slot,
                            NEW i \in 1 .. n + 1, wire'[i].type = "line", wire'[i].id = slot
                     PROVE  wire[i].line.seq < thread[slot].out[1].line.seq /\ wire'[i] = wire[i]
          BY <3>4
        <4>1. i # n + 1
          BY <3>1, <3>2, <3>4
        <4>2. i \in 1 .. n /\ wire'[i] = wire[i]
          BY <1>0, <3>1, <4>1 DEF n
        <4> QED
          BY <2>1, <3>4, <4>2 DEF WireIsOrdered, OfSlot, n
      <3>7. ASSUME NEW i \in 1 .. n + 1, wire'[i].type = "line", wire'[i].id \notin {None, slot}
            PROVE  \/ thread'[slot].pc = "emitting" /\ thread'[slot].out[1] = Started(slot)
                   \/ \E j \in i + 1 .. n + 1 : wire'[j] = Started(slot)
        <4>1. i # n + 1
          BY <3>1, <3>2, <3>7
        <4>2. i \in 1 .. n /\ wire'[i] = wire[i] /\ n \in Nat
          BY <1>0, <3>1, <4>1 DEF n
        <4>3. InHand(Started(slot)) \/ \E j \in i + 1 .. n : wire[j] = Started(slot)
          BY <2>1, <3>7, <4>2 DEF WireIsOrdered, n
        <4>4. CASE \E j \in i + 1 .. n : wire[j] = Started(slot)
          <5>1. PICK j \in i + 1 .. n : wire[j] = Started(slot)
            BY <4>4
          <5>2. j \in 1 .. n /\ j \in i + 1 .. n + 1
            BY <4>2
          <5> QED
            BY <3>1, <5>1, <5>2
        <4>5. CASE InHand(Started(slot)) /\ slot = r
          <5>1. wire'[n + 1] = Started(slot) /\ n + 1 \in i + 1 .. n + 1
            BY <3>1, <4>2, <4>5 DEF InHand, e
          <5> QED
            BY <5>1
        <4>6. CASE InHand(Started(slot)) /\ slot # r
          BY <1>1, <2>1, <4>6 DEF InHand
        <4> QED
          BY <4>3, <4>4, <4>5, <4>6
      <3> QED
        BY <1>1, <3>1, <3>5, <3>6, <3>7 DEF WireIsOrdered, OfSlot, InHand
    <2> QED
      BY <1>0, <2>2, <2>3 DEF BrowserTyped
  <1> QED
    BY <1>2, <1>3, <1>4

LEMMA BrowserKeepsOrder ==
  ASSUME Typed, WireIsOrdered, BrowserStep
  PROVE  WireIsOrdered'
  <1>0. BrowserTyped /\ wire \in Seq(Frame) /\ Len(wire) \in Nat
    BY DEF Typed, BrowserTyped
  <1>1. slot' = slot /\ thread' = thread /\ record' = record
    BY BrowserKeepsHost DEF host
  <1>2. CASE Disconnect \/ Reload
    BY <1>2 DEF Disconnect, Reload, WireIsOrdered
  <1>3. CASE Connect
    <2>1. wire' = <<Status>> /\ Len(wire') = 1 /\ wire'[1].type # "line"
      BY <1>3 DEF Connect, Status
    <2>2. \A i \in 1 .. Len(wire') : wire'[i].type # "line"
      BY <2>1
    <2> QED
      BY <2>2 DEF WireIsOrdered, OfSlot
  <1>4. CASE OnStarted \/ OnFinished \/ OnStatus \/ OnLine
    <2>1. /\ Len(wire') = Len(wire) - 1 /\ Len(wire) > 0
          /\ \A i \in 1 .. Len(wire) - 1 : wire'[i] = wire[i + 1]
      BY <1>0, <1>4, ArrivedTyped DEF OnStarted, OnFinished, OnStatus, OnLine
    <2>2. \A i \in 1 .. Len(wire') : i + 1 \in 1 .. Len(wire) /\ wire'[i] = wire[i + 1]
      BY <1>0, <2>1
    <2>3. \A i \in 1 .. Len(wire'), j \in 1 .. Len(wire') : i < j => i + 1 < j + 1
      OBVIOUS
    <2>4. ASSUME NEW i \in 1 .. Len(wire'), NEW j \in (i + 1) + 1 .. Len(wire)
          PROVE  j - 1 \in i + 1 .. Len(wire') /\ wire'[j - 1] = wire[j]
      <3>1. j - 1 \in i + 1 .. Len(wire') /\ (j - 1) + 1 = j /\ j - 1 \in 1 .. Len(wire) - 1
        BY <1>0, <2>1
      <3> QED
        BY <2>1, <3>1
    <2> SUFFICES ASSUME Open' PROVE WireIsOrdered'
      BY DEF WireIsOrdered
    <2>5. Open
      BY <1>1 DEF Open
    <2>6. \A i, j \in 1 .. Len(wire') :
             i < j /\ OfSlot(wire[i])' /\ OfSlot(wire[j])' => wire'[i].line.seq < wire'[j].line.seq
      BY <1>1, <2>2, <2>3, <2>5 DEF WireIsOrdered, OfSlot
    <2>7. thread'[slot'].pc = "emitting" /\ OfSlot(thread[slot].out[1])' =>
             \A i \in 1 .. Len(wire') :
                OfSlot(wire[i])' => wire'[i].line.seq < thread'[slot'].out[1].line.seq
      BY <1>1, <2>2, <2>5 DEF WireIsOrdered, OfSlot
    <2>8. ASSUME NEW i \in 1 .. Len(wire'), wire'[i].type = "line", wire'[i].id \notin {None, slot}
          PROVE  InHand(Started(slot)) \/ \E j \in i + 1 .. Len(wire') : wire'[j] = Started(slot)
      <3>1. \/ InHand(Started(slot))
            \/ \E j \in (i + 1) + 1 .. Len(wire) : wire[j] = Started(slot)
        BY <2>2, <2>5, <2>8 DEF WireIsOrdered
      <3> QED
        BY <2>4, <3>1
    <2> QED
      BY <1>1, <2>6, <2>7, <2>8 DEF WireIsOrdered, InHand
  <1>5. CASE wire' = wire
    BY <1>1, <1>5 DEF WireIsOrdered, OfSlot, InHand, Open
  <1>6. \/ Disconnect \/ Reload \/ Connect \/ OnStarted \/ OnFinished \/ OnStatus \/ OnLine
        \/ wire' = wire
    BY DEF BrowserStep, ReadFeed, ReadRunning, AskFails, Apply, Refresh
  <1> QED
    BY <1>2, <1>3, <1>4, <1>5, <1>6

-----------------------------------------------------------------------------
(* What the page's feed lacks *)

\* A step of the host takes nothing off the page's way, and puts what it reports on it.
LEMMA StaysComing ==
  ASSUME Typed, SlotIsOwned, HostIsOrdered, NEW r \in Run, HostStep(r), Open', ~TrackStarted(r),
         link = "on"
  PROVE  /\ Open /\ slot' = slot /\ slot \in Run /\ record.seq <= record'.seq
         /\ UNCHANGED <<link, asks, page>>
         /\ \A e : Coming(e) => Coming(e)'
         /\ \A i \in 1 .. Len(wire) : i \in 1 .. Len(wire') /\ wire'[i] = wire[i]
         /\ \A k \in record.seq + 1 .. record'.seq : Coming(Line(slot, RunLine(slot, k)))'
  <1>0. /\ HostTyped /\ BrowserTyped /\ wire \in Seq(Frame) /\ Len(wire) \in Nat
        /\ record.seq \in Nat
    BY DEF Typed, BrowserTyped, HostTyped
  <1>1. /\ Open /\ slot' = slot /\ slot \in Run /\ record.seq <= record'.seq
        /\ UNCHANGED <<link, asks, page>>
    BY <1>0, OpenStays, HostMoves
  <1>2. CASE TrackLine(r)
    <2>1. /\ slot = r /\ thread[slot].pc = "working" /\ wire' = wire
          /\ record'.seq = record.seq + 1 /\ record.id = slot
          /\ thread'[slot].pc = "emitting"
          /\ thread'[slot].out[1] = Line(record.id, RunLine(r, record.seq + 1))
      <3>1. /\ thread[r].pc = "working" /\ record'.seq = record.seq + 1
            /\ thread'[r].pc = "emitting"
            /\ thread'[r].out[1] = Line(record.id, RunLine(r, record.seq + 1))
        BY <1>0, <1>2, HostMoves
      <3>2. slot = r
        BY <1>0, <3>1, SlotsThread
      <3>3. wire' = wire
        BY <1>2 DEF TrackLine, browser
      <3> QED
        BY <1>1, <3>1, <3>2, <3>3 DEF Open
    <2>2. \A e : Coming(e) => Coming(e)'
      BY <1>1, <2>1 DEF Coming, InHand
    <2>3. ASSUME NEW k \in record.seq + 1 .. record'.seq
          PROVE  Coming(Line(slot, RunLine(slot, k)))'
      <3>1. k = record.seq + 1
        BY <1>0, <2>1
      <3> QED
        BY <1>1, <2>1, <3>1 DEF Coming, InHand
    <2> QED
      BY <1>0, <1>1, <2>1, <2>2, <2>3
  <1>3. CASE Emit(r)
    <2>1. /\ Len(wire') = Len(wire) + 1 /\ wire'[Len(wire) + 1] = thread[r].out[1]
          /\ \A i \in 1 .. Len(wire) : wire'[i] = wire[i]
          /\ record' = record
          /\ \A s \in Run : s # r => thread'[s] = thread[s]
      BY <1>0, <1>3, Delivered, HostMoves
    <2>2. \A i \in 1 .. Len(wire) : i \in 1 .. Len(wire') /\ wire'[i] = wire[i]
      BY <1>0, <2>1
    <2>3. ASSUME NEW e, Coming(e) PROVE Coming(e)'
      <3>1. CASE InHand(e) /\ slot = r
        <4>1. wire'[Len(wire) + 1] = e /\ Len(wire) + 1 \in 1 .. Len(wire')
          BY <1>0, <2>1, <3>1 DEF InHand
        <4> QED
          BY <4>1 DEF Coming
      <3>2. CASE InHand(e) /\ slot # r
        BY <1>1, <2>1, <3>2 DEF Coming, InHand
      <3>3. CASE \E i \in 1 .. Len(wire) : wire[i] = e
        BY <2>2, <3>3 DEF Coming
      <3> QED
        BY <2>3, <3>1, <3>2, <3>3 DEF Coming
    <2> QED
      BY <1>0, <1>1, <2>1, <2>2, <2>3
  <1>4. CASE ~TrackLine(r) /\ ~Emit(r)
    <2>1. Start(r) \/ ReleaseSlot(r) \/ TrackFinished(r)
      BY <1>4 DEF HostStep
    <2>2. FALSE
      BY <1>0, <1>1, <2>1, HostMoves, NoneIsNoRun DEF Open
    <2> QED
      BY <2>2
  <1> QED
    BY <1>2, <1>3, <1>4

LEMMA HostKeepsFeed ==
  ASSUME Typed, SlotIsOwned, HostIsOrdered, FeedIsTold, NEW r \in Run, HostStep(r)
  PROVE  FeedIsTold'
  <1> SUFFICES ASSUME Open', ~Resync' PROVE FeedIsTold'
    BY DEF FeedIsTold
  <1>0. HostTyped /\ BrowserTyped /\ record.seq \in Nat /\ record'.seq \in Nat
    BY HostStaysTyped DEF Typed, HostTyped, HostStep
  <1>1. link' = link /\ link = "on"
    BY <1>0, HostMoves DEF Resync, BrowserTyped
  <1>2. ~TrackStarted(r)
    <2> SUFFICES ASSUME TrackStarted(r) PROVE FALSE
      OBVIOUS
    <2>1. slot' = r /\ thread'[r].pc = "emitting" /\ thread'[r].out[1] = Started(r)
      BY <1>0, HostMoves, SlotsThread
    <2> QED
      BY <2>1 DEF Resync, Coming, InHand
  <1>3. /\ Open /\ slot' = slot /\ record.seq <= record'.seq /\ UNCHANGED <<asks, page>>
        /\ \A e : Coming(e) => Coming(e)'
        /\ \A i \in 1 .. Len(wire) : i \in 1 .. Len(wire') /\ wire'[i] = wire[i]
        /\ \A k \in record.seq + 1 .. record'.seq : Coming(Line(slot, RunLine(slot, k)))'
    BY <1>1, <1>2, StaysComing
  <1>4. ~Resync
    <2>1. ~Coming(Started(slot))
      BY <1>3 DEF Resync
    <2> QED
      BY <1>1, <1>3, <2>1 DEF Resync
  <1>5. ASSUME NEW n \in Nat, Bridged(n) PROVE Bridged(n)'
    <2>1. PICK m \in Nat : Lacks(n, m)
      BY <1>5 DEF Bridged
    <2>2. ASSUME NEW k \in m + 1 .. record'.seq PROVE Coming(Line(slot, RunLine(slot, k)))'
      <3>1. CASE k <= record.seq
        <4>1. k \in m + 1 .. record.seq
          BY <1>0, <3>1
        <4> QED
          BY <1>3, <2>1, <4>1 DEF Lacks, RestIsComing
      <3>2. CASE ~(k <= record.seq)
        <4>1. k \in record.seq + 1 .. record'.seq
          BY <1>0, <3>2
        <4> QED
          BY <1>3, <4>1
      <3> QED
        BY <3>1, <3>2
    <2>3. RestIsComing(m)'
      BY <1>3, <2>2 DEF RestIsComing
    <2>4. m <= record'.seq
      BY <1>0, <1>3, <2>1 DEF Lacks
    <2>5. Lacks(n, m)'
      BY <1>3, <2>1, <2>3, <2>4 DEF Lacks, Unbroken
    <2> QED
      BY <2>5 DEF Bridged
  <1>6. CASE asks = <<>>
    BY <1>3, <1>4, <1>5, <1>6 DEF FeedIsTold, Whole
  <1>7. CASE asks # <<>>
    <2>1. Fitting(asks[Len(asks)])
      BY <1>3, <1>4, <1>7 DEF FeedIsTold
    <2>2. Fitting(asks[Len(asks)])'
      BY <1>3, <1>5, <2>1 DEF Fitting
    <2> QED
      BY <1>3, <1>7, <2>2 DEF FeedIsTold
  <1> QED
    BY <1>6, <1>7

\* Lines of the run in flight, put together without a hole, make a feed without one.
LEMMA Joined ==
  ASSUME slot \in Run, NEW n \in Nat, NEW m \in Nat, NEW lines \in SUBSET LineType,
         \A l \in lines : l.of = slot /\ l.seq <= m,
         \A k \in n + 1 .. m : k + Limit > m => RunLine(slot, k) \in lines
  PROVE  Unbroken(Newest(lines), n, m)
  <1>1. Newest(lines) \subseteq lines
    BY DEF Newest
  <1>2. ASSUME NEW k \in n + 1 .. m, k + Limit > m PROVE RunLine(slot, k) \in Newest(lines)
    <2>1. k \in 1 .. m /\ RunLine(slot, k) \in lines
      BY <1>2
    <2> QED
      BY <1>2, <2>1, NewestAreKept
  <1> QED
    BY <1>1, <1>2 DEF Unbroken

\* What is left of the page's feed when something of the run in flight comes.
LEMMA BaseLacks ==
  ASSUME Typed, Open, KnownPage, NEW n \in Nat, NEW m \in Nat, Lacks(n, m)
  PROVE  /\ Base(page, slot).id = slot
         /\ Base(page, slot).lines \in Feed
         /\ Base(page, slot).mixed
            \/ /\ \A l \in Base(page, slot).lines : l.of = slot
               /\ Unbroken(Base(page, slot).lines, n, m)
  <1> DEFINE q == Base(page, slot)
  <1>1. page \in PageState /\ slot \in Runs /\ slot # None
    BY DEF Typed, BrowserTyped, HostTyped, Open
  <1>2. /\ q \in PageState /\ q.id = slot
        /\ slot = page.id => q = page
        /\ slot # page.id => q.lines = {} /\ ~q.mixed
    BY <1>1, BaseTyped
  <1> HIDE DEF q
  <1>3. q.lines \in Feed
    BY <1>2 DEF PageState
  <1>4. ASSUME ~q.mixed PROVE (\A l \in q.lines : l.of = slot) /\ Unbroken(q.lines, n, m)
    <2>1. CASE slot = page.id
      BY <1>2, <1>4, <2>1 DEF Lacks, KnownPage
    <2>2. CASE slot # page.id
      <3>1. m = n
        BY <2>2 DEF Lacks
      <3> QED
        BY <1>2, <2>2, <3>1 DEF Unbroken
    <2> QED
      BY <2>1, <2>2
  <1> QED
    BY <1>2, <1>3, <1>4 DEF q

LEMMA AppliedFills ==
  ASSUME Typed, Open, KnownPage, NEW n \in Nat, NEW m \in Nat, Lacks(n, m),
         NEW i \in 1 .. Len(asks), Apply(i), asks[i].running, asks[i].id = slot,
         NEW k \in Nat, k <= record.seq, asks[i].lines = LastLines(slot, k)
  PROVE  LET last == IF k > m THEN k ELSE m
         IN  /\ page'.id = slot
             /\ page'.mixed \/ Unbroken(page'.lines, n, last)
             /\ k = n => page'.mixed \/ Unbroken(page'.lines, 0, last)
  <1> DEFINE q == Base(page, slot)
             new == Unseen(q.lines, LastLines(slot, k))
             all == q.lines \cup new
             last == IF k > m THEN k ELSE m
  <1>0. slot \in Run /\ slot # None
    BY DEF Typed, HostTyped, Open, Runs
  <1>1. /\ page'.id = q.id /\ page'.lines = Newest(all)
        /\ q.mixed => page'.mixed
    BY AppliedPage DEF Typed
  <1>2. /\ q.id = slot /\ q.lines \in Feed
        /\ q.mixed \/ ((\A l \in q.lines : l.of = slot) /\ Unbroken(q.lines, n, m))
    BY BaseLacks
  <1>3. n <= m
    BY DEF Lacks
  <1> HIDE DEF q
  <1>4. CASE q.mixed
    BY <1>1, <1>2, <1>4
  <1>5. CASE ~q.mixed
    <2>1. (\A l \in q.lines : l.of = slot /\ l \in LineType) /\ Unbroken(q.lines, n, m)
      BY <1>2, <1>5 DEF Feed
    <2>2. \A l \in LastLines(slot, k) : l.of = slot /\ l.seq \in 1 .. k /\ l \in LineType
      BY <1>0 DEF LastLines, RunLine, LineType
    <2>3. last \in Nat /\ m <= last /\ k <= last /\ (last = m \/ last = k)
      OBVIOUS
    <2>4. ASSUME NEW l \in all PROVE l \in LineType /\ l.of = slot /\ l.seq <= last
      <3>1. CASE l \in q.lines
        BY <2>1, <2>3, <3>1 DEF Unbroken, LineType
      <3>2. CASE l \in LastLines(slot, k)
        BY <2>2, <2>3, <3>2
      <3> QED
        BY <3>1, <3>2 DEF Unseen
    <2>5. LastLines(slot, k) \subseteq all
      <3> SUFFICES ASSUME NEW l \in LastLines(slot, k), l \notin new PROVE l \in q.lines
        OBVIOUS
      <3>1. PICK h \in q.lines : h.seq = l.seq
        BY DEF Unseen
      <3>2. h = l
        BY <2>1, <2>2, <3>1 DEF LineType
      <3> QED
        BY <3>2
    <2>6. \A j \in 1 .. k : j + Limit > k => RunLine(slot, j) \in all
      BY <2>5 DEF LastLines
    <2>7. \A j \in n + 1 .. m : j + Limit > m => RunLine(slot, j) \in all
      BY <2>1 DEF Unbroken
    <2> HIDE DEF all
    <2>8. \A j \in n + 1 .. last : j + Limit > last => RunLine(slot, j) \in all
      <3>1. CASE last = m
        BY <2>7, <3>1
      <3>2. CASE last = k
        BY <2>6, <3>2
      <3> QED
        BY <2>3, <3>1, <3>2
    <2>9. ASSUME k = n, NEW j \in 0 + 1 .. last, j + Limit > last PROVE RunLine(slot, j) \in all
      <3>1. last = m
        BY <1>3, <2>9
      <3>2. CASE j <= k
        <4>1. j \in 1 .. k /\ j + Limit > k
          BY <2>3, <2>9, <3>2, LimitAssumption
        <4> QED
          BY <2>6, <4>1
      <3>3. CASE j > k
        BY <2>7, <2>9, <3>1, <3>3
      <3> QED
        BY <3>2, <3>3
    <2>10. all \in SUBSET LineType /\ \A l \in all : l.of = slot /\ l.seq <= last
      BY <2>4
    <2> HIDE DEF last
    <2>11. Unbroken(Newest(all), n, last)
      BY <1>0, <2>3, <2>8, <2>10, Joined
    <2>12. k = n => Unbroken(Newest(all), 0, last)
      BY <1>0, <2>3, <2>9, <2>10, Joined
    <2> QED
      BY <1>1, <1>2, <2>11, <2>12 DEF last
  <1> QED
    BY <1>4, <1>5

\* What the page may still lack stays on its way, if nothing of that is lost.
LEMMA BridgeStays ==
  ASSUME NEW n \in Nat, Bridged(n), slot' = slot, record' = record, record.seq \in Nat,
         page'.id = slot <=> page.id = slot,
         \/ page.id # slot \/ page'.mixed
         \/ page'.lines = page.lines /\ (page.mixed => page'.mixed),
         \A k \in Nat : Coming(Line(slot, RunLine(slot, k))) => Coming(Line(slot, RunLine(slot, k)))'
  PROVE  Bridged(n)'
  <1>1. PICK m \in Nat : Lacks(n, m)
    BY DEF Bridged
  <1>2. RestIsComing(m)'
    <2>1. \A k \in m + 1 .. record.seq : k \in Nat
      OBVIOUS
    <2> QED
      BY <1>1, <2>1 DEF Lacks, RestIsComing
  <1>3. Lacks(n, m)'
    BY <1>1, <1>2 DEF Lacks, Unbroken
  <1> QED
    BY <1>3 DEF Bridged

\* The next line of the run in flight fills the page's feed from where it had got to.
LEMMA LineFills ==
  ASSUME Typed, LinesAreNamed, WireIsOrdered, Open, ~Coming(Started(slot)), OnLine,
         NEW n \in Nat, Bridged(n)
  PROVE  Bridged(n)' /\ (page.id = slot => page'.id = slot)
  <1> DEFINE e == Head(wire)
             q == Base(page, e.id)
  <1>0. /\ BrowserTyped /\ page \in PageState /\ record.seq \in Nat /\ slot \in Run
        /\ slot # None /\ slot' = slot /\ thread' = thread /\ record' = record
    BY DEF Typed, BrowserTyped, HostTyped, Open, Runs, OnLine, host
  <1>1. /\ e \in Frame /\ e.type = "line" /\ e = wire[1] /\ 1 \in 1 .. Len(wire)
        /\ Len(wire) \in Nat /\ Len(wire') = Len(wire) - 1
        /\ \A i \in 1 .. Len(wire) - 1 : wire'[i] = wire[i + 1]
    BY <1>0, ArrivedTyped DEF OnLine
  <1>2. e.id \in Runs /\ e.line \in LineType
    BY <1>1 DEF Frame, Event
  <1>3. KnownEvent(e)
    BY <1>1 DEF LinesAreNamed
  <1>4. /\ q \in PageState /\ q.id = IF e.id # None THEN e.id ELSE page.id
        /\ e.id \in {None, page.id} => q = page
    BY <1>0, <1>2, BaseTyped
  <1>5. /\ page'.id = q.id
        /\ \/ /\ \E l \in q.lines : l.seq >= e.line.seq
              /\ page'.lines = q.lines /\ page'.mixed = q.mixed
           \/ /\ \A l \in q.lines : l.seq < e.line.seq
              /\ page'.lines = Newest(q.lines \cup {e.line})
              /\ q.mixed \/ e.id = None <=> page'.mixed
    BY <1>0, LineIsAdded
  <1> HIDE DEF e, q
  <1>6. ASSUME NEW f, Coming(f), f # e PROVE Coming(f)'
    <2>1. CASE InHand(f)
      BY <1>0, <2>1 DEF Coming, InHand
    <2>2. CASE \E i \in 1 .. Len(wire) : wire[i] = f
      <3>1. PICK i \in 1 .. Len(wire) : wire[i] = f
        BY <2>2
      <3>2. i - 1 \in 1 .. Len(wire) - 1 /\ (i - 1) + 1 = i
        BY <1>1, <1>6, <3>1
      <3>3. wire'[i - 1] = f /\ i - 1 \in 1 .. Len(wire')
        BY <1>1, <3>1, <3>2
      <3> QED
        BY <3>3 DEF Coming
    <2> QED
      BY <1>6, <2>1, <2>2 DEF Coming
  <1>7. e.id \in {None, slot}
    <2> SUFFICES ASSUME e.id \notin {None, slot} PROVE FALSE
      OBVIOUS
    <2>1. InHand(Started(slot)) \/ \E j \in 1 + 1 .. Len(wire) : wire[j] = Started(slot)
      BY <1>1 DEF WireIsOrdered
    <2> QED
      BY <1>1, <2>1 DEF Coming
  <1>8. CASE e.id = None
    <2>1. page'.id = page.id /\ (page'.mixed \/ (page'.lines = page.lines /\ page'.mixed = page.mixed))
      BY <1>4, <1>5, <1>8
    <2>2. \A k \in Nat : Line(slot, RunLine(slot, k)) # e
      <3>1. \A k : Line(slot, RunLine(slot, k)).id = slot
        BY DEF Line
      <3> QED
        BY <1>0, <1>8, <3>1
    <2>3. \A k \in Nat : Coming(Line(slot, RunLine(slot, k)))
                            => Coming(Line(slot, RunLine(slot, k)))'
      BY <1>0, <1>6, <2>2
    <2>4. Bridged(n)'
      BY <1>0, <2>1, <2>3, BridgeStays
    <2> QED
      BY <2>1, <2>4
  <1>9. CASE e.id = slot
    <2> DEFINE k0 == e.line.seq
    <2>1. k0 \in 1 .. record.seq /\ e.line = RunLine(slot, k0) /\ e = Line(slot, e.line)
      BY <1>1, <1>3, <1>9, SlotsLine DEF OfSlot
    <2>2. \A k : Line(slot, RunLine(slot, k)).type = "line" /\ Line(slot, RunLine(slot, k)).id = slot
                 /\ Line(slot, RunLine(slot, k)).line.seq = k
      BY DEF Line, RunLine
    <2> HIDE DEF k0
    <2>3. PICK m \in Nat : Lacks(n, m)
      BY DEF Bridged
    <2>4. n <= m /\ m <= record.seq /\ RestIsComing(m)
      BY <2>3 DEF Lacks
    <2>5. k0 <= m + 1
      <3> SUFFICES ASSUME ~(k0 <= m + 1) PROVE FALSE
        OBVIOUS
      <3>1. m + 1 \in m + 1 .. record.seq
        BY <1>0, <2>1
      <3> DEFINE next == Line(slot, RunLine(slot, m + 1))
      <3>2. Coming(next)
        BY <2>4, <3>1 DEF RestIsComing
      <3>3. OfSlot(next) /\ next.line.seq = m + 1 /\ OfSlot(wire[1]) /\ wire[1].line.seq = k0
        BY <1>1, <1>9, <2>2 DEF OfSlot, k0
      <3> HIDE DEF next
      <3>4. CASE InHand(next)
        <4>1. wire[1].line.seq < next.line.seq
          BY <1>1, <3>3, <3>4 DEF WireIsOrdered, InHand
        <4> QED
          BY <1>0, <2>1, <3>3, <4>1
      <3>5. CASE \E i \in 1 .. Len(wire) : wire[i] = next
        <4>1. PICK i \in 1 .. Len(wire) : wire[i] = next
          BY <3>5
        <4>2. i = 1 \/ 1 < i
          OBVIOUS
        <4>3. i # 1
          BY <1>0, <2>1, <3>3, <4>1
        <4>4. wire[1].line.seq < wire[i].line.seq
          BY <1>1, <3>3, <4>1, <4>2, <4>3 DEF WireIsOrdered
        <4> QED
          BY <1>0, <2>1, <3>3, <4>1, <4>4
      <3> QED
        BY <3>2, <3>4, <3>5 DEF Coming
    <2>6. PICK last \in Nat : /\ m <= last /\ k0 <= last /\ last <= record.seq
                              /\ last = m \/ (last = k0 /\ k0 = m + 1)
      <3>1. k0 > m => k0 \in Nat /\ k0 = m + 1 /\ k0 <= record.seq
        BY <1>0, <2>1, <2>5
      <3>2. ~(k0 > m) => k0 <= m
        BY <2>1
      <3> QED
        BY <1>0, <2>4, <3>1, <3>2
    <2>7. RestIsComing(last)'
      <3> SUFFICES ASSUME NEW k \in last + 1 .. record.seq
                   PROVE  Coming(Line(slot, RunLine(slot, k)))'
        BY <1>0 DEF RestIsComing
      <3>1. k \in m + 1 .. record.seq /\ k # k0
        BY <1>0, <2>1, <2>6
      <3>2. Coming(Line(slot, RunLine(slot, k)))
        BY <2>4, <3>1 DEF RestIsComing
      <3>3. Line(slot, RunLine(slot, k)) # e
        BY <2>1, <2>2, <3>1
      <3> QED
        BY <1>0, <1>6, <3>2, <3>3
    <2>8. /\ q.id = slot /\ q.lines \in Feed
          /\ q.mixed \/ ((\A l \in q.lines : l.of = slot) /\ Unbroken(q.lines, n, m))
      BY <1>9, <2>3, BaseLacks DEF q, LinesAreNamed
    <2>9. page'.mixed \/ Unbroken(page'.lines, n, last)
      <3>1. CASE q.mixed
        BY <1>5, <3>1
      <3>2. CASE ~q.mixed /\ \E l \in q.lines : l.seq >= k0
        <4>1. Unbroken(q.lines, n, m)
          BY <2>8, <3>2
        <4>2. PICK l \in q.lines : l.seq >= k0
          BY <3>2
        <4>3. l.seq <= m /\ l.seq \in Nat
          BY <2>8, <4>1 DEF Unbroken, Feed, LineType
        <4>4. last = m
          BY <2>1, <2>6, <4>2, <4>3
        <4>5. page'.lines = q.lines
          <5>1. ~(l.seq < k0)
            BY <2>1, <4>2, <4>3
          <5> QED
            BY <1>5, <5>1 DEF k0
        <4> QED
          BY <4>1, <4>4, <4>5
      <3>3. CASE ~q.mixed /\ ~\E l \in q.lines : l.seq >= k0
        <4> DEFINE all == q.lines \cup {e.line}
        <4>1. page'.lines = Newest(all)
          BY <1>5, <3>3 DEF k0
        <4>2. (\A l \in q.lines : l.of = slot /\ l \in LineType) /\ Unbroken(q.lines, n, m)
          BY <2>8, <3>3 DEF Feed
        <4>3. e.line \in LineType /\ e.line.of = slot /\ e.line.seq = k0
          BY <1>2, <2>1 DEF RunLine, k0
        <4>4. all \in SUBSET LineType
          BY <4>2, <4>3
        <4>5. \A l \in all : l.of = slot /\ l.seq <= last
          <5> SUFFICES ASSUME NEW l \in all PROVE l.of = slot /\ l.seq <= last
            OBVIOUS
          <5>1. CASE l \in q.lines
            BY <2>6, <4>2, <5>1 DEF Unbroken, LineType
          <5>2. CASE l = e.line
            BY <2>6, <4>3, <5>2
          <5> QED
            BY <5>1, <5>2
        <4>6. ASSUME NEW k \in n + 1 .. last, k + Limit > last PROVE RunLine(slot, k) \in all
          <5>1. CASE k <= m
            <6>1. k \in n + 1 .. m /\ k + Limit > m
              BY <2>6, <4>6, <5>1, LimitAssumption
            <6> QED
              BY <4>2, <6>1 DEF Unbroken
          <5>2. CASE k > m
            <6>1. k = k0
              BY <2>6, <4>6, <5>2
            <6> QED
              BY <2>1, <6>1
          <5> QED
            BY <5>1, <5>2
        <4> HIDE DEF all
        <4>7. Unbroken(Newest(all), n, last)
          BY <1>0, <2>6, <4>4, <4>5, <4>6, Joined
        <4> QED
          BY <4>1, <4>7
      <3> QED
        BY <3>1, <3>2, <3>3
    <2>10. Lacks(n, last)'
      <3>1. page'.id = slot /\ n <= last
        BY <1>5, <2>4, <2>6, <2>8
      <3>2. CASE page'.mixed
        <4>1. n <= last /\ last <= record'.seq
          BY <1>0, <2>6, <3>1
        <4>2. page'.id = slot'
          BY <1>0, <3>1
        <4> QED
          BY <2>7, <3>2, <4>1, <4>2 DEF Lacks
      <3>3. CASE Unbroken(page'.lines, n, last)
        <4>1. Unbroken(page.lines, n, last)'
          BY <1>0, <3>3 DEF Unbroken
        <4> QED
          BY <1>0, <2>6, <2>7, <3>1, <4>1 DEF Lacks
      <3> QED
        BY <2>9, <3>2, <3>3
    <2> QED
      BY <1>5, <2>6, <2>8, <2>10 DEF Bridged
  <1> QED
    BY <1>7, <1>8, <1>9

\* An answer about the run in flight leaves the feed whole, if it is in time; another
\* takes nothing from a feed of the run in flight, unless it goes back to an earlier run.
LEMMA AppliedKeeps ==
  ASSUME Typed, HostIsOrdered, LinesAreNamed, Open,
         NEW i \in 1 .. Len(asks), Apply(i), NEW n \in Nat, Bridged(n)
  PROVE  /\ Backward(i) \/ Bridged(n)'
         /\ asks[i].running /\ asks[i].id = slot /\ asks[i].lines = LastLines(slot, n)
               => page'.id = slot /\ Bridged(0)'
  <1>0. /\ BrowserTyped /\ page \in PageState /\ asks[i] \in Snapshot /\ record.seq \in Nat
        /\ slot \in Run /\ slot # None
        /\ wire' = wire /\ slot' = slot /\ thread' = thread /\ record' = record
    <2>1. UNCHANGED <<slot, thread, record, wire>>
      BY DEF Apply, host
    <2> QED
      BY <2>1 DEF Typed, BrowserTyped, HostTyped, Open, Runs
  <1>1. asks[i].id \in Runs /\ KnownAnswer(asks[i]) /\ KnownPage
    BY <1>0 DEF Snapshot, LinesAreNamed
  <1>2. \A f : Coming(f) => Coming(f)'
    BY <1>0 DEF Coming, InHand
  <1>3. PICK m \in Nat : Lacks(n, m)
    BY DEF Bridged
  <1>4. n <= m /\ m <= record.seq /\ RestIsComing(m)
    BY <1>3 DEF Lacks
  <1>5. ASSUME NEW b \in Nat, NEW last \in Nat, b <= last, m <= last, last <= record.seq,
               page'.id = slot, page'.mixed \/ Unbroken(page'.lines, b, last)
        PROVE  Bridged(b)'
    <2>1. RestIsComing(last)'
      <3> SUFFICES ASSUME NEW k \in last + 1 .. record.seq
                   PROVE  Coming(Line(slot, RunLine(slot, k)))'
        BY <1>0 DEF RestIsComing
      <3>1. k \in m + 1 .. record.seq
        BY <1>0, <1>5
      <3>2. Coming(Line(slot, RunLine(slot, k)))
        BY <1>4, <3>1 DEF RestIsComing
      <3> QED
        BY <1>0, <1>2, <3>2
    <2>2. (page.mixed \/ Unbroken(page.lines, b, last))'
      BY <1>0, <1>5 DEF Unbroken
    <2>3. Lacks(b, last)'
      BY <1>0, <1>5, <2>1, <2>2 DEF Lacks
    <2> QED
      BY <1>5, <2>3 DEF Bridged
  <1>6. CASE asks[i].running /\ asks[i].id = slot
    <2>1. PICK k \in 0 .. record.seq : asks[i].lines = LastLines(slot, k)
      BY <1>1, <1>6 DEF KnownAnswer
    <2>2. PICK last \in Nat : last = IF k > m THEN k ELSE m
      BY <2>1
    <2>3. page'.id = slot /\ (page'.mixed \/ Unbroken(page'.lines, n, last))
      BY <1>1, <1>3, <1>6, <2>1, <2>2, AppliedFills
    <2>4. m <= last /\ n <= last /\ last <= record.seq
      BY <1>0, <1>4, <2>1, <2>2
    <2>5. Bridged(n)'
      BY <1>5, <2>3, <2>4
    <2>6. ASSUME asks[i].lines = LastLines(slot, n) PROVE Bridged(0)'
      <3>1. n <= record.seq /\ (IF n > m THEN n ELSE m) = m
        BY <1>0, <1>4
      <3>2. page'.mixed \/ Unbroken(page'.lines, 0, m)
        BY <1>1, <1>3, <1>6, <2>6, <3>1, AppliedFills
      <3> QED
        BY <1>4, <1>5, <2>3, <3>2
    <2> QED
      BY <2>3, <2>5, <2>6
  <1>7. CASE ~asks[i].running
    <2>1. page'.id = page.id /\ page'.lines = page.lines /\ page'.mixed = page.mixed
      BY <1>0, <1>7, AppliedPage
    <2>2. Bridged(n)'
      BY <1>0, <1>2, <2>1, BridgeStays
    <2> QED
      BY <1>7, <2>2
  <1>8. CASE asks[i].running /\ asks[i].id = None
    <2>1. Base(page, asks[i].id) = page
      BY <1>0, <1>1, <1>8, BaseTyped
    <2>2. /\ page'.id = page.id /\ page'.lines = Newest(page.lines \cup Unseen(page.lines, asks[i].lines))
          /\ page.mixed \/ Unseen(page.lines, asks[i].lines) # {} <=> page'.mixed
      BY <1>0, <1>8, <2>1, AppliedPage
    <2>3. CASE Unseen(page.lines, asks[i].lines) = {}
      <3>1. page'.lines = Newest(page.lines) /\ page.lines \in Feed
        BY <1>0, <2>2, <2>3 DEF PageState
      <3>2. page'.lines = page.lines
        BY <3>1, NewestOfFeed
      <3>3. page.mixed => page'.mixed
        BY <2>2
      <3>4. Bridged(n)'
        BY <1>0, <1>2, <2>2, <3>2, <3>3, BridgeStays
      <3> QED
        BY <1>0, <1>8, <3>4
    <2>4. CASE Unseen(page.lines, asks[i].lines) # {}
      <3>1. page'.mixed
        BY <2>2, <2>4
      <3>2. Bridged(n)'
        BY <1>0, <1>2, <2>2, <3>1, BridgeStays
      <3> QED
        BY <1>0, <1>8, <3>2
    <2> QED
      BY <2>3, <2>4
  <1>9. CASE asks[i].running /\ asks[i].id \notin {None, slot}
    <2>1. /\ page'.id = asks[i].id /\ Applied(i).id = asks[i].id
      <3>1. Base(page, asks[i].id).id = asks[i].id
        BY <1>0, <1>1, <1>9, BaseTyped
      <3>2. page'.id = asks[i].id
        BY <1>0, <1>9, <3>1, AppliedPage
      <3> QED
        BY <1>0, <3>2, ApplyTells
    <2>2. CASE page.id = slot
      <3>1. Begun(asks[i].id) /\ asks[i].id \in Run
        BY <1>1, <1>9 DEF KnownAnswer, Named, Runs
      <3>2. ~(slot < asks[i].id)
        BY <1>0, <3>1 DEF HostIsOrdered, Begun
      <3>3. asks[i].id < slot
        BY <1>0, <1>9, <3>1, <3>2, BoundsAssumption DEF Run
      <3> QED
        BY <1>9, <2>1, <2>2, <3>3 DEF Backward
    <2>3. CASE page.id # slot
      <3>1. Bridged(n)'
        BY <1>0, <1>2, <1>9, <2>1, <2>3, BridgeStays
      <3> QED
        BY <1>9, <3>1
    <2> QED
      BY <2>2, <2>3
  <1> QED
    BY <1>6, <1>7, <1>8, <1>9

LEMMA BrowserKeepsFeed ==
  ASSUME Typed, HostIsOrdered, LinesAreNamed, WireIsOrdered, FeedIsTold, BrowserStep
  PROVE  FeedIsTold'
  <1> SUFFICES ASSUME Open', ~Resync' PROVE FeedIsTold'
    BY DEF FeedIsTold
  <1>0. /\ BrowserTyped /\ HostTyped /\ Len(asks) \in Nat /\ Len(wire) \in Nat
        /\ record.seq \in Nat /\ asks \in Seq(Snapshot) /\ BrowserTyped'
    BY BrowserStaysTyped DEF Typed, BrowserTyped, HostTyped
  <1>1. /\ slot' = slot /\ thread' = thread /\ record' = record
        /\ Open /\ slot # None /\ link' = "on"
    <2>1. UNCHANGED host
      BY BrowserKeepsHost
    <2> QED
      BY <1>0, <2>1 DEF host, Open, Resync, BrowserTyped
  <1>2. \A e : InHand(e) => InHand(e)'
    BY <1>1 DEF InHand
  <1>3. CASE Ask
    <2>1. asks' # <<>> /\ asks'[Len(asks')].pc = "asked"
      BY <1>0, <1>3, AskedAgain, NewSnapshot
    <2> QED
      BY <2>1 DEF FeedIsTold, Fitting
  <1>4. CASE Connect
    <2>1. wire' = <<Status>> /\ page' = page
      BY <1>4 DEF Connect
    <2>2. wire'[1].type = "status" /\ 1 \in 1 .. Len(wire')
      BY <2>1 DEF Status
    <2>3. ~page'.loaded
      BY <2>2 DEF Resync
    <2>4. CASE asks = <<>>
      <3>1. asks' = <<>>
        BY <1>0, <1>4, <2>4, ConnectAges
      <3> QED
        BY <2>3, <3>1 DEF FeedIsTold
    <2>5. CASE asks # <<>>
      <3>1. Len(asks) \in 1 .. Len(asks) /\ Len(asks') = Len(asks) /\ asks' # <<>>
        BY <1>0, <1>4, <2>5, ConnectAges
      <3>2. asks'[Len(asks)].pc = "asked" \/ asks'[Len(asks)].old
        BY <1>0, <1>4, <3>1, ConnectAges
      <3> QED
        BY <3>1, <3>2 DEF FeedIsTold, Fitting
    <2> QED
      BY <2>4, <2>5
  <1>6. CASE \E i \in 1 .. Len(asks) : ReadFeed(i) \/ ReadRunning(i)
    <2>1. PICK i \in 1 .. Len(asks) : ReadFeed(i) \/ ReadRunning(i)
      BY <1>6
    <2>2. link' = link /\ wire' = wire /\ page' = page
      BY <2>1 DEF ReadFeed, ReadRunning, net
    <2>3. ~Resync
      BY <1>1, <2>2 DEF Resync, Coming, InHand
    <2>4. ASSUME NEW n \in Nat, Bridged(n) PROVE Bridged(n)'
      <3>1. \A e : Coming(e) => Coming(e)'
        BY <1>2, <2>2 DEF Coming
      <3> QED
        BY <1>0, <1>1, <2>2, <2>4, <3>1, BridgeStays
    <2>5. Len(asks') = Len(asks) /\ asks # <<>> /\ Len(asks) \in 1 .. Len(asks)
      BY <1>0, <2>1, AnsweredAt
    <2>6. ASSUME Fitting(asks[Len(asks)]) PROVE Fitting(asks[Len(asks)])'
      <3>1. CASE i # Len(asks)
        <4>1. asks'[Len(asks)] = asks[Len(asks)]
          BY <1>0, <2>1, <2>5, <3>1, AnsweredAt
        <4> QED
          BY <1>1, <2>4, <2>5, <2>6, <4>1 DEF Fitting
      <3>2. CASE i = Len(asks) /\ ReadFeed(i)
        <4>1. asks'[i].id = slot /\ asks'[i].pc = "read" /\ asks'[i].lines = record.lines
          BY <1>0, <1>1, <3>2, AnsweredAt DEF Open
        <4>2. record.lines = LastLines(slot, record.seq)
          BY <1>1 DEF HostIsOrdered
        <4>3. PICK n \in Nat : n = record.seq
          BY <1>0
        <4>4. ~page.mixed /\ page.id = slot => \A l \in page.lines : l.seq <= n
          BY <1>1, <4>3 DEF LinesAreNamed, KnownPage, Reported
        <4>5. RestIsComing(n)
          BY <1>0, <4>3 DEF RestIsComing
        <4>6. ~page.mixed /\ page.id = slot => Unbroken(page.lines, n, n)
          BY <4>4 DEF Unbroken
        <4>7. Lacks(n, n)
          BY <1>0, <4>3, <4>5, <4>6 DEF Lacks
        <4>8. Bridged(n)'
          BY <2>4, <4>7 DEF Bridged
        <4>9. asks'[i].lines = LastLines(slot', n)
          BY <1>1, <4>1, <4>2, <4>3
        <4> QED
          BY <1>1, <2>5, <3>2, <4>1, <4>3, <4>8, <4>9 DEF Fitting
      <3>3. CASE i = Len(asks) /\ ReadRunning(i)
        <4>1. /\ asks[i].pc = "read" /\ asks'[i].running
              /\ asks'[i].id = asks[i].id /\ asks'[i].lines = asks[i].lines
              /\ asks'[i].old = asks[i].old /\ asks'[i].behind = asks[i].behind
          BY <1>0, <1>1, <3>3, AnsweredAt
        <4> QED
          BY <1>1, <2>4, <2>5, <2>6, <3>3, <4>1 DEF Fitting
      <3> QED
        BY <2>1, <3>1, <3>2, <3>3
    <2>7. Fitting(asks[Len(asks)])
      BY <1>1, <2>3, <2>5 DEF FeedIsTold
    <2>8. asks' # <<>>
      BY <1>0, <2>5
    <2> QED
      BY <2>5, <2>6, <2>7, <2>8 DEF FeedIsTold
  <1>7. CASE \E i \in 1 .. Len(asks) : Apply(i)
    <2>1. PICK i \in 1 .. Len(asks) : Apply(i)
      BY <1>7
    <2>2. link' = link /\ wire' = wire /\ page'.loaded /\ asks[i].pc = "answered"
      BY <1>0, <2>1, ApplyTells DEF Apply, net
    <2>3. ~Resync
      BY <1>1, <2>2 DEF Resync, Coming, InHand
    <2>4. Fitting(asks[Len(asks)])
      BY <1>0, <1>1, <2>1, <2>3 DEF FeedIsTold
    <2>5. Len(asks') = Len(asks) - 1
      BY <1>0, <2>1, ApplyAges
    <2>6. CASE i < Len(asks)
      <3> DEFINE ask == asks[Len(asks)]
      <3>1. PICK j \in 1 .. Len(asks) - 1 : j + 1 = Len(asks) /\ ~(j < i)
        <4>1. /\ Len(asks) - 1 \in 1 .. Len(asks) - 1 /\ ~(Len(asks) - 1 < i)
              /\ (Len(asks) - 1) + 1 = Len(asks)
          BY <1>0, <2>6
        <4> QED
          BY <4>1
      <3>2. /\ asks'[j].pc = ask.pc /\ asks'[j].running = ask.running
            /\ asks'[j].id = ask.id /\ asks'[j].lines = ask.lines
            /\ asks'[j].old = (ask.old \/ Len(asks) < i)
            /\ ask.behind \/ (Backward(i) /\ ask.pc # "asked") => asks'[j].behind
        BY <1>0, <2>1, <3>1, ApplyAges
      <3>3. Fitting(asks[j])'
        <4>1. CASE ask.pc = "asked" \/ ask.old \/ ask.behind \/ Backward(i)
          BY <3>2, <4>1 DEF Fitting
        <4>2. CASE ~(ask.pc = "asked" \/ ask.old \/ ask.behind \/ Backward(i))
          <5>1. PICK n \in Nat : ask.lines = LastLines(slot, n) /\ Bridged(n)
            BY <2>4, <4>2 DEF Fitting
          <5>2. Bridged(n)'
            BY <1>1, <2>1, <4>2, <5>1, AppliedKeeps
          <5>3. ask.id = slot /\ (ask.pc = "answered" => ask.running)
            BY <2>4, <4>2 DEF Fitting
          <5> QED
            BY <1>1, <3>2, <5>1, <5>2, <5>3 DEF Fitting
        <4> QED
          BY <4>1, <4>2
      <3>4. asks' # <<>> /\ Len(asks') = j
        BY <1>0, <2>5, <3>1
      <3> QED
        BY <3>3, <3>4 DEF FeedIsTold
    <2>7. CASE i = Len(asks) /\ i > 1
      <3>1. i - 1 \in 1 .. Len(asks) - 1 /\ i - 1 < i
        BY <1>0, <2>7
      <3>2. asks'[i - 1].old
        BY <1>0, <2>1, <3>1, ApplyAges
      <3>3. asks' # <<>> /\ Len(asks') = i - 1
        BY <1>0, <2>5, <2>7
      <3> QED
        BY <3>2, <3>3 DEF FeedIsTold, Fitting
    <2>8. CASE i = Len(asks) /\ i = 1
      <3>1. asks' = <<>>
        BY <1>0, <2>5, <2>8 DEF BrowserTyped
      <3>2. Whole'
        <4>1. CASE asks[i].old \/ asks[i].behind
          <5>1. page'.torn
            BY <1>0, <2>1, <4>1, ApplyTells
          <5> QED
            BY <5>1 DEF Whole
        <4>2. CASE ~(asks[i].old \/ asks[i].behind)
          <5>1. asks[i].id = slot /\ asks[i].running
            BY <2>2, <2>4, <2>8, <4>2 DEF Fitting
          <5>2. PICK n \in Nat : asks[i].lines = LastLines(slot, n) /\ Bridged(n)
            BY <2>2, <2>4, <2>8, <4>2 DEF Fitting
          <5>3. page'.id = slot /\ Bridged(0)'
            BY <1>1, <2>1, <5>1, <5>2, AppliedKeeps
          <5> QED
            BY <1>1, <5>3 DEF Whole
        <4> QED
          BY <4>1, <4>2
      <3> QED
        BY <3>1, <3>2 DEF FeedIsTold
    <2> QED
      BY <1>0, <2>6, <2>7, <2>8
  <1>8. CASE OnLine \/ (OnStatus /\ ~page.loaded)
    <2> DEFINE e == Head(wire)
    <2>1. /\ e = wire[1] /\ 1 \in 1 .. Len(wire) /\ link = "on" /\ e.type \in {"line", "status"}
          /\ Len(wire') = Len(wire) - 1 /\ \A i \in 1 .. Len(wire) - 1 : wire'[i] = wire[i + 1]
      BY <1>0, <1>8, ArrivedTyped DEF OnLine, OnStatus
    <2>2. asks' = asks
      BY <1>8 DEF OnLine, OnStatus
    <2>3. /\ page'.loaded = page.loaded /\ page'.torn = page.torn
      BY <1>0, <1>8, LineIsAdded DEF OnStatus
    <2> HIDE DEF e
    <2>4. ASSUME NEW i \in 1 .. Len(wire), wire[i] # e
          PROVE  \E j \in 1 .. Len(wire') : wire'[j] = wire[i]
      <3>1. i - 1 \in 1 .. Len(wire) - 1 /\ (i - 1) + 1 = i
        BY <1>0, <2>1, <2>4
      <3>2. i - 1 \in 1 .. Len(wire') /\ wire'[i - 1] = wire[i]
        BY <2>1, <3>1
      <3> QED
        BY <3>2
    <2>5. ASSUME NEW f, Coming(f), f # e PROVE Coming(f)'
      BY <1>2, <2>4, <2>5 DEF Coming
    <2>6. ~Coming(Started(slot))
      <3>1. Started(slot) # e
        BY <2>1 DEF Started
      <3> QED
        BY <1>1, <2>5, <3>1 DEF Resync
    <2>7. ~Resync
      <3>1. ASSUME page.loaded, NEW i \in 1 .. Len(wire), wire[i].type = "status" PROVE FALSE
        <4>1. OnLine
          BY <1>8, <3>1
        <4>2. e.type = "line"
          BY <1>0, <4>1, ArrivedTyped DEF OnLine, e
        <4>3. wire[i] # e
          BY <3>1, <4>2
        <4> QED
          BY <2>3, <2>4, <3>1, <4>3 DEF Resync
      <3> QED
        BY <2>1, <2>6, <3>1 DEF Resync
    <2>8. ASSUME NEW n \in Nat, Bridged(n)
          PROVE  Bridged(n)' /\ (page.id = slot => page'.id = slot)
      <3>1. CASE OnLine
        BY <1>1, <2>6, <2>8, <3>1, LineFills
      <3>2. CASE OnStatus
        <4>1. page' = page /\ e.type = "status"
          BY <1>0, <3>2, ArrivedTyped DEF OnStatus, e
        <4>2. \A k \in Nat : Line(slot, RunLine(slot, k)) # e
          BY <4>1 DEF Line
        <4>3. \A k \in Nat : Coming(Line(slot, RunLine(slot, k)))
                                => Coming(Line(slot, RunLine(slot, k)))'
          BY <1>1, <2>5, <4>2
        <4>4. Bridged(n)'
          BY <1>0, <1>1, <2>8, <4>1, <4>3, BridgeStays
        <4> QED
          BY <4>1, <4>4
      <3> QED
        BY <1>8, <3>1, <3>2
    <2>9. CASE asks = <<>>
      <3>1. asks' = <<>> /\ (page.loaded => Whole)
        BY <1>1, <2>2, <2>7, <2>9 DEF FeedIsTold
      <3>2. page'.loaded => Whole'
        BY <1>1, <2>3, <2>8, <3>1 DEF Whole
      <3> QED
        BY <3>1, <3>2 DEF FeedIsTold
    <2>10. CASE asks # <<>>
      <3>1. Fitting(asks[Len(asks)])
        BY <1>1, <2>7, <2>10 DEF FeedIsTold
      <3>2. Fitting(asks[Len(asks)])'
        BY <1>1, <2>2, <2>8, <3>1 DEF Fitting
      <3> QED
        BY <2>2, <2>10, <3>2 DEF FeedIsTold
    <2> QED
      BY <2>9, <2>10
  <1>9. \/ Ask \/ Connect \/ link' = "off"
        \/ \E i \in 1 .. Len(asks) : ReadFeed(i) \/ ReadRunning(i)
        \/ \E i \in 1 .. Len(asks) : Apply(i)
        \/ OnLine \/ (OnStatus /\ ~page.loaded)
    BY DEF BrowserStep, Disconnect, Reload, AskFails, Refresh, OnStarted, OnFinished, OnStatus, net
  <1> QED
    BY <1>1, <1>3, <1>4, <1>6, <1>7, <1>8, <1>9

-----------------------------------------------------------------------------
(* The theorems *)

IndInv ==
    /\ Typed
    /\ SlotIsOwned /\ LinesAreOwned /\ RecordIsOneRun /\ PageIsTold
    /\ HostIsOrdered /\ LinesAreNamed /\ WireIsOrdered /\ FeedIsTold

LEMMA InitIndInv == Init => IndInv
  <1> SUFFICES ASSUME Init PROVE IndInv
    OBVIOUS
  <1>1. Typed
    BY InitTyped
  <1>2. SlotIsOwned /\ LinesAreOwned /\ RecordIsOneRun
    BY NoneIsNoRun DEF Init, SlotIsOwned, AtWork, Announces, Thread, NoRecord,
                       LinesAreOwned, RecordIsOneRun
  <1>3. PageIsTold
    BY DEF Init, NoPage, PageIsTold, Known
  <1>4. /\ \A r \in Run : thread[r].pc = "unborn"
        /\ slot = None /\ record.id = None /\ record.lines = {}
        /\ page.id = None /\ page.lines = {} /\ wire = <<>> /\ asks = <<>>
    BY DEF Init, Thread, NoRecord, NoPage
  <1>5. HostIsOrdered
    BY <1>4 DEF HostIsOrdered, Open, Announces
  <1>6. LinesAreNamed
    BY <1>4 DEF LinesAreNamed, Reported, Named, KnownPage
  <1>7. WireIsOrdered /\ FeedIsTold
    BY <1>4 DEF WireIsOrdered, FeedIsTold, Open
  <1> QED
    BY <1>1, <1>2, <1>3, <1>5, <1>6, <1>7 DEF IndInv

LEMMA NothingChanges ==
  ASSUME HostIsOrdered, LinesAreNamed, WireIsOrdered, FeedIsTold, UNCHANGED vars
  PROVE  HostIsOrdered' /\ LinesAreNamed' /\ WireIsOrdered' /\ FeedIsTold'
  <1>1. UNCHANGED <<slot, thread, record, link, wire, asks, page>>
    BY DEF vars, host, browser, net
  <1>2. HostIsOrdered'
    BY <1>1 DEF HostIsOrdered, Announces, Open, Begun
  <1>3. LinesAreNamed'
    <2>1. \A lines : Reported(lines) => Reported(lines)'
      BY <1>1 DEF Reported, Open, Begun
    <2>2. \A id, lines : Named(id, lines) => Named(id, lines)'
      BY <1>1 DEF Named, Begun
    <2>3. \A e : KnownEvent(e) => KnownEvent(e)'
      BY <1>1, <2>1, <2>2 DEF KnownEvent, Begun
    <2>4. \A ask : KnownAnswer(ask) => KnownAnswer(ask)'
      BY <1>1, <2>1, <2>2 DEF KnownAnswer, Open
    <2>5. KnownPage'
      BY <1>1, <2>1 DEF LinesAreNamed, KnownPage, Begun
    <2>6. Reported(record.lines)' /\ Named(record.id, record.lines)'
      BY <1>1, <2>1, <2>2 DEF LinesAreNamed
    <2> QED
      BY <1>1, <2>3, <2>4, <2>5, <2>6 DEF LinesAreNamed
  <1>4. WireIsOrdered'
    BY <1>1 DEF WireIsOrdered, OfSlot, InHand, Open
  <1>5. FeedIsTold'
    BY <1>1 DEF FeedIsTold, Open, Resync, Coming, InHand, Whole, Fitting, Bridged, Lacks,
                RestIsComing, Unbroken
  <1> QED
    BY <1>2, <1>3, <1>4, <1>5

LEMMA Inductive == IndInv /\ [Next]_vars => IndInv'
  <1> SUFFICES ASSUME IndInv, [Next]_vars PROVE IndInv'
    OBVIOUS
  <1>1. Typed /\ HostTyped /\ BrowserTyped
    BY DEF IndInv, Typed
  <1>2. Typed'
    BY <1>1, StaysTyped
  <1>3. CASE UNCHANGED vars
    <2>1. HostIsOrdered' /\ LinesAreNamed' /\ WireIsOrdered' /\ FeedIsTold'
      BY <1>3, NothingChanges DEF IndInv
    <2>2. SlotIsOwned' /\ LinesAreOwned' /\ RecordIsOneRun' /\ PageIsTold'
      BY <1>3 DEF IndInv, vars, host, browser, net, SlotIsOwned, AtWork, Announces,
         LinesAreOwned, RecordIsOneRun, PageIsTold, News, OnTheWay, Telling, Known, Truthful
    <2> QED
      BY <1>2, <2>1, <2>2 DEF IndInv
  <1>4. CASE \E r \in Run : HostStep(r)
    <2>1. PICK r \in Run : HostStep(r)
      BY <1>4
    <2>2. SlotIsOwned' /\ LinesAreOwned' /\ RecordIsOneRun' /\ PageIsTold'
      BY <1>1, <2>1, SlotStaysOwned, LinesStayOwned, HostTells DEF IndInv
    <2>3. HostIsOrdered' /\ LinesAreNamed'
      BY <1>1, <2>1, StaysOrdered, HostNames DEF IndInv
    <2>4. WireIsOrdered' /\ FeedIsTold'
      BY <1>1, <2>1, HostKeepsOrder, HostKeepsFeed DEF IndInv
    <2> QED
      BY <1>2, <2>2, <2>3, <2>4 DEF IndInv
  <1>5. CASE BrowserStep
    <2>1. SlotIsOwned' /\ LinesAreOwned' /\ RecordIsOneRun'
      BY <1>5, BrowserKeepsHost DEF IndInv, host, SlotIsOwned, AtWork, Announces,
         LinesAreOwned, RecordIsOneRun
    <2>2. PageIsTold'
      BY <1>1, <1>5, BrowserIsTold DEF IndInv
    <2>3. HostIsOrdered'
      BY <1>5, BrowserKeepsHost DEF IndInv, host, HostIsOrdered, Open, Begun, Announces
    <2>4. LinesAreNamed' /\ WireIsOrdered' /\ FeedIsTold'
      BY <1>1, <1>5, BrowserNames, BrowserKeepsOrder, BrowserKeepsFeed DEF IndInv
    <2> QED
      BY <1>2, <2>1, <2>2, <2>3, <2>4 DEF IndInv
  <1> QED
    BY <1>1, <1>3, <1>4, <1>5, StepSplits

\* The inductive invariant holds in every reachable state: who owns the slot and
\* the lines of the record, what is on its way and in which order, what a page may
\* still not have been told, and which lines its feed may still lack.
THEOREM Invariance == Spec => []IndInv
  BY InitIndInv, Inductive, PTL DEF Spec

\* Type correctness; the feeds of host and page are bounded by Limit.
THEOREM TypeCorrect == Spec => []TypeOK
  <1>1. ASSUME IndInv PROVE TypeOK
    <2>1. HostTyped /\ BrowserTyped /\ SlotIsOwned
      BY <1>1 DEF IndInv, Typed
    <2>2. /\ slot \in Run \cup {None}
          /\ \A r \in Run : thread[r].pc \in {"unborn", "claimed", "emitting", "working",
                                              "released", "over"}
          /\ record.id \in Run \cup {None} /\ record.seq \in Nat
      BY <2>1 DEF HostTyped, ThreadState, Runs
    <2>3. \A r \in Run : /\ slot = r => thread[r].pc \in {"claimed", "emitting", "working"}
                         /\ thread[r].pc \in {"claimed", "working"} => slot = r
      BY <2>1 DEF SlotIsOwned, AtWork, Announces
    <2>4. record.lines \in Feed /\ page.lines \in Feed
      BY <2>1 DEF HostTyped, BrowserTyped, PageState
    <2>5. \A lines \in {record.lines, page.lines} :
             lines \subseteq LineType /\ Cardinality(lines) <= Limit
      BY <2>4 DEF Feed
    <2> QED
      BY <2>1, <2>2, <2>3, <2>5 DEF TypeOK, BrowserTyped
  <1> QED
    BY <1>1, Invariance, PTL

\* What the host keeps of a run, and leaves behind as the last run, is one run's.
THEOREM LinesAreOneRuns == Spec => []RecordIsOneRun
  <1>1. IndInv => RecordIsOneRun
    BY DEF IndInv
  <1> QED
    BY <1>1, Invariance, PTL

\* A page that has heard everything shows a run exactly when there is one.
THEOREM PageTellsTruth == Spec => []RunningIsTruth
  <1>1. ASSUME IndInv PROVE RunningIsTruth
    <2> SUFFICES ASSUME Settled, ~page.stale PROVE page.running <=> slot # None
      BY DEF RunningIsTruth
    <2>1. PageIsTold
      BY <1>1 DEF IndInv
    <2>2. ~News
      <3>1. wire = <<>> /\ Len(wire) = 0 /\ link = "on"
        BY DEF Settled
      <3>2. ~OnTheWay
        BY <3>1 DEF OnTheWay
      <3>3. \A r \in Run : ~Telling(r)
        BY DEF Settled, Telling
      <3> QED
        BY <3>1, <3>2, <3>3 DEF News
    <2> QED
      BY <2>1, <2>2 DEF PageIsTold, Known, Settled
  <1> QED
    BY <1>1, Invariance, PTL

\* A page that has heard everything has the lines of the run in flight that the host
\* keeps, all of them and no other: none was lost on the way from run_activity, or
\* between the snapshot and the events, whatever was cut, reloaded or late.
THEOREM PageHasWholeFeed == Spec => []FeedIsWhole
  <1>1. ASSUME IndInv PROVE FeedIsWhole
    <2> SUFFICES ASSUME Settled, ~page.torn, ~page.mixed, slot # None, record.id = slot
                 PROVE  page.lines = record.lines /\ \A l \in page.lines : l.of = slot
      BY DEF FeedIsWhole
    <2>1. Open /\ HostTyped /\ BrowserTyped /\ HostIsOrdered /\ KnownPage /\ FeedIsTold
      BY <1>1 DEF IndInv, Typed, Open, LinesAreNamed
    <2>2. slot \in Run /\ record.seq \in Nat /\ page.lines \in Feed
      BY <2>1 DEF HostTyped, BrowserTyped, PageState, Runs
    <2>3. wire = <<>> /\ Len(wire) = 0 /\ link = "on" /\ asks = <<>> /\ page.loaded
      BY DEF Settled
    <2>4. \A e : ~Coming(e)
      BY <2>2, <2>3 DEF Coming, InHand, Settled
    <2>5. ~Resync
      BY <2>3, <2>4 DEF Resync
    <2>6. page.id = slot /\ Bridged(0)
      BY <2>1, <2>3, <2>5 DEF FeedIsTold, Whole
    <2>7. PICK m \in Nat : Lacks(0, m)
      BY <2>6 DEF Bridged
    <2>8. m = record.seq
      <3>1. m <= record.seq /\ RestIsComing(m)
        BY <2>7 DEF Lacks
      <3>2. m + 1 \notin m + 1 .. record.seq
        BY <2>4, <3>1 DEF RestIsComing
      <3> QED
        BY <2>2, <3>1, <3>2
    <2>9. Unbroken(page.lines, 0, m)
      BY <2>6, <2>7 DEF Lacks
    <2>10. \A l \in page.lines : l.of = slot
      BY <2>1, <2>6 DEF KnownPage
    <2>11. page.lines = LastLines(slot, m)
      <3>1. \A l \in page.lines : l.of = slot /\ l.seq <= m
        BY <2>9, <2>10 DEF Unbroken
      <3>2. \A k \in 1 .. m : k + Limit > m => RunLine(slot, k) \in page.lines
        BY <2>9 DEF Unbroken
      <3> QED
        BY <2>2, <3>1, <3>2, FullFeed
    <2>12. record.lines = LastLines(slot, record.seq)
      BY <2>1 DEF HostIsOrdered
    <2> QED
      BY <2>8, <2>10, <2>11, <2>12
  <1> QED
    BY <1>1, Invariance, PTL

=============================================================================
