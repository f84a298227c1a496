--------------------------- MODULE BatchRunProofs ---------------------------
(***************************************************************************)
(* Proofs about BatchRun, for any number of callers, rows, runners and     *)
(* tracks.                                                                 *)
(*                                                                         *)
(* The walk and the calls share the queue.  QueuesAreSound says of every   *)
(* copy of it that it names a row once and names no row the service has    *)
(* not handed out, so a row that joins is new to the walk; WalkIsSound     *)
(* keeps the walk's positions inside its copy.  On these rest the walk's   *)
(* history (RanIsBehind), its end (EndIsReached) and its books             *)
(* (PassedIsBooked).                                                       *)
(***************************************************************************)
EXTENDS BatchRun, FiniteSetTheorems, SequenceTheorems, TLAPS

\* A copy of the queue names a row once, and none of those that are left to hand out.
Listed(s, left) ==
    /\ \A i, j \in 1 .. Len(s) : s[i] = s[j] => i = j
    /\ \A i \in 1 .. Len(s) : s[i] \notin left

QueuesAreSound ==
    /\ Listed(batch, unused) /\ Listed(run.ref.rows, unused)
    /\ \A k \in Callers : Listed(caller[k].ref.rows, unused)

\* A control, a skip and a start name the runner they are for, a skip its row too.
CallsAreSound ==
    \A k \in Callers :
        /\ caller[k].pc \in {"interrupt", "armed", "pause", "resume", "cancel"}
              => caller[k].by \in Runner
        /\ caller[k].pc = "interrupt" => caller[k].row \in Row

AtRow   == {"row", "resolve", "tracks", "fetch"}
InTracks == {"tracks", "fetch"}

\* A run record of the right type whose total covers the rows it counted.
Booked(rec) == rec \in RunType /\ rec.total >= Cardinality(rec.counted)

WalkIsSound ==
    /\ run.pc = "off" => ~run.edited /\ run.late = 0 /\ \A row \in Row : run.ran[row] = 0
    /\ run.index <= Len(queue) + 1
    /\ run.pc \in AtRow => run.index <= Len(queue)
    /\ run.seen <= Len(queue)
    /\ run.counted \cap unused = {}
    /\ Booked(run)
    /\ run.pc \notin InTracks => run.left = 0
    /\ run.pc = "fetch" => run.left > 0

\* Work settled after a cancel leaves the walk on its way out.
LateIsTheLast ==
    /\ run.late <= 1
    /\ run.late > 0 => me \in cancelled /\ run.pc \in {"loop", "tracks", "finish"}

Passed == {queue[i] : i \in 1 .. Here - 1}

\* A row has been run at most once, and then the walk is past it or on it.
RanIsBehind ==
    ~run.edited =>
        \A row \in Row :
            /\ run.ran[row] <= 1
            /\ run.ran[row] = 1 /\ run.pc # "finish" =>
                  row \in Passed \/ (run.pc = "resolve" /\ row = Current)

EndIsReached ==
    ~run.edited /\ run.pc = "finish" /\ me \notin cancelled /\ ~run.fatal => Outstanding = {}

\* Every row the walk is past is counted, paid without being counted, or barren; no
\* row ahead is in the books.
PassedIsBooked ==
    Running /\ ~run.edited =>
        /\ run.unpaid \subseteq Passed /\ run.barren \subseteq Passed
        /\ run.unpaid \cap run.barren = {}
        /\ Passed \subseteq run.counted \cup run.unpaid \cup run.barren

IndInv ==
    /\ TypeOK /\ QueuesAreSound /\ CallsAreSound /\ WalkIsSound
    /\ LateIsTheLast /\ NothingGivenUpSilently
    /\ RanIsBehind /\ EndIsReached
    /\ PassedIsBooked /\ TotalIsAccounted

-----------------------------------------------------------------------------
(* Sets of rows and their sizes *)

LEMMA RowsAreFinite ==
  ASSUME NEW S \in SUBSET Row
  PROVE  IsFiniteSet(S) /\ Cardinality(S) \in Nat
  <1>1. IsFiniteSet(S)
    BY RowAssumption, FS_Subset
  <1> QED
    BY <1>1, FS_CardinalityType

LEMMA OneMore ==
  ASSUME NEW S \in SUBSET Row, NEW x \in Row, x \notin S
  PROVE  Cardinality(S \cup {x}) = Cardinality(S) + 1
  BY RowsAreFinite, FS_AddElement

LEMMA OneLess ==
  ASSUME NEW S \in SUBSET Row, NEW x \in S
  PROVE  Cardinality(S \ {x}) = Cardinality(S) - 1 /\ Cardinality(S) > 0
  <1>1. IsFiniteSet(S) /\ Cardinality(S) \in Nat
    BY RowsAreFinite
  <1>2. Cardinality(S) # 0
    BY <1>1, FS_EmptySet
  <1>3. Cardinality(S \ {x}) = IF x \in S THEN Cardinality(S) - 1 ELSE Cardinality(S)
    BY <1>1, FS_RemoveElement
  <1> QED
    BY <1>1, <1>2, <1>3

LEMMA SizesAdd ==
  ASSUME NEW S \in SUBSET Row, NEW T \in SUBSET Row, S \cap T = {}
  PROVE  Cardinality(S \cup T) = Cardinality(S) + Cardinality(T)
  <1>1. /\ IsFiniteSet(S) /\ Cardinality(S) \in Nat
        /\ IsFiniteSet(T) /\ Cardinality(T) \in Nat
    BY RowsAreFinite
  <1>2. Cardinality(S \cap T) = 0
    BY FS_EmptySet
  <1>3. Cardinality(S \cup T) = Cardinality(S) + Cardinality(T) - Cardinality(S \cap T)
    BY <1>1, FS_Union
  <1> QED
    BY <1>1, <1>2, <1>3

-----------------------------------------------------------------------------
(* Copies of the queue *)

LEMMA ListedStays ==
  ASSUME NEW s, NEW left, NEW fewer \in SUBSET left, Listed(s, left)
  PROVE  Listed(s, fewer)
  BY DEF Listed

\* A copy that lost a row, or had two of them swapped, is one still.
LEMMA RemovedIsListed ==
  ASSUME NEW s \in Seq(Row), NEW i \in 1 .. Len(s), NEW left, Listed(s, left)
  PROVE  RemoveAt(s, i) \in Seq(Row) /\ Listed(RemoveAt(s, i), left)
  <1> DEFINE r == RemoveAt(s, i)
  <1>1. /\ r \in Seq(Row)
        /\ Len(r) = Len(s) - 1
        /\ \A j \in 1 .. Len(r) : r[j] = IF j < i THEN s[j] ELSE s[j + 1]
    <2> DEFINE a == SubSeq(s, 1, i - 1)
               b == SubSeq(s, i + 1, Len(s))
    <2>1. Len(s) \in Nat /\ \A j \in 1 .. Len(s) : s[j] \in Row
      OBVIOUS
    <2>2. /\ a \in Seq(Row) /\ Len(a) = i - 1
          /\ \A j \in 1 .. i - 1 : a[j] = s[j]
      BY <2>1, SubSeqProperties
    <2>3. /\ b \in Seq(Row) /\ Len(b) = Len(s) - i
          /\ \A j \in 1 .. Len(s) - i : b[j] = s[i + j]
      BY <2>1, SubSeqProperties
    <2>4. r = a \o b
      BY DEF RemoveAt
    <2> HIDE DEF a, b, r
    <2>5. /\ a \o b \in Seq(Row)
          /\ Len(a \o b) = Len(a) + Len(b)
          /\ \A j \in 1 .. Len(a) + Len(b) :
                (a \o b)[j] = IF j <= Len(a) THEN a[j] ELSE b[j - Len(a)]
      BY <2>2, <2>3, ConcatProperties
    <2>6. \A j \in 1 .. Len(s) - 1 : r[j] = IF j < i THEN s[j] ELSE s[j + 1]
      BY <2>1, <2>2, <2>3, <2>4, <2>5
    <2>7. Len(a) + Len(b) = Len(s) - 1
      BY <2>1, <2>2, <2>3
    <2>8. r \in Seq(Row) /\ Len(r) = Len(s) - 1
      BY <2>4, <2>5, <2>7
    <2> QED
      BY <2>6, <2>8
  <1> HIDE DEF r
  <1>2. Len(s) \in Nat
    OBVIOUS
  <1>3. Listed(r, left)
    <2> DEFINE old(j) == IF j < i THEN j ELSE j + 1
    <2>0. \A j \in 1 .. Len(r) : old(j) \in 1 .. Len(s) /\ r[j] = s[old(j)]
      BY <1>1, <1>2
    <2>1. ASSUME NEW j \in 1 .. Len(r), NEW k \in 1 .. Len(r), r[j] = r[k]
          PROVE  j = k
      <3>1. old(j) = old(k)
        BY <2>0, <2>1 DEF Listed
      <3> QED
        BY <3>1, <1>1, <1>2
    <2>2. ASSUME NEW j \in 1 .. Len(r)
          PROVE  r[j] \notin left
      BY <2>0, <2>2 DEF Listed
    <2> QED
      BY <2>1, <2>2 DEF Listed
  <1> QED
    BY <1>1, <1>3 DEF r

LEMMA SwappedIsListed ==
  ASSUME NEW s \in Seq(Row), NEW i \in 1 .. Len(s) - 1, NEW left, Listed(s, left)
  PROVE  LET t == [s EXCEPT ![i] = s[i + 1], ![i + 1] = s[i]]
         IN  t \in Seq(Row) /\ Len(t) = Len(s) /\ Listed(t, left)
  <1> DEFINE t == [s EXCEPT ![i] = s[i + 1], ![i + 1] = s[i]]
  <1>1. /\ t \in Seq(Row) /\ Len(t) = Len(s)
        /\ t[i] = s[i + 1] /\ t[i + 1] = s[i]
        /\ \A j \in 1 .. Len(s) : j # i /\ j # i + 1 => t[j] = s[j]
    OBVIOUS
  <1> HIDE DEF t
  <1>2. Listed(t, left)
    BY <1>1 DEF Listed
  <1> QED
    BY <1>1, <1>2 DEF t

\* A row that has not been handed out is new to every copy.
LEMMA AppendedIsListed ==
  ASSUME NEW s \in Seq(Row), NEW left \in SUBSET Row, NEW row \in left, Listed(s, left)
  PROVE  /\ Append(s, row) \in Seq(Row) /\ Len(Append(s, row)) = Len(s) + 1
         /\ \A j \in 1 .. Len(s) : Append(s, row)[j] = s[j]
         /\ Append(s, row)[Len(s) + 1] = row
         /\ Listed(Append(s, row), left \ {row})
  <1> DEFINE r == Append(s, row)
  <1>1. /\ r \in Seq(Row) /\ Len(r) = Len(s) + 1
        /\ \A j \in 1 .. Len(s) : r[j] = s[j]
        /\ r[Len(s) + 1] = row
    OBVIOUS
  <1> HIDE DEF r
  <1>2. Len(s) \in Nat /\ \A j \in 1 .. Len(s) : s[j] # row /\ s[j] \notin left
    BY DEF Listed
  <1>3. \A j, k \in 1 .. Len(s) + 1 : r[j] = r[k] => j = k
    BY <1>1, <1>2 DEF Listed
  <1>4. \A j \in 1 .. Len(s) + 1 : r[j] \notin left \ {row}
    BY <1>1, <1>2
  <1>5. Listed(r, left \ {row})
    BY <1>1, <1>3, <1>4 DEF Listed
  <1> QED
    BY <1>1, <1>5 DEF r

-----------------------------------------------------------------------------
(* The run's record *)

LEMMA ZeroIsLeft == 0 \in 0 .. MaxTracks
  BY MaxTracksAssumption

\* A record whose fields change stays one, whatever the values.
LEMMA PcChanges ==
  ASSUME NEW rec \in RunType, NEW pc \in RunPc
  PROVE  [rec EXCEPT !.pc = pc] \in RunType
  BY DEF RunType

LEMMA SeenChanges ==
  ASSUME NEW rec \in RunType, NEW pc \in RunPc, NEW n \in Nat
  PROVE  [rec EXCEPT !.pc = pc, !.seen = n] \in RunType
  BY DEF RunType

LEMMA RowChanges ==
  ASSUME NEW rec \in RunType, NEW pc \in RunPc, NEW i \in Nat \ {0}, NEW l \in 0 .. MaxTracks
  PROVE  [rec EXCEPT !.pc = pc, !.index = i, !.left = l] \in RunType
  BY DEF RunType

LEMMA LeftChanges ==
  ASSUME NEW rec \in RunType, NEW pc \in RunPc, NEW l \in 0 .. MaxTracks
  PROVE  [rec EXCEPT !.pc = pc, !.left = l] \in RunType
  BY DEF RunType

LEMMA TracksChange ==
  ASSUME NEW rec \in RunType, NEW pc \in RunPc, NEW l \in 0 .. MaxTracks, NEW t \in Nat
  PROVE  [rec EXCEPT !.pc = pc, !.left = l, !.total = t] \in RunType
  BY DEF RunType

LEMMA CountChanges ==
  ASSUME NEW rec \in RunType, NEW S \in SUBSET Row, NEW t \in Nat
  PROVE  [rec EXCEPT !.counted = S, !.total = t] \in RunType
  BY DEF RunType

LEMMA BarrenChanges ==
  ASSUME NEW rec \in RunType, NEW S \in SUBSET Row, NEW t \in Nat, NEW T \in SUBSET Row
  PROVE  [rec EXCEPT !.counted = S, !.total = t, !.barren = T] \in RunType
  BY DEF RunType

LEMMA UnpaidChanges ==
  ASSUME NEW rec \in RunType, NEW S \in SUBSET Row
  PROVE  [rec EXCEPT !.unpaid = S] \in RunType
  BY DEF RunType

LEMMA WorkIsBooked ==
  ASSUME NEW rec \in RunType, NEW m \in Nat, NEW n \in Nat
  PROVE  [rec EXCEPT !.done = m, !.late = n] \in RunType
  BY DEF RunType

LEMMA WorkIsDropped ==
  ASSUME NEW rec \in RunType, NEW n \in Nat, NEW l \in 0 .. MaxTracks
  PROVE  [rec EXCEPT !.dropped = n, !.left = l] \in RunType
  BY DEF RunType

LEMMA NoRunYetIsBooked == Booked(NoRunYet)
  <1>1. NoRunYet \in RunType
    BY ZeroIsLeft DEF NoRunYet, RunType, RunPc, RefType, Live
  <1>2. NoRunYet.total = 0 /\ NoRunYet.counted = {}
    BY DEF NoRunYet
  <1> QED
    BY <1>1, <1>2, FS_EmptySet DEF Booked

\* What each operation does to the record, field by field.
LEMMA AdmitBooks ==
  ASSUME NEW rec, Booked(rec), NEW rows \in SUBSET Row
  PROVE  LET new == rows \ (skippedRow \cup rec.counted)
         IN  /\ Booked(Admit(rec, rows))
             /\ Admit(rec, rows) = [rec EXCEPT !.counted = rec.counted \cup new,
                                               !.total = rec.total + Cardinality(new)]
  <1> DEFINE new == rows \ (skippedRow \cup rec.counted)
  <1>1. rec \in RunType /\ rec.counted \in SUBSET Row /\ new \in SUBSET Row /\ new \cap rec.counted = {}
    BY DEF Booked, RunType
  <1>2. Cardinality(new) \in Nat
    BY <1>1, RowsAreFinite
  <1>3. Cardinality(rec.counted \cup new) = Cardinality(rec.counted) + Cardinality(new)
    BY <1>1, SizesAdd
  <1>4. Admit(rec, rows) = [rec EXCEPT !.counted = rec.counted \cup new,
                                       !.total = rec.total + Cardinality(new)]
    BY DEF Admit
  <1>5. Cardinality(rec.counted) \in Nat /\ rec.total \in Nat
    BY <1>1, RowsAreFinite DEF RunType
  <1>6. rec.total + Cardinality(new) \in Nat /\ rec.counted \cup new \in SUBSET Row
    BY <1>1, <1>2, <1>5
  <1>7. Admit(rec, rows) \in RunType
    <2> DEFINE c == rec.counted \cup new
               t == rec.total + Cardinality(new)
    <2> HIDE DEF c, t
    <2>1. c \in SUBSET Row /\ t \in Nat
      BY <1>6 DEF c, t
    <2>2. [rec EXCEPT !.counted = c, !.total = t] \in RunType
      BY <1>1, <2>1, CountChanges
    <2> QED
      BY <1>4, <2>2 DEF c, t
  <1>8. /\ Admit(rec, rows).counted = rec.counted \cup new
        /\ Admit(rec, rows).total = rec.total + Cardinality(new)
    BY <1>1, <1>4 DEF RunType
  <1> QED
    BY <1>2, <1>3, <1>4, <1>5, <1>7, <1>8 DEF Booked

LEMMA BarrenBooks ==
  ASSUME NEW rec, Booked(rec), NEW row \in Row
  PROVE  /\ Booked(Barren(rec, row))
         /\ Barren(rec, row) =
              [rec EXCEPT !.counted = rec.counted \ {row},
                          !.total = IF row \in rec.counted THEN rec.total - 1 ELSE rec.total,
                          !.barren = rec.barren \cup {row}]
  <1> DEFINE new == Barren(rec, row)
  <1>1. rec \in RunType /\ rec.counted \in SUBSET Row /\ rec.total \in Nat
    BY DEF Booked, RunType
  <1>2. Cardinality(rec.counted) \in Nat
    BY <1>1, RowsAreFinite
  <1>3. CASE row \in rec.counted
    <2>1. Cardinality(rec.counted \ {row}) = Cardinality(rec.counted) - 1 /\ Cardinality(rec.counted) > 0
      BY <1>1, <1>3, OneLess
    <2>2. new = [rec EXCEPT !.counted = rec.counted \ {row}, !.total = rec.total - 1,
                            !.barren = rec.barren \cup {row}]
      BY <1>1, <1>3 DEF Barren, Withdraw, RunType
    <2>3. rec.total - 1 \in Nat
      BY <1>1, <1>2, <2>1 DEF Booked
    <2>4. rec.counted \ {row} \in SUBSET Row /\ rec.barren \cup {row} \in SUBSET Row
      BY <1>1 DEF RunType
    <2>5. new \in RunType
      <3> DEFINE c == rec.counted \ {row}
                 t == rec.total - 1
                 b == rec.barren \cup {row}
      <3> HIDE DEF c, t, b
      <3>1. c \in SUBSET Row /\ t \in Nat /\ b \in SUBSET Row
        BY <2>3, <2>4 DEF c, t, b
      <3>2. [rec EXCEPT !.counted = c, !.total = t, !.barren = b] \in RunType
        BY <1>1, <3>1, BarrenChanges
      <3> QED
        BY <2>2, <3>2 DEF c, t, b
    <2>6. new.total = rec.total - 1 /\ new.counted = rec.counted \ {row}
      BY <1>1, <2>2 DEF RunType
    <2> QED
      BY <1>1, <1>2, <1>3, <2>1, <2>2, <2>5, <2>6 DEF Booked
  <1>4. CASE row \notin rec.counted
    <2>1. rec.counted \ {row} = rec.counted
      BY <1>4
    <2>2. new = [rec EXCEPT !.counted = rec.counted \ {row}, !.total = rec.total,
                            !.barren = rec.barren \cup {row}]
      BY <1>1, <1>4, <2>1 DEF Barren, Withdraw, RunType
    <2>3. rec.barren \cup {row} \in SUBSET Row
      BY <1>1 DEF RunType
    <2>4. new \in RunType
      <3> DEFINE c == rec.counted \ {row}
                 b == rec.barren \cup {row}
      <3> HIDE DEF c, b
      <3>1. c \in SUBSET Row /\ b \in SUBSET Row
        BY <1>1, <2>1, <2>3 DEF c, b
      <3>2. [rec EXCEPT !.counted = c, !.total = rec.total, !.barren = b] \in RunType
        BY <1>1, <3>1, BarrenChanges
      <3> QED
        BY <2>2, <3>2 DEF c, b
    <2>5. new.total = rec.total /\ new.counted = rec.counted
      BY <1>1, <2>1, <2>2 DEF RunType
    <2> QED
      BY <1>4, <2>2, <2>4, <2>5 DEF Booked
  <1> QED
    BY <1>3, <1>4

LEMMA PaidBooks ==
  ASSUME NEW rec, Booked(rec), NEW row \in Row
  PROVE  /\ Booked(Paid(rec, row))
         /\ Paid(rec, row) = [rec EXCEPT !.unpaid = rec.unpaid \cup ({row} \ rec.counted)]
  <1>1. rec \in RunType /\ rec.unpaid \cup ({row} \ rec.counted) \in SUBSET Row
    BY DEF Booked, RunType
  <1>2. Paid(rec, row) = [rec EXCEPT !.unpaid = rec.unpaid \cup ({row} \ rec.counted)]
    BY DEF Paid
  <1>3. Paid(rec, row) \in RunType
    BY <1>1, <1>2, UnpaidChanges
  <1>4. Paid(rec, row).total = rec.total /\ Paid(rec, row).counted = rec.counted
    BY <1>1, <1>2 DEF RunType
  <1> QED
    BY <1>2, <1>3, <1>4 DEF Booked

LEMMA SettledBooks ==
  ASSUME NEW rec, Booked(rec)
  PROVE  LET n == IF me \in cancelled THEN 1 ELSE 0
         IN  /\ Booked(Settled(rec))
             /\ Settled(rec) = [rec EXCEPT !.done = rec.done + 1, !.late = rec.late + n]
  <1> DEFINE n == IF me \in cancelled THEN 1 ELSE 0
  <1>1. rec \in RunType /\ rec.done + 1 \in Nat /\ rec.late + n \in Nat
    BY DEF Booked, RunType
  <1>2. Settled(rec) = [rec EXCEPT !.done = rec.done + 1, !.late = rec.late + n]
    BY DEF Settled
  <1> HIDE DEF n
  <1>3. Settled(rec) \in RunType
    <2>1. rec.done + 1 \in Nat /\ rec.late + n \in Nat
      BY <1>1
    <2>2. [rec EXCEPT !.done = rec.done + 1, !.late = rec.late + n] \in RunType
      BY <1>1, <2>1 DEF RunType
    <2> QED
      BY <1>2, <2>2
  <1>4. Settled(rec).total = rec.total /\ Settled(rec).counted = rec.counted
    BY <1>1, <1>2 DEF RunType
  <1> QED
    BY <1>2, <1>3, <1>4 DEF Booked, n

LEMMA GiveUpBooks ==
  ASSUME NEW rec, Booked(rec)
  PROVE  /\ Booked(GiveUp(rec))
         /\ GiveUp(rec) = [rec EXCEPT !.dropped = rec.dropped + rec.left, !.left = 0]
  <1>1. rec \in RunType /\ rec.dropped + rec.left \in Nat
    BY MaxTracksAssumption DEF Booked, RunType
  <1>2. GiveUp(rec) = [rec EXCEPT !.dropped = rec.dropped + rec.left, !.left = 0]
    BY DEF GiveUp
  <1>3. GiveUp(rec) \in RunType
    BY <1>1, <1>2, ZeroIsLeft, WorkIsDropped
  <1>4. GiveUp(rec).total = rec.total /\ GiveUp(rec).counted = rec.counted
    BY <1>1, <1>2 DEF RunType
  <1> QED
    BY <1>2, <1>3, <1>4 DEF Booked

LEMMA NextRowBooks ==
  ASSUME NEW rec, Booked(rec)
  PROVE  /\ Booked(NextRow(rec))
         /\ NextRow(rec) = [rec EXCEPT !.pc = "loop", !.index = rec.index + 1, !.left = 0]
  <1>1. rec \in RunType /\ rec.index + 1 \in Nat \ {0} /\ "loop" \in RunPc
    BY DEF Booked, RunType, RunPc
  <1>2. NextRow(rec) = [rec EXCEPT !.pc = "loop", !.index = rec.index + 1, !.left = 0]
    BY DEF NextRow
  <1>3. NextRow(rec) \in RunType
    <2> DEFINE i == rec.index + 1
    <2> HIDE DEF i
    <2>1. i \in Nat \ {0}
      BY <1>1 DEF i
    <2>2. [rec EXCEPT !.pc = "loop", !.index = i, !.left = 0] \in RunType
      BY <1>1, <2>1, ZeroIsLeft, RowChanges
    <2> QED
      BY <1>2, <2>2 DEF i
  <1>4. NextRow(rec).total = rec.total /\ NextRow(rec).counted = rec.counted
    BY <1>1, <1>2 DEF RunType
  <1> QED
    BY <1>2, <1>3, <1>4 DEF Booked

-----------------------------------------------------------------------------
(* What a step of the walk does to the record *)

Uncounted == {queue[i] : i \in run.seen + 1 .. Len(queue)} \ (skippedRow \cup run.counted)
JustLate  == IF me \in cancelled THEN 1 ELSE 0

Looped ==
    /\ run.pc = "loop"
    /\ run' = [run EXCEPT !.pc = IF me \in cancelled THEN "finish" ELSE "admit"]
Admitted ==
    /\ run.pc = "admit"
    /\ run' = [run EXCEPT !.counted = run.counted \cup Uncounted,
                          !.total = run.total + Cardinality(Uncounted),
                          !.pc = "check", !.seen = Len(queue)]
Checked ==
    /\ run.pc = "check"
    /\ run' = [run EXCEPT !.pc = IF run.index > Len(queue) THEN "finish" ELSE "row"]
PassedOver ==
    /\ run.pc \in {"row", "resolve"}
    /\ run' = [run EXCEPT !.counted = run.counted \ {Current},
                          !.total = IF Current \in run.counted THEN run.total - 1 ELSE run.total,
                          !.barren = run.barren \cup {Current},
                          !.pc = "loop", !.index = run.index + 1, !.left = 0]
Begun ==
    /\ run.pc = "row"
    /\ run' = [run EXCEPT !.pc = "resolve", !.ran[Current] = run.ran[Current] + 1]
Failed ==
    /\ run.pc = "resolve"
    /\ run' = [run EXCEPT !.unpaid = run.unpaid \cup ({Current} \ run.counted),
                          !.done = run.done + 1, !.late = run.late + JustLate,
                          !.pc = "loop", !.index = run.index + 1, !.left = 0]
Expanded ==
    /\ run.pc = "resolve"
    /\ \E n \in 1 .. MaxTracks :
         LET new == {Current} \ (skippedRow \cup run.counted)
             counted == run.counted \cup new
         IN  run' = [run EXCEPT !.counted = counted,
                                !.unpaid = run.unpaid \cup ({Current} \ counted),
                                !.pc = "tracks", !.left = n,
                                !.total = run.total + Cardinality(new) + n - 1]
Walked ==
    /\ run.pc = "tracks" /\ run.left = 0
    /\ run' = [run EXCEPT !.pc = "loop", !.index = run.index + 1, !.left = 0]
GivenUp ==
    /\ run.pc \in InTracks
    /\ me \in cancelled \/ Skips(Current)
    /\ run' = [run EXCEPT !.dropped = run.dropped + run.left,
                          !.pc = "loop", !.index = run.index + 1, !.left = 0]
Fetches ==
    /\ run.pc = "tracks" /\ run.left # 0 /\ me \notin cancelled
    /\ run' = [run EXCEPT !.pc = "fetch"]
Settles ==
    /\ run.pc = "fetch"
    /\ run' = [run EXCEPT !.done = run.done + 1, !.late = run.late + JustLate,
                          !.pc = "tracks", !.left = run.left - 1]
Raised ==
    /\ run.pc \in AtRow
    /\ run' = [run EXCEPT !.dropped = run.dropped + run.left, !.left = 0,
                          !.pc = "finish", !.fatal = TRUE,
                          !.index = IF run.pc \in InTracks THEN run.index + 1 ELSE run.index]

LEMMA QueueType ==
  ASSUME TypeOK
  PROVE  queue \in Seq(Row) /\ Len(queue) \in Nat
  BY DEF TypeOK, RunType, RefType, queue, Rows

LEMMA CurrentIsRow ==
  ASSUME TypeOK, WalkIsSound, run.pc \in AtRow
  PROVE  run.index \in 1 .. Len(queue) /\ Current \in Row
  BY QueueType DEF WalkIsSound, TypeOK, RunType, Current

LEMMA RowBehind ==
  ASSUME NEW rec, Booked(rec), NEW row \in Row
  PROVE  /\ Booked(NextRow(Barren(rec, row)))
         /\ NextRow(Barren(rec, row)) =
              [rec EXCEPT !.counted = rec.counted \ {row},
                          !.total = IF row \in rec.counted THEN rec.total - 1 ELSE rec.total,
                          !.barren = rec.barren \cup {row},
                          !.pc = "loop", !.index = rec.index + 1, !.left = 0]
  <1> DEFINE b == Barren(rec, row)
  <1>1. /\ Booked(b)
        /\ b = [rec EXCEPT !.counted = rec.counted \ {row},
                           !.total = IF row \in rec.counted THEN rec.total - 1 ELSE rec.total,
                           !.barren = rec.barren \cup {row}]
    BY BarrenBooks
  <1> HIDE DEF b
  <1>2. /\ Booked(NextRow(b))
        /\ NextRow(b) = [b EXCEPT !.pc = "loop", !.index = b.index + 1, !.left = 0]
    BY <1>1, NextRowBooks
  <1>3. rec \in RunType /\ b.index = rec.index
    BY <1>1 DEF Booked, RunType
  <1>4. NextRow(b) =
          [rec EXCEPT !.counted = rec.counted \ {row},
                      !.total = IF row \in rec.counted THEN rec.total - 1 ELSE rec.total,
                      !.barren = rec.barren \cup {row},
                      !.pc = "loop", !.index = rec.index + 1, !.left = 0]
    BY <1>1, <1>2, <1>3 DEF RunType
  <1> QED
    BY <1>2, <1>4 DEF b

LEMMA RowFailed ==
  ASSUME NEW rec, Booked(rec), NEW row \in Row
  PROVE  /\ Booked(NextRow(Settled(Paid(rec, row))))
         /\ NextRow(Settled(Paid(rec, row))) =
              [rec EXCEPT !.unpaid = rec.unpaid \cup ({row} \ rec.counted),
                          !.done = rec.done + 1, !.late = rec.late + JustLate,
                          !.pc = "loop", !.index = rec.index + 1, !.left = 0]
  <1> DEFINE p == Paid(rec, row)
             s == Settled(p)
  <1>1. Booked(p) /\ p = [rec EXCEPT !.unpaid = rec.unpaid \cup ({row} \ rec.counted)]
    BY PaidBooks
  <1> HIDE DEF p
  <1>2. Booked(s) /\ s = [p EXCEPT !.done = p.done + 1, !.late = p.late + JustLate]
    BY <1>1, SettledBooks DEF JustLate
  <1> HIDE DEF s
  <1>3. /\ Booked(NextRow(s))
        /\ NextRow(s) = [s EXCEPT !.pc = "loop", !.index = s.index + 1, !.left = 0]
    BY <1>2, NextRowBooks
  <1>4. rec \in RunType /\ p.done = rec.done /\ p.late = rec.late /\ s.index = rec.index
    BY <1>1, <1>2 DEF Booked, RunType
  <1>5. NextRow(s) =
          [rec EXCEPT !.unpaid = rec.unpaid \cup ({row} \ rec.counted),
                      !.done = rec.done + 1, !.late = rec.late + JustLate,
                      !.pc = "loop", !.index = rec.index + 1, !.left = 0]
    BY <1>1, <1>2, <1>3, <1>4 DEF RunType
  <1> QED
    BY <1>3, <1>5 DEF p, s

LEMMA RowGivenUp ==
  ASSUME NEW rec, Booked(rec)
  PROVE  /\ Booked(NextRow(GiveUp(rec)))
         /\ NextRow(GiveUp(rec)) =
              [rec EXCEPT !.dropped = rec.dropped + rec.left,
                          !.pc = "loop", !.index = rec.index + 1, !.left = 0]
  <1> DEFINE g == GiveUp(rec)
  <1>1. Booked(g) /\ g = [rec EXCEPT !.dropped = rec.dropped + rec.left, !.left = 0]
    BY GiveUpBooks
  <1> HIDE DEF g
  <1>2. /\ Booked(NextRow(g))
        /\ NextRow(g) = [g EXCEPT !.pc = "loop", !.index = g.index + 1, !.left = 0]
    BY <1>1, NextRowBooks
  <1>3. rec \in RunType /\ g.index = rec.index
    BY <1>1 DEF Booked, RunType
  <1>4. NextRow(g) = [rec EXCEPT !.dropped = rec.dropped + rec.left,
                                 !.pc = "loop", !.index = rec.index + 1, !.left = 0]
    BY <1>1, <1>2, <1>3 DEF RunType
  <1> QED
    BY <1>2, <1>4 DEF g

LEMMA RowExpanded ==
  ASSUME NEW rec, Booked(rec), NEW row \in Row
  PROVE  LET new == {row} \ (skippedRow \cup rec.counted)
             counted == rec.counted \cup new
         IN  /\ Booked(Paid(Admit(rec, {row}), row))
             /\ Paid(Admit(rec, {row}), row) =
                  [rec EXCEPT !.counted = counted, !.total = rec.total + Cardinality(new),
                              !.unpaid = rec.unpaid \cup ({row} \ counted)]
  <1> DEFINE new == {row} \ (skippedRow \cup rec.counted)
             a == Admit(rec, {row})
  <1>1. /\ Booked(a)
        /\ a = [rec EXCEPT !.counted = rec.counted \cup new,
                           !.total = rec.total + Cardinality(new)]
    BY AdmitBooks
  <1> HIDE DEF a, new
  <1>2. Booked(Paid(a, row)) /\ Paid(a, row) = [a EXCEPT !.unpaid = a.unpaid \cup ({row} \ a.counted)]
    BY <1>1, PaidBooks
  <1>3. rec \in RunType /\ a.unpaid = rec.unpaid /\ a.counted = rec.counted \cup new
    BY <1>1 DEF Booked, RunType
  <1>4. Paid(a, row) =
          [rec EXCEPT !.counted = rec.counted \cup new, !.total = rec.total + Cardinality(new),
                      !.unpaid = rec.unpaid \cup ({row} \ (rec.counted \cup new))]
    BY <1>1, <1>2, <1>3 DEF RunType
  <1> QED
    BY <1>2, <1>4 DEF a, new

\* Each action of the walk has one of these shapes, and leaves the books in order.
LEMMA WalkShape ==
  ASSUME TypeOK, WalkIsSound, Walk \/ Fatal, ~Finish
  PROVE  /\ Booked(run') /\ run'.pc # "off" /\ run.pc # "off"
         /\ UNCHANGED <<queueVars, batchRunner, slot, controls, caller>>
         /\ \/ Looped \/ Admitted \/ Checked \/ PassedOver \/ Begun \/ Failed \/ Expanded
            \/ Walked \/ GivenUp \/ Fetches \/ Settles \/ Raised
  <1> DEFINE Frame == UNCHANGED <<queueVars, batchRunner, slot, controls, caller>>
  <1>0. Booked(run) /\ run \in RunType /\ run.total >= Cardinality(run.counted)
    BY DEF WalkIsSound, Booked
  <1>1. CASE Loop
    <2> DEFINE pc == IF me \in cancelled THEN "finish" ELSE "admit"
    <2>1. Looped /\ Frame
      BY <1>1 DEF Loop, Step, Looped
    <2>2. pc \in RunPc /\ pc # "off" /\ run' = [run EXCEPT !.pc = pc]
      BY <2>1 DEF Looped, RunPc
    <2>3. run' \in RunType /\ run'.pc = pc /\ run'.total = run.total /\ run'.counted = run.counted
      BY <1>0, <2>2, PcChanges DEF RunType
    <2> QED
      BY <1>0, <1>1, <2>1, <2>2, <2>3 DEF Booked, Loop
  <1>2. CASE AdmitRows
    <2> DEFINE unseen == {queue[i] : i \in run.seen + 1 .. Len(queue)}
               a == Admit(run, unseen)
    <2>1. unseen \in SUBSET Row
      BY <1>0, QueueType DEF RunType
    <2>2. /\ Booked(a)
          /\ a = [run EXCEPT !.counted = run.counted \cup Uncounted,
                             !.total = run.total + Cardinality(Uncounted)]
      BY <1>0, <2>1, AdmitBooks DEF Uncounted
    <2>3. run' = [a EXCEPT !.pc = "check", !.seen = Len(queue)] /\ Frame
      BY <1>2 DEF AdmitRows, Step
    <2> HIDE DEF a
    <2>4. "check" \in RunPc /\ Len(queue) \in Nat
      BY QueueType DEF RunPc
    <2>5. run' \in RunType
      BY <2>2, <2>3, <2>4, SeenChanges DEF Booked
    <2>6. run'.pc = "check" /\ run'.total = a.total /\ run'.counted = a.counted
      BY <2>2, <2>3 DEF Booked, RunType
    <2>7. Admitted
      BY <1>0, <1>2, <2>2, <2>3 DEF Admitted, AdmitRows, RunType
    <2> QED
      BY <1>2, <2>2, <2>3, <2>5, <2>6, <2>7 DEF Booked, AdmitRows
  <1>3. CASE Check
    <2> DEFINE pc == IF run.index > Len(queue) THEN "finish" ELSE "row"
    <2>1. Checked /\ Frame
      BY <1>3 DEF Check, Step, Checked
    <2>2. pc \in RunPc /\ pc # "off" /\ run' = [run EXCEPT !.pc = pc]
      BY <2>1 DEF Checked, RunPc
    <2>3. run' \in RunType /\ run'.pc = pc /\ run'.total = run.total /\ run'.counted = run.counted
      BY <1>0, <2>2, PcChanges DEF RunType
    <2> QED
      BY <1>0, <1>3, <2>1, <2>2, <2>3 DEF Booked, Check
  <1>4. CASE StartRow
    <2>1. run.pc \in AtRow /\ Current \in Row
      BY <1>4, CurrentIsRow DEF StartRow, AtRow
    <2>2. CASE Step(NextRow(Barren(run, Current)))
      <3>1. PassedOver /\ Booked(run') /\ Frame
        BY <1>0, <1>4, <2>1, <2>2, RowBehind DEF PassedOver, Step, StartRow
      <3>2. run'.pc = "loop"
        BY <1>0, <3>1 DEF PassedOver, RunType
      <3> QED
        BY <1>4, <3>1, <3>2 DEF StartRow
    <2>3. CASE Step([run EXCEPT !.pc = "resolve", !.ran[Current] = @ + 1])
      <3>1. Begun /\ Frame
        BY <1>0, <1>4, <2>3 DEF Begun, Step, StartRow, RunType
      <3>2. run.ran \in [Row -> Nat] /\ run.ran[Current] + 1 \in Nat
        BY <1>0, <2>1 DEF RunType
      <3> DEFINE f == [run.ran EXCEPT ![Current] = run.ran[Current] + 1]
      <3>3. f \in [Row -> Nat]
        BY <3>2
      <3>4. run' = [run EXCEPT !.pc = "resolve", !.ran = f]
        BY <1>0, <3>1 DEF Begun, RunType
      <3> HIDE DEF f
      <3>5. run' \in RunType
        BY <1>0, <3>3, <3>4 DEF RunType, RunPc
      <3>6. run'.pc = "resolve" /\ run'.total = run.total /\ run'.counted = run.counted
        BY <1>0, <3>4 DEF RunType
      <3> QED
        BY <1>0, <1>4, <3>1, <3>5, <3>6 DEF Booked, StartRow
    <2> QED
      BY <1>4, <2>2, <2>3 DEF StartRow
  <1>5. CASE ResolveFailed
    <2>1. run.pc \in AtRow /\ Current \in Row
      BY <1>5, CurrentIsRow DEF ResolveFailed, AtRow
    <2>2. Failed /\ Booked(run') /\ Frame
      BY <1>0, <1>5, <2>1, RowFailed DEF Failed, Step, ResolveFailed
    <2>3. run'.pc = "loop"
      BY <1>0, <2>2 DEF Failed, RunType
    <2> QED
      BY <1>5, <2>2, <2>3 DEF ResolveFailed
  <1>6. CASE ResolveEmpty
    <2>1. run.pc \in AtRow /\ Current \in Row
      BY <1>6, CurrentIsRow DEF ResolveEmpty, AtRow
    <2>2. PassedOver /\ Booked(run') /\ Frame
      BY <1>0, <1>6, <2>1, RowBehind DEF PassedOver, Step, ResolveEmpty
    <2>3. run'.pc = "loop"
      BY <1>0, <2>2 DEF PassedOver, RunType
    <2> QED
      BY <1>6, <2>2, <2>3 DEF ResolveEmpty
  <1>7. CASE ResolveTracks
    <2>1. run.pc \in AtRow /\ Current \in Row
      BY <1>7, CurrentIsRow DEF ResolveTracks, AtRow
    <2> DEFINE p == Paid(Admit(run, {Current}), Current)
               new == {Current} \ (skippedRow \cup run.counted)
               counted == run.counted \cup new
    <2>2. PICK n \in 1 .. MaxTracks :
             Step([p EXCEPT !.pc = "tracks", !.left = n, !.total = @ + n - 1])
      BY <1>7 DEF ResolveTracks
    <2>3. /\ Booked(p)
          /\ p = [run EXCEPT !.counted = counted, !.total = run.total + Cardinality(new),
                             !.unpaid = run.unpaid \cup ({Current} \ counted)]
      BY <1>0, <2>1, RowExpanded
    <2> HIDE DEF p
    <2> DEFINE t == p.total + n - 1
    <2>4. run' = [p EXCEPT !.pc = "tracks", !.left = n, !.total = t] /\ Frame
      BY <2>2, <2>3 DEF Step, Booked, RunType
    <2>5. t \in Nat /\ t >= p.total
      <3>1. p \in RunType
        BY <2>3 DEF Booked
      <3>2. p.total \in Nat
        BY <3>1 DEF RunType
      <3>3. n \in Nat /\ n >= 1
        BY MaxTracksAssumption
      <3> QED
        BY <3>2, <3>3
    <2>6. t = run.total + Cardinality(new) + n - 1
      BY <1>0, <2>3 DEF RunType
    <2> HIDE DEF t
    <2>7. n \in 0 .. MaxTracks /\ "tracks" \in RunPc
      BY MaxTracksAssumption DEF RunPc
    <2>8. run' \in RunType
      BY <2>3, <2>4, <2>5, <2>7, TracksChange DEF Booked
    <2>9. run'.pc = "tracks" /\ run'.total = t /\ run'.counted = p.counted
      BY <2>3, <2>4 DEF Booked, RunType
    <2>10. p.counted \in SUBSET Row /\ p.total \in Nat /\ p.total >= Cardinality(p.counted)
      BY <2>3 DEF Booked, RunType
    <2>11. Booked(run')
      BY <2>5, <2>8, <2>9, <2>10, RowsAreFinite DEF Booked
    <2>12. run' = [run EXCEPT !.counted = counted,
                              !.unpaid = run.unpaid \cup ({Current} \ counted),
                              !.pc = "tracks", !.left = n, !.total = t]
      BY <1>0, <2>3, <2>4 DEF RunType
    <2>13. Expanded
      BY <1>7, <2>6, <2>12 DEF Expanded, ResolveTracks
    <2> QED
      BY <1>7, <2>4, <2>9, <2>11, <2>13 DEF ResolveTracks
  <1>8. CASE NextTrack
    <2>1. CASE run.left = 0
      <3>1. run' = NextRow(run) /\ Frame
        BY <1>8, <2>1 DEF NextTrack, Step
      <3>2. Walked /\ Booked(run')
        BY <1>0, <1>8, <2>1, <3>1, NextRowBooks DEF Walked, NextTrack
      <3>3. run'.pc = "loop"
        BY <1>0, <3>2 DEF Walked, RunType
      <3> QED
        BY <1>8, <3>1, <3>2, <3>3 DEF NextTrack
    <2>2. CASE run.left # 0 /\ (me \in cancelled \/ Skips(Current))
      <3>1. run' = NextRow(GiveUp(run)) /\ Frame
        BY <1>8, <2>2 DEF NextTrack, Step
      <3>2. GivenUp /\ Booked(run')
        BY <1>0, <1>8, <2>2, <3>1, RowGivenUp DEF GivenUp, InTracks, NextTrack
      <3>3. run'.pc = "loop"
        BY <1>0, <3>2 DEF GivenUp, RunType
      <3> QED
        BY <1>8, <3>1, <3>2, <3>3 DEF NextTrack
    <2>3. CASE run.left # 0 /\ ~(me \in cancelled \/ Skips(Current))
      <3>1. run' = [run EXCEPT !.pc = "fetch"] /\ Frame
        BY <1>8, <2>3 DEF NextTrack, Step
      <3>2. Fetches
        BY <1>8, <2>3, <3>1 DEF Fetches, NextTrack
      <3>3. "fetch" \in RunPc
        BY DEF RunPc
      <3>4. run' \in RunType
        BY <1>0, <3>1, <3>3, PcChanges
      <3>5. run'.pc = "fetch" /\ run'.total = run.total /\ run'.counted = run.counted
        BY <1>0, <3>1 DEF RunType
      <3> QED
        BY <1>0, <1>8, <3>1, <3>2, <3>4, <3>5 DEF Booked, NextTrack
    <2> QED
      BY <2>1, <2>2, <2>3
  <1>9. CASE TrackInterrupted
    <2>1. run' = NextRow(GiveUp(run)) /\ Frame
      BY <1>9 DEF TrackInterrupted, Step
    <2>2. GivenUp /\ Booked(run')
      BY <1>0, <1>9, <2>1, RowGivenUp DEF GivenUp, InTracks, TrackInterrupted
    <2>3. run'.pc = "loop"
      BY <1>0, <2>2 DEF GivenUp, RunType
    <2> QED
      BY <1>9, <2>1, <2>2, <2>3 DEF TrackInterrupted
  <1>10. CASE TrackSettled
    <2> DEFINE s == Settled(run)
               l == s.left - 1
    <2>1. Booked(s) /\ s = [run EXCEPT !.done = run.done + 1, !.late = run.late + JustLate]
      BY <1>0, SettledBooks DEF JustLate
    <2> HIDE DEF s
    <2>2. run' = [s EXCEPT !.pc = "tracks", !.left = l] /\ Frame
      BY <1>10, <2>1 DEF TrackSettled, Step, s, Booked, RunType
    <2>3. s.left = run.left /\ run.left > 0 /\ run.left \in 0 .. MaxTracks
      BY <1>0, <1>10, <2>1 DEF RunType, WalkIsSound, TrackSettled
    <2>4. l \in 0 .. MaxTracks /\ l = run.left - 1 /\ "tracks" \in RunPc
      BY <2>3, MaxTracksAssumption DEF RunPc
    <2> HIDE DEF l
    <2>5. run' \in RunType
      BY <2>1, <2>2, <2>4, LeftChanges DEF Booked
    <2>6. run'.pc = "tracks" /\ run'.total = s.total /\ run'.counted = s.counted
      BY <2>1, <2>2 DEF Booked, RunType
    <2>7. run' = [run EXCEPT !.done = run.done + 1, !.late = run.late + JustLate,
                             !.pc = "tracks", !.left = l]
      BY <1>0, <2>1, <2>2 DEF RunType
    <2>8. Settles
      BY <1>10, <2>4, <2>7 DEF Settles, TrackSettled
    <2> QED
      BY <1>10, <2>1, <2>2, <2>5, <2>6, <2>8 DEF Booked, TrackSettled
  <1>11. CASE Fatal
    <2> DEFINE g == GiveUp(run)
               i == IF run.pc \in InTracks THEN run.index + 1 ELSE run.index
    <2>1. Booked(g) /\ g = [run EXCEPT !.dropped = run.dropped + run.left, !.left = 0]
      BY <1>0, GiveUpBooks
    <2> HIDE DEF g
    <2>2. run' = [g EXCEPT !.pc = "finish", !.fatal = TRUE, !.index = i] /\ Frame
      BY <1>0, <1>11, <2>1 DEF Fatal, Step, g, RunType, InTracks
    <2>3. i \in Nat \ {0} /\ "finish" \in RunPc
      BY <1>0 DEF RunType, RunPc
    <2> HIDE DEF i
    <2>4. run' \in RunType
      BY <2>1, <2>2, <2>3 DEF Booked, RunType
    <2>5. run'.pc = "finish" /\ run'.total = g.total /\ run'.counted = g.counted
      BY <2>1, <2>2 DEF Booked, RunType
    <2>6. run' = [run EXCEPT !.dropped = run.dropped + run.left, !.left = 0,
                             !.pc = "finish", !.fatal = TRUE, !.index = i]
      BY <1>0, <2>1, <2>2 DEF RunType
    <2>7. Raised /\ run.pc # "off"
      BY <1>11, <2>6 DEF Raised, Fatal, AtRow, i
    <2> QED
      BY <2>1, <2>2, <2>4, <2>5, <2>7 DEF Booked
  <1> QED
    BY <1>1, <1>2, <1>3, <1>4, <1>5, <1>6, <1>7, <1>8, <1>9, <1>10, <1>11 DEF Walk

-----------------------------------------------------------------------------
(* Types *)

\* A call's record after it returned, moved on, or lost the live queue.
LEMMA IdleType == Idle \in CallType
  BY DEF Idle, CallType, CallPc, RefType, Live

LEMMA CallMovesType ==
  ASSUME TypeOK, NEW c \in Callers, NEW rec \in CallType, Set(c, rec)
  PROVE  caller' \in [Callers -> CallType]
  BY DEF Set, TypeOK

LEMMA GotoType ==
  ASSUME TypeOK, NEW c \in Callers, NEW label \in CallPc, Goto(c, label)
  PROVE  caller' \in [Callers -> CallType]
  <1>1. [Idle EXCEPT !.pc = label] \in CallType
    BY IdleType DEF CallType
  <1> QED
    BY <1>1, CallMovesType DEF Goto

LEMMA ReturnType ==
  ASSUME TypeOK, NEW c \in Callers, Return(c)
  PROVE  caller' \in [Callers -> CallType]
  BY IdleType, CallMovesType DEF Return

LEMMA DetachType ==
  ASSUME TypeOK, NEW ref \in RefType
  PROVE  Detach(ref) \in RefType
  BY DEF Detach, RefType, TypeOK

LEMMA RebindType ==
  ASSUME TypeOK, NEW c \in Callers, Rebind(c)
  PROVE  /\ caller' \in [Callers -> CallType]
         /\ run' = [run EXCEPT !.ref = Detach(run.ref), !.edited = Running]
         /\ run' \in RunType /\ run'.pc = run.pc
  <1>1. caller' \in [Callers -> CallType]
    <2>1. ASSUME NEW d \in Callers
          PROVE  [caller[d] EXCEPT !.ref = Detach(@)] \in CallType
      <3>1. caller[d] \in CallType /\ caller[d].ref \in RefType
        BY DEF TypeOK, CallType
      <3>2. Detach(caller[d].ref) \in RefType
        BY <3>1, DetachType
      <3>3. [caller[d] EXCEPT !.ref = Detach(@)] = [caller[d] EXCEPT !.ref = Detach(caller[d].ref)]
        BY <3>1 DEF CallType
      <3> QED
        BY <3>1, <3>2, <3>3 DEF CallType
    <2>2. caller' = [d \in Callers |-> IF d = c THEN Idle
                        ELSE [caller[d] EXCEPT !.ref = Detach(@)]]
      BY DEF Rebind
    <2> QED
      BY <2>1, <2>2, IdleType
  <1>2. run \in RunType /\ run.ref \in RefType
    BY DEF TypeOK, RunType
  <1>3. Detach(run.ref) \in RefType
    BY <1>2, DetachType
  <1>4. run' = [run EXCEPT !.ref = Detach(run.ref), !.edited = Running]
    BY <1>2 DEF Rebind, RunType
  <1>5. Running \in BOOLEAN
    BY DEF Running
  <1>6. run' \in RunType /\ run'.pc = run.pc
    BY <1>2, <1>3, <1>4, <1>5 DEF RunType
  <1> QED
    BY <1>1, <1>4, <1>6

\* What the calls on the queue do to the types ...
LEMMA TypeQueue ==
  ASSUME TypeOK, QueuesAreSound, NEW c \in Callers,
         \/ BatchAdd(c)
         \/ \E label \in {"remove", "clear", "move"} : QueueIdle(c, label)
         \/ BatchRemove(c) \/ BatchClear(c) \/ BatchMove(c)
  PROVE  TypeOK'
  <1> USE DEF queueVars, controls
  <1>1. CASE BatchAdd(c)
    <2>1. PICK row \in unused : batch' = Append(batch, row) /\ unused' = unused \ {row}
      BY <1>1 DEF BatchAdd
    <2>2. batch' \in Seq(Row) /\ unused' \subseteq Row
      BY <2>1 DEF TypeOK
    <2> QED
      BY <1>1, <2>2 DEF BatchAdd, TypeOK, Running
  <1>2. ASSUME NEW label \in {"remove", "clear", "move"}, QueueIdle(c, label)
        PROVE  TypeOK'
    <2>1. caller' \in [Callers -> CallType]
      BY <1>2, GotoType DEF QueueIdle, CallPc
    <2> QED
      BY <1>2, <2>1 DEF QueueIdle, TypeOK, Running
  <1>3. CASE BatchRemove(c)
    <2>1. CASE \E i \in 1 .. Len(batch) : batch' = RemoveAt(batch, i) /\ Rebind(c)
      <3>1. PICK i \in 1 .. Len(batch) : batch' = RemoveAt(batch, i) /\ Rebind(c)
        BY <2>1
      <3>2. batch' \in Seq(Row)
        BY <3>1, RemovedIsListed DEF TypeOK, QueuesAreSound
      <3> QED
        BY <1>3, <3>1, <3>2, RebindType DEF BatchRemove, TypeOK, Running
    <2>2. CASE Return(c) /\ UNCHANGED <<batch, run>>
      BY <1>3, <2>2, ReturnType DEF BatchRemove, TypeOK, Running
    <2> QED
      BY <1>3, <2>1, <2>2 DEF BatchRemove
  <1>4. CASE BatchClear(c)
    BY <1>4, RebindType DEF BatchClear, TypeOK, Running
  <1>5. CASE BatchMove(c)
    <2>1. batch' \in Seq(Row) /\ run' \in RunType /\ run'.pc = run.pc
      <3>1. CASE UNCHANGED <<batch, run>>
        BY <3>1 DEF TypeOK
      <3>2. CASE \E i \in 1 .. Len(batch) - 1 :
                    /\ batch' = [batch EXCEPT ![i] = batch[i + 1], ![i + 1] = batch[i]]
                    /\ run' = [run EXCEPT !.edited = Running]
        <4>1. PICK i \in 1 .. Len(batch) - 1 :
                    /\ batch' = [batch EXCEPT ![i] = batch[i + 1], ![i + 1] = batch[i]]
                    /\ run' = [run EXCEPT !.edited = Running]
          BY <3>2
        <4>2. batch' \in Seq(Row)
          BY <4>1, SwappedIsListed DEF TypeOK, QueuesAreSound
        <4>3. Running \in BOOLEAN
          BY DEF Running
        <4>4. run' \in RunType /\ run'.pc = run.pc
          BY <4>1, <4>3 DEF TypeOK, RunType
        <4> QED
          BY <4>2, <4>4
      <3> QED
        BY <1>5, <3>1, <3>2 DEF BatchMove
    <2>2. caller' \in [Callers -> CallType]
      BY <1>5, ReturnType DEF BatchMove
    <2> QED
      BY <1>5, <2>1, <2>2 DEF BatchMove, TypeOK, Running
  <1> QED
    BY <1>1, <1>2, <1>3, <1>4, <1>5

\* ... the skips, the start and the controls ...
LEMMA TypeControls ==
  ASSUME TypeOK, CallsAreSound, NEW c \in Callers,
         \/ SkipCheck(c) \/ SkipMark(c) \/ SkipRow(c)
         \/ StartCapture(c) \/ StartArm(c) \/ StartClaim(c)
         \/ \E label \in {"pause", "resume", "cancel"} : ControlCheck(c, label)
         \/ Pause(c) \/ Resume(c) \/ Cancel(c)
  PROVE  TypeOK'
  <1> USE DEF queueVars, controls
  <1>0. caller[c] \in CallType
    BY DEF TypeOK
  <1>1. CASE SkipCheck(c)
    <2> DEFINE rec == [Idle EXCEPT !.pc = "skip",
                                   !.by = IF Running THEN batchRunner ELSE NoRunner]
    <2>1. rec \in CallType
      BY IdleType DEF CallType, CallPc, TypeOK
    <2>2. caller' \in [Callers -> CallType]
      BY <1>1, <2>1, CallMovesType DEF SkipCheck
    <2> QED
      BY <1>1, <2>2 DEF SkipCheck, TypeOK, Running
  <1>2. CASE SkipMark(c)
    <2>1. CASE Return(c) /\ UNCHANGED skippedRow
      BY <1>2, <2>1, ReturnType DEF SkipMark, TypeOK, Running
    <2>2. ASSUME NEW row \in ToSet(batch),
                 skippedRow' = IF caller[c].by = NoRunner /\ row \in skippedRow
                               THEN skippedRow \ {row} ELSE skippedRow \cup {row},
                 IF caller[c].by = NoRunner THEN Return(c)
                 ELSE Set(c, [caller[c] EXCEPT !.pc = "interrupt", !.row = row])
          PROVE  TypeOK'
      <3>1. row \in Row
        BY DEF TypeOK, ToSet
      <3>2. [caller[c] EXCEPT !.pc = "interrupt", !.row = row] \in CallType
        BY <1>0, <3>1 DEF CallType, CallPc
      <3>3. caller' \in [Callers -> CallType]
        BY <2>2, <3>2, ReturnType, CallMovesType
      <3>4. skippedRow' \subseteq Row
        BY <2>2, <3>1 DEF TypeOK
      <3> QED
        BY <1>2, <3>3, <3>4 DEF SkipMark, TypeOK, Running
    <2> QED
      BY <1>2, <2>1, <2>2 DEF SkipMark
  <1>3. CASE SkipRow(c)
    <2>1. caller[c].by \in Runner /\ caller[c].row \in Row
      BY <1>3 DEF CallsAreSound, SkipRow, At
    <2>2. skips' \in [Runner -> SUBSET Row]
      BY <1>3, <2>1 DEF SkipRow, TypeOK
    <2>3. caller' \in [Callers -> CallType]
      BY <1>3, ReturnType DEF SkipRow
    <2> QED
      BY <1>3, <2>2, <2>3 DEF SkipRow, TypeOK, Running
  <1>4. CASE StartCapture(c)
    BY <1>4, GotoType DEF StartCapture, TypeOK, Running, CallPc
  <1>5. CASE StartArm(c)
    <2> DEFINE r == CHOOSE x \in Runner : x \notin Referenced
               rec == [caller[c] EXCEPT !.pc = "armed", !.by = r, !.prev = batchRunner]
    <2>1. r \in Runner
      BY <1>5 DEF StartArm
    <2> HIDE DEF r
    <2>2. rec \in CallType
      BY <1>0, <2>1 DEF CallType, CallPc, TypeOK
    <2>3. /\ batchRunner' = r /\ Set(c, rec)
          /\ cancelled' = cancelled \cap Referenced
          /\ paused' = paused \cap Referenced
          /\ skips' = [x \in Runner |-> IF x \in Referenced THEN skips[x] ELSE {}]
          /\ UNCHANGED <<queueVars, slot, run>>
      BY <1>5 DEF StartArm, r
    <2> HIDE DEF rec
    <2>4. skips' \in [Runner -> SUBSET Row]
      BY <2>3 DEF TypeOK
    <2>5. caller' \in [Callers -> CallType]
      BY <2>2, <2>3, CallMovesType
    <2> QED
      BY <2>1, <2>3, <2>4, <2>5 DEF TypeOK, Running
  <1>6. CASE StartClaim(c)
    <2>1. caller' \in [Callers -> CallType]
      BY <1>6, ReturnType DEF StartClaim
    <2>2. caller[c].prev \in Runner \cup {NoRunner} /\ caller[c].by \in Runner /\ caller[c].ref \in RefType
      BY <1>0, <1>6 DEF CallsAreSound, StartClaim, At, CallType
    <2>3. CASE Running
      BY <1>6, <2>1, <2>2, <2>3 DEF StartClaim, TypeOK, Running
    <2>4. CASE ~Running
      <3> DEFINE ref == caller[c].ref
      <3>1. slot' = caller[c].by /\ run' = [NoRunYet EXCEPT !.pc = "loop", !.ref = ref]
        BY <1>6, <2>4 DEF StartClaim
      <3> HIDE DEF ref
      <3>2. NoRunYet \in RunType /\ ref \in RefType
        BY <2>2, NoRunYetIsBooked DEF Booked, ref
      <3>3. run' \in RunType /\ run'.pc = "loop"
        BY <3>1, <3>2 DEF RunType, RunPc
      <3>4. slot' # NoRunner
        BY <2>2, <3>1, NoRunnerAssumption
      <3> QED
        BY <1>6, <2>1, <2>2, <2>4, <3>1, <3>3, <3>4 DEF StartClaim, TypeOK, Running
    <2> QED
      BY <2>3, <2>4
  <1>7. ASSUME NEW label \in {"pause", "resume", "cancel"}, ControlCheck(c, label)
        PROVE  TypeOK'
    <2>1. [Idle EXCEPT !.pc = label, !.by = batchRunner] \in CallType
      BY IdleType DEF CallType, CallPc, TypeOK
    <2>2. caller' \in [Callers -> CallType]
      BY <1>7, <2>1, CallMovesType DEF ControlCheck
    <2> QED
      BY <1>7, <2>2 DEF ControlCheck, TypeOK, Running
  <1>8. CASE Pause(c) \/ Resume(c) \/ Cancel(c)
    <2>1. caller[c].by \in Runner
      BY <1>8 DEF CallsAreSound, Pause, Resume, Cancel, At
    <2>2. caller' \in [Callers -> CallType]
      BY <1>8, ReturnType DEF Pause, Resume, Cancel
    <2> QED
      BY <1>8, <2>1, <2>2 DEF Pause, Resume, Cancel, TypeOK, Running
  <1> QED
    BY <1>1, <1>2, <1>3, <1>4, <1>5, <1>6, <1>7, <1>8

\* ... and the run's end, its walk and everything.
LEMMA TypeStep ==
  ASSUME TypeOK, QueuesAreSound, CallsAreSound, WalkIsSound, [Next]_vars
  PROVE  TypeOK'
  <1> USE DEF queueVars, controls
  <1>1. CASE UNCHANGED vars
    BY <1>1 DEF vars, TypeOK, Running
  <1>2. CASE (Walk \/ Fatal) /\ ~Finish
    BY <1>2, WalkShape DEF Booked, TypeOK, Running
  <1>3. CASE Finish
    <2>1. run' \in RunType /\ run'.pc = "off"
      BY <1>3, NoRunYetIsBooked DEF Finish, Booked, NoRunYet
    <2> QED
      BY <1>3, <2>1 DEF Finish, TypeOK, Running
  <1>4. ASSUME NEW c \in Callers, Call(c)
        PROVE  TypeOK'
    BY <1>4, TypeQueue, TypeControls DEF Call
  <1> QED
    BY <1>1, <1>2, <1>3, <1>4 DEF Next

-----------------------------------------------------------------------------
(* Queues and calls *)

\* What a call does to the run: nothing; it lets a new row join; it rebinds the queue,
\* which the walk does not see; it swaps two rows; it starts a run.
Aside == run' = run /\ UNCHANGED <<batch, unused, slot>>
Joins == \E row \in unused : /\ batch' = Append(batch, row) /\ unused' = unused \ {row}
                             /\ run' = run /\ UNCHANGED slot
Rebinds == /\ run' = [run EXCEPT !.ref = Detach(run.ref), !.edited = Running]
           /\ UNCHANGED <<unused, slot>>
Swaps == /\ run' = [run EXCEPT !.edited = Running]
         /\ \E i \in 1 .. Len(batch) - 1 :
               batch' = [batch EXCEPT ![i] = batch[i + 1], ![i + 1] = batch[i]]
         /\ UNCHANGED <<unused, slot>>
Starts == /\ ~Running /\ slot' \in Runner
          /\ \E k \in Callers : run' = [NoRunYet EXCEPT !.pc = "loop", !.ref = caller[k].ref]
          /\ UNCHANGED <<batch, unused>>

\* A call on another runner leaves this one's cancel and skips, and nobody clears them.
Heeds == /\ me \in cancelled => me \in cancelled'
         /\ me \in Runner => skips[me] \subseteq skips'[me]

LEMMA CallShape ==
  ASSUME TypeOK, CallsAreSound, NEW c \in Callers, Call(c)
  PROVE  (Aside \/ Joins \/ Rebinds \/ Swaps \/ Starts) /\ Heeds
  <1> USE DEF queueVars, controls
  <1>0. skips \in [Runner -> SUBSET Row] /\ run.ref = run.ref
    BY DEF TypeOK
  <1>1. CASE BatchAdd(c)
    BY <1>1 DEF BatchAdd, Joins, Heeds
  <1>2. CASE \E label \in {"remove", "clear", "move"} : QueueIdle(c, label)
    BY <1>2 DEF QueueIdle, Aside, Heeds
  <1>3. CASE BatchRemove(c) \/ BatchClear(c)
    <2>1. CASE Rebind(c)
      BY <1>3, <2>1, RebindType DEF BatchRemove, BatchClear, Rebinds, Heeds
    <2>2. CASE UNCHANGED <<batch, run>>
      BY <1>3, <2>2 DEF BatchRemove, BatchClear, Aside, Heeds
    <2> QED
      BY <1>3, <2>1, <2>2 DEF BatchRemove, BatchClear
  <1>4. CASE BatchMove(c)
    BY <1>4 DEF BatchMove, Swaps, Aside, Heeds
  <1>5. CASE SkipCheck(c) \/ SkipMark(c) \/ StartCapture(c)
    BY <1>5 DEF SkipCheck, SkipMark, StartCapture, Aside, Heeds
  <1>6. CASE SkipRow(c)
    <2>1. caller[c].by \in Runner
      BY <1>6 DEF SkipRow, CallsAreSound, At
    <2> QED
      BY <1>0, <1>6, <2>1 DEF SkipRow, Aside, Heeds
  <1>7. CASE StartArm(c)
    <2>1. me \in Referenced
      BY DEF Referenced, me
    <2>2. /\ cancelled' = cancelled \cap Referenced
          /\ skips' = [x \in Runner |-> IF x \in Referenced THEN skips[x] ELSE {}]
          /\ UNCHANGED <<queueVars, slot, run>>
      BY <1>7 DEF StartArm
    <2> QED
      BY <2>1, <2>2 DEF Aside, Heeds
  <1>8. CASE StartClaim(c)
    <2>1. caller[c].by \in Runner
      BY <1>8 DEF StartClaim, CallsAreSound, At
    <2> QED
      BY <1>8, <2>1 DEF StartClaim, Aside, Starts, Heeds
  <1>9. CASE \/ \E label \in {"pause", "resume", "cancel"} : ControlCheck(c, label)
             \/ Pause(c) \/ Resume(c) \/ Cancel(c)
    BY <1>9 DEF ControlCheck, Pause, Resume, Cancel, Aside, Heeds
  <1> QED
    BY <1>1, <1>2, <1>3, <1>4, <1>5, <1>6, <1>7, <1>8, <1>9 DEF Call

LEMMA CallsStep ==
  ASSUME TypeOK, CallsAreSound, NEW c \in Callers, Call(c)
  PROVE  CallsAreSound'
  <1> SUFFICES ASSUME NEW k \in Callers
               PROVE  /\ caller'[k].pc \in {"interrupt", "armed", "pause", "resume", "cancel"}
                            => caller'[k].by \in Runner
                      /\ caller'[k].pc = "interrupt" => caller'[k].row \in Row
    BY DEF CallsAreSound
  <1>0. caller \in [Callers -> CallType] /\ caller[k] \in CallType /\ caller[c] \in CallType
    BY DEF TypeOK
  <1>1. CASE caller'[k] = caller[k] \/ caller'[k] = Idle
    BY <1>1 DEF CallsAreSound, Idle
  <1>2. CASE Rebind(c)
    <2>1. caller'[k] = IF k = c THEN Idle ELSE [caller[k] EXCEPT !.ref = Detach(@)]
      BY <1>2 DEF Rebind
    <2>2. k # c => caller'[k].pc = caller[k].pc /\ caller'[k].by = caller[k].by
                   /\ caller'[k].row = caller[k].row
      BY <1>0, <2>1 DEF CallType
    <2> QED
      BY <1>1, <2>1, <2>2 DEF CallsAreSound
  <1>3. ASSUME NEW label \in CallPc \ {"interrupt", "armed", "pause", "resume", "cancel"}, Goto(c, label)
        PROVE  caller'[k] = caller[k] \/ caller'[k].pc = label
    BY <1>0, <1>3 DEF Goto, Set, Idle
  <1>4. CASE SkipCheck(c)
    BY <1>0, <1>4 DEF SkipCheck, Set, Idle, CallsAreSound
  <1>5. CASE SkipMark(c)
    <2>1. CASE Return(c)
      BY <1>0, <1>1, <2>1 DEF Return, Set
    <2>2. ASSUME NEW row \in ToSet(batch), caller[c].by # NoRunner,
                 Set(c, [caller[c] EXCEPT !.pc = "interrupt", !.row = row])
          PROVE  /\ caller'[k].pc \in {"interrupt", "armed", "pause", "resume", "cancel"}
                       => caller'[k].by \in Runner
                 /\ caller'[k].pc = "interrupt" => caller'[k].row \in Row
      <3>1. row \in Row /\ caller[c].by \in Runner
        BY <1>0, <2>2 DEF TypeOK, ToSet, CallType
      <3>2. caller'[k] = IF k = c THEN [caller[c] EXCEPT !.pc = "interrupt", !.row = row] ELSE caller[k]
        BY <1>0, <2>2 DEF Set
      <3>3. k = c => caller'[k].by = caller[c].by /\ caller'[k].row = row
        BY <1>0, <3>2 DEF CallType
      <3> QED
        BY <1>1, <3>1, <3>2, <3>3
    <2> QED
      BY <1>5, <2>1, <2>2 DEF SkipMark
  <1>6. CASE StartArm(c)
    <2> DEFINE r == CHOOSE x \in Runner : x \notin Referenced
    <2>1. r \in Runner
      BY <1>6 DEF StartArm
    <2>2. caller' = [caller EXCEPT ![c] = [caller[c] EXCEPT !.pc = "armed", !.by = r,
                                                            !.prev = batchRunner]]
      BY <1>6 DEF StartArm, Set
    <2> HIDE DEF r
    <2>3. caller'[k] = IF k = c THEN [caller[c] EXCEPT !.pc = "armed", !.by = r, !.prev = batchRunner]
                       ELSE caller[k]
      BY <1>0, <2>2
    <2>4. k = c => caller'[k].pc = "armed" /\ caller'[k].by = r
      BY <1>0, <2>3 DEF CallType
    <2> QED
      BY <1>1, <2>1, <2>3, <2>4
  <1>7. ASSUME NEW label \in {"pause", "resume", "cancel"}, ControlCheck(c, label)
        PROVE  /\ caller'[k].pc \in {"interrupt", "armed", "pause", "resume", "cancel"}
                     => caller'[k].by \in Runner
               /\ caller'[k].pc = "interrupt" => caller'[k].row \in Row
    <2>1. batchRunner \in Runner
      BY <1>7 DEF ControlCheck, TypeOK
    <2>2. caller'[k] = IF k = c THEN [Idle EXCEPT !.pc = label, !.by = batchRunner] ELSE caller[k]
      BY <1>0, <1>7 DEF ControlCheck, Set
    <2> QED
      BY <1>1, <2>1, <2>2 DEF Idle
  <1>8. CASE \/ BatchAdd(c) \/ BatchMove(c) \/ SkipRow(c) \/ StartClaim(c)
             \/ Pause(c) \/ Resume(c) \/ Cancel(c)
    BY <1>0, <1>1, <1>8 DEF BatchAdd, BatchMove, SkipRow, StartClaim, Pause, Resume, Cancel, Return, Set
  <1>9. CASE \/ \E label \in {"remove", "clear", "move"} : QueueIdle(c, label)
             \/ StartCapture(c)
    <2>1. caller'[k] = caller[k] \/ caller'[k].pc \in {"remove", "clear", "move", "captured"}
      BY <1>3, <1>9 DEF QueueIdle, StartCapture, CallPc
    <2> QED
      BY <1>1, <2>1
  <1>10. CASE BatchRemove(c) \/ BatchClear(c)
    <2>1. Rebind(c) \/ caller'[k] = caller[k] \/ caller'[k] = Idle
      BY <1>0, <1>10 DEF BatchRemove, BatchClear, Return, Set
    <2> QED
      BY <1>1, <1>2, <2>1
  <1> QED
    BY <1>4, <1>5, <1>6, <1>7, <1>8, <1>9, <1>10 DEF Call

\* The copy a call holds is its old one, the queue of now, or none.
LEMMA CallRefs ==
  ASSUME TypeOK, NEW c \in Callers, Call(c), NEW k \in Callers
  PROVE  caller'[k].ref.rows \in {caller[k].ref.rows, batch, <<>>}
  <1>0. caller \in [Callers -> CallType] /\ caller[k] \in CallType /\ caller[c] \in CallType
    BY DEF TypeOK
  <1>1. CASE caller'[k] = caller[k] \/ caller'[k] = Idle
    BY <1>1 DEF Idle, Live
  <1>2. CASE Rebind(c)
    <2>1. caller'[k] = IF k = c THEN Idle ELSE [caller[k] EXCEPT !.ref = Detach(@)]
      BY <1>2 DEF Rebind
    <2>2. k # c => caller'[k].ref = Detach(caller[k].ref)
      BY <1>0, <2>1 DEF CallType
    <2> QED
      BY <1>1, <2>1, <2>2 DEF Detach
  <1>3. ASSUME NEW label, Goto(c, label)
        PROVE  caller'[k] = caller[k] \/ caller'[k].ref = Live
    BY <1>0, <1>3 DEF Goto, Set, Idle
  <1>4. CASE SkipCheck(c)
    BY <1>0, <1>4 DEF SkipCheck, Set, Idle, Live
  <1>5. CASE SkipMark(c)
    <2>1. CASE Return(c)
      BY <1>0, <1>1, <2>1 DEF Return, Set
    <2>2. ASSUME NEW row, Set(c, [caller[c] EXCEPT !.pc = "interrupt", !.row = row])
          PROVE  caller'[k].ref.rows = caller[k].ref.rows
      <3>1. caller'[k] = IF k = c THEN [caller[c] EXCEPT !.pc = "interrupt", !.row = row] ELSE caller[k]
        BY <1>0, <2>2 DEF Set
      <3> QED
        BY <1>0, <3>1 DEF CallType
    <2> QED
      BY <1>5, <2>1, <2>2 DEF SkipMark
  <1>6. CASE StartArm(c)
    <2> DEFINE r == CHOOSE x \in Runner : x \notin Referenced
    <2>1. caller' = [caller EXCEPT ![c] = [caller[c] EXCEPT !.pc = "armed", !.by = r,
                                                            !.prev = batchRunner]]
      BY <1>6 DEF StartArm, Set
    <2> HIDE DEF r
    <2>2. caller'[k] = IF k = c THEN [caller[c] EXCEPT !.pc = "armed", !.by = r, !.prev = batchRunner]
                       ELSE caller[k]
      BY <1>0, <2>1
    <2>3. k = c => caller'[k].ref = caller[c].ref
      BY <1>0, <2>2 DEF CallType
    <2> QED
      BY <1>1, <2>2, <2>3
  <1>7. ASSUME NEW label, ControlCheck(c, label)
        PROVE  caller'[k] = caller[k] \/ caller'[k].ref = Live
    BY <1>0, <1>7 DEF ControlCheck, Set, Idle
  <1>8. CASE \/ BatchAdd(c) \/ BatchMove(c) \/ SkipRow(c) \/ StartClaim(c)
             \/ Pause(c) \/ Resume(c) \/ Cancel(c)
    BY <1>0, <1>1, <1>8 DEF BatchAdd, BatchMove, SkipRow, StartClaim, Pause, Resume, Cancel, Return, Set
  <1>9. CASE \/ \E label \in {"remove", "clear", "move"} : QueueIdle(c, label)
             \/ \E label \in {"pause", "resume", "cancel"} : ControlCheck(c, label)
             \/ StartCapture(c)
    BY <1>1, <1>3, <1>7, <1>9 DEF QueueIdle, StartCapture, Live
  <1>10. CASE BatchRemove(c) \/ BatchClear(c)
    <2>1. Rebind(c) \/ caller'[k] = caller[k] \/ caller'[k] = Idle
      BY <1>0, <1>10 DEF BatchRemove, BatchClear, Return, Set
    <2> QED
      BY <1>1, <1>2, <2>1
  <1> QED
    BY <1>4, <1>5, <1>6, <1>8, <1>9, <1>10 DEF Call

LEMMA EmptyIsListed == \A left : Listed(<<>>, left)
  BY DEF Listed

\* The queue the service holds after a call, and the copy of the walk.
LEMMA QueuesAfterCall ==
  ASSUME TypeOK, QueuesAreSound, NEW c \in Callers, Call(c)
  PROVE  /\ Listed(batch', unused') /\ unused' \in SUBSET unused
         /\ run'.ref.rows \in {run.ref.rows, batch, <<>>} \cup {caller[k].ref.rows : k \in Callers}
  <1> USE DEF queueVars, controls
  <1>0. run \in RunType /\ batch \in Seq(Row) /\ Listed(batch, unused)
    BY DEF TypeOK, QueuesAreSound
  <1>1. CASE BatchAdd(c)
    <2>1. PICK row \in unused : batch' = Append(batch, row) /\ unused' = unused \ {row}
      BY <1>1 DEF BatchAdd
    <2>2. unused \in SUBSET Row
      BY DEF TypeOK
    <2>3. Listed(batch', unused')
      BY <1>0, <2>1, <2>2, AppendedIsListed
    <2> QED
      BY <1>1, <2>1, <2>3 DEF BatchAdd
  <1>2. CASE BatchRemove(c) \/ BatchClear(c)
    <2>1. Listed(batch', unused') /\ unused' = unused
      BY <1>0, <1>2, RemovedIsListed, EmptyIsListed DEF BatchRemove, BatchClear
    <2>2. CASE Rebind(c)
      <3>1. run'.ref = Detach(run.ref)
        BY <1>0, <2>2 DEF Rebind, RunType
      <3> QED
        BY <2>1, <3>1 DEF Detach
    <2>3. CASE UNCHANGED run
      BY <2>1, <2>3
    <2> QED
      BY <1>2, <2>2, <2>3 DEF BatchRemove, BatchClear
  <1>3. CASE BatchMove(c)
    <2>1. run'.ref = run.ref
      BY <1>0, <1>3 DEF BatchMove, RunType
    <2>2. unused' = unused
      BY <1>3 DEF BatchMove
    <2>3. Listed(batch', unused')
      BY <1>0, <1>3, <2>2, SwappedIsListed DEF BatchMove
    <2> QED
      BY <2>1, <2>2, <2>3
  <1>4. CASE StartClaim(c)
    <2>1. CASE Running
      BY <1>0, <1>4, <2>1 DEF StartClaim
    <2>2. CASE ~Running
      <3>1. run' = [NoRunYet EXCEPT !.pc = "loop", !.ref = caller[c].ref]
        BY <1>4, <2>2 DEF StartClaim
      <3>2. run'.ref = caller[c].ref
        BY <3>1 DEF NoRunYet
      <3> QED
        BY <1>0, <1>4, <3>2 DEF StartClaim
    <2> QED
      BY <2>1, <2>2
  <1>5. CASE UNCHANGED <<batch, unused, run>>
    BY <1>0, <1>5
  <1> QED
    BY <1>1, <1>2, <1>3, <1>4, <1>5
    DEF Call, QueueIdle, SkipCheck, SkipMark, SkipRow, StartCapture, StartArm, ControlCheck,
        Pause, Resume, Cancel

\* A step of the walk leaves its copy where it is.
LEMMA WalkKeepsRef ==
  ASSUME TypeOK, WalkIsSound, Walk \/ Fatal, ~Finish
  PROVE  run'.ref = run.ref /\ run'.edited = run.edited /\ queue' = queue
  <1>1. run \in RunType
    BY DEF TypeOK
  <1>2. run'.ref = run.ref
    <2>1. CASE Looped \/ Admitted \/ Checked
      BY <1>1, <2>1 DEF Looped, Admitted, Checked, RunType
    <2>2. CASE PassedOver \/ Begun \/ Failed
      BY <1>1, <2>2 DEF PassedOver, Begun, Failed, RunType
    <2>3. CASE Expanded \/ Walked \/ GivenUp
      BY <1>1, <2>3 DEF Expanded, Walked, GivenUp, RunType
    <2>4. CASE Fetches \/ Settles \/ Raised
      BY <1>1, <2>4 DEF Fetches, Settles, Raised, RunType
    <2> QED
      BY WalkShape, <2>1, <2>2, <2>3, <2>4
  <1>3. run'.edited = run.edited
    <2>1. CASE Looped
      BY <1>1, <2>1, Zenon DEF Looped, RunType
    <2>2. CASE Admitted
      BY <1>1, <2>2, Zenon DEF Admitted, RunType
    <2>3. CASE Checked
      BY <1>1, <2>3, Zenon DEF Checked, RunType
    <2>4. CASE PassedOver
      BY <1>1, <2>4, Zenon DEF PassedOver, RunType
    <2>5. CASE Begun
      BY <1>1, <2>5, Zenon DEF Begun, RunType
    <2>6. CASE Failed
      BY <1>1, <2>6, Zenon DEF Failed, RunType
    <2>7. CASE Expanded
      BY <1>1, <2>7, Zenon DEF Expanded, RunType
    <2>8. CASE Walked
      BY <1>1, <2>8, Zenon DEF Walked, RunType
    <2>9. CASE GivenUp
      BY <1>1, <2>9, Zenon DEF GivenUp, RunType
    <2>10. CASE Fetches
      BY <1>1, <2>10, Zenon DEF Fetches, RunType
    <2>11. CASE Settles
      BY <1>1, <2>11, Zenon DEF Settles, RunType
    <2>12. CASE Raised
      BY <1>1, <2>12, Zenon DEF Raised, RunType
    <2> QED
      BY WalkShape, <2>1, <2>2, <2>3, <2>4, <2>5, <2>6, <2>7, <2>8, <2>9, <2>10, <2>11, <2>12
  <1> QED
    BY <1>2, <1>3, WalkShape DEF queue, Rows, queueVars

LEMMA QueuesStep ==
  ASSUME TypeOK, QueuesAreSound, WalkIsSound, [Next]_vars
  PROVE  QueuesAreSound'
  <1>1. CASE UNCHANGED vars
    BY <1>1 DEF vars, queueVars, QueuesAreSound
  <1>2. CASE (Walk \/ Fatal) /\ ~Finish
    <2>1. UNCHANGED <<batch, unused, caller>> /\ run'.ref = run.ref
      BY <1>2, WalkShape, WalkKeepsRef DEF queueVars
    <2> QED
      BY <2>1 DEF QueuesAreSound
  <1>3. CASE Finish
    <2>1. UNCHANGED <<batch, unused, caller>> /\ run'.ref.rows = <<>>
      BY <1>3 DEF Finish, NoRunYet, Live, queueVars
    <2> QED
      BY <2>1, EmptyIsListed DEF QueuesAreSound
  <1>4. ASSUME NEW c \in Callers, Call(c)
        PROVE  QueuesAreSound'
    <2>1. /\ Listed(batch', unused') /\ unused' \in SUBSET unused
          /\ run'.ref.rows \in {run.ref.rows, batch, <<>>} \cup {caller[k].ref.rows : k \in Callers}
      BY <1>4, QueuesAfterCall
    <2>2. \A k \in Callers : caller'[k].ref.rows \in {caller[k].ref.rows, batch, <<>>}
      BY <1>4, CallRefs
    <2>3. /\ Listed(batch, unused') /\ Listed(run.ref.rows, unused') /\ Listed(<<>>, unused')
          /\ \A k \in Callers : Listed(caller[k].ref.rows, unused')
      BY <2>1, ListedStays, EmptyIsListed DEF QueuesAreSound
    <2>4. Listed(run'.ref.rows, unused')
      BY <2>1, <2>3
    <2>5. \A k \in Callers : Listed(caller'[k].ref.rows, unused')
      BY <2>2, <2>3
    <2> QED
      BY <2>1, <2>4, <2>5 DEF QueuesAreSound
  <1> QED
    BY <1>1, <1>2, <1>3, <1>4 DEF Next

-----------------------------------------------------------------------------
(* Where the walk stands *)

LEMMA QueueIsListed ==
  ASSUME QueuesAreSound
  PROVE  Listed(queue, unused)
  BY DEF QueuesAreSound, queue, Rows

\* What the walk sees of a call: its queue stays, a new row joins at the end of it, or
\* it is marked as edited.
LEMMA WalkSees ==
  ASSUME TypeOK, QueuesAreSound, CallsAreSound, Aside \/ Joins \/ Rebinds \/ Swaps
  PROVE  /\ slot' = slot /\ Len(queue') >= Len(queue) /\ unused' \in SUBSET unused
         /\ \/ /\ run' = run
               /\ \/ queue' = queue
                  \/ \E row \in unused : queue' = Append(queue, row)
            \/ /\ run' = [run EXCEPT !.ref = run'.ref, !.edited = Running]
  <1>0. run \in RunType /\ queue \in Seq(Row) /\ batch \in Seq(Row) /\ unused \subseteq Row
    BY QueueType DEF TypeOK
  <1>1. CASE Aside
    BY <1>0, <1>1 DEF Aside, queue, Rows
  <1>2. CASE Joins
    <2>1. PICK row \in unused : /\ batch' = Append(batch, row) /\ unused' = unused \ {row}
                                /\ run' = run /\ UNCHANGED slot
      BY <1>2 DEF Joins
    <2>2. CASE run.ref.live
      <3>1. queue = batch /\ queue' = Append(queue, row)
        BY <2>1, <2>2 DEF queue, Rows
      <3>2. Len(queue') = Len(queue) + 1
        BY <1>0, <2>1, <3>1
      <3> QED
        BY <1>0, <2>1, <3>1, <3>2
    <2>3. CASE ~run.ref.live
      <3>1. queue' = queue
        BY <2>1, <2>3 DEF queue, Rows
      <3> QED
        BY <1>0, <2>1, <3>1
    <2> QED
      BY <2>2, <2>3
  <1>3. CASE Rebinds
    <2>1. run'.ref = Detach(run.ref)
      BY <1>0, <1>3 DEF Rebinds, RunType
    <2>2. queue' = queue
      BY <1>0, <2>1 DEF Detach, queue, Rows, RunType, RefType
    <2> QED
      BY <1>0, <1>3, <2>1, <2>2 DEF Rebinds
  <1>4. CASE Swaps
    <2>1. PICK i \in 1 .. Len(batch) - 1 :
             batch' = [batch EXCEPT ![i] = batch[i + 1], ![i + 1] = batch[i]]
      BY <1>4 DEF Swaps
    <2>2. Len(batch') = Len(batch)
      BY <1>0, <2>1
    <2>3. run'.ref = run.ref
      BY <1>0, <1>4 DEF Swaps, RunType
    <2>4. Len(queue') = Len(queue)
      BY <2>2, <2>3 DEF queue, Rows
    <2>5. run' = [run EXCEPT !.ref = run'.ref, !.edited = Running]
      BY <1>0, <1>4, <2>3 DEF Swaps, RunType
    <2> QED
      BY <1>0, <1>4, <2>4, <2>5 DEF Swaps
  <1> QED
    BY <1>1, <1>2, <1>3, <1>4

\* A run that was started is at its beginning.
LEMMA StartedRun ==
  ASSUME TypeOK, Starts
  PROVE  /\ run'.pc = "loop" /\ run'.index = 1 /\ run'.seen = 0 /\ run'.counted = {}
         /\ run'.total = 0 /\ run'.done = 0 /\ run'.left = 0 /\ run'.dropped = 0
         /\ run'.ran = [r \in Row |-> 0] /\ run'.unpaid = {} /\ run'.barren = {}
         /\ run'.late = 0 /\ run'.fatal = FALSE /\ run'.edited = FALSE
  BY DEF Starts, NoRunYet

LEMMA WalkStep ==
  ASSUME TypeOK, QueuesAreSound, CallsAreSound, WalkIsSound, TypeOK', [Next]_vars
  PROVE  WalkIsSound'
  <1>0. /\ run \in RunType /\ queue \in Seq(Row) /\ Len(queue) \in Nat /\ Len(queue') \in Nat
        /\ run' \in RunType /\ run.index \in Nat \ {0} /\ run.seen \in Nat
    <2>1. /\ run \in RunType /\ run' \in RunType
          /\ queue \in Seq(Row) /\ Len(queue) \in Nat
      BY QueueType DEF TypeOK
    <2>2. queue' \in Seq(Row)
      BY <2>1 DEF TypeOK, RunType, RefType, queue, Rows
    <2>3. run.index \in Nat \ {0} /\ run.seen \in Nat
      BY <2>1 DEF RunType
    <2> QED
      BY <2>1, <2>2, <2>3
  <1>1. CASE UNCHANGED vars
    <2>1. run' = run /\ queue' = queue /\ unused' = unused
      BY <1>1 DEF vars, queueVars, queue, Rows
    <2> QED
      BY <2>1 DEF WalkIsSound
  <1>2. CASE (Walk \/ Fatal) /\ ~Finish
    <2>1. /\ Booked(run') /\ run'.pc # "off" /\ queue' = queue /\ unused' = unused
          /\ \/ Looped \/ Admitted \/ Checked \/ PassedOver \/ Begun \/ Failed \/ Expanded
             \/ Walked \/ GivenUp \/ Fetches \/ Settles \/ Raised
      BY <1>2, WalkShape, WalkKeepsRef DEF queueVars
    <2>2. run.pc \in AtRow => Current \in Row /\ Current \notin unused /\ run.index <= Len(queue)
      BY CurrentIsRow, QueueIsListed DEF Listed, Current
    <2>3. Uncounted \cap unused = {}
      BY <1>0, QueueIsListed DEF Uncounted, Listed
    <2>4. /\ run'.index <= Len(queue) + 1
          /\ run'.pc \in AtRow => run'.index <= Len(queue)
      <3>1. CASE Looped \/ Admitted \/ Begun \/ Expanded \/ Fetches \/ Settles
        <4>1. /\ run'.index = run.index
              /\ run'.pc \in AtRow => run.pc \in AtRow
          <5>1. CASE Looped \/ Admitted
            BY <1>0, <5>1 DEF Looped, Admitted, AtRow, RunType
          <5>2. CASE Begun \/ Expanded
            BY <1>0, <5>2 DEF Begun, Expanded, AtRow, RunType
          <5>3. CASE Fetches \/ Settles
            BY <1>0, <5>3 DEF Fetches, Settles, AtRow, RunType
          <5> QED
            BY <3>1, <5>1, <5>2, <5>3
        <4>2. run.index <= Len(queue) + 1
          BY DEF WalkIsSound
        <4> QED
          BY <2>2, <4>1, <4>2
      <3>2. CASE Checked
        <4>1. /\ run'.index = run.index
              /\ run'.pc = IF run.index > Len(queue) THEN "finish" ELSE "row"
          BY <1>0, <3>2 DEF Checked, RunType
        <4>2. run.index <= Len(queue) + 1 /\ run.index \in Nat /\ Len(queue) \in Nat
          BY <1>0 DEF WalkIsSound, RunType
        <4> QED
          BY <4>1, <4>2 DEF AtRow
      <3>3. CASE PassedOver \/ Failed \/ Walked \/ GivenUp
        <4>1. run.pc \in AtRow /\ run'.pc = "loop" /\ run'.index = run.index + 1
          BY <1>0, <3>3 DEF PassedOver, Failed, Walked, GivenUp, AtRow, InTracks, RunType
        <4> QED
          BY <1>0, <2>2, <4>1 DEF AtRow
      <3>4. CASE Raised
        <4>1. /\ run.pc \in AtRow /\ run'.pc = "finish"
              /\ run'.index = run.index \/ run'.index = run.index + 1
          BY <1>0, <3>4 DEF Raised, RunType
        <4> QED
          BY <1>0, <2>2, <4>1 DEF AtRow
      <3> QED
        BY <2>1, <3>1, <3>2, <3>3, <3>4
    <2>5. run'.seen = run.seen \/ run'.seen = Len(queue)
      <3>1. CASE Looped \/ Admitted \/ Checked
        BY <1>0, <3>1 DEF Looped, Admitted, Checked, RunType
      <3>2. CASE PassedOver \/ Begun \/ Failed
        BY <1>0, <3>2 DEF PassedOver, Begun, Failed, RunType
      <3>3. CASE Expanded \/ Walked \/ GivenUp
        BY <1>0, <3>3 DEF Expanded, Walked, GivenUp, RunType
      <3>4. CASE Fetches \/ Settles \/ Raised
        BY <1>0, <3>4 DEF Fetches, Settles, Raised, RunType
      <3> QED
        BY <2>1, <3>1, <3>2, <3>3, <3>4
    <2>6. \/ run'.counted \subseteq run.counted \cup Uncounted
          \/ run.pc \in AtRow /\ run'.counted \subseteq run.counted \cup {Current}
      <3>1. CASE Admitted
        BY <1>0, <3>1 DEF Admitted, RunType
      <3>2. CASE Expanded
        <4>1. run.pc \in AtRow /\ run'.counted = run.counted \cup ({Current} \ (skippedRow \cup run.counted))
          BY <1>0, <3>2 DEF Expanded, RunType, AtRow
        <4> QED
          BY <4>1
      <3>3. CASE PassedOver
        BY <1>0, <3>3 DEF PassedOver, RunType
      <3>4. CASE Looped \/ Checked \/ Begun \/ Failed \/ Walked \/ GivenUp \/ Fetches \/ Settles \/ Raised
        <4>1. run'.counted = run.counted
          BY <1>0, <3>4 DEF Looped, Checked, Begun, Failed, Walked, GivenUp, Fetches, Settles, Raised, RunType
        <4> QED
          BY <4>1
      <3> QED
        BY <2>1, <3>1, <3>2, <3>3, <3>4
    <2>7. /\ run'.pc \notin InTracks => run'.left = 0
          /\ run'.pc = "fetch" => run'.left > 0
      <3>1. CASE Looped \/ Admitted \/ Checked \/ Begun
        BY <1>0, <3>1 DEF Looped, Admitted, Checked, Begun, WalkIsSound, InTracks, RunType
      <3>2. CASE PassedOver \/ Failed \/ Walked \/ GivenUp \/ Raised
        <4>1. run'.left = 0 /\ run'.pc \in {"loop", "finish"}
          BY <1>0, <3>2 DEF PassedOver, Failed, Walked, GivenUp, Raised, RunType
        <4> QED
          BY <4>1 DEF InTracks
      <3>3. CASE Expanded \/ Settles
        BY <1>0, <3>3 DEF Expanded, Settles, InTracks, RunType
      <3>4. CASE Fetches
        <4>1. run.left # 0 /\ run'.left = run.left /\ run.left \in Nat /\ run'.pc = "fetch"
          BY <1>0, <3>4, MaxTracksAssumption DEF Fetches, RunType
        <4> QED
          BY <4>1 DEF InTracks
      <3> QED
        BY <2>1, <3>1, <3>2, <3>3, <3>4
    <2>8. run'.counted \cap unused = {}
      BY <2>2, <2>3, <2>6 DEF WalkIsSound
    <2>9. run'.seen <= Len(queue)
      BY <1>0, <2>5 DEF WalkIsSound
    <2> QED
      BY <2>1, <2>4, <2>7, <2>8, <2>9 DEF WalkIsSound
  <1>3. CASE Finish
    <2>1. /\ run' = NoRunYet /\ run'.pc = "off" /\ run'.index = 1 /\ run'.seen = 0 /\ run'.counted = {}
          /\ run'.left = 0 /\ run'.late = 0 /\ ~run'.edited /\ run'.ran = [r \in Row |-> 0]
      BY <1>3 DEF Finish, NoRunYet
    <2>2. Booked(run')
      BY <2>1, NoRunYetIsBooked
    <2> QED
      BY <1>0, <2>1, <2>2 DEF WalkIsSound, AtRow, InTracks
  <1>4. ASSUME NEW c \in Callers, Call(c)
        PROVE  WalkIsSound'
    <2>1. CASE Starts
      <3>1. Booked(run')
        <4>1. run'.total = 0 /\ run'.counted = {}
          BY <2>1, StartedRun
        <4>2. Cardinality({}) = 0
          BY FS_EmptySet
        <4> QED
          BY <1>0, <4>1, <4>2 DEF Booked
      <3> QED
        BY <1>0, <2>1, <3>1, StartedRun DEF WalkIsSound, AtRow, InTracks
    <2>2. CASE Aside \/ Joins \/ Rebinds \/ Swaps
      <3>1. /\ Len(queue') >= Len(queue) /\ unused' \in SUBSET unused
            /\ run' = run \/ run' = [run EXCEPT !.ref = run'.ref, !.edited = Running]
        BY <2>2, WalkSees
      <3>2. /\ run'.pc = run.pc /\ run'.index = run.index /\ run'.seen = run.seen
            /\ run'.counted = run.counted /\ run'.total = run.total /\ run'.left = run.left
            /\ run'.late = run.late /\ run'.ran = run.ran
            /\ run'.edited = run.edited \/ run'.edited = Running
        BY <1>0, <3>1 DEF RunType
      <3>3. Booked(run')
        BY <1>0, <3>2 DEF WalkIsSound, Booked
      <3>4. run.pc = "off" => ~Running
        BY DEF TypeOK
      <3> QED
        BY <1>0, <3>1, <3>2, <3>3, <3>4 DEF WalkIsSound
    <2> QED
      BY <1>4, <2>1, <2>2, CallShape
  <1> QED
    BY <1>1, <1>2, <1>3, <1>4 DEF Next

-----------------------------------------------------------------------------
(* Cancels and what is given up *)

LEMMA LateStep ==
  ASSUME TypeOK, CallsAreSound, WalkIsSound, LateIsTheLast, TypeOK', [Next]_vars
  PROVE  LateIsTheLast'
  <1>0. run \in RunType /\ run.late \in Nat /\ run'.late \in Nat
    BY DEF TypeOK, RunType
  <1>1. CASE UNCHANGED vars
    BY <1>1 DEF vars, controls, LateIsTheLast, me
  <1>2. CASE (Walk \/ Fatal) /\ ~Finish
    <2>1. UNCHANGED <<slot, cancelled>>
      BY <1>2, WalkShape DEF controls
    <2>2. CASE Looped \/ Admitted \/ Checked \/ PassedOver \/ Begun \/ Expanded
               \/ Walked \/ GivenUp \/ Fetches \/ Raised
      <3>1. run'.late = run.late
        BY <1>0, <2>2 DEF Looped, Admitted, Checked, PassedOver, Begun, Expanded,
           Walked, GivenUp, Fetches, Raised, RunType
      <3>2. run.late > 0 => run'.pc \in {"loop", "tracks", "finish"}
        BY <1>0, <2>2 DEF Looped, Admitted, Checked, PassedOver, Begun, Expanded,
           Walked, GivenUp, Fetches, Raised, RunType, LateIsTheLast, me
      <3> QED
        BY <1>0, <2>1, <3>1, <3>2 DEF LateIsTheLast, me
    <2>3. CASE Failed \/ Settles
      <3>1. run.late = 0
        BY <1>0, <2>3 DEF Failed, Settles, LateIsTheLast
      <3>2. JustLate \in Nat
        BY DEF JustLate
      <3>3. run'.late = run.late + JustLate /\ run'.pc \in {"loop", "tracks"}
        BY <1>0, <2>3 DEF Failed, Settles, RunType
      <3>4. run'.late = JustLate
        BY <3>1, <3>2, <3>3
      <3> QED
        BY <2>1, <3>3, <3>4 DEF LateIsTheLast, JustLate, me
    <2> QED
      BY <1>2, <2>2, <2>3, WalkShape
  <1>3. CASE Finish
    BY <1>3 DEF Finish, NoRunYet, LateIsTheLast
  <1>4. ASSUME NEW c \in Callers, Call(c)
        PROVE  LateIsTheLast'
    <2>1. Heeds
      BY <1>4, CallShape
    <2>2. CASE Starts
      BY <2>2, StartedRun DEF LateIsTheLast
    <2>3. CASE Aside \/ Joins \/ Rebinds \/ Swaps
      <3>1. slot' = slot /\ run'.late = run.late /\ run'.pc = run.pc
        BY <1>0, <2>3 DEF Aside, Joins, Rebinds, Swaps, RunType
      <3> QED
        BY <2>1, <3>1 DEF LateIsTheLast, Heeds, me
    <2> QED
      BY <1>4, <2>2, <2>3, CallShape
  <1> QED
    BY <1>1, <1>2, <1>3, <1>4 DEF Next

LEMMA GivenUpStep ==
  ASSUME TypeOK, CallsAreSound, WalkIsSound, NothingGivenUpSilently, [Next]_vars
  PROVE  NothingGivenUpSilently'
  <1>0. run \in RunType /\ run.dropped \in Nat /\ run.left \in Nat /\ slot \in Runner \cup {NoRunner}
    BY MaxTracksAssumption DEF TypeOK, RunType
  <1>1. CASE UNCHANGED vars
    BY <1>1 DEF vars, controls, NothingGivenUpSilently, me, Running
  <1>2. CASE (Walk \/ Fatal) /\ ~Finish
    <2>1. UNCHANGED <<slot, cancelled, skips>>
      BY <1>2, WalkShape DEF controls
    <2>2. CASE Looped \/ Admitted \/ Checked \/ PassedOver \/ Begun \/ Failed \/ Expanded
               \/ Walked \/ Fetches \/ Settles
      <3>1. run'.dropped = run.dropped
        <4>1. CASE Looped \/ Admitted \/ Checked \/ PassedOver
          BY <1>0, <4>1 DEF Looped, Admitted, Checked, PassedOver, RunType
        <4>2. CASE Begun \/ Failed \/ Expanded
          BY <1>0, <4>2 DEF Begun, Failed, Expanded, RunType
        <4>3. CASE Walked \/ Fetches \/ Settles
          BY <1>0, <4>3 DEF Walked, Fetches, Settles, RunType
        <4> QED
          BY <2>2, <4>1, <4>2, <4>3
      <3>2. run'.fatal = run.fatal
        <4>1. CASE Looped
          BY <1>0, <4>1, Zenon DEF Looped, RunType
        <4>2. CASE Admitted
          BY <1>0, <4>2, Zenon DEF Admitted, RunType
        <4>3. CASE Checked
          BY <1>0, <4>3, Zenon DEF Checked, RunType
        <4>4. CASE PassedOver
          BY <1>0, <4>4, Zenon DEF PassedOver, RunType
        <4>5. CASE Begun
          BY <1>0, <4>5, Zenon DEF Begun, RunType
        <4>6. CASE Failed
          BY <1>0, <4>6, Zenon DEF Failed, RunType
        <4>7. CASE Expanded
          BY <1>0, <4>7, Zenon DEF Expanded, RunType
        <4>8. CASE Walked
          BY <1>0, <4>8, Zenon DEF Walked, RunType
        <4>9. CASE Fetches
          BY <1>0, <4>9, Zenon DEF Fetches, RunType
        <4>10. CASE Settles
          BY <1>0, <4>10, Zenon DEF Settles, RunType
        <4> QED
          BY <2>2, <4>1, <4>2, <4>3, <4>4, <4>5, <4>6, <4>7, <4>8, <4>9, <4>10
      <3> QED
        BY <2>1, <3>1, <3>2 DEF NothingGivenUpSilently, me, Running
    <2>3. CASE GivenUp
      <3>1. me \in cancelled \/ skips[me] # {}
        BY <2>3 DEF GivenUp, Skips
      <3> QED
        BY <2>1, <3>1 DEF NothingGivenUpSilently, me
    <2>4. CASE Raised
      <3>1. run'.fatal
        BY <1>0, <2>4 DEF Raised, RunType
      <3> QED
        BY <3>1 DEF NothingGivenUpSilently
    <2> QED
      BY <1>2, <2>2, <2>3, <2>4, WalkShape
  <1>3. CASE Finish
    BY <1>3 DEF Finish, NothingGivenUpSilently, Running
  <1>4. ASSUME NEW c \in Callers, Call(c)
        PROVE  NothingGivenUpSilently'
    <2>1. Heeds
      BY <1>4, CallShape
    <2>2. CASE Starts
      BY <2>2, StartedRun DEF NothingGivenUpSilently
    <2>3. CASE Aside \/ Joins \/ Rebinds \/ Swaps
      <3>1. slot' = slot /\ run'.dropped = run.dropped /\ run'.fatal = run.fatal
        BY <1>0, <2>3 DEF Aside, Joins, Rebinds, Swaps, RunType
      <3> QED
        BY <1>0, <2>1, <3>1 DEF NothingGivenUpSilently, Heeds, me, Running
    <2> QED
      BY <1>4, <2>2, <2>3, CallShape
  <1> QED
    BY <1>1, <1>2, <1>3, <1>4 DEF Next

-----------------------------------------------------------------------------
(* Each row once *)

LEMMA Positions ==
  ASSUME TypeOK, QueuesAreSound, WalkIsSound
  PROVE  /\ Here \in 1 .. Len(queue) + 1 /\ queue \in Seq(Row)
         /\ Passed \subseteq Row /\ Coming \subseteq Row
         /\ Passed \cap Coming = {}
         /\ \A i \in 1 .. Len(queue) : queue[i] \in Passed \cup Coming
         /\ Passed \cap unused = {} /\ Coming \cap unused = {}
  <1>1. queue \in Seq(Row) /\ Len(queue) \in Nat /\ Listed(queue, unused)
    BY QueueType, QueueIsListed
  <1>2. Here \in 1 .. Len(queue) + 1
    BY <1>1 DEF Here, WalkIsSound, TypeOK, RunType, AtRow, InTracks
  <1>3. Passed \cap Coming = {}
    BY <1>1, <1>2 DEF Passed, Coming, Listed
  <1> QED
    BY <1>1, <1>2, <1>3 DEF Passed, Coming, Listed

\* The walk stands still, goes one row on, or sees its queue grow.
LEMMA StandsStill ==
  ASSUME queue' = queue, Here' = Here
  PROVE  Passed' = Passed /\ Coming' = Coming
  BY DEF Passed, Coming

LEMMA GoesOneOn ==
  ASSUME TypeOK, QueuesAreSound, WalkIsSound, queue' = queue,
         run.pc \in {"row", "resolve"}, Here' = run.index + 1
  PROVE  /\ Current \in Row /\ Current \in Coming /\ Current \notin Passed
         /\ Passed' = Passed \cup {Current} /\ Coming' = Coming \ {Current}
  <1>1. /\ queue \in Seq(Row) /\ Len(queue) \in Nat /\ Listed(queue, unused)
        /\ run.index \in 1 .. Len(queue) /\ Current \in Row /\ Here = run.index
    BY QueueType, QueueIsListed, CurrentIsRow DEF AtRow, Here
  <1> DEFINE h == run.index
  <1>2. /\ Passed = {queue[i] : i \in 1 .. h - 1} /\ Coming = {queue[i] : i \in h .. Len(queue)}
        /\ Passed' = {queue[i] : i \in 1 .. h} /\ Coming' = {queue[i] : i \in h + 1 .. Len(queue)}
        /\ Current = queue[h] /\ h \in 1 .. Len(queue)
    BY <1>1 DEF Passed, Coming, Current
  <1> HIDE DEF h
  <1>3. Current \in Coming
    BY <1>1, <1>2
  <1>4. Current \notin Passed
    BY <1>1, <1>2 DEF Listed
  <1>5. Passed' = Passed \cup {Current}
    BY <1>1, <1>2
  <1>6. Coming' = Coming \ {Current}
    <2>1. ASSUME NEW row \in Coming'
          PROVE  row \in Coming \ {Current}
      BY <1>1, <1>2, <2>1 DEF Listed
    <2>2. ASSUME NEW row \in Coming \ {Current}
          PROVE  row \in Coming'
      BY <1>1, <1>2, <2>2
    <2> QED
      BY <2>1, <2>2
  <1> QED
    BY <1>1, <1>3, <1>4, <1>5, <1>6

LEMMA QueueGrows ==
  ASSUME TypeOK, QueuesAreSound, WalkIsSound, NEW row \in unused,
         queue' = Append(queue, row), run' = run
  PROVE  /\ Passed' = Passed /\ Coming' = Coming \cup {row} /\ row \notin run.counted
         /\ run.pc \in AtRow => Current' = Current
  <1>1. /\ queue \in Seq(Row) /\ Len(queue) \in Nat /\ Here \in 1 .. Len(queue) + 1
        /\ Here' = Here /\ row \in Row
    BY QueueType, Positions DEF Here, TypeOK
  <1> DEFINE r == Append(queue, row)
  <1>2. /\ Len(r) = Len(queue) + 1 /\ r[Len(queue) + 1] = row
        /\ \A i \in 1 .. Len(queue) : r[i] = queue[i]
    BY <1>1
  <1> HIDE DEF r
  <1>3. Passed' = {r[i] : i \in 1 .. Here - 1} /\ Coming' = {r[i] : i \in Here .. Len(r)}
    BY <1>1 DEF Passed, Coming, r
  <1>4. Passed' = Passed
    BY <1>1, <1>2, <1>3 DEF Passed
  <1>5. Coming' = Coming \cup {row}
    BY <1>1, <1>2, <1>3 DEF Coming
  <1>6. run.pc \in AtRow => Current' = Current
    BY <1>2, CurrentIsRow DEF Current, r
  <1>7. row \notin run.counted
    BY DEF WalkIsSound
  <1> QED
    BY <1>4, <1>5, <1>6, <1>7

\* Where each shape of step leaves the walk.
LEMMA HereMoves ==
  ASSUME TypeOK
  PROVE  /\ \/ Looped \/ Admitted \/ Checked \/ Begun \/ Walked \/ GivenUp \/ Fetches
            \/ Settles \/ Raised
            => Here' = Here
         /\ PassedOver \/ Failed \/ Expanded
            => Here' = run.index + 1 /\ run.pc \in {"row", "resolve"}
  <1>1. run \in RunType
    BY DEF TypeOK
  <1>2. Looped \/ Admitted \/ Checked \/ Begun => Here' = Here
    BY <1>1 DEF Looped, Admitted, Checked, Begun, Here, RunType
  <1>3. Walked \/ GivenUp \/ Fetches \/ Settles => Here' = Here
    BY <1>1 DEF Walked, GivenUp, Fetches, Settles, InTracks, Here, RunType
  <1>4. Raised => Here' = Here
    BY <1>1 DEF Raised, InTracks, AtRow, Here, RunType
  <1>5. PassedOver \/ Failed => Here' = run.index + 1 /\ run.pc \in {"row", "resolve"}
    BY <1>1 DEF PassedOver, Failed, Here, RunType
  <1>6. Expanded => Here' = run.index + 1 /\ run.pc \in {"row", "resolve"}
    BY <1>1 DEF Expanded, Here, RunType
  <1> QED
    BY <1>2, <1>3, <1>4, <1>5, <1>6

\* What a call leaves of the walk, if it does not start a run or edit its queue.
LEMMA CallAside ==
  ASSUME TypeOK, QueuesAreSound, CallsAreSound, WalkIsSound, Aside \/ Joins \/ Rebinds \/ Swaps
  PROVE  \/ /\ run' = run /\ slot' = slot /\ Passed' = Passed
            /\ run.pc \in AtRow => Current' = Current
            /\ \/ Coming' = Coming
               \/ \E row \in unused : row \notin run.counted /\ Coming' = Coming \cup {row}
         \/ /\ slot' = slot /\ run'.edited = Running
            /\ run'.ran = run.ran /\ run'.pc = run.pc
  <1>1. /\ slot' = slot
        /\ \/ /\ run' = run
              /\ \/ queue' = queue
                 \/ \E row \in unused : queue' = Append(queue, row)
           \/ run' = [run EXCEPT !.ref = run'.ref, !.edited = Running]
    BY WalkSees
  <1>2. CASE run' = run /\ queue' = queue
    <2>1. Here' = Here
      BY <1>2 DEF Here
    <2>2. Current' = Current
      BY <1>2 DEF Current
    <2> QED
      BY <1>1, <1>2, <2>1, <2>2, StandsStill
  <1>3. CASE run' = run /\ \E row \in unused : queue' = Append(queue, row)
    BY <1>1, <1>3, QueueGrows
  <1>4. CASE run' = [run EXCEPT !.ref = run'.ref, !.edited = Running]
    BY <1>1, <1>4 DEF TypeOK, RunType
  <1> QED
    BY <1>1, <1>2, <1>3, <1>4

LEMMA RanStep ==
  ASSUME TypeOK, QueuesAreSound, CallsAreSound, WalkIsSound, RanIsBehind, [Next]_vars
  PROVE  RanIsBehind'
  <1>0. run \in RunType /\ run.ran \in [Row -> Nat]
    BY DEF TypeOK, RunType
  <1>1. CASE UNCHANGED vars
    BY <1>1 DEF vars, queueVars, RanIsBehind, Passed, Current, queue, Rows, Here
  <1>2. CASE (Walk \/ Fatal) /\ ~Finish
    <2>1. queue' = queue /\ run'.edited = run.edited
      BY <1>2, WalkKeepsRef
    <2>2. CASE Looped \/ Admitted \/ Checked \/ Walked \/ GivenUp \/ Fetches \/ Settles
      <3>1. Passed' = Passed
        BY <2>1, <2>2, HereMoves, StandsStill
      <3>2. run'.ran = run.ran /\ run.pc \notin {"finish", "resolve"}
        BY <1>0, <2>2 DEF Looped, Admitted, Checked, Walked, GivenUp, Fetches, Settles, InTracks, RunType
      <3> QED
        BY <2>1, <3>1, <3>2 DEF RanIsBehind
    <2>3. CASE PassedOver \/ Failed \/ Expanded
      <3>1. Passed' = Passed \cup {Current}
        BY <2>1, <2>3, HereMoves, GoesOneOn
      <3>2. run'.ran = run.ran /\ run.pc # "finish"
        BY <1>0, <2>3 DEF PassedOver, Failed, Expanded, RunType
      <3> QED
        BY <2>1, <3>1, <3>2 DEF RanIsBehind
    <2>4. CASE Begun
      <3>1. Passed' = Passed /\ Current' = Current
        BY <1>0, <2>1, <2>4, HereMoves, StandsStill DEF Begun, Current, RunType
      <3>2. /\ run'.pc = "resolve" /\ run.pc = "row"
            /\ run'.ran = [run.ran EXCEPT ![Current] = run.ran[Current] + 1]
        BY <1>0, <2>4 DEF Begun, RunType
      <3>3. Current \in Row /\ Current \notin Passed
        <4>1. run.index \in 1 .. Len(queue) /\ Current \in Row /\ Here = run.index
          BY <3>2, CurrentIsRow DEF AtRow, Here
        <4>2. Current \in Coming
          BY <4>1, QueueType DEF Coming, Current
        <4> QED
          BY <4>1, <4>2, Positions
      <3>4. ~run.edited => run.ran[Current] = 0
        BY <1>0, <3>2, <3>3 DEF RanIsBehind
      <3>5. \A row \in Row : run'.ran[row] = IF row = Current THEN run.ran[row] + 1 ELSE run.ran[row]
        BY <1>0, <3>2, <3>3
      <3> QED
        BY <2>1, <3>1, <3>2, <3>3, <3>4, <3>5 DEF RanIsBehind
    <2>5. CASE Raised
      <3>1. run'.ran = run.ran /\ run'.pc = "finish"
        BY <1>0, <2>5 DEF Raised, RunType
      <3> QED
        BY <2>1, <3>1 DEF RanIsBehind
    <2> QED
      BY <1>2, <2>2, <2>3, <2>4, <2>5, WalkShape
  <1>3. CASE Finish
    BY <1>3 DEF Finish, NoRunYet, RanIsBehind
  <1>4. ASSUME NEW c \in Callers, Call(c)
        PROVE  RanIsBehind'
    <2>1. CASE Starts
      BY <2>1, StartedRun DEF RanIsBehind
    <2>2. CASE Aside \/ Joins \/ Rebinds \/ Swaps
      <3>1. CASE run' = run /\ Passed' = Passed /\ (run.pc \in AtRow => Current' = Current)
        BY <3>1 DEF RanIsBehind, AtRow
      <3>2. CASE run'.edited = Running /\ run'.ran = run.ran
        BY <3>2 DEF RanIsBehind, WalkIsSound, TypeOK
      <3> QED
        BY <2>2, <3>1, <3>2, CallAside
    <2> QED
      BY <1>4, <2>1, <2>2, CallShape
  <1> QED
    BY <1>1, <1>2, <1>3, <1>4 DEF Next

LEMMA EndStep ==
  ASSUME TypeOK, QueuesAreSound, CallsAreSound, WalkIsSound, EndIsReached, [Next]_vars
  PROVE  EndIsReached'
  <1>0. run \in RunType
    BY DEF TypeOK
  <1>1. CASE UNCHANGED vars
    BY <1>1 DEF vars, queueVars, controls, EndIsReached, Outstanding, Coming, queue, Rows, Here, me
  <1>2. CASE (Walk \/ Fatal) /\ ~Finish
    <2>1. queue' = queue /\ UNCHANGED <<slot, cancelled>>
      BY <1>2, WalkKeepsRef, WalkShape DEF controls
    <2>2. CASE Looped
      <3>1. run'.pc = "finish" => me \in cancelled
        BY <1>0, <2>2 DEF Looped, RunType
      <3> QED
        BY <2>1, <3>1 DEF EndIsReached, me
    <2>3. CASE Checked
      <3>1. run'.pc = "finish" => run.index > Len(queue)
        BY <1>0, <2>3 DEF Checked, RunType
      <3>2. run.pc = "check" /\ Here' = Here /\ run.index \in Nat /\ Len(queue) \in Nat
        BY <1>0, <2>3, HereMoves, QueueType DEF Checked, RunType
      <3>3. run'.pc = "finish" => Coming = {}
        BY <3>1, <3>2 DEF Coming, Here
      <3>4. Coming' = Coming
        BY <2>1, <3>2, StandsStill
      <3> QED
        BY <3>3, <3>4 DEF EndIsReached, Outstanding
    <2>4. CASE Raised
      <3>1. run'.fatal
        BY <1>0, <2>4 DEF Raised, RunType
      <3> QED
        BY <3>1 DEF EndIsReached
    <2>5. CASE Admitted \/ PassedOver \/ Begun \/ Failed \/ Expanded \/ Walked \/ GivenUp \/ Fetches \/ Settles
      <3>1. run'.pc # "finish"
        BY <1>0, <2>5 DEF Admitted, PassedOver, Begun, Failed, Expanded, Walked, GivenUp, Fetches,
           Settles, RunType
      <3> QED
        BY <3>1 DEF EndIsReached
    <2> QED
      BY <1>2, <2>2, <2>3, <2>4, <2>5, WalkShape
  <1>3. CASE Finish
    BY <1>3 DEF Finish, NoRunYet, EndIsReached
  <1>4. ASSUME NEW c \in Callers, Call(c)
        PROVE  EndIsReached'
    <2>1. CASE Starts
      BY <2>1, StartedRun DEF EndIsReached
    <2>2. CASE Aside \/ Joins \/ Rebinds \/ Swaps
      <3>1. ASSUME run' = run, slot' = slot,
                   \/ Coming' = Coming
                   \/ \E row \in unused : row \notin run.counted /\ Coming' = Coming \cup {row}
            PROVE  EndIsReached'
        <4>1. Outstanding' = Outstanding
          BY <3>1 DEF Outstanding
        <4>2. me \in cancelled => me' \in cancelled'
          BY <1>4, <3>1, CallShape DEF Heeds, me
        <4> QED
          BY <3>1, <4>1, <4>2 DEF EndIsReached
      <3>2. CASE run'.edited = Running /\ run'.pc = run.pc
        BY <3>2 DEF EndIsReached, TypeOK
      <3> QED
        BY <2>2, <3>1, <3>2, CallAside
    <2> QED
      BY <1>4, <2>1, <2>2, CallShape
  <1> QED
    BY <1>1, <1>2, <1>3, <1>4 DEF Next

-----------------------------------------------------------------------------
(* The books *)

LEMMA PassedStep ==
  ASSUME TypeOK, QueuesAreSound, CallsAreSound, WalkIsSound, PassedIsBooked, [Next]_vars
  PROVE  PassedIsBooked'
  <1>0. run \in RunType
    BY DEF TypeOK
  <1>1. CASE UNCHANGED vars
    BY <1>1 DEF vars, queueVars, PassedIsBooked, Passed, queue, Rows, Here, Running
  <1>2. CASE (Walk \/ Fatal) /\ ~Finish
    <2>1. queue' = queue /\ run'.edited = run.edited /\ slot' = slot
      BY <1>2, WalkKeepsRef, WalkShape
    <2>2. CASE Looped \/ Admitted \/ Checked \/ Begun \/ Walked \/ GivenUp \/ Fetches
               \/ Settles \/ Raised
      <3>1. Passed' = Passed
        BY <2>1, <2>2, HereMoves, StandsStill
      <3>2. /\ run'.unpaid = run.unpaid /\ run'.barren = run.barren
            /\ run.counted \subseteq run'.counted
        <4>1. CASE Admitted
          BY <1>0, <4>1 DEF Admitted, RunType
        <4>2. CASE Looped \/ Checked \/ Begun \/ Walked \/ GivenUp
          BY <1>0, <4>2 DEF Looped, Checked, Begun, Walked, GivenUp, RunType
        <4>3. CASE Fetches \/ Settles \/ Raised
          BY <1>0, <4>3 DEF Fetches, Settles, Raised, RunType
        <4> QED
          BY <2>2, <4>1, <4>2, <4>3
      <3> QED
        BY <2>1, <3>1, <3>2 DEF PassedIsBooked, Running
    <2>3. CASE PassedOver \/ Failed \/ Expanded
      <3>1. Passed' = Passed \cup {Current} /\ Current \notin Passed
        BY <2>1, <2>3, HereMoves, GoesOneOn
      <3>2. CASE PassedOver
        <4>1. /\ run'.unpaid = run.unpaid /\ run'.barren = run.barren \cup {Current}
              /\ run'.counted = run.counted \ {Current}
          BY <1>0, <3>2 DEF PassedOver, RunType
        <4> QED
          BY <2>1, <3>1, <4>1 DEF PassedIsBooked, Running
      <3>3. CASE Failed \/ Expanded
        <4>1. /\ run'.barren = run.barren /\ run.counted \subseteq run'.counted
              /\ run'.unpaid = run.unpaid \cup ({Current} \ run'.counted)
          <5>1. CASE Failed
          BY <1>0, <5>1 DEF Failed, RunType
        <5>2. CASE Expanded
          <6>1. PICK n \in 1 .. MaxTracks :
                  LET new == {Current} \ (skippedRow \cup run.counted)
                      counted == run.counted \cup new
                  IN  run' = [run EXCEPT !.counted = counted,
                                         !.unpaid = run.unpaid \cup ({Current} \ counted),
                                         !.pc = "tracks", !.left = n,
                                         !.total = run.total + Cardinality(new) + n - 1]
            BY <5>2 DEF Expanded
          <6> QED
            BY <1>0, <6>1 DEF RunType
        <5> QED
          BY <3>3, <5>1, <5>2
        <4> QED
          BY <2>1, <3>1, <4>1 DEF PassedIsBooked, Running
      <3> QED
        BY <2>3, <3>2, <3>3
    <2> QED
      BY <1>2, <2>2, <2>3, WalkShape
  <1>3. CASE Finish
    BY <1>3 DEF Finish, PassedIsBooked, Running
  <1>4. ASSUME NEW c \in Callers, Call(c)
        PROVE  PassedIsBooked'
    <2>1. CASE Starts
      <3>1. Here' = 1 /\ run'.unpaid = {} /\ run'.barren = {}
        BY <2>1, StartedRun DEF Here
      <3>2. Passed' = {}
        BY <3>1 DEF Passed
      <3> QED
        BY <3>1, <3>2 DEF PassedIsBooked
    <2>2. CASE Aside \/ Joins \/ Rebinds \/ Swaps
      <3>1. CASE run' = run /\ slot' = slot /\ Passed' = Passed
        BY <3>1 DEF PassedIsBooked, Running
      <3>2. CASE run'.edited = Running /\ slot' = slot
        BY <3>2 DEF PassedIsBooked, Running
      <3> QED
        BY <2>2, <3>1, <3>2, CallAside
    <2> QED
      BY <1>4, <2>1, <2>2, CallShape
  <1> QED
    BY <1>1, <1>2, <1>3, <1>4 DEF Next

\* The ledger's two other sets: work nobody counted beforehand, and counts that a row
\* without work still holds.
Extra == run.unpaid \ run.counted
Void  == run.barren \cap run.counted

\* The ledger while a run goes on and its queue is not edited.
Balance ==
    run.total + Cardinality(Extra)
        = run.done + run.dropped + run.left + Cardinality(Outstanding) + Cardinality(Void)

LEMMA BooksType ==
  ASSUME TypeOK, QueuesAreSound, WalkIsSound
  PROVE  /\ run.total \in Nat /\ run.done \in Nat /\ run.dropped \in Nat /\ run.left \in Nat
         /\ Extra \in SUBSET Row /\ Outstanding \in SUBSET Row /\ Void \in SUBSET Row
         /\ Cardinality(Extra) \in Nat /\ Cardinality(Outstanding) \in Nat
         /\ Cardinality(Void) \in Nat
  <1>1. run \in RunType /\ Coming \in SUBSET Row
    BY Positions DEF TypeOK
  <1>2. Extra \in SUBSET Row /\ Outstanding \in SUBSET Row /\ Void \in SUBSET Row
    BY <1>1 DEF Extra, Outstanding, Void, RunType
  <1> QED
    BY <1>1, <1>2, RowsAreFinite, MaxTracksAssumption DEF RunType

\* Counting the rows the list grew by moves work that was extra, makes a count void, or
\* makes a row outstanding: nothing else.
LEMMA AdmittedBalances ==
  ASSUME TypeOK, QueuesAreSound, WalkIsSound, PassedIsBooked, Running, ~run.edited,
         Admitted, queue' = queue, Balance
  PROVE  Balance'
  <1>0. run \in RunType /\ run.counted \in SUBSET Row
    BY DEF TypeOK, RunType
  <1> DEFINE new == Uncounted
             nu == new \cap run.unpaid
             nb == new \cap run.barren
             nc == new \cap Coming
  <1>1. /\ run'.counted = run.counted \cup new /\ run'.total = run.total + Cardinality(new)
        /\ run'.done = run.done /\ run'.dropped = run.dropped /\ run'.left = run.left
        /\ run'.unpaid = run.unpaid /\ run'.barren = run.barren
    BY <1>0 DEF Admitted, RunType
  <1>2. Passed' = Passed /\ Coming' = Coming
    BY HereMoves, StandsStill
  <1>3. new \in SUBSET Row /\ new \cap run.counted = {} /\ new \subseteq Passed \cup Coming
    <2>1. run.seen \in Nat /\ queue \in Seq(Row)
      BY <1>0, QueueType DEF RunType
    <2>2. \A i \in 1 .. Len(queue) : queue[i] \in Passed \cup Coming /\ queue[i] \in Row
      BY <2>1, Positions
    <2> QED
      BY <2>1, <2>2, QueueType DEF Uncounted
  <1> HIDE DEF new
  <1>4. Passed \cap Coming = {}
    BY Positions
  <1>5. /\ new = nu \cup nb \cup nc /\ nu \cap nb = {} /\ (nu \cup nb) \cap nc = {}
    BY <1>3, <1>4 DEF PassedIsBooked
  <1>6. /\ Extra = Extra' \cup nu /\ Extra' \cap nu = {}
        /\ Void' = Void \cup nb /\ Void \cap nb = {}
        /\ Outstanding' = Outstanding \cup nc /\ Outstanding \cap nc = {}
    BY <1>1, <1>2, <1>3 DEF Extra, Void, Outstanding
  <1>7. /\ nu \in SUBSET Row /\ nb \in SUBSET Row /\ nc \in SUBSET Row
        /\ Extra' \in SUBSET Row /\ nu \cup nb \in SUBSET Row
        /\ Void \in SUBSET Row /\ Outstanding \in SUBSET Row
    BY <1>3, <1>6, BooksType
  <1> HIDE DEF nu, nb, nc
  <1> DEFINE x == Extra'
  <1> HIDE DEF x
  <1>8. x \in SUBSET Row /\ Extra = x \cup nu /\ x \cap nu = {}
    BY <1>6, <1>7 DEF x
  <1>9. /\ Cardinality(new) = Cardinality(nu) + Cardinality(nb) + Cardinality(nc)
        /\ Cardinality(nu) \in Nat /\ Cardinality(nb) \in Nat /\ Cardinality(nc) \in Nat
    <2>1. Cardinality(nu \cup nb) = Cardinality(nu) + Cardinality(nb)
      BY <1>5, <1>7, SizesAdd
    <2>2. Cardinality((nu \cup nb) \cup nc) = Cardinality(nu \cup nb) + Cardinality(nc)
      BY <1>5, <1>7, SizesAdd
    <2>3. Cardinality(nu) \in Nat /\ Cardinality(nb) \in Nat /\ Cardinality(nc) \in Nat
      BY <1>7, RowsAreFinite
    <2> QED
      BY <1>5, <2>1, <2>2, <2>3
  <1>10. Cardinality(Extra) = Cardinality(x) + Cardinality(nu) /\ Cardinality(x) \in Nat
    BY <1>7, <1>8, SizesAdd, RowsAreFinite
  <1>11. Cardinality(Void') = Cardinality(Void) + Cardinality(nb)
    BY <1>6, <1>7, SizesAdd
  <1>12. Cardinality(Outstanding') = Cardinality(Outstanding) + Cardinality(nc)
    BY <1>6, <1>7, SizesAdd
  <1>13. run'.total + Cardinality(x)
           = run'.done + run'.dropped + run'.left + Cardinality(Outstanding') + Cardinality(Void')
    <2>1. /\ run.total \in Nat /\ run.done \in Nat /\ run.dropped \in Nat /\ run.left \in Nat
          /\ Cardinality(Extra) \in Nat /\ Cardinality(Outstanding) \in Nat
          /\ Cardinality(Void) \in Nat
      BY BooksType
    <2>2. run.total + Cardinality(x) + Cardinality(nu)
            = run.done + run.dropped + run.left + Cardinality(Outstanding) + Cardinality(Void)
      BY <1>9, <1>10, <2>1 DEF Balance
    <2>3. run'.total = run.total + Cardinality(nu) + Cardinality(nb) + Cardinality(nc)
      BY <1>1, <1>9, <2>1
    <2> DEFINE o == Cardinality(Outstanding')
               v == Cardinality(Void')
    <2>4. o = Cardinality(Outstanding) + Cardinality(nc) /\ v = Cardinality(Void) + Cardinality(nb)
      BY <1>11, <1>12
    <2> HIDE DEF o, v
    <2>5. run'.total + Cardinality(x) = run'.done + run'.dropped + run'.left + o + v
      <3>1. run'.done = run.done /\ run'.dropped = run.dropped /\ run'.left = run.left
        BY <1>1
      <3> DEFINE d == run.done + run.dropped + run.left
      <3>2. d \in Nat /\ run'.done + run'.dropped + run'.left = d
        BY <2>1, <3>1
      <3>3. run.total + Cardinality(x) + Cardinality(nu) = d + Cardinality(Outstanding) + Cardinality(Void)
        BY <2>2
      <3> HIDE DEF d
      <3>4. run'.total + Cardinality(x) = d + o + v
        BY <1>9, <1>10, <2>1, <2>3, <2>4, <3>2, <3>3
      <3> QED
        BY <3>2, <3>4
    <2> QED
      BY <2>5 DEF o, v
  <1> QED
    BY <1>13 DEF Balance, x

\* The walk goes on past a row: it was outstanding if it was counted, else it is extra
\* work, or it is counted now.
LEMMA RowBalances ==
  ASSUME TypeOK, QueuesAreSound, WalkIsSound, PassedIsBooked, Running, ~run.edited,
         PassedOver \/ Failed \/ Expanded, queue' = queue, Balance
  PROVE  Balance'
  <1>0. run \in RunType /\ run.counted \in SUBSET Row /\ run.left = 0
    <2>1. run.pc \in {"row", "resolve"}
      BY HereMoves
    <2> QED
      BY <2>1 DEF TypeOK, RunType, WalkIsSound, InTracks
  <1>1. /\ Current \in Row /\ Current \in Coming /\ Current \notin Passed
        /\ Coming' = Coming \ {Current}
    BY HereMoves, GoesOneOn
  <1>2. Current \notin run.unpaid /\ Current \notin run.barren
    BY <1>1 DEF PassedIsBooked
  <1> DEFINE C == Current
  <1> HIDE DEF C
  <1>3. C \in Row /\ C \in Coming /\ Coming' = Coming \ {C} /\ C \notin run.unpaid /\ C \notin run.barren
    BY <1>1, <1>2 DEF C
  <1>4. /\ Outstanding \ {C} \in SUBSET Row
        /\ C \in run.counted => Cardinality(Outstanding \ {C}) = Cardinality(Outstanding) - 1
    <2>1. C \in run.counted => C \in Outstanding
      BY <1>3 DEF Outstanding
    <2> QED
      BY <2>1, BooksType, OneLess
  <1>5. Cardinality(Extra \cup {C}) = Cardinality(Extra) + 1
    <2>1. C \notin Extra
      BY <1>3 DEF Extra
    <2> QED
      BY <1>3, <2>1, BooksType, OneMore
  <1>6. CASE PassedOver
    <2>1. /\ run'.counted = run.counted \ {C} /\ run'.barren = run.barren \cup {C}
          /\ run'.total = IF C \in run.counted THEN run.total - 1 ELSE run.total
          /\ run'.unpaid = run.unpaid
          /\ run'.done = run.done /\ run'.dropped = run.dropped /\ run'.left = 0
      BY <1>0, <1>6 DEF PassedOver, RunType, C
    <2>2. Extra' = Extra /\ Void' = Void
      BY <1>3, <2>1 DEF Extra, Void
    <2>3. Outstanding' = IF C \in run.counted THEN Outstanding \ {C} ELSE Outstanding
      BY <1>3, <2>1 DEF Outstanding
    <2> QED
      BY <1>0, <1>4, <2>1, <2>2, <2>3, BooksType DEF Balance
  <1>7. CASE Failed
    <2>1. /\ run'.counted = run.counted /\ run'.barren = run.barren /\ run'.total = run.total
          /\ run'.unpaid = run.unpaid \cup ({C} \ run.counted)
          /\ run'.done = run.done + 1 /\ run'.dropped = run.dropped /\ run'.left = 0
      BY <1>0, <1>7 DEF Failed, RunType, C
    <2>2. Void' = Void /\ Extra' = IF C \in run.counted THEN Extra ELSE Extra \cup {C}
      BY <1>3, <2>1 DEF Extra, Void
    <2>3. Outstanding' = IF C \in run.counted THEN Outstanding \ {C} ELSE Outstanding
      BY <1>3, <2>1 DEF Outstanding
    <2> QED
      BY <1>0, <1>4, <1>5, <2>1, <2>2, <2>3, BooksType DEF Balance
  <1>8. CASE Expanded
    <2> DEFINE new == {C} \ (skippedRow \cup run.counted)
    <2>1. PICK n \in 1 .. MaxTracks :
             run' = [run EXCEPT !.counted = run.counted \cup new,
                                !.unpaid = run.unpaid \cup ({C} \ (run.counted \cup new)),
                                !.pc = "tracks", !.left = n,
                                !.total = run.total + Cardinality(new) + n - 1]
      BY <1>8 DEF Expanded, C
    <2> HIDE DEF new
    <2>2. /\ run'.counted = run.counted \cup new /\ run'.barren = run.barren
          /\ run'.unpaid = run.unpaid \cup ({C} \ (run.counted \cup new))
          /\ run'.total = run.total + Cardinality(new) + n - 1
          /\ run'.done = run.done /\ run'.dropped = run.dropped /\ run'.left = n
      BY <1>0, <2>1 DEF RunType
    <2>3. n \in Nat
      BY MaxTracksAssumption
    <2>4. CASE C \in run.counted
      <3>1. new = {}
        BY <2>4 DEF new
      <3>2. Cardinality(new) = 0
        BY <3>1, FS_EmptySet
      <3>3. Void' = Void /\ Extra' = Extra /\ Outstanding' = Outstanding \ {C}
        BY <1>3, <2>2, <2>4, <3>1 DEF Extra, Void, Outstanding
      <3> QED
        BY <1>0, <1>4, <2>2, <2>3, <2>4, <3>2, <3>3, BooksType DEF Balance
    <2>5. CASE C \notin run.counted /\ C \notin skippedRow
      <3>1. new = {C}
        BY <2>5 DEF new
      <3>2. Cardinality(new) = 1
        BY <3>1, FS_Singleton
      <3>3. Void' = Void /\ Extra' = Extra /\ Outstanding' = Outstanding
        BY <1>3, <2>2, <2>5, <3>1 DEF Extra, Void, Outstanding
      <3> QED
        BY <1>0, <2>2, <2>3, <3>2, <3>3, BooksType DEF Balance
    <2>6. CASE C \notin run.counted /\ C \in skippedRow
      <3>1. new = {}
        BY <2>6 DEF new
      <3>2. Cardinality(new) = 0
        BY <3>1, FS_EmptySet
      <3>3. Void' = Void /\ Extra' = Extra \cup {C} /\ Outstanding' = Outstanding
        BY <1>3, <2>2, <2>6, <3>1 DEF Extra, Void, Outstanding
      <3> QED
        BY <1>0, <1>5, <2>2, <2>3, <3>2, <3>3, BooksType DEF Balance
    <2> QED
      BY <2>4, <2>5, <2>6
  <1> QED
    BY <1>6, <1>7, <1>8

\* A step of the walk inside a row settles a track, gives the rest of them up, or books
\* nothing.
LEMMA TrackBalances ==
  ASSUME TypeOK, QueuesAreSound, WalkIsSound, queue' = queue, Balance,
         \/ Looped \/ Checked \/ Begun \/ Walked \/ GivenUp \/ Fetches \/ Settles \/ Raised
  PROVE  Balance'
  <1>0. run \in RunType
    BY DEF TypeOK
  <1>1. Coming' = Coming
    BY HereMoves, StandsStill
  <1>2. /\ run'.counted = run.counted /\ run'.unpaid = run.unpaid /\ run'.barren = run.barren
        /\ run'.total = run.total
    <2>1. CASE Looped \/ Checked \/ Begun
      BY <1>0, <2>1 DEF Looped, Checked, Begun, RunType
    <2>2. CASE Walked \/ GivenUp \/ Fetches
      BY <1>0, <2>2 DEF Walked, GivenUp, Fetches, RunType
    <2>3. CASE Settles \/ Raised
      BY <1>0, <2>3 DEF Settles, Raised, RunType
    <2> QED
      BY <2>1, <2>2, <2>3
  <1>3. Extra' = Extra /\ Void' = Void /\ Outstanding' = Outstanding
    BY <1>1, <1>2 DEF Extra, Void, Outstanding
  <1>4. run'.done + run'.dropped + run'.left = run.done + run.dropped + run.left
    <2>1. CASE Looped \/ Checked \/ Begun \/ Walked \/ Fetches
      <3>1. CASE Looped \/ Checked \/ Begun
        BY <1>0, <3>1 DEF Looped, Checked, Begun, RunType
      <3>2. CASE Walked \/ Fetches
        BY <1>0, <3>2 DEF Walked, Fetches, RunType
      <3> QED
        BY <2>1, <3>1, <3>2
    <2>2. CASE GivenUp \/ Raised
      <3>1. run'.done = run.done /\ run'.dropped = run.dropped + run.left /\ run'.left = 0
        BY <1>0, <2>2 DEF GivenUp, Raised, RunType
      <3> QED
        BY <3>1, BooksType
    <2>3. CASE Settles
      <3>1. run'.done = run.done + 1 /\ run'.dropped = run.dropped /\ run'.left = run.left - 1
        BY <1>0, <2>3 DEF Settles, RunType
      <3> QED
        BY <3>1, BooksType
    <2> QED
      BY <2>1, <2>2, <2>3
  <1> QED
    BY <1>2, <1>3, <1>4 DEF Balance

LEMMA TotalStep ==
  ASSUME TypeOK, QueuesAreSound, CallsAreSound, WalkIsSound, PassedIsBooked, TotalIsAccounted,
         [Next]_vars
  PROVE  TotalIsAccounted'
  <1>0. TotalIsAccounted <=> (Running /\ ~run.edited => Balance)
    BY DEF TotalIsAccounted, Balance, Extra, Void
  <1>1. TotalIsAccounted' <=> (Running' /\ ~run'.edited => Balance')
    BY DEF TotalIsAccounted, Balance, Extra, Void
  <1>2. CASE UNCHANGED vars
    <2>1. Coming' = Coming /\ run' = run /\ slot' = slot
      BY <1>2 DEF vars, queueVars, Coming, queue, Rows, Here
    <2> QED
      BY <1>0, <1>1, <2>1 DEF Balance, Extra, Void, Outstanding, Running
  <1>3. CASE (Walk \/ Fatal) /\ ~Finish
    <2>1. queue' = queue /\ run'.edited = run.edited /\ slot' = slot
      BY <1>3, WalkKeepsRef, WalkShape
    <2>2. Running /\ ~run.edited => Balance'
      BY <1>0, <1>3, <2>1, WalkShape, AdmittedBalances, RowBalances, TrackBalances
    <2> QED
      BY <1>1, <2>1, <2>2 DEF Running
  <1>4. CASE Finish
    BY <1>1, <1>4 DEF Finish, Running
  <1>5. ASSUME NEW c \in Callers, Call(c)
        PROVE  TotalIsAccounted'
    <2>1. CASE Starts
      <3>1. Extra' = {} /\ Void' = {} /\ Outstanding' = {}
        BY <2>1, StartedRun DEF Extra, Void, Outstanding
      <3>2. Cardinality(Extra') = 0 /\ Cardinality(Void') = 0 /\ Cardinality(Outstanding') = 0
        BY <3>1, FS_EmptySet
      <3>3. run'.total = 0 /\ run'.done = 0 /\ run'.dropped = 0 /\ run'.left = 0
        BY <2>1, StartedRun
      <3> QED
        BY <1>1, <3>2, <3>3 DEF Balance
    <2>2. CASE Aside \/ Joins \/ Rebinds \/ Swaps
      <3>1. ASSUME run' = run, slot' = slot,
                   \/ Coming' = Coming
                   \/ \E row \in unused : row \notin run.counted /\ Coming' = Coming \cup {row}
            PROVE  TotalIsAccounted'
        <4>1. Outstanding' = Outstanding /\ Extra' = Extra /\ Void' = Void
          BY <3>1 DEF Outstanding, Extra, Void
        <4> QED
          BY <1>0, <1>1, <3>1, <4>1 DEF Balance, Running
      <3>2. CASE run'.edited = Running /\ slot' = slot
        BY <1>1, <3>2 DEF Running
      <3> QED
        BY <2>2, <3>1, <3>2, CallAside
    <2> QED
      BY <1>5, <2>1, <2>2, CallShape
  <1> QED
    BY <1>2, <1>3, <1>4, <1>5 DEF Next

-----------------------------------------------------------------------------
(* The invariant *)

LEMMA InitIndInv == Init => IndInv
  <1> SUFFICES ASSUME Init
               PROVE  IndInv
    OBVIOUS
  <1>0. /\ batch = <<>> /\ run = NoRunYet /\ slot = NoRunner
        /\ run.pc = "off" /\ run.index = 1 /\ run.seen = 0 /\ run.counted = {} /\ run.left = 0
        /\ run.late = 0 /\ ~run.edited /\ run.ran = [r \in Row |-> 0] /\ run.ref = Live
    BY DEF Init, NoRunYet
  <1>1. Booked(run)
    BY <1>0, NoRunYetIsBooked
  <1>2. caller \in [Callers -> CallType] /\ \A k \in Callers : caller[k] = Idle
    BY IdleType DEF Init
  <1>3. TypeOK
    BY <1>0, <1>1, <1>2 DEF TypeOK, Init, Booked, Running
  <1>4. QueuesAreSound
    BY <1>0, <1>2, EmptyIsListed DEF QueuesAreSound, Idle, Live
  <1>5. CallsAreSound
    BY <1>2 DEF CallsAreSound, Idle
  <1>6. queue = <<>> /\ Len(queue) = 0
    BY <1>0 DEF queue, Rows, Live
  <1>7. WalkIsSound
    BY <1>0, <1>1, <1>6 DEF WalkIsSound, AtRow, InTracks
  <1>8. LateIsTheLast /\ RanIsBehind /\ EndIsReached
    BY <1>0 DEF LateIsTheLast, RanIsBehind, EndIsReached
  <1>9. NothingGivenUpSilently /\ PassedIsBooked /\ TotalIsAccounted
    BY <1>0 DEF NothingGivenUpSilently, PassedIsBooked, TotalIsAccounted, Running
  <1> QED
    BY <1>3, <1>4, <1>5, <1>7, <1>8, <1>9 DEF IndInv

LEMMA IndInvStep == IndInv /\ [Next]_vars => IndInv'
  <1> SUFFICES ASSUME IndInv, [Next]_vars
               PROVE  IndInv'
    OBVIOUS
  <1>0. /\ TypeOK /\ QueuesAreSound /\ CallsAreSound /\ WalkIsSound /\ LateIsTheLast
        /\ NothingGivenUpSilently /\ RanIsBehind /\ EndIsReached /\ PassedIsBooked
        /\ TotalIsAccounted
    BY DEF IndInv
  <1>1. TypeOK'
    BY <1>0, TypeStep
  <1>2. QueuesAreSound'
    BY <1>0, QueuesStep
  <1>3. CallsAreSound'
    <2>1. CASE UNCHANGED caller
      BY <1>0, <2>1 DEF CallsAreSound
    <2>2. CASE UNCHANGED vars
      BY <2>1, <2>2 DEF vars
    <2>3. CASE Walk \/ Fatal
      <3>1. CASE Finish
        BY <2>1, <3>1 DEF Finish
      <3>2. CASE ~Finish
        BY <1>0, <2>1, <2>3, <3>2, WalkShape
      <3> QED
        BY <3>1, <3>2
    <2>4. CASE \E c \in Callers : Call(c)
      BY <1>0, <2>4, CallsStep
    <2> QED
      BY <2>2, <2>3, <2>4 DEF Next
  <1>4. WalkIsSound'
    BY <1>0, <1>1, WalkStep
  <1>5. LateIsTheLast' /\ NothingGivenUpSilently'
    BY <1>0, <1>1, LateStep, GivenUpStep
  <1>6. RanIsBehind' /\ EndIsReached'
    BY <1>0, RanStep, EndStep
  <1>7. PassedIsBooked' /\ TotalIsAccounted'
    BY <1>0, PassedStep, TotalStep
  <1> QED
    BY <1>1, <1>2, <1>3, <1>4, <1>5, <1>6, <1>7 DEF IndInv

LEMMA InvariantHolds == Spec => []IndInv
  BY InitIndInv, IndInvStep, PTL DEF Spec

-----------------------------------------------------------------------------
(* Theorems *)

\* Every variable keeps its type, and a run is in progress exactly while its job holds
\* the slot.
THEOREM TypeCorrect == Spec => []TypeOK
  <1>1. IndInv => TypeOK
    BY DEF IndInv
  <1> QED
    BY <1>1, InvariantHolds, PTL

\* Whatever rows join, are skipped, turn out empty or hold many tracks, and whenever the
\* run is cancelled or raises, the progress bar's total is what was done, given up, is
\* left of this row and is still to come (_admit, _withdraw, _set_total).
THEOREM TotalIsKept == Spec => []TotalIsAccounted
  <1>1. IndInv => TotalIsAccounted
    BY DEF IndInv
  <1> QED
    BY <1>1, InvariantHolds, PTL

\* The walk over the live list runs no row twice, and a run that ends by itself has
\* passed every row it counted, for any queue and any calls that join rows to it.
THEOREM WalkMissesNoRow == Spec => []EveryRowOnce
  <1>1. IndInv => EveryRowOnce
    BY DEF IndInv, RanIsBehind, EndIsReached, EveryRowOnce
  <1> QED
    BY <1>1, InvariantHolds, PTL

\* Tracks are dropped only after a cancel, a skip or a failure of this very run: no
\* control meant for another runner reaches it.
THEOREM TracksAreGivenUpOnRequest == Spec => []NothingGivenUpSilently
  <1>1. IndInv => NothingGivenUpSilently
    BY DEF IndInv
  <1> QED
    BY <1>1, InvariantHolds, PTL

\* After its cancel is set a run books at most one more piece of work, at whatever point
\* of a row the cancel falls and however it is paused and resumed around it.
THEOREM OneMoreAfterCancel == Spec => []CancelStopsAfterCurrent
  <1>1. IndInv => CancelStopsAfterCurrent
    BY DEF IndInv, LateIsTheLast, CancelStopsAfterCurrent
  <1> QED
    BY <1>1, InvariantHolds, PTL
=============================================================================
