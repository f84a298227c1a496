---------------------------- MODULE DownloadRows ----------------------------
(***************************************************************************)
(* The downloads table and the connections that write it. Every operation   *)
(* opens the database for itself, but the Watch List keeps the one it opened *)
(* first. Opening brings an older table up to date, column by column, and    *)
(* takes the unique index on the file's path if no file has two rows; what   *)
(* an open saw of the table decides how that connection writes ever after.   *)
(***************************************************************************)
EXTENDS Naturals, FiniteSets

CONSTANTS Paths,     \* files of the crate
          Added,     \* columns a later version added
          MaxRows,   \* bound: rows ever inserted
          MaxTrouble \* bound: statements another process's lock refuses

VARIABLES rows,    \* downloads: [n, path, know], know the columns that are not empty
          next,    \* the next row's number
          index,   \* idx_dl_file_path_unique exists
          absent,  \* columns of Added the table lacks
          cutoff,  \* watchlist still has scan_cutoff_date
          conn,    \* [Openers -> [pc, left, unique, legacy]]: _path_unique_index and _legacy_cutoff_column
          known,   \* history: [Paths -> what some row said of the file]
          refused, \* history: what was not written: a "download", a "scan", a "channel"
          trouble  \* (bounded)

vars == <<rows, next, index, absent, cutoff, conn, known, refused, trouble>>

Openers == {"watch", "batch", "maintenance"}
Columns == {"bitrate", "video"}
Closed == [pc |-> "closed", left |-> {}, unique |-> FALSE, legacy |-> FALSE]
Of(p) == {r \in rows : r.path = p}
Doubled(rs) == \E r, q \in rs : r # q /\ r.path = q.path

\* A table of any older version: some have two rows for a file, and no index.
Init == /\ \E first \in SUBSET Paths, second \in SUBSET Paths, a, b \in SUBSET Columns :
             /\ second \subseteq first
             /\ rows = {[n |-> 1, path |-> p, know |-> a] : p \in first}
                         \union {[n |-> 2, path |-> p, know |-> b] : p \in second}
             /\ index \in {FALSE, second = {}}
        /\ next = 3 /\ absent \in {{}, Added} /\ cutoff \in BOOLEAN
        /\ conn = [i \in Openers |-> Closed]
        /\ known = [p \in Paths |-> UNION {r.know : r \in Of(p)}] /\ refused = {} /\ trouble = 0

Set(i, c) == conn' = [conn EXCEPT ![i] = c]
Locked == trouble < MaxTrouble /\ trouble' = trouble + 1
table == <<rows, next, known, refused>>

-----------------------------------------------------------------------------
(* Opening: _init_schema, each statement on its own, and                    *)
(* _try_unique_path_index.                                                  *)

Open(i) == /\ conn[i].pc = "closed" /\ Set(i, [Closed EXCEPT !.pc = "alter", !.left = Added])
           /\ UNCHANGED <<table, index, absent, cutoff, trouble>>

\* ADD COLUMN: an error is taken to say that the column is there.
Alter(i) == /\ conn[i].pc = "alter" /\ conn[i].left # {}
            /\ \E c \in conn[i].left : /\ Set(i, [conn[i] EXCEPT !.left = @ \ {c}])
                                       /\ \/ absent' = absent \ {c} /\ UNCHANGED trouble
                                          \/ c \in absent /\ Locked /\ UNCHANGED absent
            /\ UNCHANGED <<table, index, cutoff>>

\* DROP COLUMN, and a look at whether it is gone.
DropCutoff(i) == /\ conn[i].pc = "alter" /\ conn[i].left = {}
                 /\ \/ cutoff' = FALSE /\ UNCHANGED trouble
                    \/ cutoff /\ Locked /\ UNCHANGED cutoff
                 /\ Set(i, [conn[i] EXCEPT !.pc = "index", !.legacy = cutoff'])
                 /\ UNCHANGED <<table, index, absent>>

TryUniquePathIndex(i) == /\ conn[i].pc = "index"
                         /\ \/ index' = (index \/ ~Doubled(rows)) /\ UNCHANGED trouble
                            \/ ~index /\ Locked /\ UNCHANGED index
                         /\ Set(i, [conn[i] EXCEPT !.pc = "open", !.unique = index'])
                         /\ UNCHANGED <<table, absent, cutoff>>

\* The Watch List's is kept.
Close(i) == /\ i # "watch" /\ conn[i].pc = "open" /\ Set(i, Closed)
            /\ UNCHANGED <<table, index, absent, cutoff, trouble>>

Kill == /\ conn' = [i \in Openers |-> Closed]
        /\ UNCHANGED <<table, index, absent, cutoff, trouble>>

-----------------------------------------------------------------------------
(* Writing. *)

\* A connection that saw the index upserts; one that did not inserts, which an
\* index made since refuses, and the error is logged. A column that is not there
\* refuses both.
Refused(i, ps) == absent # {} \/ (~conn[i].unique /\ index /\ \E p \in ps : Of(p) # {})
Upserts(i, p) == conn[i].unique /\ Of(p) # {}

New(i, ps, know) == {[n |-> next, path |-> p, know |-> know] : p \in {q \in ps : ~Upserts(i, q)}}
Upserted(i, ps, know) == {IF r.path \in ps /\ Upserts(i, r.path) THEN [r EXCEPT !.know = @ \union know] ELSE r :
                          r \in rows}
Learn(ps, know) == known' = [p \in Paths |-> IF p \in ps THEN known[p] \union know ELSE known[p]]

\* add_download: what the new download says wins, and what it does not say stays.
\* The WHERE of the index and the conflict's target are the same, so an upsert
\* never meets two rows.
Fetch(i) == /\ i \in {"watch", "batch"} /\ conn[i].pc = "open" /\ next <= MaxRows
            /\ \E p \in Paths, video \in BOOLEAN :
                 LET know == {"bitrate"} \union (IF video THEN {"video"} ELSE {}) IN
                 IF Refused(i, {p}) THEN refused' = refused \union {"download"} /\ UNCHANGED <<rows, known>>
                 ELSE /\ rows' = Upserted(i, {p}, know) \union New(i, {p}, know)
                      /\ Learn({p}, know) /\ UNCHANGED refused
            /\ next' = next + 1
            /\ UNCHANGED <<index, absent, cutoff, conn, trouble>>

\* backfill_downloads, from a scan that found the files: all of them or none, and
\* what the row knew of the track stays.
Backfill == /\ conn["watch"].pc = "open" /\ next <= MaxRows /\ next' = next + 1
            /\ \E ps \in SUBSET Paths :
                 IF Refused("watch", ps) THEN refused' = refused \union {"scan"} /\ UNCHANGED <<rows, known>>
                 ELSE /\ rows' = Upserted("watch", ps, {"video"}) \union New("watch", ps, {"video"})
                      /\ Learn(ps, {"video"}) /\ UNCHANGED refused
            /\ UNCHANGED <<index, absent, cutoff, conn, trouble>>

\* add_watchlist_channel: the old column is filled where the open saw it, and an
\* INSERT that names it fails where it has gone since.
AddChannel == /\ conn["watch"].pc = "open"
              /\ refused' = IF conn["watch"].legacy = cutoff THEN refused ELSE refused \union {"channel"}
              /\ UNCHANGED <<rows, next, index, absent, cutoff, conn, known, trouble>>

\* delete_downloads_by_paths: the file is in the Recycle Bin.
Delete == /\ conn["maintenance"].pc = "open"
          /\ \E p \in Paths : rows' = rows \ Of(p) /\ known' = [known EXCEPT ![p] = {}]
          /\ UNCHANGED <<next, index, absent, cutoff, conn, refused, trouble>>

-----------------------------------------------------------------------------
(* dedupe_downloads_by_path: with nothing running, in one transaction.      *)

\* _row_richness: a bitrate, then a video id, then the first row.
Has(r, c) == IF c \in r.know THEN 1 ELSE 0
Richness(r) == <<Has(r, "bitrate"), Has(r, "video"), MaxRows - r.n>>
Richer(r, q) == \E i \in 1 .. 3 : /\ Richness(r)[i] > Richness(q)[i]
                                  /\ \A j \in 1 .. (i - 1) : Richness(r)[j] = Richness(q)[j]
Keeper(p) == CHOOSE r \in Of(p) : \A q \in Of(p) \ {r} : Richer(r, q)

\* Mutant of Merged: what only the others knew is dropped.
MergedNone(p) == Keeper(p)
\* A column the survivor lacks comes from the others.
Merged(p) == [Keeper(p) EXCEPT !.know = UNION {r.know : r \in Of(p)}]

Dedupe == /\ conn["maintenance"].pc = "open" /\ conn["batch"].pc = "closed"
          /\ Doubled(rows) /\ absent = {}
          /\ rows' = {Merged(r.path) : r \in rows}
          /\ Set("maintenance", [conn["maintenance"] EXCEPT !.pc = "index"])
          /\ UNCHANGED <<next, index, absent, cutoff, known, refused, trouble>>

Opening == \E i \in Openers : Open(i) \/ Alter(i) \/ DropCutoff(i) \/ TryUniquePathIndex(i) \/ Close(i)
Next == Opening \/ Kill \/ (\E i \in Openers : Fetch(i)) \/ Backfill \/ AddChannel \/ Delete \/ Dedupe
Spec == Init /\ [][Next]_vars

-----------------------------------------------------------------------------
(* Properties *)

\* What some row said of a file is said until the file is deleted: by the one row
\* the de-dup leaves, and by a row a later download or scan writes over. Once the
\* index is there no file has two rows.
KnownIsKept == /\ \A p \in Paths : known[p] \subseteq UNION {r.know : r \in Of(p)}
               /\ index => ~Doubled(rows)

\* A completed download is recorded: with no other process in the way, its write is
\* never refused.
DownloadIsRecorded == trouble = 0 => "download" \notin refused

-----------------------------------------------------------------------------
(* The inductive invariant that the property follows from. *)

RowState == [n : Nat, path : Paths, know : SUBSET Columns]

TableTypes == /\ rows \subseteq RowState /\ next \in Nat /\ known \in [Paths -> SUBSET Columns]
              /\ \A r, q \in rows : r.path = q.path /\ r.n = q.n => r = q
              /\ \A r \in rows : r.n < next

TableInv == TableTypes /\ KnownIsKept
=============================================================================
