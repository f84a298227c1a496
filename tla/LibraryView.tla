---------------------------- MODULE LibraryView ----------------------------
(***************************************************************************)
(* The Database screen: db_groups and db_query of service.py over the      *)
(* queries of db.py, and the page's tree (Downloads) and flat tables       *)
(* (Artwork, Watch List) of web/app.js that show what they answer, one     *)
(* page of PageSize rows at a time, while the tables under them change.    *)
(***************************************************************************)
EXTENDS Integers, FiniteSets, Sequences

CONSTANTS Row,          \* what each row id carries: kind, buckets, sort keys, artwork
          Queries,      \* the table, preset, filters and sort the screen may be set to
          PageSize,
          MaxCalls,     \* calls on their way at once
          MaxOpens,     \* reloads and group expansions
          MaxChanges,   \* rows added, removed, sidecars lost and found
          MaxTrouble    \* statements that fail on a locked database

VARIABLES db,           \* ids in the tables
          gone,         \* ids whose recorded sidecar is not on disk
          view,         \* the node on screen
          calls,        \* db.groups and db.query calls on their way
          calm,         \* ghost: since the view was opened, nothing changed under it
          used

vars == <<db, gone, view, calls, calm, used>>

None == "none"
Uncounted == -1
Ids == DOMAIN Row
Flat(q) == q.table # "downloads"

(* _DL_BUCKET_SQL: a blank value is a bucket of its own, and a genre that is
   spelt "(none)" is in it. *)
Bucket(r, key) ==
    IF Row[r][key] = "" THEN IF key = "genre" THEN "(none)" ELSE "(unknown)" ELSE Row[r][key]

Hierarchy(preset) ==
    CASE preset = "platform, genre, channel" -> <<"platform", "genre", "channel">>
      [] preset = "genre, channel"           -> <<"genre", "channel">>
      [] preset = "channel"                  -> <<"channel">>
      [] preset = "platform, channel"        -> <<"platform", "channel">>

Pins(q, path) == [k \in DOMAIN q.root \cup {path[i].key : i \in DOMAIN path} |->
                    IF \E i \in DOMAIN path : path[i].key = k
                    THEN path[CHOOSE i \in DOMAIN path : path[i].key = k].value ELSE q.root[k]]

NextKey(q, path) ==
    LET free == SelectSeq(Hierarchy(q.preset), LAMBDA k : k \notin DOMAIN Pins(q, path))
    IN  IF free = <<>> THEN None ELSE Head(free)

\* Mutant of Under: by what the row holds, not by its bucket.
UnderRaw(r, pins) == \A k \in DOMAIN pins : Row[r][k] = pins[k]
Under(r, pins) == \A k \in DOMAIN pins : Bucket(r, k) = pins[k]

Broken(r) == Row[r].art /\ r \in gone

OfArtwork(r, filter) ==
    CASE filter = "All tracks" -> TRUE
      [] filter = "Missing artwork" -> ~Row[r].art
      [] filter = "Sidecar missing on disk" -> Broken(r)

(* The rows of one query: the WHERE clause of _downloads_filter_sql or
   _artwork_where_sql with its search, or the Watch List filtered in Python. *)
Where(q, path) ==
    {r \in db : /\ (Row[r].kind = "channel") = (q.table = "watchlist")
                /\ q.search => Row[r].hit
                /\ q.table = "downloads" => Under(r, Pins(q, path))
                /\ q.table = "artwork" => OfArtwork(r, q.filter)}

\* Mutant of TieUpwards: ties fall as they like.
TieUpwardsEither(q) == {FALSE, TRUE}
(* ORDER BY col dir, id dir; the Watch List is sorted in Python, stable over
   the order it was read in. Rows with one sort value are upwards by id or
   downwards, never either way. *)
TieUpwards(q) == {~q.desc \/ q.table = "watchlist"}

Sorted(S, Before(_, _)) ==
    [i \in 1..Cardinality(S) |-> CHOOSE r \in S : Cardinality({x \in S \ {r} : Before(x, r)}) = i - 1]

Orders(q, S) ==
    LET Before(up, a, b) ==
            LET x == Row[a][q.col]
                y == Row[b][q.col]
            IN  IF x = y THEN (a < b) = up ELSE (x < y) = ~q.desc
    IN  {Sorted(S, LAMBDA a, b : Before(up, a, b)) : up \in TieUpwards(q)}

(* LIMIT/OFFSET, and _broken_page's walk over the candidates. *)
Page(s, offset) ==
    SubSeq(s, offset + 1, IF offset + PageSize < Len(s) THEN offset + PageSize ELSE Len(s))

(* group_downloads: the next level that nothing pins, one row a bucket. *)
Groups(q, path) ==
    LET key == NextKey(q, path)
        S == Where(q, path)
    IN  {[key |-> b, count |-> Cardinality({r \in S : Bucket(r, key) = b})] :
            b \in {Bucket(r, key) : r \in S}}

Node(q, path, number, promised) ==
    [q |-> q, path |-> path, number |-> number, promised |-> promised, loaded |-> FALSE,
     groups |-> {}, rows |-> <<>>, offset |-> 0, total |-> 0]

Call(v, kind, offset, copy) ==
    [q |-> v.q, path |-> v.path, number |-> v.number, kind |-> kind, offset |-> offset,
     total |-> Uncounted, copy |-> copy]

(* A tree node is an object of its own and a flat table is not: an answer for a
   table lands in whatever that table shows by then. *)
Same(c, v) == IF Flat(v.q) THEN c.q.table = v.q.table ELSE c.number = v.number

Quiet(v) == ~\E c \in calls : Same(c, v)

Ask(v, kind, offset) ==
    LET copy == CHOOSE n \in 0..Cardinality(calls) : \A c \in calls : c.copy # n
    IN  /\ Cardinality(calls) < MaxCalls
        /\ calls' = calls \cup {Call(v, kind, offset, copy)}

FirstKind(q, path) == IF ~Flat(q) /\ NextKey(q, path) # None THEN "groups" ELSE "first"

Init == /\ db \in {Ids, Ids \ {CHOOSE r \in Ids : \A s \in Ids : s <= r}}
        /\ gone = {r \in Ids : Row[r].lost}
        /\ used = [opens |-> 0, changes |-> 0, trouble |-> 0]
        /\ \E q \in Queries : /\ view = Node(q, <<>>, 0, Uncounted)
                              /\ calls = {Call(view, FirstKind(q, <<>>), 0, 0)}
        /\ calm = TRUE

(* dbDownloadsReload, dbArtworkReload, dbWatchlistReload: a new filter, search,
   sort or refresh. The tree gets a new root; a flat table keeps its rows until
   the answer. *)
Reload(q) ==
    LET fresh == Node(q, <<>>, used.opens + 1, Uncounted)
        next == IF Flat(q) /\ view.q.table = q.table THEN [view EXCEPT !.q = q] ELSE fresh
    IN  /\ used.opens < MaxOpens
        /\ used' = [used EXCEPT !.opens = @ + 1]
        /\ view' = next
        /\ calm' = Quiet(next)
        /\ Ask(next, FirstKind(q, <<>>), 0)
        /\ UNCHANGED <<db, gone>>

(* dbToggleGroup. *)
Expand(g) ==
    LET path == Append(view.path, [key |-> NextKey(view.q, view.path), value |-> g.key])
        next == Node(view.q, path, used.opens + 1, g.count)
    IN  /\ view.loaded /\ used.opens < MaxOpens
        /\ used' = [used EXCEPT !.opens = @ + 1]
        /\ view' = next
        /\ Ask(next, FirstKind(view.q, path), 0)
        /\ UNCHANGED <<db, gone, calm>>

(* "Load more": nothing refuses a second click before the first answer. *)
More ==
    /\ view.loaded /\ view.offset < view.total
    /\ Ask(view, "more", view.offset)
    /\ calm' = (calm /\ Quiet(view))
    /\ UNCHANGED <<db, gone, view, used>>

(* count_downloads, count_artwork_rows: a statement of its own before the page,
   and 0 when it fails. *)
Count(c) ==
    /\ c.kind = "first" /\ c.total = Uncounted
    /\ \E fails \in {FALSE, TRUE} :
         /\ fails => used.trouble < MaxTrouble
         /\ used' = IF fails THEN [used EXCEPT !.trouble = @ + 1] ELSE used
         /\ calm' = (calm /\ ~(fails /\ Same(c, view)))
         /\ calls' = (calls \ {c}) \cup
               {[c EXCEPT !.total = IF fails THEN 0 ELSE Cardinality(Where(c.q, c.path))]}
    /\ UNCHANGED <<db, gone, view>>

(* query_downloads, query_artwork_rows and what the page does with the rows: the
   first page replaces, the next ones are put at the end of what is there. *)
Answer(c) ==
    /\ c.kind = "more" \/ (c.kind = "first" /\ c.total # Uncounted)
    /\ calls' = calls \ {c}
    /\ \E s \in Orders(c.q, Where(c.q, c.path)), fails \in {FALSE, TRUE} :
         LET page == IF fails THEN <<>> ELSE Page(s, c.offset)
         IN  /\ fails => used.trouble < MaxTrouble
             /\ used' = IF fails THEN [used EXCEPT !.trouble = @ + 1] ELSE used
             /\ view' = IF ~Same(c, view) THEN view
                        ELSE IF c.kind = "first"
                        THEN [view EXCEPT !.loaded = TRUE, !.rows = page, !.offset = Len(page),
                                          !.total = c.total]
                        ELSE [view EXCEPT !.rows = @ \o page, !.offset = @ + Len(page)]
    /\ UNCHANGED <<db, gone, calm>>

(* dbLoadGroups: a level without groups is asked for its rows. *)
AnswerGroups(c) ==
    LET found == Groups(c.q, c.path) IN
    /\ c.kind = "groups"
    /\ view' = IF Same(c, view) /\ found # {}
               THEN [view EXCEPT !.loaded = TRUE, !.groups = found] ELSE view
    /\ calls' = (calls \ {c}) \cup IF found = {} THEN {[c EXCEPT !.kind = "first"]} ELSE {}
    /\ UNCHANGED <<db, gone, calm, used>>

(* A download records a row, a rebuild drops one, a sidecar is deleted or saved. *)
Change ==
    /\ used.changes < MaxChanges
    /\ used' = [used EXCEPT !.changes = @ + 1]
    /\ calm' = FALSE
    /\ \E r \in Ids : \/ r \in db /\ db' = db \ {r} /\ UNCHANGED gone
                      \/ r \notin db /\ db' = db \cup {r} /\ UNCHANGED gone
                      \/ r \in gone /\ gone' = gone \ {r} /\ UNCHANGED db
                      \/ r \notin gone /\ gone' = gone \cup {r} /\ UNCHANGED db
    /\ UNCHANGED <<view, calls>>

Next == \/ \E q \in Queries : Reload(q)
        \/ \E g \in view.groups : Expand(g)
        \/ More
        \/ \E c \in calls : Count(c) \/ Answer(c) \/ AnswerGroups(c)
        \/ Change

Spec == Init /\ [][Next]_vars

OnceEach(s) == \A i, j \in DOMAIN s : s[i] = s[j] => i = j

(* What the screen shows once nothing is on its way and nothing changed under it
   is the answer to its own query: the rows in order, none twice, none left out
   before the last page (query_downloads: rows sharing a sort value cannot be
   dropped or duplicated across a page boundary), and a group's rows and
   subgroups add up to the count its heading shows (group_downloads: a bucket
   such as "(unknown)" round-trips exactly). *)
ViewIsWhole ==
    calm /\ Quiet(view) /\ view.loaded =>
        LET all == Where(view.q, view.path) IN
        IF view.groups # {}
        THEN LET sum == Cardinality(UNION {{g} \X (1..g.count) : g \in view.groups})
             IN  sum = Cardinality(all) /\ view.promised \in {Uncounted, sum}
        ELSE /\ OnceEach(view.rows)
             /\ view.offset = Len(view.rows)
             /\ \A i, j \in DOMAIN view.rows : i < j =>
                  IF view.q.desc THEN Row[view.rows[i]][view.q.col] >= Row[view.rows[j]][view.q.col]
                  ELSE Row[view.rows[i]][view.q.col] <= Row[view.rows[j]][view.q.col]
             /\ view.total = Cardinality(all) /\ (view.promised = Uncounted \/ view.promised = view.total)
             /\ view.offset >= view.total => {view.rows[i] : i \in DOMAIN view.rows} = all

(* Without the calm: no row is on the screen twice. *)
NoRowTwice == OnceEach(view.rows)
=============================================================================
