---------------------------- MODULE WatchlistRows ----------------------------
(***************************************************************************)
(* Which channels the Watch List tracks, and under which link: Add, a       *)
(* batch's auto-add, the import of another user's list, the first launch's  *)
(* population from the crate folders, Fix Link, a link edit and Remove. A   *)
(* channel has several links (its /channel/ link carries its id, the handle *)
(* and the handle's /videos do not) and the table refuses only the same     *)
(* link twice: that a channel is tracked once rests on a match made before  *)
(* the write.                                                               *)
(***************************************************************************)
EXTENDS Naturals, FiniteSets

CONSTANTS Channels,  \* the channels; one's id is itself
          Callers,   \* threads a call may be on: the page's requests and the batch's worker
          Folders,   \* channel folders, [url, id, name] as their sidecars say; one without
                     \* a sidecar has an unresolved link of its own and no id
          MaxRows    \* bound: rows ever added

None == "none"
Links == [of : Channels, form : {"id", "handle", "videos"}]
NoLink == [of |-> None, form |-> "unresolved"]

VARIABLES rows,   \* watchlist: [n, url, id, name, matched]
          next,   \* the next row's number
          call    \* [Callers -> the call the thread is in]

vars == <<rows, next, call>>

Idle == [pc |-> "idle", op |-> None, url |-> NoLink, id |-> None, name |-> None, row |-> 0, search |-> {}]
Goto(t, c) == call' = [call EXCEPT ![t] = c]
Return(t) == Goto(t, Idle)
NextRow == next <= MaxRows

\* add_watchlist_channel: UNIQUE(url) is all the table knows.
Insert(url, id, name, matched) ==
    IF \E r \in rows : r.url = url THEN UNCHANGED <<rows, next>>
    ELSE /\ rows' = rows \union {[n |-> next, url |-> url, id |-> id, name |-> name, matched |-> matched]}
         /\ next' = next + 1

\* populate_from_folders, before anything else runs: one row for each folder, and a
\* link another folder gave is passed over.
FolderRow(f, n) == [n |-> n, url |-> f.url, id |-> f.id, name |-> f.name, matched |-> FALSE]
Init == /\ \E fs \in SUBSET Folders, num \in [Folders -> 1 .. Cardinality(Folders)] :
             /\ \A f, g \in fs : f # g => num[f] # num[g] /\ f.url # g.url
             /\ \A f \in Folders \ fs : \E g \in fs : g.url = f.url
             /\ rows = {FolderRow(f, num[f]) : f \in fs}
        /\ next = Cardinality(Folders) + 1
        /\ call = [t \in Callers |-> Idle]

-----------------------------------------------------------------------------
(* find_matching_watchlist_row: by id, then by link, then by canonical key. *)

\* canonical_channel_key: the id where there is one, else the link without /videos.
Key(url, id) == IF id # None THEN [of |-> id, form |-> "known"]
                ELSE [url EXCEPT !.form = IF @ = "videos" THEN "handle" ELSE @]

ById(rs, id) == {r \in rs : id # None /\ r.id = id}
ByLink(rs, url) == {r \in rs : r.url = url}
ByKey(rs, url, id) == {r \in rs : Key(r.url, r.id) = Key(url, id)}
\* Mutant of Match: by the link only.
MatchByLink(rs, url, id) == ByLink(rs, url)
Match(rs, url, id) == IF ById(rs, id) # {} THEN ById(rs, id)
                      ELSE IF ByLink(rs, url) # {} THEN ByLink(rs, url)
                      ELSE ByKey(rs, url, id)

\* The first of them in the table's order.
First(rs) == CHOOSE r \in rs : \A q \in rs : r.n <= q.n

FromLink(url) == IF url.form = "id" THEN url.of ELSE None

-----------------------------------------------------------------------------
(* Add, and the batch's auto-add. *)

\* The probe names the channel, or does not: then the link may still carry its id.
\* The list is matched after it.
Add(t) == /\ call[t] = Idle /\ NextRow
          /\ \E url \in Links, op \in {"add", "auto"} : \E id \in {url.of, FromLink(url)} :
               Goto(t, [Idle EXCEPT !.pc = "match", !.op = op, !.url = url, !.id = id,
                                    !.name = IF op = "add" /\ id # url.of THEN "unread" ELSE url.of])
          /\ UNCHANGED <<rows, next>>

AddMatch(t) == LET c == call[t]  found == Match(rows, c.url, c.id) IN
               /\ c.pc = "match"
               /\ IF found = {} THEN Goto(t, [c EXCEPT !.pc = "insert"])
                  ELSE IF c.op = "auto" /\ First(found).id = None /\ c.id # None
                  THEN Goto(t, [c EXCEPT !.pc = "backfill", !.row = First(found).n])
                  ELSE Return(t)
               /\ UNCHANGED <<rows, next>>

AddInsert(t) == LET c == call[t] IN
                /\ c.pc = "insert" /\ Insert(c.url, c.id, c.name, TRUE) /\ Return(t)

\* A row that has gone is updated for nothing.
Backfill(t) == /\ call[t].pc = "backfill" /\ Return(t)
               /\ rows' = {IF r.n = call[t].row THEN [r EXCEPT !.id = call[t].id] ELSE r : r \in rows}
               /\ UNCHANGED next

-----------------------------------------------------------------------------
(* import_entry: one entry of the file, with the user's answer or without. *)

Answers == {"ask", "skip", "overwrite", "new"}

\* find_conflict: a link clash wins over a name clash.
Clash(url, id, name) == IF Match(rows, url, id) # {} THEN Match(rows, url, id)
                        ELSE {r \in rows : r.name = name}

\* "new": under a name the user typed that nobody has; a link clash refuses it.
Import(t) == /\ call[t] = Idle /\ NextRow
             /\ \E url \in Links, name \in Channels, answer \in Answers : \E id \in {url.of, None} :
                  LET clash == Clash(url, id, name)
                      typed == [Idle EXCEPT !.url = url, !.id = id, !.name = name]
                  IN IF clash = {} THEN Goto(t, [typed EXCEPT !.pc = "insert"])
                     ELSE IF answer = "overwrite"
                     THEN Goto(t, [typed EXCEPT !.pc = "repoint", !.row = First(clash).n,
                                               !.id = IF id = None THEN First(clash).id ELSE id])
                     ELSE /\ answer = "new" /\ Match(rows, url, id) = {} /\ ~ \E r \in rows : r.name = "typed"
                          /\ Goto(t, [typed EXCEPT !.pc = "insert", !.name = "typed"])
             /\ UNCHANGED <<rows, next>>

\* update_watchlist_channel_fields: refused where another row has the link.
Repoint(t) == LET c == call[t]  others == {r \in rows : r.n # c.row} IN
              /\ c.pc = "repoint" /\ Return(t)
              /\ rows' = IF ByLink(others, c.url) # {} THEN rows
                         ELSE {IF r.n = c.row THEN [r EXCEPT !.url = c.url, !.id = c.id] ELSE r : r \in rows}
              /\ UNCHANGED next

-----------------------------------------------------------------------------
(* Fix Link and the link edit. *)

\* resolve_candidates marks the channels another row tracks; the dialog disables them.
Resolve(t) == /\ call[t] = Idle
              /\ \E r \in rows : Goto(t, [Idle EXCEPT !.pc = "chooses", !.row = r.n,
                    !.search = {c \in Channels :
                        Match(rows \ {r}, [of |-> c, form |-> "id"], c) = {}}])
              /\ UNCHANGED <<rows, next>>
Pick(t) == /\ call[t].pc = "chooses"
           /\ \/ Return(t)
              \/ \E c \in call[t].search : Goto(t, [call[t] EXCEPT !.pc = "own", !.id = c,
                                                        !.url = [of |-> c, form |-> "id"]])
           /\ UNCHANGED <<rows, next>>

\* _apply_url: a /channel/ link is resolved as it is; another is stored first, as
\* typed and with the id the row had, and probed afterwards.
Edit(t) == /\ call[t] = Idle
           /\ \E r \in rows, url \in Links : r.url # url /\
                LET c == [Idle EXCEPT !.row = r.n, !.url = url, !.id = url.of] IN
                IF url.form = "id" THEN Goto(t, [c EXCEPT !.pc = "own"]) /\ UNCHANGED rows
                ELSE /\ Goto(t, [c EXCEPT !.pc = "probe"])
                     /\ rows' = IF ByLink(rows, url) # {} THEN rows
                                ELSE (rows \ {r}) \union {[r EXCEPT !.url = url, !.matched = FALSE]}
           /\ UNCHANGED next
Probe(t) == /\ call[t].pc = "probe"
            /\ Return(t) \/ Goto(t, [call[t] EXCEPT !.pc = "own"])
            /\ UNCHANGED <<rows, next>>

\* _persist_resolved: another row's link is refused, by the link alone.
Own(t) == LET c == call[t] IN
          /\ c.pc = "own"
          /\ IF ByLink({r \in rows : r.n # c.row}, c.url) # {} THEN Return(t)
             ELSE Goto(t, [c EXCEPT !.pc = "persist"])
          /\ UNCHANGED <<rows, next>>
Persist(t) == LET c == call[t] IN
              /\ c.pc = "persist" /\ Return(t)
              /\ rows' = IF ByLink({r \in rows : r.n # c.row}, c.url) # {} THEN rows
                         ELSE {IF r.n = c.row THEN [r EXCEPT !.url = c.url, !.id = c.id, !.matched = FALSE]
                               ELSE r : r \in rows}
              /\ UNCHANGED next

Remove(t) == /\ call[t] = Idle /\ \E r \in rows : rows' = rows \ {r}
             /\ UNCHANGED <<next, call>>

Step(t) == \/ Add(t) \/ AddMatch(t) \/ AddInsert(t) \/ Backfill(t) \/ Import(t) \/ Repoint(t)
           \/ Resolve(t) \/ Pick(t) \/ Edit(t) \/ Probe(t) \/ Own(t) \/ Persist(t) \/ Remove(t)
Next == \E t \in Callers : Step(t)
Spec == Init /\ [][Next]_vars

-----------------------------------------------------------------------------
(* Properties *)

\* Two rows that know their channel are two channels, as far as the rows were written
\* by a call that matches first (Add, auto-add, import): what the comment at the
\* match promises, a channel tracked under any of its links is not tracked twice.
TrackedOnce == \A r, q \in rows : r.n # q.n /\ r.matched /\ q.matched => r.id # q.id \/ r.id = None

-----------------------------------------------------------------------------
(* The inductive invariant that the property follows from. *)

\* What a row and a call can hold.
Urls == Links \union {NoLink} \union {f.url : f \in Folders}

Ids == Channels \union {None} \union {f.id : f \in Folders}

Names == Channels \union {None, "typed", "unread"} \union {f.name : f \in Folders}

RowState == [n : Nat, url : Urls, id : Ids, name : Names, matched : BOOLEAN]

CallState == [pc : {"idle", "match", "insert", "backfill", "repoint", "chooses", "own", "probe", "persist"},
              op : {"add", "auto", None}, url : Urls, id : Ids, name : Names, row : Nat, search : SUBSET Channels]

RowTypes == /\ rows \subseteq RowState /\ call \in [Callers -> CallState] /\ next \in Nat
            /\ \A r, q \in rows : r.n = q.n => r = q
            /\ \A r \in rows : r.n < next

\* Between its match and its write a call's channel is nobody's, or that of the
\* row it repoints.
MatchHolds(t) ==
    /\ call[t].pc \in {"insert", "backfill"} => ById(rows, call[t].id) = {}
    /\ call[t].pc = "repoint" => \/ ById(rows, call[t].id) = {}
                                 \/ \E r \in rows : r.n = call[t].row /\ r.id = call[t].id

RowsInv == RowTypes /\ TrackedOnce /\ \A t \in Callers : MatchHolds(t)
=============================================================================
