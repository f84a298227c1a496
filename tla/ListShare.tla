------------------------------ MODULE ListShare ------------------------------
(***************************************************************************)
(* Sharing a Watch List: the export of one's rows, the reading of a list    *)
(* file, and the loop of the import dialog, which lands one channel at a     *)
(* time, asks at a clash and sends the answer back, while a batch and the    *)
(* user go on changing the list. A call is one step here; WatchlistRows has what  *)
(* two calls at once can do.                                                *)
(***************************************************************************)
EXTENDS Naturals, Sequences, FiniteSets

CONSTANTS Channels,  \* channels; a channel's id is itself
          Names,     \* names a channel can go by
          Received,  \* list files of other users: sequences of raw entries, or Damaged
          MaxRows,   \* bound: rows ever added
          MaxTurns   \* bound: files exported or received, rows others add or remove

None == "none"
\* A file that is no list export, is a newer format's, too large, or holds no channels.
Damaged == <<>>

VARIABLES rows,   \* the watchlist: a sequence of [url, id, name, landed]
          file,   \* the list file at hand
          own,    \* the file is this list's own export, and nothing changed since
          dialog, \* the page's loop: [pc, todo, marks, remembered]
          turns   \* files and changes of the list from elsewhere (bounded)

vars == <<rows, file, own, dialog, turns>>

Closed == [pc |-> "closed", todo |-> <<>>, marks |-> <<>>, remembered |-> None]

Turn == turns < MaxTurns /\ turns' = turns + 1

\* A link: the channel and the form it is written in; "odd" is a web address that
\* is not YouTube's or SoundCloud's, "parked" the sentinel of an unresolved row.
Link(c, form) == [of |-> c, form |-> form]

\* populate_from_folders and Add made the first rows; not every one knows its id.
Init == /\ \E id \in Channels \union {None}, c \in Channels, name \in Names, form \in {"handle", "odd", "parked"} :
             /\ id \in {c, None} /\ form # "handle" => id = None
             /\ rows = <<[url |-> Link(c, form), id |-> id, name |-> name, landed |-> FALSE]>>
        /\ file = Damaged /\ own = FALSE
        /\ dialog = Closed /\ turns = 0

-----------------------------------------------------------------------------
(* find_conflict: the link, by id, by itself, or by any spelling; then the name. *)

\* canonical_channel_key.
Key(r) == IF r.id # None THEN Link(r.id, "known")
          ELSE IF r.url.form = "videos" THEN Link(r.url.of, "handle") ELSE r.url

At(rs, Same(_)) == {i \in DOMAIN rs : Same(rs[i])}
SameLink(rs, e) == LET ids == At(rs, LAMBDA r : e.id # None /\ r.id = e.id)
                       urls == At(rs, LAMBDA r : r.url = e.url)
                   IN  IF ids # {} THEN ids ELSE IF urls # {} THEN urls
                       ELSE At(rs, LAMBDA r : Key(r) = Key(e))
SameName(rs, name) == At(rs, LAMBDA r : name # None /\ r.name = name)
First(is) == CHOOSE i \in is : \A j \in is : i <= j

\* 0 where nothing clashes.
FindConflict(rs, e) == IF SameLink(rs, e) # {} THEN First(SameLink(rs, e))
                       ELSE IF SameName(rs, e.name) # {} THEN First(SameName(rs, e.name)) ELSE 0
Clash(e) == FindConflict(rows, e)

-----------------------------------------------------------------------------
(* The file. *)

\* Positions of a sequence, in its order.
InOrder(is) == {at \in [1..Cardinality(is) -> is] : \A i, j \in DOMAIN at : i < j => at[i] < at[j]}

\* export_entries: what identifies each channel, unresolved rows left out.
Exported == {[i \in DOMAIN at |-> [url |-> rows[at[i]].url, id |-> rows[at[i]].id, name |-> rows[at[i]].name]] :
                 at \in InOrder({i \in DOMAIN rows : rows[i].url.form # "parked"})}
Export == /\ dialog = Closed /\ Turn
          /\ file' \in Exported /\ file' # <<>> /\ own' = TRUE
          /\ UNCHANGED <<rows, dialog>>
Receive == /\ dialog = Closed /\ Turn
           /\ file' \in Received /\ own' = FALSE
           /\ UNCHANGED <<rows, dialog>>

\* sanitize_entry: an entry without a web link of the two services is dropped; an
\* id that could not be one is forgotten, and a name may be missing.
Sane == {i \in DOMAIN file : file[i].url.form \in {"handle", "videos"}}
Sanitized(e) == [url |-> e.url, id |-> IF e.id \in Channels THEN e.id ELSE None, name |-> e.name]

\* watchlist_import_read: parse refuses what is no list, the picker sees each
\* entry's clash as the list is now, and the user ticks some.
Read == /\ dialog = Closed /\ Sane # {}
        /\ \E ticked \in SUBSET Sane : \E at \in InOrder(ticked) :
             LET todo == [i \in DOMAIN at |-> Sanitized(file[at[i]])]
             IN  dialog' = [Closed EXCEPT !.pc = "next", !.todo = todo,
                                          !.marks = [i \in DOMAIN todo |-> FindConflict(rows, todo[i])]]
        /\ UNCHANGED <<rows, file, own, turns>>

-----------------------------------------------------------------------------
(* import_entry, as the loop calls it. *)

Entry == Head(dialog.todo)
NextEntry(d) == [d EXCEPT !.pc = "next", !.todo = Tail(@), !.marks = Tail(@)]

\* _import_add: a row of its own, which UNIQUE(url) may still refuse; a refusal
\* stops the loop.
ImportAdd(e, name) ==
    IF At(rows, LAMBDA r : r.url = e.url) # {}
    THEN dialog' = Closed /\ UNCHANGED <<rows, own>>
    ELSE /\ Len(rows) < MaxRows
         /\ rows' = Append(rows, [url |-> e.url, id |-> e.id, name |-> name, landed |-> TRUE])
         /\ own' = FALSE /\ dialog' = NextEntry(dialog)

\* The first call for an entry: it lands, or its clash is reported.
Land == /\ dialog.pc = "next" /\ dialog.todo # <<>>
        /\ IF Clash(Entry) = 0 THEN ImportAdd(Entry, Entry.name)
           ELSE dialog' = [dialog EXCEPT !.pc = "ask"] /\ UNCHANGED <<rows, own>>
        /\ UNCHANGED <<file, turns>>

Overwritten(r, e) == [r EXCEPT !.url = e.url, !.id = IF e.id # None THEN e.id ELSE @]

\* The second call, with the answer: the clash is looked for again, and where it
\* is gone the entry lands whatever the answer was. Overwriting takes the link and
\* never blanks an id, and update_watchlist_channel_fields refuses another row's.
Answered(action) ==
    LET at == Clash(Entry) IN
    IF at = 0 THEN ImportAdd(Entry, Entry.name)
    ELSE CASE action = "skip" -> dialog' = NextEntry(dialog) /\ UNCHANGED <<rows, own>>
           [] action = "overwrite" ->
                IF At(rows, LAMBDA r : r.url = Entry.url) \ {at} # {}
                THEN dialog' = Closed /\ UNCHANGED <<rows, own>>
                ELSE /\ rows' = [rows EXCEPT ![at] = Overwritten(@, Entry)]
                     /\ own' = (own /\ rows' = rows)
                     /\ dialog' = NextEntry(dialog)
           [] action = "new" ->
                \* under a typed name nobody has; the link's own clash, or a taken name, asks again.
                \E name \in Names : IF SameLink(rows, Entry) # {} \/ SameName(rows, name) # {}
                                    THEN UNCHANGED <<rows, own, dialog>>
                                    ELSE ImportAdd(Entry, name)
Answer == /\ dialog.pc = "ask"
          /\ IF dialog.remembered # None THEN Answered(dialog.remembered)
             ELSE \E action \in {"skip", "overwrite", "new"} : Answered(action)
          /\ UNCHANGED <<file, turns>>

\* "Apply to all" carries an answer that needs no name.
ApplyToAll == /\ dialog.pc = "ask" /\ dialog.remembered = None
              /\ \E action \in {"skip", "overwrite"} : dialog' = [dialog EXCEPT !.remembered = action]
              /\ UNCHANGED <<rows, file, own, turns>>
Stop == /\ dialog.pc = "ask" \/ (dialog.pc = "next" /\ dialog.todo = <<>>)
        /\ dialog' = Closed
        /\ UNCHANGED <<rows, file, own, turns>>

\* A batch's auto-add, which matches by the link only and mirrors nothing.
AutoAdd == /\ Turn /\ Len(rows) < MaxRows
           /\ \E c \in Channels, id \in Channels \union {None}, name \in Names :
                LET e == [url |-> Link(c, "videos"), id |-> id, name |-> name] IN
                /\ id \in {c, None} /\ SameLink(rows, e) = {}
                /\ rows' = Append(rows, [url |-> e.url, id |-> id, name |-> name, landed |-> FALSE])
           /\ own' = FALSE /\ UNCHANGED <<file, dialog>>
Without(rs, k) == [i \in 1 .. Len(rs) - 1 |-> rs[IF i < k THEN i ELSE i + 1]]
Untrack == /\ Turn /\ Len(rows) > 1 /\ \E k \in DOMAIN rows : rows' = Without(rows, k)
          /\ own' = FALSE
          /\ UNCHANGED <<file, dialog>>

Next == \/ Export \/ Receive \/ Read \/ Land \/ Answer \/ ApplyToAll \/ Stop \/ AutoAdd \/ Untrack
Spec == Init /\ [][Next]_vars

-----------------------------------------------------------------------------
(* Properties *)

\* Whatever files are landed over whatever list, with whatever answers: no channel
\* stands there twice under an id or under two spellings of one link.
KeptApart == \A i, j \in DOMAIN rows : i < j => rows[i].url # rows[j].url /\ Key(rows[i]) # Key(rows[j])

\* A row that the import added shares its name, which is its folder, with no row
\* that was there before it.
NamesApart == \A i, j \in DOMAIN rows : i < j /\ rows[j].landed /\ rows[j].name # None => rows[i].name # rows[j].name

\* One's own export, read back, is one's list: every entry is marked as tracked.
RoundTrip == own /\ dialog.pc = "next" => \A i \in DOMAIN dialog.marks : dialog.marks[i] # 0

\* What reading, asking and answering make of a list.
ImportIsWhole == KeptApart /\ NamesApart /\ RoundTrip

-----------------------------------------------------------------------------
(* The inductive invariant that the property follows from. *)

LinkState == [of : Channels, form : {"handle", "videos", "odd", "parked"}]

RowState == [url : LinkState, id : Channels \union {None}, name : Names \union {None}, landed : BOOLEAN]

ReceivedIds == UNION {{f[i].id : i \in DOMAIN f} : f \in Received}

EntryState == [url : LinkState, id : ReceivedIds \union Channels \union {None}, name : Names \union {None}]

SaneState == [url : LinkState, id : Channels \union {None}, name : Names \union {None}]

DialogState == [pc : {"closed", "next", "ask"}, todo : Seq(SaneState), marks : Seq(Nat),
                remembered : {None, "skip", "overwrite"}]

ListTypes == /\ rows \in Seq(RowState) /\ file \in Seq(EntryState) /\ own \in BOOLEAN
             /\ dialog \in DialogState /\ Len(dialog.marks) = Len(dialog.todo)
             /\ dialog.pc = "ask" => dialog.todo # <<>>

\* What one's own export lists is tracked still, and was marked so.
OwnIsTracked == own => /\ \A i \in DOMAIN file : \E j \in DOMAIN rows : rows[j].url = file[i].url
                       /\ \A i \in DOMAIN dialog.marks : dialog.marks[i] # 0

ListInv == ListTypes /\ KeptApart /\ NamesApart /\ OwnIsTracked
=============================================================================
