----------------------------- MODULE UpdateCheck -----------------------------
(***************************************************************************)
(* Checks for an update, the page's and the timer's, which overlap: each    *)
(* fetches the manifest and judges it in a result that every reader sees    *)
(* from the moment it is published, field by field as it fills.             *)
(***************************************************************************)
EXTENDS Naturals, Sequences, FiniteSets

CONSTANTS Current,    \* the build that runs
          Manifests,  \* what may be published: {[build, base, full, block, valid]}
          Keys,       \* the bundled components
          Installed,  \* [Keys -> version or None]: installed_versions, read once
          MaxChecks, MaxReleases  \* bounds

VARIABLES live,      \* the manifest on the update channel
          releases,
          check,     \* [1 .. MaxChecks -> [pc, of, silent]]
          result,    \* [1 .. MaxChecks -> the dict that check fills]
          last,      \* _last_update_result: which of them, or 0
          page,      \* [card, table]: what the page shows
          reading,   \* update_components under way: [from, offered]
          offers     \* history: the update.available events, with their manifest

vars == <<live, releases, check, result, last, page, reading, offers>>

None == 0
NoOffer == [k \in Keys |-> None]
Blank == [reachable |-> FALSE, valid |-> FALSE, latest |-> None, block |-> NoOffer,
          available |-> FALSE, needs_full |-> FALSE, full_available |-> FALSE]
NoTable == [build |-> None, offered |-> NoOffer]
NotReading == [from |-> None, offered |-> NoOffer]
Unreachable == [build |-> None, base |-> 0, full |-> FALSE, block |-> NoOffer, valid |-> FALSE]
Check(pc, m, silent) == [pc |-> pc, of |-> m, silent |-> silent]

-----------------------------------------------------------------------------
(* A manifest's verdicts. *)

\* validate_manifest
Valid(m) == m.valid
\* is_update_available
Newer(m) == m.build > Current
\* needs_full_reinstall
NeedsFull(m) == m.base > Current
\* full_payload, on a build that can swap itself
FullOffered(m) == NeedsFull(m) /\ m.full
\* offered_versions: the block, or nothing for a manifest from before it
Offered(m) == m.block

Judged(m) == IF Valid(m) THEN [reachable |-> TRUE, valid |-> TRUE, latest |-> m.build, block |-> Offered(m),
                               available |-> Newer(m), needs_full |-> NeedsFull(m),
                               full_available |-> FullOffered(m)]
             ELSE [Blank EXCEPT !.reachable = m # Unreachable]

\* compare: one row per component.
RowState(k, offered) ==
    CASE Installed[k] = None -> "missing"
      [] Installed[k] # None /\ offered[k] = None -> "unknown"
      [] Installed[k] # None /\ offered[k] # None -> IF offered[k] = Installed[k] THEN "same" ELSE "newer"

Init == /\ live \in Manifests /\ releases = 0 /\ check = [i \in 1 .. MaxChecks |-> Check("none", Unreachable, FALSE)]
        /\ result = [i \in 1 .. MaxChecks |-> Blank] /\ last = None
        /\ page = [card |-> Blank, table |-> NoTable] /\ reading = NotReading /\ offers = {}

-----------------------------------------------------------------------------
(* update_check. *)

\* fetch_manifest from the address _manifest_urls knows.
Fetch(i, silent) == /\ check[i].pc = "none" /\ \A k \in 1 .. i - 1 : check[k].pc # "none"
                    /\ \E m \in {live, Unreachable} : check' = [check EXCEPT ![i] = Check("publish", m, silent)]
                    /\ UNCHANGED <<live, releases, result, last, page, reading, offers>>

\* Mutant of Fields: the components before the version.
FieldsComponentsFirst == <<"valid", "block", "latest", "available", "needs_full", "full_available">>
\* The fields in the order they are set.
Fields == <<"valid", "latest", "block", "available", "needs_full", "full_available">>
After(f) == LET at == CHOOSE n \in DOMAIN Fields : Fields[n] = f IN
            IF at = Len(Fields) THEN "answer" ELSE Fields[at + 1]

Publish(i) == /\ check[i].pc = "publish" /\ last' = i
              /\ result' = [result EXCEPT ![i] = [Blank EXCEPT !.reachable = check[i].of # Unreachable]]
              /\ check' = [check EXCEPT ![i].pc = IF check[i].of = Unreachable THEN "answer" ELSE Fields[1]]
              /\ UNCHANGED <<live, releases, page, reading, offers>>
Fill(i) == \E f \in {Fields[n] : n \in DOMAIN Fields} :
              /\ check[i].pc = f
              /\ result' = [result EXCEPT ![i] = [@ EXCEPT ![f] = Judged(check[i].of)[f]]]
              /\ check' = [check EXCEPT ![i].pc = IF f = "valid" /\ ~Valid(check[i].of) THEN "answer" ELSE After(f)]
              /\ UNCHANGED <<live, releases, last, page, reading, offers>>
\* The page's own check has its answer; _silent_update_check emits update.checked,
\* and update.available for a newer build.
Answer(i) == /\ check[i].pc = "answer" /\ check' = [check EXCEPT ![i].pc = "done"]
             /\ page' = [page EXCEPT !.card = result[i]]
             /\ offers' = IF check[i].silent /\ result[i].reachable /\ result[i].valid /\ result[i].available
                          THEN offers \union {[card |-> result[i], of |-> check[i].of]} ELSE offers
             /\ UNCHANGED <<live, releases, result, last, reading>>

-----------------------------------------------------------------------------
(* Its readers. *)

\* state.snapshot hands out the result as it stands.
Snapshot == /\ last # None /\ page' = [page EXCEPT !.card = result[last]]
            /\ UNCHANGED <<live, releases, check, result, last, reading, offers>>
\* update_status: the offered versions, then the build they belong to.
ReadOffered == /\ reading = NotReading /\ last # None
               /\ reading' = [from |-> last, offered |-> IF result[last].valid THEN result[last].block ELSE NoOffer]
               /\ UNCHANGED <<live, releases, check, result, last, page, offers>>
ReadBuild == /\ reading # NotReading /\ reading' = NotReading
             /\ LET r == result[reading.from] IN
                page' = [page EXCEPT !.table = [build |-> IF r.valid THEN r.latest ELSE None, offered |-> reading.offered]]
             /\ UNCHANGED <<live, releases, check, result, last, offers>>

Release == /\ releases < MaxReleases /\ releases' = releases + 1 /\ \E m \in Manifests \ {live} : live' = m
           /\ UNCHANGED <<check, result, last, page, reading, offers>>

Next == \/ \E i \in 1 .. MaxChecks : \/ \E silent \in BOOLEAN : Fetch(i, silent)
                                     \/ Publish(i) \/ Fill(i) \/ Answer(i)
        \/ Snapshot \/ ReadOffered \/ ReadBuild \/ Release
Spec == Init /\ [][Next]_vars

-----------------------------------------------------------------------------
(* Properties *)

\* However checks, releases and readers overlap: an announced update carries the
\* whole verdict on one manifest, and a components table that offers a version
\* names the build it comes in.
OffersAreWhole ==
    /\ \A o \in offers : o.card = Judged(o.of)
    /\ (\E k \in Keys : RowState(k, page.table.offered) \in {"same", "newer"}) =>
          \E m \in Manifests : m.build = page.table.build /\ Offered(m) = page.table.offered

\* A card on the page is the verdict of some manifest, never a part of one.
CardIsAVerdict ==
    page.card \in {Blank, Judged(Unreachable)} \union {Judged(m) : m \in Manifests}

-----------------------------------------------------------------------------
(* The inductive invariant that the property follows from. *)

\* What a check at pc has filled of its manifest's verdict.
Half(m, pc) ==
    [reachable |-> IF pc \in {"none", "publish"} THEN FALSE ELSE m # Unreachable,
     valid |-> IF pc \in {"none", "publish", "valid"} THEN FALSE ELSE Judged(m).valid,
     latest |-> IF pc \in {"none", "publish", "valid", "latest"} THEN None ELSE Judged(m).latest,
     block |-> IF pc \in {"none", "publish", "valid", "latest", "block"} THEN NoOffer ELSE Judged(m).block,
     available |-> IF pc \in {"needs_full", "full_available", "answer", "done"} THEN Judged(m).available ELSE FALSE,
     needs_full |-> IF pc \in {"full_available", "answer", "done"} THEN Judged(m).needs_full ELSE FALSE,
     full_available |-> IF pc \in {"answer", "done"} THEN Judged(m).full_available ELSE FALSE]
Later == {"latest", "block", "available", "needs_full", "full_available"}
Steps == {"none", "publish", "valid", "answer", "done"} \cup Later
Checked(i) == /\ check[i] \in [pc : Steps, of : Manifests \cup {Unreachable}, silent : BOOLEAN]
              /\ check[i].pc = "valid" => check[i].of # Unreachable
              /\ check[i].pc \in Later => Valid(check[i].of)
              /\ result[i] = Half(check[i].of, check[i].pc)
ReadWhole == reading.offered # NoOffer =>
               /\ reading.from \in 1 .. MaxChecks
               /\ check[reading.from].pc \in {"available", "needs_full", "full_available", "answer", "done"}
               /\ Valid(check[reading.from].of) /\ reading.offered = Offered(check[reading.from].of)
ShownWhole == page.table.offered # NoOffer =>
                \E m \in Manifests : m.build = page.table.build /\ Offered(m) = page.table.offered
CheckInv == /\ check = [i \in 1 .. MaxChecks |-> check[i]] /\ result = [i \in 1 .. MaxChecks |-> result[i]]
            /\ page = [card |-> page.card, table |-> page.table]
            /\ live \in Manifests /\ last \in {None} \cup 1 .. MaxChecks
            /\ reading # NotReading => reading.from \in 1 .. MaxChecks
            /\ \A i \in 1 .. MaxChecks : Checked(i)
            /\ ReadWhole /\ ShownWhole
            /\ \A o \in offers : o.card = Judged(o.of)
Fields7(r) == [reachable |-> r.reachable, valid |-> r.valid, latest |-> r.latest, block |-> r.block,
               available |-> r.available, needs_full |-> r.needs_full, full_available |-> r.full_available]
=============================================================================
