------------------------------ MODULE BatchRun ------------------------------
(***************************************************************************)
(* The Main-tab download: the service's queue (`_batch`), download_start   *)
(* and its controls, and the BatchRunner thread that walks the queue.      *)
(*                                                                         *)
(* The runner is handed the LIVE queue list, so calls that append to it,   *)
(* reorder it or replace it interleave with the walk.  Python's aliasing   *)
(* is modelled: a reference to the queue is live (it sees every later      *)
(* change) until the service rebinds `_batch` to a new list, from where it *)
(* keeps the old contents.  The "batch" slot of the job registry is the    *)
(* variable `slot`; other job categories are JobRegistry's subject.        *)
(***************************************************************************)
EXTENDS Naturals, Sequences, SequencesExt, FiniteSets

CONSTANTS
    Callers,    \* threads a service call arrives on
    Row,        \* queue row ids, each added at most once
    Runner,     \* BatchRunner objects
    NoRunner,   \* None
    MaxTracks   \* bound: tracks one row may resolve to

ASSUME RowAssumption == IsFiniteSet(Row)
ASSUME NoRunnerAssumption == NoRunner \notin Runner
ASSUME MaxTracksAssumption == MaxTracks \in Nat \ {0}

VARIABLES
    batch,       \* `_batch`: the queue, a sequence of row ids
    unused,      \* row ids `_ids` has not handed out
    skippedRow,  \* rows whose "state" is "skipped"
    batchRunner, \* `_batch_runner`
    slot,        \* the runner whose job holds the "batch" slot
    cancelled,   \* runners whose `_cancel` event is set
    paused,      \* runners whose `_pause` event is set
    skips,       \* runner -> its `_skips`
    caller,      \* thread -> where it stands inside a service call
    run          \* the run in progress: position, counters, history

queueVars == <<batch, unused, skippedRow>>
vars == <<queueVars, batchRunner, slot, cancelled, paused, skips,
          caller, run>>
controls == <<cancelled, paused, skips>>

-----------------------------------------------------------------------------
NoRow  == "norow"
Live   == [live |-> TRUE, rows |-> <<>>]
\* A reference to the queue, and what it sees.
Rows(ref)   == IF ref.live THEN batch ELSE ref.rows
Detach(ref) == IF ref.live THEN [live |-> FALSE, rows |-> batch] ELSE ref

Idle == [pc |-> "idle", row |-> NoRow, by |-> NoRunner, prev |-> NoRunner,
         ref |-> Live]
At(c, label)   == caller[c].pc = label
Set(c, rec)    == caller' = [caller EXCEPT ![c] = rec]
Return(c)      == Set(c, Idle)
Goto(c, label) == Set(c, [Idle EXCEPT !.pc = label])

Running == slot # NoRunner

\* Every queue reference still points at the list the service just let go of.
Rebind(c) ==
    /\ caller' = [d \in Callers |-> IF d = c THEN Idle
                      ELSE [caller[d] EXCEPT !.ref = Detach(@)]]
    /\ run' = [run EXCEPT !.ref = Detach(@), !.edited = Running]

NoRunYet == [pc |-> "off", ref |-> Live, index |-> 1, seen |-> 0,
             counted |-> {}, total |-> 0, done |-> 0, left |-> 0,
             \* history: rows started, tracks given up, rows with work that
             \* was not counted beforehand, rows passed without work, work
             \* settled after a cancel, a fatal error, an edit of the queue
             ran |-> [r \in Row |-> 0], dropped |-> 0, unpaid |-> {},
             barren |-> {}, late |-> 0, fatal |-> FALSE, edited |-> FALSE]

Init ==
    /\ batch = <<>>
    /\ unused = Row
    /\ skippedRow = {}
    /\ batchRunner = NoRunner
    /\ slot = NoRunner
    /\ cancelled = {}
    /\ paused = {}
    /\ skips = [r \in Runner |-> {}]
    /\ caller = [c \in Callers |-> Idle]
    /\ run = NoRunYet

-----------------------------------------------------------------------------
(* The queue *)

\* batch_add: open at any time; rows join at the end of the live list.
BatchAdd(c) ==
    /\ At(c, "idle")
    /\ \E row \in unused :
          /\ batch' = Append(batch, row)
          /\ unused' = unused \ {row}
    /\ UNCHANGED <<skippedRow, batchRunner, slot, controls, caller, run>>

\* `_require_idle_queue`, answered before the queue lock is taken.
QueueIdle(c, label) ==
    /\ At(c, "idle")
    /\ ~Running
    /\ Goto(c, label)
    /\ UNCHANGED <<queueVars, batchRunner, slot, controls, run>>

\* batch_remove rebinds `_batch` to a filtered list.
BatchRemove(c) ==
    /\ At(c, "remove")
    /\ \/ \E i \in 1 .. Len(batch) : batch' = RemoveAt(batch, i) /\ Rebind(c)
       \/ Return(c) /\ UNCHANGED <<batch, run>>       \* no such row
    /\ UNCHANGED <<unused, skippedRow, batchRunner, slot, controls>>

BatchClear(c) ==
    /\ At(c, "clear")
    /\ batch' = <<>>
    /\ Rebind(c)
    /\ UNCHANGED <<unused, skippedRow, batchRunner, slot, controls>>

\* batch_move reorders the list in place; past either end it is a no-op.
BatchMove(c) ==
    /\ At(c, "move")
    /\ \/ \E i \in 1 .. Len(batch) - 1 :
            /\ batch' = [batch EXCEPT ![i] = batch[i + 1], ![i + 1] = batch[i]]
            /\ run' = [run EXCEPT !.edited = Running]
       \/ UNCHANGED <<batch, run>>
    /\ Return(c)
    /\ UNCHANGED <<unused, skippedRow, batchRunner, slot, controls>>

\* batch_skip: which runner to tell is read first ...
SkipCheck(c) ==
    /\ At(c, "idle")
    /\ Set(c, [Idle EXCEPT !.pc = "skip",
                  !.by = IF Running THEN batchRunner ELSE NoRunner])
    /\ UNCHANGED <<queueVars, batchRunner, slot, controls, run>>

\* ... then the row is marked under the lock, one way only during a run ...
SkipMark(c) ==
    /\ At(c, "skip")
    /\ \/ \E row \in ToSet(batch) :
            /\ skippedRow' = IF caller[c].by = NoRunner /\ row \in skippedRow
                             THEN skippedRow \ {row} ELSE skippedRow \cup {row}
            /\ IF caller[c].by = NoRunner THEN Return(c)
               ELSE Set(c, [caller[c] EXCEPT !.pc = "interrupt", !.row = row])
       \/ Return(c) /\ UNCHANGED skippedRow
    /\ UNCHANGED <<batch, unused, batchRunner, slot, controls, run>>

\* ... and the runner is told.
SkipRow(c) ==
    /\ At(c, "interrupt")
    /\ skips' = [skips EXCEPT ![caller[c].by] = @ \cup {caller[c].row}]
    /\ Return(c)
    /\ UNCHANGED <<queueVars, batchRunner, slot, cancelled, paused, run>>

-----------------------------------------------------------------------------
(* Starting, and the run's controls *)

\* download_start takes a reference to the queue, not a copy.
StartCapture(c) ==
    /\ At(c, "idle")
    /\ ToSet(batch) \ skippedRow # {}
    /\ Goto(c, "captured")
    /\ UNCHANGED <<queueVars, batchRunner, slot, controls, run>>

Referenced == {slot, batchRunner} \cup {caller[c].by : c \in Callers}
                                  \cup {caller[c].prev : c \in Callers}

\* A new runner becomes `_batch_runner` before the slot is asked for.
StartArm(c) ==
    /\ At(c, "captured")
    /\ Runner \ Referenced # {}
    /\ LET r == CHOOSE x \in Runner : x \notin Referenced
       IN  /\ batchRunner' = r
           \* a fresh object; unreferenced ones are garbage
           /\ cancelled' = cancelled \cap Referenced
           /\ paused' = paused \cap Referenced
           /\ skips' = [x \in Runner |-> IF x \in Referenced THEN skips[x] ELSE {}]
           /\ Set(c, [caller[c] EXCEPT !.pc = "armed", !.by = r,
                                       !.prev = batchRunner])
    /\ UNCHANGED <<queueVars, slot, run>>

\* `_start_job`: the slot is taken and the run begins, or the refusal puts the
\* previous runner back.
StartClaim(c) ==
    /\ At(c, "armed")
    /\ IF Running
       THEN /\ batchRunner' = caller[c].prev
            /\ UNCHANGED <<slot, run>>
       ELSE /\ slot' = caller[c].by
            /\ run' = [NoRunYet EXCEPT !.pc = "loop", !.ref = caller[c].ref]
            /\ UNCHANGED batchRunner
    /\ Return(c)
    /\ UNCHANGED <<queueVars, controls>>

\* `_running_batch`: the runner a control will be applied to.
ControlCheck(c, label) ==
    /\ At(c, "idle")
    /\ Running
    /\ batchRunner # NoRunner
    /\ Set(c, [Idle EXCEPT !.pc = label, !.by = batchRunner])
    /\ UNCHANGED <<queueVars, batchRunner, slot, controls, run>>

Pause(c) ==
    /\ At(c, "pause")
    /\ paused' = paused \cup {caller[c].by}
    /\ Return(c)
    /\ UNCHANGED <<queueVars, batchRunner, slot, cancelled, skips, run>>

Resume(c) ==
    /\ At(c, "resume")
    /\ paused' = paused \ {caller[c].by}
    /\ Return(c)
    /\ UNCHANGED <<queueVars, batchRunner, slot, cancelled, skips, run>>

\* Cancelling also opens the pause gate.
Cancel(c) ==
    /\ At(c, "cancel")
    /\ cancelled' = cancelled \cup {caller[c].by}
    /\ paused' = paused \ {caller[c].by}
    /\ Return(c)
    /\ UNCHANGED <<queueVars, batchRunner, slot, skips, run>>

-----------------------------------------------------------------------------
(* The BatchRunner's thread: run, _loop, _run_row and run_tracks *)

queue     == Rows(run.ref)
me        == slot
Current   == queue[run.index]
Skips(row) == row \in skips[me]
Step(rec) == /\ run' = rec
             /\ UNCHANGED <<queueVars, batchRunner, slot, controls, caller>>
\* The run record with the current row behind it.
NextRow(rec) == [rec EXCEPT !.pc = "loop", !.index = @ + 1, !.left = 0]
\* One piece of work booked.
Settled(rec) == [rec EXCEPT !.done = @ + 1,
                            !.late = @ + IF me \in cancelled THEN 1 ELSE 0]
GiveUp(rec)  == [rec EXCEPT !.dropped = @ + rec.left, !.left = 0]

\* `_admit` of some rows: one not marked skipped is counted, once.
Admit(rec, rows) ==
    LET new == rows \ (skippedRow \cup rec.counted)
    IN  [rec EXCEPT !.counted = @ \cup new, !.total = @ + Cardinality(new)]
\* Mutant of Withdraw: whether the row was counted is not looked at.
WithdrawAny(rec, row) == [rec EXCEPT !.counted = @ \ {row}, !.total = @ - 1]
\* `_withdraw`: a counted row that held no work gives its count back.
Withdraw(rec, row) ==
    IF row \notin rec.counted THEN rec
    ELSE [rec EXCEPT !.counted = @ \ {row}, !.total = @ - 1]

\* The history of rows without work, and of work nobody counted beforehand.
Barren(rec, row) == [Withdraw(rec, row) EXCEPT !.barren = @ \cup {row}]
Paid(rec, row) == [rec EXCEPT !.unpaid = @ \cup ({row} \ rec.counted)]

\* Top of the loop: cancelled, or on to counting what the list grew by.
Loop ==
    /\ run.pc = "loop"
    /\ Step([run EXCEPT !.pc = IF me \in cancelled THEN "finish" ELSE "admit"])

AdmitRows ==
    /\ run.pc = "admit"
    /\ LET unseen == {queue[i] : i \in run.seen + 1 .. Len(queue)}
       IN  Step([Admit(run, unseen) EXCEPT !.pc = "check", !.seen = Len(queue)])

\* Mutant of Check: the last row is taken for the end.
CheckOffByOne ==
    /\ run.pc = "check"
    /\ Step([run EXCEPT !.pc = IF run.index >= Len(queue) THEN "finish" ELSE "row"])

\* The list's length is read again, live: a row may have joined meanwhile.
Check ==
    /\ run.pc = "check"
    /\ Step([run EXCEPT !.pc = IF run.index > Len(queue) THEN "finish" ELSE "row"])

\* `_run_row`: a row marked skipped is passed over, any other is resolved.
StartRow ==
    /\ run.pc = "row"
    /\ IF Current \in skippedRow \/ Skips(Current)
       THEN Step(NextRow(Barren(run, Current)))
       ELSE Step([run EXCEPT !.pc = "resolve", !.ran[Current] = @ + 1])

\* The resolver answers: an error, nothing, or one or more tracks.
ResolveFailed ==
    /\ run.pc = "resolve"
    /\ Step(NextRow(Settled(Paid(run, Current))))

ResolveEmpty ==
    /\ run.pc = "resolve"
    /\ Step(NextRow(Barren(run, Current)))

\* Mutant of ResolveTracks: the row's own count is not replaced.
ResolveTracksOnTop ==
    /\ run.pc = "resolve"
    /\ \E n \in 1 .. MaxTracks :
          Step([Paid(Admit(run, {Current}), Current) EXCEPT
                   !.pc = "tracks", !.left = n, !.total = @ + n])

ResolveTracks ==
    /\ run.pc = "resolve"
    /\ \E n \in 1 .. MaxTracks :
          Step([Paid(Admit(run, {Current}), Current) EXCEPT
                   !.pc = "tracks", !.left = n, !.total = @ + n - 1])

\* Mutants of NextTrack: a pause stops the row; a cancel does not; a paused run
\* waits without looking at the cancel.
NextTrackPauseStops ==
    /\ run.pc = "tracks"
    /\ IF run.left = 0 THEN Step(NextRow(run))
       ELSE IF me \in cancelled \cup paused \/ Skips(Current) THEN Step(NextRow(GiveUp(run)))
       ELSE Step([run EXCEPT !.pc = "fetch"])
NextTrackUncancelled ==
    /\ run.pc = "tracks"
    /\ IF run.left = 0 THEN Step(NextRow(run))
       ELSE IF Skips(Current) THEN Step(NextRow(GiveUp(run)))
       ELSE me \notin paused /\ Step([run EXCEPT !.pc = "fetch"])
NextTrackWaits ==
    /\ run.pc = "tracks"
    /\ IF run.left = 0 THEN Step(NextRow(run))
       ELSE /\ me \notin paused
            /\ IF me \in cancelled \/ Skips(Current) THEN Step(NextRow(GiveUp(run)))
               ELSE Step([run EXCEPT !.pc = "fetch"])

\* run_tracks before each track: cancel and skip stop the row, pause holds it.
NextTrack ==
    /\ run.pc = "tracks"
    /\ IF run.left = 0 THEN Step(NextRow(run))
       ELSE IF me \in cancelled \/ Skips(Current) THEN Step(NextRow(GiveUp(run)))
       ELSE me \notin paused /\ Step([run EXCEPT !.pc = "fetch"])

\* A download in flight is interrupted only by a cancel or its row's skip.
TrackInterrupted ==
    /\ run.pc = "fetch"
    /\ me \in cancelled \/ Skips(Current)
    /\ Step(NextRow(GiveUp(run)))

\* Any other outcome, and every pre-flight verdict, settles the track.
TrackSettled ==
    /\ run.pc = "fetch"
    /\ Step([Settled(run) EXCEPT !.pc = "tracks", !.left = @ - 1])

\* `_fatal`: a raise anywhere in the loop ends the run.
Fatal ==
    /\ run.pc \in {"row", "resolve", "tracks", "fetch"}
    /\ Step([GiveUp(run) EXCEPT !.pc = "finish", !.fatal = TRUE,
                !.index = IF run.pc \in {"tracks", "fetch"} THEN @ + 1 ELSE @])

\* `_finish`, then the job's thread pops the slot.
Finish ==
    /\ run.pc = "finish"
    /\ run' = NoRunYet
    /\ slot' = NoRunner
    /\ UNCHANGED <<queueVars, batchRunner, controls, caller>>

-----------------------------------------------------------------------------
Walk == \/ Loop \/ AdmitRows \/ Check \/ StartRow
        \/ ResolveFailed \/ ResolveEmpty \/ ResolveTracks
        \/ NextTrack \/ TrackInterrupted \/ TrackSettled \/ Finish

Call(c) ==
    \/ BatchAdd(c)
    \/ \E label \in {"remove", "clear", "move"} : QueueIdle(c, label)
    \/ BatchRemove(c) \/ BatchClear(c) \/ BatchMove(c)
    \/ SkipCheck(c) \/ SkipMark(c) \/ SkipRow(c)
    \/ StartCapture(c) \/ StartArm(c) \/ StartClaim(c)
    \/ \E label \in {"pause", "resume", "cancel"} : ControlCheck(c, label)
    \/ Pause(c) \/ Resume(c) \/ Cancel(c)

Next == Walk \/ Fatal \/ \E c \in Callers : Call(c)

\* The job's thread keeps running: a resolve and a download come to an end.
\* Nobody has to press anything, and nothing has to raise.
Fairness == WF_vars(Walk)

Spec == Init /\ [][Next]_vars
FairSpec == Spec /\ Fairness

\* No step tells one row from another, for TLC's SYMMETRY in runs without liveness.
RowSymmetry == Permutations(Row)

-----------------------------------------------------------------------------
(* Properties *)

CallPc == {"idle", "remove", "clear", "move", "skip", "interrupt", "captured",
           "armed", "pause", "resume", "cancel"}
RunPc == {"off", "loop", "admit", "check", "row", "resolve", "tracks", "fetch",
          "finish"}
RefType == [live : BOOLEAN, rows : Seq(Row)]
CallType == [pc : CallPc, row : Row \cup {NoRow}, by : Runner \cup {NoRunner},
             prev : Runner \cup {NoRunner}, ref : RefType]
RunType == [pc : RunPc, ref : RefType, index : Nat \ {0}, seen : Nat,
            counted : SUBSET Row, total : Nat, done : Nat, left : 0 .. MaxTracks,
            ran : [Row -> Nat], dropped : Nat, unpaid : SUBSET Row,
            barren : SUBSET Row, late : Nat, fatal : BOOLEAN, edited : BOOLEAN]

TypeOK ==
    /\ batch \in Seq(Row)
    /\ unused \subseteq Row
    /\ skippedRow \subseteq Row
    /\ batchRunner \in Runner \cup {NoRunner}
    /\ slot \in Runner \cup {NoRunner} /\ (Running <=> run.pc # "off")
    /\ cancelled \subseteq Runner /\ paused \subseteq Runner
    /\ skips \in [Runner -> SUBSET Row]
    /\ caller \in [Callers -> CallType]
    /\ run \in RunType

\* The next position the walk comes to, the rows from there on, and those of them
\* it counted.
Here == IF run.pc \in {"tracks", "fetch"} THEN run.index + 1 ELSE run.index
Coming == {queue[i] : i \in Here .. Len(queue)}
Outstanding == run.counted \cap Coming

\* The progress bar's ledger: at every moment of a run, the total is what was
\* done, what was given up, what is left of this row and the rows still to
\* come.  Withdrawn, skipped, empty, multi-track and late rows all keep it; the
\* only corrections are rows that joined between the counting and the length
\* check, run before they are counted and counted when they are behind.
\* Excepted: a queue edit whose idle test came before the run and whose edit
\* comes during it.
TotalIsAccounted ==
    Running /\ ~run.edited =>
        run.total + Cardinality(run.unpaid \ run.counted)
        = run.done + run.dropped + run.left + Cardinality(Outstanding)
          + Cardinality(run.barren \cap run.counted)

\* The walk runs no row twice, and a run that ends by itself has passed every
\* row it counted, with the same exception.
EveryRowOnce ==
    ~run.edited =>
    /\ \A row \in Row : run.ran[row] <= 1
    /\ run.pc = "finish" /\ me \notin cancelled /\ ~run.fatal =>
          Outstanding = {}

\* A track that was counted is given up only because someone cancelled the run
\* or skipped a row of it, or the run failed.
NothingGivenUpSilently ==
    Running /\ run.dropped > 0 => me \in cancelled \/ skips[me] # {} \/ run.fatal

\* "Cancel stops after the current one": at most one piece of work is booked
\* after the event is set, wherever in the row it lands.
CancelStopsAfterCurrent == run.late <= 1

\* An accepted cancel ends the run, also when it is paused, and also when a
\* pause is pressed after it.
Stopping(r) == slot = r /\ r \in cancelled
Stopped(r) == slot # r
CancelEndsRun == \A r \in Runner : Stopping(r) ~> Stopped(r)

-----------------------------------------------------------------------------
(* What the source says of a running batch and the code does not keep *)

\* batchrun.py:237-239: a raise must not leave "a Cancel button that answers
\* "no download is running"" on a batch that is running.  So: while a run holds
\* the slot and no start is being tried, the controls act on that run.
ControlsReachRun ==
    Running /\ (\A c \in Callers : ~At(c, "armed")) => batchRunner = slot
=============================================================================
