------------------------------- MODULE Cleanup -------------------------------
(***************************************************************************)
(* Folders Cleanup: channel by channel, the run scans, compares the folder  *)
(* with the listing and publishes a review; it waits for the page's answer, *)
(* a cancel or the decision timeout, and sends what was ticked to the       *)
(* trash. The page answers the review it shows, which may no longer be the  *)
(* one that waits.                                                          *)
(***************************************************************************)
EXTENDS Integers, FiniteSets, Sequences

CONSTANTS Channels,   \* the order the run takes them in
          Files,      \* audio files
          Owner,      \* the channel each is in the folder of
          MaxRuns,    \* bound: runs
          MaxFaults   \* bound: files the trash refuses, rows the database keeps

VARIABLES disk,     \* files still in their folders
          rows,     \* files with a downloads row
          gone,     \* files whose track is off the channel's listing
          pc,       \* the run: where it is
          at,       \* the index of the channel in hand
          pending,  \* _pending: the files the waiting review offers, or None
          decision, \* _decision: <<action, paths>>, or <<>>
          taken,    \* the decision the run woke up with
          cancel, answered, \* the two events
          shown,    \* reviews the page has been sent: files offered, by channel
          ticked,   \* history: files the user ticked in a confirm of this run
          heard,    \* history: how the run's cancel stands: "no", "asked"
          runs, faults \* (bounded)

vars == <<disk, rows, gone, pc, at, pending, decision, taken, cancel, answered, shown, ticked, heard, runs, faults>>

None == {}   \* no review: a review offers at least one file
Channel == Channels[at]
Folder == {f \in disk : Owner[f] = Channel}

Init == /\ disk = Files /\ rows \in SUBSET Files /\ gone \in SUBSET Files
        /\ pc = "idle" /\ at = 1 /\ pending = None /\ decision = <<>> /\ taken = {}
        /\ cancel = FALSE /\ answered = FALSE /\ shown = {} /\ ticked = {} /\ heard = "no"
        /\ runs = 0 /\ faults = 0

Fault == faults < MaxFaults /\ faults' = faults + 1

\* cleanup_start took the slot; run() resets the review, then both events.
Start == /\ pc = "idle" /\ runs < MaxRuns /\ runs' = runs + 1
         /\ pc' = "reset" /\ at' = 1 /\ pending' = None /\ decision' = <<>>
         /\ ticked' = {} /\ heard' = "no"
         /\ UNCHANGED <<disk, rows, gone, taken, cancel, answered, shown, faults>>
Reset == /\ pc = "reset" /\ pc' = "channel" /\ cancel' = FALSE /\ answered' = FALSE /\ heard' = "no"
         /\ UNCHANGED <<disk, rows, gone, at, pending, decision, taken, shown, ticked, runs, faults>>

Finish == /\ pc' = "idle" /\ pending' = None
          /\ UNCHANGED <<disk, rows, gone, at, decision, taken, cancel, answered, shown, ticked, heard, runs, faults>>

\* The head of the loop, and the check after the scan: a cancelled run stops, a
\* scan that failed or is not to be trusted moves on, and so does a clean channel.
\* classify_local_files flags a file whose track is off the listing. (A scan that
\* falls short by less than is_scan_trustworthy notices offers too much; the user
\* decides.)
Flagged(listed) == {f \in Folder : f \notin listed}
Scan == /\ pc = "channel"
        /\ IF at > Len(Channels) \/ cancel THEN Finish
           ELSE \E listed \in {Files \ gone, {}} :    \* the listing, or a scan that failed
                  /\ IF listed = {} \/ Flagged(listed) = {}
                     THEN pc' = "channel" /\ at' = at + 1 /\ UNCHANGED taken
                     ELSE pc' = "publish" /\ taken' = Flagged(listed) /\ UNCHANGED at
                  /\ UNCHANGED <<disk, rows, gone, pending, decision, cancel, answered, shown, ticked, heard, runs, faults>>

\* _review: the review is set and the events cleared in one hold of the lock.
Publish == /\ pc = "publish" /\ pc' = "recheck"
           /\ pending' = taken /\ decision' = <<>> /\ answered' = FALSE /\ taken' = {}
           /\ UNCHANGED <<disk, rows, gone, at, cancel, shown, ticked, heard, runs, faults>>

\* Mutant of SeesCancel: nobody looks again.
SeesNothing == FALSE
\* A cancel whose answered.set() the clear above swallowed is seen here.
SeesCancel == cancel
Recheck == /\ pc = "recheck"
           /\ IF SeesCancel THEN Finish
              ELSE /\ pc' = "wait" /\ shown' = shown \union {pending}
                   /\ UNCHANGED <<disk, rows, gone, at, pending, decision, taken, cancel, answered, ticked, heard, runs, faults>>

\* The wait ends by an answer, a cancel, or the timeout (woke: which it was).
Wake(woke) == /\ pc = "wait" /\ pc' = IF woke THEN "answer" ELSE "timeout"
              /\ UNCHANGED <<disk, rows, gone, at, pending, decision, taken, cancel, answered, shown, ticked, heard, runs, faults>>
Answered == answered /\ Wake(TRUE)
TimesOut == ~answered /\ Wake(FALSE)

\* The decision is taken and the review withdrawn; a cancel, a timeout or an
\* empty answer ends the run, whatever the decision says.
Take == /\ pc \in {"answer", "timeout"} /\ pending' = None /\ decision' = <<>>
        /\ IF cancel \/ pc = "timeout" \/ decision = <<>> \/ decision[1] = "cancel"
           THEN pc' = "idle" /\ UNCHANGED <<at, taken>>
           ELSE IF decision[1] = "skip" THEN pc' = "channel" /\ at' = at + 1 /\ UNCHANGED taken
           ELSE pc' = "trash" /\ taken' = decision[2] /\ UNCHANGED at
        /\ UNCHANGED <<disk, rows, gone, cancel, answered, shown, ticked, heard, runs, faults>>

\* _apply: what the trash took (partition_trash), then the rows of those files.
Trash == /\ pc = "trash" /\ pc' = "rows"
         /\ \E trashed \in SUBSET taken :
              /\ IF trashed = taken THEN UNCHANGED faults ELSE Fault
              /\ disk' = disk \ trashed /\ taken' = trashed
         /\ UNCHANGED <<rows, gone, at, pending, decision, cancel, answered, shown, ticked, heard, runs>>
DropRows == /\ pc = "rows" /\ pc' = "channel" /\ at' = at + 1 /\ taken' = {}
            /\ \/ rows' = rows \ taken /\ UNCHANGED faults
               \/ Fault /\ UNCHANGED rows
            /\ UNCHANGED <<disk, gone, pending, decision, cancel, answered, shown, ticked, heard, runs>>

\* Mutant of Chosen: what was ticked, offered or not.
ChosenAll(paths) == paths
\* decide: it answers the review that waits, whatever review the page shows, and
\* keeps of its paths those that review offered.
Chosen(paths) == paths \cap pending
Decide(action, paths) ==
    /\ pending # None /\ decision' = <<action, Chosen(paths)>> /\ answered' = TRUE
    /\ ticked' = IF action = "confirm" THEN ticked \union paths ELSE ticked
    /\ UNCHANGED <<disk, rows, gone, pc, at, pending, taken, cancel, shown, heard, runs, faults>>
Page == \E review \in shown, action \in {"confirm", "skip", "cancel"} :
          \E paths \in IF action = "confirm" THEN SUBSET review ELSE {{}} : Decide(action, paths)

\* cancel: both events, one after the other.
Cancel == /\ ~cancel /\ cancel' = TRUE /\ heard' = "asked"
          /\ UNCHANGED <<disk, rows, gone, pc, at, pending, decision, taken, answered, shown, ticked, runs, faults>>
CancelWakes == /\ heard = "asked" /\ answered' = TRUE /\ heard' = "told"
               /\ UNCHANGED <<disk, rows, gone, pc, at, pending, decision, taken, cancel, shown, ticked, runs, faults>>

\* A channel's tracks come and go between scans.
Withdrawn == /\ runs < MaxRuns /\ pc = "idle" /\ gone' \in SUBSET Files /\ gone' # gone
             /\ UNCHANGED <<disk, rows, pc, at, pending, decision, taken, cancel, answered, shown, ticked, heard, runs, faults>>

Runs == Reset \/ Scan \/ Publish \/ Recheck \/ Answered \/ Take \/ Trash \/ DropRows
Next == Start \/ Runs \/ TimesOut \/ Page \/ Cancel \/ CancelWakes \/ Withdrawn
Spec == Init /\ [][Next]_vars

\* The run's thread goes on and a cancel call runs to its end. Nobody need answer,
\* and the fifteen minutes of the timeout are not waited for.
FairSpec == Spec /\ WF_vars(Runs) /\ WF_vars(CancelWakes)

-----------------------------------------------------------------------------
\* A file leaves the disk only if the user ticked it in this run and it was still
\* off its channel's listing at the scan whose review offered it: an answer that
\* comes late, to a review of another channel, trashes nothing of either.
TrashesTheOffered == \A f \in disk \ disk' : f \in ticked /\ Owner[f] = Channel /\ f \in gone
OnlyWhatWasOffered == [][TrashesTheOffered]_vars

\* A cancel ends the run without waiting for an answer or for the timeout, also
\* when it comes as the next review is being published. (One between the start's
\* reply and run()'s clear is dropped: heard is "no" again.)
CancelTold == heard = "told" /\ pc # "idle"
ReviewEnded == pc = "idle" \/ heard = "no"
CancelEndsReview == CancelTold ~> ReviewEnded

-----------------------------------------------------------------------------
(* The inductive invariant that the property follows from. *)

\* Files of the channel in hand that are off its listing.
Offers(paths) == \A f \in paths : Owner[f] = Channel /\ f \in gone

\* A decision that is kept answers the review that waits.
DecisionIsSound ==
    decision # <<>> => /\ decision[1] \in {"confirm", "skip", "cancel"}
                       /\ decision[2] \subseteq pending
                       /\ decision[1] = "confirm" => decision[2] \subseteq ticked

\* What a review offers, and what of it may be trashed, is of the channel in
\* hand and was off its listing at the scan, from the scan to the trash.
ReviewIsSound ==
    /\ disk \subseteq Files
    /\ pc = "publish" => Offers(taken)
    /\ pc \in {"recheck", "wait", "answer", "timeout"} => Offers(pending) /\ DecisionIsSound
    /\ pc = "trash" => Offers(taken) /\ taken \subseteq ticked
=============================================================================
