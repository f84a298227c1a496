----------------------------- MODULE FfmpegSwap ------------------------------
(***************************************************************************)
(* The bundled FFmpeg kept at the version the update channel offers: every *)
(* check decides from the marker file and from what the binary reports,    *)
(* defers to a retry while the app is busy, and swaps the two binaries one *)
(* file after the other, rolling back what fails. The files and the marker *)
(* outlive the process, which may be killed at any of these steps.         *)
(***************************************************************************)
EXTENDS Integers, FiniteSets

CONSTANTS Files,      \* the binaries in the zip
          Exe,        \* ffmpeg.exe, the one that is probed
          Checkers,   \* bound: checks at a time (manual, silent, the retry's)
          MaxOffer,   \* bound: newer versions published
          MaxTrouble  \* bound: jobs started, steps failed, processes killed

None == -1
Versions == 0 .. MaxOffer

VARIABLES offer,     \* the version the manifest offers
          disk,      \* the version of each binary, None while it is not there
          marker,    \* ffmpeg_version.txt, None before the first
          check,     \* each check: [pc, block], block the version its manifest offers
          retry,     \* _ffmpeg_retry is armed
          retryFor,  \* _ffmpeg_retry_manifest
          swap,      \* the swap's thread: [pc, version, todo, kept]
          busy,      \* a job or a retag runs
          trouble    \* (bounded)

vars == <<offer, disk, marker, check, retry, retryFor, swap, busy, trouble>>
files == <<disk, marker>>
retries == <<retry, retryFor>>

NoCheck == [pc |-> "none", block |-> None]
NoSwap == [pc |-> "none", version |-> None, todo |-> {}, kept |-> [f \in Files |-> None]]

\* An install was shipped with a marker that is true, or with none, or with one
\* that claims an FFmpeg its payload left out (build 57).
Init == /\ offer = 0 /\ disk = [f \in Files |-> 0] /\ marker \in {None} \union Versions
        /\ check = [c \in Checkers |-> NoCheck]
        /\ retry = FALSE /\ retryFor = None /\ swap = NoSwap
        /\ busy = FALSE /\ trouble = 0

Trouble == trouble < MaxTrouble /\ trouble' = trouble + 1
At(c, pc) == check[c].pc = pc
Goto(c, pc) == check' = [check EXCEPT ![c].pc = pc]
Done(c) == check' = [check EXCEPT ![c] = NoCheck]

-----------------------------------------------------------------------------
(* A check, on its own thread. *)

\* update_check: fetch_manifest.
Fetch(c) == /\ At(c, "none")
            /\ check' = [check EXCEPT ![c] = [pc |-> "decide", block |-> offer]]
            /\ UNCHANGED <<offer, files, retries, swap, busy, trouble>>

\* _ffmpeg_retry_fire: the slot is cleared, the kept manifest decided again.
RetryFire(c) == /\ At(c, "none") /\ retry /\ retry' = FALSE
                /\ IF retryFor = None THEN UNCHANGED check
                   ELSE check' = [check EXCEPT ![c] = [pc |-> "decide", block |-> retryFor]]
                /\ UNCHANGED <<offer, files, retryFor, swap, busy, trouble>>

\* probe_ffmpeg_build: None when the binary is missing.
Reported == disk[Exe]

\* Mutant of FfmpegUpdateAction: a marker that is there is believed.
FfmpegUpdateActionByMarker(offered) ==
    IF marker = None THEN IF Reported # None /\ Reported # offered THEN "update" ELSE "adopt"
    ELSE IF marker # offered THEN "update" ELSE "nothing"

\* ffmpeg_update_action.
FfmpegUpdateAction(offered) ==
    IF marker = None THEN IF Reported # None /\ Reported # offered THEN "update" ELSE "adopt"
    ELSE IF marker # offered \/ (Reported # None /\ Reported # marker) THEN "update"
    ELSE "nothing"

\* bundled_ffmpeg_dir finds no install without the binary.
Decide(c) == /\ At(c, "decide")
             /\ IF disk[Exe] = None THEN Done(c)
                ELSE Goto(c, FfmpegUpdateAction(check[c].block))
             /\ UNCHANGED <<offer, files, retries, swap, busy, trouble>>

\* _cancel_ffmpeg_retry.
CancelRetry == retry' = FALSE /\ retryFor' = None

NothingToDo(c) == /\ At(c, "nothing")
                  /\ CancelRetry /\ Done(c)
                  /\ UNCHANGED <<offer, files, swap, busy, trouble>>

Adopt(c) == /\ At(c, "adopt") /\ CancelRetry /\ Done(c)
            /\ marker' = check[c].block
            /\ UNCHANGED <<offer, disk, swap, busy, trouble>>

\* The locked look: the swap is claimed, or put off.
Claim(c) == /\ At(c, "update")
            /\ IF busy \/ swap.pc # "none"
               THEN Goto(c, "deferred") /\ UNCHANGED swap
               ELSE /\ Goto(c, "claimed")
                    /\ swap' = [NoSwap EXCEPT !.pc = "claimed", !.version = check[c].block]
            /\ UNCHANGED <<offer, files, retries, busy, trouble>>

\* _arm_ffmpeg_retry: the manifest is replaced, one timer is enough.
Defer(c) == /\ At(c, "deferred") /\ Done(c)
            /\ retry' = TRUE /\ retryFor' = check[c].block
            /\ UNCHANGED <<offer, files, swap, busy, trouble>>

StartSwap(c) == /\ At(c, "claimed") /\ Done(c) /\ CancelRetry
                /\ swap' = [swap EXCEPT !.pc = "download"]
                /\ UNCHANGED <<offer, files, busy, trouble>>

CheckStep(c) == Decide(c) \/ NothingToDo(c) \/ Adopt(c) \/ Claim(c) \/ Defer(c) \/ StartSwap(c)

-----------------------------------------------------------------------------
(* _ffmpeg_swap. *)

\* Downloaded, verified and extracted.
Extract == /\ swap.pc = "download"
           /\ swap' = [swap EXCEPT !.pc = "move", !.todo = Files]
           /\ UNCHANGED <<offer, files, check, retries, busy, trouble>>

\* apply_update, for each file: moved aside, then copied.
MoveAside == /\ swap.pc = "move"
             /\ \E f \in swap.todo :
                  /\ swap' = [swap EXCEPT !.pc = "copy", !.kept[f] = disk[f]]
                  /\ disk' = [disk EXCEPT ![f] = None]
             /\ UNCHANGED <<offer, marker, check, retries, busy, trouble>>

Copy == /\ swap.pc = "copy"
        /\ \E f \in swap.todo :
             /\ disk[f] = None
             /\ disk' = [disk EXCEPT ![f] = swap.version]
             /\ swap' = [swap EXCEPT !.pc = IF swap.todo = {f} THEN "mark" ELSE "move",
                                     !.todo = @ \ {f}]
        /\ UNCHANGED <<offer, marker, check, retries, busy, trouble>>

Moved == {f \in Files : swap.kept[f] # None}

\* A download, a checksum, a locked binary, the marker's write: what apply_update
\* moved is put back, once it is through the files stay.
SwapFails == /\ swap.pc \in {"download", "move", "copy", "mark"} /\ Trouble
             /\ disk' = [f \in Files |-> IF f \in Moved /\ swap.pc # "mark"
                                         THEN swap.kept[f] ELSE disk[f]]
             /\ swap' = NoSwap
             /\ UNCHANGED <<offer, marker, check, retries, busy>>

WriteMarker == /\ swap.pc = "mark" /\ marker' = swap.version /\ swap' = NoSwap
               /\ UNCHANGED <<offer, disk, check, retries, busy, trouble>>

SwapStep == Extract \/ MoveAside \/ Copy \/ WriteMarker

-----------------------------------------------------------------------------
Publish == /\ offer < MaxOffer /\ offer' = offer + 1
           /\ UNCHANGED <<files, check, retries, swap, busy, trouble>>

JobStarts == /\ ~busy /\ Trouble /\ busy' = TRUE
             /\ UNCHANGED <<offer, files, check, retries, swap>>

JobEnds == /\ busy /\ busy' = FALSE
           /\ UNCHANGED <<offer, files, check, retries, swap, trouble>>

\* The process is killed and started again: the files and the marker stay.
Restart == /\ Trouble
           /\ check' = [c \in Checkers |-> NoCheck] /\ retry' = FALSE /\ retryFor' = None
           /\ swap' = NoSwap /\ busy' = FALSE
           /\ UNCHANGED <<offer, files>>

Next == \/ \E c \in Checkers : Fetch(c) \/ RetryFire(c) \/ CheckStep(c)
        \/ SwapStep \/ SwapFails \/ Publish \/ JobStarts \/ JobEnds \/ Restart

Spec == Init /\ [][Next]_vars

\* Threads go on, jobs end; the retry's timer fires and the interval's check
\* comes round (ChecksGoOn of UpdateTimer).
FairSpec == /\ Spec /\ WF_vars(SwapStep) /\ WF_vars(JobEnds)
            /\ \A c \in Checkers : WF_vars(CheckStep(c)) /\ WF_vars(RetryFire(c))
            /\ SF_vars(\E c \in Checkers : Fetch(c))

-----------------------------------------------------------------------------
(* Properties *)

\* Whatever fails, is put off, is decided on an older manifest or is killed half
\* way, the binary comes to what the channel offers - unless a kill fell on the
\* one moment it was aside, after which the app does not find its FFmpeg.
Offered(v) == offer = v
Lands(v) == offer # v \/ disk[Exe] = v \/ (disk[Exe] = None /\ swap.pc = "none")
OfferLands == \A v \in Versions : Offered(v) ~> Lands(v)
=============================================================================
