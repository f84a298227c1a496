----------------------------- MODULE ScanWorker -----------------------------
(***************************************************************************)
(* One channel's listing, asked of a child process: its answer and its      *)
(* progress come up two pipes, which two threads drain while the parent     *)
(* polls for the exit, a cancel and the deadline. What the parent is told   *)
(* decides whether the channel is dead, so no failure may read as an answer.*)
(***************************************************************************)
EXTENDS Naturals

CONSTANTS Size, \* pieces of a whole answer; progress lines of a whole listing
          Pipe  \* what a pipe holds

VARIABLES site,    \* the channel: "lists", "gone" or "odd"
          portal,  \* a captive portal answers for it
          flipped, \* history: the network changed under the call
          child,   \* "none", "asked", "lists", "fails", "writes", "ended" or "hung"
          said,    \* what the child has to say: a listing, an error's kind, or a crash
          wrote,   \* [pipes -> pieces the child has written]
          drained, \* [pipes -> pieces the pumps have read]
          held,    \* something the child started holds its pipes open
          cancel,  \* should_cancel
          parent,  \* "spawns", "waits", "joins" or "done"
          joined,  \* pumps that have ended, or been waited for long enough
          outcome  \* what list_channel_isolated returns or raises

vars == <<site, portal, flipped, child, said, wrote, drained, held, cancel, parent, joined, outcome>>

Pipes == {"out", "err"}
world == <<site, portal, flipped>>
pump == <<drained, joined>>

Init == /\ site \in {"lists", "gone", "odd"} /\ portal \in BOOLEAN /\ flipped = FALSE
        /\ child = "none" /\ said = "none" /\ wrote = [p \in Pipes |-> 0] /\ drained = [p \in Pipes |-> 0]
        /\ held = FALSE /\ cancel = FALSE /\ parent = "spawns" /\ joined = {} /\ outcome = "none"

-----------------------------------------------------------------------------
(* YdlSession.list_channel, in the child or in the app. *)

\* classify_ydl_error and the captive-portal rule: a refusal is believed only
\* when the network answers.
Classify == IF site = "lists" /\ ~portal THEN "entries"
            ELSE IF site = "odd" /\ ~portal THEN "unclassified"
            ELSE "refused"
Probe == IF portal THEN "offline" ELSE "permanent"

-----------------------------------------------------------------------------
(* The child: worker_main. *)

AskChild == /\ child = "asked" /\ child' \in {"lists", "hung"} /\ held' \in BOOLEAN
            /\ UNCHANGED <<world, said, wrote, pump, cancel, parent, outcome>>

\* _progress_reporter, while the listing is paged in.
Count == /\ child = "lists" /\ wrote["err"] < Size /\ wrote["err"] - drained["err"] < Pipe
         /\ wrote' = [wrote EXCEPT !["err"] = @ + 1]
         /\ UNCHANGED <<world, child, said, pump, held, cancel, parent, outcome>>

\* The listing, a typed error, or a worker that breaks.
Listed == /\ child = "lists" /\ wrote["err"] = Size
          /\ \/ said' = Classify /\ child' = IF said' = "refused" THEN "fails" ELSE "writes"
             \/ said' = "crash" /\ child' = "writes"
          /\ UNCHANGED <<world, wrote, pump, held, cancel, parent, outcome>>
ChildProbes == /\ child = "fails" /\ said' = Probe /\ child' = "writes"
               /\ UNCHANGED <<world, wrote, pump, held, cancel, parent, outcome>>

Answer == /\ child = "writes" /\ wrote["out"] < Size /\ wrote["out"] - drained["out"] < Pipe
          /\ wrote' = [wrote EXCEPT !["out"] = @ + 1]
          /\ UNCHANGED <<world, child, said, pump, held, cancel, parent, outcome>>

ChildEnds == /\ child = "writes" /\ wrote["out"] = Size /\ child' = "ended"
             /\ UNCHANGED <<world, said, wrote, pump, held, cancel, parent, outcome>>

\* Killed from outside, at any point.
ChildDies == /\ child \in {"asked", "lists", "fails", "writes", "hung"} /\ child' = "ended"
             /\ UNCHANGED <<world, said, wrote, pump, held, cancel, parent, outcome>>

-----------------------------------------------------------------------------
(* The parent: list_channel_isolated. *)

Spawn == /\ parent = "spawns" /\ parent' = "waits" /\ child' = "asked"
         /\ UNCHANGED <<world, said, wrote, pump, held, cancel, outcome>>

\* A child that cannot be started: the listing runs in the app.
SpawnFails == /\ parent = "spawns"
              /\ IF Classify = "refused" THEN parent' = "probes" /\ UNCHANGED outcome
                 ELSE parent' = "done" /\ outcome' = Classify
              /\ said' = Classify
              /\ UNCHANGED <<world, child, wrote, pump, held, cancel>>
ParentProbes == /\ parent = "probes" /\ parent' = "done" /\ outcome' = Probe
                /\ UNCHANGED <<world, child, said, wrote, pump, held, cancel>>

\* Mutant of Drains: the pipes are read once the child has ended.
DrainsAtEnd(p) == child = "ended" /\ drained[p] < wrote[p]
\* Both pipes are read while the child runs.
Drains(p) == drained[p] < wrote[p]
Pump == /\ \E p \in Pipes : Drains(p) /\ drained' = [drained EXCEPT ![p] = @ + 1]
        /\ UNCHANGED <<world, child, said, wrote, held, cancel, parent, joined, outcome>>

Exited == /\ parent = "waits" /\ child = "ended" /\ parent' = "joins"
          /\ UNCHANGED <<world, child, said, wrote, pump, held, cancel, outcome>>

Finish(what) == parent' = "done" /\ outcome' = what

\* _kill, then the error: for a cancel,
Cancelled == /\ parent = "waits" /\ cancel /\ child' = "ended" /\ Finish("cancelled")
             /\ UNCHANGED <<world, said, wrote, pump, held, cancel>>

\* and for the deadline, which a child at work does not come near.
Full(p) == wrote[p] < Size /\ wrote[p] - drained[p] >= Pipe /\ \A q \in Pipes : ~Drains(q)
Stuck == child = "hung" \/ (child = "lists" /\ Full("err")) \/ (child = "writes" /\ Full("out"))
TimedOut == /\ parent = "waits" /\ Stuck /\ child' = "ended"
            /\ Finish(IF child = "hung" THEN "timed out" ELSE "stalled")
            /\ UNCHANGED <<world, said, wrote, pump, held, cancel>>

\* A pump ends with its pipe; one that is held open is waited for five seconds.
Join == /\ parent = "joins" /\ \E p \in Pipes \ joined : drained[p] = wrote[p] /\ joined' = joined \union {p}
        /\ UNCHANGED <<world, child, said, wrote, drained, held, cancel, parent, outcome>>

\* Mutant of Decode: a crash and half an answer are read as answers.
DecodeLoosely == IF held \/ drained["out"] < Size \/ said = "none" THEN "entries" ELSE said
\* decode_result: an answer that is not whole is no answer. A held pipe's pump
\* has returned nothing to read.
Decode == IF held \/ drained["out"] < Size \/ said \in {"none", "crash"} THEN "error" ELSE said
Decoded == /\ parent = "joins" /\ joined = Pipes /\ Finish(Decode)
           /\ UNCHANGED <<world, child, said, wrote, pump, held, cancel>>

CancelIt == /\ ~cancel /\ parent # "done" /\ cancel' = TRUE
            /\ UNCHANGED <<world, child, said, wrote, pump, held, parent, outcome>>

Flip == /\ parent # "done" /\ portal' = ~portal /\ flipped' = (flipped \/ said # "none" \/ child = "lists")
        /\ UNCHANGED <<site, child, said, wrote, pump, held, cancel, parent, outcome>>

Next == \/ AskChild \/ Count \/ Listed \/ ChildProbes \/ Answer \/ ChildEnds \/ ChildDies
        \/ Spawn \/ SpawnFails \/ ParentProbes \/ Pump \/ Exited \/ Cancelled \/ TimedOut \/ Join \/ Decoded
        \/ CancelIt \/ Flip
Spec == Init /\ [][Next]_vars

-----------------------------------------------------------------------------
(* Properties *)

\* A listing is one the channel gave in full, a channel is called gone only when it
\* is - unless the network changed under the call - and no pipe ever stalls a child.
VerdictIsEarned == /\ outcome = "entries" => site = "lists" /\ said = "entries"
                   /\ outcome = "permanent" /\ ~flipped => site = "gone"
                   /\ outcome # "stalled"

-----------------------------------------------------------------------------
(* The inductive invariant that the property follows from. *)

\* What was said is what the channel gave, and nobody says more once the parent has decided.
ScanInv == /\ wrote \in [Pipes -> Nat] /\ drained \in [Pipes -> Nat]
           /\ site \in {"lists", "gone", "odd"} /\ portal \in BOOLEAN
           /\ said \in {"none", "entries", "unclassified", "refused", "crash", "offline", "permanent"}
           /\ said = "entries" => site = "lists"
           /\ ~flipped => /\ said = "refused" => portal \/ site = "gone"
                          /\ said = "permanent" => site = "gone"
           /\ parent = "spawns" => child = "none" /\ said = "none"
           /\ parent = "probes" => child = "none" /\ said = "refused"
           /\ parent \in {"joins", "done"} => child \in {"none", "ended"}
           /\ child = "fails" => said = "refused"
           /\ outcome # "none" => parent = "done"
           /\ VerdictIsEarned
=============================================================================
