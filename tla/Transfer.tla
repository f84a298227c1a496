------------------------------- MODULE Transfer -------------------------------
(***************************************************************************)
(* One track's transfer: the probe that may raise its bitrate, the rungs    *)
(* with and without cookies and their attempts, what yt-dlp's progress hook  *)
(* tells the panel meanwhile, a Skip or a cancel at any moment, and what is  *)
(* recorded in the end. A bitrate is a number, 0 one that is not known.      *)
(***************************************************************************)
EXTENDS Integers

CONSTANTS Target,      \* the MP3 bitrate the user chose
          Ceiling,     \* the highest an MP3 has (320)
          Rates,       \* what the service's audio streams carry
          MaxAttempts, \* attempts per rung (MAX_ATTEMPTS)
          MaxTrouble   \* bound: probes that fail, lost descriptions, raises of the recording

VARIABLES policy,  \* [cookies, convert, auto]: the settings the track is downloaded under
          asked,   \* Skip was pressed, or the run cancelled, while the track was in hand
          job,     \* the transfer: see Fresh
          shown,   \* the last bitrates the panel was told: [abr, kbps]
          heard,   \* what the streams of the rung in hand carried
          out,     \* the Outcome's kind
          wrote,   \* what the transfer left: "crate", "row", "memory", "error"
          row,     \* the downloads row's bitrates: [abr, kbps]
          trouble  \* (bounded)

vars == <<policy, asked, job, shown, heard, out, wrote, row, trouble>>

None == "none"
NoRate == [abr |-> 0, kbps |-> 0]

\* pc; auth: this rung's cookies; up: the upgraded bitrate; announced and coded:
\* the rung's bitrate as the hook and as the options have it; abr: source_abr;
\* age: the first failure's verdict.
Fresh == [pc |-> "start", auth |-> FALSE, up |-> 0, announced |-> 0, coded |-> 0, abr |-> 0, attempt |-> 0, age |-> None]

\* SkipOrCancel.is_set: the row's Skip or the run's cancel.
Stopping == asked
Lower(a, b) == IF a < b THEN a ELSE b
Trouble == trouble < MaxTrouble /\ trouble' = trouble + 1
At(pc) == job.pc = pc

\* rung_kbps: the upgrade describes the authenticated formats only.
RungKbps(auth, up) == IF auth /\ up # 0 THEN up ELSE Target

\* download_opts_builder: what the encoder of one rung is told.
Opts(auth, up) == IF policy.convert THEN RungKbps(auth, up) ELSE 0

Init == /\ policy \in [cookies : BOOLEAN, convert : BOOLEAN, auto : BOOLEAN]
        /\ asked = FALSE /\ job = Fresh /\ shown = NoRate /\ heard = {}
        /\ out = None /\ wrote = {} /\ row = NoRate /\ trouble = 0

\* Mutant of Rung: the source bitrate and the announced one stay those of the rung before.
RungKept(j, auth) == [j EXCEPT !.pc = "call", !.auth = auth, !.attempt = 1, !.coded = Opts(auth, j.up),
                               !.announced = IF @ = 0 THEN RungKbps(auth, j.up) ELSE @]
\* The head of the ladder's loop: the rung's own bitrate, and no source bitrate yet.
Rung(j, auth) == [j EXCEPT !.pc = "call", !.auth = auth, !.attempt = 1, !.abr = 0,
                           !.announced = RungKbps(auth, j.up), !.coded = Opts(auth, j.up)]

Ends(kind) == out' = kind /\ job' = [job EXCEPT !.pc = "done"]

\* _upgrade_kbps: only where an upgrade can be.
Probes == policy.auto /\ policy.cookies /\ policy.convert /\ Target > 0 /\ Target < Ceiling
Probe == /\ At("start")
         /\ \/ /\ Probes
               /\ \E best \in Rates :
                    job' = Rung([job EXCEPT !.up = IF best > Target THEN Lower(best, Ceiling) ELSE Target], TRUE)
               /\ UNCHANGED trouble
            \/ /\ Probes /\ Trouble /\ job' = Rung([job EXCEPT !.up = Target], TRUE)
            \/ /\ ~Probes /\ job' = Rung([job EXCEPT !.up = Target], policy.cookies) /\ UNCHANGED trouble
         /\ heard' = {} /\ UNCHANGED <<policy, asked, shown, out, wrote, row>>

\* _attempts: before each call the canceller is looked at.
Call == /\ At("call")
        /\ IF Stopping THEN Ends("cancelled") ELSE job' = [job EXCEPT !.pc = "stream"] /\ UNCHANGED out
        /\ UNCHANGED <<policy, asked, shown, heard, wrote, row, trouble>>

\* The hook, once a piece of the stream is there: a stop aborts the transfer, the
\* first piece that says its bitrate is announced.
Hook == /\ At("stream")
        /\ IF Stopping
           THEN Ends("cancelled") /\ UNCHANGED <<shown, heard>>
           ELSE \E abr \in Rates :
                  /\ abr # 0 /\ job.abr = 0 /\ heard' = heard \union {abr}
                  /\ job' = [job EXCEPT !.abr = abr]
                  /\ shown' = [abr |-> abr, kbps |-> job.announced]
                  /\ UNCHANGED out
        /\ UNCHANGED <<policy, asked, wrote, row, trouble>>

\* yt-dlp gives up with an error: a wobble of the wire, the age gate, a cause that
\* is for good, or another.
Errors == {"wobble", "age", "gone", "soon", "other"}

\* The attempt is over: another one after a wait, the rung without cookies when the
\* first failure read like the age gate, or _record_failure.
Fails(error) ==
    LET age == IF job.age # None THEN job.age ELSE IF error = "age" THEN "yes" ELSE "no"
    IN  IF error = "wobble" /\ job.attempt < MaxAttempts
        THEN job' = [job EXCEPT !.pc = "wait"] /\ UNCHANGED <<out, wrote, heard>>
        ELSE IF age = "yes" /\ job.auth /\ error # "wobble"
        THEN /\ job' = Rung([job EXCEPT !.age = age], FALSE) /\ heard' = {}
             /\ UNCHANGED <<out, wrote>>
        ELSE /\ Ends(CASE error = "soon" -> "deferred" [] error = "gone" -> "unavailable" [] OTHER -> "failed")
             /\ wrote' = wrote \union {"error"} \union (IF error = "gone" THEN {"memory"} ELSE {})
             /\ UNCHANGED heard
\* Mutant of Raises: nobody asks whether it was stopped.
RaisesUnheard(error) == Fails(error)
Raises(error) == IF Stopping THEN Ends("cancelled") /\ UNCHANGED <<wrote, heard>> ELSE Fails(error)
Refused == /\ At("stream") /\ \E error \in Errors : Raises(error)
           /\ UNCHANGED <<policy, asked, shown, row, trouble>>

\* The backoff between two attempts: a stop ends it at once.
Backoff == /\ At("wait")
           /\ IF Stopping THEN Ends("cancelled")
              ELSE job' = [job EXCEPT !.pc = "call", !.attempt = @ + 1] /\ UNCHANGED out
           /\ UNCHANGED <<policy, asked, shown, heard, wrote, row, trouble>>

\* The runner returns: no hook runs any more, a stop from here on comes too late.
Arrived == /\ At("stream") /\ job' = [job EXCEPT !.pc = "record"]
           /\ UNCHANGED <<policy, asked, shown, heard, out, wrote, row, trouble>>

\* _record_success: the crate first, the tags and the art, then the row.
Remember == /\ At("record") /\ "crate" \notin wrote /\ wrote' = wrote \union {"crate"}
            /\ UNCHANGED <<policy, asked, job, shown, heard, out, row, trouble>>
AddRow == /\ At("record") /\ "crate" \in wrote
          /\ wrote' = wrote \union {"row"}
          /\ row' = [abr |-> job.abr, kbps |-> job.announced]
          /\ Ends("downloaded")
          /\ UNCHANGED <<policy, asked, shown, heard, trouble>>

\* run: a raise from the recording becomes one failed track and nothing more.
Guard == /\ At("record") /\ Trouble /\ Ends("failed")
         /\ UNCHANGED <<policy, asked, shown, heard, wrote, row>>

\* The user skips the row or cancels the run.
Ask == /\ ~At("done") /\ ~asked /\ asked' = TRUE
       /\ UNCHANGED <<policy, job, shown, heard, out, wrote, row, trouble>>

Next == \/ Probe \/ Call \/ Hook \/ Refused \/ Backoff \/ Arrived \/ Remember \/ AddRow \/ Guard \/ Ask
Spec == Init /\ [][Next]_vars

-----------------------------------------------------------------------------
\* The row says the bitrate its file was encoded at, and a source bitrate that the
\* rung that succeeded carried, never one of the rung that failed before it.
RowIsTrue == "row" \in wrote => /\ policy.convert => row.kbps = job.coded
                                /\ row.abr \in heard \union {0}

\* The panel is told the bitrate the rung in hand encodes at: one line of the hook
\* serves every rung.
PanelIsTrue == job.abr # 0 /\ policy.convert => shown = [abr |-> job.abr, kbps |-> job.coded]

\* A stopped track is filed nowhere: no error line, no memory of a track that cannot
\* be had, though its transfer fails because it was stopped.
StoppedIsNotFiled == asked => wrote \intersect {"error", "memory"} = {}

\* However the rungs, the attempts and a stop fall out.
TransferIsTrue == RowIsTrue /\ PanelIsTrue /\ StoppedIsNotFiled

\* Not so: the row says what the file is. One kept in its original format is
\* recorded with the MP3 bitrate it was never encoded at.
RowSaysWhatIsThere == "row" \in wrote => row.kbps = job.coded

-----------------------------------------------------------------------------
(* The inductive invariant that the property follows from. *)

Kbps == Rates \union {0, Target, Ceiling}

JobState == [pc : {"start", "call", "stream", "wait", "record", "done"}, auth : BOOLEAN, up : Kbps,
             announced : Kbps, coded : Kbps, abr : Kbps, attempt : Nat, age : {"yes", "no", None}]

\* The hook's bitrate and the encoder's are one, and nothing is filed before the end.
RungIsOne == /\ policy.convert /\ ~At("start") => job.announced = job.coded
             /\ job.abr \in heard \union {0}

FiledAtTheEnd == /\ "row" \in wrote => At("done")
                 /\ wrote \intersect {"error", "memory"} # {} => At("done")

TransferInv == job \in JobState /\ policy.cookies \in BOOLEAN /\ RungIsOne /\ FiledAtTheEnd /\ TransferIsTrue
=============================================================================
