------------------------------- MODULE LogFile -------------------------------
(***************************************************************************)
(* A log file and its viewers: lines are appended, the oldest are trimmed   *)
(* off the head when the file outgrows its cap, a poll thread announces     *)
(* what was added, and the page shows windows of the file found by byte     *)
(* offsets. Lines are numbered in the order written; Width gives their      *)
(* lengths, so that an offset may fall inside one.                          *)
(***************************************************************************)
EXTENDS Naturals, Integers, Sequences, SequencesExt, FiniteSets

CONSTANTS Caps,      \* caps the user may set; 0 is unlimited
          Window,    \* lines in a window
          MaxLines,  \* bound: lines written
          MaxBurst   \* lines written between two polls: fewer than a trim removes

VARIABLES file,    \* the lines on disk, oldest first
          written, \* lines written so far
          cap,     \* the handler's max_bytes
          handler, \* the trim under way: [pc, kept]
          burst,
          poll,    \* _watch_log: [size, new]
          search,  \* logs_search's answer: [matches, trims]
          view,    \* the page's window: [lines, start, end, bottom, target]
          trims,   \* history: trims so far
          missed   \* history: lines trimmed, or in a file found shorter than at the last poll

log == <<file, written, cap, handler, burst, trims>>
vars == <<log, poll, search, view, missed>>

None == -1
Torn == 0              \* what a read that starts inside a line yields
Width(n) == 1 + (n % 2)
SizeOf(ls) == FoldLeft(LAMBDA a, n : a + Width(n), 0, ls)
\* _iter_log_lines: where each line starts, and where it ends.
StartOf(ls, i) == SizeOf(SubSeq(ls, 1, i - 1))
EndOf(ls, i) == SizeOf(SubSeq(ls, 1, i))
\* The lines in bytes [from, to): torn at an end that is inside a line.
Between(from, to) ==
    LET whole == {i \in DOMAIN file : StartOf(file, i) >= from /\ EndOf(file, i) <= to}
        cut(at) == \E i \in DOMAIN file : StartOf(file, i) < at /\ at < EndOf(file, i)
        rest(at) == IF from < to /\ cut(at) THEN <<Torn>> ELSE <<>> IN
    rest(from) \o [k \in 1 .. Cardinality(whole) |->
        file[CHOOSE i \in whole : Cardinality({j \in whole : j < i}) = k - 1]] \o rest(to)

NoTrim == [pc |-> "none", kept |-> <<>>]
\* TRIM_RATIO, coarsened to halves.
Target(c) == IF c \div 2 > 0 THEN c \div 2 ELSE 1
\* Mutant of Kept: with what is left of the first line.
KeptWithRest(c) == IF SizeOf(file) <= Target(c) THEN file
                   ELSE Between(SizeOf(file) - Target(c), SizeOf(file))
\* _trim: the last Target bytes, without what is left of their first line.
Kept(c) == IF SizeOf(file) <= Target(c) THEN file
           ELSE LET tail == Between(SizeOf(file) - Target(c), SizeOf(file)) IN
                IF tail = <<>> THEN <<>> ELSE Tail(tail)

Init == /\ file = <<>> /\ written = 0 /\ cap \in Caps /\ handler = NoTrim /\ burst = 0 /\ trims = 0
        /\ poll = [size |-> 0, new |-> None] /\ search = [matches |-> {}, trims |-> 0]
        /\ view = [lines |-> <<>>, start |-> 0, end |-> 0, bottom |-> TRUE, target |-> None]
        /\ missed = {}

-----------------------------------------------------------------------------
(* Writing. *)

\* HeadTrimFileHandler.emit: the record, and a trim once the file reached the cap.
Emit == /\ handler = NoTrim /\ written < MaxLines /\ burst < MaxBurst
        /\ written' = written + 1 /\ burst' = burst + 1 /\ file' = Append(file, written + 1)
        /\ handler' = IF cap > 0 /\ SizeOf(file') >= cap THEN [pc |-> "trim", kept |-> <<>>] ELSE NoTrim
        /\ UNCHANGED <<cap, trims, poll, search, view, missed>>
\* set_max_bytes and build_debug_logger: maybe_trim under the new cap.
SetCap(c) == /\ handler = NoTrim /\ c # cap /\ cap' = c
             /\ handler' = IF c > 0 /\ SizeOf(file) > c THEN [pc |-> "trim", kept |-> <<>>] ELSE NoTrim
             /\ UNCHANGED <<file, written, burst, trims, poll, search, view, missed>>
\* The file is read, rewritten from nothing, and opened again.
TrimTruncates == /\ handler.pc = "trim"
                 /\ IF SizeOf(file) > Target(cap)
                    THEN /\ handler' = [pc |-> "write", kept |-> Kept(cap)] /\ file' = <<>> /\ trims' = trims + 1
                         /\ missed' = missed \union (ToSet(file) \ ToSet(Kept(cap)))
                    ELSE handler' = NoTrim /\ UNCHANGED <<file, trims, missed>>
                 /\ UNCHANGED <<written, cap, burst, poll, search, view>>
TrimWrites == /\ handler.pc = "write" /\ file' = handler.kept /\ handler' = NoTrim
              /\ UNCHANGED <<written, cap, burst, trims, poll, search, view, missed>>

-----------------------------------------------------------------------------
(* _watch_log. *)

PollStat == /\ poll.new = None /\ poll' = [poll EXCEPT !.new = SizeOf(file)] /\ burst' = 0
            /\ missed' = IF SizeOf(file) < poll.size THEN missed \union ToSet(file) ELSE missed
            /\ UNCHANGED <<file, written, cap, handler, trims, search, view>>
\* What grew is read and announced; a page at the end of the file appends it.
PollRead == /\ poll.new # None /\ poll' = [size |-> poll.new, new |-> None]
            /\ LET lines == Between(poll.size, poll.new) IN
               view' = IF poll.new > poll.size /\ lines # <<>> /\ view.bottom
                       THEN [view EXCEPT !.lines = @ \o lines, !.end = poll.new] ELSE view
            /\ UNCHANGED <<log, search, missed>>

-----------------------------------------------------------------------------
(* logs_tail and logs_search. *)

Indices(from, before) ==
    IF before THEN {i \in DOMAIN file : EndOf(file, i) <= from}
    ELSE {i \in DOMAIN file : StartOf(file, i) >= from}
\* The window a call answers with: the first Window of those lines, or the last.
Shown(from, before, last) ==
    LET all == Indices(from, before)
        some == {i \in all : Cardinality({j \in all : IF before \/ last THEN j > i ELSE j < i}) < Window} IN
    IF some = {} THEN [lines |-> <<>>, start |-> from, end |-> from]
    ELSE LET lo == CHOOSE i \in some : \A j \in some : i <= j
             hi == CHOOSE i \in some : \A j \in some : i >= j IN
         [lines |-> SubSeq(file, lo, hi), start |-> StartOf(file, lo), end |-> EndOf(file, hi)]
Load(w, target) == view' = [lines |-> w.lines, start |-> w.start, end |-> w.end,
                            bottom |-> w.end >= SizeOf(file), target |-> target]

JumpBottom == Load(Shown(0, FALSE, TRUE), None) /\ UNCHANGED <<log, poll, search, missed>>
JumpTop == Load(Shown(0, FALSE, FALSE), None) /\ UNCHANGED <<log, poll, search, missed>>
Clamped(at) == IF at < SizeOf(file) THEN at ELSE SizeOf(file)
Forward == ~view.bottom /\ Load(Shown(Clamped(view.end), FALSE, FALSE), None) /\ UNCHANGED <<log, poll, search, missed>>
Back == view.start > 0 /\ Load(Shown(Clamped(view.start), TRUE, FALSE), None) /\ UNCHANGED <<log, poll, search, missed>>
\* logs_search finds lines by their text; a jump asks for the window at the
\* offset it gave.
Search == /\ search' = [matches |-> {[line |-> file[i], offset |-> StartOf(file, i)] : i \in DOMAIN file}, trims |-> trims]
          /\ UNCHANGED <<log, poll, view, missed>>
Goto == \E m \in search.matches : /\ Load(Shown(Clamped(m.offset), FALSE, FALSE),
                                       IF trims = search.trims THEN m.line ELSE None)
                                  /\ UNCHANGED <<log, poll, search, missed>>

Next == \/ Emit \/ TrimTruncates \/ TrimWrites \/ PollStat \/ PollRead
        \/ JumpBottom \/ JumpTop \/ Forward \/ Back \/ Search \/ Goto
        \/ \E c \in Caps : SetCap(c)
Spec == Init /\ [][Next]_vars

-----------------------------------------------------------------------------
(* Properties *)

\* Between trims the file holds the newest lines whole and in order; a viewer
\* never shows a part of a line, skips lines only over a trim, and lands a search
\* on the line it found unless a trim moved it.
LogIsWhole ==
    /\ handler.pc # "write" => \A i \in DOMAIN file : file[i] = written - Len(file) + i
    /\ \A i \in DOMAIN view.lines : view.lines[i] # Torn
    /\ \A i \in 1 .. Len(view.lines) - 1 : (view.lines[i] + 1) .. (view.lines[i + 1] - 1) \subseteq missed
    /\ (view.target # None /\ view.lines # <<>>) => view.lines[1] = view.target

\* A viewer shows no line twice.
NoLineTwice == IsInjective(view.lines)
=============================================================================
