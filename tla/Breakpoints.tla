----------------------------- MODULE Breakpoints -----------------------------
(***************************************************************************)
(* The breakpoint table of librhgdb (librhgdb/breakpoi.c) and the          *)
(* breakpoints that gdb itself holds.                                      *)
(*                                                                         *)
(* The library keeps a table of rows; a row that gdb knows carries gdb's   *)
(* number for it, any other row carries Unset.  Every operation on a row   *)
(* is one action; the three functions that walk over the whole table       *)
(* (SetBreakPoints, DeleteBreakPoints, DeleteAllBreakPoints) issue a gdb   *)
(* command per row, and each of those iterations is a step of "job".       *)
(*                                                                         *)
(* gdb is external: its breakpoints are the function gdb, its answer to a  *)
(* "break" command is an Outcome.  A breakpoint number never comes back in *)
(* gdb; here a number may be used again once nothing refers to it any      *)
(* more, which is the same up to renaming and keeps the numbers bounded.   *)
(*                                                                         *)
(* librhgdb looks for "No " at the start of what gdb has written to its    *)
(* standard output.  The gdb it is built with (5.x) writes errors to its   *)
(* own stream: OldGdb is FALSE, and a refused "break" is taken for one     *)
(* that was obeyed.  The history variable mistaken records for which       *)
(* numbers that happened, so that the properties can say how far the       *)
(* damage reaches; no action reads it.                                     *)
(***************************************************************************)
EXTENDS Integers, Sequences, FiniteSets, SequencesExt

CONSTANTS
  Kinds,      \* kinds of breakpoints in use: TRUE at a function, FALSE at a line
  Lines,      \* source positions (a file and a line) that can carry a breakpoint
  MaxRows,    \* bound on the length of the table
  MaxNum,     \* bound on gdb's numbers in use at one time
  HwLimited,  \* a DJGPP build running under Windows 3.1x (win31)
  MaxDrift,   \* bound on how far hw_break_point_count may fall below zero
  MaxMistaken,\* bound on how many numbers are mistaken at one time
  OldGdb      \* gdb before 5 (OLD_GDB): error text lands in gdb_output_buffer

NoLine  == 0        \* the line of a function breakpoint gdb has not resolved
Unset   == -1       \* the number of a row gdb does not know
HwSlots == 3        \* break_available: hw_break_point_count < 3
Numbers == 1..MaxNum

ASSUME LinesAssumption   == NoLine \notin Lines
ASSUME BoundsAssumption  == MaxRows \in Nat /\ MaxNum \in Nat /\ MaxDrift \in Nat /\ MaxMistaken \in Nat
ASSUME OptionsAssumption == Kinds \subseteq BOOLEAN /\ HwLimited \in BOOLEAN /\ OldGdb \in BOOLEAN

VARIABLES
  rows,                  \* BreakPoints[0..BreakCount-1]
  gdb,                   \* what gdb holds under each number
  last,                  \* last_breakpoint_number, 0 before the first one
  lastLine,              \* last_breakpoint_line
  invalid_line,          \* gdb moved the breakpoint created last to another line
  hw_break_point_count,
  prog,                  \* _progname # NULL
  init,                  \* init_count > 0
  job,                   \* the table walk in progress
  mistaken               \* history: numbers taken for a breakpoint gdb had refused

bpVars == <<rows, gdb, last, lastLine, invalid_line, hw_break_point_count,
            prog, init, job, mistaken>>
bpTable == <<rows, gdb, last, lastLine, invalid_line, hw_break_point_count, mistaken>>

Position == Lines \cup {NoLine}
Row      == [fn : BOOLEAN, line : Position, en : BOOLEAN, num : Numbers \cup {0, Unset}]
GdbState == [st : {"none", "on", "off", "temp"}, line : Position]
Job      == [k : {"idle", "set", "delete", "remove"}, i : 0..MaxRows+1]

Idle == [k |-> "idle", i |-> 0]
Dead == [st |-> "none", line |-> NoLine]

TypeOK ==
  /\ rows \in Seq(Row) /\ Len(rows) <= MaxRows
  /\ gdb \in [Numbers -> GdbState]
  /\ last \in Numbers \cup {0}
  /\ lastLine \in Position
  /\ invalid_line \in BOOLEAN
  /\ hw_break_point_count \in Int
  /\ prog \in BOOLEAN /\ init \in BOOLEAN
  /\ job \in Job
  /\ mistaken \subseteq Numbers \cup {0}

BpInit ==
  /\ rows = <<>>
  /\ gdb = [n \in Numbers |-> Dead]
  /\ last = 0 /\ lastLine = NoLine /\ invalid_line = FALSE
  /\ hw_break_point_count = 0
  /\ prog = FALSE /\ init = FALSE
  /\ job = Idle
  /\ mistaken = {}

-----------------------------------------------------------------------------
(* gdb *)

FreshNumbers ==
  {n \in Numbers : /\ gdb[n].st = "none" /\ n # last
                   /\ \A i \in DOMAIN rows : rows[i].num # n}
NewNumber == CHOOSE n \in FreshNumbers : TRUE

\* "delete n": gdb complains about a number it does not know, nothing changes.
Delete(g, n) == IF n \in Numbers THEN [g EXCEPT ![n] = Dead] ELSE g

\* "enable n" and "disable n" of a breakpoint gdb has
Switch(g, n, to) ==
  IF n \in Numbers /\ g[n].st \in {"on", "off"} THEN [g EXCEPT ![n].st = to] ELSE g

\* gdb's answer to "break": nothing made, with a text that begins with "No "
\* ("No line ...") or, for a function, with another ("Function ... not
\* defined."); a breakpoint at the position asked for, for a function perhaps
\* in code without line numbers; or one moved to the next line that has code.
Outcome == [made : BOOLEAN, no : BOOLEAN, moved : BOOLEAN, line : Position]
Refusals(texts)     == [made : {FALSE}, no : texts, moved : {FALSE}, line : {NoLine}]
Made(moved, places) == [made : {TRUE}, no : {FALSE}, moved : {moved}, line : places]
Outcomes(r) ==
  Refusals(IF r.fn THEN BOOLEAN ELSE {TRUE}) \cup
  (IF FreshNumbers = {} THEN {}
   ELSE IF r.fn THEN Made(FALSE, Position)
   ELSE Made(FALSE, {r.line}) \cup Made(TRUE, Lines \ {r.line}))

-----------------------------------------------------------------------------
(* Operations on one row *)

break_available == ~HwLimited \/ hw_break_point_count < HwSlots

\* The counter is only ever read under Windows 3.1x.
Count(d) == IF HwLimited THEN hw_break_point_count + d ELSE hw_break_point_count

\* SetBreakPoint on row r when gdb holds g and answers o: the new row and what
\* the call leaves in gdb and in the library's globals.  CreateBreakPointHook
\* runs only for a breakpoint that was made, so last_breakpoint_number and
\* invalid_line may be left over from an earlier command.
Untouched(r, g) ==
  [row |-> r, gdb |-> g, last |-> last, lastLine |-> lastLine,
   invalid |-> invalid_line, hw |-> hw_break_point_count, made |-> FALSE,
   mistaken |-> mistaken]

CreatedUnseen(r, g, o) ==   \* mutant: the hook gives up on a function without lines
  IF o.made
    THEN [Untouched(r, [g EXCEPT ![NewNumber] = [st |-> "on", line |-> o.line]])
            EXCEPT !.last = IF o.line = NoLine THEN @ ELSE NewNumber,
                   !.lastLine = o.line, !.invalid = o.moved, !.made = TRUE]
    ELSE Untouched(r, g)

Created(r, g, o) ==
  IF o.made
    THEN [Untouched(r, [g EXCEPT ![NewNumber] = [st |-> "on", line |-> o.line]])
            EXCEPT !.last = NewNumber, !.lastLine = o.line, !.invalid = o.moved,
                   !.made = TRUE, !.mistaken = @ \ FreshNumbers]
    ELSE Untouched(r, g)

\* What SetLineBreakPoint and SetFunctionBreakPoint take for a failure: the
\* flag of the last breakpoint made, or the text an old gdb answers with.
RefusedEarly(c, o)   == invalid_line \/ (OldGdb /\ o.no)         \* mutant: flag of the command before
Refused(c, o)        == c.invalid \/ (OldGdb /\ o.no)

\* mutant: the breakpoint gdb moved is not deleted
RejectedLeft(r, c) == [c EXCEPT !.row.num = Unset]

\* "invalid_line ||" short-circuits: no_found stays 1 and the last breakpoint is deleted.
Rejected(r, c) ==
  [c EXCEPT !.row.num = Unset,
            !.gdb = IF c.invalid THEN Delete(c.gdb, c.last) ELSE c.gdb]

\* A function's row moves to the line gdb found, if it found a source file.
Resolved(r, c) == IF r.fn /\ c.lastLine # NoLine THEN c.lastLine ELSE r.line

AcceptedNext(r, c) ==       \* mutant: the number gdb will give next
  [c EXCEPT !.row = [r EXCEPT !.num = c.last + 1, !.line = Resolved(r, c)]]

AcceptedCounted(r, c) ==    \* mutant: counts a disabled row
  [c EXCEPT !.row = [r EXCEPT !.num = c.last],
            !.gdb = IF r.en THEN c.gdb ELSE Switch(c.gdb, c.last, "off"),
            !.hw  = Count(1)]

Accepted(r, c) ==
  [c EXCEPT !.row = [r EXCEPT !.num = c.last, !.line = Resolved(r, c)],
            !.mistaken = IF c.made THEN @ ELSE @ \cup {c.last},
            !.gdb = IF r.en THEN c.gdb ELSE Switch(c.gdb, c.last, "off"),
            !.hw  = IF r.en \/ c.last = 0 THEN Count(1) ELSE hw_break_point_count]

SetBreakPoint(r, g, o) ==
  LET c == Created(r, g, o)
  IN IF r.num > 0 THEN Untouched(r, g)
     ELSE IF ~break_available THEN Untouched([r EXCEPT !.num = Unset], g)
     ELSE IF Refused(c, o) THEN Rejected(r, c)
     ELSE Accepted(r, c)

\* Makes the globals what the call s left; the row is stored by the caller.
Apply(s) ==
  /\ gdb' = s.gdb /\ last' = s.last /\ lastLine' = s.lastLine
  /\ invalid_line' = s.invalid
  /\ hw_break_point_count' = s.hw
  /\ mistaken' = s.mistaken /\ Cardinality(s.mistaken) <= MaxMistaken

DisableBreakPoint(i) ==
  /\ HwLimited /\ rows[i].num > 0 => hw_break_point_count > -MaxDrift
  /\ rows' = [rows EXCEPT ![i].en = FALSE]
  /\ gdb' = Switch(gdb, rows[i].num, "off")
  /\ hw_break_point_count' = IF rows[i].num > 0 THEN Count(-1) ELSE hw_break_point_count
  /\ UNCHANGED <<last, lastLine, invalid_line, prog, init, job, mistaken>>

EnableUnlimited(i) ==       \* mutant: break_available not asked
  /\ rows' = [rows EXCEPT ![i].en = TRUE]
  /\ gdb' = Switch(gdb, rows[i].num, "on")
  /\ hw_break_point_count' = IF rows[i].num > 0 THEN Count(1) ELSE hw_break_point_count
  /\ UNCHANGED <<last, lastLine, invalid_line, prog, init, job, mistaken>>

EnableBreakPoint(i) ==
  /\ rows[i].num > 0 => break_available        \* else WARN_NOT_ENABLED, row kept
  /\ rows' = [rows EXCEPT ![i].en = TRUE]
  /\ gdb' = Switch(gdb, rows[i].num, "on")
  /\ hw_break_point_count' = IF rows[i].num > 0 THEN Count(1) ELSE hw_break_point_count
  /\ UNCHANGED <<last, lastLine, invalid_line, prog, init, job, mistaken>>

RemoveBreakPoint(i) ==
  /\ rows' = RemoveAt(rows, i)
  /\ gdb' = Delete(gdb, rows[i].num)
  /\ hw_break_point_count' = IF rows[i].num > 0 THEN Count(-1) ELSE hw_break_point_count
  /\ UNCHANGED <<last, lastLine, invalid_line, prog, init, mistaken>>

\* The new row is handed to gdb at once when a program is loaded.
AddBreakPoint(r) ==
  /\ Len(rows) < MaxRows
  /\ \/ /\ prog
        /\ \E o \in Outcomes(r) :
             LET s == SetBreakPoint(r, gdb, o)
             IN Apply(s) /\ rows' = Append(rows, s.row)
     \/ /\ ~prog
        /\ rows' = Append(rows, r)
        /\ UNCHANGED <<gdb, last, lastLine, invalid_line, hw_break_point_count, mistaken>>
  /\ UNCHANGED <<prog, init, job>>

\* The dialog edits the row in place, so "bp->number = -1" reaches the table;
\* the old gdb breakpoint is deleted without touching hw_break_point_count.
EditedKept(r, fn, line) == [r EXCEPT !.fn = fn, !.line = line]     \* mutant: keeps the number
Edited(r, fn, line) ==
  [r EXCEPT !.fn = fn, !.line = line, !.num = IF r.num > 0 THEN Unset ELSE r.num]

EditBreakPoint(i, fn, line) ==
  LET r == Edited(rows[i], fn, line)
      g == Delete(gdb, rows[i].num)
  IN /\ \/ /\ init
           /\ \E o \in Outcomes(r) :
                LET s == SetBreakPoint(r, g, o)
                IN Apply(s) /\ rows' = [rows EXCEPT ![i] = s.row]
        \/ /\ ~init
           /\ gdb' = g /\ rows' = [rows EXCEPT ![i] = r]
           /\ UNCHANGED <<last, lastLine, invalid_line, hw_break_point_count, mistaken>>
     /\ UNCHANGED <<prog, init, job>>

-----------------------------------------------------------------------------
(* Walks over the table: one gdb command, or one row, per step *)

Start(k, i) == job' = [k |-> k, i |-> i]

SetNextStays ==             \* mutant: the index is not advanced
  /\ job.k = "set"
  /\ \/ /\ job.i \in DOMAIN rows
        /\ \E o \in Outcomes(rows[job.i]) :
             LET s == SetBreakPoint(rows[job.i], gdb, o)
             IN Apply(s) /\ rows' = [rows EXCEPT ![job.i] = s.row]
        /\ UNCHANGED job
     \/ job.i \notin DOMAIN rows /\ job' = Idle /\ UNCHANGED bpTable
  /\ UNCHANGED <<prog, init>>

\* SetBreakPoints, which INIT calls once the program is loaded.
SetNext ==
  /\ job.k = "set"
  /\ \/ /\ job.i \in DOMAIN rows
        /\ \E o \in Outcomes(rows[job.i]) :
             LET s == SetBreakPoint(rows[job.i], gdb, o)
             IN Apply(s) /\ rows' = [rows EXCEPT ![job.i] = s.row]
        /\ Start("set", job.i + 1)
     \/ /\ job.i \notin DOMAIN rows
        /\ job' = Idle
        /\ UNCHANGED bpTable
  /\ UNCHANGED <<prog, init>>

\* DeleteBreakPoints: gdb forgets every row, the rows stay.
DeleteBreakPoints ==
  /\ Start("delete", 1)
  /\ hw_break_point_count' = 0
  /\ UNCHANGED <<rows, gdb, last, lastLine, invalid_line, prog, init, mistaken>>

DeleteNext ==
  /\ job.k = "delete"
  /\ \/ /\ job.i \in DOMAIN rows
        /\ gdb' = Delete(gdb, rows[job.i].num)
        /\ rows' = [rows EXCEPT ![job.i].num = Unset]
        /\ Start("delete", job.i + 1)
        /\ UNCHANGED mistaken
     \/ /\ job.i \notin DOMAIN rows
        /\ job' = Idle
        /\ mistaken' = {}              \* no row carries a number any more
        /\ UNCHANGED <<rows, gdb>>
  /\ UNCHANGED <<last, lastLine, invalid_line, hw_break_point_count, prog, init>>

\* DeleteAllBreakPoints removes from the top.
DeleteAllBreakPoints ==
  /\ HwLimited => hw_break_point_count - Len(rows) >= -MaxDrift
  /\ Start("remove", Len(rows))
  /\ UNCHANGED <<bpTable, prog, init>>

RemoveNext ==
  /\ job.k = "remove"
  /\ \/ job.i > 0 /\ RemoveBreakPoint(job.i) /\ Start("remove", job.i - 1)
     \/ job.i = 0 /\ job' = Idle /\ UNCHANGED <<bpTable, prog, init>>

TableWalk == SetNext \/ DeleteNext \/ RemoveNext

-----------------------------------------------------------------------------
(* The user's commands, taken when no walk is in progress *)

NewRow(fn, line, en) == [fn |-> fn, line |-> line, en |-> en, num |-> Unset]

RemoveOne(i) ==
  /\ HwLimited /\ rows[i].num > 0 => hw_break_point_count > -MaxDrift
  /\ RemoveBreakPoint(i)
  /\ UNCHANGED job

\* Ctrl+F8: IsBreakPointLine finds the first row at the line, whatever its kind.
ToggleBreak(line) ==
  LET here == {i \in DOMAIN rows : rows[i].line = line}
  IN \/ /\ here = {}
        /\ AddBreakPoint(NewRow(FALSE, line, TRUE))
     \/ \E i \in here : /\ \A j \in here : i <= j
                        /\ RemoveOne(i)

\* The dialog's button disables an enabled row and enables a disabled one.
SwitchBreak(i) ==
  \/ rows[i].en /\ DisableBreakPoint(i)
  \/ ~rows[i].en /\ EnableBreakPoint(i)

LinesFor(fn) == IF fn THEN Position ELSE Lines

BreakDialog ==
  \/ \E i \in DOMAIN rows :
       \/ RemoveOne(i)
       \/ SwitchBreak(i)
       \/ \E fn \in Kinds : \E line \in LinesFor(fn) : EditBreakPoint(i, fn, line)
  \/ \E fn \in Kinds : \E line \in LinesFor(fn) : AddBreakPoint(NewRow(fn, line, TRUE))

\* LoadDesktop and ReadBreakPoints restore rows that may be disabled.
LoadBreak ==
  \E fn \in Kinds, en \in BOOLEAN : \E line \in LinesFor(fn) : AddBreakPoint(NewRow(fn, line, en))

UserCommand == BreakDialog \/ LoadBreak \/ \E line \in Lines : ToggleBreak(line)

(* What the debugger does to the program under test *)

\* The three ways INIT ends: no program file, no symbols in it, or loaded.
InitNoProgram == init' = FALSE /\ UNCHANGED <<bpTable, prog, job>>
InitNoSymbols == init' = FALSE /\ prog' = FALSE /\ UNCHANGED <<bpTable, job>>
InitLoaded ==
  /\ init' = TRUE /\ prog' = TRUE
  /\ Start("set", 1)
  /\ UNCHANGED bpTable

\* ClearSymbols when no program runs
ClearSymbols == prog' = FALSE /\ UNCHANGED <<bpTable, init, job>>

BpNext ==
  \/ TableWalk
  \/ /\ job = Idle
     /\ \/ UserCommand \/ DeleteBreakPoints \/ DeleteAllBreakPoints
        \/ InitNoProgram \/ InitNoSymbols \/ InitLoaded \/ ClearSymbols

BpSpec == BpInit /\ [][BpNext]_bpVars

-----------------------------------------------------------------------------
(* Properties *)

Set(i) == rows[i].num > 0

\* gdb's breakpoint b is the one row r shows: at its line (or, for a function,
\* in code without lines), armed exactly when the row is enabled.
Shown(b, r) ==
  /\ b.st = IF r.en THEN "on" ELSE "off"
  /\ b.line = r.line \/ (r.fn /\ b.line = NoLine)

\* A row that carries a number is, in gdb, the breakpoint it shows: no
\* SetBreakPoint, edit, toggle or walk over the table leaves a row pointing at a
\* breakpoint that is gone, at another line, or in another state.  The one way
\* out is a "break" that gdb refuses and SetBreakPoint takes for obeyed: the
\* damage stays with the number that was the last one then, until the next
\* DeleteBreakPoints.
NumbersExact ==
  \A i \in DOMAIN rows : Set(i) /\ rows[i].num \notin mistaken => Shown(gdb[rows[i].num], rows[i])

\* Two rows never share one gdb breakpoint, where deleting or disabling one of
\* them would silently take the other with it, except again a number that was
\* taken over after a refused "break".
NumbersDistinct ==
  \A i, j \in DOMAIN rows :
    Set(i) /\ Set(j) /\ rows[i].num = rows[j].num => i = j \/ rows[i].num \in mistaken

\* gdb holds no breakpoint the table does not show: the program never stops at
\* a place the user cannot see, disable or remove.
NoOrphans ==
  \A n \in Numbers : gdb[n].st \in {"on", "off"} => \E i \in DOMAIN rows : rows[i].num = n

\* While invalid_line is set no row owns the breakpoint created last, so the
\* "delete" that a failing "break" issues because of the left-over flag can
\* never delete a breakpoint of the user.
StaleInvalidLineOwnsNothing ==
  invalid_line => \A i \in DOMAIN rows : Set(i) => rows[i].num # last

\* DeleteAllBreakPoints counts down inside the table (RemoveBreakPoint's range test).
RemovalInTable == job.k = "remove" => job.i <= Len(rows)

BpInv ==
  /\ TypeOK /\ RemovalInTable
  /\ NumbersExact /\ NumbersDistinct /\ NoOrphans /\ StaleInvalidLineOwnsNothing

\* Under Windows 3.1x gdb never holds more armed breakpoints than the hardware
\* leaves to the user (librhgdb.h: "only 3 hw breakpoints are available").
HwLimitKept ==
  HwLimited => Cardinality({n \in Numbers : gdb[n].st = "on"}) <= HwSlots

(* Commands that hw_break_point_count survives: no row that is set is edited,
   none that is set and disabled is removed. *)
SlotKept(i) == Set(i) => rows[i].en

CarefulCommand ==
  \/ \E i \in DOMAIN rows : SlotKept(i) /\ RemoveOne(i)
  \/ \E i \in DOMAIN rows : SwitchBreak(i)
  \/ \E i \in DOMAIN rows : \E fn \in Kinds : \E line \in LinesFor(fn) :
       ~Set(i) /\ EditBreakPoint(i, fn, line)
  \/ LoadBreak
  \/ (\A i \in DOMAIN rows : SlotKept(i)) /\ DeleteAllBreakPoints
  \/ DeleteBreakPoints \/ InitNoSymbols \/ InitLoaded \/ ClearSymbols

CarefulSpec == BpInit /\ [][TableWalk \/ (job = Idle /\ CarefulCommand)]_bpVars

\* Under those commands hw_break_point_count is the number of breakpoints armed
\* in gdb (while no DeleteBreakPoints is half way and no refused "break" was
\* taken for obeyed), so break_available neither refuses too early nor lets too
\* many through.
HwCountExact ==
  HwLimited /\ job.k # "delete" /\ mistaken = {} =>
    hw_break_point_count = Cardinality({n \in Numbers : gdb[n].st = "on"})

\* Under the careful commands the hardware is never overcommitted, whatever gdb
\* refuses, and not miscounted where it does not.
HwRight == HwCountExact /\ HwLimitKept
=============================================================================
