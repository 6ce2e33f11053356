-------------------------- MODULE Breakpoints_proofs --------------------------
(***************************************************************************)
(* Proofs about the breakpoint table, for every value of the constants:    *)
(* its types, and the agreement of the table with what gdb holds.          *)
(***************************************************************************)
EXTENDS Breakpoints, SequenceTheorems, TLAPS

(* RemoveAt shortens a sequence by one: what stood before position i stays, *)
(* what stood behind it moves down. (RemoveBreakPoint's loop over the table.) *)
LEMMA RemoveAtProperties ==
  ASSUME NEW S, NEW s \in Seq(S), NEW i \in 1..Len(s)
  PROVE  /\ RemoveAt(s, i) \in Seq(S)
         /\ Len(RemoveAt(s, i)) = Len(s) - 1
         /\ \A k \in 1..Len(s) - 1 :
              RemoveAt(s, i)[k] = IF k < i THEN s[k] ELSE s[k + 1]
<1> DEFINE a == SubSeq(s, 1, i - 1)
           b == SubSeq(s, i + 1, Len(s))
<1>1. Len(s) \in Nat /\ i \in Nat /\ 1 <= i /\ i <= Len(s)
  BY LenProperties
<1>2. /\ a \in Seq(S) /\ Len(a) = i - 1
      /\ \A k \in 1..i - 1 : a[k] = s[k]
  <2>1. \A k \in 1..i - 1 : s[k] \in S
    BY <1>1, ElementOfSeq
  <2> QED BY <1>1, <2>1, SubSeqProperties
<1>3. /\ b \in Seq(S) /\ Len(b) = Len(s) - i
      /\ \A k \in 1..Len(s) - i : b[k] = s[i + k]
  <2>1. \A k \in i + 1..Len(s) : s[k] \in S
    BY <1>1, ElementOfSeq
  <2> QED BY <1>1, <2>1, SubSeqProperties
<1>4. RemoveAt(s, i) = a \o b
  BY DEF RemoveAt
<1>5. /\ a \o b \in Seq(S) /\ Len(a \o b) = Len(a) + Len(b)
      /\ \A k \in 1..Len(a) + Len(b) :
           (a \o b)[k] = IF k <= Len(a) THEN a[k] ELSE b[k - Len(a)]
  BY <1>2, <1>3, ConcatProperties
<1> HIDE DEF a, b
<1>6. ASSUME NEW k \in 1..Len(s) - 1
      PROVE  RemoveAt(s, i)[k] = IF k < i THEN s[k] ELSE s[k + 1]
  <2>1. k \in 1..Len(a) + Len(b) /\ (k <= Len(a) <=> k < i)
    BY <1>1, <1>2, <1>3
  <2>2. RemoveAt(s, i)[k] = IF k < i THEN a[k] ELSE b[k - Len(a)]
    BY <1>4, <1>5, <2>1
  <2>3. CASE k < i
    <3>1. k \in 1..i - 1
      BY <1>1, <2>3
    <3> QED BY <1>2, <2>2, <2>3, <3>1
  <2>4. CASE ~(k < i)
    <3>1. k - Len(a) \in 1..Len(s) - i /\ i + (k - Len(a)) = k + 1
      BY <1>1, <1>2, <2>4
    <3>2. b[k - Len(a)] = s[i + (k - Len(a))]
      BY <1>3, <3>1
    <3> QED BY <2>2, <2>4, <3>1, <3>2
  <2> QED BY <2>3, <2>4
<1> QED BY <1>1, <1>2, <1>3, <1>4, <1>5, <1>6

(* NewNumber is one of the numbers that nothing refers to. *)
LEMMA NewNumberFresh ==
  ASSUME FreshNumbers # {}
  PROVE  NewNumber \in FreshNumbers
BY DEF NewNumber

-----------------------------------------------------------------------------
(* Types *)

\* what a call of SetBreakPoint leaves behind
Call == [row : Row, gdb : [Numbers -> GdbState], last : Numbers \cup {0},
         lastLine : Position, invalid : BOOLEAN, hw : Int, made : BOOLEAN,
         mistaken : SUBSET (Numbers \cup {0})]

(* What gdb can answer: a breakpoint it has made stands at the line asked   *)
(* for unless gdb says it has moved it, which it never says of a function.  *)
LEMMA OutcomeProperties ==
  ASSUME NEW r \in Row, NEW o \in Outcomes(r)
  PROVE  /\ o \in Outcome
         /\ o.made => FreshNumbers # {} /\ ~o.no
         /\ o.made /\ ~r.fn /\ ~o.moved => o.line = r.line
         /\ ~o.made => ~o.moved
<1>1. r.fn \in BOOLEAN /\ r.line \in Position /\ Lines \subseteq Position /\ NoLine \in Position
  BY DEF Row, Position
<1>2. CASE o \in Refusals(IF r.fn THEN BOOLEAN ELSE {TRUE})
  BY <1>1, <1>2 DEF Outcome, Refusals
<1>3. CASE r.fn /\ FreshNumbers # {} /\ o \in Made(FALSE, Position)
  BY <1>3 DEF Outcome, Made
<1>4. CASE ~r.fn /\ FreshNumbers # {} /\ o \in Made(FALSE, {r.line})
  BY <1>1, <1>4 DEF Outcome, Made
<1>5. CASE ~r.fn /\ FreshNumbers # {} /\ o \in Made(TRUE, Lines \ {r.line})
  BY <1>1, <1>5 DEF Outcome, Made
<1> QED BY <1>1, <1>2, <1>3, <1>4, <1>5 DEF Outcomes

(* "delete", "enable" and "disable" leave a state of gdb.                    *)
LEMMA SwitchType ==
  ASSUME NEW g \in [Numbers -> GdbState], NEW n, NEW to \in {"on", "off"}
  PROVE  Switch(g, n, to) \in [Numbers -> GdbState]
<1>1. ASSUME n \in Numbers PROVE [g[n] EXCEPT !.st = to] \in GdbState
  BY <1>1 DEF GdbState
<1> QED BY <1>1 DEF Switch

LEMMA DeleteType ==
  ASSUME NEW g \in [Numbers -> GdbState], NEW n
  PROVE  Delete(g, n) \in [Numbers -> GdbState]
BY DEF Delete, Dead, GdbState, Position

LEMMA CreatedType ==
  ASSUME TypeOK, NEW r \in Row, NEW g \in [Numbers -> GdbState], NEW o \in Outcomes(r)
  PROVE  Created(r, g, o) \in Call
<1>1. o \in Outcome /\ (o.made => NewNumber \in Numbers)
  BY OutcomeProperties, NewNumberFresh DEF FreshNumbers
<1>2. \A g2 \in [Numbers -> GdbState] : Untouched(r, g2) \in Call
  BY DEF Call, Untouched, TypeOK
<1>3. CASE ~o.made
  BY <1>2, <1>3 DEF Created
<1>4. CASE o.made
  <2>1. [g EXCEPT ![NewNumber] = [st |-> "on", line |-> o.line]] \in [Numbers -> GdbState]
    BY <1>1, <1>4 DEF Outcome, GdbState
  <2>2. Untouched(r, [g EXCEPT ![NewNumber] = [st |-> "on", line |-> o.line]]) \in Call
    BY <1>2, <2>1
  <2> QED BY <1>1, <1>4, <2>2 DEF Created, Call, Outcome
<1> QED BY <1>3, <1>4

(* The two ends of a call, field by field                                   *)
LEMMA RejectedFields ==
  ASSUME NEW r \in Row, NEW c \in Call
  PROVE  /\ Rejected(r, c) \in Call
         /\ Rejected(r, c).row.num = Unset
         /\ Rejected(r, c).gdb = IF c.invalid THEN Delete(c.gdb, c.last) ELSE c.gdb
         /\ Rejected(r, c).last = c.last
         /\ Rejected(r, c).invalid = c.invalid
         /\ Rejected(r, c).mistaken = c.mistaken
<1>1. [c.row EXCEPT !.num = Unset] \in Row /\ [c.row EXCEPT !.num = Unset].num = Unset
  BY DEF Call, Row
<1>2. Delete(c.gdb, c.last) \in [Numbers -> GdbState]
  BY DeleteType DEF Call
<1> QED BY <1>1, <1>2 DEF Rejected, Call

LEMMA AcceptedFields ==
  ASSUME TypeOK, NEW r \in Row, NEW c \in Call
  PROVE  /\ Accepted(r, c) \in Call
         /\ Accepted(r, c).row.num = c.last
         /\ Accepted(r, c).row.en = r.en
         /\ Accepted(r, c).row.fn = r.fn
         /\ Accepted(r, c).row.line = Resolved(r, c)
         /\ Accepted(r, c).gdb = IF r.en THEN c.gdb ELSE Switch(c.gdb, c.last, "off")
         /\ Accepted(r, c).last = c.last
         /\ Accepted(r, c).invalid = c.invalid
         /\ Accepted(r, c).mistaken = IF c.made THEN c.mistaken ELSE c.mistaken \cup {c.last}
<1> DEFINE row == [r EXCEPT !.num = c.last, !.line = Resolved(r, c)]
<1>1. /\ row \in Row /\ row.num = c.last /\ row.en = r.en /\ row.fn = r.fn
      /\ row.line = Resolved(r, c)
  BY DEF Call, Row, Resolved
<1>2. Switch(c.gdb, c.last, "off") \in [Numbers -> GdbState]
  BY SwitchType DEF Call
<1>3. Count(1) \in Int /\ hw_break_point_count \in Int
  BY DEF Count, TypeOK
<1> QED BY <1>1, <1>2, <1>3 DEF Accepted, Call

(* SetBreakPoint returns a row, a state of gdb and globals of their types.  *)
LEMMA SetBreakPointTypes ==
  ASSUME TypeOK, NEW r \in Row, NEW g \in [Numbers -> GdbState], NEW o \in Outcomes(r)
  PROVE  SetBreakPoint(r, g, o) \in Call
<1>1. Untouched(r, g) \in Call /\ Untouched([r EXCEPT !.num = Unset], g) \in Call
  BY DEF Call, Untouched, TypeOK, Row
<1> QED BY <1>1, CreatedType, RejectedFields, AcceptedFields DEF SetBreakPoint, Refused

(* A call never changes whether its row is enabled.                         *)
LEMMA CallKeepsState ==
  ASSUME TypeOK, NEW r \in Row, NEW g \in [Numbers -> GdbState], NEW o \in Outcomes(r)
  PROVE  SetBreakPoint(r, g, o).row.en = r.en
<1> DEFINE c == Created(r, g, o)
<1>1. c \in Call /\ c.row = r
  BY CreatedType DEF Created, Untouched
<1>2. Untouched([r EXCEPT !.num = Unset], g).row.en = r.en /\ Untouched(r, g).row = r
  BY DEF Untouched, Row
<1> HIDE DEF c
<1>3. Rejected(r, c).row.en = r.en
  BY <1>1 DEF Rejected, Call, Row
<1> QED BY <1>1, <1>2, <1>3, AcceptedFields DEF SetBreakPoint, c

-----------------------------------------------------------------------------
(* Each operation keeps the types.                                         *)

TypeInv == TypeOK /\ RemovalInTable

LEMMA RowsTypes ==
  ASSUME TypeOK
  PROVE  /\ Len(rows) \in Nat /\ Len(rows) <= MaxRows /\ DOMAIN rows = 1..Len(rows)
         /\ \A i \in DOMAIN rows : rows[i] \in Row
         /\ \A i \in DOMAIN rows, r \in Row :
              /\ [rows EXCEPT ![i] = r] \in Seq(Row)
              /\ Len([rows EXCEPT ![i] = r]) = Len(rows)
<1>1. rows \in Seq(Row) /\ Len(rows) <= MaxRows
  BY DEF TypeOK
<1>2. Len(rows) \in Nat /\ DOMAIN rows = 1..Len(rows)
  BY <1>1, LenProperties
<1>3. \A i \in DOMAIN rows : rows[i] \in Row
  BY <1>1, <1>2, ElementOfSeq
<1>4. \A i \in DOMAIN rows, r \in Row :
        /\ [rows EXCEPT ![i] = r] \in Seq(Row)
        /\ Len([rows EXCEPT ![i] = r]) = Len(rows)
  BY <1>1, <1>2, ExceptSeq
<1> QED BY <1>1, <1>2, <1>3, <1>4

LEMMA SetNextTypes == TypeInv /\ SetNext => TypeInv'
<1> SUFFICES ASSUME TypeInv, SetNext PROVE TypeInv'
  OBVIOUS
<1> USE DEF TypeInv
<1>1. CASE job' = Idle /\ UNCHANGED bpTable /\ UNCHANGED <<prog, init>>
  BY <1>1, BoundsAssumption DEF TypeOK, RemovalInTable, bpTable, Idle, Job
<1>2. ASSUME job.i \in DOMAIN rows, NEW o \in Outcomes(rows[job.i]),
             Apply(SetBreakPoint(rows[job.i], gdb, o)),
             rows' = [rows EXCEPT ![job.i] = SetBreakPoint(rows[job.i], gdb, o).row],
             Start("set", job.i + 1), UNCHANGED <<prog, init>>
      PROVE  TypeInv'
  <2> DEFINE s == SetBreakPoint(rows[job.i], gdb, o)
  <2>1. s \in Call
    BY <1>2, RowsTypes, SetBreakPointTypes DEF TypeOK
  <2>2. rows' \in Seq(Row) /\ Len(rows') <= MaxRows
    BY <1>2, <2>1, RowsTypes DEF Call
  <2>3. job' \in Job /\ job'.k = "set"
    BY <1>2, RowsTypes, BoundsAssumption DEF Start, Job
  <2>4. UNCHANGED <<prog, init>> /\ gdb' = s.gdb /\ last' = s.last /\ lastLine' = s.lastLine
        /\ invalid_line' = s.invalid /\ hw_break_point_count' = s.hw /\ mistaken' = s.mistaken
    BY <1>2 DEF Apply
  <2> HIDE DEF s
  <2> QED BY <2>1, <2>2, <2>3, <2>4 DEF TypeOK, RemovalInTable, Call
<1> QED BY <1>1, <1>2 DEF SetNext

LEMMA DeleteNextTypes == TypeInv /\ DeleteNext => TypeInv'
<1> SUFFICES ASSUME TypeInv, DeleteNext PROVE TypeInv'
  OBVIOUS
<1> USE DEF TypeInv
<1>1. CASE job' = Idle /\ UNCHANGED <<rows, gdb>>
  BY <1>1, BoundsAssumption DEF DeleteNext, TypeOK, RemovalInTable, Idle, Job
<1>2. CASE job.i \in DOMAIN rows /\ gdb' = Delete(gdb, rows[job.i].num)
           /\ rows' = [rows EXCEPT ![job.i].num = Unset] /\ Start("delete", job.i + 1)
  <2>1. [rows[job.i] EXCEPT !.num = Unset] \in Row
    BY <1>2, RowsTypes DEF Row
  <2>2. rows' = [rows EXCEPT ![job.i] = [rows[job.i] EXCEPT !.num = Unset]]
    BY <1>2
  <2>3. rows' \in Seq(Row) /\ Len(rows') <= MaxRows
    BY <1>2, <2>1, <2>2, RowsTypes
  <2>4. gdb' \in [Numbers -> GdbState]
    BY <1>2, DeleteType DEF TypeOK
  <2>5. job' \in Job /\ job'.k = "delete"
    BY <1>2, RowsTypes, BoundsAssumption DEF Start, Job
  <2> QED BY <2>3, <2>4, <2>5 DEF DeleteNext, TypeOK, RemovalInTable
<1> QED BY <1>1, <1>2 DEF DeleteNext

LEMMA RemoveBreakPointTypes ==
  ASSUME TypeOK, NEW i \in DOMAIN rows, RemoveBreakPoint(i), job' \in Job
  PROVE  TypeOK' /\ Len(rows') = Len(rows) - 1
<1>1. rows' \in Seq(Row) /\ Len(rows') = Len(rows) - 1
  BY RowsTypes, RemoveAtProperties DEF RemoveBreakPoint, TypeOK
<1>2. gdb' \in [Numbers -> GdbState]
  BY DeleteType DEF RemoveBreakPoint, TypeOK
<1>3. hw_break_point_count' \in Int
  BY DEF RemoveBreakPoint, Count, TypeOK
<1> QED BY <1>1, <1>2, <1>3, RowsTypes, BoundsAssumption DEF RemoveBreakPoint, TypeOK

LEMMA RemoveNextTypes == TypeInv /\ RemoveNext => TypeInv'
<1> SUFFICES ASSUME TypeInv, RemoveNext PROVE TypeInv'
  OBVIOUS
<1> USE DEF TypeInv
<1>1. CASE job.i = 0 /\ job' = Idle /\ UNCHANGED <<bpTable, prog, init>>
  BY <1>1, BoundsAssumption DEF TypeOK, RemovalInTable, bpTable, Idle, Job
<1>2. CASE job.i > 0 /\ RemoveBreakPoint(job.i) /\ Start("remove", job.i - 1)
  <2>1. job.i \in DOMAIN rows /\ job.k = "remove"
    BY <1>2, RowsTypes DEF RemoveNext, RemovalInTable, TypeOK, Job
  <2>2. job' \in Job /\ job'.i = job.i - 1
    BY <1>2, <2>1, RowsTypes, BoundsAssumption DEF Start, Job
  <2>3. TypeOK' /\ Len(rows') = Len(rows) - 1
    BY <1>2, <2>1, <2>2, RemoveBreakPointTypes
  <2> QED BY <2>1, <2>2, <2>3, RowsTypes DEF RemovalInTable
<1> QED BY <1>1, <1>2 DEF RemoveNext

LEMMA SwitchBreakTypes ==
  ASSUME TypeInv, NEW i \in DOMAIN rows, SwitchBreak(i)
  PROVE  TypeInv'
<1> USE DEF TypeInv
<1>1. ASSUME NEW e \in BOOLEAN, rows' = [rows EXCEPT ![i].en = e]
      PROVE  rows' \in Seq(Row) /\ Len(rows') = Len(rows)
  <2>1. [rows[i] EXCEPT !.en = e] \in Row
    BY RowsTypes DEF Row
  <2>2. rows' = [rows EXCEPT ![i] = [rows[i] EXCEPT !.en = e]]
    BY <1>1
  <2> QED BY <2>1, <2>2, RowsTypes
<1>2. CASE DisableBreakPoint(i)
  <2>1. rows' \in Seq(Row) /\ Len(rows') = Len(rows)
    BY <1>1, <1>2 DEF DisableBreakPoint
  <2>2. gdb' \in [Numbers -> GdbState]
    BY <1>2, SwitchType DEF DisableBreakPoint, TypeOK
  <2>3. hw_break_point_count' \in Int
    BY <1>2 DEF DisableBreakPoint, Count, TypeOK
  <2> QED BY <1>2, <2>1, <2>2, <2>3 DEF DisableBreakPoint, TypeOK, RemovalInTable
<1>3. CASE EnableBreakPoint(i)
  <2>1. rows' \in Seq(Row) /\ Len(rows') = Len(rows)
    BY <1>1, <1>3 DEF EnableBreakPoint
  <2>2. gdb' \in [Numbers -> GdbState]
    BY <1>3, SwitchType DEF EnableBreakPoint, TypeOK
  <2>3. hw_break_point_count' \in Int
    BY <1>3 DEF EnableBreakPoint, Count, TypeOK
  <2> QED BY <1>3, <2>1, <2>2, <2>3 DEF EnableBreakPoint, TypeOK, RemovalInTable
<1> QED BY <1>2, <1>3 DEF SwitchBreak

LEMMA RemoveOneTypes ==
  ASSUME TypeInv, job = Idle, NEW i \in DOMAIN rows, RemoveOne(i)
  PROVE  TypeInv'
<1>1. job' \in Job /\ job'.k = "idle"
  BY BoundsAssumption DEF RemoveOne, Idle, Job
<1>2. TypeOK'
  BY <1>1, RemoveBreakPointTypes DEF RemoveOne, TypeInv
<1> QED BY <1>1, <1>2 DEF TypeInv, RemovalInTable

(* The globals after a call that stores its row in the table              *)
LEMMA StoreTypes ==
  ASSUME TypeInv, job = Idle, NEW s \in Call, Apply(s),
         rows' \in Seq(Row), Len(rows') <= MaxRows, UNCHANGED <<prog, init, job>>
  PROVE  TypeInv'
BY DEF TypeInv, TypeOK, RemovalInTable, Apply, Call, Idle

LEMMA AddBreakPointTypes ==
  ASSUME TypeInv, job = Idle, NEW r \in Row, AddBreakPoint(r)
  PROVE  TypeInv'
<1>1. rows \in Seq(Row) /\ Len(rows) \in Nat /\ Len(rows) < MaxRows
  BY RowsTypes DEF TypeInv, TypeOK, AddBreakPoint
<1>2. \A r2 \in Row : Append(rows, r2) \in Seq(Row) /\ Len(Append(rows, r2)) <= MaxRows
  BY <1>1, AppendProperties, BoundsAssumption
<1>3. ASSUME NEW o \in Outcomes(r), Apply(SetBreakPoint(r, gdb, o)),
             rows' = Append(rows, SetBreakPoint(r, gdb, o).row), UNCHANGED <<prog, init, job>>
      PROVE  TypeInv'
  <2>1. SetBreakPoint(r, gdb, o) \in Call
    BY SetBreakPointTypes DEF TypeInv, TypeOK
  <2>2. SetBreakPoint(r, gdb, o).row \in Row
    BY <2>1 DEF Call
  <2> QED BY <1>2, <1>3, <2>1, <2>2, StoreTypes
<1>4. CASE rows' = Append(rows, r)
           /\ UNCHANGED <<gdb, last, lastLine, invalid_line, hw_break_point_count, mistaken>>
  BY <1>2, <1>4 DEF AddBreakPoint, TypeInv, TypeOK, RemovalInTable, Idle
<1> QED BY <1>3, <1>4 DEF AddBreakPoint

LEMMA EditBreakPointTypes ==
  ASSUME TypeInv, job = Idle, NEW i \in DOMAIN rows, NEW fn \in BOOLEAN, NEW line \in Position,
         EditBreakPoint(i, fn, line)
  PROVE  TypeInv'
<1> DEFINE r == [rows[i] EXCEPT !.fn = fn, !.line = line,
                                !.num = IF rows[i].num > 0 THEN Unset ELSE rows[i].num]
           g == Delete(gdb, rows[i].num)
<1>1. r \in Row
  BY RowsTypes DEF TypeInv, Row
<1>2. g \in [Numbers -> GdbState]
  BY DeleteType DEF TypeInv, TypeOK
<1>3. \/ \E o \in Outcomes(r) : Apply(SetBreakPoint(r, g, o))
                                /\ rows' = [rows EXCEPT ![i] = SetBreakPoint(r, g, o).row]
      \/ /\ gdb' = g /\ rows' = [rows EXCEPT ![i] = r]
         /\ UNCHANGED <<last, lastLine, invalid_line, hw_break_point_count, mistaken>>
  BY DEF EditBreakPoint, Edited
<1>4. UNCHANGED <<prog, init, job>>
  BY DEF EditBreakPoint, Edited
<1> HIDE DEF r, g
<1>5. ASSUME NEW o \in Outcomes(r), Apply(SetBreakPoint(r, g, o)),
             rows' = [rows EXCEPT ![i] = SetBreakPoint(r, g, o).row]
      PROVE  TypeInv'
  <2>1. SetBreakPoint(r, g, o) \in Call
    BY <1>1, <1>2, SetBreakPointTypes DEF TypeInv
  <2>2. SetBreakPoint(r, g, o).row \in Row
    BY <2>1 DEF Call
  <2>3. rows' \in Seq(Row) /\ Len(rows') <= MaxRows
    BY <1>5, <2>2, RowsTypes DEF TypeInv
  <2> QED BY <1>4, <1>5, <2>1, <2>3, StoreTypes
<1>6. CASE /\ gdb' = g /\ rows' = [rows EXCEPT ![i] = r]
           /\ UNCHANGED <<last, lastLine, invalid_line, hw_break_point_count, mistaken>>
  <2>1. rows' \in Seq(Row) /\ Len(rows') <= MaxRows
    BY <1>1, <1>6, RowsTypes DEF TypeInv
  <2> QED BY <1>2, <1>4, <1>6, <2>1 DEF TypeInv, TypeOK, RemovalInTable, Idle
<1> QED BY <1>3, <1>5, <1>6

-----------------------------------------------------------------------------
(* A command of the user is one of four operations on the table.            *)
Operation ==
  \/ \E r \in Row : r.num = Unset /\ AddBreakPoint(r)
  \/ \E i \in DOMAIN rows : RemoveOne(i)
  \/ \E i \in DOMAIN rows : SwitchBreak(i)
  \/ \E i \in DOMAIN rows, fn \in BOOLEAN, line \in Position : EditBreakPoint(i, fn, line)

LEMMA UserCommandIsOperation == UserCommand => Operation
<1>1. \A fn \in BOOLEAN, en \in BOOLEAN, line \in Position :
         NewRow(fn, line, en) \in Row /\ NewRow(fn, line, en).num = Unset
  BY DEF NewRow, Row
<1>2. Lines \subseteq Position /\ \A fn : LinesFor(fn) \subseteq Position
  BY DEF LinesFor, Position
<1>3. ASSUME NEW line \in Lines, ToggleBreak(line) PROVE Operation
  BY <1>1, <1>2, <1>3 DEF ToggleBreak, Operation
<1>4. ASSUME BreakDialog PROVE Operation
  BY <1>1, <1>2, <1>4, OptionsAssumption DEF BreakDialog, Operation
<1>5. ASSUME LoadBreak PROVE Operation
  BY <1>1, <1>2, <1>5, OptionsAssumption DEF LoadBreak, Operation
<1> QED BY <1>3, <1>4, <1>5 DEF UserCommand

(* The debugger's own actions, which leave rows and gdb alone               *)
LEMMA TableKeptTypes ==
  ASSUME TypeInv, job = Idle,
         DeleteBreakPoints \/ DeleteAllBreakPoints \/ InitNoProgram \/ InitNoSymbols
         \/ InitLoaded \/ ClearSymbols
  PROVE  TypeInv'
<1>1. Len(rows) \in Nat /\ Len(rows) <= MaxRows
  BY RowsTypes DEF TypeInv
<1>2. job' \in Job /\ (job'.k = "remove" => job'.i <= Len(rows))
  BY <1>1, BoundsAssumption
     DEF DeleteBreakPoints, DeleteAllBreakPoints, InitNoProgram, InitNoSymbols, InitLoaded,
         ClearSymbols, Start, Job, Idle
<1>3. /\ UNCHANGED <<rows, gdb, last, lastLine, invalid_line, mistaken>>
      /\ hw_break_point_count' \in {hw_break_point_count, 0}
  BY DEF DeleteBreakPoints, DeleteAllBreakPoints, InitNoProgram, InitNoSymbols, InitLoaded,
         ClearSymbols, bpTable
<1>4. prog' \in BOOLEAN /\ init' \in BOOLEAN
  BY Zenon DEF DeleteBreakPoints, DeleteAllBreakPoints, InitNoProgram, InitNoSymbols,
               InitLoaded, ClearSymbols, TypeInv, TypeOK
<1> QED BY <1>2, <1>3, <1>4 DEF TypeInv, TypeOK, RemovalInTable

LEMMA TypeInvInit == BpInit => TypeInv
<1> SUFFICES ASSUME BpInit PROVE TypeInv
  OBVIOUS
<1>1. rows \in Seq(Row) /\ Len(rows) = 0
  BY EmptySeq DEF BpInit
<1>2. Dead \in GdbState
  BY DEF Dead, GdbState, Position
<1>3. gdb \in [Numbers -> GdbState]
  BY <1>2 DEF BpInit
<1>4. job \in Job /\ job.k = "idle"
  BY BoundsAssumption DEF BpInit, Idle, Job
<1>5. invalid_line \in BOOLEAN /\ prog \in BOOLEAN /\ init \in BOOLEAN
  BY DEF BpInit
<1>6. last \in Numbers \cup {0} /\ lastLine \in Position /\ hw_break_point_count \in Int
      /\ mistaken \subseteq Numbers \cup {0}
  BY DEF BpInit, Position
<1> QED BY <1>1, <1>3, <1>4, <1>5, <1>6, BoundsAssumption DEF TypeInv, TypeOK, RemovalInTable

LEMMA TypeInvNext == TypeInv /\ [BpNext]_bpVars => TypeInv'
<1> SUFFICES ASSUME TypeInv, [BpNext]_bpVars PROVE TypeInv'
  OBVIOUS
<1>1. CASE TableWalk
  BY <1>1, SetNextTypes, DeleteNextTypes, RemoveNextTypes DEF TableWalk
<1>2. CASE job = Idle /\ UserCommand
  BY <1>2, UserCommandIsOperation, AddBreakPointTypes, RemoveOneTypes, SwitchBreakTypes,
     EditBreakPointTypes DEF Operation
<1>3. CASE job = Idle /\ (DeleteBreakPoints \/ DeleteAllBreakPoints \/ InitNoProgram
                          \/ InitNoSymbols \/ InitLoaded \/ ClearSymbols)
  BY <1>3, TableKeptTypes
<1>4. CASE UNCHANGED bpVars
  BY <1>4 DEF bpVars, TypeInv, TypeOK, RemovalInTable
<1> QED BY <1>1, <1>2, <1>3, <1>4 DEF BpNext

(* The table, gdb's breakpoints and the library's globals keep their types  *)
(* whatever gdb answers and whatever the user does; a removal of all rows   *)
(* never reaches outside the table (RemoveBreakPoint is given a valid row). *)
THEOREM TypeCorrect == BpSpec => []TypeOK
<1>1. TypeInv => TypeOK
  BY DEF TypeInv
<1> QED BY <1>1, TypeInvInit, TypeInvNext, PTL DEF BpSpec

-----------------------------------------------------------------------------
(* The table and gdb                                                        *)

\* What gdb has armed is an enabled row.
ArmedOwned ==
  \A n \in Numbers : gdb[n].st = "on" => \E i \in DOMAIN rows : rows[i].num = n /\ rows[i].en

\* DeleteBreakPoints has emptied the table up to where it stands.
DeletedSoFar ==
  job.k = "delete" => job.i > 0 /\ \A i \in DOMAIN rows : i < job.i => ~Set(i)

TableInv ==
  /\ NumbersExact /\ NumbersDistinct /\ NoOrphans /\ StaleInvalidLineOwnsNothing
  /\ ArmedOwned /\ DeletedSoFar

\* Row i is set and its number is the one of its own breakpoint.
Sure(i) == Set(i) /\ rows[i].num \notin mistaken

(* What a call of SetBreakPoint on a row that is not set does to gdb: it     *)
(* touches no number but the one created last; the row gets the number of a *)
(* new breakpoint at its line, or the one of the last breakpoint, which then *)
(* counts as mistaken; a breakpoint that is rejected is gone.                *)
CallFacts(r, g, c) ==
  /\ c.last = last \/ c.last \in FreshNumbers
  /\ c.mistaken \subseteq mistaken \cup {c.last}
  /\ mistaken \ FreshNumbers \subseteq c.mistaken
  /\ \A m \in Numbers : m # c.last => c.gdb[m] = g[m]
  /\ c.row.num > 0 =>
       /\ c.row.num = c.last /\ ~c.invalid
       /\ \/ /\ c.last \in FreshNumbers /\ c.last \notin c.mistaken
             /\ Shown(c.gdb[c.last], c.row)
          \/ /\ c.last = last /\ last \in c.mistaken
             /\ c.gdb[last].st \in {"on", "off"} => g[last].st \in {"on", "off"}
             /\ c.gdb[last].st = "on" => g[last].st = "on"
  /\ ~(c.row.num > 0) /\ c.last \in Numbers => c.gdb[c.last] \in {g[c.last], Dead}
  /\ c.last = last => c.invalid = invalid_line
  /\ c.last = last /\ ~(c.row.num > 0) => c.gdb = g \/ invalid_line

LEMMA SetBreakPointFacts ==
  ASSUME TypeOK, NEW r \in Row, ~(r.num > 0), NEW g \in [Numbers -> GdbState],
         NEW o \in Outcomes(r)
  PROVE  CallFacts(r, g, SetBreakPoint(r, g, o))
<1>1. /\ o \in Outcome
      /\ o.made => NewNumber \in FreshNumbers /\ NewNumber \in Numbers /\ NewNumber # last
      /\ o.made => ~o.no
      /\ o.made /\ ~r.fn /\ ~o.moved => o.line = r.line
  BY OutcomeProperties, NewNumberFresh DEF FreshNumbers
<1>2. invalid_line \in BOOLEAN /\ last \in Numbers \cup {0} /\ gdb \in [Numbers -> GdbState]
  BY DEF TypeOK
<1>3. ~(Unset > 0) /\ \A n \in Numbers : n > 0
  BY BoundsAssumption DEF Unset, Numbers
<1> DEFINE c == Created(r, g, o)
           s == SetBreakPoint(r, g, o)
<1>4. c \in Call
  BY CreatedType
<1> SUFFICES CallFacts(r, g, s)
  OBVIOUS
<1> HIDE DEF s
<1>5. CASE ~break_available
  <2>1. s = Untouched([r EXCEPT !.num = Unset], g)
    BY <1>5 DEF SetBreakPoint, Refused, s
  <2>2. /\ s.row.num = Unset /\ s.gdb = g /\ s.last = last /\ s.invalid = invalid_line
        /\ s.mistaken = mistaken
    BY <2>1 DEF Untouched, Row
  <2> QED BY <1>3, <2>2 DEF CallFacts
<1>6. CASE break_available /\ ~o.made
  <2>1. /\ c.gdb = g /\ c.last = last /\ c.invalid = invalid_line /\ c.mistaken = mistaken
        /\ ~c.made
    BY <1>6 DEF Created, Untouched
  <2> HIDE DEF c
  <2>2. CASE Refused(c, o)
    <3>1. s = Rejected(r, c)
      BY <1>6, <2>2 DEF SetBreakPoint, c, s
    <3>2. /\ s.row.num = Unset /\ s.last = last /\ s.invalid = invalid_line
          /\ s.gdb = IF invalid_line THEN Delete(g, last) ELSE g
          /\ s.mistaken = mistaken
      BY <1>4, <2>1, <3>1, RejectedFields
    <3>3. /\ \A m \in Numbers : m # last => Delete(g, last)[m] = g[m]
          /\ last \in Numbers => Delete(g, last)[last] = Dead
      BY DEF Delete
    <3> QED BY <1>2, <1>3, <3>2, <3>3 DEF CallFacts
  <2>3. CASE ~Refused(c, o)
    <3> DEFINE after == IF r.en THEN g ELSE Switch(g, last, "off")
    <3>1. s = Accepted(r, c)
      BY <1>6, <2>3 DEF SetBreakPoint, c, s
    <3>2. /\ s.row.num = last /\ s.last = last /\ s.invalid = invalid_line
          /\ s.gdb = after /\ s.mistaken = mistaken \cup {last}
      BY <1>4, <2>1, <3>1, AcceptedFields
    <3>3. ~invalid_line
      BY <2>1, <2>3 DEF Refused
    <3>4. /\ \A m \in Numbers : m # last => after[m] = g[m]
          /\ after[last].st \in {"on", "off"} => g[last].st \in {"on", "off"}
          /\ after[last].st = "on" => g[last].st = "on"
          /\ ~(last > 0) => after = g
      BY <1>2, <1>3 DEF Switch, GdbState
    <3> HIDE DEF after
    <3> QED BY <1>2, <1>3, <3>2, <3>3, <3>4 DEF CallFacts
  <2> QED BY <2>2, <2>3
<1>7. CASE break_available /\ o.made
  <2> DEFINE made == [g EXCEPT ![NewNumber] = [st |-> "on", line |-> o.line]]
  <2>1. /\ c.gdb = made /\ c.last = NewNumber /\ c.lastLine = o.line /\ c.invalid = o.moved
        /\ c.made /\ c.mistaken = mistaken \ FreshNumbers
    BY <1>7 DEF Created, Untouched
  <2>2. /\ made[NewNumber] = [st |-> "on", line |-> o.line]
        /\ \A m \in Numbers : m # NewNumber => made[m] = g[m]
        /\ made \in [Numbers -> GdbState]
    BY <1>1, <1>7 DEF GdbState, Outcome
  <2> HIDE DEF made, c
  <2>3. CASE o.moved
    <3>1. s = Rejected(r, c)
      BY <1>7, <2>1, <2>3 DEF SetBreakPoint, Refused, c, s
    <3>2. c.invalid
      BY <2>1, <2>3
    <3>3. /\ s.row.num = Unset /\ s.gdb = Delete(made, NewNumber) /\ s.last = NewNumber
          /\ s.mistaken = mistaken \ FreshNumbers
      BY <1>4, <2>1, <3>1, <3>2, RejectedFields
    <3>4. /\ \A m \in Numbers : m # NewNumber => Delete(made, NewNumber)[m] = g[m]
          /\ Delete(made, NewNumber)[NewNumber] = Dead
      BY <1>1, <1>7, <2>2 DEF Delete
    <3> QED BY <1>1, <1>3, <1>7, <3>3, <3>4 DEF CallFacts
  <2>4. CASE ~o.moved
    <3> DEFINE after == IF r.en THEN made ELSE Switch(made, NewNumber, "off")
    <3>1. s = Accepted(r, c)
      BY <1>1, <1>7, <2>1, <2>4 DEF SetBreakPoint, Refused, c, s
    <3>2. /\ s.row.num = NewNumber /\ s.row.en = r.en /\ s.row.fn = r.fn
          /\ s.row.line = Resolved(r, c)
          /\ s.gdb = after /\ s.last = NewNumber /\ ~s.invalid
          /\ s.mistaken = mistaken \ FreshNumbers
      BY <1>1, <1>4, <1>7, <2>1, <2>4, <3>1, AcceptedFields
    <3>3. /\ \A m \in Numbers : m # NewNumber => after[m] = g[m]
          /\ after[NewNumber] = [st |-> IF r.en THEN "on" ELSE "off", line |-> o.line]
      BY <1>1, <1>7, <2>2 DEF Switch
    <3>4. o.line = s.row.line \/ (s.row.fn /\ o.line = NoLine)
      BY <1>1, <1>7, <2>1, <2>4, <3>2 DEF Resolved
    <3> HIDE DEF after
    <3>5. Shown(s.gdb[s.last], s.row)
      BY <3>2, <3>3, <3>4 DEF Shown
    <3> QED BY <1>1, <1>3, <1>7, <3>2, <3>3, <3>5 DEF CallFacts
  <2> QED BY <1>1, <2>3, <2>4 DEF Outcome
<1> QED BY <1>1, <1>5, <1>6, <1>7 DEF Outcome

(* A call's row is stored at position p while the rows at P stay where they  *)
(* are: a row that is appended, set again or edited.  g is what gdb holds    *)
(* when "break" is given: everything the rows at P own, and no orphan.       *)
LEMMA StoreKeepsTable ==
  ASSUME TypeOK, TableInv, job'.k # "delete",
         NEW r \in Row, ~(r.num > 0), NEW g \in [Numbers -> GdbState], NEW o \in Outcomes(r),
         Apply(SetBreakPoint(r, g, o)),
         NEW P \in SUBSET DOMAIN rows, NEW p, p \notin P,
         DOMAIN rows' = P \cup {p},
         rows'[p] = SetBreakPoint(r, g, o).row,
         \A k \in P : rows'[k] = rows[k] /\ (Sure(k) => g[rows[k].num] = gdb[rows[k].num]),
         \A m \in Numbers : g[m].st \in {"on", "off"} => \E k \in P : rows[k].num = m,
         \A m \in Numbers : g[m].st = "on" => \E k \in P : rows[k].num = m /\ rows[k].en
  PROVE  TableInv'
<1> DEFINE s == SetBreakPoint(r, g, o)
<1>1. CallFacts(r, g, s)
  BY SetBreakPointFacts
<1>2. gdb' = s.gdb /\ last' = s.last /\ invalid_line' = s.invalid /\ rows'[p] = s.row
      /\ mistaken' = s.mistaken
  BY DEF Apply
<1>3. \A k \in DOMAIN rows : Set(k) => rows[k].num \in Numbers
  BY RowsTypes, BoundsAssumption DEF Row, Set, Numbers, Unset
<1>4. s.row \in Row /\ s.row.en = r.en
  <2>1. s \in Call
    BY SetBreakPointTypes
  <2>2. s.row.en = r.en
    BY CallKeepsState
  <2> QED BY <2>1, <2>2 DEF Call
<1> HIDE DEF s
<1>5. \A k \in P : Set(k)' <=> Set(k)
  BY DEF Set
<1>6. \A n \in FreshNumbers : n \in Numbers /\ n # last /\ \A k \in P : rows[k].num # n
  BY DEF FreshNumbers
<1>7. ASSUME NEW k \in P, Sure(k)' PROVE Sure(k)
  BY <1>1, <1>2, <1>5, <1>6, <1>7 DEF CallFacts, Sure
<1>8. ASSUME NEW k \in P, Sure(k)' PROVE rows[k].num # s.last \/ gdb' = g
  <2>1. CASE s.last \in FreshNumbers
    BY <1>6, <2>1
  <2>2. CASE s.last = last
    <3>1. CASE s.row.num > 0
      BY <1>1, <1>2, <1>6, <1>8, <2>2, <3>1 DEF CallFacts, Sure
    <3>2. CASE ~(s.row.num > 0)
      BY <1>1, <1>2, <1>7, <1>8, <2>2, <3>2 DEF CallFacts, TableInv, StaleInvalidLineOwnsNothing, Sure
    <3> QED BY <3>1, <3>2
  <2> QED BY <1>1, <2>1, <2>2 DEF CallFacts
<1>9. NumbersExact'
  <2> SUFFICES ASSUME NEW k \in DOMAIN rows', Sure(k)'
               PROVE  Shown(gdb'[rows'[k].num], rows'[k])
    BY DEF NumbersExact, Sure
  <2>1. CASE k = p
    BY <1>1, <1>2, <2>1 DEF CallFacts, Sure, Set
  <2>2. CASE k \in P
    <3>1. Sure(k) /\ rows'[k] = rows[k] /\ rows[k].num \in Numbers
      BY <1>3, <1>7, <2>2 DEF Sure
    <3>2. gdb'[rows[k].num] = g[rows[k].num]
      BY <1>1, <1>2, <1>8, <2>2, <3>1 DEF CallFacts
    <3>3. Shown(gdb[rows[k].num], rows[k])
      BY <2>2, <3>1 DEF TableInv, NumbersExact, Sure
    <3> QED BY <2>2, <3>1, <3>2, <3>3
  <2> QED BY <2>1, <2>2
<1>10. NumbersDistinct'
  <2> SUFFICES ASSUME NEW i \in DOMAIN rows', NEW j \in DOMAIN rows', Sure(i)', Set(j)',
                      rows'[i].num = rows'[j].num
               PROVE  i = j
    BY DEF NumbersDistinct, Sure
  <2>1. CASE i \in P /\ j \in P
    BY <1>5, <1>7, <2>1 DEF TableInv, NumbersDistinct, Sure
  <2>2. ASSUME NEW k \in P, Set(p)' PROVE rows'[k].num # rows'[p].num \/ rows'[p].num \in mistaken'
    BY <1>1, <1>2, <1>6, <2>2 DEF CallFacts, Set
  <2> QED BY <2>1, <2>2 DEF Sure
<1>11. NoOrphans'
  <2> SUFFICES ASSUME NEW n \in Numbers, gdb'[n].st \in {"on", "off"}
               PROVE  \E i \in DOMAIN rows' : rows'[i].num = n
    BY DEF NoOrphans
  <2>1. CASE g[n].st \in {"on", "off"}
    BY <2>1
  <2>2. CASE g[n].st \notin {"on", "off"}
    <3>1. n = s.last
      BY <1>1, <1>2, <2>2 DEF CallFacts
    <3>2. s.row.num > 0
      BY <1>1, <1>2, <2>2, <3>1 DEF CallFacts, Dead
    <3> QED BY <1>1, <1>2, <3>1, <3>2 DEF CallFacts
  <2> QED BY <2>1, <2>2
<1>12. StaleInvalidLineOwnsNothing'
  <2> SUFFICES ASSUME invalid_line', NEW k \in DOMAIN rows', Set(k)'
               PROVE  rows'[k].num # last'
    BY DEF StaleInvalidLineOwnsNothing
  <2>1. CASE k = p
    BY <1>1, <1>2, <2>1 DEF CallFacts, Set
  <2>2. CASE k \in P /\ s.last \in FreshNumbers
    BY <1>2, <1>6, <2>2
  <2>3. CASE k \in P /\ s.last = last
    BY <1>1, <1>2, <1>5, <2>3 DEF CallFacts, TableInv, StaleInvalidLineOwnsNothing
  <2> QED BY <1>1, <2>1, <2>2, <2>3 DEF CallFacts
<1>13. ArmedOwned'
  <2> SUFFICES ASSUME NEW n \in Numbers, gdb'[n].st = "on"
               PROVE  \E i \in DOMAIN rows' : rows'[i].num = n /\ rows'[i].en
    BY DEF ArmedOwned
  <2>1. CASE g[n].st = "on"
    BY <2>1
  <2>2. CASE g[n].st # "on"
    <3>1. n = s.last
      BY <1>1, <1>2, <2>2 DEF CallFacts
    <3>2. s.row.num > 0
      BY <1>1, <1>2, <2>2, <3>1 DEF CallFacts, Dead
    <3>3. s.last \in FreshNumbers /\ Shown(s.gdb[s.last], s.row)
      BY <1>1, <1>2, <2>2, <3>1, <3>2 DEF CallFacts
    <3>4. s.row.en
      BY <1>2, <3>1, <3>3 DEF Shown
    <3> QED BY <1>1, <1>2, <3>1, <3>2, <3>4 DEF CallFacts
  <2> QED BY <2>1, <2>2
<1> QED BY <1>9, <1>10, <1>11, <1>12, <1>13 DEF TableInv, DeletedSoFar

(* Deleting in gdb the breakpoint a row owns: no other row owns it, and none *)
(* is left that only that row owned.                                         *)
LEMMA DeleteOwned ==
  ASSUME TypeOK, TableInv, NEW i \in DOMAIN rows
  PROVE  /\ \A k \in DOMAIN rows \ {i} :
              Sure(k) => Delete(gdb, rows[i].num)[rows[k].num] = gdb[rows[k].num]
         /\ \A m \in Numbers : Delete(gdb, rows[i].num)[m].st \in {"on", "off"} =>
              gdb[m].st \in {"on", "off"} /\ \E k \in DOMAIN rows \ {i} : rows[k].num = m
         /\ \A m \in Numbers : Delete(gdb, rows[i].num)[m].st = "on" =>
              \E k \in DOMAIN rows \ {i} : rows[k].num = m /\ rows[k].en
<1>1. \A k \in DOMAIN rows : Set(k) => rows[k].num \in Numbers
  BY RowsTypes, BoundsAssumption DEF Row, Set, Numbers, Unset
<1>2. \A m \in Numbers : m # rows[i].num => Delete(gdb, rows[i].num)[m] = gdb[m]
  BY DEF Delete
<1>3. \A m \in Numbers : m = rows[i].num => Delete(gdb, rows[i].num)[m] = Dead
  BY DEF Delete, TypeOK
<1>4. \A m \in Numbers : m > 0
  BY BoundsAssumption DEF Numbers
<1>5. ASSUME NEW k \in DOMAIN rows \ {i}, Sure(k) PROVE rows[k].num # rows[i].num
  BY <1>1, <1>5 DEF TableInv, NumbersDistinct, Set, Sure
<1>6. ASSUME NEW m \in Numbers, Delete(gdb, rows[i].num)[m].st \in {"on", "off"}
      PROVE  gdb[m].st \in {"on", "off"} /\ \E k \in DOMAIN rows \ {i} : rows[k].num = m
  <2>1. m # rows[i].num
    BY <1>3, <1>6 DEF Dead
  <2> QED BY <1>2, <1>6, <2>1 DEF TableInv, NoOrphans
<1>7. ASSUME NEW m \in Numbers, Delete(gdb, rows[i].num)[m].st = "on"
      PROVE  \E k \in DOMAIN rows \ {i} : rows[k].num = m /\ rows[k].en
  <2>1. m # rows[i].num
    BY <1>3, <1>7 DEF Dead
  <2> QED BY <1>2, <1>7, <2>1 DEF TableInv, ArmedOwned
<1> QED BY <1>1, <1>2, <1>5, <1>6, <1>7 DEF Sure

LEMMA TableKept ==
  ASSUME TypeOK, TableInv, UNCHANGED <<rows, gdb, last, invalid_line, mistaken>>,
         job' = job \/ job'.k # "delete" \/ job' = [k |-> "delete", i |-> 1]
  PROVE  TableInv'
<1>1. (NumbersExact /\ NumbersDistinct /\ NoOrphans /\ StaleInvalidLineOwnsNothing /\ ArmedOwned)'
  BY DEF TableInv, NumbersExact, NumbersDistinct, NoOrphans, StaleInvalidLineOwnsNothing,
         ArmedOwned, Set
<1>2. DeletedSoFar'
  <2>1. \A i \in DOMAIN rows : ~(i < 1)
    BY RowsTypes
  <2> QED BY <2>1 DEF TableInv, DeletedSoFar, Set
<1> QED BY <1>1, <1>2 DEF TableInv

LEMMA SetNextKeepsTable == TypeOK /\ TableInv /\ SetNext => TableInv'
<1> SUFFICES ASSUME TypeOK, TableInv, SetNext PROVE TableInv'
  OBVIOUS
<1>1. CASE UNCHANGED bpTable
  BY <1>1, TableKept DEF bpTable, SetNext, Idle, Start
<1>2. ASSUME job.i \in DOMAIN rows, NEW o \in Outcomes(rows[job.i]),
             Apply(SetBreakPoint(rows[job.i], gdb, o)),
             rows' = [rows EXCEPT ![job.i] = SetBreakPoint(rows[job.i], gdb, o).row],
             Start("set", job.i + 1)
      PROVE  TableInv'
  <2> DEFINE i == job.i
             r == rows[job.i]
  <2>1. r \in Row /\ gdb \in [Numbers -> GdbState]
    BY <1>2, RowsTypes DEF TypeOK
  <2>2. CASE r.num > 0
    <3>1. SetBreakPoint(r, gdb, o) = Untouched(r, gdb)
      BY <2>2 DEF SetBreakPoint, Refused
    <3>2. rows' = rows /\ UNCHANGED <<gdb, last, invalid_line, mistaken>>
      BY <1>2, <3>1, RowsTypes DEF Apply, Untouched, TypeOK
    <3> QED BY <1>2, <3>2, TableKept DEF Start
  <2>3. CASE ~(r.num > 0)
    <3> DEFINE P == DOMAIN rows \ {i}
    <3>1. P \in SUBSET DOMAIN rows /\ i \notin P /\ DOMAIN rows' = P \cup {i}
      BY <1>2
    <3>2. rows'[i] = SetBreakPoint(r, gdb, o).row /\ \A k \in P : rows'[k] = rows[k]
      BY <1>2
    <3>3. \A m \in Numbers : gdb[m].st \in {"on", "off"} => \E k \in P : rows[k].num = m
      <4>1. \A m \in Numbers : m > 0
        BY BoundsAssumption DEF Numbers
      <4> QED BY <2>3, <4>1 DEF TableInv, NoOrphans
    <3>4. \A m \in Numbers : gdb[m].st = "on" => \E k \in P : rows[k].num = m /\ rows[k].en
      <4>1. \A m \in Numbers : m > 0
        BY BoundsAssumption DEF Numbers
      <4> QED BY <2>3, <4>1 DEF TableInv, ArmedOwned
    <3>5. job'.k # "delete"
      BY <1>2 DEF Start
    <3> HIDE DEF P, i, r
    <3> QED BY <1>2, <2>1, <2>3, <3>1, <3>2, <3>3, <3>4, <3>5, StoreKeepsTable DEF r
  <2> QED BY <2>2, <2>3
<1> QED BY <1>1, <1>2 DEF SetNext

LEMMA AddBreakPointKeepsTable ==
  ASSUME TypeOK, TableInv, job = Idle, NEW r \in Row, r.num = Unset, AddBreakPoint(r)
  PROVE  TableInv'
<1>1. rows \in Seq(Row) /\ Len(rows) \in Nat /\ DOMAIN rows = 1..Len(rows)
  BY RowsTypes DEF TypeOK
<1> DEFINE p == Len(rows) + 1
<1>2. p \notin DOMAIN rows
  BY <1>1
<1>3. \A x \in Row : /\ DOMAIN Append(rows, x) = DOMAIN rows \cup {p}
                     /\ Append(rows, x)[p] = x
                     /\ \A k \in DOMAIN rows : Append(rows, x)[k] = rows[k]
  BY <1>1
<1> HIDE DEF p
<1>4. ~(r.num > 0)
  BY DEF Unset
<1>5. ASSUME NEW o \in Outcomes(r), Apply(SetBreakPoint(r, gdb, o)),
             rows' = Append(rows, SetBreakPoint(r, gdb, o).row)
      PROVE  TableInv'
  <2>1. gdb \in [Numbers -> GdbState]
    BY DEF TypeOK
  <2>2. SetBreakPoint(r, gdb, o).row \in Row
    BY <2>1, SetBreakPointTypes DEF Call
  <2>3. /\ DOMAIN rows' = DOMAIN rows \cup {p} /\ rows'[p] = SetBreakPoint(r, gdb, o).row
        /\ \A k \in DOMAIN rows : rows'[k] = rows[k]
    BY <1>3, <1>5, <2>2
  <2>4. \A m \in Numbers : gdb[m].st \in {"on", "off"} => \E k \in DOMAIN rows : rows[k].num = m
    BY DEF TableInv, NoOrphans
  <2>5. \A m \in Numbers : gdb[m].st = "on" => \E k \in DOMAIN rows : rows[k].num = m /\ rows[k].en
    BY DEF TableInv, ArmedOwned
  <2>6. job'.k # "delete"
    BY DEF AddBreakPoint, Idle
  <2> QED BY <1>2, <1>4, <1>5, <2>1, <2>3, <2>4, <2>5, <2>6, StoreKeepsTable, SMTT(30)
<1>6. CASE rows' = Append(rows, r)
           /\ UNCHANGED <<gdb, last, lastLine, invalid_line, hw_break_point_count, mistaken>>
  <2>1. /\ DOMAIN rows' = DOMAIN rows \cup {p} /\ rows'[p] = r
        /\ \A k \in DOMAIN rows : rows'[k] = rows[k]
    BY <1>3, <1>6
  <2>2. DeletedSoFar'
    BY DEF AddBreakPoint, Idle, DeletedSoFar
  <2> QED BY <1>4, <1>6, <2>1, <2>2 DEF TableInv, NumbersExact, NumbersDistinct, NoOrphans,
                                  StaleInvalidLineOwnsNothing, ArmedOwned, Set
<1> QED BY <1>5, <1>6 DEF AddBreakPoint

LEMMA EditBreakPointKeepsTable ==
  ASSUME TypeOK, TableInv, job = Idle, NEW i \in DOMAIN rows, NEW fn \in BOOLEAN,
         NEW line \in Position, EditBreakPoint(i, fn, line)
  PROVE  TableInv'
<1> DEFINE r == [rows[i] EXCEPT !.fn = fn, !.line = line,
                                !.num = IF rows[i].num > 0 THEN Unset ELSE rows[i].num]
           g == Delete(gdb, rows[i].num)
           P == DOMAIN rows \ {i}
<1>1. r \in Row /\ ~(r.num > 0)
  <2>1. rows[i] \in Row
    BY RowsTypes
  <2>2. r \in Row /\ r.num = IF rows[i].num > 0 THEN Unset ELSE rows[i].num
    BY <2>1 DEF Row
  <2> QED BY <2>2 DEF Unset
<1>2. g \in [Numbers -> GdbState]
  BY DeleteType DEF TypeOK
<1>3. /\ \A k \in P : Sure(k) => g[rows[k].num] = gdb[rows[k].num]
      /\ \A m \in Numbers : g[m].st \in {"on", "off"} => \E k \in P : rows[k].num = m
      /\ \A m \in Numbers : g[m].st = "on" => \E k \in P : rows[k].num = m /\ rows[k].en
  BY DeleteOwned
<1>4. \/ \E o \in Outcomes(r) : Apply(SetBreakPoint(r, g, o))
                                /\ rows' = [rows EXCEPT ![i] = SetBreakPoint(r, g, o).row]
      \/ /\ gdb' = g /\ rows' = [rows EXCEPT ![i] = r]
         /\ UNCHANGED <<last, lastLine, invalid_line, hw_break_point_count, mistaken>>
  BY DEF EditBreakPoint, Edited
<1>5. P \in SUBSET DOMAIN rows /\ i \notin P /\ DOMAIN rows = P \cup {i}
  OBVIOUS
<1>8. job'.k # "delete"
  BY DEF EditBreakPoint, Idle
<1> HIDE DEF r, g
<1>6. ASSUME NEW o \in Outcomes(r), Apply(SetBreakPoint(r, g, o)),
             rows' = [rows EXCEPT ![i] = SetBreakPoint(r, g, o).row]
      PROVE  TableInv'
  <2>1. /\ DOMAIN rows' = P \cup {i} /\ rows'[i] = SetBreakPoint(r, g, o).row
        /\ \A k \in P : rows'[k] = rows[k]
    BY <1>6
  <2> HIDE DEF P
  <2> QED BY <1>1, <1>2, <1>3, <1>5, <1>6, <1>8, <2>1, StoreKeepsTable
<1>7. CASE /\ gdb' = g /\ rows' = [rows EXCEPT ![i] = r]
           /\ UNCHANGED <<last, lastLine, invalid_line, hw_break_point_count, mistaken>>
  <2>1. DOMAIN rows' = P \cup {i} /\ rows'[i] = r /\ \A k \in P : rows'[k] = rows[k]
    BY <1>7
  <2> HIDE DEF P
  <2>2. NumbersExact' /\ NumbersDistinct'
    BY <1>1, <1>3, <1>5, <1>7, <2>1 DEF TableInv, NumbersExact, NumbersDistinct, Set, Sure
  <2>3. NoOrphans' /\ ArmedOwned'
    BY <1>3, <1>7, <2>1 DEF NoOrphans, ArmedOwned
  <2>4. StaleInvalidLineOwnsNothing' /\ DeletedSoFar'
    BY <1>1, <1>5, <1>7, <1>8, <2>1 DEF TableInv, StaleInvalidLineOwnsNothing, DeletedSoFar, Set
  <2> QED BY <2>2, <2>3, <2>4 DEF TableInv
<1> QED BY <1>4, <1>6, <1>7

LEMMA SwitchBreakKeepsTable ==
  ASSUME TypeOK, TableInv, job = Idle, NEW i \in DOMAIN rows, SwitchBreak(i)
  PROVE  TableInv'
<1>1. PICK e \in BOOLEAN :
        /\ rows' = [rows EXCEPT ![i].en = e]
        /\ gdb' = Switch(gdb, rows[i].num, IF e THEN "on" ELSE "off")
        /\ UNCHANGED <<last, invalid_line, job, mistaken>>
  BY DEF SwitchBreak, DisableBreakPoint, EnableBreakPoint
<1>2. \A k \in DOMAIN rows : rows[k] \in Row
  BY RowsTypes
<1>3. \A k \in DOMAIN rows : Set(k) => rows[k].num \in Numbers
  BY <1>2, BoundsAssumption DEF Row, Set, Numbers, Unset
<1>4. /\ DOMAIN rows' = DOMAIN rows
      /\ \A k \in DOMAIN rows : k # i => rows'[k] = rows[k]
      /\ rows'[i] = [rows[i] EXCEPT !.en = e]
  BY <1>1, RowsTypes
<1>5. rows'[i].num = rows[i].num /\ rows'[i].line = rows[i].line /\ rows'[i].en = e
      /\ rows'[i].fn = rows[i].fn
  BY <1>2, <1>4 DEF Row
<1>6. \A k \in DOMAIN rows : rows'[k].num = rows[k].num /\ (Set(k)' <=> Set(k))
  BY <1>4, <1>5 DEF Set
<1>7. \A m \in Numbers : m # rows[i].num => gdb'[m] = gdb[m]
  BY <1>1 DEF Switch, TypeOK
<1>8. Sure(i) => Shown(gdb'[rows[i].num], rows'[i])
  <2> SUFFICES ASSUME Sure(i) PROVE Shown(gdb'[rows[i].num], rows'[i])
    OBVIOUS
  <2> DEFINE n == rows[i].num
  <2>1. n \in Numbers /\ Shown(gdb[n], rows[i])
    BY <1>3 DEF TableInv, NumbersExact, Sure
  <2>2. gdb[n] \in GdbState /\ gdb[n].st \in {"on", "off"}
    BY <2>1 DEF Shown, TypeOK
  <2>3. gdb'[n].st = (IF e THEN "on" ELSE "off") /\ gdb'[n].line = gdb[n].line
    BY <1>1, <2>1, <2>2 DEF Switch, TypeOK, GdbState
  <2> QED BY <1>5, <2>1, <2>3 DEF Shown
<1>9. NumbersExact'
  <2> SUFFICES ASSUME NEW k \in DOMAIN rows, Sure(k)
               PROVE  Shown(gdb'[rows[k].num], rows'[k])
    BY <1>1, <1>4, <1>6 DEF NumbersExact, Sure
  <2>1. CASE k = i
    BY <1>8, <2>1
  <2>2. CASE k # i
    <3>1. rows[k].num # rows[i].num
      BY <1>3, <2>2 DEF TableInv, NumbersDistinct, Set, Sure
    <3> QED BY <1>3, <1>4, <1>7, <2>2, <3>1 DEF TableInv, NumbersExact, Sure
  <2> QED BY <2>1, <2>2
<1>10. NumbersDistinct' /\ StaleInvalidLineOwnsNothing'
  BY <1>1, <1>4, <1>6 DEF TableInv, NumbersDistinct, StaleInvalidLineOwnsNothing
<1>11. NoOrphans'
  <2> SUFFICES ASSUME NEW n \in Numbers, gdb'[n].st \in {"on", "off"}
               PROVE  \E k \in DOMAIN rows : rows[k].num = n
    BY <1>4, <1>6 DEF NoOrphans
  <2> QED BY <1>7 DEF TableInv, NoOrphans
<1>12. ArmedOwned'
  <2> SUFFICES ASSUME NEW n \in Numbers, gdb'[n].st = "on"
               PROVE  \E k \in DOMAIN rows' : rows'[k].num = n /\ rows'[k].en
    BY DEF ArmedOwned
  <2>1. CASE n = rows[i].num
    <3>1. e \/ gdb[n].st # "on"
      BY <1>1, <2>1 DEF Switch, TypeOK, GdbState
    <3>2. e
      BY <1>1, <2>1, <3>1 DEF Switch, TypeOK, GdbState
    <3> QED BY <1>4, <1>5, <2>1, <3>2
  <2>2. CASE n # rows[i].num
    <3>1. PICK k \in DOMAIN rows : rows[k].num = n /\ rows[k].en
      BY <1>7, <2>2 DEF TableInv, ArmedOwned
    <3> QED BY <1>4, <2>2, <3>1
  <2> QED BY <2>1, <2>2
<1>13. DeletedSoFar'
  BY <1>1 DEF Idle, DeletedSoFar
<1> QED BY <1>9, <1>10, <1>11, <1>12, <1>13 DEF TableInv

LEMMA RemoveBreakPointKeepsTable ==
  ASSUME TypeOK, TableInv, NEW i \in DOMAIN rows, RemoveBreakPoint(i), job'.k # "delete"
  PROVE  TableInv'
<1> DEFINE from(k) == IF k < i THEN k ELSE k + 1
<1>1. rows \in Seq(Row) /\ Len(rows) \in Nat /\ DOMAIN rows = 1..Len(rows)
  BY RowsTypes DEF TypeOK
<1>2. /\ rows' = RemoveAt(rows, i)
      /\ rows' \in Seq(Row) /\ Len(rows') = Len(rows) - 1
      /\ \A k \in 1..Len(rows) - 1 : rows'[k] = IF k < i THEN rows[k] ELSE rows[k + 1]
  BY <1>1, RemoveAtProperties DEF RemoveBreakPoint
<1>3. DOMAIN rows' = 1..Len(rows) - 1
  BY <1>2, LenProperties
<1>4. \A k \in DOMAIN rows' : from(k) \in DOMAIN rows \ {i} /\ rows'[k] = rows[from(k)]
  BY <1>1, <1>2, <1>3
<1>5. \A k \in DOMAIN rows \ {i} : \E j \in DOMAIN rows' : from(j) = k
  <2> TAKE k \in DOMAIN rows \ {i}
  <2>1. CASE k < i
    BY <1>1, <1>3, <2>1
  <2>2. CASE k > i
    <3>1. k - 1 \in DOMAIN rows' /\ from(k - 1) = k
      BY <1>1, <1>3, <2>2
    <3> QED BY <3>1
  <2> QED BY <1>1, <2>1, <2>2
<1>6. \A j, k \in DOMAIN rows' : from(j) = from(k) => j = k
  BY <1>1, <1>3
<1> HIDE DEF from
<1>7. gdb' = Delete(gdb, rows[i].num) /\ UNCHANGED <<last, invalid_line, mistaken>>
  BY DEF RemoveBreakPoint
<1>8. \A k \in DOMAIN rows' : (Set(k)' <=> Set(from(k))) /\ (Sure(k)' <=> Sure(from(k)))
  BY <1>4, <1>7 DEF Set, Sure
<1>9. NumbersExact'
  <2> SUFFICES ASSUME NEW k \in DOMAIN rows', Sure(k)'
               PROVE  Shown(gdb'[rows'[k].num], rows'[k])
    BY DEF NumbersExact, Sure
  <2>1. gdb'[rows'[k].num] = gdb[rows[from(k)].num]
    BY <1>4, <1>7, <1>8, DeleteOwned
  <2> QED BY <1>4, <1>8, <2>1 DEF TableInv, NumbersExact, Sure
<1>10. NumbersDistinct'
  BY <1>4, <1>6, <1>7, <1>8 DEF TableInv, NumbersDistinct
<1>11. NoOrphans'
  <2> SUFFICES ASSUME NEW n \in Numbers, gdb'[n].st \in {"on", "off"}
               PROVE  \E k \in DOMAIN rows' : rows'[k].num = n
    BY DEF NoOrphans
  <2>1. PICK k \in DOMAIN rows \ {i} : rows[k].num = n
    BY <1>7, DeleteOwned
  <2>2. PICK j \in DOMAIN rows' : from(j) = k
    BY <1>5
  <2> QED BY <1>4, <2>1, <2>2
<1>12. StaleInvalidLineOwnsNothing'
  BY <1>4, <1>7, <1>8 DEF TableInv, StaleInvalidLineOwnsNothing
<1>13. ArmedOwned'
  <2> SUFFICES ASSUME NEW n \in Numbers, gdb'[n].st = "on"
               PROVE  \E k \in DOMAIN rows' : rows'[k].num = n /\ rows'[k].en
    BY DEF ArmedOwned
  <2>1. PICK k \in DOMAIN rows \ {i} : rows[k].num = n /\ rows[k].en
    BY <1>7, DeleteOwned
  <2>2. PICK j \in DOMAIN rows' : from(j) = k
    BY <1>5
  <2> QED BY <1>4, <2>1, <2>2
<1> QED BY <1>9, <1>10, <1>11, <1>12, <1>13 DEF TableInv, DeletedSoFar

LEMMA DeleteNextKeepsTable == TypeOK /\ TableInv /\ DeleteNext => TableInv'
<1> SUFFICES ASSUME TypeOK, TableInv, DeleteNext PROVE TableInv'
  OBVIOUS
<1>1. UNCHANGED <<last, invalid_line>> /\ job.k = "delete"
  BY DEF DeleteNext
<1>2. CASE job.i \notin DOMAIN rows /\ job' = Idle /\ mistaken' = {} /\ UNCHANGED <<rows, gdb>>
  <2>1. \A k \in DOMAIN rows : ~Set(k)
    <3>1. job \in Job /\ job.i > 0
      BY <1>1 DEF TableInv, DeletedSoFar, TypeOK
    <3>2. \A k \in DOMAIN rows : k < job.i
      BY <1>2, <3>1, RowsTypes, BoundsAssumption DEF Job
    <3> QED BY <1>1, <3>2 DEF TableInv, DeletedSoFar
  <2>2. NoOrphans' /\ ArmedOwned'
    BY <1>2 DEF TableInv, NoOrphans, ArmedOwned
  <2> QED BY <1>2, <2>1, <2>2 DEF TableInv, NumbersExact, NumbersDistinct,
             StaleInvalidLineOwnsNothing, DeletedSoFar, Idle, Set
<1>3. CASE job.i \in DOMAIN rows /\ gdb' = Delete(gdb, rows[job.i].num)
           /\ rows' = [rows EXCEPT ![job.i].num = Unset]
           /\ Start("delete", job.i + 1) /\ UNCHANGED mistaken
  <2> PICK i \in DOMAIN rows : i = job.i /\ gdb' = Delete(gdb, rows[i].num)
                              /\ rows' = [rows EXCEPT ![i].num = Unset]
    BY <1>3
  <2> DEFINE P == DOMAIN rows \ {i}
  <2>1. rows'[i].num = Unset /\ ~Set(i)'
    <3>1. rows[i] \in Row /\ rows'[i] = [rows[i] EXCEPT !.num = Unset]
      BY RowsTypes
    <3>2. rows'[i].num = Unset
      BY <3>1 DEF Row
    <3> QED BY <3>2 DEF Set, Unset
  <2>2. DOMAIN rows' = P \cup {i} /\ \A k \in P : rows'[k] = rows[k] /\ (Set(k)' <=> Set(k))
    BY DEF Set
  <2>3. /\ \A k \in P : Sure(k) => gdb'[rows[k].num] = gdb[rows[k].num]
        /\ \A m \in Numbers : gdb'[m].st \in {"on", "off"} => \E k \in P : rows[k].num = m
        /\ \A m \in Numbers : gdb'[m].st = "on" => \E k \in P : rows[k].num = m /\ rows[k].en
    BY DeleteOwned
  <2>4. P \subseteq DOMAIN rows
    OBVIOUS
  <2>5. DeletedSoFar'
    <3>1. job'.i = i + 1 /\ i \in Nat /\ DOMAIN rows = 1..Len(rows) /\ Len(rows) \in Nat
      BY <1>3, RowsTypes DEF Start
    <3>2. \A k \in P : k < i => ~Set(k)
      BY <1>1 DEF TableInv, DeletedSoFar
    <3>3. \A k \in DOMAIN rows' : k < job'.i => k < i \/ k = i
      BY <2>2, <3>1
    <3> QED BY <2>1, <2>2, <3>1, <3>2, <3>3 DEF DeletedSoFar
  <2> HIDE DEF P
  <2>6. \A k \in DOMAIN rows' : Set(k)' => k \in P /\ k \in DOMAIN rows /\ Set(k) /\ rows'[k] = rows[k]
    BY <2>1, <2>2, <2>4
  <2>7. NumbersExact'
    <3> SUFFICES ASSUME NEW k \in DOMAIN rows', Sure(k)'
                 PROVE  Shown(gdb'[rows'[k].num], rows'[k])
      BY DEF NumbersExact, Sure
    <3>1. Sure(k) /\ k \in P /\ k \in DOMAIN rows /\ rows'[k] = rows[k]
      BY <1>3, <2>6 DEF Sure
    <3>2. Shown(gdb[rows[k].num], rows[k])
      BY <3>1 DEF TableInv, NumbersExact, Sure
    <3> QED BY <2>3, <3>1, <3>2
  <2>8. NumbersDistinct'
    <3> SUFFICES ASSUME NEW k \in DOMAIN rows', NEW j \in DOMAIN rows', Set(k)', Set(j)',
                        rows'[k].num = rows'[j].num
                 PROVE  k = j \/ rows'[k].num \in mistaken'
      BY DEF NumbersDistinct
    <3>1. /\ k \in DOMAIN rows /\ Set(k) /\ rows'[k] = rows[k]
          /\ j \in DOMAIN rows /\ Set(j) /\ rows'[j] = rows[j]
      BY <2>6
    <3> QED BY <1>3, <3>1 DEF TableInv, NumbersDistinct
  <2>9. NoOrphans' /\ ArmedOwned'
    <3>1. \A k \in P : k \in DOMAIN rows' /\ rows'[k] = rows[k]
      BY <2>2
    <3>2. NoOrphans'
      <4> SUFFICES ASSUME NEW n \in Numbers, gdb'[n].st \in {"on", "off"}
                   PROVE  \E k \in DOMAIN rows' : rows'[k].num = n
        BY DEF NoOrphans
      <4>1. PICK k \in P : rows[k].num = n
        BY <2>3
      <4> QED BY <3>1, <4>1
    <3>3. ArmedOwned'
      <4> SUFFICES ASSUME NEW n \in Numbers, gdb'[n].st = "on"
                   PROVE  \E k \in DOMAIN rows' : rows'[k].num = n /\ rows'[k].en
        BY DEF ArmedOwned
      <4>1. PICK k \in P : rows[k].num = n /\ rows[k].en
        BY <2>3
      <4> QED BY <3>1, <4>1
    <3> QED BY <3>2, <3>3
  <2>10. StaleInvalidLineOwnsNothing'
    BY <1>1, <2>6 DEF TableInv, StaleInvalidLineOwnsNothing
  <2> QED BY <2>5, <2>7, <2>8, <2>9, <2>10 DEF TableInv
<1> QED BY <1>2, <1>3 DEF DeleteNext

LEMMA RemoveNextKeepsTable == TypeInv /\ TableInv /\ RemoveNext => TableInv'
<1> SUFFICES ASSUME TypeInv, TableInv, RemoveNext PROVE TableInv'
  OBVIOUS
<1>1. CASE job.i > 0 /\ RemoveBreakPoint(job.i) /\ Start("remove", job.i - 1)
  <2>1. job.i \in DOMAIN rows
    <3>1. job \in Job /\ job.k = "remove" /\ job.i <= Len(rows) /\ Len(rows) \in Nat
      BY RowsTypes DEF TypeInv, TypeOK, RemovalInTable, RemoveNext
    <3>2. job.i \in Nat
      BY <3>1, BoundsAssumption DEF Job
    <3>3. DOMAIN rows = 1..Len(rows)
      BY RowsTypes DEF TypeInv
    <3> QED BY <1>1, <3>1, <3>2, <3>3
  <2> QED BY <1>1, <2>1, RemoveBreakPointKeepsTable DEF TypeInv, Start
<1>2. CASE job' = Idle /\ UNCHANGED bpTable
  BY <1>2, TableKept DEF bpTable, Idle, TypeInv
<1> QED BY <1>1, <1>2 DEF RemoveNext

LEMMA OperationKeepsTable == TypeOK /\ TableInv /\ job = Idle /\ Operation => TableInv'
<1> SUFFICES ASSUME TypeOK, TableInv, job = Idle, Operation PROVE TableInv'
  OBVIOUS
<1>1. ASSUME NEW r \in Row, r.num = Unset, AddBreakPoint(r) PROVE TableInv'
  BY <1>1, AddBreakPointKeepsTable
<1>2. ASSUME NEW i \in DOMAIN rows, RemoveOne(i) PROVE TableInv'
  BY <1>2, RemoveBreakPointKeepsTable DEF RemoveOne, Idle
<1>3. ASSUME NEW i \in DOMAIN rows, SwitchBreak(i) PROVE TableInv'
  BY <1>3, SwitchBreakKeepsTable
<1>4. ASSUME NEW i \in DOMAIN rows, NEW fn \in BOOLEAN, NEW line \in Position,
             EditBreakPoint(i, fn, line)
      PROVE  TableInv'
  BY <1>4, EditBreakPointKeepsTable
<1> QED BY <1>1, <1>2, <1>3, <1>4 DEF Operation

LEMMA TableInvInit == BpInit => TableInv
<1> SUFFICES ASSUME BpInit PROVE TableInv
  OBVIOUS
<1>1. DOMAIN rows = {} /\ ~invalid_line /\ job.k = "idle"
  BY DEF BpInit, Idle
<1>2. \A n \in Numbers : gdb[n].st = "none"
  BY DEF BpInit, Dead
<1> QED BY <1>1, <1>2 DEF TableInv, NumbersExact, NumbersDistinct, NoOrphans,
                          StaleInvalidLineOwnsNothing, ArmedOwned, DeletedSoFar

(* The debugger's own actions on the table, taken when no walk is in progress *)
DebuggerAction ==
  DeleteBreakPoints \/ DeleteAllBreakPoints \/ InitNoProgram \/ InitNoSymbols
  \/ InitLoaded \/ ClearSymbols

LEMMA DebuggerActionKeepsTable ==
  ASSUME TypeOK, TableInv, DebuggerAction
  PROVE  TableInv'
<1>1. UNCHANGED <<rows, gdb, last, invalid_line, mistaken>>
  BY DEF DebuggerAction, DeleteBreakPoints, DeleteAllBreakPoints, InitNoProgram, InitNoSymbols,
         InitLoaded, ClearSymbols, bpTable
<1>2. job' = job \/ job'.k # "delete" \/ job' = [k |-> "delete", i |-> 1]
  BY DEF DebuggerAction, DeleteBreakPoints, DeleteAllBreakPoints, InitNoProgram, InitNoSymbols,
         InitLoaded, ClearSymbols, Start
<1> QED BY <1>1, <1>2, TableKept

LEMMA TableInvNext == TypeInv /\ TableInv /\ [BpNext]_bpVars => TableInv'
<1> SUFFICES ASSUME TypeInv, TableInv, [BpNext]_bpVars PROVE TableInv'
  OBVIOUS
<1> USE DEF TypeInv
<1>1. CASE TableWalk
  BY <1>1, SetNextKeepsTable, DeleteNextKeepsTable, RemoveNextKeepsTable DEF TableWalk
<1>2. CASE job = Idle /\ UserCommand
  BY <1>2, UserCommandIsOperation, OperationKeepsTable
<1>3. CASE DebuggerAction
  BY <1>3, DebuggerActionKeepsTable
<1>4. CASE UNCHANGED bpVars
  BY <1>4, TableKept DEF bpVars
<1> QED BY <1>1, <1>2, <1>3, <1>4 DEF BpNext, DebuggerAction

LEMMA TableCorrect == BpSpec => [](TypeInv /\ TableInv)
<1>1. BpInit => TypeInv /\ TableInv
  BY TypeInvInit, TableInvInit
<1>2. TypeInv /\ TableInv /\ [BpNext]_bpVars => (TypeInv /\ TableInv)'
  BY TypeInvNext, TableInvNext
<1> QED BY <1>1, <1>2, PTL DEF BpSpec

(* A row that carries a number is the gdb breakpoint at its line and in its  *)
(* state, whatever the user does, whatever gdb answers and however many rows *)
(* and lines there are; the only numbers that may be wrong are those that    *)
(* were the last one when gdb refused a "break" and librhgdb did not see it. *)
THEOREM RowsAreGdbBreakpoints == BpSpec => []NumbersExact
<1>1. TypeInv /\ TableInv => NumbersExact
  BY DEF TableInv
<1> QED BY <1>1, TableCorrect, PTL

(* ... no two rows share a gdb breakpoint outside those numbers, so deleting, *)
(* editing or disabling a row never touches the breakpoint of another.       *)
THEOREM RowsAreSeparate == BpSpec => []NumbersDistinct
<1>1. TypeInv /\ TableInv => NumbersDistinct
  BY DEF TableInv
<1> QED BY <1>1, TableCorrect, PTL

(* ... and the "delete" issued because of an invalid_line left over from an  *)
(* earlier command never hits a breakpoint that a row owns, not even one of  *)
(* a number that was mistaken.                                               *)
THEOREM StaleDeleteIsHarmless == BpSpec => []StaleInvalidLineOwnsNothing
<1>1. TypeInv /\ TableInv => StaleInvalidLineOwnsNothing
  BY DEF TableInv
<1> QED BY <1>1, TableCorrect, PTL

(* gdb holds no breakpoint the user cannot see in the table, whatever gdb    *)
(* answers: each "break" it moved is followed by the "delete" that takes it  *)
(* back, every removal and edit deletes what the row owned, and a "break"    *)
(* that is wrongly taken for obeyed has made nothing.                        *)
THEOREM GdbHoldsNoOthers == BpSpec => []NoOrphans
<1>1. TypeInv /\ TableInv => NoOrphans
  BY DEF TableInv
<1> QED BY <1>1, TableCorrect, PTL

=============================================================================
