------------------------- MODULE BreakpointsHw_proofs -------------------------
(***************************************************************************)
(* Proofs about hw_break_point_count, the counter that keeps gdb within    *)
(* the three hardware breakpoints Windows 3.1x leaves: under the careful   *)
(* commands the limit holds for any table and any answers of gdb, and the  *)
(* counter is exact until a refused "break" is taken for obeyed.           *)
(***************************************************************************)
EXTENDS Breakpoints_proofs, FiniteSetTheorems, FunctionTheorems

ArmedRows == {i \in DOMAIN rows : Set(i) /\ rows[i].en}

(* The counter never falls short of the armed rows, and is ahead of them only *)
(* for a "break" that was refused before any breakpoint was made.            *)
Counted ==
  /\ Cardinality(ArmedRows) <= hw_break_point_count /\ hw_break_point_count <= HwSlots
  /\ 0 \notin mistaken => hw_break_point_count = Cardinality(ArmedRows)

(* While a walk of DeleteBreakPoints is under way the counter is already 0   *)
(* and runs behind the rows; a walk of DeleteAllBreakPoints meets no row     *)
(* that the counter has lost.                                                *)
CountedInv ==
  /\ Cardinality(ArmedRows) <= HwSlots
  /\ job.k # "delete" => Counted
  /\ job.k = "delete" =>
       /\ hw_break_point_count = 0 /\ job.i >= 1
       /\ \A j \in DOMAIN rows : j < job.i => ~Set(j)
  /\ job.k = "remove" => \A i \in DOMAIN rows : SlotKept(i)

(* The rows are finitely many, so their armed ones can be counted.           *)
LEMMA ArmedRowsFinite ==
  ASSUME TypeOK
  PROVE  IsFiniteSet(ArmedRows) /\ Cardinality(ArmedRows) \in Nat
<1>1. IsFiniteSet(DOMAIN rows)
  <2>1. DOMAIN rows = 1..Len(rows) /\ Len(rows) \in Int /\ 1 \in Int
    BY RowsTypes
  <2> QED BY <2>1, FS_Interval
<1>2. IsFiniteSet(ArmedRows)
  BY <1>1, FS_Subset DEF ArmedRows
<1> QED BY <1>2, FS_CardinalityType

(* What a call of SetBreakPoint does to the counter: it counts a row up when *)
(* it arms it, which it does only while there is room.                       *)
LEMMA CallCounts ==
  ASSUME HwLimited, TypeOK, NEW r \in Row, NEW g \in [Numbers -> GdbState],
         NEW o \in Outcomes(r), NEW s, s = SetBreakPoint(r, g, o)
  PROVE  /\ s.row \in Row /\ s.row.en = r.en
         /\ r.num > 0 => s.row = r /\ s.hw = hw_break_point_count
         /\ ~(r.num > 0) /\ s.row.num > 0 /\ r.en =>
              s.hw = hw_break_point_count + 1 /\ hw_break_point_count < HwSlots
         /\ ~(r.num > 0) /\ ~(s.row.num > 0 /\ r.en) =>
              \/ s.hw = hw_break_point_count
              \/ /\ 0 \in s.mistaken
                 /\ s.hw = hw_break_point_count + 1 /\ hw_break_point_count < HwSlots
         /\ 0 \in mistaken => 0 \in s.mistaken
<1> DEFINE c == Created(r, g, o)
<1>1. s.row \in Row
  BY SetBreakPointTypes DEF Call
<1>2. c \in Call /\ o \in Outcome /\ (o.made => NewNumber \in Numbers)
  BY CreatedType, OutcomeProperties, NewNumberFresh DEF FreshNumbers
<1>3. c.row = r /\ c.hw = hw_break_point_count
  BY DEF Created, Untouched
<1>4. ~(Unset > 0)
  BY DEF Unset
<1>9. 0 \in mistaken => 0 \in s.mistaken
  <2>1. 0 \notin FreshNumbers
    BY BoundsAssumption DEF FreshNumbers, Numbers
  <2>2. CASE r.num > 0
    BY <2>2 DEF SetBreakPoint, Untouched
  <2>3. CASE ~(r.num > 0)
    BY <2>1, <2>3, SetBreakPointFacts DEF CallFacts
  <2> QED BY <2>2, <2>3
<1>5. CASE r.num > 0
  BY <1>1, <1>5, <1>9 DEF SetBreakPoint, Untouched
<1>6. CASE ~(r.num > 0) /\ ~break_available
  <2>1. s.row = [r EXCEPT !.num = Unset] /\ s.hw = hw_break_point_count
    BY <1>6 DEF SetBreakPoint, Untouched
  <2>2. s.row.num = Unset /\ s.row.en = r.en
    BY <2>1 DEF Row
  <2> QED BY <1>1, <1>4, <1>6, <1>9, <2>1, <2>2
<1> HIDE DEF c
<1>7. CASE ~(r.num > 0) /\ break_available /\ Refused(c, o)
  <2>1. s = Rejected(r, c)
    BY <1>7 DEF SetBreakPoint, c
  <2>2. s.row = [r EXCEPT !.num = Unset] /\ s.hw = hw_break_point_count
    BY <1>2, <1>3, <2>1 DEF Rejected, Call
  <2>3. s.row.num = Unset /\ s.row.en = r.en
    BY <2>2 DEF Row
  <2> QED BY <1>1, <1>4, <1>7, <1>9, <2>2, <2>3
<1>8. CASE ~(r.num > 0) /\ break_available /\ ~Refused(c, o)
  <2>1. s = Accepted(r, c)
    BY <1>8 DEF SetBreakPoint, c
  <2>2. s.row.num = c.last /\ s.row.en = r.en /\ c.last \in Numbers \cup {0}
    <3>1. Accepted(r, c).row.num = c.last /\ Accepted(r, c).row.en = r.en
      BY <1>2, AcceptedFields
    <3>2. c.last \in Numbers \cup {0}
      BY <1>2 DEF Call
    <3> QED BY <2>1, <3>1, <3>2
  <2>3. c.last = 0 => 0 \in s.mistaken
    <3>1. o.made => c.last \in Numbers /\ c.made
      BY <1>2 DEF c, Created, Untouched
    <3>2. ~o.made => ~c.made
      BY DEF c, Created, Untouched
    <3>3. ~c.made => Accepted(r, c).mistaken = c.mistaken \cup {c.last}
      BY <1>2, AcceptedFields
    <3> QED BY <2>1, <3>1, <3>2, <3>3, BoundsAssumption DEF Numbers
  <2>4. s.hw = IF r.en \/ c.last = 0 THEN hw_break_point_count + 1 ELSE hw_break_point_count
    BY <1>2, <2>1 DEF Accepted, Call, Count
  <2>5. hw_break_point_count < HwSlots
    BY <1>8 DEF break_available
  <2>6. c.last > 0 <=> c.last # 0
    BY <2>2, BoundsAssumption DEF Numbers
  <2> QED BY <1>1, <1>8, <1>9, <2>2, <2>3, <2>4, <2>5, <2>6
<1> QED BY <1>5, <1>6, <1>7, <1>8

(* Storing the row of a call keeps the rows counted.                         *)
LEMMA StoreCounts ==
  ASSUME HwLimited, TypeOK, Counted,
         NEW r \in Row, NEW g \in [Numbers -> GdbState], NEW o \in Outcomes(r),
         Apply(SetBreakPoint(r, g, o)),
         NEW p, p \in ArmedRows <=> r.num > 0 /\ r.en,
         DOMAIN rows' = DOMAIN rows \cup {p},
         rows'[p] = SetBreakPoint(r, g, o).row,
         \A k \in DOMAIN rows \ {p} : rows'[k] = rows[k]
  PROVE  Counted'
<1> DEFINE s == SetBreakPoint(r, g, o)
<1>1. /\ s.row \in Row /\ s.row.en = r.en
      /\ r.num > 0 => s.row = r /\ s.hw = hw_break_point_count
      /\ ~(r.num > 0) /\ s.row.num > 0 /\ r.en =>
           s.hw = hw_break_point_count + 1 /\ hw_break_point_count < HwSlots
      /\ ~(r.num > 0) /\ ~(s.row.num > 0 /\ r.en) =>
           \/ s.hw = hw_break_point_count
           \/ /\ 0 \in s.mistaken
              /\ s.hw = hw_break_point_count + 1 /\ hw_break_point_count < HwSlots
      /\ 0 \in mistaken => 0 \in s.mistaken
  BY CallCounts
<1>2. hw_break_point_count' = s.hw /\ rows'[p] = s.row /\ mistaken' = s.mistaken
  BY DEF Apply
<1> HIDE DEF s
<1>3. \A k \in DOMAIN rows \ {p} : k \in ArmedRows' <=> k \in ArmedRows
  BY DEF ArmedRows, Set
<1>4. p \in ArmedRows' <=> s.row.num > 0 /\ r.en
  BY <1>1, <1>2 DEF ArmedRows, Set
<1>5. ArmedRows \subseteq DOMAIN rows /\ ArmedRows' \subseteq DOMAIN rows \cup {p}
  BY DEF ArmedRows
<1>6. IsFiniteSet(ArmedRows) /\ Cardinality(ArmedRows) \in Nat /\ hw_break_point_count \in Int
  BY ArmedRowsFinite DEF TypeOK
<1>7. CASE p \in ArmedRows <=> p \in ArmedRows'
  <2>1. ArmedRows' = ArmedRows
    BY <1>3, <1>5, <1>7
  <2>2. Cardinality(ArmedRows') = Cardinality(ArmedRows)
    BY <2>1
  <2>3. \/ s.hw = hw_break_point_count
        \/ /\ 0 \in s.mistaken
           /\ s.hw = hw_break_point_count + 1 /\ hw_break_point_count < HwSlots
    BY <1>1, <1>4, <1>7
  <2> QED BY <1>1, <1>2, <1>6, <2>2, <2>3 DEF Counted, HwSlots
<1>8. CASE p \notin ArmedRows /\ p \in ArmedRows'
  <2>1. ArmedRows' = ArmedRows \cup {p}
    BY <1>3, <1>5, <1>8
  <2>2. Cardinality(ArmedRows') = Cardinality(ArmedRows) + 1
    BY <1>6, <1>8, <2>1, FS_AddElement
  <2>3. s.hw = hw_break_point_count + 1 /\ hw_break_point_count < HwSlots
    BY <1>1, <1>4, <1>8
  <2> QED BY <1>1, <1>2, <1>6, <2>2, <2>3 DEF Counted, HwSlots
<1>9. CASE p \in ArmedRows /\ p \notin ArmedRows'
  BY <1>1, <1>4, <1>9
<1> QED BY <1>7, <1>8, <1>9

(* Rows that are counted are within the limit.                               *)
LEMMA CountedLimit ==
  ASSUME TypeOK, Counted
  PROVE  Cardinality(ArmedRows) <= HwSlots
BY ArmedRowsFinite DEF Counted, TypeOK, HwSlots

(* A step after which the same rows are armed.                               *)
LEMMA SameRowsCounted ==
  ASSUME CountedInv, job.k # "delete", ArmedRows' = ArmedRows,
         hw_break_point_count' = hw_break_point_count, mistaken' = mistaken,
         job'.k \notin {"delete", "remove"}
  PROVE  CountedInv'
BY DEF CountedInv, Counted

(* Counting the rows is all there is to keep outside the walks that delete.  *)
LEMMA CountedIsEnough ==
  ASSUME TypeOK', Counted', job'.k \notin {"delete", "remove"}
  PROVE  CountedInv'
<1>1. (TypeOK /\ Counted => Cardinality(ArmedRows) <= HwSlots)'
  BY CountedLimit, PTL
<1> QED BY <1>1 DEF CountedInv

LEMMA SetNextCounts ==
  ASSUME HwLimited, TypeInv, TypeOK', CountedInv, SetNext
  PROVE  CountedInv'
<1>1. job.k = "set" /\ (job' = Idle \/ job'.k = "set")
  BY DEF SetNext, Start
<1>2. CASE UNCHANGED bpTable
  <2>1. ArmedRows' = ArmedRows
    BY <1>2 DEF ArmedRows, Set, bpTable
  <2>2. hw_break_point_count' = hw_break_point_count /\ mistaken' = mistaken
    BY <1>2 DEF bpTable
  <2>3. job.k # "delete" /\ job'.k \notin {"delete", "remove"}
    BY <1>1 DEF Idle
  <2> QED BY <2>1, <2>2, <2>3, SameRowsCounted
<1>3. ASSUME job.i \in DOMAIN rows, NEW o \in Outcomes(rows[job.i]),
             Apply(SetBreakPoint(rows[job.i], gdb, o)),
             rows' = [rows EXCEPT ![job.i] = SetBreakPoint(rows[job.i], gdb, o).row]
      PROVE  CountedInv'
  <2> DEFINE p == job.i
             r == rows[job.i]
  <2>1. r \in Row /\ gdb \in [Numbers -> GdbState] /\ TypeOK
    BY <1>3, RowsTypes DEF TypeInv, TypeOK
  <2>2. p \in ArmedRows <=> r.num > 0 /\ r.en
    BY <1>3 DEF ArmedRows, Set
  <2>3. /\ DOMAIN rows' = DOMAIN rows \cup {p} /\ rows'[p] = SetBreakPoint(r, gdb, o).row
        /\ \A k \in DOMAIN rows \ {p} : rows'[k] = rows[k]
    BY <1>3
  <2>4. Counted
    BY <1>1 DEF CountedInv
  <2> HIDE DEF p, r
  <2>5. Counted'
    BY <1>3, <2>1, <2>2, <2>3, <2>4, StoreCounts DEF r
  <2>6. job'.k \notin {"delete", "remove"}
    BY <1>1 DEF Idle
  <2> QED BY <2>5, <2>6, CountedIsEnough
<1> QED BY <1>2, <1>3 DEF SetNext

LEMMA AddCounts ==
  ASSUME HwLimited, TypeInv, TypeOK', CountedInv, job = Idle, NEW r \in Row, r.num = Unset,
         AddBreakPoint(r)
  PROVE  CountedInv'
<1>1. rows \in Seq(Row) /\ Len(rows) \in Nat /\ DOMAIN rows = 1..Len(rows) /\ TypeOK
  BY RowsTypes DEF TypeInv, TypeOK
<1>2. job' = Idle /\ Counted
  BY DEF AddBreakPoint, CountedInv, Idle
<1> DEFINE p == Len(rows) + 1
<1>3. \A x \in Row : /\ DOMAIN Append(rows, x) = DOMAIN rows \cup {p}
                     /\ Append(rows, x)[p] = x
                     /\ \A k \in DOMAIN rows : Append(rows, x)[k] = rows[k]
  BY <1>1
<1>4. p \notin DOMAIN rows
  BY <1>1
<1> HIDE DEF p
<1>5. ~(r.num > 0) /\ p \notin ArmedRows
  BY <1>4 DEF Unset, ArmedRows
<1>6. ASSUME NEW o \in Outcomes(r), Apply(SetBreakPoint(r, gdb, o)),
             rows' = Append(rows, SetBreakPoint(r, gdb, o).row)
      PROVE  CountedInv'
  <2>1. gdb \in [Numbers -> GdbState]
    BY <1>1 DEF TypeOK
  <2>2. SetBreakPoint(r, gdb, o).row \in Row
    BY <1>1, <2>1, SetBreakPointTypes DEF Call
  <2>3. /\ DOMAIN rows' = DOMAIN rows \cup {p} /\ rows'[p] = SetBreakPoint(r, gdb, o).row
        /\ \A k \in DOMAIN rows \ {p} : rows'[k] = rows[k]
    BY <1>3, <1>6, <2>2
  <2>4. Counted'
    BY <1>1, <1>2, <1>5, <1>6, <2>1, <2>3, StoreCounts
  <2> QED BY <1>2, <2>4, CountedIsEnough DEF Idle
<1>7. CASE /\ rows' = Append(rows, r)
           /\ UNCHANGED <<hw_break_point_count, mistaken>>
  <2>1. /\ DOMAIN rows' = DOMAIN rows \cup {p} /\ rows'[p] = r
        /\ \A k \in DOMAIN rows : rows'[k] = rows[k]
    BY <1>3, <1>7
  <2>2. \A k : k \in ArmedRows' <=> k \in ArmedRows
    BY <1>4, <1>5, <2>1 DEF ArmedRows, Set
  <2>3. ArmedRows' = ArmedRows
    BY <2>2
  <2> QED BY <1>2, <1>7, <2>3, SameRowsCounted DEF Idle
<1> QED BY <1>6, <1>7 DEF AddBreakPoint

LEMMA EditCounts ==
  ASSUME HwLimited, TypeInv, TypeOK', CountedInv, job = Idle, NEW i \in DOMAIN rows, ~Set(i),
         NEW fn \in BOOLEAN, NEW line \in Position, EditBreakPoint(i, fn, line)
  PROVE  CountedInv'
<1> DEFINE r == Edited(rows[i], fn, line)
           g == Delete(gdb, rows[i].num)
<1>1. r \in Row /\ ~(r.num > 0)
  <2>1. rows[i] \in Row /\ ~(rows[i].num > 0)
    BY RowsTypes DEF Set, TypeInv
  <2> QED BY <2>1 DEF Edited, Row
<1>2. g \in [Numbers -> GdbState] /\ TypeOK
  BY DeleteType DEF TypeInv, TypeOK
<1>3. job' = Idle /\ Counted
  BY DEF EditBreakPoint, CountedInv, Idle
<1>4. \/ \E o \in Outcomes(r) : /\ Apply(SetBreakPoint(r, g, o))
                                /\ rows' = [rows EXCEPT ![i] = SetBreakPoint(r, g, o).row]
      \/ /\ rows' = [rows EXCEPT ![i] = r]
         /\ UNCHANGED <<hw_break_point_count, mistaken>>
  BY DEF EditBreakPoint
<1> HIDE DEF r, g
<1>5. i \notin ArmedRows
  BY DEF ArmedRows
<1>6. ASSUME NEW o \in Outcomes(r), Apply(SetBreakPoint(r, g, o)),
             rows' = [rows EXCEPT ![i] = SetBreakPoint(r, g, o).row]
      PROVE  CountedInv'
  <2>1. /\ DOMAIN rows' = DOMAIN rows \cup {i} /\ rows'[i] = SetBreakPoint(r, g, o).row
        /\ \A k \in DOMAIN rows \ {i} : rows'[k] = rows[k]
    BY <1>6
  <2>2. Counted'
    BY <1>1, <1>2, <1>3, <1>5, <1>6, <2>1, StoreCounts
  <2> QED BY <1>3, <2>2, CountedIsEnough DEF Idle
<1>7. CASE /\ rows' = [rows EXCEPT ![i] = r]
           /\ UNCHANGED <<hw_break_point_count, mistaken>>
  <2>1. /\ DOMAIN rows' = DOMAIN rows /\ rows'[i] = r
        /\ \A k \in DOMAIN rows \ {i} : rows'[k] = rows[k]
    BY <1>7
  <2>2. \A k : k \in ArmedRows' <=> k \in ArmedRows
    BY <1>1, <1>5, <2>1 DEF ArmedRows, Set
  <2>3. ArmedRows' = ArmedRows
    BY <2>2
  <2> QED BY <1>3, <1>7, <2>3, SameRowsCounted DEF Idle
<1> QED BY <1>4, <1>6, <1>7

LEMMA SwitchCounts ==
  ASSUME HwLimited, TypeInv, TypeOK', CountedInv, job = Idle, NEW i \in DOMAIN rows,
         SwitchBreak(i)
  PROVE  CountedInv'
<1>1. PICK e \in BOOLEAN :
        /\ rows' = [rows EXCEPT ![i].en = e] /\ e # rows[i].en
        /\ hw_break_point_count' = IF rows[i].num > 0 THEN Count(IF e THEN 1 ELSE -1)
                                                     ELSE hw_break_point_count
        /\ e /\ rows[i].num > 0 => break_available
        /\ job' = job /\ mistaken' = mistaken
  BY DEF SwitchBreak, DisableBreakPoint, EnableBreakPoint
<1>2. /\ DOMAIN rows' = DOMAIN rows
      /\ \A k \in DOMAIN rows \ {i} : rows'[k] = rows[k]
      /\ rows[i] \in Row /\ rows'[i] = [rows[i] EXCEPT !.en = e]
  BY <1>1, RowsTypes DEF TypeInv
<1>3. rows'[i].num = rows[i].num /\ rows'[i].en = e /\ rows[i].en \in BOOLEAN
  BY <1>2 DEF Row
<1>4. \A k \in DOMAIN rows \ {i} : k \in ArmedRows' <=> k \in ArmedRows
  BY <1>2 DEF ArmedRows, Set
<1>5. /\ i \in ArmedRows <=> rows[i].num > 0 /\ rows[i].en
      /\ i \in ArmedRows' <=> rows[i].num > 0 /\ e
      /\ ArmedRows \subseteq DOMAIN rows /\ ArmedRows' \subseteq DOMAIN rows
  BY <1>2, <1>3 DEF ArmedRows, Set
<1>6. IsFiniteSet(ArmedRows) /\ Cardinality(ArmedRows) \in Nat /\ hw_break_point_count \in Int
  BY ArmedRowsFinite DEF TypeInv, TypeOK
<1>7. /\ Counted /\ job.k # "delete"
      /\ job'.k \notin {"delete", "remove"}
  BY <1>1 DEF CountedInv, Idle
<1>8. CASE ~(rows[i].num > 0)
  <2>1. ArmedRows' = ArmedRows
    BY <1>4, <1>5, <1>8
  <2>2. hw_break_point_count' = hw_break_point_count
    BY <1>1, <1>8
  <2> QED BY <1>1, <1>7, <2>1, <2>2, SameRowsCounted
<1>9. CASE rows[i].num > 0 /\ e
  <2>1. ArmedRows' = ArmedRows \cup {i} /\ i \notin ArmedRows
    BY <1>1, <1>3, <1>4, <1>5, <1>9
  <2>2. Cardinality(ArmedRows') = Cardinality(ArmedRows) + 1
    BY <1>6, <2>1, FS_AddElement
  <2>3. hw_break_point_count' = hw_break_point_count + 1 /\ hw_break_point_count < HwSlots
    BY <1>1, <1>9 DEF Count, break_available
  <2>4. Counted'
    BY <1>1, <1>6, <1>7, <2>2, <2>3 DEF Counted, HwSlots
  <2> QED BY <1>7, <2>4, CountedIsEnough
<1>10. CASE rows[i].num > 0 /\ ~e
  <2>1. ArmedRows' = ArmedRows \ {i} /\ i \in ArmedRows
    BY <1>1, <1>3, <1>4, <1>5, <1>10
  <2>2. Cardinality(ArmedRows') = Cardinality(ArmedRows) - 1
    BY <1>6, <2>1, FS_RemoveElement
  <2>3. hw_break_point_count' = hw_break_point_count + (-1)
    BY <1>1, <1>10 DEF Count
  <2>4. Counted'
    BY <1>1, <1>6, <1>7, <2>2, <2>3 DEF Counted, HwSlots
  <2> QED BY <1>7, <2>4, CountedIsEnough
<1> QED BY <1>8, <1>9, <1>10

(* Removing a row that is not both set and disabled takes one off the        *)
(* counter exactly when one armed row goes.                                  *)
LEMMA RemoveCounts ==
  ASSUME HwLimited, TypeOK, Counted, NEW i \in DOMAIN rows, SlotKept(i),
         RemoveBreakPoint(i)
  PROVE  /\ Counted'
         /\ (\A k \in DOMAIN rows : SlotKept(k)) => \A k \in DOMAIN rows' : SlotKept(k)'
<1> DEFINE from(k) == IF k < i THEN k ELSE k + 1
           f == [k \in ArmedRows' |-> from(k)]
<1>1. rows \in Seq(Row) /\ Len(rows) \in Nat /\ DOMAIN rows = 1..Len(rows)
  BY RowsTypes DEF TypeOK
<1>2. /\ rows' \in Seq(Row) /\ Len(rows') = Len(rows) - 1
      /\ \A k \in 1..Len(rows) - 1 : rows'[k] = IF k < i THEN rows[k] ELSE rows[k + 1]
  BY <1>1, RemoveAtProperties DEF RemoveBreakPoint
<1>3. DOMAIN rows' = 1..Len(rows) - 1
  BY <1>2, LenProperties
<1>4. \A k \in DOMAIN rows' : from(k) \in DOMAIN rows \ {i} /\ rows'[k] = rows[from(k)]
  BY <1>1, <1>2, <1>3
<1>5. \A k \in DOMAIN rows \ {i} : \E j \in DOMAIN rows' : from(j) = k
  <2> TAKE k \in DOMAIN rows \ {i}
  <2>1. CASE k < i
    BY <1>1, <1>3, <2>1
  <2>2. CASE k > i
    <3>1. k - 1 \in DOMAIN rows' /\ from(k - 1) = k
      BY <1>1, <1>3, <2>2
    <3> QED BY <3>1
  <2> QED BY <1>1, <2>1, <2>2
<1>6. \A j, k \in DOMAIN rows' : from(j) = from(k) => j = k
  BY <1>1, <1>3
<1> HIDE DEF from
<1>7. \A k \in DOMAIN rows' : k \in ArmedRows' <=> from(k) \in ArmedRows
  BY <1>4 DEF ArmedRows, Set
<1>8. IsFiniteSet(ArmedRows) /\ Cardinality(ArmedRows) \in Nat
  BY ArmedRowsFinite
<1>9. IsFiniteSet(ArmedRows')
  <2>1. IsFiniteSet(1..Len(rows) - 1)
    BY <1>1, FS_Interval
  <2> QED BY <1>3, <2>1, FS_Subset DEF ArmedRows
<1>10. Cardinality(ArmedRows') = Cardinality(ArmedRows \ {i})
  <2>1. f \in [ArmedRows' -> ArmedRows \ {i}]
    BY <1>4, <1>7 DEF ArmedRows
  <2>2. \A a, b \in ArmedRows' : f[a] = f[b] => a = b
    BY <1>6 DEF ArmedRows
  <2>3. \A t \in ArmedRows \ {i} : \E a \in ArmedRows' : f[a] = t
    BY <1>5, <1>7 DEF ArmedRows
  <2> HIDE DEF f
  <2>4. f \in Injection(ArmedRows', ArmedRows \ {i})
    BY <2>1, <2>2, Fun_IsInj
  <2>5. f \in Surjection(ArmedRows', ArmedRows \ {i})
    BY <2>1, <2>3, Fun_IsSurj
  <2>6. f \in Bijection(ArmedRows', ArmedRows \ {i})
    BY <2>4, <2>5 DEF Bijection
  <2>7. ExistsBijection(ArmedRows', ArmedRows \ {i})
    BY <2>6 DEF ExistsBijection
  <2> QED BY <1>9, <2>7, FS_Bijection
<1>11. Cardinality(ArmedRows \ {i}) = IF i \in ArmedRows THEN Cardinality(ArmedRows) - 1
                                                        ELSE Cardinality(ArmedRows)
  BY <1>8, FS_RemoveElement
<1>12. i \in ArmedRows <=> rows[i].num > 0
  BY DEF ArmedRows, Set, SlotKept
<1>13. hw_break_point_count' = IF rows[i].num > 0 THEN hw_break_point_count + (-1)
                                                  ELSE hw_break_point_count
  BY DEF RemoveBreakPoint, Count
<1>14. (\A k \in DOMAIN rows : SlotKept(k)) => \A k \in DOMAIN rows' : SlotKept(k)'
  BY <1>4 DEF SlotKept, Set
<1>15. mistaken' = mistaken /\ hw_break_point_count \in Int
  BY DEF RemoveBreakPoint, TypeOK
<1>16. Counted'
  BY <1>8, <1>10, <1>11, <1>12, <1>13, <1>15 DEF Counted, HwSlots
<1> QED BY <1>14, <1>16

LEMMA DeleteNextCounts ==
  ASSUME HwLimited, TypeInv, CountedInv, DeleteNext
  PROVE  CountedInv'
<1>1. /\ DOMAIN rows = 1..Len(rows) /\ Len(rows) \in Nat /\ TypeOK
      /\ job.k = "delete" /\ job.i \in Int
  BY RowsTypes, BoundsAssumption DEF TypeInv, TypeOK, Job, DeleteNext
<1>2. /\ hw_break_point_count = 0 /\ hw_break_point_count' = 0 /\ job.i >= 1
      /\ \A j \in DOMAIN rows : j < job.i => ~Set(j)
      /\ Cardinality(ArmedRows) <= HwSlots
  BY <1>1 DEF CountedInv, DeleteNext
<1>3. IsFiniteSet(ArmedRows) /\ Cardinality(ArmedRows) \in Nat
  BY <1>1, ArmedRowsFinite
<1>4. CASE job.i \in DOMAIN rows
  <2>1. /\ job' = [k |-> "delete", i |-> job.i + 1]
        /\ rows' = [rows EXCEPT ![job.i].num = Unset]
    BY <1>4 DEF DeleteNext, Start
  <2>2. rows[job.i] \in Row /\ rows'[job.i] = [rows[job.i] EXCEPT !.num = Unset]
    BY <1>1, <1>4, <2>1, RowsTypes
  <2>3. rows'[job.i].num = Unset
    BY <2>2 DEF Row
  <2>4. ASSUME NEW j \in DOMAIN rows', j < job'.i PROVE ~(rows'[j].num > 0)
    <3>1. CASE j = job.i
      BY <2>3, <3>1 DEF Unset
    <3>2. CASE j # job.i
      <4>1. j \in DOMAIN rows /\ rows'[j] = rows[j] /\ j < job.i
        BY <1>1, <2>1, <2>4, <3>2
      <4> QED BY <1>2, <4>1 DEF Set
    <3> QED BY <3>1, <3>2
  <2>5. ArmedRows' \in SUBSET ArmedRows
    <3>1. \A j \in DOMAIN rows' : j # job.i => j \in DOMAIN rows /\ rows'[j] = rows[j]
      BY <2>1
    <3>2. job.i \notin ArmedRows'
      BY <2>3 DEF ArmedRows, Set, Unset
    <3> QED BY <3>1, <3>2 DEF ArmedRows, Set
  <2>6. Cardinality(ArmedRows') <= Cardinality(ArmedRows) /\ IsFiniteSet(ArmedRows')
    BY <1>3, <2>5, FS_Subset
  <2>7. Cardinality(ArmedRows') \in Nat
    BY <2>6, FS_CardinalityType
  <2>8. Cardinality(ArmedRows') <= HwSlots
    BY <1>2, <1>3, <2>6, <2>7 DEF HwSlots
  <2>9. job'.k = "delete" /\ job'.i >= 1
    BY <1>1, <1>2, <2>1
  <2> QED BY <1>2, <2>4, <2>8, <2>9 DEF CountedInv, Set
<1>5. CASE job.i \notin DOMAIN rows
  <2>1. job' = Idle /\ rows' = rows
    BY <1>5 DEF DeleteNext
  <2>2. \A j \in DOMAIN rows : ~Set(j)
    BY <1>1, <1>2, <1>5
  <2>3. ArmedRows = {} /\ ArmedRows' = {}
    BY <2>1, <2>2 DEF ArmedRows, Set
  <2>4. Cardinality(ArmedRows') = 0
    BY <2>3, FS_EmptySet
  <2> QED BY <1>2, <2>1, <2>4 DEF CountedInv, Counted, Idle, HwSlots
<1> QED BY <1>4, <1>5

LEMMA RemoveNextCounts ==
  ASSUME HwLimited, TypeInv, TypeOK', CountedInv, RemoveNext
  PROVE  CountedInv'
<1>1. /\ job.k = "remove" /\ TypeOK /\ Counted
      /\ \A i \in DOMAIN rows : SlotKept(i)
  BY DEF CountedInv, RemoveNext, TypeInv
<1>2. CASE job.i > 0 /\ RemoveBreakPoint(job.i) /\ Start("remove", job.i - 1)
  <2>1. job.i \in DOMAIN rows
    <3>1. /\ job \in Job /\ job.i <= Len(rows) /\ Len(rows) \in Nat /\ DOMAIN rows = 1..Len(rows)
      BY <1>1, RowsTypes DEF TypeInv, TypeOK, RemovalInTable
    <3>2. job.i \in Nat
      BY <3>1, BoundsAssumption DEF Job
    <3> QED BY <1>2, <3>1, <3>2
  <2>2. Counted' /\ \A k \in DOMAIN rows' : SlotKept(k)'
    BY <1>1, <1>2, <2>1, RemoveCounts
  <2>3. job'.k = "remove"
    BY <1>2 DEF Start
  <2>4. (TypeOK /\ Counted => Cardinality(ArmedRows) <= HwSlots)'
    BY CountedLimit, PTL
  <2> QED BY <2>2, <2>3, <2>4 DEF CountedInv
<1>3. CASE job' = Idle /\ UNCHANGED bpTable
  <2>1. ArmedRows' = ArmedRows /\ UNCHANGED <<hw_break_point_count, mistaken>>
    BY <1>3 DEF ArmedRows, Set, bpTable
  <2> QED BY <1>1, <1>3, <2>1, SameRowsCounted DEF Idle
<1> QED BY <1>2, <1>3 DEF RemoveNext

(* The careful commands are commands of the table.                           *)
CarefulNext == TableWalk \/ (job = Idle /\ CarefulCommand)

LEMMA CarefulIsNext == CarefulNext => BpNext
<1>1. CarefulCommand => \/ UserCommand \/ DeleteBreakPoints \/ DeleteAllBreakPoints
                        \/ InitNoSymbols \/ InitLoaded \/ ClearSymbols
  BY DEF CarefulCommand, UserCommand, BreakDialog
<1> QED BY <1>1 DEF CarefulNext, BpNext

LEMMA CarefulCounts ==
  ASSUME HwLimited, TypeInv, CountedInv, [CarefulNext]_bpVars
  PROVE  CountedInv'
<1> USE DEF TypeInv
<1>0. TypeOK'
  BY CarefulIsNext, TypeInvNext
<1>1. CASE TableWalk
  BY <1>0, <1>1, SetNextCounts, DeleteNextCounts, RemoveNextCounts DEF TableWalk
<1>2. CASE job = Idle /\ CarefulCommand
  <2>1. ASSUME NEW i \in DOMAIN rows, SlotKept(i), RemoveOne(i) PROVE CountedInv'
    <3>1. Counted
      BY <1>2 DEF CountedInv, Idle
    <3>2. Counted'
      BY <2>1, <3>1, RemoveCounts DEF RemoveOne
    <3>3. job' = Idle
      BY <1>2, <2>1 DEF RemoveOne
    <3> QED BY <1>0, <3>2, <3>3, CountedIsEnough DEF Idle
  <2>2. ASSUME NEW i \in DOMAIN rows, SwitchBreak(i) PROVE CountedInv'
    BY <1>0, <1>2, <2>2, SwitchCounts
  <2>3. ASSUME NEW i \in DOMAIN rows, NEW fn \in Kinds, NEW line \in LinesFor(fn), ~Set(i),
               EditBreakPoint(i, fn, line)
        PROVE  CountedInv'
    <3>1. fn \in BOOLEAN /\ line \in Position
      BY OptionsAssumption DEF LinesFor, Position
    <3> QED BY <1>0, <1>2, <2>3, <3>1, EditCounts
  <2>4. ASSUME NEW fn \in Kinds, NEW en \in BOOLEAN, NEW line \in LinesFor(fn),
               AddBreakPoint(NewRow(fn, line, en))
        PROVE  CountedInv'
    <3>1. NewRow(fn, line, en) \in Row /\ NewRow(fn, line, en).num = Unset
      BY OptionsAssumption DEF LinesFor, Position, NewRow, Row
    <3> QED BY <1>0, <1>2, <2>4, <3>1, AddCounts
  <2>5. CASE DeleteAllBreakPoints /\ \A i \in DOMAIN rows : SlotKept(i)
    <3>1. job'.k = "remove" /\ UNCHANGED <<rows, hw_break_point_count, mistaken>>
      BY <2>5 DEF DeleteAllBreakPoints, Start, bpTable
    <3>2. ArmedRows' = ArmedRows /\ \A i \in DOMAIN rows' : SlotKept(i)'
      BY <2>5, <3>1 DEF ArmedRows, Set, SlotKept
    <3> QED BY <1>2, <3>1, <3>2 DEF CountedInv, Counted, Idle
  <2>6. CASE DeleteBreakPoints
    <3>1. job' = [k |-> "delete", i |-> 1] /\ hw_break_point_count' = 0 /\ rows' = rows
      BY <2>6 DEF DeleteBreakPoints, Start
    <3>2. ArmedRows' = ArmedRows
      BY <3>1 DEF ArmedRows, Set
    <3>3. \A j \in DOMAIN rows' : ~(j < 1)
      BY <3>1, RowsTypes
    <3> QED BY <3>1, <3>2, <3>3 DEF CountedInv
  <2>7. CASE InitNoSymbols \/ InitLoaded \/ ClearSymbols
    <3>1. job'.k \in {"idle", "set"} /\ UNCHANGED <<rows, hw_break_point_count, mistaken>>
      BY <1>2, <2>7 DEF InitNoSymbols, InitLoaded, ClearSymbols, Start, bpTable, Idle
    <3>2. ArmedRows' = ArmedRows
      BY <3>1 DEF ArmedRows, Set
    <3> QED BY <1>2, <3>1, <3>2, SameRowsCounted DEF Idle
  <2> QED BY <1>2, <2>1, <2>2, <2>3, <2>4, <2>5, <2>6, <2>7 DEF CarefulCommand, LoadBreak
<1>3. CASE UNCHANGED bpVars
  <2>1. ArmedRows' = ArmedRows
    BY <1>3 DEF ArmedRows, Set, bpVars
  <2> QED BY <1>3, <2>1 DEF bpVars, CountedInv, Counted, SlotKept, Set
<1> QED BY <1>1, <1>2, <1>3 DEF CarefulNext

(* gdb holds no more armed breakpoints than the table has armed rows.        *)
On == {n \in Numbers : gdb[n].st = "on"}

LEMMA OnFinite == IsFiniteSet(On) /\ Cardinality(On) \in Nat
<1>1. IsFiniteSet(Numbers)
  BY BoundsAssumption, FS_Interval DEF Numbers
<1>2. IsFiniteSet(On)
  BY <1>1, FS_Subset DEF On
<1> QED BY <1>2, FS_CardinalityType

LEMMA ArmedInGdb ==
  ASSUME TypeOK, ArmedOwned
  PROVE  Cardinality(On) <= Cardinality(ArmedRows)
<1> DEFINE f == [n \in On |-> CHOOSE i \in DOMAIN rows : rows[i].num = n /\ rows[i].en]
<1>1. IsFiniteSet(ArmedRows) /\ Cardinality(ArmedRows) \in Nat
  BY ArmedRowsFinite
<1>2. ASSUME NEW n \in On PROVE f[n] \in ArmedRows /\ rows[f[n]].num = n
  <2>1. PICK i \in DOMAIN rows : rows[i].num = n /\ rows[i].en
    BY <1>2 DEF ArmedOwned, On
  <2>2. f[n] \in DOMAIN rows /\ rows[f[n]].num = n /\ rows[f[n]].en
    BY <1>2, <2>1
  <2>3. Set(f[n])
    BY <2>2, BoundsAssumption DEF Set, Numbers, On
  <2> QED BY <2>2, <2>3 DEF ArmedRows
<1>3. f \in [On -> ArmedRows]
  BY <1>2
<1> HIDE DEF f
<1>4. \A a, b \in On : f[a] = f[b] => a = b
  BY <1>2
<1>5. f \in Injection(On, ArmedRows)
  BY <1>3, <1>4, Fun_IsInj
<1> QED BY <1>1, <1>5, FS_Injection

(* While no number is mistaken every armed row has an armed breakpoint of    *)
(* its own.                                                                  *)
LEMMA ArmedRowsInGdb ==
  ASSUME TypeOK, NumbersExact, NumbersDistinct, mistaken = {}
  PROVE  Cardinality(ArmedRows) <= Cardinality(On)
<1> DEFINE f == [i \in ArmedRows |-> rows[i].num]
<1>1. ASSUME NEW i \in ArmedRows PROVE f[i] \in On
  <2>1. i \in DOMAIN rows /\ Set(i) /\ rows[i].en /\ rows[i] \in Row
    BY RowsTypes DEF ArmedRows
  <2>2. Shown(gdb[rows[i].num], rows[i])
    BY <2>1 DEF NumbersExact
  <2>3. rows[i].num \in Numbers
    BY <2>1, BoundsAssumption DEF Row, Set, Unset, Numbers
  <2> QED BY <2>1, <2>2, <2>3 DEF Shown, On
<1>2. f \in [ArmedRows -> On]
  BY <1>1
<1>3. \A i, j \in ArmedRows : f[i] = f[j] => i = j
  BY DEF NumbersDistinct, ArmedRows
<1> HIDE DEF f
<1>4. f \in Injection(ArmedRows, On)
  BY <1>2, <1>3, Fun_IsInj
<1> QED BY <1>4, OnFinite, FS_Injection

(* As long as no set row is edited and no set and disabled one removed, gdb  *)
(* never holds more armed breakpoints than the three the hardware leaves,    *)
(* whatever rows are added, switched, walked over or removed and whatever    *)
(* gdb refuses; and hw_break_point_count is their number until a refused     *)
(* "break" is taken for obeyed, and again after the next DeleteBreakPoints.  *)
THEOREM HardwareIsCounted == CarefulSpec => []HwRight
<1> DEFINE I == TypeInv /\ TableInv /\ (HwLimited => CountedInv)
<1>1. BpInit => I
  <2> SUFFICES ASSUME BpInit PROVE I
    OBVIOUS
  <2>1. TypeInv /\ TableInv
    BY TypeInvInit, TableInvInit
  <2>2. ArmedRows = {}
    BY DEF BpInit, ArmedRows
  <2>3. Cardinality(ArmedRows) = 0
    BY <2>2, FS_EmptySet
  <2>4. CountedInv
    BY <2>3 DEF BpInit, Idle, CountedInv, Counted, HwSlots
  <2> QED BY <2>1, <2>4
<1>2. I /\ [CarefulNext]_bpVars => I'
  BY CarefulIsNext, TypeInvNext, TableInvNext, CarefulCounts
<1>3. I => HwRight
  <2> SUFFICES ASSUME I, HwLimited PROVE HwRight
    BY DEF HwRight, HwCountExact, HwLimitKept
  <2>1. TypeOK /\ TableInv /\ CountedInv
    BY DEF TypeInv
  <2>2. /\ Cardinality(ArmedRows) \in Nat /\ Cardinality(On) \in Nat
        /\ Cardinality(On) <= Cardinality(ArmedRows)
    BY <2>1, ArmedRowsFinite, OnFinite, ArmedInGdb DEF TableInv
  <2>3. HwLimitKept
    BY <2>1, <2>2 DEF HwLimitKept, CountedInv, HwSlots, On
  <2>4. ASSUME job.k # "delete", mistaken = {} PROVE hw_break_point_count = Cardinality(On)
    <3>1. Cardinality(ArmedRows) <= Cardinality(On)
      BY <2>1, <2>4, ArmedRowsInGdb DEF TableInv
    <3>2. hw_break_point_count = Cardinality(ArmedRows)
      BY <2>1, <2>4 DEF CountedInv, Counted
    <3> QED BY <2>2, <3>1, <3>2
  <2> QED BY <2>3, <2>4 DEF HwRight, HwCountExact, On
<1> QED BY <1>1, <1>2, <1>3, PTL DEF CarefulSpec, CarefulNext

===============================================================================
