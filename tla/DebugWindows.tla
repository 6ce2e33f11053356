----------------------------- MODULE DebugWindows -----------------------------
(***************************************************************************)
(* The windows that show the debugged program: watches (watches.cc,          *)
(* twatchli.cc), call stack (callstac.cc, frame.c), registers and            *)
(* disassembler (tdiswin.cc, dis.c, regs.c) and data windows (tdatawin.cc).   *)
(*                                                                         *)
(* Each keeps its own copy of what it read.  A window does not look at the    *)
(* others, so a behaviour is about one of them and the program (part).        *)
(***************************************************************************)
EXTENDS Integers, Sequences, SequencesExt, FiniteSets, FiniteSetsExt, TLC

CONSTANTS
  Vars,        \* expressions to watch
  MaxWatches,  \* bound: watches
  MaxDepth,    \* bound: frames of the program
  RegCount,    \* registers
  InsnLen,     \* InsnLen[a]: the length of what decodes at address a, from 1 on
  Marked,      \* addresses a line of the source begins at
  Entry,       \* the addresses the program may stop at
  Memory,      \* addresses of data, 0 to some number; they wrap around
  Hole,        \* those of them that cannot be read
  Line,        \* bytes in the only line of a new data window
  MaxRows,     \* bound: lines of a window
  MaxBytes,    \* bound: bytes a data window shows
  MaxLines     \* bound: lines of disassembly a window keeps

\* the stack window shows words of 4 bytes in the memory of one line
ASSUME WindowsAssumption ==
  /\ {MaxWatches, MaxDepth, MaxRows, MaxBytes, MaxLines} \subseteq Nat
  /\ RegCount \in Nat \ {0} /\ InsnLen \in Seq(Nat \ {0}) /\ Entry \subseteq Nat \ {0}
  /\ Line \in Nat /\ Line >= 4

VARIABLES
  part,        \* the window a behaviour is about
  debuggee,    \* [started, pc, depth, mem]
  w            \* that window

vars == <<part, debuggee, w>>
Going(r) == w' = r /\ UNCHANGED <<part, debuggee>>
----------------------------------------------------------------------------
(* Watches: list is the list box (it has one empty row at its end), saved is  *)
(* the global Watches, which goes into the desktop file                       *)

NoBox == [open |-> FALSE, list |-> <<>>, saved |-> <<>>, focused |-> 0]
\* TListViewer::setRange
FocusIn(focused, range) == IF focused > range THEN 0 ELSE focused
AddVariable(b, v) == [b EXCEPT !.list = InsertAt(@, b.focused + 1, v)]
RemoveAt1(s, i) == SubSeq(s, 1, i - 1) \o SubSeq(s, i + 1, Len(s))
\* mutant: the global list keeps the expression
RemoveShown(b, i) == [b EXCEPT !.list = RemoveAt1(@, i), !.focused = FocusIn(@, Len(b.list))]
RemoveVariable(b, i) ==
  [b EXCEPT !.list = RemoveAt1(@, i), !.saved = RemoveAt1(@, i),
            !.focused = FocusIn(@, Len(b.list))]

OpenWatchWindow(b) ==
  LET shown[i \in 0..Len(b.saved)] ==
        IF i = 0 THEN [b EXCEPT !.open = TRUE, !.list = <<>>, !.focused = 0]
        ELSE AddVariable(shown[i - 1], b.saved[i])
  IN shown[Len(b.saved)]
AddWatch(v, show_window) ==
  LET b == IF show_window /\ ~w.open THEN OpenWatchWindow(w) ELSE w
      c == [b EXCEPT !.saved = Append(@, v)]
  IN /\ part = "watches" /\ Len(w.saved) < MaxWatches
     /\ Going(IF c.open THEN AddVariable(c, v) ELSE c)
cmRemoveWatch ==
  part = "watches" /\ w.open /\ w.focused < Len(w.list) /\ Going(RemoveVariable(w, w.focused + 1))
cmEditWatch(v) ==
  /\ part = "watches" /\ w.open /\ w.focused < Len(w.list)
  /\ Going([w EXCEPT !.list[w.focused + 1] = v, !.saved[w.focused + 1] = v])
FocusWatch(i) == part = "watches" /\ w.open /\ i <= Len(w.list) /\ Going([w EXCEPT !.focused = i])
CloseWatches == part = "watches" /\ w.open /\ Going([w EXCEPT !.open = FALSE])
cmWatchWindow == part = "watches" /\ ~w.open /\ Going(OpenWatchWindow(w))
\* LoadDesktop, after the windows of the old one are closed
DeleteAllWatches == part = "watches" /\ ~w.open /\ Going(NoBox)
----------------------------------------------------------------------------
(* Call stack: frames as of the last backtrace, the rows of the list, the     *)
(* frame the debugger has selected                                           *)

NoStack == [open |-> FALSE, frame_count |-> 0, range |-> 0, focused |-> 0, frame |-> 0]
\* mutant: frames of an earlier, deeper stack stay
BackTraceAdds(s, depth) == [s EXCEPT !.frame_count = IF depth > @ THEN depth ELSE @]
BackTrace(s, depth) == [s EXCEPT !.frame_count = depth]
UpdateStack(s, depth) ==
  IF ~s.open THEN s
  ELSE LET t == BackTrace(s, depth)
       IN [t EXCEPT !.range = t.frame_count, !.focused = FocusIn(@, t.frame_count)]
ShowCallStackWindow == part = "stack" /\ Going(UpdateStack([w EXCEPT !.open = TRUE], debuggee.depth))
CloseStack == part = "stack" /\ w.open /\ Going([w EXCEPT !.open = FALSE, !.range = 0, !.focused = 0])
\* focusItem and selectItem: SetFrame, and the source of the frame
SelectFrame(item) ==
  /\ part = "stack" /\ w.open /\ item < w.range /\ item < w.frame_count
  /\ Going([w EXCEPT !.focused = item, !.frame = item])
----------------------------------------------------------------------------
(* Registers *)

NoRegisters == [selected |-> 0, start_offset |-> 0, size |-> RegCount, value |-> 0, has_changed |-> FALSE]
\* draw: the height of the window, and no empty rows at the end
Shown(r, height) ==
  LET my == Min({height, RegCount})
  IN [r EXCEPT !.size = my, !.start_offset = Min({@, RegCount - my})]
ResizeRegisters(height) == part = "registers" /\ Going(Shown(w, height))
kbUpRegister ==
  /\ part = "registers" /\ w.selected > 0
  /\ Going(Shown([w EXCEPT !.selected = @ - 1, !.start_offset = Min({@, w.selected - 1})], w.size))
kbDownRegister ==
  /\ part = "registers" /\ w.selected + 1 < RegCount
  /\ LET s == [w EXCEPT !.selected = @ + 1]
     IN Going(Shown(IF s.selected >= w.size THEN [s EXCEPT !.start_offset = @ + 1] ELSE s, w.size))
MouseRegister(y) == part = "registers" /\ y < w.size /\ Going([w EXCEPT !.selected = y])
\* update_value: all registers as one value
UpdateRegisters(r, value) == [r EXCEPT !.value = value, !.has_changed = value # r.value]
set_register_value(value) == debuggee' = [debuggee EXCEPT !.pc = value]
editRegister(value) ==
  /\ part = "registers" /\ debuggee.started
  /\ w' = IF w.value = value THEN w ELSE [w EXCEPT !.value = value, !.has_changed = TRUE]
  /\ set_register_value(value) /\ UNCHANGED part
----------------------------------------------------------------------------
(* Disassembler: lines are addresses, and 0 a line with only text             *)

Code == DOMAIN InsnLen
TextLine(a) == IF a \in Marked THEN <<0, a>> ELSE <<a>>
\* past the end of the program every byte decodes to an instruction
LenAt(a) == IF a \in Code THEN InsnLen[a] ELSE 1
disassemble(address, count) ==
  LET read[i \in 0..count] ==
        IF i = 0 THEN [lines |-> <<>>, next |-> address]
        ELSE [lines |-> read[i - 1].lines \o TextLine(read[i - 1].next),
              next |-> read[i - 1].next + LenAt(read[i - 1].next)]
  IN read[count]

NoLines == [lines |-> <<>>, start_address |-> 0, end_address |-> 0, next_address |-> 0, focused |-> 0,
            size |-> 2, from |-> 0]   \* from: history, the stop the lines were read for
Instructions(lines) == {i \in DOMAIN lines : lines[i] # 0}
LastAddress(lines, otherwise) ==
  IF Instructions(lines) = {} THEN otherwise ELSE lines[Max(Instructions(lines))]
FirstAddress(lines) == lines[Min(Instructions(lines))]
\* the first line that has the address; in a line of text nothing was written
\* there, so it has any, that of an earlier line among them
select_address(d, a) ==
  LET is == {i \in DOMAIN d.lines : d.lines[i] = a}
      texts == {i \in DOMAIN d.lines \ Instructions(d.lines) : \A j \in is : i < j}
      first == IF is = {} THEN {} ELSE {Min(is)}
  IN {[d EXCEPT !.focused = i - 1] : i \in texts \cup first} \cup (IF is = {} THEN {d} ELSE {})
\* the lines are kept while the address is between the first and the last one
Load(d, a) ==
  LET r == disassemble(a, d.size)
  IN [d EXCEPT !.lines = r.lines, !.next_address = r.next, !.start_address = FirstAddress(r.lines),
               !.end_address = LastAddress(r.lines, @), !.from = FirstAddress(r.lines)]
\* mutant: the instruction after the last line counts as shown
WithinNext(d, a) == a >= d.start_address /\ a <= d.next_address
Within(d, a) == a >= d.start_address /\ a <= d.end_address
UpdateLines(d, a) == select_address(IF Within(d, a) THEN d ELSE Load(d, a), a)

\* above the first line: the nearest address whose lines end before it
Above(d, n) ==
  LET as == {a \in Code : a <= d.start_address - n /\ disassemble(a, n).next <= d.start_address}
      r == disassemble(Max(as), n)
  IN IF as = {} THEN d
     ELSE [d EXCEPT !.lines = r.lines \o @, !.start_address = Max(as), !.focused = 0]
Below(d, n) ==
  LET r == disassemble(d.next_address, n)
  IN [d EXCEPT !.lines = @ \o r.lines, !.next_address = r.next,
               !.end_address = LastAddress(r.lines, @), !.focused = Len(d.lines) + n - 1]
focusItemNum(item) ==
  /\ part = "disassembler" /\ w.start_address # 0 /\ debuggee.started
  /\ Len(w.lines) + 2 <= MaxLines
  /\ Going(IF item < 0 THEN Above(w, -item)
           ELSE IF item >= Len(w.lines) THEN Below(w, item - Len(w.lines) + 1)
           ELSE [w EXCEPT !.focused = item])
\* end_address is cleared, so all lines are read again, and the focus put back
ResizeLines(rows) ==
  /\ part = "disassembler" /\ debuggee.started /\ rows # w.size
  /\ LET d == [w EXCEPT !.size = rows]
     IN Going(IF Len(d.lines) >= rows \/ d.start_address = 0 THEN d
              ELSE [Load([d EXCEPT !.end_address = 0], d.start_address) EXCEPT !.from = d.from])
----------------------------------------------------------------------------
(* Data windows.  memo holds mem_len bytes and, behind them, their flags: here *)
(* one sequence of bytes [v, f]; the buffer is kept when fewer are shown.      *)

fieldbytes == <<1, 2, 4, 1>>     \* dmBytes, dm2Bytes, dm4Bytes, dmChars
MemSize == Cardinality(Memory)
Addr(a) == a % MemSize
Cell(v, f) == [v |-> v, f |-> f]
BytesShown(d) == d.bytesperline * d.rows
\* readbytes: halves until single bytes, so every readable byte is read; bytes
\* behind those shown are not looked at before they are read again
ReadFrom(d, mem) ==
  [d EXCEPT !.memo = [i \in DOMAIN d.memo |->
     IF i > BytesShown(d) THEN Cell(0, "READ")
     ELSE IF Addr(d.mem_start + i - 1) \in Hole THEN Cell(0, "NONACCESS")
     ELSE Cell(mem[Addr(d.mem_start + i - 1)], "READ")]]
readbytes(d) == ReadFrom(d, debuggee.mem)
Allocated(d) ==
  IF d.mem_len # 0 THEN d
  ELSE [d EXCEPT !.mem_len = BytesShown(d), !.memo = [i \in 1..BytesShown(d) |-> Cell(0, "READ")]]
Freed(d) == [d EXCEPT !.mem_len = 0, !.memo = <<>>]
UpdateData(d, addr) == readbytes(Allocated([d EXCEPT !.mem_start = Addr(addr)]))
Home(d) == [d EXCEPT !.field = 0]
NoData == [open |-> FALSE, mem_start |-> 0, mem_len |-> 0, memo |-> <<>>, bytesperline |-> Line,
           rows |-> 1, dispmode |-> 1, row |-> 0, field |-> 0, odd |-> {}]

data == part = "data" /\ w.open
\* with no bytes in a line the keys do nothing that could be seen
Bytes == data /\ w.bytesperline > 0
FieldSize == fieldbytes[w.dispmode]
createNew == part = "data" /\ ~w.open /\ Going(UpdateData([NoData EXCEPT !.open = TRUE], 0))
\* the stack has another format than the window it is opened with
stackWindow ==
  /\ part = "data" /\ ~w.open
  /\ Going([UpdateData([NoData EXCEPT !.open = TRUE], 0) EXCEPT !.bytesperline = 4, !.dispmode = 3])
CloseData == data /\ Going(NoData)
kbUp ==
  Bytes /\ Going(IF w.row = 0 THEN UpdateData(w, w.mem_start + MemSize - Addr(w.bytesperline))
                 ELSE [w EXCEPT !.row = @ - 1])
kbDown ==
  /\ Bytes /\ w.row <= MaxRows
  /\ Going(IF w.row = w.rows - 1 THEN UpdateData(w, w.mem_start + w.bytesperline)
           ELSE [w EXCEPT !.row = @ + 1])
Scroll(by) == Bytes /\ Going(UpdateData(w, w.mem_start + by))
\* ^F, ^G and ^H: an address that can be evaluated
CheckAddress(a) ==
  LET d == [w EXCEPT !.row = 0, !.field = 0]
  IN Bytes /\ Going(IF a = w.mem_start THEN d ELSE UpdateData(d, a))
kbCtrlHomeEnd(row) == Bytes /\ Going([w EXCEPT !.row = row])
\* cursorHoriz, a field at a time
cursorHoriz(d, by) ==
  LET last == d.bytesperline \div fieldbytes[d.dispmode] - 1
  IN [d EXCEPT !.field = IF by > 0 THEN Min({@ + by, last}) ELSE Max({@ + by, 0})]
kbLeftRight(by) == Bytes /\ Going(cursorHoriz(w, by))
kbGrayMinus ==
  /\ Bytes /\ w.bytesperline > FieldSize
  /\ Going(Home(UpdateData([w EXCEPT !.bytesperline = @ - FieldSize], w.mem_start)))
\* mutant: the old buffer is kept
GrownInPlace(d) == [d EXCEPT !.bytesperline = @ + fieldbytes[d.dispmode]]
Grown(d) == Freed([d EXCEPT !.bytesperline = @ + fieldbytes[d.dispmode]])
kbGrayPlus ==
  /\ data /\ BytesShown(w) + FieldSize * w.rows <= MaxBytes
  /\ Going(UpdateData(Grown(w), w.mem_start))
kbCtrlD ==
  LET mode == (w.dispmode % 4) + 1
      bytes == (w.bytesperline \div fieldbytes[mode]) * fieldbytes[mode]
  IN /\ data
     /\ Going(Home(UpdateData([w EXCEPT !.dispmode = mode, !.bytesperline = bytes,
                                        !.odd = IF bytes = 0 THEN @ \cup {"empty"} ELSE @], w.mem_start)))
ResizeData(rows) ==
  /\ data /\ rows # w.rows /\ rows * w.bytesperline <= MaxBytes
  /\ LET d == [(IF w.rows < rows THEN Freed(w) ELSE w) EXCEPT !.rows = rows,
                 !.odd = IF w.row >= rows THEN @ \cup {"below"} ELSE @]
     IN Going(UpdateData(d, w.mem_start))
curs2memo == w.bytesperline * w.row + w.field * FieldSize + 1
\* EDITED is added to the flags of a byte: one that cannot be read stays so
Edited(c, v) == Cell(v, IF c.f = "NONACCESS" THEN "EDITED NONACCESS" ELSE "EDITED")
\* a byte is typed; one edited field at a time (bound)
Type(v) ==
  /\ Bytes /\ curs2memo + FieldSize - 1 <= Len(w.memo)
  /\ \A i \in DOMAIN w.memo : w.memo[i].f \in {"READ", "NONACCESS"}
  /\ Going(cursorHoriz([w EXCEPT !.memo = [i \in DOMAIN w.memo |->
            IF i \in curs2memo..(curs2memo + FieldSize - 1) THEN Edited(w.memo[i], v) ELSE w.memo[i]]], 1))
\* writebytes: the first run of readable bytes, and the hook reads all again
Readable(d) == {i \in 1..BytesShown(d) : d.memo[i].f \in {"READ", "EDITED"}}
FirstRun(d) ==
  LET first == Min(Readable(d))
  IN IF Readable(d) = {} THEN {} ELSE {i \in Readable(d) : first..i \subseteq Readable(d)}
Written(d, mem) ==
  [a \in DOMAIN mem |->
     LET is == {i \in FirstRun(d) : Addr(d.mem_start + i - 1) = a}
     IN IF is = {} THEN mem[a] ELSE d.memo[Max(is)].v]
\* ^I, ^L, ^M, ^R: a block is written to the program, if all of it can be
target_fill_mem(from, len, v) ==
  LET as == {Addr(from + i) : i \in 0..(len - 1)}
      m == IF as \cap Hole # {} THEN debuggee.mem
           ELSE [a \in DOMAIN debuggee.mem |-> IF a \in as THEN v ELSE debuggee.mem[a]]
  IN Bytes /\ debuggee' = [debuggee EXCEPT !.mem = m] /\ w' = ReadFrom(w, m) /\ UNCHANGED part
kbEnter ==
  /\ Bytes /\ BytesShown(w) <= Len(w.memo)
  /\ LET m == Written(w, debuggee.mem)
     IN /\ debuggee' = [debuggee EXCEPT !.mem = m]
        /\ w' = ReadFrom(w, m)
  /\ UNCHANGED part
----------------------------------------------------------------------------
(* The program stops somewhere, with another stack and other data:            *)
(* select_source_line and UPDATE_WATCH                                       *)

Refreshed(pc, depth, mem) ==
  CASE part = "stack" -> {UpdateStack([w EXCEPT !.frame = 0], depth)}
    [] part = "registers" -> {UpdateRegisters(w, pc)}
    [] part = "disassembler" -> UpdateLines(w, pc)
    [] part = "data" -> {IF w.open THEN ReadFrom(w, mem) ELSE w}
Stop(pc, depth, a, v) ==
  LET m == [debuggee.mem EXCEPT ![a] = v]
  IN /\ debuggee' = [started |-> TRUE, pc |-> pc, depth |-> depth, mem |-> m]
     /\ w' \in Refreshed(pc, depth, m) /\ UNCHANGED part
Parts ==
  [p \in {"watches", "stack", "registers", "disassembler", "data"} |->
     CASE p = "watches" -> NoBox [] p = "stack" -> NoStack [] p = "registers" -> NoRegisters
       [] p = "disassembler" -> NoLines [] p = "data" -> NoData]
Init ==
  /\ part \in DOMAIN Parts /\ w = Parts[part]
  /\ debuggee = [started |-> FALSE, pc |-> 0, depth |-> 0, mem |-> [a \in Memory |-> 0]]
Values == {0, 1}
Next ==
  \/ \E v \in Vars : (\E show \in BOOLEAN : AddWatch(v, show)) \/ cmEditWatch(v)
  \/ cmRemoveWatch \/ CloseWatches \/ cmWatchWindow \/ DeleteAllWatches
  \/ \E i \in 0..MaxWatches : FocusWatch(i)
  \/ ShowCallStackWindow \/ CloseStack \/ \E i \in 0..(MaxDepth - 1) : SelectFrame(i)
  \/ \E i \in 1..RegCount : ResizeRegisters(i)
  \/ kbUpRegister \/ kbDownRegister \/ \E i \in 0..(RegCount - 1) : MouseRegister(i)
  \/ \E v \in Entry : editRegister(v)
  \/ part = "disassembler" /\ \E i \in -1..Len(w.lines) : focusItemNum(i)
  \/ \E rows \in 1..MaxRows : ResizeLines(rows + 1) \/ ResizeData(rows)
  \/ createNew \/ stackWindow \/ CloseData \/ kbUp \/ kbDown \/ kbGrayMinus \/ kbGrayPlus \/ kbCtrlD \/ kbEnter
  \/ \E by \in {-1, 1} : kbLeftRight(by) \/ Scroll(by + MemSize)
  \/ \E a \in Memory : CheckAddress(a) \/ \E v \in Values : target_fill_mem(a, 2, v)
  \/ kbCtrlHomeEnd(0) \/ kbCtrlHomeEnd(w.rows - 1)
  \/ \E v \in Values : Type(v)
  \/ \E pc \in Entry, depth \in 1..MaxDepth, a \in Memory, v \in Values :
       /\ (part # "stack") => depth = 1
       /\ (part # "data") => a = 0 /\ v = 0
       /\ (part \notin {"registers", "disassembler"}) => pc = Min(Entry)
       /\ part # "watches" /\ Stop(pc, depth, a, v)
Spec == Init /\ [][Next]_vars
----------------------------------------------------------------------------
(* Properties *)

\* The box and the global list of watches have as many expressions, so a row
\* of the box is an index into the list; after a row is removed or changed.
WatchesInStep == part = "watches" /\ w.open => Len(w.list) = Len(w.saved)

\* Rows of the call stack are frames the program has: what is selected exists.
StackIsThePrograms ==
  part = "stack" /\ w.open => w.range = w.frame_count /\ w.frame_count = debuggee.depth /\
     (w.frame = 0 \/ w.frame < debuggee.depth)

\* The register selected exists, and nothing below the last one is drawn.
RegistersExist ==
  part = "registers" => w.selected < RegCount /\ w.start_offset + w.size <= RegCount

Ascends(lines) == \A i, j \in Instructions(lines) : i < j => lines[i] < lines[j]
\* Disassembled lines go up without a repeat, from start_address to
\* end_address, and the next line would be past them: after scrolling up into
\* bytes that decode in another way, and after a change of size.
LinesAscend ==
  part = "disassembler" /\ w.lines # <<>> =>
    /\ Ascends(w.lines) /\ w.start_address = FirstAddress(w.lines)
    /\ w.end_address = LastAddress(w.lines, 0) /\ w.next_address > w.end_address
\* The debuggee stops where decoding from another stop gets to: not a matter of
\* the window, but what the next property needs.
StopsDecode ==
  \A a, b \in Entry : a < b => \E k \in 1..(b - a) : disassemble(a, k).next = b
\* Unless lines were put above, there is a line for the place where the program
\* stops, and it is focused, or a line of text before it (tdiswin.cc:736-792).
StopIsFocused ==
  [][part = "disassembler" /\ debuggee' # debuggee /\ w'.start_address = w'.from =>
       \E i \in DOMAIN w'.lines :
         /\ w'.lines[i] = debuggee'.pc
         /\ w'.focused + 1 = i \/ (w'.focused + 1 < i /\ w'.lines[w'.focused + 1] = 0)]_vars

\* The buffer of a data window holds what is shown, and the cursor is on a
\* field of it; unless the window was made smaller than the row of the
\* cursor, or a line became empty.
BufferHolds ==
  part = "data" /\ w.open =>
    /\ BytesShown(w) <= Len(w.memo) /\ Len(w.memo) = w.mem_len
    /\ w.odd = {} => w.row < w.rows /\ curs2memo + FieldSize - 1 <= BytesShown(w)
    /\ w.bytesperline % FieldSize = 0
\* What is shown and not edited is what the program has there now.
MemoryIsShown ==
  part = "data" /\ w.open =>
    \A i \in 1..BytesShown(w) : w.memo[i].f = "READ" => w.memo[i].v = debuggee.mem[Addr(w.mem_start + i - 1)]
WindowsRight ==
  /\ WatchesInStep /\ StackIsThePrograms /\ RegistersExist
  /\ LinesAscend /\ BufferHolds /\ MemoryIsShown
=============================================================================
