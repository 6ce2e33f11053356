-------------------------------- MODULE Rhgdb --------------------------------
(***************************************************************************)
(* How RHGDB starts and what it keeps in its .rgd file (rhgdb/main.cc).      *)
(*                                                                         *)
(* An argument or a text is a sequence of characters, a line of the file     *)
(* begins with a key, with "[" or with the text of a watch.                  *)
(***************************************************************************)
EXTENDS CommandLine

CONSTANT Sections     \* the texts behind "[" that are names of sections

\* what the options and the .rgd file set
NoSettings == [usage |-> FALSE, use_dual_display |-> 0, language |-> NULL, init_name |-> NULL,
               progname |-> NULL, ProgArgs |-> <<>>]
Quiet == {"M", "K", "p", "b", "c", "y", "n"}     \* the mouse, the keyboard, DJGPP's names

\* mutant: what looks like an option is one, wherever it is
OptionFirst(st, arg) == arg = <<>> \/ arg[1] # "-"
\* the first argument that is no option is the program, all behind it are its own
IsProgram(st, arg) == st.progname # NULL \/ arg = <<>> \/ arg[1] # "-"
TakeProgram(st, arg) ==
  IF st.progname = NULL THEN [st EXCEPT !.progname = arg] ELSE [st EXCEPT !.ProgArgs = Append(@, arg)]
RECURSIVE ParseRhgdb(_, _)
ParseRhgdb(st, in) ==
  LET o == next_option(in)
      v == next_option(o.rest)
      letter == IF Len(o.arg) > 1 THEN o.arg[2] ELSE NULL
  IN CASE st.usage \/ o.arg = NULL -> st
       [] ~(st.usage \/ o.arg = NULL) /\ IsProgram(st, o.arg) -> ParseRhgdb(TakeProgram(st, o.arg), o.rest)
       [] OTHER ->
            CASE letter = "D" -> ParseRhgdb([st EXCEPT !.use_dual_display = 1], o.rest)
              [] letter \in Quiet -> ParseRhgdb(st, o.rest)
              [] letter = "G" -> ParseRhgdb([st EXCEPT !.usage = v.arg = NULL], v.rest)
              [] letter = "L" -> ParseRhgdb(Value(st, "language", v), v.rest)
              [] letter = "i" -> ParseRhgdb(Value(st, "init_name", v), v.rest)
              [] OTHER -> [st EXCEPT !.usage = TRUE]
parse_rhgdb(RHGDBOPT, argv) ==
  LET st == ParseRhgdb(NoSettings, [text |-> Trimmed(RHGDBOPT), argv |-> argv])
  IN [st EXCEPT !.usage = @ \/ (st.init_name = NULL /\ st.progname = NULL)]

\* main: the name up to its last ".", wherever that is
rgd == <<".", "rgd">>
init_name(st) ==
  LET dot == LastOf(st.progname, ".", Len(st.progname))
  IN IF st.init_name # NULL THEN st.init_name
     ELSE (IF dot = 0 THEN st.progname ELSE Upto(st.progname, dot - 1)) \o rgd
----------------------------------------------------------------------------
(* The file *)

Key(k, v) == <<k, v>>
Each(k, list) == [i \in DOMAIN list |-> Key(k, list[i])]
If(b, lines) == IF b THEN lines ELSE <<>>
Section(name) == << <<"[", name>> >>

WriteIDEOptions(o) ==
  Section("IDE") \o <<Key("SCREENMODE", o.screenMode)>> \o Each("SOURCEDIR", o.src_dirs)
  \o <<Key("TABSIZE", o.tabsize), Key("VERBOSEGDB", o.verbose_gdb_commands),
       Key("MAIN", o.main_function), Key("USE_DUAL", o.use_dual_display), Key("PROGRAM", o.progname)>>
  \o Each("ARG", o.ProgArgs)
\* the file name of a breakpoint at a function is not written
WriteBreakPoint(b) ==
  <<Key("TYPE", b.type)>>
  \o If("LINE" \in b.type, <<Key("FILE", b.filename), Key("LINE", b.line_number)>>)
  \o If("LINE" \notin b.type, <<Key("FUNCTION", b.function)>>)
  \o If("COUNT" \in b.type, <<Key("COUNT", b.count)>>)
  \o If("CONDITION" \in b.type, <<Key("CONDITION", b.condition)>>)
WriteBreakPoints(o) == Section("BREAKPOINTS") \o FlattenSeq([i \in DOMAIN o.breakpoints |-> WriteBreakPoint(o.breakpoints[i])])
\* a watch is written as it is
WriteWatches(o) == Section("WATCHES") \o o.Watches
SaveRgd(o) == WriteBreakPoints(o) \o WriteWatches(o) \o WriteIDEOptions(o)

\* the value of a key: the blanks before a text are skipped
TextKeys == {"SOURCEDIR", "MAIN", "PROGRAM", "ARG", "FILE", "FUNCTION", "CONDITION"}
Stripped(t) == From(t, Min({i \in DOMAIN t : t[i] # " "} \cup {Len(t) + 1}))
key_value(line) == IF line[1] \in TextKeys THEN Stripped(line[2]) ELSE line[2]

NoBreak == [type |-> {}, filename |-> NULL, line_number |-> 0, function |-> NULL, count |-> 0, condition |-> NULL]
\* EditBreakPoint: the type follows from what is there
EditBreakPoint(o, b) ==
  IF b.type = {} THEN o
  ELSE LET is == (IF b.function # NULL THEN {"FUNCTION"} ELSE {"LINE"})
                 \cup (IF b.count > 0 THEN {"COUNT"} ELSE {})
                 \cup (IF b.condition # NULL THEN {"CONDITION"} ELSE {})
       IN [o EXCEPT !.breakpoints =
             Append(@, [b EXCEPT !.type = (@ \ {"FUNCTION", "LINE", "COUNT", "CONDITION"}) \cup is])]
BreakField == ("COUNT" :> "count") @@ ("LINE" :> "line_number") @@ ("FILE" :> "filename")
              @@ ("FUNCTION" :> "function") @@ ("CONDITION" :> "condition")
\* reader: options so far, section, the breakpoint that is being read, and
\* whether there were arguments when the section began
\* mutant: what was read of the breakpoint before stays
ReadNextOf(r, line) ==
  CASE line[1] = "TYPE" -> [r EXCEPT !.o = EditBreakPoint(r.o, r.bp), !.bp.type = key_value(line)]
    [] line[1] \in DOMAIN BreakField -> [r EXCEPT !.bp[BreakField[line[1]]] = key_value(line)]
    [] OTHER -> r
ReadBreakPoints(r, line) ==
  CASE line[1] = "TYPE" -> [r EXCEPT !.o = EditBreakPoint(r.o, r.bp), !.bp = [NoBreak EXCEPT !.type = key_value(line)]]
    [] line[1] \in DOMAIN BreakField -> [r EXCEPT !.bp[BreakField[line[1]]] = key_value(line)]
    [] OTHER -> r
\* a line that begins with a blank is none
ReadWatches(r, line) == IF line # <<>> /\ line[1] = " " THEN r ELSE [r EXCEPT !.o.Watches = Append(@, line)]
Single == ("SCREENMODE" :> "screenMode") @@ ("TABSIZE" :> "tabsize") @@ ("VERBOSEGDB" :> "verbose_gdb_commands")
          @@ ("MAIN" :> "main_function") @@ ("USE_DUAL" :> "use_dual_display") @@ ("PROGRAM" :> "progname")
ReadIDEOptions(r, line) ==
  CASE line # <<>> /\ line[1] \in DOMAIN Single -> [r EXCEPT !.o[Single[line[1]]] = key_value(line)]
    [] line # <<>> /\ line[1] = "SOURCEDIR" -> [r EXCEPT !.o.src_dirs = Append(@, key_value(line))]
    [] line # <<>> /\ line[1] = "ARG" -> IF r.args THEN r ELSE [r EXCEPT !.o.ProgArgs = Append(@, key_value(line))]
    [] OTHER -> r
\* any line that begins with "[" ends a section, that of a watch too
NewSection(r, line) ==
  LET done == IF r.section = "BREAKPOINTS" THEN EditBreakPoint(r.o, r.bp) ELSE r.o
  IN [o |-> done, bp |-> NoBreak, args |-> done.ProgArgs # <<>>,
      section |-> IF Len(line) = 2 /\ line[2] \in Sections THEN line[2] ELSE "none"]
ReadLine(r, line) ==
  CASE line # <<>> /\ line[1] = "[" -> NewSection(r, line)
    [] ~(line # <<>> /\ line[1] = "[") /\ r.section = "BREAKPOINTS" -> ReadBreakPoints(r, line)
    [] ~(line # <<>> /\ line[1] = "[") /\ r.section = "WATCHES" -> ReadWatches(r, line)
    [] ~(line # <<>> /\ line[1] = "[") /\ r.section = "IDE" -> ReadIDEOptions(r, line)
    [] OTHER -> r
LoadRgd(lines, o) ==
  NewSection(FoldLeft(ReadLine, [o |-> o, bp |-> NoBreak, args |-> FALSE, section |-> "none"], lines), <<"[", "">>).o
----------------------------------------------------------------------------
(* Properties *)

\* Every argument behind the program is the program's, also one that begins
\* with "-" and those of $(RHGDBOPT); an option before it is never lost, and
\* without a program there is a file that names one, and else
\* the file is beside the program (unless the last "." is in a directory's name).
RhgdbStarts(text, argv) ==
  LET args == (IF Trimmed(text) = <<>> THEN <<>> ELSE Spoken(text)) \o argv
      st == parse_rhgdb(text, argv)
      takes == {i \in DOMAIN args : Len(args[i]) > 1 /\ args[i][1] = "-" /\ args[i][2] \in {"G", "L", "i"}}
      before(i) == i - 1 - Max({j \in 0..(i - 1) : j \notin takes})
      values == {i \in DOMAIN args : before(i) % 2 = 1}
      plain == {i \in DOMAIN args : args[i] = <<>> \/ args[i][1] # "-"} \ values
  IN ~st.usage =>
       /\ st.progname = IF plain = {} THEN NULL ELSE args[Min(plain)]
       /\ st.ProgArgs = IF plain = {} THEN <<>> ELSE From(args, Min(plain) + 1)
       /\ st.use_dual_display = 1 <=> \E i \in DOMAIN args : /\ args[i] = <<"-", "D">> /\ i \notin values
                                                             /\ plain = {} \/ i < Min(plain)
       /\ st.init_name = NULL =>
            LET slash == LastOf(st.progname, "/", Len(st.progname))
                dot == LastOf(st.progname, ".", Len(st.progname))
            IN /\ dot = 0 \/ dot > slash => Upto(init_name(st), slash) = Upto(st.progname, slash)
               /\ From(init_name(st), Len(init_name(st)) - 1) = rgd

\* A watch that begins with "[" or a blank
Odd(w) == w # <<>> /\ w[1] \in {"[", " "}
\* What was saved comes back, with no blanks before a text, but for the
\* program's arguments when there are some already, and for watches: one that
\* looks like a section ends the list, those that begin with a blank are left
\* out.  Whatever the watches are, breakpoints and options come back.
StrippedBreak(b) ==
  [b EXCEPT !.condition = IF @ = NULL THEN @ ELSE Stripped(@),
            !.function = IF @ = NULL THEN @ ELSE Stripped(@),
            !.filename = IF b.function # NULL THEN NULL ELSE Stripped(@)]
StrippedAll(list) == [i \in DOMAIN list |-> Stripped(list[i])]
RgdComesBack(o, empty, args) ==
  LET ends == {i \in DOMAIN o.Watches : o.Watches[i] # <<>> /\ o.Watches[i][1] = "["}
      kept == IF ends = {} THEN o.Watches ELSE Upto(o.Watches, Min(ends) - 1)
  IN LoadRgd(SaveRgd(o), [empty EXCEPT !.ProgArgs = args]) =
       [o EXCEPT !.ProgArgs = IF args = <<>> THEN StrippedAll(@) ELSE args,
                 !.src_dirs = StrippedAll(@), !.main_function = Stripped(@), !.progname = Stripped(@),
                 !.breakpoints = [i \in DOMAIN @ |-> StrippedBreak(@[i])],
                 !.Watches = SelectSeq(kept, LAMBDA w : ~Odd(w))]
=============================================================================
