----------------------------- MODULE CommandLine -----------------------------
(***************************************************************************)
(* How RHIDE starts and ends (idemain.cc): the options of $(RHIDEOPT) and of  *)
(* the command line, what is opened, where the program and its messages are,  *)
(* and the directory for temporary files.                                    *)
(*                                                                         *)
(* An argument is a sequence of characters; .gpr is <<".", "gpr">>.          *)
(***************************************************************************)
EXTENDS Paths

CONSTANT Platform       \* "DJGPP" or "Linux"

NULL == "NULL"
Debugs == {"s", "f", "d", "c", "t"}
ProjectExt == <<".", "gpr">>
(* What the options set: debug, the debug_... flags; switches, the others     *)
NoOptions == [debug |-> {}, switches |-> {}, LFN |-> NULL, keys |-> NULL, saving |-> NULL, language |-> NULL,
              PRJNAME |-> NULL, EDITNAME |-> NULL, usage |-> FALSE]

Trimmed(t) ==
  LET words == {i \in DOMAIN t : t[i] # " "}
  IN IF words = {} THEN <<>> ELSE SubSeq(t, Min(words), Max(words))
\* up to the next blank of $(RHIDEOPT), then the arguments; two blanks are an
\* empty argument
Upto1(t) == Min({i \in DOMAIN t : t[i] = " "} \cup {Len(t) + 1})
next_option(in) ==
  CASE in.text # <<>> -> [arg |-> Upto(in.text, Upto1(in.text) - 1),
                          rest |-> [in EXCEPT !.text = From(@, Upto1(@) + 1)]]
    [] in.text = <<>> /\ in.argv # <<>> -> [arg |-> Head(in.argv), rest |-> [in EXCEPT !.argv = Tail(@)]]
    [] OTHER -> [arg |-> NULL, rest |-> in]
----------------------------------------------------------------------------
Switches == {"P", "T", "C", "H", "S", "E", "M", "K", "p", "b", "c"}
Foreign == IF Platform = "DJGPP" THEN {"H"} ELSE {"T", "S", "M", "b", "c"}

\* mutant: a sign is for the next flag only
DebugOnce(d, c) ==
  CASE c \in {"-", "+"} -> [d EXCEPT !.enable = (c = "+")]
    [] c \in Debugs -> [d EXCEPT !.debug = IF d.enable THEN @ \cup {c} ELSE @ \ {c}, !.enable = TRUE]
    [] c = "a" -> [d EXCEPT !.debug = IF d.enable THEN Debugs ELSE {}]
    [] OTHER -> [d EXCEPT !.usage = TRUE]
\* behind -d: flags, each with the sign before it
Debug(d, c) ==
  CASE c \in {"-", "+"} -> [d EXCEPT !.enable = (c = "+")]
    [] c \in Debugs -> [d EXCEPT !.debug = IF d.enable THEN @ \cup {c} ELSE @ \ {c}]
    [] c = "a" -> [d EXCEPT !.debug = IF d.enable THEN Debugs ELSE {}]
    [] OTHER -> [d EXCEPT !.usage = TRUE]
DebugAll(st, chars) ==
  LET OneMore(d, c) == IF d.usage THEN d ELSE Debug(d, c)
      d == FoldLeft(OneMore, [debug |-> st.debug, enable |-> TRUE, usage |-> FALSE],
                    IF chars = <<>> THEN <<"a">> ELSE chars)
  IN [st EXCEPT !.debug = d.debug, !.usage = d.usage]

\* a file whose name has no suffix or that of projects is the project, another
\* one is to be edited; the project named before is forgotten in any case
Operand(st, arg) ==
  LET f == split_fname(arg)
  IN IF f.ext = <<>> \/ f.ext = ProjectExt THEN [st EXCEPT !.PRJNAME = f.dir \o f.name \o ProjectExt]
     ELSE [st EXCEPT !.PRJNAME = NULL, !.EDITNAME = arg]

Value(st, field, o) == IF o.arg = NULL THEN [st EXCEPT !.usage = TRUE] ELSE [st EXCEPT ![field] = o.arg]
RECURSIVE Parse(_, _)
Parse(st, in) ==
  LET o == next_option(in)
      v == next_option(o.rest)
      letter == IF Len(o.arg) > 1 THEN o.arg[2] ELSE NULL
  IN CASE st.usage \/ o.arg = NULL -> st
       [] ~(st.usage \/ o.arg = NULL) /\ (o.arg = <<>> \/ o.arg[1] # "-") -> Parse(Operand(st, o.arg), o.rest)
       [] OTHER ->
            CASE letter \in Switches \ Foreign -> Parse([st EXCEPT !.switches = @ \cup {letter}], o.rest)
              [] letter \in Foreign -> Parse(st, o.rest)
              [] letter \in {"y", "n"} ->
                   Parse(IF Platform = "DJGPP" THEN [st EXCEPT !.LFN = letter] ELSE st, o.rest)
              [] letter = "G" -> Parse(IF Platform = "DJGPP" THEN Value(st, "saving", v) ELSE st, v.rest)
              [] letter = "k" -> Parse(Value(st, "keys", v), v.rest)
              [] letter = "L" -> Parse(Value(st, "language", v), v.rest)
              [] letter = "d" -> Parse(DebugAll(st, From(o.arg, 3)), o.rest)
              [] OTHER -> [st EXCEPT !.usage = TRUE]
parse_commandline(RHIDEOPT, argv) == Parse(NoOptions, [text |-> Trimmed(RHIDEOPT), argv |-> argv])
----------------------------------------------------------------------------
(* What is opened *)

\* the projects of the directory; chosen: what the dialog would answer
find_project(projects, chosen) ==
  CASE Cardinality(projects) = 0 -> NULL
    [] Cardinality(projects) = 1 -> CHOOSE p \in projects : TRUE
    [] OTHER -> chosen
\* main: usage and the environment end the program, a file is opened only
\* when there is no project at all
main(st, projects, chosen) ==
  LET prj == IF st.PRJNAME = NULL THEN find_project(projects, chosen) ELSE st.PRJNAME
  IN CASE st.usage -> [does |-> "usage", project |-> NULL, edit |-> NULL]
       [] ~st.usage /\ "E" \in st.switches -> [does |-> "dump_environment", project |-> NULL, edit |-> NULL]
       [] OTHER -> [does |-> "run", project |-> prj, edit |-> IF prj = NULL THEN st.EDITNAME ELSE NULL]

\* argv[0] as it is, or found on PATH
setup_argv0(argv0, path, cwd, disk) ==
  LET found == SelectInSeq(path, LAMBDA d : d \o <<"/">> \o BaseName(argv0, TRUE) \in disk)
  IN FExpand(IF argv0 \in disk \/ found = 0 THEN argv0
             ELSE path[found] \o <<"/">> \o BaseName(argv0, TRUE), cwd)
----------------------------------------------------------------------------
(* The directory for temporary files.  env: variables and the directories    *)
(* they name; may: directories in which one may be made.                     *)

Wanted(env, cwd) ==
  LET set == SelectSeq(<<"TMPDIR", "TEMP", "TMP">>, LAMBDA v : v \in DOMAIN env)
  IN IF set # <<>> THEN env[Head(set)] ELSE IF Platform = "DJGPP" THEN cwd ELSE "/tmp"
\* mutant: the other directory is not tried
OnlyWanted(env, cwd, may) ==
  [tmpdir |-> <<Wanted(env, cwd), "mask">>, made |-> Wanted(env, cwd) \in may]
set_tmpdir(env, cwd, may) ==
  IF Wanted(env, cwd) \in may THEN [tmpdir |-> <<Wanted(env, cwd), "mask">>, made |-> TRUE]
  ELSE [tmpdir |-> <<cwd, "mask.tmp">>, made |-> cwd \in may]
\* at exit: all files in it, and the directory when nothing else is left
remove_tmpdir(t, st, entries) ==
  IF ~t.made \/ "t" \in st.debug \/ "P" \in st.switches THEN [left |-> entries, dir |-> t.made]
  ELSE [left |-> {x \in entries : x = "directory"}, dir |-> "directory" \in entries]
----------------------------------------------------------------------------
(* Properties *)

Takes(arg) == Len(arg) > 1 /\ arg[1] = "-" /\ arg[2] \in {"k", "L", "G"}
\* which of the arguments belong to the option before them
Belong(args) ==
  LET b[i \in DOMAIN args] == i > 1 /\ ~b[i - 1] /\ Takes(args[i - 1])
  IN {i \in DOMAIN args : b[i]}
IsOption(args, i) == i \notin Belong(args) /\ args[i] # <<>> /\ args[i][1] = "-"
Operands(args) == {i \in DOMAIN args \ Belong(args) : ~IsOption(args, i)}
IsProject(arg) == split_fname(arg).ext \in {<<>>, ProjectExt}
\* the texts behind -d, put behind each other, each beginning with "+"
DebugText(args) ==
  FlattenSeq([i \in DOMAIN args |->
    IF IsOption(args, i) /\ Len(args[i]) > 1 /\ args[i][2] = "d"
    THEN <<"+">> \o (IF Len(args[i]) = 2 THEN <<"a">> ELSE From(args[i], 3)) ELSE <<>>])
Enabled(text, f) ==
  LET last == Max({i \in DOMAIN text : text[i] \in {f, "a"}} \cup {0})
      sign == Max({i \in 1..last : text[i] \in {"+", "-"}} \cup {0})
  IN last # 0 /\ text[sign] = "+"
Spoken(t) == LET w == Trimmed(t)
             IN [i \in 1..(Count(w, " ") + 1) |->
                   LET from == IF i = 1 THEN 0 ELSE SetToSortSeq({j \in DOMAIN w : w[j] = " "}, <)[i - 1]
                       to == Min({j \in DOMAIN w : j > from /\ w[j] = " "} \cup {Len(w) + 1})
                   IN SubSeq(w, from + 1, to - 1)]
\* What usage() offers: the project and the file that were named last are opened.
OfferKept(m, project, file) ==
  /\ project # NULL => m.project # NULL /\ split_fname(m.project).name = split_fname(project).name
  /\ file # NULL => m.edit = file
\* The options of $(RHIDEOPT) are as if given before the real ones, a flag of
\* -d is the one of the last option about it, and an argument of an option is
\* nothing to be opened.  What usage() offers is kept for a project alone and for
\* a file alone where no project is found; nothing is claimed of a project and a
\* file together, or of a file in the directory of a project, where the code does
\* not do what usage() and the manual say.
OptionsRight(text, argv) ==
  LET args == (IF Trimmed(text) = <<>> THEN <<>> ELSE Spoken(text)) \o argv
      st == parse_commandline(text, argv)
      lastOf(S) == IF S = {} THEN NULL ELSE args[Max(S)]
      project == lastOf({i \in Operands(args) : IsProject(args[i])})
      file == lastOf({i \in Operands(args) : ~IsProject(args[i])})
  IN /\ st = parse_commandline(<<>>, args)
     /\ ~st.usage => st.debug = {f \in Debugs : Enabled(DebugText(args), f)}
     /\ \A chosen \in {NULL, <<"q">> \o ProjectExt} : \A ps \in {{}, {<<"r">> \o ProjectExt}} :
          LET m == main(st, ps, chosen)
          IN m.does = "run" =>
               /\ file = NULL \/ (project = NULL /\ ps = {}) => OfferKept(m, project, file)
               /\ project = NULL /\ file = NULL => m.edit = NULL /\ m.project = find_project(ps, chosen)

\* A directory for temporary files is made whenever one can be, and at the end
\* nothing of it is left but what was asked for and other directories; one
\* that was not made is left alone.
TempRight(env, cwd, may, st, entries) ==
  LET t == set_tmpdir(env, cwd, may)
      r == remove_tmpdir(t, st, entries)
  IN /\ may \cap {Wanted(env, cwd), cwd} # {} => t.made /\ t.tmpdir[1] \in may
     /\ ~t.made => r.left = entries
     /\ t.made /\ ~r.dir => r.left = {}
     /\ t.made /\ r.dir => r.left # {} \/ "t" \in st.debug \/ "P" \in st.switches
=============================================================================
