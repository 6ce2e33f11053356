------------------------------ MODULE Makefile ------------------------------
(***************************************************************************)
(* The makefile of a project (idemak.cc, gpr2mak.cc): which rules and         *)
(* variables are written, in which order and with which numbers, and how     *)
(* long lines are broken. The text of a command is left out.                 *)
(***************************************************************************)
EXTENDS CompileSpecs, Paths

(* put_breakline: <<>> ends a text; a line that is continued ends with "\\"    *)

\* the place of the last blank that leaves the line short enough, 0 for none
BlankBefore(s, room) == LastOf(s, " ", Min({room + 1, Len(s)}))
RECURSIVE put_breakline(_, _, _), BreakBehind(_, _, _)
BreakBehind(start_len, max_len, s) ==  \* mutant: the blank is lost and one more
  LET at == BlankBefore(s, max_len - start_len)
  IN IF Len(s) + start_len <= max_len \/ at <= 1 THEN <<s>>
     ELSE <<Upto(s, at - 1)>> \o put_breakline(8, max_len, From(s, at + 2))
put_breakline(start_len, max_len, s) ==
  LET at == BlankBefore(s, max_len - start_len)
  IN IF Len(s) + start_len <= max_len \/ at <= 1 THEN <<s>>
     ELSE <<Upto(s, at - 1)>> \o put_breakline(8, max_len, From(s, at + 1))
----------------------------------------------------------------------------
(* Items: the file that is made, its source, whether it is a project, its      *)
(* way of compiling, what it depends on, and how many options of its own      *)

Item(dest, source, id, deps, local) ==
  [name |-> dest, source |-> source, id |-> id, items |-> deps, local |-> local,
   project |-> id = "PROJECT", dest |-> IF id = "NONE" THEN "HEADER" ELSE "OBJECT",
   exclude |-> FALSE]
\* the items of a sub-project are in a file of their own
Wanted(dep) == IF dep.project THEN <<>> ELSE dep.items
Force(dep) == dep.source \o ".force"
NeededBy(dep) == IF dep.project THEN Force(dep) ELSE dep.name
Names(deps) == [i \in DOMAIN deps |-> NeededBy(deps[i])]

\* what is written: numbered variables, rules, phony targets
Deps(n, names) == [kind |-> "deps", n |-> n, names |-> names]
Rule(n, name) == [kind |-> "rule", n |-> n, names |-> <<name>>]
Phony(n, name) == [kind |-> "force", n |-> n, names |-> <<name>>]
Local(n, source) == [kind |-> "local", n |-> n, names |-> <<source>>]

\* DEPS_0 lists the files that are linked, the others their dependencies
DepsOf(dep, n, all) ==
  LET own == IF dep.project \/ dep.source = "" THEN <<>> ELSE <<dep.source>>
  IN Deps(n, own \o (IF ~all THEN <<>>
                     ELSE IF n = 0 THEN _objfiles(dep.items, 0, FALSE) \o
                                        [i \in DOMAIN _libraries(dep.items, 0) |->
                                           _libraries(dep.items, 0)[i].name]
                     ELSE Names(Wanted(dep))))

\* s: the number of targets so far, their names, the lines; a file is written
\* once, one that needs no compiling not at all
RECURSIVE WriteTarget(_, _, _, _), WriteTwice(_, _, _, _)
WriteTwice(s, dep, depth, AllDeps) ==  \* mutant: without AddTarget
  LET n == s.count
      deep == (AllDeps \/ depth < 2) /\ Wanted(dep) # <<>>
      t == [s EXCEPT !.count = @ + 1,
                     !.out = @ \o <<DepsOf(dep, n, deep), Rule(n, dep.name)>>]
  IN IF n > 0 /\ dep.id = "NONE" THEN s
     ELSE IF deep THEN FoldLeft(LAMBDA x, d : WriteTwice(x, d, depth + 1, AllDeps), t, Wanted(dep))
          ELSE t
WriteTarget(s, dep, depth, AllDeps) ==
  LET n == s.count
      seen == dep.name # "" /\ dep.name \in Range(s.targets)
      added == IF dep.name = "" THEN s ELSE [s EXCEPT !.targets = Append(@, dep.name)]
      deep == (AllDeps \/ depth < 2) /\ Wanted(dep) # <<>>
      t == [added EXCEPT !.count = @ + 1,
              !.out = @ \o <<DepsOf(dep, n, deep),
                             IF dep.project THEN Phony(n, Force(dep))
                             ELSE Rule(n, dep.name)>>]
      below == FoldLeft(LAMBDA x, d : WriteTarget(x, d, depth + 1, AllDeps), t,
                        IF deep THEN Wanted(dep) ELSE <<>>)
  IN IF seen THEN s
     ELSE IF (n > 0 /\ dep.id = "NONE") \/ (dep.name = "" /\ Wanted(dep) = <<>>) THEN added
     ELSE IF dep.local = 0 THEN below
     ELSE [below EXCEPT !.out = Append(@, Local(below.count - 1, dep.source))]

WriteTargets(prj, AllDeps) ==
  WriteTarget([count |-> 0, targets |-> <<>>, out |-> <<>>], prj, 1, AllDeps).out

\* check_vars: the names between "$(" and ")" in the directories of the options
References(d) ==
  {i \in DOMAIN d : d[i] = "$" /\ \E j \in i..Len(d) : d[j] = ")"}
check_vars(dirs) ==
  UNION {{SubSeq(d, i + 2, Min({j \in i..Len(d) : d[j] = ")"}) - 1) : i \in References(d)} :
           d \in Range(dirs)}
\* the order of the parts: all and clean first, then the targets, "all" of the
\* main target last, so that sub-projects are made before it is linked
WriteMake(prj, AllDeps) ==
  <<[kind |-> "all", n |-> 0, names |-> <<>>]>> \o WriteTargets(prj, AllDeps)
  \o <<[kind |-> "all", n |-> 0,
        names |-> <<IF prj.name = "" THEN "TARGET_0" ELSE prj.name>>]>>
----------------------------------------------------------------------------
(* gpr2mak: the options up to the project's name *)

DefaultFlags == [recursive |-> FALSE, all_deps |-> TRUE, default_vars |-> FALSE,
                 out |-> "", project |-> "", missing |-> FALSE]
RECURSIVE Parsed(_, _)
Parsed(s, args) ==
  IF args = <<>> \/ s.project # "" \/ s.missing THEN s
  ELSE LET a == Head(args)
           on(f, v) == Parsed([s EXCEPT ![f] = v], Tail(args))
       IN CASE a = "-V" -> on("default_vars", TRUE) [] a = "-V-" -> on("default_vars", FALSE)
            [] a = "-r" -> on("recursive", TRUE)    [] a = "-r-" -> on("recursive", FALSE)
            [] a = "-d" -> on("all_deps", TRUE)     [] a = "-d-" -> on("all_deps", FALSE)
            [] a = "-o" -> IF Len(args) = 1 THEN on("missing", TRUE)
                           ELSE Parsed([s EXCEPT !.out = args[2]], SubSeq(args, 3, Len(args)))
            [] OTHER -> on("project", a)
\* what main returns, 0 when the makefile is written
gpr2mak(args, exists) ==
  LET s == Parsed(DefaultFlags, args)
  IN IF s.missing THEN 1 ELSE IF s.project = "" THEN 2
     ELSE IF s.out # "" /\ s.recursive THEN 4 ELSE IF s.project \notin exists THEN 3 ELSE 0
----------------------------------------------------------------------------
(* What it promises *)

\* Breaking loses nothing but the blank it breaks at, and a line is too long
\* only when it has no blank to break at (idemak.cc:135-190)
BreakRight(start_len, max_len, s) ==
  LET lines == put_breakline(start_len, max_len, s)
      whole == FoldLeft(LAMBDA a, b : a \o <<" ">> \o b, Head(lines), Tail(lines))
  IN /\ whole = s
     /\ \A i \in DOMAIN lines :
          LET start == IF i = 1 THEN start_len ELSE 8
          IN Len(lines[i]) + start > max_len =>
               BlankBefore(lines[i], max_len - start) <= 1

\* Each number is given once and its options are those of the file that has it;
\* each file that is compiled has one rule, and what a rule needs and is made
\* here has one too (idemak.cc:279-476)
RECURSIVE Below(_)
Below(dep) == {dep} \cup UNION {Below(d) : d \in Range(Wanted(dep))}
Of(lines, k) == SelectSeq(lines, LAMBDA l : l.kind = k)
MakefileRight(prj, AllDeps) ==
  LET lines == WriteTargets(prj, AllDeps)
      deps == Of(lines, "deps")
      rules == Of(lines, "rule") \o Of(lines, "force")
      made == IF AllDeps THEN Below(prj) ELSE {prj} \cup Range(prj.items)
      rule(d) == {i \in DOMAIN rules : rules[i].names = <<NeededBy(d)>>}
  IN /\ \A i \in DOMAIN deps : deps[i].n = i - 1
     /\ Len(rules) = Len(deps) /\ \A r \in Range(rules) : r.n \in 0..(Len(deps) - 1)
     /\ \A d \in made \ {prj} : Cardinality(rule(d)) = (IF d.id = "NONE" THEN 0 ELSE 1)
     /\ \A l \in Range(Of(lines, "local")) : \E d \in made, r \in Range(rules) :
          d.source = l.names[1] /\ r.n = l.n /\ r.names = <<d.name>>
=============================================================================
