----------------------------- MODULE Conversions -----------------------------
(***************************************************************************)
(* What RHIDE computes without a state of its own, one input after another:   *)
(* file names, $(...) texts, makefiles and compiler specs, streams, the       *)
(* output of tools, the command line.  And three computations that have a     *)
(* state: the variables of rhide.env, the search for files, and the windows  *)
(* of the stand-alone debugger.                                              *)
(*                                                                         *)
(* A behaviour is about one of them: probe is the input that is looked at, or *)
(* says which of the three states changes.                                   *)
(***************************************************************************)
EXTENDS Environment, FileSearch, Viewer

CONSTANTS
  FileNames,      \* names to split and to fix
  Directories,    \* absolute directories
  Texts,          \* expressions of $(...), as trees
  World,          \* what they look into
  Projects,       \* projects to write a makefile of
  ItemTrees,      \* items of projects, with sub-projects
  Lines,          \* texts of a makefile
  ProjectFiles, EmptyProject, Desktops, EmptyDesktop, Versions, HistoryIDs,
  Number, Chopped, Letters, BaseOf, Findable,    \* words of what tools print
  Said, Headers, Noise,  \* what they say; headers, and other lines of a linker
  Calls,                 \* calls of a compiler
  Arguments, OptionTexts, Platform,    \* arguments, texts of $(RHIDEOPT)
  TempEnvs,              \* values of TMPDIR, TEMP and TMP
  Sections, RhgdbTexts, RhgdbArguments, RgdSettings, RgdDefaults,    \* what RHGDB keeps
  Lower, Inside, Similar, InfoFile, Indices, InfoLists, Infos    \* words, INFO files, indices

P == INSTANCE Paths
X == INSTANCE Specs
M == INSTANCE Makefile
R == INSTANCE Streams
O == INSTANCE Outputs
L == INSTANCE CommandLine
G == INSTANCE Rhgdb
I == INSTANCE SyntaxIndex

VARIABLE probe
vars == <<envvars, searchvars, viewvars, probe>>

Looking(kind) == probe.kind = kind
Nothing == [kind |-> "nothing"]
Searching == [kind |-> "searching"]
Viewing == [kind |-> "viewing"]
Idle == probe = Nothing /\ UNCHANGED <<envvars, searchvars, viewvars>>
----------------------------------------------------------------------------
(* Texts as trees, and what they are written as *)

RECURSIVE Written(_)
Written(e) ==
  CASE e.k = "text" -> e.s
    [] e.k = "dollar" -> <<"$", "$">>
    [] e.k = "two" -> Written(e.a) \o Written(e.b)
    [] e.k = "ref" -> <<"$", "(">> \o Written(e.name) \o <<")">>
    [] e.k = "one" -> <<"$", "(", e.f, " ">> \o Written(e.a) \o <<")">>
    [] e.k = "pair" -> <<"$", "(", e.f, " ">> \o Written(e.a) \o <<",">> \o Written(e.b) \o <<")">>
    [] OTHER -> <<"$", "(", e.f, " ">> \o Written(e.a) \o <<",">> \o Written(e.b) \o <<",">>
                  \o Written(e.c) \o <<")">>

\* A text that is read after its $$ became its end
Dollars(s) == {i \in DOMAIN s : i < Len(s) /\ s[i] = "$" /\ s[i + 1] = "$"}
RECURSIVE Ended(_)
Ended(e) ==
  IF Dollars(Written(e)) = {} THEN e
  ELSE IF e.k = "two" /\ Dollars(Written(e.a)) = {} THEN [e EXCEPT !.b = Ended(@)]
  ELSE IF e.k = "two" THEN Ended(e.a)
  ELSE [k |-> "text", s |-> P!Upto(Written(e), Min(Dollars(Written(e))))]

\* What a text means: arguments before functions, values of variables as texts
\* in turn, and the variable of foreach only inside it, whose body ends at its
\* $$ after the first word
RECURSIVE Means(_, _)
Means(e, scope) ==
  LET M1(x) == Means(x, scope)
      each(i) == Means(IF i = 1 THEN e.c ELSE Ended(e.c),
                       (M1(e.a) :> [k |-> "text", s |-> X!Words(M1(e.b))[i]]) @@ scope)
      bodies == SelectSeq([i \in DOMAIN X!Words(M1(e.b)) |-> each(i)], LAMBDA t : t # <<>>)
  IN CASE e.k = "text" -> e.s
       [] e.k = "dollar" -> <<"$">>
       [] e.k = "two" -> M1(e.a) \o M1(e.b)
       [] e.k = "ref" -> LET n == M1(e.name)
                         IN IF n \in DOMAIN scope THEN Means(scope[n], scope) ELSE <<>>
       [] e.k = "one" -> X!Apply1(World, e.f, M1(e.a))
       [] e.k = "pair" -> X!Apply2(e.f, M1(e.a), M1(e.b))
       [] e.f = "subst" -> X!string_function_subst(M1(e.a), M1(e.b), M1(e.c))
       [] OTHER -> X!Joined(bodies)
\* the variables of World, written out for the program
Known == [World EXCEPT !.user = [n \in DOMAIN @ |-> Written(@[n])],
                       !.vars = [n \in DOMAIN @ |-> Written(@[n])],
                       !.env = [n \in DOMAIN @ |-> Written(@[n])]]
----------------------------------------------------------------------------
\* one of the states in which no project is open: inputs are looked at in no other
\* one of the states in which no project is open: inputs are looked at in no other
Frozen == inside = <<>> /\ edits = 0 /\ \A f \in DOMAIN EnvFiles : text[f] = CHOOSE t \in EnvFiles[f] : TRUE
\* any input, while no project is open
Look ==
  /\ probe = Nothing /\ Frozen /\ UNCHANGED <<envvars, searchvars, viewvars>>
  /\ \/ \E f \in FileNames : probe' = [kind |-> "name", f |-> f]
     \/ \E d \in Directories, e \in Directories : probe' = [kind |-> "dirs", from |-> d, to |-> e]
     \/ \E e \in Texts : probe' = [kind |-> "text", e |-> e]
     \/ \E p \in Projects, all \in BOOLEAN : probe' = [kind |-> "make", p |-> p, all |-> all]
     \/ \E is \in ItemTrees : probe' = [kind |-> "items", is |-> is]
     \/ \E s \in Lines : probe' = [kind |-> "line", s |-> s]
     \/ \E from \in DOMAIN M!Suffix, to \in {"o", "s", "i", "ii"} :
          probe' = [kind |-> "types", from |-> from, to |-> to]
     \/ \E os \in {"DJGPP", "Linux"}, pascal \in {"GPC", "FPC"} :
          probe' = [kind |-> "variables", os |-> os, pascal |-> pascal]
     \/ \E p \in ProjectFiles : probe' = [kind |-> "project", p |-> p]
     \/ \E c \in {"c", "fpc", "link", "ar", "ada"} : \E ms \in SeqOf({m \in Said : O!Speaks(c, m)}, 2) :
          probe' = [kind |-> "output", c |-> c, ms |-> ms]
     \/ \E b \in SeqOf(Noise, 2) : probe' = [kind |-> "noise", before |-> b]
     \/ \E hs \in SeqOf(Headers, 3) : probe' = [kind |-> "headers", hs |-> hs]
     \/ \E call \in Calls, ret \in {0, 1} : probe' = [kind |-> "call", call |-> call, ret |-> ret]
     \/ \E d \in Desktops, v \in Versions : probe' = [kind |-> "desktop", d |-> d, v |-> v]
     \/ \E t \in OptionTexts, as \in SeqOf(Arguments, 2) : probe' = [kind |-> "start", t |-> t, as |-> as]
     \/ \E env \in TempEnvs, may \in SUBSET {"/tmp", "/t", "."} :
          probe' = [kind |-> "temp", env |-> env, may |-> may]
     \/ \E t \in RhgdbTexts, as \in SeqOf(RhgdbArguments, 2) : probe' = [kind |-> "rhgdb", t |-> t, as |-> as]
     \/ \E o \in RgdSettings : probe' = [kind |-> "rgd", o |-> o]
     \/ \E i \in Indices, l \in InfoLists, info \in Infos :
          probe' = [kind |-> "help", index |-> i, list |-> l, info |-> info]
LookAway == probe \notin {Nothing, Searching, Viewing} /\ probe' = Nothing /\ UNCHANGED <<envvars, searchvars, viewvars>>
Change == probe = Nothing /\ EnvNext /\ UNCHANGED <<searchvars, viewvars, probe>>
StartSearch == probe = Nothing /\ Frozen /\ probe' = Searching /\ UNCHANGED <<envvars, searchvars, viewvars>>
SearchStep == probe = Searching /\ SearchNext /\ UNCHANGED <<envvars, viewvars, probe>>
StartViewing == probe = Nothing /\ Frozen /\ probe' = Viewing /\ UNCHANGED <<envvars, searchvars, viewvars>>
ViewStep == probe = Viewing /\ ViewNext /\ UNCHANGED <<envvars, searchvars, probe>>

Init == EnvInit /\ SearchInit /\ ViewInit /\ probe = Nothing
Next == Look \/ LookAway \/ Change \/ StartSearch \/ SearchStep \/ StartViewing \/ ViewStep
Spec == Init /\ [][Next]_vars
----------------------------------------------------------------------------
(* Properties *)

\* Names: splitting loses nothing, a fixed name is absolute and leads to the
\* same place, a relative one leads back, and the one in a makefile, which may
\* begin with a variable, is the same file.  Names on the command line: the
\* project, the file and the options are those that were given last, the
\* arguments of the debugged program are its own, and the directory for temporary files is made where it can be, and removed.
NamesRight ==
  /\ Looking("name") =>
       /\ P!SplitRight(probe.f)
       /\ \A cwd \in {<<"/", "a">>, <<"/", "a", "/", "b">>} : P!FixRight(probe.f, cwd)
  /\ Looking("dirs") =>
       /\ \A allow \in BOOLEAN : P!RelativeRight(probe.from, probe.to, allow, 0)
       /\ \A d \in Directories :
            Len(d) < 4 => P!InMakefileRight(probe.to, probe.from, <<d, <<"/", "a">>>>)
  /\ Looking("start") => L!OptionsRight(probe.t, probe.as)
  /\ Looking("rhgdb") => G!RhgdbStarts(probe.t, probe.as)
  /\ Looking("temp") =>
       \A debug \in {{}, {"t"}}, switches \in {{}, {"P"}}, entries \in SUBSET {"file", "directory"} :
         L!TempRight(probe.env, ".", probe.may, [L!NoOptions EXCEPT !.debug = debug, !.switches = switches], entries)

\* Texts: however functions, variables in names and values, foreach, $$ and
\* commas inside of braces are put into each other, what comes out is what the
\* text means (unless two loops inside each other use one variable).  A body of
\* foreach is not read as it was written: expanding it for the first word ends it
\* at its first $$, wherever that stands in it, and the words after the first
\* have only that part of it.
TextsRight ==
  Looking("text") =>
    X!expand_spec(Known, Written(probe.e)) = Means(probe.e, World.user @@ World.vars @@ World.env)

\* A compiler spec found by the suffixes and the one found by the way of
\* compiling are the same command, and every variable in one is defined (but
\* for Objective C, of which the default variables have no command).
SpecsRight ==
  /\ Looking("variables") =>
       LET vs == M!default_variables(probe.os)
       IN \A v \in DOMAIN vs : \A n \in M!Met(vs, {v}, probe.pascal, 4) :
            n \in DOMAIN vs \cup M!Tokens \cup M!Outside
  /\ Looking("types") =>
       LET vs == M!default_variables("DJGPP")
           id == M!how_to_compile(M!get_file_type(probe.from), M!get_file_type(probe.to))
           spec == M!GetCompilerSpec("AUTO", id, <<>>, "GPC", vs, probe.from, probe.to)
           direct == M!ById(id, <<>>, "GPC", vs, probe.from, probe.to)
       IN /\ spec # <<>> /\ spec # <<"RHIDE_COMPILE_OBJC">> => spec[1] \in DOMAIN vs
          /\ spec # <<>> /\ direct # <<>> /\ M!GetUserCompileSpec(vs, probe.from, probe.to) # <<>> =>
               direct[1] \in UNION {M!Met(vs, {spec[1]}, "GPC", n) : n \in 0..3}

\* Makefiles: each file has one rule with the number and the options that are
\* its own, an object is linked once, those of libraries and excluded ones
\* never, and a broken line is the same words.
MakefilesRight ==
  /\ Looking("make") => M!MakefileRight(probe.p, probe.all)
  /\ Looking("line") => \A start \in {0, 3} : M!BreakRight(start, 10, probe.s)
  /\ Looking("items") =>
       \A check \in 0..2, all \in BOOLEAN :
         LET objs == M!_objfiles(probe.is, check, all)
         IN IsInjective(objs) /\ \A i \in DOMAIN probe.is :
              LET x == probe.is[i]
              IN /\ ~x.project => (x.name \in Range(objs) <=> M!Object(x) /\ ~M!Skipped(x, check))
                 /\ x.project /\ ~all /\ M!Separate(x) =>
                      Range(M!Nested(x.items, check)) \cap Range(objs) = {}


\* Output: every line becomes one message of the right file, line and kind, a
\* tool's failure is a failure, a warning never is one, and dependencies are
\* the headers the compiler lists.
OutputsRight ==
  /\ Looking("output") => \A old \in {0, 5} : O!OutputRight(probe.c, probe.ms, old)
  /\ Looking("output") /\ probe.c = "ar" => O!UserRight(probe.ms)
  /\ Looking("noise") => \A after \in SeqOf(Noise, 1) : O!UseIsWarning(probe.before, after)
  /\ Looking("headers") =>
       \A breaks \in SUBSET DOMAIN probe.hs : O!DepsRight(probe.hs, breaks, {"/usr/stdio.h"})
  /\ Looking("call") => \A fpc \in BOOLEAN, m1, m2 \in Noise :
       O!ResultRight(probe.call, fpc, probe.ret, <<m1, m2>>, 0)

\* Files: a project and a desktop are read back as they were written, by this
\* version and by older ones; options bring nothing else; a desktop that is
\* refused leaves windows and settings as they are (watches and breakpoints are
\* gone before it is looked at).  The settings of the stand-alone debugger
\* come back.  The index of the help has the topics of the INFO files listed.
StreamsRight ==
  /\ Looking("project") => R!ProjectComesBack(probe.p)
  /\ Looking("desktop") =>
       /\ probe.v \in 19..27 => R!DesktopComesBack(probe.d, EmptyDesktop, probe.v, HistoryIDs)
       /\ probe.v = 27 =>
            \A p \in ProjectFiles, d \in {EmptyDesktop, [probe.d EXCEPT !.Watches = <<"own">>]} :
              R!OptionsBringNoSession(p, probe.d, CHOOSE q \in ProjectFiles : q.dependencies # <<>>, d,
                                       EmptyProject, HistoryIDs)
       /\ R!RefusedChangesNothing(R!SaveDesktop(probe.d, TRUE, probe.v), probe.d, HistoryIDs)
  /\ Looking("help") => \A drop \in SUBSET Range(probe.list) :
       I!IndexRight(probe.index, probe.list, probe.info, drop)
  /\ Looking("rgd") => \A args \in {<<>>, <<<<"c">>>>} : G!RgdComesBack(probe.o, RgdDefaults, args)
=============================================================================
