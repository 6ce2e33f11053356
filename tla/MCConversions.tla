---------------------------- MODULE MCConversions ----------------------------
EXTENDS Conversions

\* variables of rhide.env: a name is computed, a file includes another one
MCRank == [n \in VarNames |-> CASE n = "A" -> 1 [] n = "B" -> 2 [] n = "V_$(A)" -> 3 [] n = "V_1" -> 4 [] OTHER -> 5]
MCComputed == "V_$(A)" :> [of |-> "A", names |-> (<<"1">> :> "V_1")]
MCDefaults == [n \in {"B"} |-> <<"b">>]
MCEnv == [n \in {"A"} |-> <<"1">>]
Sets(n, c) == Line("set", n, <<c>>)
MCFiles ==
  ("inc" :> {<<>>, <<Sets("B", "2"), Sets("B", "3")>>})
  @@ ("p" :> {<<Sets("A", "3"), Line("add", "A", <<"x">>)>>,
              <<Line("include", "inc", <<>>), Line("add", "B", <<"y">>)>>})
  @@ ("q" :> {<<Sets("V_$(A)", "v"), Line("export", "E", <<"1">>), Sets("B", "2")>>})
MCConfig == <<"q">>
ASSUME Computing == NamesLast
----------------------------------------------------------------------------
\* names of up to 5 characters, directories of up to 3 parts
Strings(chars, n) == UNION {[1..k -> chars] : k \in 0..n}
MCFileNames == Strings({"/", ".", "a"}, 5)
Absolute(parts) == FlattenSeq([i \in DOMAIN parts |-> <<"/">> \o parts[i]])
MCDirectories == {Absolute(p) : p \in Strings({<<"a">>, <<"a", "b">>, <<"b">>}, 3)} \ {<<>>}
MCLines == Strings({" ", "a"}, 8)
----------------------------------------------------------------------------
T(s) == [k |-> "text", s |-> s]
Two(a, b) == [k |-> "two", a |-> a, b |-> b]
Ref(e) == [k |-> "ref", name |-> e]
F1(f, a) == [k |-> "one", f |-> f, a |-> a]
F2(f, a, b) == [k |-> "pair", f |-> f, a |-> a, b |-> b]
F3(f, a, b, c) == [k |-> "three", f |-> f, a |-> a, b |-> b, c |-> c]
MCWorld ==
  [user |-> (<<"X">> :> T(<<"b", " ", "a", ".", "c">>)) @@ (<<"N">> :> T(<<"X">>)),
   vars |-> (<<"X">> :> T(<<"n", "o">>)) @@ (<<"Y">> :> Two(Ref(T(<<"X">>)), T(<<",", "d">>)))
            @@ (<<"L">> :> Two(T(<<"-">>), Ref(T(<<"V">>)))),
   env |-> (<<"V">> :> T(<<"e">>)),
   tokens |-> (<<"K">> :> <<"k">>),
   rank |-> ("-" :> 1) @@ ("," :> 2) @@ ("." :> 3) @@ ("a" :> 4) @@ ("b" :> 5) @@ ("c" :> 6)
            @@ ("d" :> 7) @@ ("e" :> 8) @@ ("(" :> 0) @@ (")" :> 0) @@ ("/" :> 0) @@ ("X" :> 9)
            @@ ("$" :> 0),
   glob |-> <<>>, digit |-> ("1" :> 1), sh |-> <<>>]
Dollar == [k |-> "dollar"]
Leaves == {T(<<"a">>), T(<<"b", " ", "a">>), T(<<"(", ",", ")", ".", "c">>), Ref(T(<<"X">>)), Ref(T(<<"Y">>)),
           Ref(Ref(T(<<"N">>))), Ref(T(<<"Z">>)), T(<<>>)}
Ones == {F1(f, e) : f \in {"strip", "sort", "suffix", "nosuffix", "notdir"}, e \in Leaves}
Pairs == {F2(f, a, b) : f \in {"addprefix", "setsuffix"}, a \in {Ref(T(<<"X">>)), T(<<"a">>), Ref(T(<<"Y">>))}, b \in Leaves}
Bodies == {Ref(T(<<"V">>)), Ref(T(<<"L">>)), F2("addprefix", Ref(T(<<"V">>)), T(<<"a">>)),
           F3("foreach", T(<<"U">>), Ref(T(<<"X">>)), Two(Ref(T(<<"U">>)), Ref(T(<<"V">>)))),
           Two(Two(Ref(T(<<"V">>)), Dollar), T(<<"d">>)), Two(Ref(T(<<"V">>)), F1("strip", Two(Dollar, T(<<"c">>)))),
           Ref(Two(T(<<"V">>), Dollar))}
Loops == {F3("foreach", T(<<"V">>), l, b) : l \in Leaves, b \in Bodies}
Substs == {F3("subst", a, b, c) : a \in {T(<<"a">>), Ref(T(<<"X">>))}, b \in {T(<<>>), Ref(T(<<"Y">>))}, c \in Leaves}
Firsts == Leaves \cup Ones \cup Pairs \cup Loops \cup Substs
MCTexts ==
  Firsts \cup {Two(a, b) : a \in {Ref(T(<<"V">>)), Dollar}, b \in Firsts}
  \cup {Two(a, b) : a \in Loops, b \in {Ref(T(<<"V">>)), T(<<"$">>)}}
  \cup {F1(f, e) : f \in {"strip", "sort"}, e \in Firsts}
  \cup {F2("addsuffix", a, b) : a \in Leaves, b \in Loops \cup Pairs}
  \cup {F3("foreach", T(<<"W">>), l, Two(Ref(T(<<"W">>)), T(<<"c">>))) : l \in Firsts}
  \cup {F3("subst", T(<<"b">>), e, Ref(T(<<"X">>))) : e \in Firsts}
----------------------------------------------------------------------------
H == M!Item("h.h", "h.h", "NONE", <<>>, 0)
A(deps, l) == M!Item("a.o", "a.c", "C", deps, l)
B(deps, l) == M!Item("b.o", "b.c", "CC", deps, l)
S == M!Item("s.o", "y.c", "C", <<>>, 0)
Y(l) == M!Item("y.c", "y.y", "BISON_TO_C", <<>>, l)
Lib == [M!Item("p.a", "p.gpr", "PROJECT", <<A(<<H>>, 0)>>, 0) EXCEPT !.dest = "LIBRARY"]
Q == M!Item("q.o", "q.gpr", "PROJECT", <<B(<<H>>, 0)>>, 0)
Its == {A(<<H>>, 1), A(<<>>, 0), A(<<H, H>>, 0), B(<<H>>, 2), B(<<Y(0)>>, 0), Y(1), S, Lib, Q, H}
Prj(n, is) == [M!Item(n, "x.gpr", "LINK", is, 0) EXCEPT !.dest = "EXE"]
Different(is) == \A i, j \in DOMAIN is : i # j => is[i].name # is[j].name
MCProjects == {Prj(n, is) : n \in {"x", ""}, is \in {l \in Strings(Its, 3) : Different(l)}}
Out(x) == [x EXCEPT !.exclude = TRUE]
Exe == [M!Item("e", "e.gpr", "PROJECT", <<M!Item("m.o", "m.c", "C", <<>>, 0), Out(M!Item("n.o", "n.c", "C", <<>>, 0)), Lib>>, 0)
          EXCEPT !.dest = "EXE"]
Dll == [M!Item("d.so", "d.gpr", "PROJECT", <<M!Item("k.o", "k.c", "C", <<>>, 0)>>, 0) EXCEPT !.dest = "DLL"]
Obj == M!Item("l.o", "l.c", "C", <<>>, 0)
Nest == M!Item("z.o", "z.gpr", "PROJECT", <<M!Item("t.o", "t.c", "C", <<>>, 0), Exe>>, 0)
MCItemTrees == {l \in Strings({Lib, Exe, Dll, Obj, Out(Obj), Nest, H, Y(0)}, 3) :
                  Different(l) /\ ~(\E i, j \in DOMAIN l : l[i] = Nest /\ l[j] = Exe)}
----------------------------------------------------------------------------
Dep(n, ds, err) ==
  [source_name |-> n, dest_name |-> n \o ".o", source_file_type |-> 1, dest_file_type |-> 2,
   compile_id |-> 3, dependencies |-> ds, local_options |-> "NULL", flags |-> 1, compiler_type |-> 1,
   error_type |-> 2, compiler |-> "gcc", error_check |-> err]
Opt(v) == [f \in R!OwnFields(R!WriteOptions \o R!WriteProjectFields) |-> IF f = "options_version" THEN 8 ELSE v]
File(ds, v) == Dep("p", ds, "e") @@ Opt(v)
MCEmptyProject == File(<<>>, 0)
MCProjectFiles ==
  {File(<<>>, 1), File(<<Dep("c", <<>>, "y")>>, 2),
   File(<<Dep("a", <<Dep("b", <<>>, "NULL"), Dep("h", <<>>, "x")>>, "x"), Dep("c", <<>>, "y")>>, 5)}
D(ws, pw, size) ==
  [windows |-> ws, project_window |-> pw, project_name |-> TRUE, Watches |-> <<"x">>,
   breakpoints |-> <<"b1", "b2">>, apColor |-> "pc", apMonochrome |-> "pm", apBlackWhite |-> "pb",
   InfRec |-> "ir", focused |-> 1,
   histories |-> <<[id |-> 1, strs |-> <<"new", "old">>], [id |-> 7, strs |-> <<>>]>>,
   editor |-> "eo", editor_size |-> size, WatchWindowRect |-> "r1", CallStackWindowRect |-> "r2",
   ProjectWindowRect |-> "r1", MsgWindowRect |-> "r3", visible |-> {"r1", "r3"}, mouseReverse |-> 1,
   doubleDelay |-> 8, default_directory |-> "dir", BookMark |-> "bm", last_title |-> "lt",
   closed |-> <<"c1">>]
V(kind, of, n) == [kind |-> kind, of |-> of, number |-> n]
MCEmptyDesktop ==
  [D(<<V("clipboard", "clip", 0)>>, FALSE, 12) EXCEPT !.Watches = <<>>, !.breakpoints = <<>>, !.closed = <<>>]
Stack == <<V("editor", "a", 2), V("clipboard", "clip", 0), V("msg", "m", 1), V("info", "h", 3)>>
MCDesktops == {D(ws, pw, size) : ws \in {<<Stack[1]>>, <<Stack[2]>>, Stack, Reverse(Stack)},
                                 pw \in BOOLEAN, size \in {12, 14}}
MCVersions == 18..28
MCHistoryIDs == <<1, 9>>
----------------------------------------------------------------------------
MCNumber == ("1" :> 1) @@ ("7" :> 7) @@ ("12" :> 12)
MCChopped == ("1" :> <<>>) @@ ("7" :> <<>>) @@ ("12" :> <<"1">>)
MCFindable == {<<"a.c">>}
MCBaseOf == ("/d/a.c" :> "a.c") @@ ("/d/b.c" :> "b.c")
Said1(kind, file, n, end, t) ==
  [kind |-> kind, file |-> file, line |-> IF n = "" THEN 0 ELSE MCNumber[n], number |-> n, end |-> end, text |-> t]
MCSaid ==
  {Said1(k, f, n, e, t) : k \in {"error", "warning"}, n \in {"", "12"}, e \in {",", ":"},
     f \in {<<"a.c">>, <<"/d/b.c">>, <<"/d/a.c">>, <<"c", ":", "/d/a.c">>}, t \in {<<"x">>}}
  \cup {Said1("error", <<"a.c">>, "7", ":", <<"x", ":", " ", "y">>)}
  \cup {Said1("from", <<"a.c">>, "12", e, <<>>) : e \in {",", ":"}}
MCNoise == {<<"ld", ":", " ", "x">>, <<"y">>, <<"ld", ":", " ", "warning", ":", " ", "x">>, <<"a.c", ":", "7", ":", " ", "z">>, <<>>}
MCCalls ==
  {[compile_id |-> c, user_spec |-> u, error_type |-> e] :
     c \in {"COMPILE_C", "COMPILE_ASM", "COMPILE_FPC", "COMPILE_ADA", "COMPILE_LINK", "COMPILE_ARCHIVE",
            "COMPILE_LINK_PASCAL_AUTOMAKE", "COMPILE_LINK_FPC_AUTOMAKE", "COMPILE_BISON"},
     u \in BOOLEAN,
     e \in {"ERROR_AUTO", "ERROR_BUILTIN_C", "ERROR_BUILTIN_LINK", "ERROR_BUILTIN_FPC", "ERROR_USER", "ERROR_RETVAL"}}
----------------------------------------------------------------------------
\* a source, an object, a program; directories in two orders; an RCS archive
MCFileType == ("a.c" :> "C") @@ ("o.o" :> "OBJECT") @@ ("e" :> "EXE")
MCFirst == {<<"d1", "a.c">>}
MCMayAppear == {<<".", "a.c">>, <<"d1", "a.c">>, <<"d2", "o.o">>, <<"d1", "e">>}
MCLists == ("src" :> {<<"d1", "d2">>, <<"d2", "d1">>, <<>>}) @@ ("obj" :> {<<"d1", "d2">>})
MCArchives == {<<"d2", "a.c">>}
----------------------------------------------------------------------------
MCArguments == {<<"-", "d">>, <<"-", "d", "-", "c", "t">>, <<"-", "d", "a", "-", "f">>, <<"-", "k">>, <<"-", "G">>,
                <<"-", "P">>, <<"-", "E">>, <<"-", "h">>, <<"p">>, <<"d", "/", "q", ".", "gpr">>, <<"a", ".", "c">>}
MCOptionTexts == {<<>>, <<" ">>, <<"-", "d", "s", "c">>, <<" ", "-", "k", " ", "x", " ", "-", "P", " ">>, <<"-", "L">>,
                  <<"p", " ", "-", "d", "-", "a">>, <<"a", ".", "c", " ", "-", "y">>}
MCTempEnvs == {<<>>, "TMP" :> "/t", ("TEMP" :> "/t") @@ ("TMPDIR" :> "/no"), ("TMP" :> "/no") @@ ("TEMP" :> "/t")}
----------------------------------------------------------------------------
MCRhgdbArguments == {<<"-", "D">>, <<"-", "K">>, <<"-", "G">>, <<"-", "i">>, <<"-", "h">>, <<"-", "L">>,
                     <<"p">>, <<"d", ".", "x", "/", "q">>, <<"d", "/", "q", ".", "exe">>, <<>>}
MCRhgdbTexts == {<<>>, <<"-", "D">>, <<"x", " ", "-", "D">>, <<"-", "i", " ", "f">>}
MCWatches == {<<"a">>, <<>>, <<" ", "b">>, <<"[", "0", "]">>, <<"[", "IDE">>}
Bp(type) == [G!NoBreak EXCEPT !.type = type]
MCBreaks ==
  {[Bp({"LINE"}) EXCEPT !.filename = <<" ", "f">>, !.line_number = 3],
   [Bp({"FUNCTION", "COUNT"}) EXCEPT !.filename = <<"f">>, !.function = <<"m">>, !.count = 2],
   [Bp({"LINE", "CONDITION"}) EXCEPT !.filename = <<"g">>, !.line_number = 4, !.condition = <<" ", " ", "c">>]}
Rgd(n, value, args, bs, ws) ==
  [screenMode |-> n, src_dirs |-> IF n = 3 THEN <<<<"s">>, <<" ", "t">>>> ELSE <<>>, tabsize |-> 2 * n,
   verbose_gdb_commands |-> n, main_function |-> value, use_dual_display |-> n, progname |-> value,
   ProgArgs |-> args, breakpoints |-> bs, Watches |-> ws]
MCRgdSettings ==
  {Rgd(3, <<" ", "m">>, args, bs, ws) : args \in {<<>>, <<<<" ", "v">>, <<"-", "w">>>>},
     bs \in Strings(MCBreaks, 2), ws \in Strings(MCWatches, 2)}
MCRgdDefaults == Rgd(1, <<"z">>, <<>>, <<>>, <<>>)
----------------------------------------------------------------------------
N(name, real) == [name |-> name, real |-> real]
MCLower == ("Aa" :> "aa") @@ ("aa" :> "aa") @@ ("a" :> "a") @@ ("b" :> "b")
Words == DOMAIN MCLower
MCInside == {<<s, t>> \in Words \X Words : s = t \/ (t = "a" /\ s # "b")}
MCSimilar == [w \in Words \X Words |-> IF w[1] = w[2] THEN 1000 ELSE IF "b" \in Range(w) THEN 0 ELSE 667]
MCInfos ==
  {("f" :> {N("Aa", "NULL"), N("b", "NULL")}) @@ ("g" :> {N("a", "aa")}) @@ ("h" :> {N("aa", "NULL")}) @@ ("i" :> {}),
   ("g" :> {N("a", "aa")}) @@ ("h" :> {N("aa", "NULL")})}
MCInfoFile == [n \in {"f", "g", "h", "i"} |-> IF n = "h" THEN "g" ELSE n]
MCInfoLists == {l \in Strings({"f", "g", "h", "i"}, 3) : IsInjective(l)}
MCIndices == {[i \in DOMAIN l |-> [origname |-> l[i], nodes |-> {N("Aa", "NULL")}]] : l \in MCInfoLists}
----------------------------------------------------------------------------
\* the program stops in a file that is there, in one that another program makes
\* and removes, and where no file is known
StopAt(dirname, fname, fullname, line) == [fname |-> fname, dirname |-> dirname, fullname |-> fullname, line |-> line]
MCStops == {StopAt(<<"d1", "a">>, <<".", "a">>, <<>>, 1), StopAt(<<>>, <<".", "b">>, <<>>, 2), [NoStop EXCEPT !.line = 1]}
MCSourceFiles == {<<".", "a">>}
MCFirstSources == {<<".", "a">>}
MCComeAndGo == {<<"d2", "b">>}
MCSearchLists == {<<>>}
=============================================================================
