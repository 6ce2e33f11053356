------------------------------- MODULE Streams -------------------------------
(***************************************************************************)
(* What is written into project and desktop files and how it is read back:  *)
(* TDependency, TDepCollection, TProject, TOptions (libide), the desktop     *)
(* (ideprj.cc), histories, closed windows and the help window.               *)
(*                                                                         *)
(* A stream is a sequence of items <<type, value>>; reading an item as        *)
(* another type than it was written loses the stream.  Writer and reader of  *)
(* an object are given by two lists of fields, each in the order of its code. *)
(***************************************************************************)
EXTENDS Integers, Sequences, SequencesExt, FiniteSets, TLC

Item(type, value) == <<[t |-> type, v |-> value]>>
F(name, type) == [name |-> name, type |-> type]
Fields(type, names) == [i \in DOMAIN names |-> F(names[i], type)]
\* a field that is read from files of version since on, and its value before
Since(version, f, default) == f @@ [since |-> version, default |-> default]
IsSince(f, version) == "since" \notin DOMAIN f \/ f.since <= version

\* a reader: what it has got so far, the rest of the stream, and whether the
\* stream still fits
Reader(s) == [x |-> <<>>, s |-> s, ok |-> TRUE, TDependency_Version_Read |-> 0, version |-> 0]
Unread(type) == IF type \in {"u8", "u16", "u32", "i16", "i32"} THEN 0 ELSE "?"
Get(r, f) ==
  IF r.ok /\ r.s # <<>> /\ Head(r.s).t = f.type
  THEN [r EXCEPT !.x = @ @@ (f.name :> Head(r.s).v), !.s = Tail(@)]
  ELSE [r EXCEPT !.x = @ @@ (f.name :> Unread(f.type)), !.ok = FALSE]
GetSince(r, f, version) ==
  IF IsSince(f, version) THEN Get(r, f) ELSE [r EXCEPT !.x = @ @@ (f.name :> f.default)]
GetAll(r, fields, version) == FoldLeft(LAMBDA q, f : GetSince(q, f, version), r, fields)
PutAll(x, fields) == FoldLeft(LAMBDA s, f : s \o Item(f.type, x[f.name]), <<>>, fields)
----------------------------------------------------------------------------
(* A dependency and the collection of its dependencies *)

Before_deps == Fields("str", <<"source_name", "dest_name">>)
  \o Fields("u16", <<"source_file_type", "dest_file_type", "compile_id">>)
After_deps == Fields("str", <<"local_options">>) \o Fields("u16", <<"flags">>)
  \o Fields("u16", <<"compiler_type", "error_type">>) \o Fields("str", <<"compiler", "error_check">>)
Dependency_Version == 4
RECURSIVE PutDependency(_), PutDependencies(_)
PutDependency(d) ==
  Item("u16", Dependency_Version) \o PutAll(d, Before_deps) \o PutDependencies(d.dependencies)
    \o PutAll(d, After_deps)
PutDependencies(ds) ==
  Item("i32", Len(ds)) \o FlattenSeq([i \in DOMAIN ds |-> PutDependency(ds[i])])

\* local options are written NULL when there are none, and read as none
ReadOptions == Fields("str", <<"local_options">>)
NewerFields == <<
  Since(3, F("flags", "u16"), 0), Since(4, F("compiler_type", "u16"), "COMPILER_AUTO"),
  Since(4, F("error_type", "u16"), "ERROR_AUTO"), Since(4, F("compiler", "str"), "NULL"),
  Since(4, F("error_check", "str"), "NULL")>>
\* mutant: the error type is read after the compiler
NewerSwapped == <<
  Since(3, F("flags", "u16"), 0), Since(4, F("compiler_type", "u16"), "COMPILER_AUTO"),
  Since(4, F("compiler", "str"), "NULL"), Since(4, F("error_type", "u16"), "ERROR_AUTO"),
  Since(4, F("error_check", "str"), "NULL")>>
Newer == NewerFields

\* the version is a global: after the nested dependencies it is theirs
SortedIn(ds, d, version) == IF version < 2 THEN <<d>> \o ds ELSE Append(ds, d)
RECURSIVE GetDependency(_), GetDependencies(_, _, _)
GetDependency(r) ==
  LET a == Get([r EXCEPT !.x = <<>>], F("version", "u16"))
      b == GetAll([a EXCEPT !.x = <<>>, !.TDependency_Version_Read = a.x.version], Before_deps, 0)
      n == Get([b EXCEPT !.x = <<>>], F("count", "i32"))
      c == IF n.ok THEN GetDependencies(n, n.x.count, <<>>) ELSE [n EXCEPT !.x = <<>>]
  IN GetAll([c EXCEPT !.x = b.x @@ ("dependencies" :> c.x)], ReadOptions \o Newer,
            c.TDependency_Version_Read)
GetDependencies(r, n, ds) ==
  IF n = 0 \/ ~r.ok THEN [r EXCEPT !.x = ds]
  ELSE LET d == GetDependency(r) IN GetDependencies(d, n - 1, SortedIn(ds, d.x, d.TDependency_Version_Read))
----------------------------------------------------------------------------
(* A project and its options *)

Option(names) == Fields("obj", names)
WriteOptions ==
  Fields("u16", <<"options_version">>) \o Option(<<"include_path", "library_path">>)
  \o Fields("u32", <<"libs">>) \o Option(<<"user_libs">>) \o Fields("u32", <<"debug_level">>)
  \o Option(<<"link_opt", "comp_opt", "ObjDirs", "SrcDirs", "opt_flags", "warn_flags", "debug_flags",
              "cxx_flags", "c_flags", "ProgArgs", "reserved", "user_words", "pascal_flags",
              "gpc_reserved", "fortran_flags", "StdInc", "ada_flags", "fpc_flags", "fpc_reserved">>)
NewObject == "empty"
OptionsSince(version, names) ==
  [i \in DOMAIN names |-> Since(version, F(names[i], "obj"), IF version = 2 THEN "NULL" ELSE NewObject)]
GetOptions(r) ==
  LET a == Get(r, F("options_version", "u16"))
  IN GetAll(a, Option(<<"include_path", "library_path">>) \o Fields("u32", <<"libs">>)
       \o Option(<<"user_libs">>) \o Fields("u32", <<"debug_level">>)
       \o Option(<<"link_opt", "comp_opt", "ObjDirs", "SrcDirs", "opt_flags", "warn_flags", "debug_flags",
                   "cxx_flags", "c_flags", "ProgArgs">>)
       \o OptionsSince(2, <<"reserved">>) \o OptionsSince(3, <<"user_words">>)
       \o OptionsSince(4, <<"pascal_flags", "gpc_reserved">>) \o OptionsSince(5, <<"fortran_flags">>)
       \o OptionsSince(6, <<"StdInc">>) \o OptionsSince(7, <<"ada_flags">>)
       \o OptionsSince(8, <<"fpc_flags", "fpc_reserved">>), a.x.options_version)

WriteProjectFields == Fields("str", <<"defaultprojectmask">>)
  \o Fields("u32", <<"options2">>) \o Fields("u16", <<"screen_mode">>) \o Fields("u32", <<"options1">>)
  \o Fields("obj", <<"info_files">>) \o Fields("u16", <<"info_search_mode">>)
  \o Fields("u32", <<"info_search_options">>) \o Fields("u16", <<"fuzzy_value">>)
  \o Fields("str", <<"main_function">>) \o Fields("u16", <<"max_closed_windows">>)
  \o Fields("u32", <<"private_options">>)
ProjectNewer == <<F("defaultprojectmask", "str"),
  Since(2, F("options2", "u32"), 8), Since(2, F("screen_mode", "u16"), 3),
  Since(3, F("options1", "u32"), 0), Since(4, F("info_files", "obj"), "libc"),
  Since(4, F("info_search_mode", "u16"), "INFO_MODE_FUZZY"), Since(4, F("info_search_options", "u32"), 0),
  Since(4, F("fuzzy_value", "u16"), 600), Since(5, F("main_function", "str"), "main"),
  Since(7, F("max_closed_windows", "u16"), 16), Since(8, F("private_options", "u32"), 0)>>
PutProject(p) == Item("u16", 8) \o PutDependency(p) \o PutAll(p, WriteOptions)
  \o PutAll(p, WriteProjectFields)
GetProject(s) ==
  LET v == Get(Reader(s), F("project_version", "u16"))
      d == GetDependency(v)
      q == GetAll(GetOptions(d), ProjectNewer, v.x.project_version)
  IN IF v.x.project_version \in 2..5 THEN [q EXCEPT !.x.options2 = 0] ELSE q

\* TProject::operator =: the options, but neither the items nor the main target
OwnFields(fields) == {fields[i].name : i \in DOMAIN fields}
AssignProject(to, from) ==
  [f \in DOMAIN to |-> IF f \in OwnFields(WriteOptions \o WriteProjectFields) THEN from[f] ELSE to[f]]
----------------------------------------------------------------------------
(* Names of histories, each newest first *)

PutHistory(h) == Item("i32", h.id) \o Item("i32", Len(h.strs))
  \o FlattenSeq([i \in DOMAIN h.strs |-> Item("str", Reverse(h.strs)[i])])
\* mutant: the newest first
PutHistoryFromTop(h) == Item("i32", h.id) \o Item("i32", Len(h.strs))
  \o FlattenSeq([i \in DOMAIN h.strs |-> Item("str", h.strs[i])])
SaveHistoryID(h) == PutHistory(h)
\* Turbo Vision's historyAdd
historyAdd(strs, str) == <<str>> \o SelectSeq(strs, LAMBDA t : t # str)
InitHistoryID(hs, id) ==
  IF \E i \in DOMAIN hs : hs[i].id = id THEN hs ELSE Append(hs, [id |-> id, strs |-> <<>>])
AddTo(hs, id, str) ==
  [i \in DOMAIN hs |-> IF hs[i].id = id THEN [hs[i] EXCEPT !.strs = historyAdd(@, str)] ELSE hs[i]]
SaveHistoryIDs(hs) == Item("i32", Len(hs)) \o FlattenSeq([i \in DOMAIN hs |-> SaveHistoryID(hs[i])])
RECURSIVE LoadStrs(_, _, _, _), LoadIDs(_, _, _)
LoadStrs(r, id, n, hs) ==
  IF n = 0 \/ ~r.ok THEN [r EXCEPT !.x = hs]
  ELSE LET q == Get([r EXCEPT !.x = <<>>], F("str", "str"))
       IN LoadStrs(q, id, n - 1, AddTo(hs, id, q.x.str))
LoadIDs(r, n, hs) ==
  IF n = 0 \/ ~r.ok THEN [r EXCEPT !.x = hs]
  ELSE LET q == GetAll([r EXCEPT !.x = <<>>], Fields("i32", <<"id", "count">>), 0)
           l == IF q.ok THEN LoadStrs(q, q.x.id, q.x.count, InitHistoryID(hs, q.x.id))
                ELSE [q EXCEPT !.x = hs]
       IN LoadIDs(l, n - 1, l.x)
\* ClearHistoryIDs puts the ids of the dialogs in first
LoadHistoryIDs(r, InitHistoryIDs) ==
  LET n == Get([r EXCEPT !.x = <<>>], F("count", "i32"))
  IN IF n.ok THEN LoadIDs(n, n.x.count, [i \in DOMAIN InitHistoryIDs |-> [id |-> InitHistoryIDs[i], strs |-> <<>>]])
     ELSE n
----------------------------------------------------------------------------
(* The desktop.  The IDE's state d: the views from the top one down, each     *)
(* with its kind and number; the lists and rectangles of the fields below.    *)

DeskTop_Version == 27
Answers(view) == view.kind \in {"editor", "clipboard", "info"}
\* the clipboard is on the desktop but not in the list of windows
Counted(d) == {i \in DOMAIN d.windows : d.windows[i].kind # "clipboard" /\ Answers(d.windows[i])}
\* mutant: the clipboard is written as well
WriteAnyView(view) ==
  IF Answers(view) THEN Item("obj", [kind |-> view.kind, of |-> view.of]) \o Item("i16", view.number) ELSE <<>>
WriteView(view) ==
  IF Answers(view) /\ view.kind # "clipboard" THEN Item("obj", [kind |-> view.kind, of |-> view.of]) \o Item("i16", view.number) ELSE <<>>
List(type, list) == Item("i32", Len(list)) \o FlattenSeq([i \in DOMAIN list |-> Item(type, list[i])])
InfFields == <<F("InfRec", "rect"), F("focused", "i16")>>
ViewFields == <<F("of", "obj"), F("number", "i16")>>
Rects1 == Fields("rect", <<"WatchWindowRect", "CallStackWindowRect">>)
Rects2 == Fields("rect", <<"ProjectWindowRect", "MsgWindowRect">>)
Mouse == Fields("u8", <<"mouseReverse">>) \o Fields("u16", <<"doubleDelay">>)
SaveClosedWindow(w) == Item("u16", 0) \o Item("str", w) \o Item("i32", 1) \o Item("bytes", w)
SaveClosedWindows(ws) ==
  Item("u16", 0) \o Item("i16", Len(ws)) \o FlattenSeq([i \in DOMAIN ws |-> SaveClosedWindow(ws[i])])
SaveHelpDesktop(d) == Item("u16", 1) \o Item("obj", d.BookMark) \o Item("str", d.last_title)

EditorOptions(d, version) ==
  CASE version < 22 -> Item("opt_0413", d.editor)
    [] version = 22 -> Item("opt_0417", d.editor)
    [] version \in 23..25 -> Item("opt_0445", d.editor)
    [] version = 26 -> Item("u8", d.editor_size) \o Item("opt", d.editor)
    [] OTHER -> Item("u32", d.editor_size) \o Item("opt", d.editor)
\* a file of this or of an older version; the older ones as LoadDesktop has them
SaveDesktop(d, save_windows, version) ==
  LET shown == IF save_windows THEN Cardinality(Counted(d)) ELSE 0
      few(list) == IF save_windows THEN list ELSE <<>>
  IN Item("u8", 0) \o Item("str", "DESKTOP_IDENT") \o Item("u16", version)
     \o Item("pal", d.apColor) \o Item("u8", IF d.project_window THEN 1 ELSE 0)
     \o List("bytes", few(d.Watches))
     \o Item("rect", d.InfRec) \o Item("i16", IF d.project_window THEN d.focused ELSE -1)
     \o Item("u16", 0) \o List("bp", few(d.breakpoints)) \o SaveHistoryIDs(d.histories)
     \o Item("u16", shown)
     \o (IF shown = 0 THEN <<>>
         ELSE FlattenSeq([i \in DOMAIN d.windows |->
                LET view == WriteView(d.windows[i])
                IN IF version < 24 THEN SelectSeq(view, LAMBDA e : e.t = "obj") ELSE view]))
     \o Item("pal", d.apMonochrome) \o Item("pal", d.apBlackWhite) \o EditorOptions(d, version)
     \o PutAll(d, Rects1) \o PutAll(d, Mouse) \o PutAll(d, Rects2) \o Item("str", d.default_directory)
     \o (IF version > 19 THEN SaveHelpDesktop(d) ELSE <<>>)
     \o (IF version > 20 THEN SaveClosedWindows(d.closed) ELSE <<>>)

\* every list of the file is read, but not everything is used
RECURSIVE GetList(_, _, _, _)
GetList(r, type, n, list) ==
  IF n = 0 \/ ~r.ok THEN [r EXCEPT !.x = list]
  ELSE LET q == Get([r EXCEPT !.x = <<>>], F("item", type))
       IN GetList(q, type, n - 1, Append(list, q.x.item))
GetCounted(r, count, type) ==
  LET n == Get([r EXCEPT !.x = <<>>], F("count", count))
  IN IF n.ok THEN GetList(n, type, n.x.count, <<>>) ELSE [n EXCEPT !.x = <<>>]
RECURSIVE GetViews(_, _, _)
GetViews(r, n, views) ==
  IF n = 0 \/ ~r.ok THEN [r EXCEPT !.x = views]
  ELSE LET q == GetAll([r EXCEPT !.x = <<>>], <<F("of", "obj"), Since(24, F("number", "i16"), 0)>>, r.version)
       IN GetViews(q, n - 1, Append(views, [kind |-> q.x.of.kind, of |-> q.x.of.of, number |-> q.x.number]))
RECURSIVE GetClosed(_, _, _)
GetClosed(r, n, ws) ==
  IF n = 0 \/ ~r.ok THEN [r EXCEPT !.x = ws]
  ELSE LET q == GetAll([r EXCEPT !.x = <<>>],
                       <<F("version", "u16"), F("name", "str"), F("size", "i32"), F("window", "bytes")>>, 0)
       IN GetClosed(q, n - 1, Append(ws, q.x.window))
LoadClosedWindows(r, closed) ==
  LET h == GetAll([r EXCEPT !.x = <<>>], <<F("version", "u16"), F("count", "i16")>>, 0)
  IN IF h.ok THEN GetClosed(h, h.x.count, closed) ELSE [h EXCEPT !.x = closed]
LoadHelp == <<F("version", "u16"), F("BookMark", "obj"), F("last_title", "str")>>

\* another size of the options of the editor: its bytes are skipped
LoadEditorOptions(r, d, version) ==
  LET Old(type) == [Get(r, F("editor", type)) EXCEPT !.x = d.editor]
      New(type) == LET q == GetAll(r, <<F("size", type), F("editor", "opt")>>, 0)
                   IN [q EXCEPT !.x = IF q.x.size = d.editor_size THEN q.x.editor ELSE d.editor]
  IN CASE version < 22 -> Old("opt_0413") [] version = 22 -> Old("opt_0417")
       [] version \in 23..25 -> Old("opt_0445") [] version = 26 -> New("u8") [] OTHER -> New("u32")

\* the parts of the file in their order, the help and closed windows of newer ones
Part(name, fields) == [name |-> name, fields |-> fields, since |-> 0]
Layout == <<
  Part("fields", <<F("apColor", "pal"), F("shown", "u8")>>), Part("Watches", <<>>),
  Part("fields", InfFields \o Fields("u16", <<"b_version">>)), Part("breakpoints", <<>>),
  Part("histories", <<>>), Part("windows", <<>>),
  Part("fields", Fields("pal", <<"apMonochrome", "apBlackWhite">>)), Part("editor", <<>>),
  Part("fields", Rects1 \o Mouse \o Rects2 \o Fields("str", <<"default_directory">>)),
  [Part("help", LoadHelp) EXCEPT !.since = 20], [Part("closed", <<>>) EXCEPT !.since = 21]>>
LoadPart(r, part, d, InitHistoryIDs) ==
  LET q == [r EXCEPT !.x = <<>>]
      got == CASE part.name \in {"fields", "help"} -> GetAll(q, part.fields, r.version)
               [] part.name = "Watches" -> GetCounted(q, "i32", "bytes")
               [] part.name = "breakpoints" -> GetCounted(q, "i32", "bp")
               [] part.name = "histories" -> LoadHistoryIDs(q, InitHistoryIDs)
               [] part.name = "windows" -> LET n == Get(q, F("count", "u16"))
                                           IN IF n.ok THEN GetViews(n, n.x.count, <<>>) ELSE n
               [] part.name = "editor" -> LoadEditorOptions(q, d, r.version)
               [] OTHER -> LoadClosedWindows(q, d.closed)
  IN IF r.version < part.since \/ ~r.ok THEN r
     ELSE [got EXCEPT !.x = IF part.name \in {"fields", "help"} THEN @ @@ r.x ELSE (part.name :> @) @@ r.x]
LoadParts(h, d, InitHistoryIDs) ==
  FoldLeft(LAMBDA r, part : LoadPart(r, part, d, InitHistoryIDs), [h EXCEPT !.version = h.x.version], Layout)

NoRect == "-1"
\* a rectangle that is not on this screen is forgotten
CheckRect(d, r) == IF r \in d.visible THEN r ELSE NoRect
Wiped(d, load_windows) ==
  [d EXCEPT !.Watches = IF load_windows THEN <<>> ELSE @, !.breakpoints = IF load_windows THEN <<>> ELSE @,
            !.ProjectWindowRect = NoRect, !.MsgWindowRect = NoRect, !.WatchWindowRect = NoRect,
            !.CallStackWindowRect = NoRect]
ShowProject(d, load_windows) ==
  [d EXCEPT !.project_window = @ \/ (d.project_name /\ load_windows)]

\* what is read is used, what the file lacks or belongs to windows stays
Used(d, x, load_windows) ==
  LET own == IF load_windows THEN {} ELSE {"Watches", "breakpoints", "windows", "focused"}
      shows == d.project_window \/ (x.shown # 0 /\ d.project_name /\ load_windows)
      rects == {"WatchWindowRect", "CallStackWindowRect", "ProjectWindowRect", "MsgWindowRect"}
  IN [f \in DOMAIN d |->
        CASE f = "project_window" -> shows
          [] f = "focused" /\ ~(load_windows /\ x.focused >= 0 /\ shows) -> d.focused
          [] f = "windows" /\ load_windows -> x.windows \o d.windows
          [] f \in rects -> CheckRect(d, x[f])
          [] OTHER -> IF f \in DOMAIN x /\ f \notin own THEN x[f] ELSE d[f]]
Finished(d, r, load_windows) ==
  IF r.ok THEN [d |-> Used(d, r.x, load_windows), left |-> {r.s[k].t : k \in DOMAIN r.s}]
  ELSE [d |-> d, left |-> {"lost"}]
LoadHeader(d, h, load_windows, InitHistoryIDs) ==
  CASE h.x.len # 0 -> [d |-> ShowProject(d, load_windows), left |-> {"refused"}]
    [] h.x.len = 0 /\ (~h.ok \/ h.x.magic # "DESKTOP_IDENT") -> [d |-> d, left |-> {"refused"}]
    [] h.ok /\ h.x.magic = "DESKTOP_IDENT" /\ ~(h.x.version \in 19..DeskTop_Version)
         -> [d |-> ShowProject(d, load_windows), left |-> {"refused"}]
    [] OTHER -> Finished(d, LoadParts(h, d, InitHistoryIDs), load_windows)
LoadDesktop(d, stream, load_windows, InitHistoryIDs) ==
  LoadHeader(Wiped(d, load_windows),
             GetAll(Reader(stream), <<F("len", "u8"), F("magic", "str"), F("version", "u16")>>, 0),
             load_windows, InitHistoryIDs)

\* Save options and Load options: a project without items, no windows
Nobody == "none"
SaveOptions(p, d, empty) ==
  [gpr |-> PutProject([AssignProject(empty, p) EXCEPT !.dest_name = "a.exe"]),
   gdt |-> SaveDesktop(d, FALSE, DeskTop_Version)]
LoadOptions(file, p, d, ids) ==
  [p |-> AssignProject(p, GetProject(file.gpr).x),
   d |-> LoadDesktop(d, file.gdt, FALSE, ids).d]
----------------------------------------------------------------------------
(* Properties *)

\* A project file that was written is read back to its last item as it was:
\* items and their order, items of items, options and every number.
ProjectComesBack(p) ==
  LET r == GetProject(PutProject(p))
  IN r.ok /\ r.s = <<>> /\ \A f \in DOMAIN p : r.x[f] = p[f]

Written(d) == SelectSeq(d.windows, LAMBDA w : w.kind \in {"editor", "info"})
Numbered(ws, version) ==
  [i \in DOMAIN ws |-> IF version < 24 THEN [ws[i] EXCEPT !.number = 0] ELSE ws[i]]
History(hs, id) == UNION {{hs[i].strs} : i \in {j \in DOMAIN hs : hs[j].id = id}}
\* A desktop that this or an older version wrote is read back into an empty
\* IDE to the last item: windows from the top one down with their numbers,
\* watches, breakpoints, histories newest first, closed windows.
DesktopComesBack(d, empty, version, ids) ==
  LET l == LoadDesktop(empty, SaveDesktop(d, TRUE, version), TRUE, ids)
  IN /\ l.left = {}
     /\ SelectSeq(l.d.windows, LAMBDA w : w.kind # "clipboard") = Numbered(Written(d), version)
     /\ \A f \in {"Watches", "breakpoints", "apColor", "InfRec", "default_directory", "mouseReverse"} :
          l.d[f] = d[f]
     /\ \A i \in DOMAIN d.histories :
          History(l.d.histories, d.histories[i].id) = {d.histories[i].strs}
     /\ version > 20 => l.d.closed = empty.closed \o d.closed
     /\ l.d.project_window = (d.project_window /\ empty.project_name)

\* Options of another project come without its windows, watches, breakpoints
\* and items; what is open stays.
OptionsBringNoSession(p, d, p1, d1, empty, ids) ==
  LET l == LoadOptions(SaveOptions(p, d, empty), p1, d1, ids)
  IN /\ l.p.dependencies = p1.dependencies /\ l.p.dest_name = p1.dest_name
     /\ \A f \in OwnFields(WriteOptions \o WriteProjectFields) : l.p[f] = p[f]
     /\ \A f \in {"windows", "Watches", "breakpoints", "project_window", "focused"} : l.d[f] = d1[f]

\* A desktop file that is refused (too old, too new, not a desktop) leaves
\* palette, windows, histories and directory as they are.
RefusedChangesNothing(stream, d, ids) ==
  LET l == LoadDesktop(d, stream, TRUE, ids)
  IN l.left = {"refused"} =>
       \A f \in {"windows", "histories", "apColor", "default_directory", "closed", "editor"} :
         l.d[f] = d[f]
==============================================================================
