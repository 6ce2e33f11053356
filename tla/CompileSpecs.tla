---------------------------- MODULE CompileSpecs ----------------------------
(***************************************************************************)
(* How a file is made from another one: its type by its suffix, the way of   *)
(* compiling (ideclass.cc), the command line for that as a variable, the      *)
(* default variables (idespec.cc), and the object files of a link.           *)
(* A variable is what it refers to; the words of a command are left out.     *)
(***************************************************************************)
EXTENDS Naturals, Sequences, SequencesExt, FiniteSetsExt, TLC

(* Types of files and ways to compile *)

Suffix ==
  ("c" :> "C") @@ ("i" :> "C_I") @@ ("cc" :> "CC") @@ ("cpp" :> "CC") @@ ("C" :> "CC")
  @@ ("ii" :> "CC_II") @@ ("o" :> "OBJECT") @@ ("s" :> "ASM") @@ ("S" :> "ASM")
  @@ ("l" :> "FLEX") @@ ("y" :> "BISON") @@ ("a" :> "LIBRARY") @@ ("exe" :> "EXE")
  @@ ("h" :> "HEADER") @@ ("m" :> "OBJC") @@ ("gpr" :> "PROJECT") @@ ("p" :> "PASCAL")
  @@ ("pas" :> "PASCAL") @@ ("pp" :> "FPC") @@ ("f" :> "FORTRAN") @@ ("for" :> "FORTRAN")
  @@ ("F" :> "FORTRAN_PRE") @@ ("asm" :> "NASM") @@ ("nsm" :> "NASM") @@ ("" :> "COFF")
  @@ ("adb" :> "ADA") @@ ("ads" :> "ADA_SPEC") @@ ("tex" :> "TEX") @@ ("dvi" :> "DVI")
  @@ ("so" :> "DLL") @@ ("none" :> "EXE")
get_file_type(ext) == IF ext \in DOMAIN Suffix THEN Suffix[ext] ELSE "UNKNOWN"
FileTypes == {Suffix[e] : e \in DOMAIN Suffix} \cup {"UNKNOWN", "NOTHING"}

\* the switch: a source that has no entry for the target falls through to the
\* next ones
Stage(from, to) == [from |-> from, to |-> to]
Linked(id) == ("COFF" :> id) @@ ("EXE" :> id)
Stages == <<
  Stage({"TEX"}, "DVI" :> "TEX"),
  Stage({"ADA"}, "OBJECT" :> "ADA"),
  Stage({"NASM"}, "OBJECT" :> "NASM"),
  Stage({"FORTRAN", "FORTRAN_PRE"}, "OBJECT" :> "FORTRAN"),
  Stage({"PROJECT"}, [t \in FileTypes |-> "PROJECT"]),
  Stage({"FLEX"}, ("OBJECT" :> "FLEX") @@ ("C" :> "FLEX_TO_C") @@ ("CC" :> "FLEX_TO_CC")),
  Stage({"BISON"}, ("OBJECT" :> "BISON") @@ ("C" :> "BISON_TO_C") @@ ("CC" :> "BISON_TO_CC")),
  Stage({"OBJC"}, "OBJECT" :> "OBJC"),
  Stage({"CC", "CC_II"}, ("OBJECT" :> "CC") @@ ("ASM" :> "CC_LIKE")),
  Stage({"C", "C_I"}, ("OBJECT" :> "C") @@ ("ASM" :> "C_LIKE")),
  Stage({"ASM"}, "OBJECT" :> "ASM"),
  Stage({"PASCAL"}, ("OBJECT" :> "PASCAL") @@ Linked("LINK_PASCAL_AUTOMAKE")),
  Stage({"FPC"}, ("OBJECT" :> "FPC") @@ Linked("LINK_FPC_AUTOMAKE")),
  Stage({"UNKNOWN", "OBJECT"},
        Linked("LINK") @@ ("LIBRARY" :> "ARCHIVE") @@ ("DLL" :> "LINK_DLL"))>>

Otherwise(from, to) == IF "NOTHING" \in {from, to} THEN "NONE" ELSE "UNKNOWN"
HowTo(from, to, first) ==
  LET is == {i \in DOMAIN Stages : i >= first /\ to \in DOMAIN Stages[i].to}
  IN IF is = {} THEN Otherwise(from, to) ELSE Stages[Min(is)].to[to]
\* mutant: every language begins one stage further down
HowToShifted(from, to) ==
  LET at == {i \in DOMAIN Stages : from \in Stages[i].from}
  IN IF at = {} THEN Otherwise(from, to) ELSE HowTo(from, to, Min(at) + 1)
how_to_compile(from, to) ==
  IF from = to /\ from # "UNKNOWN" THEN "NONE"
  ELSE LET at == {i \in DOMAIN Stages : from \in Stages[i].from}
       IN IF at = {} THEN Otherwise(from, to) ELSE HowTo(from, to, Min(at))
----------------------------------------------------------------------------
(* The variables: each entry is a name and the names it refers to; "*" stands *)
(* for the type of Pascal or the system put into a name                      *)

SourceFlags == {"RHIDE_INCLUDES", "C_DEBUG_FLAGS", "C_OPT_FLAGS", "C_WARN_FLAGS",
           "C_EXTRA_FLAGS", "LOCAL_OPT", "SOURCE_NAME", "OUTFILE"}
Linking == {"RHIDE_LIBDIRS", "OUTFILE", "LIBRARIES", "LDFLAGS", "RHIDE_LDFLAGS", "RHIDE_LIBS"}
V(name, refs) == name :> refs

Tools == V("RHIDE_GCC", {}) @@ V("RHIDE_AS", {"RHIDE_GCC"}) @@ V("RHIDE_GXX", {"RHIDE_GCC"})
  @@ V("RHIDE_GPC", {}) @@ V("RHIDE_FPC", {}) @@ V("RHIDE_AR", {}) @@ V("RHIDE_LD", {"RHIDE_GCC"})
  @@ V("RHIDE_G77", {}) @@ V("RHIDE_NASM", {}) @@ V("RHIDE_LD_PASCAL", {})
  @@ V("RHIDE_LD_FPC", {"RHIDE_FPC"}) @@ V("RHIDE_GNATBIND", {}) @@ V("RHIDE_RM", {})
  @@ V("RHIDE_ARFLAGS", {}) @@ V("RHIDE_EMPTY", {}) @@ V("RHIDE_SPACE", {"RHIDE_EMPTY"})

Libraries(os) == V("TYPED.f", {}) @@ V("TYPED_GPC", {}) @@ V("TYPED_FPC", {})
  @@ V("TYPED.p", {"TYPED_*"}) @@ V("TYPED.pp", {"TYPED_FPC"}) @@ V("TYPED_os.cc", {})
  @@ V("TYPED.cc", {"TYPED_os.cc"}) @@ V("TYPED.l", {}) @@ V("TYPED.m", {}) @@ V("TYPED.adb", {})
  @@ [n \in {"TYPED.for", "TYPED.F"} |-> {"TYPED.f"}] @@ V("TYPED.pas", {"TYPED.p"})
  @@ [n \in {"TYPED.cpp", "TYPED.C", "TYPED.ii"} |-> {"TYPED.cc"}]
  @@ V("RHIDE_TYPED_LIBS_SUFFIXES", {"PROJECT_ITEMS"})
  @@ V("RHIDE_TYPED_LIBS", {"RHIDE_TYPED_LIBS_SUFFIXES"} \cup
        {"TYPED." \o e : e \in {"f", "for", "F", "p", "pas", "pp", "cc", "cpp", "C", "ii",
                                "l", "m", "adb"}})
  @@ V("RHIDE_INCLUDES", {"SPECIAL_CFLAGS", "INCLUDE_DIRS"})
  @@ V("RHIDE_LIBDIRS", {"LIB_DIRS"})
  @@ V("RHIDE_LIBS", {"LIBS", "RHIDE_TYPED_LIBS", "RHIDE_OS_LIBS"})
  @@ V("RHIDE_LDFLAGS", {"SPECIAL_LDFLAGS", "LD_EXTRA_FLAGS"})
  @@ V("RHIDE_NASM_TARGET_DJGPP", {}) @@ V("RHIDE_NASM_TARGET_Linux", {})
  @@ V("RHIDE_NASM_TARGET", {"RHIDE_NASM_TARGET_" \o os})

Langs == [n \in {"RHIDE_COMPILE_FORTRAN", "RHIDE_COMPILE_FORTRAN_FORCE"} |->
            SourceFlags \cup {"RHIDE_G77", "C_F_LANG_FLAGS"}]
  @@ [n \in {"RHIDE_COMPILE_C", "RHIDE_COMPILE_C_FORCE"} |->
        SourceFlags \cup {"RHIDE_GCC", "C_C_LANG_FLAGS", "RHIDE_OS_CFLAGS", "CPPFLAGS", "CFLAGS"}]
  @@ [n \in {"RHIDE_COMPILE_CC", "RHIDE_COMPILE_CC_FORCE"} |->
        SourceFlags \cup {"RHIDE_GXX", "C_C_LANG_FLAGS", "C_CXX_LANG_FLAGS", "RHIDE_OS_CXXFLAGS",
                     "CPPFLAGS", "CXXFLAGS"}]
  @@ [n \in {"RHIDE_COMPILE_ASM", "RHIDE_COMPILE_ASM_FORCE"} |-> SourceFlags \cup {"RHIDE_AS"}]
  @@ V("RHIDE_COMPILE_NASM", {"RHIDE_NASM", "RHIDE_NASM_TARGET", "LOCAL_OPT", "OUTFILE",
                              "SOURCE_NAME"})
  @@ V("RHIDE_GPC_FLAGS", {"RHIDE_INCLUDES", "C_DEBUG_FLAGS", "C_OPT_FLAGS", "C_WARN_FLAGS",
                           "C_P_LANG_FLAGS", "C_EXTRA_FLAGS"})
  @@ [n \in {"RHIDE_COMPILE_GPC", "RHIDE_COMPILE_GPC_FORCE"} |->
        {"RHIDE_GPC", "RHIDE_GPC_FLAGS", "LOCAL_OPT", "SOURCE_NAME", "OUTFILE"}]
  @@ V("RHIDE_FPC_FLAGS", {"C_FPC_LANG_FLAGS", "LOCAL_OPT", "INCLUDE_DIRS", "C_EXTRA_FLAGS"})
  @@ [n \in {"RHIDE_COMPILE_FPC", "RHIDE_COMPILE_FPC_FORCE"} |->
        {"RHIDE_FPC", "RHIDE_FPC_FLAGS", "SOURCE_NAME"}]
  @@ V("RHIDE_COMPILE_ADA", SourceFlags \cup {"RHIDE_GCC", "C_C_LANG_FLAGS", "C_ADA_LANG_FLAGS",
                                         "RHIDE_OS_CFLAGS", "CPPFLAGS", "CFLAGS"})
  @@ V("RHIDE_COMPILE_PASCAL", {"RHIDE_COMPILE_*"})
  @@ V("RHIDE_COMPILE_PASCAL_FORCE", {"RHIDE_COMPILE_*_FORCE"})

Links(os) == V("RHIDE_SHARED_LDFLAGS_" \o os, {}) @@ V("RHIDE_SHARED_LDFLAGS", {"RHIDE_SHARED_LDFLAGS_" \o os})
  @@ V("RHIDE_COMPILE_LINK_DLL", Linking \cup {"RHIDE_LD", "C_EXTRA_FLAGS", "OBJFILES",
                                               "RHIDE_SHARED_LDFLAGS"})
  @@ V("RHIDE_COMPILE_LINK", Linking \cup {"RHIDE_LD", "C_EXTRA_FLAGS", "OBJFILES"})
  @@ V("RHIDE_COMPILE_LINK_GPC", Linking \cup {"RHIDE_LD_PASCAL", "C_EXTRA_FLAGS", "OBJFILES"})
  @@ V("RHIDE_COMPILE_LINK_GPC_AUTOMAKE", Linking \cup {"RHIDE_LD_PASCAL", "RHIDE_GPC_FLAGS",
                                                        "SOURCE_NAME"})
  @@ V("RHIDE_COMPILE_LINK_PASCAL", {"RHIDE_COMPILE_LINK_*"})
  @@ V("RHIDE_COMPILE_LINK_PASCAL_AUTOMAKE", {"RHIDE_COMPILE_LINK_*_AUTOMAKE"})
  @@ V("RHIDE_COMPILE_LINK_FPC", {})
  @@ V("RHIDE_COMPILE_LINK_FPC_AUTOMAKE", {"RHIDE_FPC", "OUTFILE", "SOURCE_NAME", "RHIDE_FPC_FLAGS"})
  @@ V("RHIDE_COMPILE_ARCHIVE", {"RHIDE_AR", "RHIDE_ARFLAGS", "OUTFILE", "ALL_OBJFILES"})
  @@ V("RHIDE_COMPILE_LINK_ADA", (Linking \cup {"C_EXTRA_FLAGS"}))

\* RHIDE_COMPILE.from.to, written ".from.to"
Pairs ==
  V(".c.o", {"RHIDE_COMPILE_C"}) @@ V(".cc.o", {"RHIDE_COMPILE_CC"})
  @@ V(".p.o", {"RHIDE_COMPILE_PASCAL"}) @@ V(".pas.o", {".p.o"}) @@ V(".pp.o", {"RHIDE_COMPILE_FPC"})
  @@ V(".pas.s.GPC", {"RHIDE_COMPILE_GPC", "SOURCE_NAME"}) @@ V(".pas.s.FPC", {"RHIDE_COMPILE_FPC"})
  @@ V(".pas.s", {".pas.s.*"}) @@ V(".f.o", {"RHIDE_COMPILE_FORTRAN"})
  @@ V(".nsm.o", {"RHIDE_COMPILE_NASM"}) @@ V(".s.o", {"RHIDE_COMPILE_ASM"})
  @@ [n \in {".c.s", ".c.i"} |-> {"RHIDE_COMPILE_C", "SOURCE_NAME"}] @@ V(".i.s", {".c.s"})
  @@ [n \in {".cc.s", ".cc.ii"} |-> {"RHIDE_COMPILE_CC", "SOURCE_NAME"}] @@ V(".ii.s", {".cc.s"})
  @@ [n \in {".cpp.o", ".C.o"} |-> {".cc.o"}] @@ [n \in {".cpp.s", ".C.s"} |-> {".cc.s"}]
  @@ [n \in {".cpp.ii", ".C.ii"} |-> {".cc.ii"}] @@ [n \in {".for.o", ".F.o"} |-> {".f.o"}]
  @@ V(".asm.o", {".nsm.o"}) @@ V(".adb.o", {"RHIDE_COMPILE_ADA"})

default_variables(os) == Tools @@ Libraries(os) @@ Langs @@ Links(os) @@ Pairs

\* the type of Pascal is put in where a name is computed
TypedNames == ("TYPED_*" :> [GPC |-> "TYPED_GPC", FPC |-> "TYPED_FPC"])
  @@ ("RHIDE_COMPILE_*" :> [GPC |-> "RHIDE_COMPILE_GPC", FPC |-> "RHIDE_COMPILE_FPC"])
  @@ ("RHIDE_COMPILE_*_FORCE" :> [GPC |-> "RHIDE_COMPILE_GPC_FORCE", FPC |-> "RHIDE_COMPILE_FPC_FORCE"])
  @@ ("RHIDE_COMPILE_LINK_*" :> [GPC |-> "RHIDE_COMPILE_LINK_GPC", FPC |-> "RHIDE_COMPILE_LINK_FPC"])
  @@ ("RHIDE_COMPILE_LINK_*_AUTOMAKE" :> [GPC |-> "RHIDE_COMPILE_LINK_GPC_AUTOMAKE",
                                          FPC |-> "RHIDE_COMPILE_LINK_FPC_AUTOMAKE"])
  @@ (".pas.s.*" :> [GPC |-> ".pas.s.GPC", FPC |-> ".pas.s.FPC"])
\* mutant: the name is taken as it is written
ComputedNever(n, pascal) == n
ComputedName(n, pascal) == IF n \in DOMAIN TypedNames THEN TypedNames[n][pascal] ELSE n

\* rhide_tokens: what the IDE itself answers
Tokens == {"RHIDE_OS", "INCLUDE_DIRS", "LIB_DIRS", "C_DEBUG_FLAGS", "C_OPT_FLAGS",
  "C_WARN_FLAGS", "C_C_LANG_FLAGS", "C_CXX_LANG_FLAGS", "C_P_LANG_FLAGS", "C_FPC_LANG_FLAGS",
  "C_F_LANG_FLAGS", "C_ADA_LANG_FLAGS", "LIBS", "LD_EXTRA_FLAGS", "C_EXTRA_FLAGS", "LOCAL_OPT",
  "OBJFILES", "ALL_OBJFILES", "LIBRARIES", "SOURCE_NAME", "OUTFILE", "SPECIAL_CFLAGS",
  "SPECIAL_LDFLAGS", "PROG_ARGS", "SRC_DIRS", "WUC", "EDITORS", "MAIN_TARGET", "PROJECT_ITEMS",
  "DEFAULT_MASK", "RHIDE_BIN_DIR", "PASCAL_TYPE", "GET_HOME", "CLEAN_FILES"}
\* names the user or the system may define, empty otherwise
Outside == {"CFLAGS", "CXXFLAGS", "CPPFLAGS", "LDFLAGS", "RHIDE_OS_LIBS", "RHIDE_OS_CFLAGS",
            "RHIDE_OS_CXXFLAGS"}

\* the names met on the way when a variable is expanded n levels deep
RECURSIVE Met(_, _, _, _)
Met(vars, names, pascal, n) ==
  IF n = 0 THEN names
  ELSE Met(vars, UNION {{ComputedName(m, pascal) : m \in vars[v]} : v \in names \cap DOMAIN vars},
           pascal, n - 1)
----------------------------------------------------------------------------
(* GetCompilerSpec: <<>> is NULL, a name the variable to expand *)

Named(ext) == IF ext = "none" THEN "" ELSE "." \o ext
GetUserCompileSpec(vars, from, to) ==
  LET n == Named(from) \o Named(to) IN IF n \in DOMAIN vars THEN <<n>> ELSE <<>>
Forced(compiler, pascal) ==
  CASE compiler = "NASM" -> <<"RHIDE_COMPILE_NASM">>
    [] compiler = "GPC" -> <<"RHIDE_COMPILE_PASCAL_FORCE">>
    [] compiler = "NONE" -> <<>>
    [] OTHER -> <<"RHIDE_COMPILE_" \o compiler \o "_FORCE">>
Direct == {"C", "CC", "PASCAL", "FPC", "ARCHIVE", "ASM", "OBJC", "FORTRAN", "NASM",
           "LINK_FPC_AUTOMAKE", "LINK_DLL"}
\* by the way of compiling; the sources are those of a link
ById(id, sources, pascal, vars, from, to) ==
  LET P(n) == IF pascal = "GPC" THEN "RHIDE_COMPILE_" \o n ELSE "RHIDE_COMPILE_LINK_FPC"
      special == SelectSeq(sources, LAMBDA t : t \in {"PASCAL", "FPC", "ADA"})
  IN CASE id \in Direct -> <<"RHIDE_COMPILE_" \o id>>
       [] id = "LINK_PASCAL_AUTOMAKE" ->
            <<"RHIDE_COMPILE_LINK_" \o (IF pascal = "GPC" THEN "PASCAL" ELSE "FPC") \o "_AUTOMAKE">>
       [] id = "LINK" -> <<IF special = <<>> THEN "RHIDE_COMPILE_LINK"
                           ELSE CASE special[1] = "PASCAL" -> P("LINK_PASCAL")
                                  [] special[1] = "FPC" -> "RHIDE_COMPILE_LINK_FPC"
                                  [] OTHER -> "RHIDE_COMPILE_LINK_ADA">>
       [] OTHER -> GetUserCompileSpec(vars, from, to)
GetCompilerSpec(compiler, id, sources, pascal, vars, from, to) ==
  IF compiler \notin {"AUTO", "USER"} THEN Forced(compiler, pascal)
  ELSE LET own == GetUserCompileSpec(vars, from, to)
       IN IF compiler = "AUTO" /\ own # <<>> THEN own
          ELSE ById(id, sources, pascal, vars, from, to)
----------------------------------------------------------------------------
(* $(OBJFILES) and $(LIBRARIES); an item has a name, the type of its target,  *)
(* whether it is a project (and then items), and whether it is excluded       *)

Skipped(x, check) == (check = 1 /\ x.exclude) \/ (check = 2 /\ ~x.exclude)
Object(x) == x.dest \in {"OBJECT", "UNKNOWN"}
Separate(x) == x.dest \in {"LIBRARY", "EXE", "COFF", "DLL"}
\* a project inside a sub-project is entered unless it makes a library
RECURSIVE Nested(_, _)
Nested(items, check) ==
  FlattenSeq([i \in DOMAIN items |->
     IF Skipped(items[i], check) THEN <<>>
     ELSE IF items[i].project /\ items[i].dest # "LIBRARY" THEN Nested(items[i].items, check)
     ELSE IF Object(items[i]) THEN <<items[i].name>> ELSE <<>>])
ObjFilesOfAll(items, check, use_all_obj) ==       \* mutant: sub-projects always
  FlattenSeq([i \in DOMAIN items |->
     IF Skipped(items[i], check) THEN <<>>
     ELSE IF items[i].project THEN Nested(items[i].items, check)
     ELSE IF Object(items[i]) THEN <<items[i].name>> ELSE <<>>])
_objfiles(items, check, use_all_obj) ==
  FlattenSeq([i \in DOMAIN items |->
     IF Skipped(items[i], check) THEN <<>>
     ELSE IF items[i].project /\ (use_all_obj \/ ~Separate(items[i]))
          THEN Nested(items[i].items, check)
     ELSE IF Object(items[i]) THEN <<items[i].name>> ELSE <<>>])
\* libraries and shared libraries of the project itself
_libraries(items, check) ==
  SelectSeq(items, LAMBDA x : ~Skipped(x, check) /\ x.dest \in {"LIBRARY", "DLL"})
=============================================================================
