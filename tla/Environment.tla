----------------------------- MODULE Environment -----------------------------
(***************************************************************************)
(* The files rhide.env of the directories projects live in, read when a       *)
(* project is opened or pushed and read again, to remove the same variables, *)
(* when it is closed or popped (ideenv.cc over specs.cc's table of user       *)
(* variables).                                                               *)
(***************************************************************************)
EXTENDS Tables, Functions, TLC

CONSTANTS
  VarNames,         \* names of variables, ranked by Rank
  Computed,         \* Computed[n]: names that hold $(of), by the value of that
  Defaults,         \* Defaults[n]: the contents of the variables RHIDE has itself
  EnvNames,         \* EnvNames[n]: the variables of the process
  EnvFiles,         \* EnvFiles[f]: the texts rhide.env may have, sequences of lines
  ConfigDirs,       \* the files $(RHIDE_CONFIG_DIRS) leads to, in that order
  MaxNested,        \* projects open inside each other
  MaxEdits          \* bound: changes of files while they are in force

Line(kind, n, c) == [kind |-> kind, name |-> n, contents |-> c]
SetLines == [kind : {"set", "add", "export"}, name : VarNames, contents : Seq(STRING)]
IncludeLines == [kind : {"include"}, name : DOMAIN EnvFiles, contents : {<<>>}]

\* bound: files that are included include no others
ASSUME EnvironmentAssumption ==
  /\ Rank \in [VarNames -> Nat] /\ IsInjective(Rank)
  /\ DOMAIN Defaults \subseteq VarNames /\ Defaults \in [DOMAIN Defaults -> Seq(STRING)]
  /\ DOMAIN EnvNames \subseteq VarNames /\ EnvNames \in [DOMAIN EnvNames -> Seq(STRING)]
  /\ \A n \in DOMAIN Computed : {Computed[n].of} \cup Range(Computed[n].names) \subseteq VarNames
  /\ \A f \in DOMAIN EnvFiles : EnvFiles[f] \subseteq Seq(SetLines \cup IncludeLines)
  /\ \A f \in DOMAIN EnvFiles : \A t \in EnvFiles[f] : \A line \in Range(t) :
       line.kind = "include" => EnvFiles[line.name] \subseteq Seq(SetLines)
  /\ ConfigDirs \in Seq(DOMAIN EnvFiles)

VARIABLES
  text,     \* text[f]: what is in the file now
  user,     \* user_vars, sorted
  environ,  \* the variables of the process
  inside,   \* the files of the open projects, the outermost first
  before,   \* what the variables were when each of them was entered
  loaded,   \* history: the lines that were read then
  lost,     \* history: of how many of them, the outermost, the entries are in disorder
  edits     \* history: how often a file was changed that was in force

envvars == <<text, user, environ, inside, before, loaded, lost, edits>>

insert_user_variable(tab, n, c) == _add_variable(tab, n, c)
remove_user_variable(tab, n) == _remove_variable(tab, n)

\* GetVariable; no foreach is on, <<>> is NULL
ValueOf(tab, env, n) ==
  LET own == _get_variable(tab, n)
  IN IF own # <<>> THEN own
     ELSE IF n \in DOMAIN Defaults THEN <<Defaults[n]>>
     ELSE IF n \in DOMAIN env THEN <<env[n]>> ELSE <<>>
Contents(tab, env, n) ==
  LET v == ValueOf(tab, env, n) IN IF v = <<>> THEN <<>> ELSE v[1]
Visible(tab, env) == [n \in VarNames |-> ValueOf(tab, env, n)]

\* the name a line sets as it is read: a computed one is expanded
Expanded(tab, env, n) ==
  IF n \notin DOMAIN Computed THEN n
  ELSE LET c == Contents(tab, env, Computed[n].of)
       IN IF c \in DOMAIN Computed[n].names THEN Computed[n].names[c] ELSE n

\* lines that set: "set", "add" for +=, "export"; the value of an exported one
\* never reaches putenv, which removes a name without a value.  Both the name as
\* it is written and, if it is another one, its expansion are set
LoadLine(s, line, unload) ==
  LET n == line.name
      m == Expanded(s.user, s.environ, n)
      c == IF line.kind = "add" THEN Contents(s.user, s.environ, m) \o line.contents
           ELSE line.contents
      change(tab, x) == IF unload THEN remove_user_variable(tab, x)
                        ELSE insert_user_variable(tab, x, c)
      once == change(s.user, n)
  IN [user |-> IF m = n THEN once ELSE change(once, m),
      environ |-> IF line.kind = "export"
                  THEN [x \in DOMAIN s.environ \ {m} |-> s.environ[x]] ELSE s.environ]
LoadLines(s, lines, unload) ==
  LET done[i \in 0..Len(lines)] == IF i = 0 THEN s ELSE LoadLine(done[i - 1], lines[i], unload)
  IN done[Len(lines)]

\* a line may include another file
FileLines(files, f) ==
  FlattenSeq([i \in DOMAIN files[f] |->
    LET line == files[f][i] IN IF line.kind = "include" THEN files[line.name] ELSE <<line>>])
Includes(files, f) == {files[f][i].name : i \in {j \in DOMAIN files[f] : files[f][j].kind = "include"}}

_rhide_load_environment_file(s, files, f, unload) == LoadLines(s, FileLines(files, f), unload)
\* the files of the configuration, the last one first
rhide_load_environment_file(s, files, fs) ==
  LoadLines(s, FlattenSeq([i \in DOMAIN fs |-> FileLines(files, Reverse(fs)[i])]), FALSE)

Set(s) == user' = s.user /\ environ' = s.environ
Now == [user |-> user, environ |-> environ]

EnvInit ==
  /\ text \in {t \in [DOMAIN EnvFiles -> UNION Range(EnvFiles)] :
                 \A f \in DOMAIN EnvFiles : t[f] \in EnvFiles[f]}
  /\ LET s == rhide_load_environment_file([user |-> <<>>, environ |-> EnvNames], text, ConfigDirs)
     IN user = s.user /\ environ = s.environ
  /\ inside = <<>> /\ before = <<>> /\ loaded = <<>> /\ lost = 0 /\ edits = 0

\* a project in the directory of f is opened or pushed
push_environment(f) ==
  /\ Len(inside) < MaxNested
  /\ Set(_rhide_load_environment_file(Now, text, f, FALSE))
  /\ inside' = Append(inside, f)
  /\ before' = Append(before, Visible(user, environ))
  /\ loaded' = Append(loaded, FileLines(text, f))
  /\ UNCHANGED <<text, lost, edits>>

\* the i-th project will remove what it has set: its file and those it includes
\* read as they did, and nothing else was removed inside of it
Undoes(i) == i > lost /\ FileLines(text, inside[i]) = loaded[i]
Leave ==
  /\ inside # <<>>
  /\ inside' = Front(inside) /\ before' = Front(before) /\ loaded' = Front(loaded)
  /\ lost' = IF Undoes(Len(inside)) THEN lost ELSE Len(inside) - 1
  /\ UNCHANGED <<text, edits>>
PopNothing == Leave /\ UNCHANGED <<user, environ>>           \* mutant: the variables stay
pop_environment ==
  /\ Leave
  /\ Set(_rhide_load_environment_file(Now, text, Last(inside), TRUE))

\* the user, or a program, writes a rhide.env, be it in force or not
InForce(f) == \E i \in DOMAIN inside : f = inside[i] \/ f \in Includes(text, inside[i])
EditFile(f) ==
  /\ InForce(f) => edits < MaxEdits
  /\ edits' = IF InForce(f) THEN edits + 1 ELSE edits
  /\ \E t \in EnvFiles[f] : t # text[f] /\ text' = [text EXCEPT ![f] = t]
  /\ UNCHANGED <<user, environ, inside, before, loaded, lost>>

EnvNext == \/ \E f \in DOMAIN EnvFiles : push_environment(f) \/ EditFile(f)
           \/ pop_environment
EnvSpec == EnvInit /\ [][EnvNext]_envvars
----------------------------------------------------------------------------
(* Properties *)

\* Leaving a directory gives every variable the value it had before it was
\* entered, however often the names are set, added to, hidden or included
\* (ideenv.cc:71-193; the comment at specs.cc:96-97): the tables implement
\* ScopedVariables.  Leaving reads the file again, so this is said of a
\* directory whose file, and the files it includes, read as they did when it was
\* entered; one that changed meanwhile removes other names than it set, and then
\* nothing is said of the directories outside of it either.
Broken == {i \in 1..Len(inside) : ~Undoes(i)}
Scopes == INSTANCE ScopedVariables WITH
            Values <- [VarNames -> Seq(Seq(STRING))],
            scopes <- Append(before, Visible(user, environ)),
            broken <- Broken
ScopesRestored == Scopes!Spec

\* What it takes: no name is set by a file that names of the same file are
\* computed from, and no variable of the process is exported, which removes it.
SetBy(n) == {n} \cup (IF n \in DOMAIN Computed THEN Range(Computed[n].names) ELSE {})
LinesOf(f) ==
  LET lines(g) == UNION {Range(t) : t \in EnvFiles[g]}
      included == {x.name : x \in {y \in lines(f) : y.kind = "include"}}
  IN {x \in UNION {lines(g) : g \in {f} \cup included} : x.kind # "include"}
NamesLast ==
  \A f \in DOMAIN EnvFiles : \A x, y \in LinesOf(f) :
    /\ y.name \in DOMAIN Computed => Computed[y.name].of \notin SetBy(x.name)
    /\ x.kind = "export" => SetBy(x.name) \cap DOMAIN EnvNames = {}
=============================================================================
