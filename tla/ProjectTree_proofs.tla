------------------------- MODULE ProjectTree_proofs -------------------------
(***************************************************************************)
(* Proofs about ProjectTree, for any directories, projects and disks.      *)
(* The functions of the code are operators on the record of the globals;    *)
(* each gets a lemma that says which fields it changes and how, and the     *)
(* invariants are shown over those.                                         *)
(***************************************************************************)
EXTENDS ProjectTree, SequenceTheorems, FiniteSetTheorems, TLAPS

Name == Names \cup {StdName}
Value == UNION {Range(EnvFile[d]) : d \in Dirs}
Entry == [pname : Names, dname : Dirs, project : Project]
Ide == [cwd : Dirs, dirs : SUBSET Dirs, only : BOOLEAN, project : Project \cup {NONE},
        project_name : Names \cup {NONE}, standard_project_name : {NONE, StdName},
        dskname : Name \cup {NONE, NOWHERE}, project_directory : Dirs \cup {NONE},
        stack : Seq(Entry), PRJSTACK : Seq(Dirs \X Names), env : [Vars -> Seq(Value)],
        applied : Path \cup {NONE}, desk : SUBSET Path,
        disk : [Path -> Project \cup {NONE}], gdt : [Path -> (SUBSET Path) \cup {NONE}]]

\* from s to t only the fields of F change
Keeps(s, t, F) == \A x \in DOMAIN s \ F : t[x] = s[x]

----------------------------------------------------------------------------
(* The operators, one by one *)

\* A field that is not among F keeps its value.
LEMMA KeepsFields ==
  ASSUME NEW s \in Ide, NEW t, NEW F, Keeps(s, t, F)
  PROVE  /\ "cwd" \notin F => t.cwd = s.cwd
         /\ "dirs" \notin F => t.dirs = s.dirs
         /\ "only" \notin F => t.only = s.only
         /\ "project" \notin F => t.project = s.project
         /\ "project_name" \notin F => t.project_name = s.project_name
         /\ "standard_project_name" \notin F => t.standard_project_name = s.standard_project_name
         /\ "dskname" \notin F => t.dskname = s.dskname
         /\ "project_directory" \notin F => t.project_directory = s.project_directory
         /\ "stack" \notin F => t.stack = s.stack
         /\ "PRJSTACK" \notin F => t.PRJSTACK = s.PRJSTACK
         /\ "env" \notin F => t.env = s.env
         /\ "applied" \notin F => t.applied = s.applied
         /\ "desk" \notin F => t.desk = s.desk
         /\ "disk" \notin F => t.disk = s.disk
         /\ "gdt" \notin F => t.gdt = s.gdt
BY DEF Keeps, Ide

\* Two steps one after the other change what either of them changes.
LEMMA KeepsMore ==
  ASSUME NEW s \in Ide, NEW t \in Ide, NEW u, NEW F, NEW G, NEW H,
         Keeps(s, t, F), Keeps(t, u, G), F \cup G \subseteq H
  PROVE  Keeps(s, u, H)
<1>1. DOMAIN s = DOMAIN t
  BY DEF Ide
<1> QED BY <1>1 DEF Keeps

\* Paths of projects, and Here, which finds a name in the working directory.
LEMMA Paths ==
  /\ Std \in Path /\ Dirs \X Names \subseteq Path
  /\ \A f \in Dirs \X Names : f[1] \in Dirs /\ f[2] \in Names /\ f = <<f[1], f[2]>> /\ f # Std
                              /\ \A s : Here(s, f[2]) = <<s.cwd, f[2]>>
  /\ \A s \in Ide, n \in Name : Here(s, n) \in Path
  /\ \A s : Here(s, StdName) = Std
BY TreeAssumption DEF Path, Std, Here, Name, Ide

\* chdir changes the working directory, to d when that exists.
LEMMA ChdirFields ==
  ASSUME NEW s \in Ide, NEW d
  PROVE  /\ Chdir(s, d) \in Ide /\ Keeps(s, Chdir(s, d), {"cwd"})
         /\ Chdir(s, d).cwd = (IF d \in s.dirs THEN d ELSE s.cwd)
         /\ d = s.cwd => Chdir(s, d) = s
         /\ s.cwd \in s.dirs => Chdir(s, d).cwd \in s.dirs
BY ZenonT(60) DEF Ide, Chdir, Keeps

\* push_environment keeps the type of the variables.
LEMMA PushedValues ==
  ASSUME NEW s \in Ide
  PROVE  /\ push_environment(s) \in Ide /\ Keeps(s, push_environment(s), {"env"})
         /\ \A v \in Vars : push_environment(s).env[v] =
              IF v \in DOMAIN EnvFile[s.cwd] THEN <<EnvFile[s.cwd][v]>> \o s.env[v]
              ELSE s.env[v]
<1> DEFINE env == [v \in Vars |-> IF v \in DOMAIN EnvFile[s.cwd]
                                  THEN <<EnvFile[s.cwd][v]>> \o s.env[v] ELSE s.env[v]]
<1>1. s.env \in [Vars -> Seq(Value)] /\ s.cwd \in Dirs
  BY DEF Ide
<1>2. ASSUME NEW v \in DOMAIN EnvFile[s.cwd] PROVE EnvFile[s.cwd][v] \in Value
  BY <1>1, <1>2 DEF Value, Range
<1>3. env \in [Vars -> Seq(Value)]
  <2> SUFFICES ASSUME NEW v \in Vars PROVE env[v] \in Seq(Value)
    OBVIOUS
  <2>1. s.env[v] \in Seq(Value)
    BY <1>1
  <2>2. CASE v \in DOMAIN EnvFile[s.cwd]
    BY <1>2, <2>1, <2>2
  <2> QED BY <2>1, <2>2
<1>4. push_environment(s) = [s EXCEPT !.env = env]
  BY DEF push_environment
<1>5. \A v \in Vars : env[v] = IF v \in DOMAIN EnvFile[s.cwd]
                               THEN <<EnvFile[s.cwd][v]>> \o s.env[v] ELSE s.env[v]
  OBVIOUS
<1> HIDE DEF env
<1>6. [s EXCEPT !.env = env] \in Ide /\ Keeps(s, [s EXCEPT !.env = env], {"env"})
      /\ [s EXCEPT !.env = env].env = env
  BY <1>3 DEF Ide, Keeps
<1> QED BY <1>4, <1>5, <1>6

\* So does pop_environment.
LEMMA PoppedValues ==
  ASSUME NEW s \in Ide
  PROVE  /\ pop_environment(s) \in Ide /\ Keeps(s, pop_environment(s), {"env"})
         /\ \A v \in Vars : pop_environment(s).env[v] =
              IF v \in DOMAIN EnvFile[s.cwd] /\ s.env[v] # <<>> THEN Tail(s.env[v])
              ELSE s.env[v]
<1> DEFINE env == [v \in Vars |-> IF v \in DOMAIN EnvFile[s.cwd] /\ s.env[v] # <<>>
                                  THEN Tail(s.env[v]) ELSE s.env[v]]
<1>1. s.env \in [Vars -> Seq(Value)]
  BY DEF Ide
<1>3. env \in [Vars -> Seq(Value)]
  <2> SUFFICES ASSUME NEW v \in Vars PROVE env[v] \in Seq(Value)
    OBVIOUS
  <2>1. s.env[v] \in Seq(Value)
    BY <1>1
  <2>2. CASE s.env[v] # <<>>
    BY <2>1, <2>2
  <2> QED BY <2>1, <2>2
<1>4. pop_environment(s) = [s EXCEPT !.env = env]
  BY DEF pop_environment
<1>5. \A v \in Vars : env[v] = IF v \in DOMAIN EnvFile[s.cwd] /\ s.env[v] # <<>>
                               THEN Tail(s.env[v]) ELSE s.env[v]
  OBVIOUS
<1> HIDE DEF env
<1>6. [s EXCEPT !.env = env] \in Ide /\ Keeps(s, [s EXCEPT !.env = env], {"env"})
      /\ [s EXCEPT !.env = env].env = env
  BY <1>3 DEF Ide, Keeps
<1> QED BY <1>4, <1>5, <1>6

\* ReadProject sets the project and, when the file exists, its directory.
LEMMA ReadFields ==
  ASSUME NEW s \in Ide, NEW f \in Path
  PROVE  /\ ReadProject(s, f) \in Ide
         /\ Keeps(s, ReadProject(s, f), {"project", "project_directory"})
         /\ ReadProject(s, f).project = s.disk[f]
         /\ s.disk[f] # NONE => ReadProject(s, f).project_directory = s.cwd
BY ZenonT(60) DEF ReadProject, Ide, Keeps

\* SaveDesktop writes at most the desktop file of dskname.
LEMMA SaveDesktopFields ==
  ASSUME NEW s \in Ide
  PROVE  /\ SaveDesktop(s) \in Ide /\ Keeps(s, SaveDesktop(s), {"gdt"})
         /\ \A f \in Path : SaveDesktop(s).gdt[f] = s.gdt[f]
              \/ (f = Here(s, s.dskname) /\ s.dskname # NOWHERE /\ SaveDesktop(s).gdt[f] = s.desk)
<1> DEFINE f == Here(s, s.dskname)
           g == [s.gdt EXCEPT ![f] = s.desk]
<1>1. g \in [Path -> (SUBSET Path) \cup {NONE}]
  BY DEF Ide
<1>2. \A x \in Path : g[x] = s.gdt[x] \/ (x = f /\ g[x] = s.desk)
  BY DEF Ide
<1>3. [s EXCEPT !.gdt[f] = s.desk] = [s EXCEPT !.gdt = g]
  BY DEF Ide
<1> HIDE DEF g
<1>4. [s EXCEPT !.gdt = g] \in Ide /\ Keeps(s, [s EXCEPT !.gdt = g], {"gdt"})
      /\ [s EXCEPT !.gdt = g].gdt = g
  BY <1>1 DEF Ide, Keeps
<1>5. SaveDesktop(s) = s \/ (s.dskname # NOWHERE /\ SaveDesktop(s) = [s EXCEPT !.gdt = g])
  BY <1>3 DEF SaveDesktop
<1> QED BY <1>2, <1>4, <1>5 DEF Keeps

\* SaveTo writes at most the file f, with the project in memory.
LEMMA SaveToFields ==
  ASSUME NEW s \in Ide, NEW f \in Path, s.project # NONE
  PROVE  /\ SaveTo(s, f) \in Ide /\ Keeps(s, SaveTo(s, f), {"disk"})
         /\ SaveTo(s, f).disk = IF f[1] \in ReadOnly THEN s.disk
                                ELSE [s.disk EXCEPT ![f] = s.project]
BY DEF SaveTo, Ide, Keeps

\* the file SaveProject writes, and what happens to the desktops
SavedName(s) == IF s.project_name = NONE THEN s.standard_project_name
                ELSE s.project_name
\* SaveProject changes the disk only: one project file, one desktop file.
LEMMA SaveFields ==
  ASSUME NEW s \in Ide, s.project # NONE
  PROVE  /\ SaveProject(s) \in Ide /\ Keeps(s, SaveProject(s), {"disk", "gdt"})
         /\ SavedName(s) = NONE => SaveProject(s) = s
         /\ SavedName(s) # NONE =>
              /\ SavedName(s) \in Name
              /\ SaveProject(s).disk = SaveTo(s, Here(s, SavedName(s))).disk
         /\ s.stack # <<>> => SaveProject(s).gdt = s.gdt
         /\ \A f \in Path : SaveProject(s).gdt[f] = s.gdt[f]
              \/ (f = Here(s, s.dskname) /\ s.dskname # NOWHERE /\ SaveProject(s).gdt[f] = s.desk)
<1> DEFINE n == SavedName(s)
           t == SaveTo(s, Here(s, n))
<1>1. CASE n = NONE
  <2>1. SaveProject(s) = s
    BY <1>1 DEF SaveProject, SavedName
  <2> QED BY <1>1, <2>1 DEF Keeps
<1>2. CASE n # NONE
  <2>1. n \in Name /\ Here(s, n) \in Path
    BY <1>2, Paths DEF SavedName, Ide, Name
  <2>2. /\ t \in Ide /\ Keeps(s, t, {"disk"})
    BY <2>1, SaveToFields
  <2>3. /\ SaveDesktop(t) \in Ide /\ Keeps(t, SaveDesktop(t), {"gdt"})
        /\ \A f \in Path : SaveDesktop(t).gdt[f] = t.gdt[f]
             \/ (f = Here(t, t.dskname) /\ t.dskname # NOWHERE /\ SaveDesktop(t).gdt[f] = t.desk)
    BY <2>2, SaveDesktopFields
  <2>4. SaveProject(s) = IF s.stack = <<>> THEN SaveDesktop(t) ELSE t
    BY <1>2 DEF SaveProject, SavedName
  <2>5. Here(t, t.dskname) = Here(s, s.dskname) /\ t.dskname = s.dskname /\ t.desk = s.desk /\ t.gdt = s.gdt
    BY <2>2 DEF Here, Keeps, Ide
  <2> HIDE DEF t, n
  <2>6. Keeps(s, SaveDesktop(t), {"disk", "gdt"}) /\ SaveDesktop(t).disk = t.disk
    BY <2>2, <2>3 DEF Keeps, Ide
  <2>7. Keeps(s, t, {"disk", "gdt"})
    BY <2>2 DEF Keeps
  <2>8. SaveProject(s) \in Ide /\ Keeps(s, SaveProject(s), {"disk", "gdt"})
        /\ SaveProject(s).disk = t.disk
    BY <2>2, <2>3, <2>4, <2>6, <2>7
  <2>9. s.stack # <<>> => SaveProject(s).gdt = s.gdt
    BY <2>4, <2>5
  <2>10. \A f \in Path : SaveProject(s).gdt[f] = s.gdt[f]
              \/ (f = Here(s, s.dskname) /\ s.dskname # NOWHERE /\ SaveProject(s).gdt[f] = s.desk)
    BY <2>3, <2>4, <2>5
  <2> QED BY <1>2, <2>1, <2>8, <2>9, <2>10 DEF n, t
<1> QED BY <1>1, <1>2

\* SetGlobalOptions sets the static flags and nothing else.
LEMMA OptionsFields ==
  ASSUME NEW s \in Ide, s.project # NONE
  PROVE  /\ SetGlobalOptions(s) \in Ide /\ Keeps(s, SetGlobalOptions(s), {"applied"})
         /\ SetGlobalOptions(s).applied = s.project.of
BY DEF SetGlobalOptions, Ide, Keeps, Project

\* LoadDesktop adds the windows of the desktop file n.
LEMMA LoadFields ==
  ASSUME NEW s \in Ide, NEW n \in Name
  PROVE  /\ LoadDesktop(s, n) \in Ide /\ Keeps(s, LoadDesktop(s, n), {"dskname", "desk"})
         /\ LoadDesktop(s, n).dskname = n
         /\ LoadDesktop(s, n).desk = s.desk \cup (IF s.gdt[Here(s, n)] = NONE THEN {}
                                                  ELSE s.gdt[Here(s, n)])
<1>1. Here(s, n) \in Path
  BY Paths
<1> DEFINE d == s.desk \cup (IF s.gdt[Here(s, n)] = NONE THEN {} ELSE s.gdt[Here(s, n)])
<1>2. d \in SUBSET Path
  BY <1>1 DEF Ide
<1>3. LoadDesktop(s, n) = [s EXCEPT !.dskname = n, !.desk = d]
  BY DEF LoadDesktop
<1> HIDE DEF d
<1>4. LoadDesktop(s, n) \in Ide /\ Keeps(s, LoadDesktop(s, n), {"dskname", "desk"})
      /\ LoadDesktop(s, n).dskname = n /\ LoadDesktop(s, n).desk = d
  BY <1>2, <1>3, ZenonT(60) DEF Ide, Keeps, Name
<1> QED BY <1>4 DEF d

\* ClearDeskTop closes all windows.
LEMMA ClearFields ==
  ASSUME NEW s \in Ide
  PROVE  /\ ClearDeskTop(s) \in Ide /\ Keeps(s, ClearDeskTop(s), {"desk"})
         /\ ClearDeskTop(s).desk = {}
BY DEF ClearDeskTop, Ide, Keeps

\* Setting project_name.
LEMMA NameFields ==
  ASSUME NEW s \in Ide
  PROVE  LET t == [s EXCEPT !.project_name = NONE] IN
         t \in Ide /\ Keeps(s, t, {"project_name"}) /\ t.project_name = NONE
BY DEF Ide, Keeps

\* Setting standard_project_name.
LEMMA StdNameFields ==
  ASSUME NEW s \in Ide
  PROVE  LET t == [s EXCEPT !.standard_project_name = StdName, !.dskname = StdName] IN
         /\ t \in Ide /\ Keeps(s, t, {"standard_project_name", "dskname"})
         /\ t.standard_project_name = StdName /\ t.dskname = StdName
BY DEF Ide, Keeps, Name

\* Setting project_directory to the working directory.
LEMMA DirectoryFields ==
  ASSUME NEW s \in Ide
  PROVE  LET t == [s EXCEPT !.project_directory = s.cwd] IN
         t \in Ide /\ Keeps(s, t, {"project_directory"}) /\ t.project_directory = s.cwd
BY DEF Ide, Keeps

\* Setting the project object.
LEMMA ProjectFields ==
  ASSUME NEW s \in Ide, NEW p \in Project
  PROVE  LET t == [s EXCEPT !.project = p] IN
         t \in Ide /\ Keeps(s, t, {"project"}) /\ t.project = p
BY DEF Ide, Keeps

\* Setting dskname.
LEMMA DskNameFields ==
  ASSUME NEW s \in Ide, NEW n \in Name \cup {NOWHERE}
  PROVE  LET t == [s EXCEPT !.dskname = n] IN
         t \in Ide /\ Keeps(s, t, {"dskname"}) /\ t.dskname = n
BY DEF Ide, Keeps

----------------------------------------------------------------------------
(* Saving, closing and opening *)

Owned(s) == \A f \in Path : s.disk[f] # NONE => s.disk[f].of = f

\* the project that is open is the one its name and directory say
Placed(s) ==
  /\ s.project # NONE /\ s.cwd \in s.dirs
  /\ IF s.project_name = NONE THEN s.project.of = Std
     ELSE s.cwd = s.project_directory /\ s.project.of = <<s.cwd, s.project_name>>

DskOf(s) == IF s.project_name = NONE THEN StdName ELSE s.project_name

Pushed(e, d, f) == \A v \in Vars :
  f[v] = IF v \in DOMAIN EnvFile[d] THEN <<EnvFile[d][v]>> \o e[v] ELSE e[v]

\* A project that is placed is saved in its own file, and no other changes.
LEMMA SaveOwned ==
  ASSUME NEW s \in Ide, Placed(s), Owned(s)
  PROVE  /\ Owned(SaveProject(s))
         /\ \A f \in Path : \/ SaveProject(s).disk[f] = s.disk[f]
                            \/ f = s.project.of /\ SaveProject(s).disk[f] = s.project
         /\ s.project_name # NONE /\ s.cwd \notin ReadOnly =>
              SaveProject(s).disk[s.project.of] = s.project
<1>1. CASE SavedName(s) = NONE
  <2>1. SaveProject(s) = s /\ s.project_name = NONE
    BY <1>1, SaveFields DEF Placed, SavedName
  <2> QED BY <2>1
<1>2. CASE SavedName(s) # NONE
  <2> DEFINE f == Here(s, SavedName(s))
  <2>1. f = s.project.of /\ f \in Path
    <3>1. CASE s.project_name = NONE
      BY <1>2, <3>1, Paths DEF SavedName, Ide, Placed
    <3>2. CASE s.project_name # NONE
      <4>1. s.project_name \in Names /\ s.project_name # StdName /\ s.cwd \in Dirs
        BY <3>2, TreeAssumption DEF Ide
      <4>2. f = <<s.cwd, s.project_name>>
        BY <3>2, <4>1 DEF SavedName, Here
      <4> QED BY <3>2, <4>1, <4>2, Paths DEF Placed
    <3> QED BY <3>1, <3>2
  <2>2. SaveProject(s).disk = IF f[1] \in ReadOnly THEN s.disk ELSE [s.disk EXCEPT ![f] = s.project]
    BY <1>2, <2>1, SaveFields, SaveToFields DEF Placed
  <2>3. s.disk \in [Path -> Project \cup {NONE}]
    BY DEF Ide
  <2>4. s.project_name # NONE => f[1] = s.cwd
    BY <2>1 DEF Placed
  <2> HIDE DEF f
  <2>5. \A g \in Path : \/ SaveProject(s).disk[g] = s.disk[g]
                        \/ g = s.project.of /\ SaveProject(s).disk[g] = s.project
    BY <2>1, <2>2, <2>3
  <2>6. s.project_name # NONE /\ s.cwd \notin ReadOnly =>
              SaveProject(s).disk[s.project.of] = s.project
    BY <2>1, <2>2, <2>3, <2>4
  <2> QED BY <2>5, <2>6 DEF Owned
<1> QED BY <1>1, <1>2

\* CloseProject saves, forgets project, name and windows, and takes the
\* variables of the directory back.
LEMMA CloseFields ==
  ASSUME NEW s \in Ide, s.project # NONE
  PROVE  LET t == CloseProject(s) IN
         /\ t \in Ide
         /\ Keeps(s, t, {"disk", "gdt", "desk", "project", "dskname", "project_name", "env"})
         /\ t.project = NONE /\ t.project_name = NONE /\ t.desk = {}
         /\ t.disk = SaveProject(s).disk /\ t.gdt = SaveProject(s).gdt
         /\ \A v \in Vars : t.env[v] =
              IF v \in DOMAIN EnvFile[s.cwd] /\ s.env[v] # <<>> THEN Tail(s.env[v]) ELSE s.env[v]
<1> DEFINE t == SaveProject(s)
           d == ClearDeskTop(t)
           n == IF t.project_name = NONE THEN d.dskname ELSE NONE
           u == [d EXCEPT !.project = NONE, !.dskname = n, !.project_name = NONE]
<1>1. t \in Ide /\ Keeps(s, t, {"disk", "gdt"})
  BY SaveFields
<1>2. d \in Ide /\ Keeps(t, d, {"desk"}) /\ d.desk = {}
  BY <1>1, ClearFields
<1>3. CloseProject(s) = pop_environment(u)
  BY DEF CloseProject
<1>0. n \in Name \cup {NONE, NOWHERE}
  BY <1>2 DEF Ide
<1> HIDE DEF t, d, n
<1>4. /\ u \in Ide /\ Keeps(d, u, {"project", "dskname", "project_name"})
      /\ u.project = NONE /\ u.project_name = NONE
  BY <1>0, <1>2 DEF Ide, Keeps
<1> HIDE DEF u
<1>5. /\ pop_environment(u) \in Ide /\ Keeps(u, pop_environment(u), {"env"})
      /\ \A v \in Vars : pop_environment(u).env[v] =
           IF v \in DOMAIN EnvFile[u.cwd] /\ u.env[v] # <<>> THEN Tail(u.env[v]) ELSE u.env[v]
  BY <1>4, PoppedValues
<1>6. u.cwd = s.cwd /\ u.env = s.env /\ u.disk = t.disk /\ u.gdt = t.gdt /\ u.desk = {}
  BY <1>1, <1>2, <1>4, KeepsFields
<1>7. Keeps(s, pop_environment(u), {"disk", "gdt", "desk", "project", "dskname", "project_name", "env"})
  <2>1. Keeps(s, d, {"disk", "gdt", "desk"})
    BY <1>1, <1>2, KeepsMore
  <2>2. Keeps(s, u, {"disk", "gdt", "desk", "project", "dskname", "project_name"})
    BY <1>2, <1>4, <2>1, KeepsMore
  <2> QED BY <1>4, <1>5, <2>2, KeepsMore
<1>8. LET p == pop_environment(u) IN p.project = NONE /\ p.project_name = NONE /\ p.desk = {}
        /\ p.disk = t.disk /\ p.gdt = t.gdt
  BY <1>4, <1>5, <1>6, KeepsFields
<1> QED BY <1>3, <1>5, <1>6, <1>7, <1>8 DEF t

\* Opening a project whose file exists.
LEMMA OldFields ==
  ASSUME NEW s \in Ide, NEW n \in Names, s.disk[<<s.cwd, n>>] # NONE
  PROVE  LET r == OpenOld(s, n)
             f == <<s.cwd, n>> IN
         /\ r \in Ide
         /\ Keeps(s, r, {"project", "project_directory", "dskname", "desk", "env", "applied"})
         /\ r.project = s.disk[f] /\ r.project_directory = s.cwd /\ r.dskname = n
         /\ r.applied = r.project.of
         /\ r.desk = IF s.gdt[f] = NONE THEN {} ELSE s.gdt[f]
         /\ Pushed(s.env, s.cwd, r.env)
<1> DEFINE f == <<s.cwd, n>>
           a == ReadProject(s, f)
           b == ClearDeskTop(a)
           t == LoadDesktop(b, n)
           u == [t EXCEPT !.project_directory = t.cwd]
           o == SetGlobalOptions(u)
           r == push_environment(o)
<1>0. n \in Name /\ n # StdName /\ s.cwd \in Dirs /\ f \in Path /\ f = Here(s, n)
  BY TreeAssumption, Paths DEF Name, Here, Ide
<1>1. a \in Ide /\ Keeps(s, a, {"project", "project_directory"}) /\ a.project = s.disk[f]
  BY <1>0, ReadFields
<1>2. b \in Ide /\ Keeps(a, b, {"desk"}) /\ b.desk = {}
  BY <1>1, ClearFields
<1>3. /\ t \in Ide /\ Keeps(b, t, {"dskname", "desk"}) /\ t.dskname = n
      /\ t.desk = b.desk \cup (IF b.gdt[Here(b, n)] = NONE THEN {} ELSE b.gdt[Here(b, n)])
  BY <1>0, <1>2, LoadFields
<1>4. OpenOld(s, n) = r
  BY <1>0 DEF OpenOld
<1> HIDE DEF a, b, t
<1>5. b.gdt = s.gdt /\ b.cwd = s.cwd /\ t.cwd = s.cwd /\ t.project = s.disk[f] /\ t.env = s.env
      /\ Here(b, n) = f
  <2>1. b.gdt = s.gdt /\ b.cwd = s.cwd /\ b.project = s.disk[f] /\ b.env = s.env
    BY <1>1, <1>2, KeepsFields
  <2>2. t.cwd = s.cwd /\ t.project = s.disk[f] /\ t.env = s.env
    BY <1>2, <1>3, <2>1, KeepsFields
  <2> QED BY <1>0, <2>1, <2>2 DEF Here
<1>6. /\ u \in Ide /\ Keeps(t, u, {"project_directory"}) /\ u.project_directory = s.cwd
  BY <1>3, <1>5, ZenonT(60) DEF Ide, Keeps
<1> HIDE DEF u
<1>7. u.project = s.disk[f] /\ u.project # NONE /\ u.cwd = s.cwd /\ u.env = s.env
  BY <1>3, <1>5, <1>6, KeepsFields
<1>8. o \in Ide /\ Keeps(u, o, {"applied"}) /\ o.applied = u.project.of
  BY <1>6, <1>7, OptionsFields
<1> HIDE DEF o
<1>9. /\ r \in Ide /\ Keeps(o, r, {"env"})
      /\ \A v \in Vars : r.env[v] = IF v \in DOMAIN EnvFile[o.cwd]
                                    THEN <<EnvFile[o.cwd][v]>> \o o.env[v] ELSE o.env[v]
  BY <1>8, PushedValues
<1> HIDE DEF r
<1>10. o.cwd = s.cwd /\ o.env = s.env
  BY <1>6, <1>7, <1>8, KeepsFields
<1>11. Pushed(s.env, s.cwd, r.env)
  BY <1>9, <1>10 DEF Pushed
<1>12. /\ r.project = s.disk[f] /\ r.project_directory = s.cwd /\ r.dskname = n
       /\ r.applied = r.project.of /\ r.desk = t.desk
  <2>1. u.dskname = n /\ u.desk = t.desk
    BY <1>3, <1>6, KeepsFields
  <2>2. /\ o.project = s.disk[f] /\ o.project_directory = s.cwd /\ o.dskname = n
        /\ o.applied = o.project.of /\ o.desk = t.desk
    BY <1>6, <1>7, <1>8, <2>1, KeepsFields
  <2> QED BY <1>8, <1>9, <2>2, KeepsFields
<1>13. Keeps(s, r, {"project", "project_directory", "dskname", "desk", "env", "applied"})
  <2>1. Keeps(s, b, {"project", "project_directory", "desk"})
    BY <1>1, <1>2, KeepsMore
  <2>2. Keeps(s, t, {"project", "project_directory", "desk", "dskname"})
    BY <1>2, <1>3, <2>1, KeepsMore
  <2>3. Keeps(s, u, {"project", "project_directory", "desk", "dskname"})
    BY <1>3, <1>6, <2>2, KeepsMore
  <2>4. Keeps(s, o, {"project", "project_directory", "desk", "dskname", "applied"})
    BY <1>6, <1>8, <2>3, KeepsMore
  <2> QED BY <1>8, <1>9, <2>4, KeepsMore
<1>14. t.desk = IF s.gdt[f] = NONE THEN {} ELSE s.gdt[f]
  BY <1>2, <1>3, <1>5
<1> QED BY <1>4, <1>9, <1>11, <1>12, <1>13, <1>14

\* reading the standard project
LEMMA StandardFields ==
  ASSUME NEW s \in Ide, s.project = NONE, NEW withDesktop \in BOOLEAN
  PROVE  LET t == OpenStandardProject(s, withDesktop) IN
         /\ t \in Ide
         /\ Keeps(s, t, {"project", "project_directory", "standard_project_name", "dskname",
                         "desk", "project_name"})
         /\ t.project = s.disk[Std] /\ t.standard_project_name = StdName /\ t.dskname = StdName
         /\ t.project_name \in {NONE, s.project_name}
         /\ s.disk[Std] = NONE \/ s.cwd \notin ReadOnly => t.project_name = s.project_name
         /\ s.disk[Std] # NONE /\ s.cwd \in ReadOnly => t.project_name = NONE
         /\ ~withDesktop \/ s.disk[Std] = NONE => t.desk = s.desk
         /\ withDesktop /\ s.disk[Std] # NONE =>
              t.desk = s.desk \cup (IF s.gdt[Std] = NONE THEN {} ELSE s.gdt[Std])
<1> DEFINE a == ReadProject(s, Std)
           t == [a EXCEPT !.standard_project_name = StdName, !.dskname = StdName]
           l == LoadDesktop(t, StdName)
           u == IF withDesktop THEN l ELSE t
           n == [u EXCEPT !.project_name = NONE]
<1>1. Std \in Path /\ \A x : Here(x, StdName) = Std
  BY Paths
<1>2. a \in Ide /\ Keeps(s, a, {"project", "project_directory"}) /\ a.project = s.disk[Std]
  BY <1>1, ReadFields
<1>3. OpenStandardProject(s, withDesktop) =
        IF t.project = NONE THEN t
        ELSE IF ~Writable(u) THEN n ELSE u
  BY DEF OpenStandardProject
<1> HIDE DEF a
<1>4. /\ t \in Ide /\ Keeps(a, t, {"standard_project_name", "dskname"})
      /\ t.standard_project_name = StdName /\ t.dskname = StdName
  BY <1>2, StdNameFields
<1> HIDE DEF t
<1>5. t.project = s.disk[Std] /\ t.cwd = s.cwd /\ t.gdt = s.gdt /\ t.desk = s.desk
      /\ t.project_name = s.project_name
  BY <1>2, <1>4, KeepsFields
<1>6. Keeps(s, t, {"project", "project_directory", "standard_project_name", "dskname"})
  BY <1>2, <1>4, KeepsMore
<1>7. /\ l \in Ide /\ Keeps(t, l, {"dskname", "desk"}) /\ l.dskname = StdName
      /\ l.desk = t.desk \cup (IF t.gdt[Std] = NONE THEN {} ELSE t.gdt[Std])
  BY <1>1, <1>4, LoadFields DEF Name
<1> HIDE DEF l
<1>8. /\ u \in Ide /\ Keeps(t, u, {"dskname", "desk"}) /\ u.dskname = StdName
      /\ u.desk = IF withDesktop THEN s.desk \cup (IF s.gdt[Std] = NONE THEN {} ELSE s.gdt[Std])
                  ELSE s.desk
  BY <1>4, <1>5, <1>7 DEF Keeps
<1> HIDE DEF u
<1>9. /\ u.project = s.disk[Std] /\ u.standard_project_name = StdName
      /\ u.project_name = s.project_name /\ u.cwd = s.cwd
  BY <1>4, <1>5, <1>8, KeepsFields
<1>10. Keeps(s, u, {"project", "project_directory", "standard_project_name", "dskname", "desk"})
  BY <1>4, <1>6, <1>8, KeepsMore
<1>11. n \in Ide /\ Keeps(u, n, {"project_name"}) /\ n.project_name = NONE
  BY <1>8, NameFields
<1> HIDE DEF n
<1>12. /\ n.project = s.disk[Std] /\ n.standard_project_name = StdName /\ n.dskname = StdName
       /\ n.desk = u.desk
  BY <1>8, <1>9, <1>11, KeepsFields
<1>13. Keeps(s, n, {"project", "project_directory", "standard_project_name", "dskname",
                    "desk", "project_name"})
  BY <1>8, <1>10, <1>11, KeepsMore
<1> DEFINE F == {"project", "project_directory", "standard_project_name", "dskname",
                 "desk", "project_name"}
<1>14. Keeps(s, t, F) /\ Keeps(s, u, F)
  BY <1>6, <1>10 DEF Keeps
<1>15. Writable(u) = (s.cwd \notin ReadOnly)
  BY <1>9 DEF Writable
<1>16. CASE s.disk[Std] = NONE
  BY <1>3, <1>4, <1>5, <1>14, <1>16
<1>17. CASE s.disk[Std] # NONE /\ s.cwd \in ReadOnly
  BY <1>3, <1>5, <1>8, <1>11, <1>12, <1>13, <1>15, <1>17
<1>18. CASE s.disk[Std] # NONE /\ s.cwd \notin ReadOnly
  BY <1>3, <1>5, <1>8, <1>9, <1>14, <1>15, <1>18
<1> QED BY <1>16, <1>17, <1>18

OpenedFields == {"cwd", "project", "project_name", "project_directory",
                 "standard_project_name", "dskname", "desk", "env", "applied",
                 "PRJSTACK"}

\* what every way to open a project does: strange says what is unusual
Opens(s, r, strange) ==
  /\ r \in Ide /\ Keeps(s, r, OpenedFields)
  /\ Placed(r) /\ r.applied = r.project.of
  /\ Pushed(s.env, r.cwd, r.env)
  /\ "readonly" \notin strange => r.cwd = r.project_directory
  /\ strange = {} => /\ r.dskname = DskOf(r)
                     /\ \/ r.desk = {}
                        \/ r.gdt[r.project.of] # NONE /\ r.desk = r.gdt[r.project.of]
  /\ \A f \in Projects : r.project.of = f =>
       \/ s.disk[f] # NONE /\ r.project = s.disk[f]
       \/ s.disk[f] = NONE /\ r.project.ver = 0

\* options and variables of a project that is there
LEMMA AppliedFields ==
  ASSUME NEW u \in Ide, u.project # NONE
  PROVE  LET r == push_environment(SetGlobalOptions(u)) IN
         /\ r \in Ide /\ Keeps(u, r, {"applied", "env"})
         /\ r.applied = u.project.of /\ Pushed(u.env, u.cwd, r.env)
<1> DEFINE o == SetGlobalOptions(u)
           r == push_environment(o)
<1>1. o \in Ide /\ Keeps(u, o, {"applied"}) /\ o.applied = u.project.of
  BY OptionsFields
<1> HIDE DEF o
<1>2. /\ r \in Ide /\ Keeps(o, r, {"env"})
      /\ \A v \in Vars : r.env[v] = IF v \in DOMAIN EnvFile[o.cwd]
                                    THEN <<EnvFile[o.cwd][v]>> \o o.env[v] ELSE o.env[v]
  BY <1>1, PushedValues
<1> HIDE DEF r
<1>3. o.cwd = u.cwd /\ o.env = u.env /\ r.applied = o.applied
  BY <1>1, <1>2, KeepsFields
<1>4. Keeps(u, r, {"applied", "env"})
  BY <1>1, <1>2, KeepsMore
<1>5. Pushed(u.env, u.cwd, r.env)
  BY <1>2, <1>3 DEF Pushed
<1> QED BY <1>1, <1>2, <1>3, <1>4, <1>5 DEF r, o

\* Opening a file that exists opens a project.
LEMMA OldOpens ==
  ASSUME NEW s \in Ide, NEW n \in Names, s.disk[<<s.cwd, n>>] # NONE, Owned(s),
         s.project_name = n, s.cwd \in s.dirs
  PROVE  Opens(s, OpenOld(s, n), {})
<1> DEFINE f == <<s.cwd, n>>
           r == OpenOld(s, n)
<1>0. f \in Path /\ s.cwd \in Dirs /\ n # NONE
  BY Paths, TreeAssumption DEF Ide
<1>1. /\ r \in Ide
      /\ Keeps(s, r, {"project", "project_directory", "dskname", "desk", "env", "applied"})
      /\ r.project = s.disk[f] /\ r.project_directory = s.cwd /\ r.dskname = n
      /\ r.applied = r.project.of
      /\ r.desk = IF s.gdt[f] = NONE THEN {} ELSE s.gdt[f]
      /\ Pushed(s.env, s.cwd, r.env)
  BY OldFields
<1> HIDE DEF r
<1>2. r.cwd = s.cwd /\ r.dirs = s.dirs /\ r.project_name = n /\ r.gdt = s.gdt
  BY <1>1, KeepsFields
<1>3. r.project.of = f
  BY <1>0, <1>1 DEF Owned
<1>4. Keeps(s, r, OpenedFields)
  BY <1>1 DEF Keeps, OpenedFields
<1> HIDE DEF f
<1>5. Placed(r)
  BY <1>0, <1>1, <1>2, <1>3 DEF Placed, f
<1>6. r.dskname = DskOf(r) /\ \/ r.desk = {}
                              \/ r.gdt[r.project.of] # NONE /\ r.desk = r.gdt[r.project.of]
  BY <1>0, <1>1, <1>2, <1>3 DEF DskOf
<1> QED BY <1>1, <1>2, <1>3, <1>4, <1>5, <1>6 DEF Opens, r, f

\* Opening a name without a file opens a project: new, a copy of the
\* standard project, or none.
LEMMA NewOpens ==
  ASSUME NEW s \in Ide, NEW n \in Names, s.disk[<<s.cwd, n>>] = NONE, Owned(s),
         s.project = NONE, s.project_name = n, s.cwd \in s.dirs, NEW ori \in s.dirs,
         s.desk = {}
  PROVE  Opens(s, OpenNew(s, n, ori),
               IF s.cwd \in ReadOnly THEN {"readonly"}
               ELSE IF s.disk[Std] = NONE THEN {"nostd"} ELSE {})
<1> DEFINE t == OpenStandardProject(s, FALSE)
           u == [t EXCEPT !.project_directory = t.cwd]
           k == IF t.project # NONE THEN n ELSE u.dskname
           p == New(u)
           q == [of |-> Std, ver |-> 0]
           m1 == [u EXCEPT !.project = p]
           made == [m1 EXCEPT !.dskname = k]
           copy == [u EXCEPT !.dskname = NOWHERE]
           c == Chdir(u, ori)
           n1 == [c EXCEPT !.project = q]
           none == [n1 EXCEPT !.project_name = NONE]
           w == IF Writable(u) THEN made ELSE IF t.project # NONE THEN copy ELSE none
           r == push_environment(SetGlobalOptions(w))
           F == {"cwd", "project", "project_name", "project_directory",
                 "standard_project_name", "dskname", "desk"}
<1>0. /\ s.cwd \in Dirs /\ n # NONE /\ <<s.cwd, n>> \in Path /\ Std \in Path /\ n \in Name
      /\ <<s.cwd, n>> # Std /\ n # StdName
  BY Paths, TreeAssumption DEF Ide, Std, Name
<1>1. OpenNew(s, n, ori) = r
  BY DEF OpenNew
<1>2. /\ t \in Ide
      /\ Keeps(s, t, F)
      /\ t.project = s.disk[Std] /\ t.dskname = StdName
      /\ t.project_name = (IF s.disk[Std] # NONE /\ s.cwd \in ReadOnly THEN NONE ELSE n)
      /\ t.desk = {}
  <2>1. /\ t \in Ide
        /\ Keeps(s, t, {"project", "project_directory", "standard_project_name", "dskname",
                        "desk", "project_name"})
        /\ t.project = s.disk[Std] /\ t.dskname = StdName
        /\ s.disk[Std] = NONE \/ s.cwd \notin ReadOnly => t.project_name = n
        /\ s.disk[Std] # NONE /\ s.cwd \in ReadOnly => t.project_name = NONE
        /\ t.desk = {}
    BY StandardFields
  <2> HIDE DEF t
  <2>2. Keeps(s, t, F)
    BY <2>1 DEF Keeps
  <2> QED BY <2>1, <2>2
<1> HIDE DEF t
<1>3. t.cwd = s.cwd
  <2>1. Keeps(s, t, {"project", "project_directory", "standard_project_name", "dskname",
                        "desk", "project_name"})
    BY StandardFields DEF t
  <2> QED BY <2>1, KeepsFields
<1>4. u \in Ide /\ Keeps(t, u, {"project_directory"}) /\ u.project_directory = s.cwd
  BY <1>2, <1>3, DirectoryFields
<1> HIDE DEF u
<1>5. /\ u.cwd = s.cwd /\ u.project = t.project /\ u.dskname = StdName
      /\ u.project_name = t.project_name /\ u.desk = {}
  BY <1>2, <1>3, <1>4, KeepsFields
<1>6. u.env = s.env /\ u.dirs = s.dirs /\ u.disk = s.disk /\ u.gdt = s.gdt /\ Keeps(s, u, F)
  <2>1. t.env = s.env /\ t.dirs = s.dirs /\ t.disk = s.disk /\ t.gdt = s.gdt
    BY <1>2, KeepsFields
  <2>2. u.env = s.env /\ u.dirs = s.dirs /\ u.disk = s.disk /\ u.gdt = s.gdt
    BY <1>2, <1>4, <2>1, KeepsFields
  <2>3. Keeps(s, u, F)
    BY <1>2, <1>4, KeepsMore
  <2> QED BY <2>2, <2>3
<1>7. Writable(u) = (s.cwd \notin ReadOnly)
  BY <1>5 DEF Writable
<1>8. q \in Project /\ q.of = Std /\ q.ver = 0
  BY <1>0 DEF Project
\* the three ways, and what they have in common
<1> DEFINE Way(x) ==
      /\ x \in Ide /\ Keeps(s, x, F) /\ x.env = s.env /\ x.dirs = s.dirs /\ x.gdt = s.gdt
      /\ Placed(x) /\ x.desk = {}
      /\ s.cwd \notin ReadOnly => x.cwd = x.project_directory
      /\ s.cwd \notin ReadOnly /\ s.disk[Std] # NONE => x.dskname = DskOf(x)
      /\ \A f \in Projects : x.project.of = f => s.disk[f] = NONE /\ x.project.ver = 0
<1>9. Std \notin Projects
  BY DEF Projects, Std
<1>10. ASSUME s.cwd \notin ReadOnly PROVE Way(w)
  <2>1. t.project_name = n /\ u.project_name = n
    BY <1>2, <1>5, <1>10
  <2>2. p = [of |-> <<s.cwd, n>>, ver |-> 0]
    BY <1>0, <1>5, <2>1 DEF New, Here
  <2>3. p \in Project
    BY <1>0, <2>2 DEF Project
  <2>4. m1 \in Ide /\ Keeps(u, m1, {"project"}) /\ m1.project = p
    BY <1>4, <2>3, ProjectFields
  <2> HIDE DEF m1
  <2>5. k \in Name /\ (s.disk[Std] # NONE => k = n)
    BY <1>0, <1>2, <1>5 DEF Name
  <2> HIDE DEF k
  <2>6. made \in Ide /\ Keeps(m1, made, {"dskname"}) /\ made.dskname = k
    BY <2>4, <2>5, DskNameFields
  <2>7. w = made
    BY <1>7, <1>10 DEF m1, k
  <2> HIDE DEF made, p
  <2>8. /\ m1.cwd = s.cwd /\ m1.dirs = s.dirs /\ m1.project_directory = s.cwd
        /\ m1.project_name = n /\ m1.desk = {} /\ m1.env = s.env /\ m1.gdt = s.gdt
    BY <1>4, <1>5, <1>6, <2>1, <2>4, KeepsFields
  <2>9. /\ made.cwd = s.cwd /\ made.dirs = s.dirs /\ made.project_directory = s.cwd
        /\ made.project_name = n /\ made.desk = {} /\ made.env = s.env /\ made.gdt = s.gdt
        /\ made.project = p
    BY <2>4, <2>6, <2>8, KeepsFields
  <2>10. Keeps(s, made, F)
    <3>1. Keeps(s, m1, F)
      BY <1>4, <1>6, <2>4, KeepsMore
    <3> QED BY <2>4, <2>6, <3>1, KeepsMore
  <2>11. made.project # NONE /\ made.project.of = <<s.cwd, n>> /\ made.project.ver = 0
    BY <2>2, <2>3, <2>9, TreeAssumption
  <2>12. Placed(made)
    BY <1>0, <2>9, <2>11 DEF Placed
  <2>13. s.disk[Std] # NONE => made.dskname = DskOf(made)
    BY <1>0, <2>5, <2>6, <2>9 DEF DskOf
  <2> QED BY <2>6, <2>7, <2>9, <2>10, <2>11, <2>12, <2>13, ZenonT(60)
<1>11. ASSUME s.cwd \in ReadOnly, s.disk[Std] # NONE PROVE Way(w)
  <2>1. copy \in Ide /\ Keeps(u, copy, {"dskname"})
    BY <1>4, DskNameFields
  <2>2. w = copy
    BY <1>2, <1>7, <1>11
  <2> HIDE DEF copy
  <2>3. /\ copy.cwd = s.cwd /\ copy.dirs = s.dirs /\ copy.project = s.disk[Std]
        /\ copy.project_name = NONE /\ copy.desk = {} /\ copy.env = s.env /\ copy.gdt = s.gdt
    BY <1>2, <1>4, <1>5, <1>6, <1>11, <2>1, KeepsFields
  <2>4. Keeps(s, copy, F)
    BY <1>4, <1>6, <2>1, KeepsMore
  <2>5. copy.project.of = Std
    BY <1>0, <1>11, <2>3 DEF Owned
  <2>6. Placed(copy)
    BY <1>11, <2>3, <2>5 DEF Placed
  <2> QED BY <1>9, <1>11, <2>1, <2>2, <2>3, <2>4, <2>5, <2>6
<1>12. ASSUME s.cwd \in ReadOnly, s.disk[Std] = NONE PROVE Way(w)
  <2>1. c \in Ide /\ Keeps(u, c, {"cwd"}) /\ c.cwd = ori
    BY <1>4, <1>6, ChdirFields
  <2> HIDE DEF c
  <2>2. n1 \in Ide /\ Keeps(c, n1, {"project"}) /\ n1.project = q
    BY <1>8, <2>1, ProjectFields
  <2>3. none \in Ide /\ Keeps(n1, none, {"project_name"}) /\ none.project_name = NONE
    BY <2>2, NameFields
  <2>4. w = none
    BY <1>2, <1>7, <1>12 DEF c
  <2> HIDE DEF none, n1, q
  <2>5. /\ c.dirs = s.dirs /\ c.desk = {} /\ c.env = s.env /\ c.gdt = s.gdt
    BY <1>4, <1>5, <1>6, <2>1, KeepsFields
  <2>6. /\ n1.dirs = s.dirs /\ n1.desk = {} /\ n1.env = s.env /\ n1.gdt = s.gdt /\ n1.cwd = ori
    BY <2>1, <2>2, <2>5, KeepsFields
  <2>7. /\ none.dirs = s.dirs /\ none.desk = {} /\ none.env = s.env /\ none.gdt = s.gdt
        /\ none.cwd = ori /\ none.project = q
    BY <2>2, <2>3, <2>6, KeepsFields
  <2>8. Keeps(s, none, F)
    <3>1. Keeps(s, c, F)
      BY <1>4, <1>6, <2>1, KeepsMore
    <3>2. Keeps(s, n1, F)
      BY <2>1, <2>2, <3>1, KeepsMore
    <3> QED BY <2>2, <2>3, <3>2, KeepsMore
  <2>9. Placed(none)
    BY <1>8, <2>3, <2>7, TreeAssumption DEF Placed
  <2> QED BY <1>8, <1>9, <1>12, <2>3, <2>4, <2>7, <2>8, <2>9
<1>13. Way(w)
  BY <1>10, <1>11, <1>12
<1> HIDE DEF w
<1>14. w \in Ide /\ w.project # NONE
  BY <1>13 DEF Placed
<1>15. /\ r \in Ide /\ Keeps(w, r, {"applied", "env"})
       /\ r.applied = w.project.of /\ Pushed(w.env, w.cwd, r.env)
  BY <1>14, AppliedFields
<1> HIDE DEF r, F
<1>16. /\ r.cwd = w.cwd /\ r.dirs = w.dirs /\ r.project = w.project /\ r.dskname = w.dskname
       /\ r.project_name = w.project_name /\ r.project_directory = w.project_directory
       /\ r.desk = w.desk
  BY <1>14, <1>15, KeepsFields
<1>17. Keeps(s, r, OpenedFields)
  <2>1. Keeps(s, w, F)
    BY <1>13
  <2>2. F \cup {"applied", "env"} \subseteq OpenedFields
    BY DEF F, OpenedFields
  <2> QED BY <1>14, <1>15, <2>1, <2>2, KeepsMore
<1>18. Placed(r)
  BY <1>13, <1>16 DEF Placed
<1>19. DskOf(r) = DskOf(w)
  BY <1>16 DEF DskOf
<1> QED BY <1>1, <1>13, <1>15, <1>16, <1>17, <1>18, <1>19 DEF Opens

\* Opening without a name opens the standard project.
LEMMA NoneOpens ==
  ASSUME NEW s \in Ide, Owned(s), s.project = NONE, s.project_name = NONE,
         s.cwd \in s.dirs, s.desk = {}
  PROVE  Opens(s, OpenNone(s), {})
<1> DEFINE t == OpenStandardProject(s, TRUE)
           q == [of |-> Std, ver |-> 0]
           u == IF t.project = NONE THEN [t EXCEPT !.project = q] ELSE t
           w == [u EXCEPT !.project_directory = u.cwd]
           r == push_environment(SetGlobalOptions(w))
<1>0. Std \in Path /\ q \in Project
  BY Paths DEF Project
<1>1. /\ t \in Ide
      /\ Keeps(s, t, {"project", "project_directory", "standard_project_name", "dskname",
                      "desk", "project_name"})
      /\ t.project = s.disk[Std] /\ t.dskname = StdName /\ t.project_name = NONE
      /\ t.desk = {} \/ (s.gdt[Std] # NONE /\ t.desk = s.gdt[Std])
  BY StandardFields
<1> HIDE DEF t
<1>2. /\ u \in Ide /\ Keeps(t, u, {"project"})
      /\ u.project = IF s.disk[Std] = NONE THEN q ELSE s.disk[Std]
  BY <1>0, <1>1, ProjectFields DEF Keeps
<1> HIDE DEF u
<1>3. w \in Ide /\ Keeps(u, w, {"project_directory"}) /\ w.project_directory = u.cwd
  BY <1>2, DirectoryFields
<1> HIDE DEF w
<1>4. /\ t.cwd = s.cwd /\ t.dirs = s.dirs /\ t.gdt = s.gdt /\ t.env = s.env
  BY <1>1, KeepsFields
<1>5. /\ u.cwd = s.cwd /\ u.dirs = s.dirs /\ u.gdt = s.gdt /\ u.env = s.env
      /\ u.dskname = StdName /\ u.project_name = NONE /\ u.desk = t.desk
  BY <1>1, <1>2, <1>4, KeepsFields
<1>6. /\ w.cwd = s.cwd /\ w.dirs = s.dirs /\ w.gdt = s.gdt /\ w.env = s.env
      /\ w.dskname = StdName /\ w.project_name = NONE /\ w.desk = t.desk
      /\ w.project = u.project
  BY <1>2, <1>3, <1>5, KeepsFields
<1>7. w.project # NONE /\ w.project.of = Std
  BY <1>0, <1>2, <1>6, TreeAssumption DEF Owned
<1>8. Std \notin Projects
  BY DEF Std, Projects
<1>9. /\ r \in Ide /\ Keeps(w, r, {"applied", "env"})
      /\ r.applied = w.project.of /\ Pushed(w.env, w.cwd, r.env)
  BY <1>3, <1>7, AppliedFields
<1> HIDE DEF r
<1>10. /\ r.cwd = s.cwd /\ r.dirs = s.dirs /\ r.gdt = s.gdt /\ r.project_directory = s.cwd
       /\ r.dskname = StdName /\ r.project_name = NONE /\ r.desk = t.desk
       /\ r.project = w.project
  BY <1>3, <1>5, <1>6, <1>9, KeepsFields
<1>11. Keeps(s, r, OpenedFields)
  <2>1. Keeps(s, u, {"project", "project_directory", "standard_project_name", "dskname",
                      "desk", "project_name"})
    BY <1>1, <1>2, KeepsMore
  <2>2. Keeps(s, w, {"project", "project_directory", "standard_project_name", "dskname",
                      "desk", "project_name"})
    BY <1>2, <1>3, <2>1, KeepsMore
  <2> QED BY <1>3, <1>9, <2>2, KeepsMore DEF OpenedFields
<1>12. Placed(r)
  BY <1>7, <1>10 DEF Placed
<1>13. r.dskname = DskOf(r)
  BY <1>10 DEF DskOf
<1>14. OpenNone(s) = r
  BY DEF OpenNone, r, w, u, t
<1> QED BY <1>1, <1>6, <1>7, <1>8, <1>9, <1>10, <1>11, <1>12, <1>13, <1>14 DEF Opens

\* OpenProject begins with chdir and the new name.
LEMMA SelectedFields ==
  ASSUME NEW c \in Ide, NEW n \in Names
  PROVE  LET t == [c EXCEPT !.project_name = n, !.dskname = n] IN
         t \in Ide /\ Keeps(c, t, {"project_name", "dskname"}) /\ t.project_name = n
BY DEF Ide, Keeps, Name

\* OpenProject opens a project, whatever is on disk.
LEMMA ProjectOpens ==
  ASSUME NEW s \in Ide, NEW f \in Dirs \X Names, Owned(s), s.project = NONE,
         s.cwd \in s.dirs, s.desk = {}
  PROVE  Opens(s, OpenProject(s, f), Strange(s, f))
<1> DEFINE c == Chdir(s, f[1])
           n == f[2]
           t == [c EXCEPT !.project_name = n, !.dskname = n]
           r == OpenProject(s, f)
<1>0. n \in Names /\ n \in Name /\ \A x : Here(x, n) = <<x.cwd, n>>
  BY Paths DEF Name
<1>1. c \in Ide /\ Keeps(s, c, {"cwd"}) /\ c.cwd \in s.dirs
  BY ChdirFields
<1>2. Strange(s, f) = IF s.disk[<<c.cwd, n>>] # NONE THEN {}
                      ELSE IF c.cwd \in ReadOnly THEN {"readonly"}
                      ELSE IF s.disk[Std] = NONE THEN {"nostd"} ELSE {}
  BY DEF Strange
<1>3. r = IF t.disk[Here(t, n)] # NONE THEN OpenOld(t, n) ELSE OpenNew(t, n, s.cwd)
  BY DEF OpenProject
<1> HIDE DEF c, n, r
<1>4. /\ t \in Ide /\ Keeps(c, t, {"project_name", "dskname"})
      /\ t.project_name = n
  BY <1>0, <1>1, SelectedFields
<1> HIDE DEF t
<1>5. /\ c.dirs = s.dirs /\ c.project = NONE /\ c.desk = {} /\ c.disk = s.disk /\ c.env = s.env
      /\ c.gdt = s.gdt
  BY <1>1, KeepsFields
<1>6. /\ t.dirs = s.dirs /\ t.project = NONE /\ t.desk = {} /\ t.disk = s.disk /\ t.env = s.env
      /\ t.gdt = s.gdt /\ t.cwd = c.cwd
  BY <1>1, <1>4, <1>5, KeepsFields
<1>7. Keeps(s, t, {"cwd", "project_name", "dskname"})
  BY <1>1, <1>4, KeepsMore
<1>8. Owned(t)
  BY <1>6 DEF Owned
<1>9. Opens(t, r, Strange(s, f))
  <2>1. CASE s.disk[<<c.cwd, n>>] # NONE
    BY <1>0, <1>1, <1>2, <1>3, <1>4, <1>6, <1>8, <2>1, OldOpens
  <2>2. CASE s.disk[<<c.cwd, n>>] = NONE
    BY <1>0, <1>1, <1>2, <1>3, <1>4, <1>6, <1>8, <2>2, NewOpens
  <2> QED BY <2>1, <2>2
<1>10. Keeps(s, r, OpenedFields)
  BY <1>4, <1>7, <1>9, KeepsMore DEF Opens, OpenedFields
<1> QED BY <1>6, <1>9, <1>10 DEF Opens, r

----------------------------------------------------------------------------
(* Sequences *)

\* The front of a sequence that is not empty.
LEMMA FrontFacts ==
  ASSUME NEW S, NEW q \in Seq(S), q # <<>>
  PROVE  /\ Front(q) \in Seq(S) /\ Len(Front(q)) = Len(q) - 1 /\ Len(q) \in Nat \ {0}
         /\ Last(q) \in S /\ Last(q) = q[Len(q)]
         /\ \A i \in 1..(Len(q) - 1) : Front(q)[i] = q[i]
<1>1. Len(q) \in Nat \ {0} /\ \A i \in 1..Len(q) : q[i] \in S
  BY EmptySeq, ElementOfSeq
<1>2. \A i \in 1..(Len(q) - 1) : q[i] \in S
  BY <1>1
<1> DEFINE k == Len(q) - 1
<1>3. k \in Nat /\ k + 1 = Len(q) /\ \A i \in 1..k : q[i] \in S
  BY <1>1
<1>4. Front(q) = SubSeq(q, 1, k)
  BY DEF Front
<1> HIDE DEF k
<1>5. /\ SubSeq(q, 1, k) \in Seq(S)
      /\ Len(SubSeq(q, 1, k)) = IF 1 <= k THEN k - 1 + 1 ELSE 0
      /\ \A i \in 1..(k - 1 + 1) : SubSeq(q, 1, k)[i] = q[1 + i - 1]
  BY <1>3, SubSeqProperties
<1>6. Len(Front(q)) = k /\ \A i \in 1..k : Front(q)[i] = q[i]
  BY <1>3, <1>4, <1>5
<1>7. Last(q) = q[Len(q)] /\ Last(q) \in S
  BY <1>1 DEF Last
<1> QED BY <1>1, <1>4, <1>5, <1>6, <1>7 DEF k

\* Front undoes Append.
LEMMA FrontOfAppend ==
  ASSUME NEW S, NEW q \in Seq(S), NEW x \in S
  PROVE  Append(q, x) # <<>> /\ Front(Append(q, x)) = q
<1>1. Append(q, x) \in Seq(S) /\ Append(q, x) # <<>> /\ Len(Append(q, x)) = Len(q) + 1
      /\ \A i \in 1..Len(q) : Append(q, x)[i] = q[i]
  BY AppendProperties
<1> DEFINE a == Append(q, x)
<1> HIDE DEF a
<1>2. Front(a) \in Seq(S) /\ Len(Front(a)) = Len(q) /\ \A i \in 1..Len(q) : Front(a)[i] = a[i]
  <2>1. a \in Seq(S) /\ a # <<>> /\ Len(a) = Len(q) + 1 /\ Len(q) \in Nat
    BY <1>1, LenProperties DEF a
  <2>2. /\ Front(a) \in Seq(S) /\ Len(Front(a)) = Len(a) - 1
        /\ \A i \in 1..(Len(a) - 1) : Front(a)[i] = a[i]
    BY <2>1, FrontFacts
  <2> QED BY <2>1, <2>2
<1> QED BY <1>1, <1>2, SeqEqual DEF a

\* Only the empty sequence has length 0.
LEMMA EmptyLen ==
  ASSUME NEW S, NEW q \in Seq(S)
  PROVE  (q = <<>>) = (Len(q) = 0)
BY EmptySeq

----------------------------------------------------------------------------
(* The operators on the two stacks *)

\* AddToStack and RemoveFromStack change PRJSTACK only, and undo each other.
LEMMA AddFields ==
  ASSUME NEW s \in Ide
  PROVE  /\ AddToStack(s) \in Ide /\ Keeps(s, AddToStack(s), {"PRJSTACK"})
         /\ RemoveFromStack(s) \in Ide /\ Keeps(s, RemoveFromStack(s), {"PRJSTACK"})
         /\ s.project_name # NONE =>
              /\ AddToStack(s).PRJSTACK = Append(s.PRJSTACK, <<s.cwd, s.project_name>>)
              /\ <<s.cwd, s.project_name>> \in Dirs \X Names
              /\ RemoveFromStack(AddToStack(s)) = s
         /\ s.PRJSTACK # <<>> => RemoveFromStack(s).PRJSTACK = Front(s.PRJSTACK)
<1> DEFINE x == <<s.cwd, s.project_name>>
           a == Append(s.PRJSTACK, x)
           b == Front(s.PRJSTACK)
<1>1. s.PRJSTACK \in Seq(Dirs \X Names) /\ s.cwd \in Dirs /\ s.project_name \in Names \cup {NONE}
  BY DEF Ide
<1>2. s.project_name # NONE => a \in Seq(Dirs \X Names) /\ Front(a) = s.PRJSTACK /\ a # <<>>
                               /\ x \in Dirs \X Names
  <2> SUFFICES ASSUME s.project_name # NONE
               PROVE  a \in Seq(Dirs \X Names) /\ Front(a) = s.PRJSTACK /\ a # <<>>
                      /\ x \in Dirs \X Names
    OBVIOUS
  <2>1. x \in Dirs \X Names
    BY <1>1
  <2> HIDE DEF x
  <2> QED BY <1>1, <2>1, AppendProperties, FrontOfAppend
<1>3. s.PRJSTACK # <<>> => b \in Seq(Dirs \X Names)
  BY <1>1, FrontFacts
<1>4. AddToStack(s) = IF s.project_name = NONE THEN s ELSE [s EXCEPT !.PRJSTACK = a]
  BY DEF AddToStack
<1>5. RemoveFromStack(s) = IF s.PRJSTACK = <<>> THEN s ELSE [s EXCEPT !.PRJSTACK = b]
  BY DEF RemoveFromStack
<1> HIDE DEF a, b
<1>6. s.project_name # NONE => RemoveFromStack([s EXCEPT !.PRJSTACK = a]) = s
  <2> SUFFICES ASSUME s.project_name # NONE PROVE RemoveFromStack([s EXCEPT !.PRJSTACK = a]) = s
    OBVIOUS
  <2>1. [s EXCEPT !.PRJSTACK = a].PRJSTACK = a
    BY DEF Ide
  <2>2. RemoveFromStack([s EXCEPT !.PRJSTACK = a]) =
          [[s EXCEPT !.PRJSTACK = a] EXCEPT !.PRJSTACK = Front(a)]
    BY <1>2, <2>1 DEF RemoveFromStack
  <2>3. [[s EXCEPT !.PRJSTACK = a] EXCEPT !.PRJSTACK = s.PRJSTACK] = s
    BY DEF Ide
  <2> QED BY <1>2, <2>2, <2>3
<1>0. ASSUME NEW y \in Seq(Dirs \X Names)
      PROVE  [s EXCEPT !.PRJSTACK = y] \in Ide /\ Keeps(s, [s EXCEPT !.PRJSTACK = y], {"PRJSTACK"})
  BY <1>0 DEF Ide, Keeps
<1>7. AddToStack(s) \in Ide /\ Keeps(s, AddToStack(s), {"PRJSTACK"})
  BY <1>0, <1>2, <1>4 DEF Keeps
<1>8. RemoveFromStack(s) \in Ide /\ Keeps(s, RemoveFromStack(s), {"PRJSTACK"})
  BY <1>0, <1>3, <1>5 DEF Keeps
<1>9. s.project_name # NONE => AddToStack(s).PRJSTACK = a
  BY <1>4 DEF Ide
<1>10. s.PRJSTACK # <<>> => RemoveFromStack(s).PRJSTACK = b
  BY <1>5 DEF Ide
<1> QED BY <1>2, <1>4, <1>6, <1>7, <1>8, <1>9, <1>10 DEF a, b

WalkFields == {"stack", "cwd", "project", "project_directory", "project_name", "env"}

\* _PushProject enters the sub-project and keeps the parent on the stack.
LEMMA PushFields ==
  ASSUME NEW s \in Ide, NEW f \in Dirs \X Names, Placed(s), s.project_name # NONE, Owned(s),
         CanPush(s, f)
  PROVE  LET r == _PushProject(s, f) IN
         /\ r \in Ide /\ Keeps(s, r, WalkFields) /\ Placed(r)
         /\ r.stack = Append(s.stack, [pname |-> s.project_name, dname |-> s.cwd,
                                       project |-> s.project])
         /\ [pname |-> s.project_name, dname |-> s.cwd, project |-> s.project] \in Entry
         /\ f[1] \in s.dirs => r.cwd = f[1]
         /\ r.cwd \in Dirs /\ r.project_name = f[2] /\ r.project = s.disk[<<r.cwd, f[2]>>]
         /\ r.project.of = <<r.cwd, f[2]>>
         /\ Pushed(s.env, r.cwd, r.env)
<1> DEFINE e == [pname |-> s.project_name, dname |-> s.cwd, project |-> s.project]
           q == Append(s.stack, e)
           k == [s EXCEPT !.stack = q]
           t == Chdir(k, f[1])
           g == <<t.cwd, f[2]>>
           u == ReadProject(t, g)
           w == [u EXCEPT !.project_name = f[2]]
           r == push_environment(w)
<1>1. e \in Entry /\ s.cwd \in Dirs /\ f[1] \in Dirs /\ f[2] \in Names
  BY Paths DEF Ide, Placed, Entry
<1>2. q \in Seq(Entry)
  BY <1>1, AppendProperties DEF Ide
<1> HIDE DEF e, q
<1>3. k \in Ide /\ Keeps(s, k, {"stack"}) /\ k.stack = q
  BY <1>2 DEF Ide, Keeps
<1> HIDE DEF k
<1>4. k.dirs = s.dirs /\ k.cwd = s.cwd /\ k.disk = s.disk /\ k.env = s.env
  BY <1>3, KeepsFields
<1>5. /\ t \in Ide /\ Keeps(k, t, {"cwd"}) /\ t.cwd = (IF f[1] \in s.dirs THEN f[1] ELSE s.cwd)
  BY <1>3, <1>4, ChdirFields
<1>6. t.cwd = Chdir(s, f[1]).cwd /\ t.cwd \in s.dirs
  BY <1>5, ChdirFields DEF Placed
<1> HIDE DEF t
<1>7. g \in Path /\ s.disk[g] # NONE /\ s.disk[g].of = g
  BY <1>1, <1>5, <1>6 DEF CanPush, Owned, Path, Ide
<1>8. t.disk = s.disk /\ t.dirs = s.dirs /\ t.stack = q /\ t.env = s.env
  BY <1>3, <1>4, <1>5, KeepsFields
<1> HIDE DEF g
<1>9. /\ u \in Ide /\ Keeps(t, u, {"project", "project_directory"}) /\ u.project = s.disk[g]
      /\ u.project_directory = t.cwd
  BY <1>5, <1>7, <1>8, ReadFields
<1> HIDE DEF u
<1>10. u.cwd = t.cwd /\ u.dirs = s.dirs /\ u.stack = q /\ u.env = s.env
  BY <1>5, <1>8, <1>9, KeepsFields
<1>11. w \in Ide /\ Keeps(u, w, {"project_name"}) /\ w.project_name = f[2]
  BY <1>1, <1>9, ZenonT(60) DEF Ide, Keeps
<1> HIDE DEF w
<1>12. /\ w.cwd = t.cwd /\ w.dirs = s.dirs /\ w.stack = q /\ w.env = s.env
       /\ w.project = s.disk[g] /\ w.project_directory = t.cwd
  BY <1>9, <1>10, <1>11, KeepsFields
<1>13. /\ r \in Ide /\ Keeps(w, r, {"env"})
       /\ \A v \in Vars : r.env[v] = IF v \in DOMAIN EnvFile[w.cwd]
                                     THEN <<EnvFile[w.cwd][v]>> \o w.env[v] ELSE w.env[v]
  BY <1>11, PushedValues
<1>14. _PushProject(s, f) = r
  BY DEF _PushProject, r, w, u, g, t, k, q, e
<1> HIDE DEF r
<1>15. /\ r.cwd = t.cwd /\ r.dirs = s.dirs /\ r.stack = q /\ r.project_name = f[2]
       /\ r.project = s.disk[g] /\ r.project_directory = t.cwd
  BY <1>11, <1>12, <1>13, KeepsFields
<1>16. Pushed(s.env, r.cwd, r.env)
  BY <1>12, <1>13, <1>15 DEF Pushed
<1>17. Keeps(s, r, WalkFields)
  <2>1. Keeps(s, t, {"stack", "cwd"})
    BY <1>3, <1>5, KeepsMore
  <2>2. Keeps(s, u, {"stack", "cwd", "project", "project_directory"})
    BY <1>5, <1>9, <2>1, KeepsMore
  <2>3. Keeps(s, w, {"stack", "cwd", "project", "project_directory", "project_name"})
    BY <1>9, <1>11, <2>2, KeepsMore
  <2> QED BY <1>11, <1>13, <2>3, KeepsMore DEF WalkFields
<1>18. g = <<r.cwd, f[2]>> /\ r.cwd \in Dirs
  BY <1>13, <1>15 DEF g, Ide
<1>19. Placed(r)
  BY <1>1, <1>6, <1>7, <1>15, <1>18, TreeAssumption DEF Placed
<1> QED BY <1>1, <1>5, <1>7, <1>13, <1>14, <1>15, <1>16, <1>17, <1>18, <1>19 DEF e, q

Popped(e, d, f) == \A v \in Vars :
  f[v] = IF v \in DOMAIN EnvFile[d] /\ e[v] # <<>> THEN Tail(e[v]) ELSE e[v]

\* _PopProject goes back to the parent.
LEMMA PopFields ==
  ASSUME NEW s \in Ide, s.stack # <<>>, Last(s.stack).dname \in s.dirs
  PROVE  LET r == _PopProject(s)
             e == Last(s.stack) IN
         /\ r \in Ide /\ Keeps(s, r, WalkFields) /\ e \in Entry
         /\ r.stack = Front(s.stack) /\ r.cwd = e.dname /\ r.project_directory = e.dname
         /\ r.project_name = e.pname /\ r.project = e.project
         /\ Popped(s.env, s.cwd, r.env)
<1> DEFINE e == Last(s.stack)
           q == Front(s.stack)
           p == pop_environment(s)
           t == Chdir(p, e.dname)
           r == [t EXCEPT !.stack = Front(@), !.project_name = e.pname,
                          !.project_directory = e.dname, !.project = e.project]
<1>1. e \in Entry /\ q \in Seq(Entry)
  BY FrontFacts DEF Ide
<1>2. p \in Ide /\ Keeps(s, p, {"env"}) /\ Popped(s.env, s.cwd, p.env)
  BY PoppedValues DEF Popped
<1>3. _PopProject(s) = r
  BY DEF _PopProject
<1>4. e.dname \in s.dirs
  OBVIOUS
<1> HIDE DEF e, q, p
<1>5. t \in Ide /\ Keeps(p, t, {"cwd"}) /\ t.cwd = e.dname
  BY <1>2, <1>4, ChdirFields, KeepsFields
<1>11. t.stack = s.stack
  BY <1>2, <1>5, KeepsFields
<1>12. r = [t EXCEPT !.stack = q, !.project_name = e.pname,
                     !.project_directory = e.dname, !.project = e.project]
  BY <1>5, <1>11 DEF q, Ide
<1> HIDE DEF t, r
<1>6. e.pname \in Names /\ e.dname \in Dirs /\ e.project \in Project
  BY <1>1 DEF Entry
<1>7. /\ r \in Ide /\ Keeps(t, r, {"stack", "project_name", "project_directory", "project"})
      /\ r.stack = q /\ r.project_directory = e.dname /\ r.project_name = e.pname
      /\ r.project = e.project
  BY <1>1, <1>5, <1>6, <1>12 DEF Ide, Keeps
<1>8. Keeps(s, t, {"env", "cwd"})
  BY <1>2, <1>5, KeepsMore
<1>9. Keeps(s, r, WalkFields)
  BY <1>5, <1>7, <1>8, KeepsMore DEF WalkFields
<1>10. r.cwd = e.dname /\ r.env = p.env
  BY <1>2, <1>5, <1>7, KeepsFields
<1> QED BY <1>1, <1>2, <1>3, <1>7, <1>9, <1>10 DEF e, q

\* ResetProjectStack makes the project it is in the current one.
LEMMA ResetFields ==
  ASSUME NEW s \in Ide, s.project # NONE, s.project_name # NONE, NEW cleared \in BOOLEAN
  PROVE  LET r == ResetProjectStack(s, cleared) IN
         /\ r \in Ide /\ Keeps(s, r, {"stack", "desk", "dskname", "applied"})
         /\ r.stack = <<>> /\ r.dskname = s.project_name /\ r.applied = s.project.of
         /\ LET f == <<s.cwd, s.project_name>> IN
              cleared => \/ r.desk = {}
                         \/ s.gdt[f] # NONE /\ r.desk = s.gdt[f]
<1> DEFINE t == [s EXCEPT !.stack = <<>>]
           c == ClearDeskTop(t)
           u == IF cleared THEN c ELSE t
           n == s.project_name
           l == LoadDesktop(u, n)
           r == SetGlobalOptions(l)
<1>0. n \in Names /\ n \in Name /\ n # StdName
  BY TreeAssumption DEF Ide, Name
<1>1. t \in Ide /\ Keeps(s, t, {"stack"}) /\ t.stack = <<>>
  BY EmptySeq DEF Ide, Keeps
<1>2. ResetProjectStack(s, cleared) = r
  BY DEF ResetProjectStack
<1> HIDE DEF t
<1>3. c \in Ide /\ Keeps(t, c, {"desk"}) /\ c.desk = {}
  BY <1>1, ClearFields
<1> HIDE DEF c
<1>4. u \in Ide /\ Keeps(t, u, {"desk"}) /\ (cleared => u.desk = {})
  BY <1>1, <1>3 DEF Keeps
<1> HIDE DEF u, n
<1>5. t.gdt = s.gdt /\ t.cwd = s.cwd /\ t.project = s.project
  BY <1>1, KeepsFields
<1>6. u.gdt = s.gdt /\ u.cwd = s.cwd /\ u.stack = <<>> /\ u.project = s.project
  BY <1>1, <1>4, <1>5, KeepsFields
<1>7. Here(u, n) = <<s.cwd, n>>
  BY <1>0, <1>6 DEF Here
<1>8. /\ l \in Ide /\ Keeps(u, l, {"dskname", "desk"}) /\ l.dskname = n
      /\ l.desk = u.desk \cup (IF s.gdt[<<s.cwd, n>>] = NONE THEN {} ELSE s.gdt[<<s.cwd, n>>])
  BY <1>0, <1>4, <1>6, <1>7, LoadFields
<1> HIDE DEF l
<1>9. l.project = s.project /\ l.stack = <<>>
  BY <1>4, <1>6, <1>8, KeepsFields
<1>10. r \in Ide /\ Keeps(l, r, {"applied"}) /\ r.applied = s.project.of
  BY <1>8, <1>9, OptionsFields
<1> HIDE DEF r
<1>11. r.stack = <<>> /\ r.dskname = n /\ r.desk = l.desk
  BY <1>8, <1>9, <1>10, KeepsFields
<1>12. Keeps(s, r, {"stack", "desk", "dskname", "applied"})
  <2>1. Keeps(s, u, {"stack", "desk"})
    BY <1>1, <1>4, KeepsMore
  <2>2. Keeps(s, l, {"stack", "desk", "dskname"})
    BY <1>4, <1>8, <2>1, KeepsMore
  <2> QED BY <1>8, <1>10, <2>2, KeepsMore
<1> QED BY <1>2, <1>4, <1>8, <1>10, <1>11, <1>12 DEF n

Worked(s, v) == [s EXCEPT !.project.ver = v, !.desk = @ \cup {s.project.of}]
\* An edit of the project changes its version and the desktop.
LEMMA WorkFields ==
  ASSUME NEW s \in Ide, NEW v \in Nat, s.project # NONE
  PROVE  LET t == Worked(s, v) IN
         /\ t \in Ide /\ Keeps(s, t, {"project", "desk"})
         /\ t.project \in Project /\ t.project.of = s.project.of /\ t.project.ver = v
         /\ t.desk = s.desk \cup {s.project.of}
<1> DEFINE p == [s.project EXCEPT !.ver = v]
           d == s.desk \cup {s.project.of}
<1>1. p \in Project /\ p.of = s.project.of /\ p.ver = v /\ d \in SUBSET Path
  BY DEF Ide, Project
<1>2. Worked(s, v) = [s EXCEPT !.project = p, !.desk = d]
  BY DEF Ide, Worked
<1> HIDE DEF p, d
<1>3. LET t == [s EXCEPT !.project = p, !.desk = d] IN
      t \in Ide /\ Keeps(s, t, {"project", "desk"}) /\ t.project = p /\ t.desk = d
  BY <1>1 DEF Ide, Keeps
<1> QED BY <1>1, <1>2, <1>3 DEF p, d

----------------------------------------------------------------------------
(* What the steps do, and the invariant they need for it *)

Levels == [of : Path, i : Nat \ {0}, n : Nat]
Odds == {"refuse", "readonly", "nostd", "cancelled", "crashed"}
Hitches == {"readonly", "nostd"}   \* what opening a project may meet

Typed ==
  /\ ide \in Ide /\ at \in Seq(Levels) /\ newest \in [Path -> Nat] /\ odd \subseteq Odds
  /\ mode \in {"off", "idle", "make", "clean", "spec"}

\* the globals name one project, at every level of a walk
InPlace ==
  /\ ide.cwd \in ide.dirs
  /\ mode = "off" => ide.project = NONE /\ ide.project_name = NONE /\ ide.desk = {}
  /\ mode # "off" => Placed(ide) /\ ("readonly" \notin odd => ide.cwd = ide.project_directory)
  /\ Walking => ide.project_name # NONE
  /\ \A k \in DOMAIN ide.stack : LET e == ide.stack[k] IN
       e.dname \in ide.dirs /\ e.project.of = <<e.dname, e.pname>>

Lengths ==
  /\ mode \in {"off", "idle"} => ide.stack = <<>> /\ at = <<>>
  /\ mode \in {"make", "spec"} => Len(at) = Len(ide.stack) + 1
  /\ mode = "clean" => Len(at) >= Len(ide.stack) + 1

TreeInv == Typed /\ InPlace /\ Lengths /\ Owned(ide)

\* saving: the current project to its file, its desktop to its own
Writes(s, t) ==
  /\ \A f \in Path : \/ t.disk[f] = s.disk[f]
                     \/ f = s.project.of /\ t.disk[f] = s.project
  /\ \A f \in Path : \/ t.gdt[f] = s.gdt[f]
                     \/ /\ s.stack = <<>> /\ f = Here(s, s.dskname) /\ s.dskname # NOWHERE
                        /\ t.gdt[f] = s.desk
Flushes(s, t) ==
  /\ Writes(s, t)
  /\ s.project_name # NONE /\ s.cwd \notin ReadOnly /\ ~s.only =>
       t.disk[s.project.of] = s.project

StepTyped == ide' \in Ide /\ at' \in Seq(Levels) /\ odd \subseteq odd' /\ odd' \subseteq Odds

StepOpen ==
  /\ StepTyped /\ mode \in {"off", "idle"} /\ mode' = "idle" /\ at' = at /\ newest' = newest
  /\ \E c \in Ide, strange \in SUBSET Hitches :
       /\ Opens(c, ide', strange) /\ strange \subseteq odd'
       /\ c.dirs = ide.dirs /\ c.only = ide.only /\ c.stack = ide.stack
       /\ mode = "off" => c.env = ide.env /\ c.disk = ide.disk /\ c.gdt = ide.gdt
       /\ mode = "idle" => Popped(ide.env, ide.cwd, c.env) /\ Flushes(ide, c)
StepStore ==
  /\ StepTyped /\ mode # "off" /\ mode' = "idle" /\ at' = <<>> /\ newest' = newest
  /\ ide.stack = <<>> /\ Keeps(ide, ide', {"disk", "gdt"}) /\ Writes(ide, ide')
StepEnd ==
  /\ StepTyped /\ mode # "off" /\ mode' = "off" /\ at' = <<>> /\ newest' = newest
  /\ ide'.cwd = ide.cwd /\ ide'.dirs = ide.dirs /\ ide'.only = ide.only
  /\ ide'.project = NONE /\ ide'.project_name = NONE /\ ide'.desk = {}
  /\ ide'.stack = <<>> /\ ide'.env = NoVars /\ Flushes(ide, ide')
  /\ mode \in {"clean", "spec"} => "crashed" \in odd'
StepStay ==
  /\ StepTyped /\ odd' = odd /\ newest' = newest /\ mode # "off"
  /\ Keeps(ide, ide', {"PRJSTACK"})
  /\ mode = "idle" => /\ mode' \in {"make", "clean", "spec"} /\ ide' = ide
                      /\ ide.project_name # NONE
                      /\ at' = <<Level(ide.project.of)>>
  /\ mode # "idle" => /\ mode' = mode /\ Len(at') >= 1
                      /\ mode = "make" => ide' = ide
                      /\ \/ mode = "clean" /\ ide.stack = <<>>
                         \/ /\ Len(at') = Len(at)
                            /\ \A k \in 1..Len(at) : at'[k].of = at[k].of
StepFields == WalkFields \cup {"disk", "gdt", "PRJSTACK"}
StepPush ==
  /\ StepTyped /\ Walking /\ mode' = mode /\ newest' = newest /\ odd' = odd
  /\ Keeps(ide, ide', StepFields)
  /\ IF mode = "make" THEN Flushes(ide, ide') ELSE ide'.disk = ide.disk /\ ide'.gdt = ide.gdt
  /\ ide'.PRJSTACK = Append(ide.PRJSTACK, <<ide.cwd, ide.project_name>>)
  /\ ide'.stack = Append(ide.stack, [pname |-> ide.project_name, dname |-> ide.cwd,
                                     project |-> ide.project])
  /\ [pname |-> ide.project_name, dname |-> ide.cwd, project |-> ide.project] \in Entry
  /\ <<ide.cwd, ide.project_name>> \in Dirs \X Names
  /\ Placed(ide') /\ ide'.project_name # NONE
  /\ ide'.project = ide'.disk[ide'.project.of]
  /\ Pushed(ide.env, ide'.cwd, ide'.env)
  /\ at' = Append(at, Level(ide'.project.of)) /\ Level(ide'.project.of) \in Levels
  /\ ide.dirs = Dirs => ide'.project.of \in
       Range(Subs[IF mode = "make" THEN Last(at).of ELSE ide.project.of])
StepPop ==
  /\ StepTyped /\ Walking /\ mode' = mode /\ newest' = newest /\ odd' = odd
  /\ ide.stack # <<>> /\ Keeps(ide, ide', StepFields)
  /\ IF mode = "make" THEN Flushes(ide, ide') ELSE ide'.disk = ide.disk /\ ide'.gdt = ide.gdt
  /\ mode = "make" /\ ide.PRJSTACK # <<>> => ide'.PRJSTACK = Front(ide.PRJSTACK)
  /\ ide'.stack = Front(ide.stack)
  /\ LET e == Last(ide.stack) IN
       /\ ide'.cwd = e.dname /\ ide'.project_directory = e.dname
       /\ ide'.project_name = e.pname /\ ide'.project = e.project
  /\ Popped(ide.env, ide.cwd, ide'.env)
  /\ \/ mode = "clean" /\ Len(at') = Len(at)
     \/ /\ Len(at') = Len(at) - 1
        /\ \A k \in 1..(Len(at) - 1) : at'[k].of = at[k].of
StepReset ==
  /\ StepTyped /\ mode = "make" /\ mode' = "idle" /\ at' = <<>> /\ newest' = newest
  /\ Keeps(ide, ide', {"disk", "gdt", "PRJSTACK", "stack", "desk", "dskname", "applied"})
  /\ ide'.stack = <<>> /\ ide'.dskname = ide.project_name /\ ide'.applied = ide.project.of
  /\ ide.stack # <<>> => "cancelled" \in odd'
  /\ \A f \in Path : \/ ide'.disk[f] = ide.disk[f]
                     \/ f = ide.project.of /\ ide'.disk[f] = ide.project
  /\ \E t \in Ide :
       /\ Writes(ide, t)
       /\ "refuse" \notin odd' =>
            \/ ide'.desk = {}
            \/ t.gdt[ide.project.of] # NONE /\ ide'.desk = t.gdt[ide.project.of]
       /\ \A f \in Path : \/ ide'.gdt[f] = t.gdt[f]
                          \/ f = ide.project.of /\ ide'.gdt[f] = ide'.desk
StepWork ==
  /\ StepTyped /\ mode = "idle" /\ mode' = mode /\ at' = at /\ odd' = odd
  /\ Keeps(ide, ide', {"project", "desk"}) /\ ide.project_name # NONE
  /\ ide'.project \in Project /\ ide'.project.of = ide.project.of
  /\ ide'.desk = ide.desk \cup {ide.project.of}
  /\ newest' \in [Path -> Nat]
  /\ \A f \in Path : f # ide.project.of => newest'[f] = newest[f]
  /\ ide.project.ver = newest[ide.project.of] => ide'.project.ver = newest'[ide.project.of]

StepKinds == \/ StepOpen \/ StepStore \/ StepEnd \/ StepStay \/ StepPush \/ StepPop \/ StepReset
             \/ StepWork \/ (StepTyped /\ BackToDirectory) \/ UNCHANGED vars

\* Writing the current project keeps every file with its owner.
LEMMA WritesOwned ==
  ASSUME NEW s \in Ide, NEW t, Owned(s), Writes(s, t)
  PROVE  Owned(t)
BY DEF Owned, Writes

\* Pushing and popping leave options and desktop alone.
LEMMA StepFieldsOut ==
  {"applied", "desk", "dskname", "only", "dirs"} \cap StepFields = {}
BY DEF StepFields, WalkFields

\* the invariant is kept by every kind of step
LEMMA KindsTree == ASSUME TreeInv, StepKinds PROVE TreeInv'
<1> USE DEF TreeInv, Typed
<1>1. CASE StepOpen
  <2> USE <1>1 DEF StepOpen, StepTyped
  <2>1. PICK c \in Ide, strange \in SUBSET Hitches :
          /\ Opens(c, ide', strange) /\ strange \subseteq odd'
          /\ c.dirs = ide.dirs /\ c.only = ide.only /\ c.stack = ide.stack
          /\ mode = "off" => c.env = ide.env /\ c.disk = ide.disk /\ c.gdt = ide.gdt
          /\ mode = "idle" => Popped(ide.env, ide.cwd, c.env) /\ Flushes(ide, c)
    OBVIOUS
  <2>2. Owned(c)
    BY <2>1, WritesOwned DEF Flushes, Owned
  <2>3. ide'.dirs = c.dirs /\ ide'.disk = c.disk /\ ide'.stack = c.stack
    BY <2>1, KeepsFields, SMTT(30) DEF Opens, OpenedFields
  <2>4. ide'.stack = <<>> /\ at' = <<>>
    BY <2>1, <2>3 DEF Lengths
  <2>5. Owned(ide')
    BY <2>2, <2>3 DEF Owned
  <2>6. Placed(ide') /\ ("readonly" \notin odd' => ide'.cwd = ide'.project_directory)
    BY <2>1 DEF Opens
  <2>7. InPlace'
    BY <2>4, <2>6 DEF InPlace, Placed, Walking
  <2> QED BY <2>4, <2>5, <2>7 DEF Lengths
<1>2. CASE StepStore
  <2> USE <1>2 DEF StepStore, StepTyped
  <2>1. /\ ide'.cwd = ide.cwd /\ ide'.dirs = ide.dirs /\ ide'.stack = ide.stack
        /\ ide'.project = ide.project /\ ide'.project_name = ide.project_name
        /\ ide'.project_directory = ide.project_directory
    BY KeepsFields
  <2>2. InPlace'
    BY <2>1 DEF InPlace, Placed, Walking
  <2> QED BY <2>1, <2>2, WritesOwned DEF Lengths
<1>3. CASE StepEnd
  <2> USE <1>3 DEF StepEnd, StepTyped
  <2>1. Owned(ide')
    BY WritesOwned DEF Flushes
  <2>2. InPlace'
    <3>1. DOMAIN ide'.stack = {}
      BY ONLY ide'.stack = <<>>
    <3> QED BY <3>1 DEF InPlace, Walking
  <2> QED BY <2>1, <2>2 DEF Lengths
<1>4. CASE StepStay
  <2> USE <1>4 DEF StepStay, StepTyped
  <2>1. /\ ide'.cwd = ide.cwd /\ ide'.dirs = ide.dirs /\ ide'.stack = ide.stack
        /\ ide'.project = ide.project /\ ide'.project_name = ide.project_name
        /\ ide'.project_directory = ide.project_directory /\ ide'.disk = ide.disk
    BY KeepsFields
  <2>2. InPlace'
    BY <2>1 DEF InPlace, Placed, Walking
  <2>3. Len(<<Level(ide.project.of)>>) = 1 /\ Len(<<>>) = 0
    OBVIOUS
  <2>4. Len(ide.stack) \in Nat /\ (ide.stack = <<>> => Len(ide.stack) = 0)
    BY LenProperties DEF Ide
  <2>5. Lengths'
    <3>1. CASE mode = "idle"
      <4>1. ide'.stack = <<>> /\ Len(at') = 1 /\ Len(ide'.stack) = 0
        BY <2>1, <2>3, <3>1 DEF Lengths
      <4> HIDE DEF TreeInv, Typed
      <4> QED BY <3>1, <4>1 DEF Lengths
    <3>2. CASE mode # "idle"
      BY <2>1, <2>4, <3>2 DEF Lengths
    <3> QED BY <3>1, <3>2
  <2> QED BY <2>1, <2>2, <2>5 DEF Owned
<1>5. CASE StepPush
  <2> USE <1>5 DEF StepPush, StepTyped
  <2> DEFINE e == [pname |-> ide.project_name, dname |-> ide.cwd, project |-> ide.project]
  <2>1. ide'.dirs = ide.dirs
    <3>1. ide \in Ide /\ Keeps(ide, ide', StepFields)
      OBVIOUS
    <3> QED BY ONLY <3>1, KeepsFields, StepFieldsOut
  <2>2. Owned(ide')
    BY WritesOwned DEF Flushes, Owned
  <2>3. ide.stack \in Seq(Entry) /\ ide'.stack = Append(ide.stack, e) /\ e \in Entry
    BY DEF Ide
  <2>4. /\ Len(ide'.stack) = Len(ide.stack) + 1
        /\ \A k \in 1..Len(ide.stack) : ide'.stack[k] = ide.stack[k]
        /\ ide'.stack[Len(ide.stack) + 1] = e
        /\ DOMAIN ide'.stack = 1..(Len(ide.stack) + 1) /\ DOMAIN ide.stack = 1..Len(ide.stack)
        /\ Len(ide.stack) \in Nat
    <3> HIDE DEF e
    <3>1. ide'.stack \in Seq(Entry)
      BY <2>3, AppendProperties
    <3> QED BY <2>3, <3>1, AppendProperties, LenProperties
  <2>5. Len(at') = Len(at) + 1 /\ Len(at) \in Nat
    BY AppendProperties, LenProperties
  <2>6. e.dname \in ide.dirs /\ e.project.of = <<e.dname, e.pname>>
    BY DEF InPlace, Placed
  <2> HIDE DEF e
  <2>7. \A k \in DOMAIN ide'.stack : LET x == ide'.stack[k] IN
       x.dname \in ide'.dirs /\ x.project.of = <<x.dname, x.pname>>
    <3> SUFFICES ASSUME NEW k \in DOMAIN ide'.stack
                 PROVE  LET x == ide'.stack[k] IN
                        x.dname \in ide'.dirs /\ x.project.of = <<x.dname, x.pname>>
      OBVIOUS
    <3>1. CASE k \in 1..Len(ide.stack)
      BY <2>1, <2>4, <3>1 DEF InPlace
    <3>2. CASE k = Len(ide.stack) + 1
      BY <2>1, <2>4, <2>6, <3>2
    <3> QED BY <2>4, <3>1, <3>2
  <2>8. InPlace'
    BY <2>7 DEF InPlace, Placed, Walking
  <2>9. Lengths'
    BY <2>4, <2>5 DEF Lengths, Walking
  <2> QED BY <2>2, <2>8, <2>9
<1>6. CASE StepPop
  <2> USE <1>6 DEF StepPop, StepTyped
  <2>1. ide'.dirs = ide.dirs
    <3>1. ide \in Ide /\ Keeps(ide, ide', StepFields)
      OBVIOUS
    <3> QED BY ONLY <3>1, KeepsFields, StepFieldsOut
  <2>2. Owned(ide')
    BY WritesOwned DEF Flushes, Owned
  <2>3. /\ ide.stack \in Seq(Entry) /\ Len(ide.stack) \in Nat \ {0}
        /\ DOMAIN ide.stack = 1..Len(ide.stack)
        /\ Len(ide'.stack) = Len(ide.stack) - 1
        /\ DOMAIN ide'.stack = 1..(Len(ide.stack) - 1)
        /\ \A k \in 1..(Len(ide.stack) - 1) : ide'.stack[k] = ide.stack[k]
        /\ Last(ide.stack) = ide.stack[Len(ide.stack)] /\ Last(ide.stack) \in Entry
    <3>1. ide.stack \in Seq(Entry)
      BY DEF Ide
    <3>2. /\ ide'.stack \in Seq(Entry) /\ Len(ide'.stack) = Len(ide.stack) - 1
          /\ Len(ide.stack) \in Nat \ {0}
          /\ \A k \in 1..(Len(ide.stack) - 1) : ide'.stack[k] = ide.stack[k]
          /\ Last(ide.stack) = ide.stack[Len(ide.stack)] /\ Last(ide.stack) \in Entry
      <4>1. ide.stack # <<>> /\ ide'.stack = Front(ide.stack)
        OBVIOUS
      <4> QED BY ONLY <3>1, <4>1, FrontFacts
    <3>3. DOMAIN ide.stack = 1..Len(ide.stack) /\ DOMAIN ide'.stack = 1..Len(ide'.stack)
      BY <3>1, <3>2, LenProperties
    <3> QED BY <3>1, <3>2, <3>3
  <2>4. LET e == Last(ide.stack) IN e.dname \in ide.dirs /\ e.project.of = <<e.dname, e.pname>>
    <3>1. Len(ide.stack) \in DOMAIN ide.stack /\ Last(ide.stack) = ide.stack[Len(ide.stack)]
      BY <2>3
    <3>2. \A k \in DOMAIN ide.stack : LET e == ide.stack[k] IN
            e.dname \in ide.dirs /\ e.project.of = <<e.dname, e.pname>>
      BY DEF InPlace
    <3> QED BY ONLY <3>1, <3>2
  <2>5. ide'.project # NONE /\ ide'.project_name # NONE
    BY <2>3, TreeAssumption DEF Entry
  <2>9. \A k \in DOMAIN ide'.stack : LET x == ide'.stack[k] IN
       x.dname \in ide'.dirs /\ x.project.of = <<x.dname, x.pname>>
    <3>1. \A k \in DOMAIN ide.stack : LET x == ide.stack[k] IN
            x.dname \in ide.dirs /\ x.project.of = <<x.dname, x.pname>>
      BY DEF InPlace
    <3>2. ide'.dirs = ide.dirs
      BY <2>1
    <3>3. Len(ide.stack) \in Nat
      BY <2>3
    <3>4. /\ DOMAIN ide'.stack = 1..(Len(ide.stack) - 1) /\ DOMAIN ide.stack = 1..Len(ide.stack)
          /\ \A k \in 1..(Len(ide.stack) - 1) : ide'.stack[k] = ide.stack[k]
      BY <2>3
    <3> QED BY ONLY <3>1, <3>2, <3>3, <3>4
  <2>6. InPlace'
    BY <2>1, <2>4, <2>5, <2>9 DEF InPlace, Placed, Walking
  <2>7. Len(at) \in Nat
    BY LenProperties
  <2>8. Lengths'
    BY <2>3, <2>7 DEF Lengths, Walking
  <2> QED BY <2>2, <2>6, <2>8
<1>7. CASE StepReset
  <2> USE <1>7 DEF StepReset, StepTyped
  <2>1. /\ ide'.cwd = ide.cwd /\ ide'.dirs = ide.dirs /\ ide'.project = ide.project
        /\ ide'.project_name = ide.project_name
        /\ ide'.project_directory = ide.project_directory
    BY KeepsFields
  <2>2. Owned(ide')
    BY DEF Owned
  <2>3. InPlace'
    BY <2>1 DEF InPlace, Placed, Walking
  <2> QED BY <2>2, <2>3 DEF Lengths
<1>8. CASE StepWork
  <2> USE <1>8 DEF StepWork, StepTyped
  <2>1. /\ ide'.cwd = ide.cwd /\ ide'.dirs = ide.dirs
        /\ ide'.project_name = ide.project_name /\ ide'.stack = ide.stack
        /\ ide'.project_directory = ide.project_directory /\ ide'.disk = ide.disk
    BY KeepsFields
  <2>2. ide'.project # NONE
    BY TreeAssumption
  <2>3. InPlace'
    BY <2>1, <2>2 DEF InPlace, Placed, Walking
  <2> QED BY <2>1, <2>3 DEF Lengths, Owned
<1>9. CASE StepTyped /\ BackToDirectory
  <2> USE <1>9 DEF BackToDirectory, StepTyped
  <2>1. Keeps(ide, ide', {"cwd"}) /\ ide'.cwd \in ide.dirs
        /\ (ide.cwd = ide.project_directory => ide' = ide)
    BY ChdirFields DEF InPlace
  <2>2. /\ ide'.dirs = ide.dirs /\ ide'.project = ide.project
        /\ ide'.project_name = ide.project_name /\ ide'.stack = ide.stack
        /\ ide'.project_directory = ide.project_directory /\ ide'.disk = ide.disk
    BY <2>1, KeepsFields
  <2>3. InPlace'
    BY <2>1, <2>2 DEF InPlace, Placed, Walking
  <2> QED BY <2>2, <2>3 DEF Lengths, Owned
<1>10. CASE UNCHANGED vars
  BY <1>10 DEF vars, InPlace, Lengths, Walking
<1> QED BY <1>1, <1>2, <1>3, <1>4, <1>5, <1>6, <1>7, <1>8, <1>9, <1>10 DEF StepKinds

\* SaveProject writes the project, when its directory can be written.
LEMMA SaveFlushes ==
  ASSUME NEW s \in Ide, Placed(s), Owned(s), NEW t \in {SaveProject(s), SaveIfWanted(s)}
  PROVE  t \in Ide /\ Keeps(s, t, {"disk", "gdt"}) /\ Flushes(s, t) /\ Placed(t) /\ Owned(t)
<1>1. /\ SaveProject(s) \in Ide /\ Keeps(s, SaveProject(s), {"disk", "gdt"})
      /\ Flushes(s, SaveProject(s))
  BY SaveFields, SaveOwned DEF Flushes, Writes, Placed
<1>2. t = SaveProject(s) \/ (t = s /\ s.only)
  BY DEF SaveIfWanted
<1>3. t \in Ide /\ Keeps(s, t, {"disk", "gdt"}) /\ Flushes(s, t)
  BY <1>1, <1>2 DEF Keeps, Flushes, Writes
<1>4. Placed(t)
  BY <1>3, KeepsFields DEF Placed
<1> QED BY <1>3, <1>4, WritesOwned DEF Flushes

\* what is written depends on the disk and the desktops only
LEMMA FlushesFrame ==
  ASSUME NEW s, NEW a, NEW t, NEW u, t.disk = u.disk, t.gdt = u.gdt,
         s.project = a.project, s.disk = a.disk, s.gdt = a.gdt, s.cwd = a.cwd,
         s.stack = a.stack, s.dskname = a.dskname, s.desk = a.desk, s.only = a.only,
         s.project_name = a.project_name
  PROVE  (Writes(s, t) => Writes(a, u)) /\ (Flushes(s, t) => Flushes(a, u))
BY DEF Writes, Flushes, Here

\* CloseProject writes the project it closes.
LEMMA CloseFlushes ==
  ASSUME NEW s \in Ide, Placed(s), Owned(s), s.stack = <<>>
  PROVE  LET c == CloseProject(s) IN
         /\ c \in Ide /\ c.project = NONE /\ c.project_name = NONE /\ c.desk = {}
         /\ c.cwd = s.cwd /\ c.dirs = s.dirs /\ c.only = s.only /\ c.stack = s.stack
         /\ Popped(s.env, s.cwd, c.env) /\ Flushes(s, c) /\ Owned(c)
<1> DEFINE c == CloseProject(s)
           t == SaveProject(s)
<1>1. /\ c \in Ide
      /\ Keeps(s, c, {"disk", "gdt", "desk", "project", "dskname", "project_name", "env"})
      /\ c.project = NONE /\ c.project_name = NONE /\ c.desk = {}
      /\ c.disk = t.disk /\ c.gdt = t.gdt
      /\ Popped(s.env, s.cwd, c.env)
  BY CloseFields DEF Popped, Placed
<1>2. Flushes(s, t) /\ Owned(t)
  BY SaveFlushes
<1> HIDE DEF c, t
<1>3. Flushes(s, c) /\ Owned(c)
  BY <1>1, <1>2, FlushesFrame DEF Owned
<1>4. c.cwd = s.cwd /\ c.dirs = s.dirs /\ c.only = s.only /\ c.stack = s.stack
  BY <1>1, KeepsFields
<1> QED BY <1>1, <1>3, <1>4 DEF c

\* What Strange finds is what opening may meet.
LEMMA StrangeOdds == \A s, f : Strange(s, f) \in SUBSET Hitches
BY DEF Strange, Hitches

\* The start opens a project.
LEMMA StartIs ==
  ASSUME TreeInv, NEW d \in StartDirs, NEW f \in Given \cup {NONE}, Start(d, f)
  PROVE  StepOpen
<1> USE DEF TreeInv, Typed
<1> DEFINE c == [ide EXCEPT !.cwd = d]
           strange == IF f = NONE THEN {} ELSE Strange(c, f)
<1>1. /\ mode = "off" /\ d \in ide.dirs /\ odd' = odd \cup strange /\ ide' = Openable(c, f)
      /\ mode' = "idle" /\ at' = at /\ newest' = newest
  BY DEF Start, Noted
<1>2. c \in Ide /\ Keeps(ide, c, {"cwd"}) /\ c.cwd = d
  BY <1>1 DEF Ide, Keeps
<1> HIDE DEF c
<1>3. /\ c.dirs = ide.dirs /\ c.only = ide.only /\ c.stack = ide.stack /\ c.env = ide.env
      /\ c.disk = ide.disk /\ c.gdt = ide.gdt /\ c.project = NONE /\ c.project_name = NONE
      /\ c.desk = {}
  BY <1>1, <1>2, KeepsFields DEF InPlace
<1>4. Owned(c) /\ c.cwd \in c.dirs
  BY <1>1, <1>2, <1>3 DEF Owned
<1>5. strange \in SUBSET Hitches
  BY StrangeOdds
<1>6. Opens(c, ide', strange)
  <2>1. CASE f = NONE
    BY <1>1, <1>2, <1>3, <1>4, <2>1, NoneOpens DEF Openable
  <2>2. CASE f # NONE
    BY <1>1, <1>2, <1>3, <1>4, <2>2, ProjectOpens, TreeAssumption DEF Openable
  <2> QED BY <2>1, <2>2
<1> HIDE DEF strange
<1>7. StepTyped
  BY <1>1, <1>5, <1>6 DEF StepTyped, Opens, Hitches, Odds
<1>8. \E x \in Ide, y \in SUBSET Hitches :
       /\ Opens(x, ide', y) /\ y \subseteq odd'
       /\ x.dirs = ide.dirs /\ x.only = ide.only /\ x.stack = ide.stack
       /\ mode = "off" => x.env = ide.env /\ x.disk = ide.disk /\ x.gdt = ide.gdt
       /\ mode = "idle" => Popped(ide.env, ide.cwd, x.env) /\ Flushes(ide, x)
  BY <1>1, <1>2, <1>3, <1>5, <1>6
<1> QED BY <1>1, <1>7, <1>8 DEF StepOpen

\* an open project is closed and another opened
LEMMA ReopenIs ==
  ASSUME TreeInv, mode = "idle", mode' = mode, at' = at, newest' = newest,
         NEW c \in Ide, c.dirs = ide.dirs, c.only = ide.only, c.stack = ide.stack,
         Popped(ide.env, ide.cwd, c.env), Flushes(ide, c),
         NEW strange \in SUBSET Hitches, odd' = odd \cup strange, Opens(c, ide', strange)
  PROVE  StepOpen
<1> USE DEF TreeInv, Typed
<1>1. StepTyped
  BY DEF StepTyped, Opens, Hitches, Odds
<1> QED BY <1>1 DEF StepOpen

\* A refused command saves and changes nothing else.
LEMMA RefuseIs ==
  ASSUME TreeInv, mode = "idle", Refuse(ide)
  PROVE  StepStore
<1> USE DEF TreeInv, Typed
<1>1. ide' = SaveProject(ide) /\ odd' = odd \cup {"refuse"} /\ mode' = mode /\ at' = at
      /\ newest' = newest
  BY DEF Refuse, Noted
<1>2. ide' \in Ide /\ Keeps(ide, ide', {"disk", "gdt"}) /\ Writes(ide, ide')
  BY <1>1, SaveFlushes DEF InPlace, Flushes
<1>3. StepTyped
  BY <1>1, <1>2 DEF StepTyped, Odds
<1> QED BY <1>1, <1>2, <1>3 DEF StepStore, Lengths

\* Between commands a project is open and no walk is on.
LEMMA IdlePlaced ==
  ASSUME TreeInv, mode = "idle"
  PROVE  ide \in Ide /\ Placed(ide) /\ Owned(ide) /\ ide.stack = <<>> /\ at = <<>>
         /\ ide.cwd \in ide.dirs /\ ide.project # NONE
BY DEF TreeInv, Typed, InPlace, Lengths, Placed

\* "Open project" saves and is refused, or closes and opens.
LEMMA OpenIs ==
  ASSUME TreeInv, NEW f \in Chosen, cmOpenProject(f)
  PROVE  StepOpen \/ StepStore
<1>0. mode = "idle"
  BY DEF cmOpenProject
<1>1. CASE Refuse(ide)
  BY <1>0, <1>1, RefuseIs
<1>2. CASE ~Refuse(ide)
  <2> DEFINE c == CloseProject(ide)
  <2>1. /\ odd' = odd \cup Strange(c, f) /\ ide' = OpenProject(c, f)
        /\ mode' = mode /\ at' = at /\ newest' = newest
    BY <1>2 DEF cmOpenProject, Noted
  <2>2. /\ c \in Ide /\ c.project = NONE /\ c.project_name = NONE /\ c.desk = {}
        /\ c.cwd = ide.cwd /\ c.dirs = ide.dirs /\ c.only = ide.only /\ c.stack = ide.stack
        /\ Popped(ide.env, ide.cwd, c.env) /\ Flushes(ide, c) /\ Owned(c)
        /\ c.cwd \in c.dirs
    BY <1>0, IdlePlaced, CloseFlushes
  <2> HIDE DEF c
  <2>3. Opens(c, ide', Strange(c, f))
    BY <2>1, <2>2, ProjectOpens, TreeAssumption
  <2> QED BY <1>0, <2>1, <2>2, <2>3, StrangeOdds, ReopenIs
<1> QED BY <1>1, <1>2

\* So does selecting a sub-project.
LEMMA SelectIs ==
  ASSUME TreeInv, cmSelectProject
  PROVE  StepOpen \/ StepStore
<1> DEFINE a == AddToStack(ide)
           c == CloseProject(a)
<1>0. mode = "idle" /\ ide.project_name # NONE
  BY DEF cmSelectProject
<1>1. PICK f \in Range(Subs[ide.project.of]) :
        \/ Refuse(RemoveFromStack(AddToStack(ide)))
        \/ /\ Noted(Strange(c, f)) /\ ide' = OpenProject(c, f)
           /\ UNCHANGED <<mode, at, newest>>
  BY DEF cmSelectProject
<1>2. /\ a \in Ide /\ Keeps(ide, a, {"PRJSTACK"}) /\ RemoveFromStack(a) = ide
  BY <1>0, IdlePlaced, AddFields
<1>3. CASE Refuse(RemoveFromStack(AddToStack(ide)))
  BY <1>0, <1>2, <1>3, RefuseIs
<1>4. CASE ~Refuse(RemoveFromStack(AddToStack(ide)))
  <2> HIDE DEF a
  <2>1. /\ odd' = odd \cup Strange(c, f) /\ ide' = OpenProject(c, f)
        /\ mode' = mode /\ at' = at /\ newest' = newest
    BY <1>1, <1>4 DEF Noted, a
  <2>2. /\ a.cwd = ide.cwd /\ a.dirs = ide.dirs /\ a.only = ide.only /\ a.stack = ide.stack
        /\ a.project = ide.project /\ a.project_name = ide.project_name /\ a.env = ide.env
        /\ a.project_directory = ide.project_directory /\ a.disk = ide.disk /\ a.gdt = ide.gdt
        /\ a.dskname = ide.dskname /\ a.desk = ide.desk
    BY <1>0, <1>2, IdlePlaced, KeepsFields
  <2>3. Placed(a) /\ Owned(a) /\ a.stack = <<>> /\ a.cwd \in a.dirs
    BY <1>0, <2>2, IdlePlaced DEF Placed, Owned
  <2>4. /\ c \in Ide /\ c.project = NONE /\ c.project_name = NONE /\ c.desk = {}
        /\ c.cwd = a.cwd /\ c.dirs = a.dirs /\ c.only = a.only /\ c.stack = a.stack
        /\ Popped(a.env, a.cwd, c.env) /\ Flushes(a, c) /\ Owned(c)
    BY <1>2, <2>3, CloseFlushes
  <2> HIDE DEF c
  <2>5. Flushes(ide, c)
    BY <2>2, <2>4, FlushesFrame
  <2>6. f \in Dirs \X Names
    <3>1. ide.project.of \in Path
      BY <1>0, IdlePlaced DEF Ide, Project
    <3>2. Subs[ide.project.of] \in Seq(Dirs \X Names)
      BY <3>1, TreeAssumption
    <3> QED BY <3>2, LenProperties DEF Range
  <2>7. Opens(c, ide', Strange(c, f))
    BY <2>1, <2>3, <2>4, <2>6, ProjectOpens
  <2> QED BY <1>0, <2>1, <2>2, <2>4, <2>5, <2>7, StrangeOdds, ReopenIs
<1> QED BY <1>3, <1>4

\* What opening does is kept when PRJSTACK changes.
LEMMA OpensKept ==
  ASSUME NEW s \in Ide, NEW r \in Ide, NEW t \in Ide, NEW strange, Opens(s, r, strange),
         Keeps(r, t, {"PRJSTACK"})
  PROVE  Opens(s, t, strange)
<1>1. /\ t.cwd = r.cwd /\ t.dirs = r.dirs /\ t.project = r.project /\ t.env = r.env
      /\ t.project_name = r.project_name /\ t.project_directory = r.project_directory
      /\ t.applied = r.applied /\ t.dskname = r.dskname /\ t.desk = r.desk /\ t.gdt = r.gdt
  BY KeepsFields
<1>2. Keeps(s, t, OpenedFields)
  BY KeepsMore DEF Opens, OpenedFields
<1>3. Placed(t) /\ DskOf(t) = DskOf(r)
  BY <1>1 DEF Placed, DskOf, Opens
<1> QED BY <1>1, <1>2, <1>3 DEF Opens

\* "Close project" saves and is refused, or closes and opens what it came from.
LEMMA CloseIs ==
  ASSUME TreeInv, cmCloseProject
  PROVE  StepOpen \/ StepStore
<1> DEFINE c == CloseProject(ide)
           back == Last(c.PRJSTACK)
<1>0. mode = "idle"
  BY DEF cmCloseProject
<1>1. CASE Refuse(ide)
  BY <1>0, <1>1, RefuseIs
<1>2. CASE ~Refuse(ide)
  <2>1. /\ c \in Ide /\ c.project = NONE /\ c.project_name = NONE /\ c.desk = {}
        /\ c.cwd = ide.cwd /\ c.dirs = ide.dirs /\ c.only = ide.only /\ c.stack = ide.stack
        /\ Popped(ide.env, ide.cwd, c.env) /\ Flushes(ide, c) /\ Owned(c)
        /\ c.cwd \in c.dirs
    BY <1>0, IdlePlaced, CloseFlushes
  <2>2. /\ mode' = mode /\ at' = at /\ newest' = newest
        /\ \/ c.PRJSTACK = <<>> /\ ide' = OpenNone(c) /\ odd' = odd
           \/ /\ c.PRJSTACK # <<>> /\ ide' = OpenFromStack(c)
              /\ odd' = odd \cup Strange(Chdir(c, back[1]), back)
    BY <1>2 DEF cmCloseProject, Noted
  <2>3. CASE c.PRJSTACK = <<>>
    <3>1. Opens(c, ide', {}) /\ odd' = odd \cup {} /\ {} \in SUBSET Hitches
      BY <2>1, <2>2, <2>3, NoneOpens
    <3> HIDE DEF c
    <3> QED BY <1>0, <2>1, <2>2, <3>1, ReopenIs
  <2>4. CASE c.PRJSTACK # <<>>
    <3> DEFINE x == Chdir(c, back[1])
               g == <<x.cwd, back[2]>>
               r == OpenProject(x, g)
    <3>1. back \in Dirs \X Names
      BY <2>1, <2>4, FrontFacts DEF Ide
    <3>2. ide' = RemoveFromStack(r)
      BY <2>2, <2>4 DEF OpenFromStack
    <3>3. odd' = odd \cup Strange(x, back)
      BY <2>2, <2>4
    <3> HIDE DEF c, back
    <3>4. x \in Ide /\ Keeps(c, x, {"cwd"}) /\ x.cwd \in c.dirs
      BY <2>1, ChdirFields
    <3>5. Chdir(x, back[1]).cwd = x.cwd /\ Chdir(x, g[1]).cwd = x.cwd
      BY <2>1, <3>4, ChdirFields, KeepsFields
    <3>6. Strange(x, back) = Strange(x, g)
      BY <3>5 DEF Strange
    <3> HIDE DEF x
    <3>7. /\ x.project = NONE /\ x.project_name = NONE /\ x.desk = {} /\ x.dirs = c.dirs
          /\ x.only = c.only /\ x.stack = c.stack /\ x.env = c.env /\ x.disk = c.disk
          /\ x.gdt = c.gdt
      BY <2>1, <3>4, KeepsFields
    <3>8. Owned(x) /\ x.cwd \in x.dirs /\ g \in Dirs \X Names
      BY <2>1, <3>1, <3>4, <3>7 DEF Owned, Ide
    <3>9. Opens(x, r, Strange(x, g))
      BY <3>4, <3>7, <3>8, ProjectOpens
    <3> HIDE DEF r, g
    <3>10. r \in Ide /\ RemoveFromStack(r) \in Ide /\ Keeps(r, RemoveFromStack(r), {"PRJSTACK"})
      BY <3>9, AddFields DEF Opens
    <3>11. Opens(x, ide', Strange(x, g))
      BY <3>2, <3>4, <3>9, <3>10, OpensKept
    <3>12. Flushes(ide, x)
      BY <2>1, <3>7, FlushesFrame
    <3>13. Popped(ide.env, ide.cwd, x.env)
      BY <2>1, <3>7
    <3> QED BY <1>0, <2>1, <2>2, <3>3, <3>4, <3>6, <3>7, <3>11, <3>12, <3>13, StrangeOdds, ReopenIs
  <2> QED BY <2>3, <2>4
<1> QED BY <1>1, <1>2

\* Leaving the program saves the project and forgets the globals.
LEMMA EndIs ==
  ASSUME TreeInv, NEW t \in Ide, Flushes(ide, t), t.cwd = ide.cwd, t.dirs = ide.dirs,
         t.only = ide.only, mode # "off", mode' = "off", at' = <<>>, newest' = newest,
         ide' = [t EXCEPT
                      !.project = NONE, !.project_name = NONE, !.stack = <<>>,
                      !.PRJSTACK = <<>>, !.applied = NONE, !.desk = {},
                      !.standard_project_name = NONE, !.dskname = NONE,
                      !.project_directory = NONE, !.env = NoVars],
         odd' = odd \cup (IF mode \in {"idle", "make"} THEN {} ELSE {"crashed"})
  PROVE  StepEnd
<1> USE DEF TreeInv, Typed
<1>1. NoVars \in [Vars -> Seq(Value)] /\ <<>> \in Seq(Entry) /\ <<>> \in Seq(Dirs \X Names)
      /\ <<>> \in Seq(Levels)
  BY EmptySeq DEF NoVars
<1>2. ide' \in Ide
  BY <1>1, ZenonT(60) DEF Ide
<1>3. /\ ide'.cwd = ide.cwd /\ ide'.dirs = ide.dirs /\ ide'.only = ide.only
      /\ ide'.project = NONE /\ ide'.project_name = NONE /\ ide'.desk = {}
      /\ ide'.stack = <<>> /\ ide'.env = NoVars /\ ide'.disk = t.disk /\ ide'.gdt = t.gdt
  BY DEF Ide
<1>4. Flushes(ide, ide')
  BY <1>3 DEF Flushes, Writes
<1>5. StepTyped
  BY <1>1, <1>2 DEF StepTyped, Odds
<1> QED BY <1>3, <1>4, <1>5 DEF StepEnd

\* Quit leaves the program.
LEMMA QuitIs == ASSUME TreeInv, cmQuit PROVE StepEnd
<1> DEFINE c == CloseProject(ide)
<1>0. mode = "idle"
  BY DEF cmQuit
<1>1. /\ c \in Ide /\ c.project = NONE /\ c.project_name = NONE /\ c.desk = {}
      /\ c.cwd = ide.cwd /\ c.dirs = ide.dirs /\ c.only = ide.only /\ c.stack = <<>>
      /\ Flushes(ide, c)
  BY <1>0, IdlePlaced, CloseFlushes
<1>2. /\ ide' = [c EXCEPT !.PRJSTACK = <<>>, !.applied = NONE,
                       !.standard_project_name = NONE, !.dskname = NONE,
                       !.project_directory = NONE, !.env = NoVars]
      /\ mode' = "off" /\ at' = at /\ newest' = newest /\ odd' = odd
  BY DEF cmQuit
<1> HIDE DEF c
<1>3. ide' = [c EXCEPT
                      !.project = NONE, !.project_name = NONE, !.stack = <<>>,
                      !.PRJSTACK = <<>>, !.applied = NONE, !.desk = {},
                      !.standard_project_name = NONE, !.dskname = NONE,
                      !.project_directory = NONE, !.env = NoVars]
  BY <1>1, <1>2 DEF Ide
<1>4. at' = <<>> /\ odd' = odd \cup (IF mode \in {"idle", "make"} THEN {} ELSE {"crashed"})
  BY <1>0, <1>2, IdlePlaced
<1> HIDE DEF cmQuit
<1> QED BY <1>0, <1>1, <1>2, <1>3, <1>4, EndIs

\* So does the signal handler.
LEMMA CrashIs == ASSUME TreeInv, Crash PROVE StepEnd
<1> DEFINE t == SaveProject(ide)
<1>1. ide \in Ide /\ Placed(ide) /\ Owned(ide) /\ mode # "off"
  BY DEF TreeInv, Typed, InPlace, Crash
<1>2. t \in Ide /\ Keeps(ide, t, {"disk", "gdt"}) /\ Flushes(ide, t)
  BY <1>1, SaveFlushes
<1>3. /\ ide' = [t EXCEPT
                      !.project = NONE, !.project_name = NONE, !.stack = <<>>,
                      !.PRJSTACK = <<>>, !.applied = NONE, !.desk = {},
                      !.standard_project_name = NONE, !.dskname = NONE,
                      !.project_directory = NONE, !.env = NoVars]
      /\ mode' = "off" /\ at' = <<>> /\ newest' = newest
      /\ odd' = odd \cup (IF mode \in {"idle", "make"} THEN {} ELSE {"crashed"})
  BY DEF Crash
<1> HIDE DEF t
<1>4. t.cwd = ide.cwd /\ t.dirs = ide.dirs /\ t.only = ide.only
  BY <1>1, <1>2, KeepsFields
<1> QED BY <1>1, <1>2, <1>3, <1>4, EndIs

\* Saving between commands.
LEMMA StoreIs ==
  ASSUME TreeInv, mode # "off", mode' = "idle", at' = <<>>, newest' = newest, odd' = odd,
         ide.stack = <<>>, ide' \in {ide, SaveIfWanted(ide)}
  PROVE  StepStore
<1> USE DEF TreeInv, Typed
<1>1. Placed(ide)
  BY DEF InPlace
<1>2. SaveIfWanted(ide) \in Ide /\ Keeps(ide, SaveIfWanted(ide), {"disk", "gdt"})
      /\ Writes(ide, SaveIfWanted(ide))
  BY <1>1, SaveFlushes DEF Flushes
<1>3. ide' \in Ide /\ Keeps(ide, ide', {"disk", "gdt"}) /\ Writes(ide, ide')
  BY <1>2 DEF Keeps, Writes
<1>4. StepTyped
  BY <1>3, EmptySeq DEF StepTyped
<1> QED BY <1>3, <1>4 DEF StepStore

\* The user changes the project in memory.
LEMMA WorkIs == ASSUME TreeInv, Work PROVE StepWork
<1> USE DEF TreeInv, Typed
<1> DEFINE f == ide.project.of
           v == IF newest[f] < MaxVer[f] THEN newest[f] + 1 ELSE ide.project.ver
           t == [ide EXCEPT !.project.ver = v, !.desk = @ \cup {f}]
           w == IF v > newest[f] THEN v ELSE newest[f]
<1>1. /\ ide' = t /\ newest' = [newest EXCEPT ![f] = w] /\ mode = "idle" /\ mode' = mode
      /\ at' = at /\ odd' = odd /\ ide.project_name # NONE
  BY DEF Work
<1>2. ide.project \in Project /\ f \in Path /\ ide.project.ver \in Nat
  BY <1>1 DEF InPlace, Placed, Ide, Project
<1>3. newest[f] \in Nat
  BY <1>2
<1>4. v \in Nat /\ w \in Nat /\ (ide.project.ver = newest[f] => v = w)
  BY <1>2, <1>3
<1>5. ide.project # NONE
  BY <1>1 DEF InPlace, Placed
<1>7. /\ t \in Ide /\ Keeps(ide, t, {"project", "desk"}) /\ t.desk = ide.desk \cup {f}
      /\ t.project \in Project /\ t.project.of = f /\ t.project.ver = v
  <2>1. t = Worked(ide, v)
    BY DEF Worked
  <2> HIDE DEF t, v
  <2> QED BY <1>4, <1>5, <2>1, WorkFields
<1> HIDE DEF t, v, w
<1>8. /\ newest' \in [Path -> Nat] /\ newest'[f] = w
      /\ \A g \in Path : g # f => newest'[g] = newest[g]
  BY <1>1, <1>2, <1>4
<1>9. StepTyped
  BY <1>1, <1>7 DEF StepTyped
<1> HIDE DEF f
<1> QED BY <1>1, <1>4, <1>7, <1>8, <1>9 DEF StepWork, f

----------------------------------------------------------------------------
(* The steps of a walk *)

\* A new level of a walk.
LEMMA LevelTyped == \A p \in Path : Level(p) \in Levels
<1> SUFFICES ASSUME NEW p \in Path PROVE Level(p) \in Levels
  OBVIOUS
<1>1. Subs[p] \in Seq(Dirs \X Names)
  BY TreeAssumption
<1> QED BY <1>1, LenProperties DEF Level, Levels

\* Counting one level of a walk up.
LEMMA AdvanceFacts ==
  ASSUME NEW q \in Seq(Levels), NEW k \in 1..Len(q)
  PROVE  LET r == [q EXCEPT ![k].i = @ + 1] IN
         /\ r \in Seq(Levels) /\ Len(r) = Len(q) /\ r[k].i = q[k].i + 1
         /\ \A j \in 1..Len(q) : r[j].of = q[j].of /\ (j # k => r[j] = q[j])
<1> DEFINE e == [q[k] EXCEPT !.i = @ + 1]
<1>1. q[k] \in Levels
  BY ElementOfSeq
<1>2. e \in Levels /\ e.of = q[k].of /\ e.i = q[k].i + 1
  BY <1>1, SMTT(30) DEF Levels
<1>3. [q EXCEPT ![k].i = @ + 1] = [q EXCEPT ![k] = e]
  OBVIOUS
<1> HIDE DEF e
<1> DEFINE r == [q EXCEPT ![k] = e]
<1>4. /\ r \in Seq(Levels) /\ Len(r) = Len(q)
      /\ \A j \in 1 .. Len(q) : r[j] = IF j = k THEN e ELSE q[j]
  BY <1>2, ExceptSeq
<1> HIDE DEF r
<1>5. /\ r[k].i = q[k].i + 1
      /\ \A j \in 1..Len(q) : r[j].of = q[j].of /\ (j # k => r[j] = q[j])
  BY <1>2, <1>4
<1> QED BY <1>3, <1>4, <1>5 DEF r

\* During a walk a project with a name is open.
LEMMA WalkPlaced ==
  ASSUME TreeInv, Walking
  PROVE  /\ ide \in Ide /\ Placed(ide) /\ Owned(ide) /\ ide.project_name # NONE
         /\ at \in Seq(Levels) /\ at # <<>> /\ Len(at) \in Nat \ {0} /\ Last(at) = at[Len(at)]
         /\ Len(ide.stack) \in Nat /\ (ide.stack = <<>> <=> Len(ide.stack) = 0)
         /\ DOMAIN ide.stack = 1..Len(ide.stack) /\ mode # "off" /\ mode # "idle"
         /\ Len(at) >= Len(ide.stack) + 1
         /\ mode # "clean" => Len(at) = Len(ide.stack) + 1
         /\ odd \subseteq Odds
<1> USE DEF TreeInv, Typed
<1>1. mode \in {"make", "clean", "spec"}
  BY DEF Walking
<1>2. Placed(ide) /\ ide.project_name # NONE
  BY <1>1 DEF InPlace, Walking
<1>3. ide.stack \in Seq(Entry)
  BY DEF Ide
<1>4. Len(ide.stack) \in Nat /\ DOMAIN ide.stack = 1..Len(ide.stack)
      /\ (ide.stack = <<>> <=> Len(ide.stack) = 0)
  BY <1>3, LenProperties, EmptyLen
<1>5. Len(at) >= Len(ide.stack) + 1 /\ (mode # "clean" => Len(at) = Len(ide.stack) + 1)
  <2>1. mode # "clean" => Len(at) = Len(ide.stack) + 1
    BY <1>1 DEF Lengths
  <2>2. mode = "clean" => Len(at) >= Len(ide.stack) + 1
    BY DEF Lengths
  <2> QED BY <1>4, <2>1, <2>2
<1>6. Len(at) \in Nat /\ (at = <<>> <=> Len(at) = 0)
  BY LenProperties, EmptyLen
<1> QED BY <1>1, <1>2, <1>4, <1>5, <1>6 DEF Last

\* The next sub-project is an item of the project that is walked.
LEMMA SubFacts ==
  ASSUME TreeInv, HasSub
  PROVE  /\ Walking /\ Sub \in Dirs \X Names
         /\ Sub \in Range(Subs[IF mode = "make" THEN Last(at).of ELSE ide.project.of])
<1>1. Walking /\ Top.i <= Len(Items)
  BY DEF HasSub
<1>2. /\ at \in Seq(Levels) /\ Len(at) \in Nat \ {0} /\ Top = at[Len(at)]
      /\ ide.project \in Project
  BY <1>1, WalkPlaced DEF Top, Placed, Ide
<1>3. Top \in Levels
  BY <1>2, ElementOfSeq
<1>4. Items \in Seq(Dirs \X Names)
  BY <1>2, <1>3, TreeAssumption DEF Items, Levels, Project
<1>5. Items = Subs[IF mode = "make" THEN Last(at).of ELSE ide.project.of]
  BY DEF Items, Top
<1>6. Top.i \in 1..Len(Items)
  BY <1>1, <1>3, <1>4, LenProperties DEF Levels
<1>7. Items[Top.i] \in Dirs \X Names /\ Items[Top.i] \in Range(Items)
  BY <1>4, <1>6, ElementOfSeq, LenProperties DEF Range
<1> QED BY <1>1, <1>5, <1>7 DEF Sub

\* Going on to the next item keeps the projects of the levels.
LEMMA Next1Facts ==
  ASSUME TreeInv, Walking
  PROVE  /\ Next1 \in Seq(Levels) /\ Len(Next1) = Len(at) /\ Len(Next1) >= 1
         /\ \A k \in 1..Len(at) : Next1[k].of = at[k].of
<1>1. at \in Seq(Levels) /\ Len(at) \in 1..Len(at) /\ Len(at) \in Nat \ {0}
  BY WalkPlaced
<1> QED BY <1>1, AdvanceFacts DEF Next1

\* A walk begins in the current project.
LEMMA BeginIs ==
  ASSUME TreeInv, NEW walk \in {"make", "clean", "spec"}, Begin(walk)
  PROVE  StepStay
<1> USE DEF TreeInv, Typed
<1>1. /\ mode = "idle" /\ mode' = walk /\ at' = <<Level(ide.project.of)>> /\ ide' = ide
      /\ newest' = newest /\ odd' = odd /\ ide.project_name # NONE
  BY DEF Begin
<1>2. Level(ide.project.of) \in Levels
  BY <1>1, LevelTyped DEF InPlace, Placed, Ide, Project
<1>3. <<Level(ide.project.of)>> \in Seq(Levels)
  BY <1>2
<1> QED BY <1>1, <1>3 DEF StepStay, StepTyped, Keeps

\* Passing an item changes nothing that is open.
LEMMA StayIs ==
  ASSUME TreeInv, Walking, ide' = ide, at' = Next1, mode' = mode, newest' = newest, odd' = odd
  PROVE  StepStay
BY WalkPlaced, Next1Facts DEF StepStay, StepTyped, Keeps

\* adding to PRJSTACK and saving, before a sub-project is entered
LEMMA SavedIs ==
  ASSUME TreeInv, Walking
  PROVE  LET s == Saved(AddToStack(ide)) IN
         /\ s \in Ide /\ Keeps(ide, s, {"disk", "gdt", "PRJSTACK"}) /\ Placed(s) /\ Owned(s)
         /\ s.PRJSTACK = Append(ide.PRJSTACK, <<ide.cwd, ide.project_name>>)
         /\ IF mode = "make" THEN Flushes(ide, s) ELSE s = AddToStack(ide)
         /\ mode # "make" => RemoveFromStack(s) = ide
<1> DEFINE a == AddToStack(ide)
           s == Saved(a)
<1>0. ide \in Ide /\ Placed(ide) /\ Owned(ide) /\ ide.project_name # NONE
  BY WalkPlaced
<1>1. /\ a \in Ide /\ Keeps(ide, a, {"PRJSTACK"}) /\ RemoveFromStack(a) = ide
      /\ a.PRJSTACK = Append(ide.PRJSTACK, <<ide.cwd, ide.project_name>>)
  BY <1>0, AddFields
<1> HIDE DEF a
<1>2. /\ a.cwd = ide.cwd /\ a.dirs = ide.dirs /\ a.only = ide.only /\ a.stack = ide.stack
      /\ a.project = ide.project /\ a.project_name = ide.project_name
      /\ a.project_directory = ide.project_directory /\ a.disk = ide.disk /\ a.gdt = ide.gdt
      /\ a.dskname = ide.dskname /\ a.desk = ide.desk
  BY <1>0, <1>1, KeepsFields
<1>3. Placed(a) /\ Owned(a)
  BY <1>0, <1>2 DEF Placed, Owned
<1>4. CASE mode = "make"
  <2>1. s = SaveIfWanted(a)
    BY <1>4 DEF Saved
  <2> HIDE DEF s
  <2>2. s \in Ide /\ Keeps(a, s, {"disk", "gdt"}) /\ Flushes(a, s) /\ Placed(s) /\ Owned(s)
    BY <1>1, <1>3, <2>1, SaveFlushes
  <2>3. Flushes(ide, s)
    BY <1>2, <2>2, FlushesFrame
  <2>4. s.PRJSTACK = a.PRJSTACK
    BY <1>1, <2>2, KeepsFields
  <2>5. Keeps(ide, s, {"disk", "gdt", "PRJSTACK"})
    BY <1>0, <1>1, <2>2, KeepsMore
  <2> QED BY <1>1, <1>4, <2>2, <2>3, <2>4, <2>5 DEF s, a
<1>5. CASE mode # "make"
  <2>1. s = a
    BY <1>5 DEF Saved
  <2>2. Keeps(ide, a, {"disk", "gdt", "PRJSTACK"})
    BY <1>1 DEF Keeps
  <2> QED BY <1>1, <1>3, <1>5, <2>1, <2>2 DEF a
<1> QED BY <1>4, <1>5

\* Enter pushes the sub-project.
LEMMA EnterIs == ASSUME TreeInv, Enter PROVE StepPush
<1> DEFINE s == Saved(AddToStack(ide))
           t == _PushProject(s, Sub)
           e == [pname |-> ide.project_name, dname |-> ide.cwd, project |-> ide.project]
<1>1. /\ HasSub /\ CanPush(s, Sub) /\ ide' = t /\ at' = Append(at, Level(t.project.of))
      /\ mode' = mode /\ newest' = newest /\ odd' = odd
  BY DEF Enter
<1>2. /\ Walking /\ Sub \in Dirs \X Names
      /\ Sub \in Range(Subs[IF mode = "make" THEN Last(at).of ELSE ide.project.of])
  BY <1>1, SubFacts
<1>3. /\ ide \in Ide /\ ide.project_name # NONE /\ at \in Seq(Levels) /\ odd \subseteq Odds
  BY <1>2, WalkPlaced
<1>4. /\ s \in Ide /\ Keeps(ide, s, {"disk", "gdt", "PRJSTACK"}) /\ Placed(s) /\ Owned(s)
      /\ s.PRJSTACK = Append(ide.PRJSTACK, <<ide.cwd, ide.project_name>>)
      /\ IF mode = "make" THEN Flushes(ide, s) ELSE s = AddToStack(ide)
  BY <1>2, SavedIs
<1>5. mode # "make" => s.disk = ide.disk /\ s.gdt = ide.gdt
  <2>1. Keeps(ide, AddToStack(ide), {"PRJSTACK"})
    BY <1>3, AddFields
  <2> QED BY <1>3, <1>4, <2>1, KeepsFields
<1> HIDE DEF s
<1>6. /\ s.cwd = ide.cwd /\ s.dirs = ide.dirs /\ s.stack = ide.stack /\ s.env = ide.env
      /\ s.project = ide.project /\ s.project_name = ide.project_name
  BY <1>3, <1>4, KeepsFields
<1>7. /\ t \in Ide /\ Keeps(s, t, WalkFields) /\ Placed(t)
      /\ t.stack = Append(s.stack, [pname |-> s.project_name, dname |-> s.cwd,
                                    project |-> s.project])
      /\ [pname |-> s.project_name, dname |-> s.cwd, project |-> s.project] \in Entry
      /\ Sub[1] \in s.dirs => t.cwd = Sub[1]
      /\ t.cwd \in Dirs /\ t.project_name = Sub[2] /\ t.project = s.disk[<<t.cwd, Sub[2]>>]
      /\ t.project.of = <<t.cwd, Sub[2]>>
      /\ Pushed(s.env, t.cwd, t.env)
  BY <1>1, <1>2, <1>3, <1>4, <1>6, PushFields
<1> HIDE DEF t
<1>8. t.disk = s.disk /\ t.gdt = s.gdt /\ t.PRJSTACK = s.PRJSTACK
  <2>1. s \in Ide /\ Keeps(s, t, WalkFields)
    BY <1>4, <1>7
  <2>2. "disk" \notin WalkFields /\ "gdt" \notin WalkFields /\ "PRJSTACK" \notin WalkFields
    BY DEF WalkFields
  <2> QED BY ONLY <2>1, <2>2, KeepsFields
<1>9. IF mode = "make" THEN Flushes(ide, t) ELSE t.disk = ide.disk /\ t.gdt = ide.gdt
  <2>1. CASE mode = "make"
    <3>1. Flushes(ide, s)
      BY <1>4, <2>1
    <3>2. Flushes(ide, t)
      BY <1>8, <3>1 DEF Flushes, Writes
    <3> QED BY <2>1, <3>2
  <2>2. CASE mode # "make"
    BY <1>5, <1>8, <2>2
  <2> QED BY <2>1, <2>2
<1>10. Keeps(ide, t, StepFields)
  BY <1>3, <1>4, <1>7, KeepsMore DEF StepFields
<1>11. <<ide.cwd, ide.project_name>> \in Dirs \X Names
  BY <1>3 DEF Ide
<1>12. <<t.cwd, Sub[2]>> \in Path /\ Sub[2] # NONE /\ Sub = <<Sub[1], Sub[2]>> /\ Sub[1] \in Dirs
  BY <1>2, <1>7, Paths, TreeAssumption
<1>13. Level(t.project.of) \in Levels
  BY <1>7, <1>12, LevelTyped
<1>14. Append(at, Level(t.project.of)) \in Seq(Levels)
  BY <1>3, <1>13, AppendProperties
<1>15. ide.dirs = Dirs => t.project.of = Sub
  BY <1>6, <1>7, <1>12
<1>16. StepTyped
  BY <1>1, <1>3, <1>7, <1>14 DEF StepTyped
<1>17. t.project = t.disk[t.project.of]
  BY <1>7, <1>8
<1>18. /\ t.stack = Append(ide.stack, e) /\ e \in Entry
       /\ t.PRJSTACK = Append(ide.PRJSTACK, <<ide.cwd, ide.project_name>>)
       /\ Pushed(ide.env, t.cwd, t.env) /\ t.project_name # NONE
  BY <1>4, <1>6, <1>7, <1>8, <1>12
<1> QED BY <1>1, <1>2, <1>7, <1>9, <1>10, <1>11, <1>13, <1>15, <1>16, <1>17, <1>18 DEF StepPush

\* A make that fails inside a sub-project resets the stack.
LEMMA AbortIs ==
  ASSUME TreeInv, mode = "make", NEW s \in Ide, Keeps(ide, s, {"disk", "gdt", "PRJSTACK"}),
         Writes(ide, s), Placed(s), Owned(s), Abort(s)
  PROVE  StepReset
<1>0. Walking /\ ide \in Ide /\ ide.project_name # NONE /\ odd \subseteq Odds /\ Placed(ide)
  BY WalkPlaced DEF Walking
<1>1. PICK cleared \in BOOLEAN :
        /\ Over(ResetProjectStack(s, cleared))
        /\ odd' = odd \cup (IF cleared THEN {} ELSE {"refuse"})
                      \cup (IF s.stack = <<>> THEN {} ELSE {"cancelled"})
  BY DEF Abort
<1> DEFINE u == ResetProjectStack(s, cleared)
           r == SaveIfWanted(u)
           g == <<ide.cwd, ide.project_name>>
<1>2. ide' = r /\ mode' = "idle" /\ at' = <<>> /\ newest' = newest
  BY <1>1 DEF Over
<1>3. /\ s.cwd = ide.cwd /\ s.project = ide.project /\ s.project_name = ide.project_name
      /\ s.stack = ide.stack /\ s.dirs = ide.dirs /\ s.project_directory = ide.project_directory
  BY <1>0, KeepsFields
<1>4. g = ide.project.of
  BY <1>0 DEF Placed
<1>5. /\ u \in Ide /\ Keeps(s, u, {"stack", "desk", "dskname", "applied"})
      /\ u.stack = <<>> /\ u.dskname = ide.project_name /\ u.applied = ide.project.of
      /\ cleared => \/ u.desk = {}
                    \/ s.gdt[g] # NONE /\ u.desk = s.gdt[g]
  BY <1>0, <1>3, ResetFields, ZenonT(60) DEF Placed
<1> HIDE DEF u, g
<1>6. /\ u.cwd = ide.cwd /\ u.project = ide.project /\ u.project_name = ide.project_name
      /\ u.disk = s.disk /\ u.gdt = s.gdt /\ u.dirs = ide.dirs
      /\ u.project_directory = ide.project_directory
  BY <1>3, <1>5, KeepsFields
<1>7. Placed(u) /\ Owned(u)
  BY <1>0, <1>6 DEF Placed, Owned
<1>8. r \in Ide /\ Keeps(u, r, {"disk", "gdt"}) /\ Writes(u, r)
  BY <1>5, <1>7, SaveFlushes DEF Flushes
<1> HIDE DEF r
<1>9. /\ r.stack = <<>> /\ r.dskname = ide.project_name /\ r.applied = ide.project.of
      /\ r.desk = u.desk
  BY <1>5, <1>8, KeepsFields
<1>10. Keeps(ide, r, {"disk", "gdt", "PRJSTACK", "stack", "desk", "dskname", "applied"})
  <2>1. Keeps(ide, u, {"disk", "gdt", "PRJSTACK", "stack", "desk", "dskname", "applied"})
    BY <1>0, <1>5, KeepsMore
  <2> QED BY <1>0, <1>5, <1>8, <2>1, KeepsMore
<1>11. \A f \in Path : \/ r.disk[f] = ide.disk[f]
                       \/ f = ide.project.of /\ r.disk[f] = ide.project
  BY <1>6, <1>8 DEF Writes
<1>12. Here(u, u.dskname) = g
  <2>1. ide.project_name \in Names /\ ide.project_name # StdName
    BY <1>0, TreeAssumption DEF Ide
  <2> QED BY <1>5, <1>6, <2>1 DEF Here, g
<1>13. \A f \in Path : \/ r.gdt[f] = s.gdt[f]
                       \/ f = ide.project.of /\ r.gdt[f] = r.desk
  BY <1>4, <1>6, <1>8, <1>9, <1>12 DEF Writes
<1>14. "refuse" \notin odd' => \/ r.desk = {}
                               \/ s.gdt[ide.project.of] # NONE /\ r.desk = s.gdt[ide.project.of]
  BY <1>1, <1>4, <1>5, <1>9
<1>15. StepTyped
  BY <1>0, <1>1, <1>2, <1>8, EmptySeq DEF StepTyped, Odds
<1>16. ide.stack # <<>> => "cancelled" \in odd'
  BY <1>1, <1>3
<1> QED BY <1>2, <1>9, <1>10, <1>11, <1>13, <1>14, <1>15, <1>16 DEF StepReset

\* A make that ends saves.
LEMMA StoreEnds ==
  ASSUME TreeInv, Walking, ide.stack = <<>>, Over(ide), odd' = odd
  PROVE  StepStore
<1>1. mode # "off" /\ mode' = "idle" /\ at' = <<>> /\ newest' = newest /\ ide' = SaveIfWanted(ide)
  BY DEF Over, Walking
<1> QED BY <1>1, StoreIs

\* A failed compilation ends the make or resets the stack.
LEMMA CompileFailsIs == ASSUME TreeInv, CompileFails PROVE StepStore \/ StepReset
<1>1. mode = "make" /\ Walking
  BY DEF CompileFails, Walking
<1>2. CASE Len(at) = 1
  <2>1. ide.stack = <<>>
    BY <1>1, <1>2, WalkPlaced
  <2> QED BY <1>1, <1>2, <2>1, StoreEnds DEF CompileFails
<1>3. CASE Len(at) # 1
  <2>1. Abort(ide)
    BY <1>3 DEF CompileFails
  <2> QED BY <1>1, <2>1, WalkPlaced, AbortIs DEF Keeps, Writes
<1> QED BY <1>2, <1>3

\* the stack is popped and PRJSTACK with it
LEMMA PopIs ==
  ASSUME TreeInv, Walking, ide.stack # <<>>, mode' = mode, newest' = newest, odd' = odd,
         NEW s \in Ide, Keeps(ide, s, {"disk", "gdt", "PRJSTACK"}),
         IF mode = "make" THEN Flushes(ide, s) ELSE s.disk = ide.disk /\ s.gdt = ide.gdt,
         mode = "make" => s.PRJSTACK = ide.PRJSTACK,
         ide' = RemoveFromStack(_PopProject(s)), at' \in Seq(Levels),
         \/ mode = "clean" /\ Len(at') = Len(at)
         \/ /\ Len(at') = Len(at) - 1
            /\ \A k \in 1..(Len(at) - 1) : at'[k].of = at[k].of
  PROVE  StepPop
<1> DEFINE p == _PopProject(s)
           r == RemoveFromStack(p)
           e == Last(ide.stack)
<1>1. ide \in Ide /\ odd \subseteq Odds
  BY WalkPlaced
<1>2. /\ s.cwd = ide.cwd /\ s.dirs = ide.dirs /\ s.stack = ide.stack /\ s.env = ide.env
  BY <1>1, KeepsFields
<1>3. e.dname \in ide.dirs
  <2>1. ide.stack \in Seq(Entry)
    BY <1>1 DEF Ide
  <2>2. Len(ide.stack) \in DOMAIN ide.stack /\ e = ide.stack[Len(ide.stack)]
    <3>1. ide.stack # <<>> /\ e = Last(ide.stack)
      OBVIOUS
    <3> HIDE DEF e
    <3>2. Last(ide.stack) = ide.stack[Len(ide.stack)] /\ Len(ide.stack) \in Nat \ {0}
          /\ DOMAIN ide.stack = 1..Len(ide.stack)
      BY ONLY <2>1, <3>1, FrontFacts, LenProperties
    <3> QED BY <3>1, <3>2
  <2> HIDE DEF e
  <2> QED BY <2>2 DEF TreeInv, InPlace
<1>4. /\ p \in Ide /\ Keeps(s, p, WalkFields)
      /\ p.stack = Front(s.stack) /\ p.cwd = e.dname /\ p.project_directory = e.dname
      /\ p.project_name = e.pname /\ p.project = e.project
      /\ Popped(s.env, s.cwd, p.env)
  BY <1>2, <1>3, PopFields
<1> HIDE DEF p, e
<1>5. p.disk = s.disk /\ p.gdt = s.gdt /\ p.PRJSTACK = s.PRJSTACK
  <2>1. s \in Ide /\ Keeps(s, p, WalkFields)
    BY <1>4
  <2>2. "disk" \notin WalkFields /\ "gdt" \notin WalkFields /\ "PRJSTACK" \notin WalkFields
    BY DEF WalkFields
  <2> QED BY ONLY <2>1, <2>2, KeepsFields
<1>6. /\ r \in Ide /\ Keeps(p, r, {"PRJSTACK"})
      /\ p.PRJSTACK # <<>> => r.PRJSTACK = Front(p.PRJSTACK)
  BY <1>4, AddFields
<1>10. ide' = r
  BY DEF p
<1> HIDE DEF r
<1>7. /\ r.stack = Front(s.stack) /\ r.cwd = e.dname /\ r.project_directory = e.dname
      /\ r.project_name = e.pname /\ r.project = e.project /\ r.env = p.env
      /\ r.disk = s.disk /\ r.gdt = s.gdt
  BY <1>4, <1>5, <1>6, KeepsFields
<1>8. Keeps(ide, r, StepFields)
  <2>1. Keeps(ide, p, StepFields)
    BY <1>1, <1>4, KeepsMore DEF StepFields
  <2> QED BY <1>1, <1>4, <1>6, <2>1, KeepsMore DEF StepFields
<1>9. IF mode = "make" THEN Flushes(ide, r) ELSE r.disk = ide.disk /\ r.gdt = ide.gdt
  <2>1. CASE mode = "make"
    <3>1. Flushes(ide, s)
      BY <2>1
    <3>2. Flushes(ide, r)
      BY <1>7, <3>1 DEF Flushes, Writes
    <3> QED BY <2>1, <3>2
  <2>2. CASE mode # "make"
    BY <1>7, <2>2
  <2> QED BY <2>1, <2>2
<1>11. StepTyped
  BY <1>1, <1>6, <1>10 DEF StepTyped
<1>12. mode = "make" /\ ide.PRJSTACK # <<>> => r.PRJSTACK = Front(ide.PRJSTACK)
  BY <1>5, <1>6
<1> QED BY <1>2, <1>4, <1>7, <1>8, <1>9, <1>10, <1>11, <1>12 DEF StepPop, e

\* Leave pops the sub-project.
LEMMA LeaveIs == ASSUME TreeInv, Leave PROVE StepPop \/ StepStay
<1> DEFINE up == Front(at)
           next == [up EXCEPT ![Len(up)].i = @ + 1]
           s == IF mode = "make" THEN SaveIfWanted(ide) ELSE ide
<1>1. /\ Walking /\ Len(at) > 1 /\ mode' = mode /\ newest' = newest /\ odd' = odd /\ at' = next
      /\ ide' = RemoveFromStack(IF mode = "make" THEN PopProject(ide) ELSE _PopProject(ide))
  BY DEF Leave
<1>2. /\ ide \in Ide /\ Placed(ide) /\ Owned(ide) /\ at \in Seq(Levels) /\ at # <<>>
      /\ Len(at) \in Nat \ {0} /\ odd \subseteq Odds
  BY <1>1, WalkPlaced
<1>3. /\ up \in Seq(Levels) /\ Len(up) = Len(at) - 1
      /\ \A k \in 1..(Len(at) - 1) : up[k] = at[k]
  BY <1>2, FrontFacts
<1>4. Len(up) \in 1..Len(up)
  BY <1>1, <1>2, <1>3
<1> HIDE DEF up
<1>5. /\ next \in Seq(Levels) /\ Len(next) = Len(up)
      /\ \A k \in 1..Len(up) : next[k].of = up[k].of
  BY <1>3, <1>4, AdvanceFacts
<1> HIDE DEF next
<1>6. /\ Len(at') = Len(at) - 1 /\ at' \in Seq(Levels)
      /\ \A k \in 1..(Len(at) - 1) : at'[k].of = at[k].of
  BY <1>1, <1>3, <1>5
<1>7. CASE ide.stack = <<>>
  <2>1. mode = "clean" /\ ide' = RemoveFromStack(ide)
    BY <1>1, <1>7, WalkPlaced DEF _PopProject
  <2>2. ide' \in Ide /\ Keeps(ide, ide', {"PRJSTACK"})
    BY <1>2, <2>1, AddFields
  <2>3. Len(at') >= 1
    BY <1>1, <1>2, <1>6
  <2> QED BY <1>1, <1>2, <1>6, <1>7, <2>1, <2>2, <2>3 DEF StepStay, StepTyped
<1>8. CASE ide.stack # <<>>
  <2>1. ide' = RemoveFromStack(_PopProject(s))
    BY <1>1 DEF PopProject
  <2>2. SaveIfWanted(ide) \in Ide /\ Keeps(ide, SaveIfWanted(ide), {"disk", "gdt"})
        /\ Flushes(ide, SaveIfWanted(ide))
    BY <1>2, SaveFlushes
  <2>3. s \in Ide /\ Keeps(ide, s, {"disk", "gdt"})
        /\ IF mode = "make" THEN Flushes(ide, s) ELSE s.disk = ide.disk /\ s.gdt = ide.gdt
    BY <1>2, <2>2 DEF Keeps
  <2> HIDE DEF s
  <2>4. Keeps(ide, s, {"disk", "gdt", "PRJSTACK"}) /\ s.PRJSTACK = ide.PRJSTACK
    BY <1>2, <2>3, KeepsFields DEF Keeps
  <2> QED BY <1>1, <1>6, <1>8, <2>1, <2>3, <2>4, PopIs
<1> QED BY <1>7, <1>8

\* A sub-project that cannot be read aborts a make; a clean pops a level
\* more than it pushed, an expansion goes on.
LEMMA EnterFailsIs == ASSUME TreeInv, EnterFails PROVE StepReset \/ StepPop \/ StepStay
<1> DEFINE s == Saved(AddToStack(ide))
<1>1. /\ HasSub
      /\ \/ mode = "make" /\ Abort(s)
         \/ /\ mode = "spec" /\ ide' = RemoveFromStack(s) /\ at' = Next1
            /\ UNCHANGED <<mode, newest, odd>>
         \/ /\ mode = "clean" /\ ide' = RemoveFromStack(_PopProject(s)) /\ at' = Next1
            /\ UNCHANGED <<mode, newest, odd>>
  BY DEF EnterFails
<1>2. Walking
  BY <1>1, SubFacts
<1>3. /\ s \in Ide /\ Keeps(ide, s, {"disk", "gdt", "PRJSTACK"}) /\ Placed(s) /\ Owned(s)
      /\ IF mode = "make" THEN Flushes(ide, s) ELSE s = AddToStack(ide)
      /\ mode # "make" => RemoveFromStack(s) = ide
  BY <1>2, SavedIs
<1>4. mode # "make" => s.disk = ide.disk /\ s.gdt = ide.gdt /\ s.stack = ide.stack
  <2>1. ide \in Ide /\ Keeps(ide, AddToStack(ide), {"PRJSTACK"})
    BY <1>2, WalkPlaced, AddFields
  <2> QED BY <1>3, <2>1, KeepsFields
<1> HIDE DEF s
<1>5. CASE mode = "make"
  <2>1. Abort(s) /\ Flushes(ide, s)
    BY <1>1, <1>3, <1>5
  <2>2. Writes(ide, s)
    BY <2>1 DEF Flushes
  <2> QED BY <1>3, <1>5, <2>1, <2>2, AbortIs
<1>6. CASE mode # "make" /\ (mode = "spec" \/ ide.stack = <<>>)
  <2>1. mode' = mode /\ newest' = newest /\ odd' = odd /\ at' = Next1
    BY <1>1, <1>6
  <2>2. _PopProject(s) = s \/ mode = "spec"
    BY <1>4, <1>6 DEF _PopProject
  <2>3. ide' = ide
    BY <1>1, <1>3, <1>6, <2>2
  <2> QED BY <1>2, <2>1, <2>3, StayIs
<1>7. CASE mode # "make" /\ mode # "spec" /\ ide.stack # <<>>
  <2>1. /\ mode = "clean" /\ mode' = mode /\ newest' = newest /\ odd' = odd /\ at' = Next1
        /\ ide' = RemoveFromStack(_PopProject(s))
    BY <1>1, <1>7
  <2>2. at' \in Seq(Levels) /\ Len(at') = Len(at)
    BY <1>2, <2>1, Next1Facts
  <2> QED BY <1>2, <1>3, <1>4, <1>7, <2>1, <2>2, PopIs
<1> QED BY <1>5, <1>6, <1>7

\* A finished walk leaves what is open, and a make saves it.
LEMMA FinishIs == ASSUME TreeInv, Finish PROVE StepStore
<1>1. /\ Walking /\ Len(at) = 1 /\ mode' = "idle" /\ at' = <<>> /\ newest' = newest
      /\ odd' = odd /\ ide' \in {ide, SaveIfWanted(ide)}
  BY DEF Finish
<1>2. ide.stack = <<>> /\ mode # "off"
  BY <1>1, WalkPlaced
<1> QED BY <1>1, <1>2, StoreIs

\* Calling the shell saves.
LEMMA ShellIs == ASSUME TreeInv, DosShell PROVE StepStore
<1>1. /\ mode = "idle" /\ mode' = mode /\ at' = at /\ newest' = newest /\ odd' = odd
      /\ ide' = SaveIfWanted(ide)
  BY DEF DosShell
<1> QED BY <1>1, IdlePlaced, StoreIs

\* Going back to the project directory.
LEMMA BackIs == ASSUME TreeInv, BackToDirectory PROVE StepTyped /\ BackToDirectory
BY ChdirFields DEF TreeInv, Typed, StepTyped, BackToDirectory

\* every step is of one of the kinds, and keeps the invariant
LEMMA NextIs == ASSUME TreeInv, [Next]_vars PROVE StepKinds /\ TreeInv'
<1>1. StepKinds
  <2>1. ASSUME NEW d \in StartDirs, NEW f \in Given \cup {NONE}, Start(d, f) PROVE StepKinds
    BY <2>1, StartIs DEF StepKinds
  <2>2. ASSUME NEW f \in Chosen, cmOpenProject(f) PROVE StepKinds
    BY <2>2, OpenIs DEF StepKinds
  <2>3. ASSUME NEW walk \in {"make", "clean", "spec"}, Begin(walk) PROVE StepKinds
    BY <2>3, BeginIs DEF StepKinds
  <2>4. CASE cmCloseProject  BY <2>4, CloseIs DEF StepKinds
  <2>5. CASE cmSelectProject BY <2>5, SelectIs DEF StepKinds
  <2>6. CASE cmQuit BY <2>6, QuitIs DEF StepKinds
  <2>7. CASE Crash BY <2>7, CrashIs DEF StepKinds
  <2>8. CASE Work BY <2>8, WorkIs DEF StepKinds
  <2>9. CASE DosShell BY <2>9, ShellIs DEF StepKinds
  <2>10. CASE BackToDirectory BY <2>10, BackIs DEF StepKinds
  <2>11. CASE WalkStep
    <3>1. CASE Enter BY <3>1, EnterIs DEF StepKinds
    <3>2. CASE EnterFails BY <3>2, EnterFailsIs DEF StepKinds
    <3>3. CASE CompileFails BY <3>3, CompileFailsIs DEF StepKinds
    <3>4. CASE LeaveAlone
      <4>1. /\ Walking /\ ide' = ide /\ at' = Next1 /\ mode' = mode /\ newest' = newest
            /\ odd' = odd
        BY <3>4 DEF LeaveAlone, HasSub
      <4> QED BY <4>1, StayIs DEF StepKinds
    <3>5. CASE Leave BY <3>5, LeaveIs DEF StepKinds
    <3>6. CASE Finish BY <3>6, FinishIs DEF StepKinds
    <3> QED BY <2>11, <3>1, <3>2, <3>3, <3>4, <3>5, <3>6 DEF WalkStep
  <2>12. CASE UNCHANGED vars BY <2>12 DEF StepKinds
  <2> QED BY <2>1, <2>2, <2>3, <2>4, <2>5, <2>6, <2>7, <2>8, <2>9, <2>10, <2>11, <2>12 DEF Next
<1> QED BY <1>1, KindsTree

\* The invariant holds at the start.
LEMMA TreeInit == Init => TreeInv
<1> SUFFICES ASSUME Init PROVE TreeInv
  OBVIOUS
<1>1. PICK w \in Worlds :
        ide = [cwd |-> StdDir, dirs |-> Dirs \ w.gone, only |-> w.only,
                 project |-> NONE, project_name |-> NONE,
                 standard_project_name |-> NONE, dskname |-> NONE,
                 project_directory |-> NONE, stack |-> <<>>, PRJSTACK |-> <<>>,
                 env |-> NoVars, applied |-> NONE,
                 desk |-> {},
                 disk |-> [f \in Path |-> IF f[1] \in Dirs \ w.gone /\ f \notin w.missing
                                          THEN [of |-> f, ver |-> 0] ELSE NONE],
                 gdt |-> [f \in Path |-> NONE]]
  BY DEF Init
<1>2. w.gone \subseteq Dirs \ {StdDir} /\ w.only \in BOOLEAN /\ StdDir \in Dirs
  BY TreeAssumption
<1>3. [f \in Path |-> IF f[1] \in Dirs \ w.gone /\ f \notin w.missing
                      THEN [of |-> f, ver |-> 0] ELSE NONE] \in [Path -> Project \cup {NONE}]
  BY DEF Project
<1>4. NoVars \in [Vars -> Seq(Value)] /\ <<>> \in Seq(Entry) /\ <<>> \in Seq(Dirs \X Names)
      /\ <<>> \in Seq(Levels)
  BY EmptySeq DEF NoVars
<1>5. [f \in Path |-> NONE] \in [Path -> (SUBSET Path) \cup {NONE}]
  OBVIOUS
<1>6. ide \in Ide
  BY <1>1, <1>2, <1>3, <1>4, <1>5 DEF Ide
<1>7. Typed
  BY <1>4, <1>6 DEF Init, Typed
<1>8. Owned(ide)
  BY <1>1 DEF Owned
<1>9. mode = "off" /\ at = <<>>
  BY DEF Init
<1>10. DOMAIN ide.stack = {} /\ ide.stack = <<>>
  BY <1>1
<1>11. InPlace
  BY <1>1, <1>2, <1>9, <1>10 DEF InPlace, Walking
<1>12. Lengths
  BY <1>9, <1>10 DEF Lengths
<1> QED BY <1>7, <1>8, <1>11, <1>12 DEF TreeInv

\* And so it always holds.
LEMMA TreeAlways == Spec => []TreeInv
<1>1. TreeInv /\ [Next]_vars => TreeInv'
  BY NextIs
<1> QED BY <1>1, TreeInit, PTL DEF Spec

----------------------------------------------------------------------------
(* Options, desktops and versions follow the project the user works in *)

RootProject(s) == IF s.stack = <<>> THEN s.project ELSE s.stack[1].project
RootName(s) == IF s.stack = <<>> THEN DskOf(s) ELSE s.stack[1].pname

\* Opening a project happens outside walks.
LEMMA OpenedStack ==
  ASSUME TreeInv, StepOpen
  PROVE  ide.stack = <<>> /\ ide'.stack = <<>> /\ ide' \in Ide /\ ide'.only = ide.only
         /\ ide'.dirs = ide.dirs
<1>1. PICK c \in Ide, strange \in SUBSET Hitches :
        Opens(c, ide', strange) /\ c.stack = ide.stack /\ c.only = ide.only /\ c.dirs = ide.dirs
  BY DEF StepOpen
<1>2. ide'.stack = c.stack /\ ide' \in Ide /\ ide'.only = c.only /\ ide'.dirs = c.dirs
  BY <1>1, KeepsFields DEF Opens, OpenedFields
<1>3. ide.stack = <<>>
  BY DEF StepOpen, TreeInv, Lengths
<1> QED BY <1>1, <1>2, <1>3

\* The stack has a length, and its entries are its domain.
LEMMA StackFacts ==
  ASSUME TreeInv
  PROVE  /\ ide \in Ide /\ ide.stack \in Seq(Entry) /\ Len(ide.stack) \in Nat
         /\ DOMAIN ide.stack = 1..Len(ide.stack) /\ (ide.stack = <<>> <=> Len(ide.stack) = 0)
<1>1. ide \in Ide /\ ide.stack \in Seq(Entry)
  BY DEF TreeInv, Typed, Ide
<1> QED BY <1>1, LenProperties, EmptyLen

\* A push adds one entry, the current project, and keeps the root.
LEMMA PushStack ==
  ASSUME TreeInv, StepPush
  PROVE  /\ Len(ide'.stack) = Len(ide.stack) + 1 /\ DOMAIN ide'.stack = 1..(Len(ide.stack) + 1)
         /\ \A k \in 1..Len(ide.stack) : ide'.stack[k] = ide.stack[k]
         /\ LET e == ide'.stack[Len(ide.stack) + 1] IN
              e.pname = ide.project_name /\ e.dname = ide.cwd /\ e.project = ide.project
         /\ ide'.stack # <<>>
         /\ RootProject(ide') = RootProject(ide) /\ RootName(ide') = RootName(ide)
<1> DEFINE e == [pname |-> ide.project_name, dname |-> ide.cwd, project |-> ide.project]
<1>1. ide'.stack = Append(ide.stack, e) /\ e \in Entry /\ ide.project_name # NONE
  BY WalkPlaced DEF StepPush
<1>2. e.pname = ide.project_name /\ e.dname = ide.cwd /\ e.project = ide.project
  OBVIOUS
<1> HIDE DEF e
<1>3. /\ ide.stack \in Seq(Entry) /\ Len(ide.stack) \in Nat
      /\ DOMAIN ide.stack = 1..Len(ide.stack) /\ (ide.stack = <<>> <=> Len(ide.stack) = 0)
  BY StackFacts
<1>4. /\ ide'.stack \in Seq(Entry) /\ Len(ide'.stack) = Len(ide.stack) + 1
      /\ \A k \in 1..Len(ide.stack) : ide'.stack[k] = ide.stack[k]
      /\ ide'.stack[Len(ide.stack) + 1] = e /\ ide'.stack # <<>>
  BY <1>1, <1>3, AppendProperties
<1>5. DOMAIN ide'.stack = 1..(Len(ide.stack) + 1)
  BY <1>4, LenProperties
<1>6. RootProject(ide') = RootProject(ide) /\ RootName(ide') = RootName(ide)
  BY <1>1, <1>2, <1>3, <1>4 DEF RootProject, RootName, DskOf
<1> QED BY <1>2, <1>4, <1>5, <1>6

\* A pop removes the last entry and keeps the root.
LEMMA PopStack ==
  ASSUME TreeInv, StepPop
  PROVE  /\ Len(ide.stack) \in Nat \ {0} /\ DOMAIN ide.stack = 1..Len(ide.stack)
         /\ Last(ide.stack) = ide.stack[Len(ide.stack)] /\ Last(ide.stack) \in Entry
         /\ Len(ide'.stack) = Len(ide.stack) - 1 /\ DOMAIN ide'.stack = 1..(Len(ide.stack) - 1)
         /\ \A k \in 1..(Len(ide.stack) - 1) : ide'.stack[k] = ide.stack[k]
         /\ RootProject(ide') = RootProject(ide) /\ RootName(ide') = RootName(ide)
<1>1. ide'.stack = Front(ide.stack) /\ ide.stack # <<>> /\ ide.stack \in Seq(Entry)
      /\ ide'.project = Last(ide.stack).project /\ ide'.project_name = Last(ide.stack).pname
  BY StackFacts DEF StepPop
<1>2. /\ ide'.stack \in Seq(Entry) /\ Len(ide'.stack) = Len(ide.stack) - 1
      /\ Len(ide.stack) \in Nat \ {0}
      /\ \A k \in 1..(Len(ide.stack) - 1) : ide'.stack[k] = ide.stack[k]
      /\ Last(ide.stack) = ide.stack[Len(ide.stack)] /\ Last(ide.stack) \in Entry
  BY ONLY <1>1, FrontFacts
<1>3. DOMAIN ide.stack = 1..Len(ide.stack) /\ DOMAIN ide'.stack = 1..(Len(ide.stack) - 1)
      /\ (ide'.stack = <<>> <=> Len(ide'.stack) = 0)
  BY <1>1, <1>2, LenProperties, EmptyLen
<1>4. Last(ide.stack).pname # NONE
  BY <1>2, TreeAssumption DEF Entry
<1>5. RootProject(ide') = RootProject(ide) /\ RootName(ide') = RootName(ide)
  <2>1. CASE Len(ide.stack) = 1
    BY <1>1, <1>2, <1>3, <1>4, <2>1 DEF RootProject, RootName, DskOf
  <2>2. CASE Len(ide.stack) # 1
    <3>1. ide'.stack # <<>> /\ 1 \in 1..(Len(ide.stack) - 1)
      BY <1>2, <1>3, <2>2
    <3> QED BY <1>1, <1>2, <3>1 DEF RootProject, RootName
  <2> QED BY <2>1, <2>2
<1> QED BY <1>2, <1>3, <1>5

\* Every step keeps the options those of the root project.
LEMMA OptionsNext ==
  ASSUME TreeInv, StepKinds, OptionsOfCurrent
  PROVE  OptionsOfCurrent'
<1> USE StackFacts
<1>0. OptionsOfCurrent = (mode # "off" => ide.applied = RootProject(ide).of)
      /\ OptionsOfCurrent' = (mode' # "off" => ide'.applied = RootProject(ide').of)
  BY DEF OptionsOfCurrent, RootProject
<1>1. CASE StepOpen
  <2>1. ide'.stack = <<>> /\ ide'.applied = ide'.project.of
    BY <1>1, OpenedStack DEF StepOpen, Opens
  <2> QED BY <2>1, <1>0 DEF RootProject
<1>2. CASE StepStore
  <2>1. ide'.applied = ide.applied /\ ide'.stack = ide.stack /\ ide'.project = ide.project
    BY <1>2, KeepsFields DEF StepStore
  <2> QED BY <2>1, <1>0, <1>2 DEF RootProject, StepStore
<1>3. CASE StepEnd
  BY <1>0, <1>3 DEF StepEnd
<1>4. CASE StepStay
  <2>1. ide'.applied = ide.applied /\ ide'.stack = ide.stack /\ ide'.project = ide.project
    BY <1>4, KeepsFields DEF StepStay
  <2> QED BY <2>1, <1>0, <1>4 DEF RootProject, StepStay
<1>5. CASE StepPush
  <2>1. ide'.applied = ide.applied
    BY <1>5, StepFieldsOut, KeepsFields DEF StepPush
  <2> QED BY <2>1, <1>0, <1>5, PushStack DEF StepPush
<1>6. CASE StepPop
  <2>1. ide'.applied = ide.applied
    BY <1>6, StepFieldsOut, KeepsFields DEF StepPop
  <2> QED BY <2>1, <1>0, <1>6, PopStack DEF StepPop
<1>7. CASE StepReset
  <2>1. ide'.project = ide.project /\ ide'.applied = ide.project.of /\ ide'.stack = <<>>
    BY <1>7, KeepsFields DEF StepReset
  <2> QED BY <2>1, <1>0 DEF RootProject
<1>8. CASE StepWork
  <2>1. /\ ide'.applied = ide.applied /\ ide'.stack = ide.stack
        /\ ide'.project.of = ide.project.of /\ mode' = mode /\ ide.stack = <<>>
    BY <1>8, KeepsFields DEF StepWork, TreeInv, Lengths
  <2> QED BY <2>1, <1>0 DEF RootProject
<1>9. CASE BackToDirectory
  <2>1. Keeps(ide, ide', {"cwd"}) /\ mode' = mode
    BY <1>9, ChdirFields DEF BackToDirectory
  <2>2. ide'.applied = ide.applied /\ ide'.stack = ide.stack /\ ide'.project = ide.project
    BY <2>1, KeepsFields
  <2> QED BY <2>1, <2>2, <1>0 DEF RootProject
<1>10. CASE UNCHANGED vars
  BY <1>10, <1>0 DEF vars
<1> QED BY <1>1, <1>2, <1>3, <1>4, <1>5, <1>6, <1>7, <1>8, <1>9, <1>10 DEF StepKinds

\* the desktop in memory is that of the project the user works in
DesktopInv ==
  odd \cap {"nostd", "refuse", "readonly"} = {} =>
    /\ \A f \in Path : ide.gdt[f] # NONE => ide.gdt[f] \subseteq {f}
    /\ mode # "off" => /\ ide.dskname = RootName(ide)
                       /\ ide.desk \subseteq {RootProject(ide).of}

GdtOwn(s) == \A f \in Path : s.gdt[f] # NONE => s.gdt[f] \subseteq {f}

\* Saving writes a desktop to its own file.
LEMMA WritesGdt ==
  ASSUME NEW s \in Ide, NEW t, Placed(s), Writes(s, t), GdtOwn(s), s.dskname = RootName(s),
         s.desk \subseteq {RootProject(s).of}
  PROVE  GdtOwn(t)
<1>1. CASE s.stack = <<>>
  <2>1. Here(s, s.dskname) = s.project.of
    <3>1. CASE s.project_name = NONE
      BY <1>1, <3>1, Paths DEF RootName, DskOf, Placed
    <3>2. CASE s.project_name # NONE
      <4>1. s.project_name # StdName
        BY <3>2, TreeAssumption DEF Ide
      <4> QED BY <1>1, <3>2, <4>1 DEF RootName, DskOf, Placed, Here
    <3> QED BY <3>1, <3>2
  <2> QED BY <1>1, <2>1 DEF Writes, GdtOwn, RootProject
<1>2. CASE s.stack # <<>>
  BY <1>2 DEF Writes, GdtOwn
<1> QED BY <1>1, <1>2

\* Every step keeps the desktops with their projects.
LEMMA DesktopNext ==
  ASSUME TreeInv, StepKinds, DesktopInv
  PROVE  DesktopInv'
<1> SUFFICES ASSUME odd' \cap {"nostd", "refuse", "readonly"} = {}
             PROVE  /\ GdtOwn(ide')
                    /\ mode' # "off" => /\ ide'.dskname = RootName(ide')
                                        /\ ide'.desk \subseteq {RootProject(ide').of}
  BY DEF DesktopInv, GdtOwn
<1>0. odd \subseteq odd'
  BY DEF StepKinds, StepOpen, StepStore, StepEnd, StepStay, StepPush, StepPop, StepReset,
         StepWork, StepTyped, vars
<1>a. /\ GdtOwn(ide)
      /\ mode # "off" => /\ ide.dskname = RootName(ide) /\ Placed(ide)
                         /\ ide.desk \subseteq {RootProject(ide).of}
  BY <1>0 DEF DesktopInv, GdtOwn, TreeInv, InPlace
<1> USE StackFacts
<1>1. CASE StepOpen
  <2>1. PICK c \in Ide, strange \in SUBSET Hitches :
          /\ Opens(c, ide', strange) /\ strange \subseteq odd'
          /\ mode = "off" => c.gdt = ide.gdt
          /\ mode = "idle" => Flushes(ide, c)
    BY <1>1 DEF StepOpen
  <2>2. mode \in {"off", "idle"} /\ strange = {} /\ mode' = "idle"
    BY <1>1, <2>1 DEF StepOpen, Hitches
  <2>3. GdtOwn(c)
    <3>1. CASE mode = "off"
      BY <1>a, <2>1, <3>1 DEF GdtOwn
    <3>2. CASE mode = "idle"
      <4>1. Writes(ide, c)
        BY <2>1, <3>2 DEF Flushes
      <4>2. Placed(ide) /\ ide.dskname = RootName(ide) /\ ide.desk \subseteq {RootProject(ide).of}
        BY <1>a, <3>2
      <4> QED BY <1>a, <4>1, <4>2, WritesGdt
    <3> QED BY <2>2, <3>1, <3>2
  <2>4. ide'.gdt = c.gdt /\ ide'.stack = <<>>
    BY <1>1, <2>1, OpenedStack, KeepsFields DEF Opens, OpenedFields
  <2>5. ide'.dskname = DskOf(ide') /\ ide'.project.of \in Path
        /\ \/ ide'.desk = {}
           \/ ide'.gdt[ide'.project.of] # NONE /\ ide'.desk = ide'.gdt[ide'.project.of]
    BY <2>1, <2>2 DEF Opens, Placed, Ide, Project
  <2>6. GdtOwn(ide')
    BY <2>3, <2>4 DEF GdtOwn
  <2> QED BY <2>4, <2>5, <2>6 DEF RootName, RootProject, GdtOwn
<1>2. CASE StepStore
  <2>1. /\ ide'.dskname = ide.dskname /\ ide'.desk = ide.desk /\ ide'.stack = ide.stack
        /\ ide'.project = ide.project /\ ide'.project_name = ide.project_name
    BY <1>2, KeepsFields DEF StepStore
  <2>2. Writes(ide, ide') /\ mode # "off"
    BY <1>2 DEF StepStore
  <2>3. GdtOwn(ide')
    BY <1>a, <2>2, WritesGdt
  <2> QED BY <1>a, <2>1, <2>2, <2>3 DEF RootName, RootProject, DskOf
<1>3. CASE StepEnd
  <2>1. Writes(ide, ide') /\ mode # "off" /\ mode' = "off"
    BY <1>3 DEF StepEnd, Flushes
  <2> QED BY <1>a, <2>1, WritesGdt
<1>4. CASE StepStay
  <2>1. /\ ide'.dskname = ide.dskname /\ ide'.desk = ide.desk /\ ide'.stack = ide.stack
        /\ ide'.project = ide.project /\ ide'.project_name = ide.project_name
        /\ ide'.gdt = ide.gdt /\ mode # "off"
    BY <1>4, KeepsFields DEF StepStay
  <2> QED BY <1>a, <2>1 DEF RootName, RootProject, DskOf, GdtOwn
<1>5. CASE StepPush
  <2>1. ide'.dskname = ide.dskname /\ ide'.desk = ide.desk
    BY <1>5, StepFieldsOut, KeepsFields DEF StepPush
  <2>2. GdtOwn(ide') /\ mode # "off"
    BY <1>5, <1>a, WritesGdt DEF StepPush, Flushes, GdtOwn, Walking
  <2> QED BY <1>5, <1>a, <2>1, <2>2, PushStack
<1>6. CASE StepPop
  <2>1. ide'.dskname = ide.dskname /\ ide'.desk = ide.desk
    BY <1>6, StepFieldsOut, KeepsFields DEF StepPop
  <2>2. GdtOwn(ide') /\ mode # "off"
    BY <1>6, <1>a, WritesGdt DEF StepPop, Flushes, GdtOwn, Walking
  <2> QED BY <1>6, <1>a, <2>1, <2>2, PopStack
<1>7. CASE StepReset
  <2>1. /\ ide'.project = ide.project /\ ide'.project_name = ide.project_name
        /\ ide'.dskname = ide.project_name /\ ide'.stack = <<>> /\ mode = "make"
    BY <1>7, KeepsFields DEF StepReset
  <2>2. PICK t \in Ide :
       /\ Writes(ide, t)
       /\ \/ ide'.desk = {}
          \/ t.gdt[ide.project.of] # NONE /\ ide'.desk = t.gdt[ide.project.of]
       /\ \A f \in Path : \/ ide'.gdt[f] = t.gdt[f]
                          \/ f = ide.project.of /\ ide'.gdt[f] = ide'.desk
    BY <1>7 DEF StepReset
  <2>3. GdtOwn(t)
    BY <1>a, <2>1, <2>2, WritesGdt
  <2>4. ide.project.of \in Path /\ ide.project_name # NONE
    BY <2>1, WalkPlaced DEF Walking, Placed, Ide, Project
  <2>5. ide'.desk \subseteq {ide.project.of}
    BY <2>2, <2>3, <2>4 DEF GdtOwn
  <2>6. GdtOwn(ide')
    BY <2>2, <2>3, <2>5 DEF GdtOwn
  <2> QED BY <2>1, <2>4, <2>5, <2>6 DEF RootName, RootProject, DskOf
<1>8. CASE StepWork
  <2>1. /\ ide'.dskname = ide.dskname /\ ide'.stack = ide.stack /\ ide.stack = <<>>
        /\ ide'.project.of = ide.project.of /\ ide'.project_name = ide.project_name
        /\ ide'.gdt = ide.gdt /\ mode # "off" /\ ide'.desk = ide.desk \cup {ide.project.of}
    BY <1>8, KeepsFields DEF StepWork, TreeInv, Lengths
  <2> QED BY <1>a, <2>1 DEF RootName, RootProject, DskOf, GdtOwn
<1>9. CASE BackToDirectory
  <2>1. Keeps(ide, ide', {"cwd"}) /\ mode # "off"
    BY <1>9, ChdirFields DEF BackToDirectory
  <2>2. /\ ide'.dskname = ide.dskname /\ ide'.desk = ide.desk /\ ide'.stack = ide.stack
        /\ ide'.project = ide.project /\ ide'.project_name = ide.project_name
        /\ ide'.gdt = ide.gdt
    BY <2>1, KeepsFields
  <2> QED BY <1>a, <2>1, <2>2 DEF RootName, RootProject, DskOf, GdtOwn
<1>10. CASE UNCHANGED vars
  BY <1>10, <1>a DEF vars
<1> QED BY <1>1, <1>2, <1>3, <1>4, <1>5, <1>6, <1>7, <1>8, <1>9, <1>10 DEF StepKinds

\* Whatever is opened, closed, made, cancelled or crashed, a project is only
\* written to its own file, and, where a standard project exists and editors
\* are closed when asked, a desktop only to that of its project
\* (idemak.cc:665-748, ideprj.cc:1221-1244, 1414-1432).
THEOREM FilesAlwaysRight == Spec => []FilesRight
<1>1. Init => OptionsOfCurrent /\ DesktopInv
  BY DEF Init, OptionsOfCurrent, DesktopInv
<1>2. TreeInv /\ OptionsOfCurrent /\ DesktopInv /\ [Next]_vars => (OptionsOfCurrent /\ DesktopInv)'
  BY NextIs, OptionsNext, DesktopNext
<1>3. TreeInv /\ DesktopInv => FilesRight
  BY DEF TreeInv, Owned, FilesRight, FilesKeepTheirOwner, DesktopsOwn, DesktopInv
<1> QED BY <1>1, <1>2, <1>3, TreeAlways, PTL DEF Spec

----------------------------------------------------------------------------
(* Versions: what the user has made is on disk or in memory *)

InFile(s, n, f) == \/ s.disk[f] = [of |-> f, ver |-> n[f]]
                   \/ n[f] = 0 /\ s.disk[f] = NONE

\* m is the mode; a make saves what it leaves, so its files are current
Current(s, m) == IF m = "make" THEN s.project ELSE RootProject(s)
Counted == {f \in Projects : f[1] \notin ReadOnly}
AsItGoes == {s \in Ide : ~s.only}
Versions(s, m, n) ==
  \A f \in Counted :
    /\ m = "off" => InFile(s, n, f)
    /\ m # "off" => IF Current(s, m).of = f THEN Current(s, m).ver = n[f] ELSE InFile(s, n, f)
    /\ m = "make" => \A k \in DOMAIN s.stack :
         s.stack[k].project.of = f => s.stack[k].project.ver = n[f]
VersionInv == ide \in AsItGoes /\ "crashed" \notin odd => Versions(ide, mode, newest)

\* A project that was saved is in its file.
LEMMA FlushedIn ==
  ASSUME NEW s \in Ide, NEW t, NEW n, NEW f \in Counted, s \in AsItGoes,
         Placed(s), Flushes(s, t),
         IF s.project.of = f THEN s.project.ver = n[f] ELSE InFile(s, n, f)
  PROVE  InFile(t, n, f)
<1>0. f \in Path /\ f[2] # StdName
  BY DEF Projects, Counted
<1>1. CASE s.project.of # f
  BY <1>0, <1>1 DEF Flushes, Writes, InFile
<1>2. CASE s.project.of = f
  <2>1. s.project_name # NONE
    BY <1>0, <1>2 DEF Placed, Std
  <2>2. f[1] = s.cwd
    BY <1>2, <2>1 DEF Placed
  <2>3. t.disk[f] = s.project
    BY <1>2, <2>1, <2>2 DEF Flushes, Counted, AsItGoes
  <2>4. s.project = [of |-> f, ver |-> n[f]]
    BY <1>2 DEF Placed, Ide, Project
  <2> QED BY <2>3, <2>4 DEF InFile
<1> QED BY <1>1, <1>2

\* The option SaveProjectOnlyWhenClosing does not change here.
LEMMA OnlyKept == ASSUME TreeInv, StepKinds PROVE ide'.only = ide.only /\ odd \subseteq odd'
<1> USE StackFacts
<1>1. CASE StepOpen  BY <1>1, OpenedStack DEF StepOpen, StepTyped
<1>2. CASE StepStore BY <1>2, KeepsFields DEF StepStore, StepTyped
<1>3. CASE StepEnd   BY <1>3 DEF StepEnd, StepTyped
<1>4. CASE StepStay  BY <1>4, KeepsFields DEF StepStay, StepTyped
<1>5. CASE StepPush  BY <1>5, StepFieldsOut, KeepsFields DEF StepPush, StepTyped
<1>6. CASE StepPop   BY <1>6, StepFieldsOut, KeepsFields DEF StepPop, StepTyped
<1>7. CASE StepReset BY <1>7, KeepsFields DEF StepReset, StepTyped
<1>8. CASE StepWork  BY <1>8, KeepsFields DEF StepWork, StepTyped
<1>9. CASE StepTyped /\ BackToDirectory
  <2>1. Keeps(ide, ide', {"cwd"})
    BY <1>9, ChdirFields DEF BackToDirectory
  <2> QED BY <1>9, <2>1, KeepsFields DEF StepTyped
<1>10. CASE UNCHANGED vars BY <1>10 DEF vars
<1> QED BY <1>1, <1>2, <1>3, <1>4, <1>5, <1>6, <1>7, <1>8, <1>9, <1>10 DEF StepKinds

\* Every step keeps the last versions on disk or in memory.
LEMMA VersionNext ==
  ASSUME TreeInv, StepKinds, VersionInv
  PROVE  VersionInv'
<1> SUFFICES ASSUME ide' \in AsItGoes, "crashed" \notin odd'
             PROVE  Versions(ide', mode', newest')
  BY DEF VersionInv
<1>a. ide \in AsItGoes /\ "crashed" \notin odd /\ Versions(ide, mode, newest)
  BY OnlyKept, StackFacts DEF VersionInv, AsItGoes
<1>b. mode # "off" => Placed(ide)
  BY DEF TreeInv, InPlace
<1>c. mode \in {"off", "idle"} => ide.stack = <<>> /\ DOMAIN ide.stack = {}
  <2>1. mode \in {"off", "idle"} => ide.stack = <<>>
    BY DEF TreeInv, Lengths
  <2>2. DOMAIN <<>> = {}
    OBVIOUS
  <2> QED BY <2>1, <2>2
<1>d. mode \in {"off", "idle", "make", "clean", "spec"}
  BY DEF TreeInv, Typed
<1> SUFFICES ASSUME NEW f \in Counted
             PROVE  /\ mode' = "off" => InFile(ide', newest', f)
                    /\ mode' # "off" => IF Current(ide', mode').of = f
                                        THEN Current(ide', mode').ver = newest'[f]
                                        ELSE InFile(ide', newest', f)
                    /\ mode' = "make" => \A k \in DOMAIN ide'.stack :
                         ide'.stack[k].project.of = f => ide'.stack[k].project.ver = newest'[f]
  BY DEF Versions
<1>e. /\ mode = "off" => InFile(ide, newest, f)
      /\ mode # "off" => IF Current(ide, mode).of = f THEN Current(ide, mode).ver = newest[f]
                         ELSE InFile(ide, newest, f)
      /\ mode = "make" => \A k \in DOMAIN ide.stack :
           ide.stack[k].project.of = f => ide.stack[k].project.ver = newest[f]
  BY <1>a DEF Versions
<1>g. ide \in Ide /\ f \in Path /\ newest[f] \in Nat
  BY StackFacts DEF Projects, Counted, TreeInv, Typed
<1>f. mode = "make" \/ (mode # "off" /\ ide.stack = <<>>) =>
        IF ide.project.of = f THEN ide.project.ver = newest[f] ELSE InFile(ide, newest, f)
  BY <1>e DEF Current, RootProject
<1> HIDE DEF Versions
<1>1. CASE StepOpen
  <2>1. PICK c \in Ide, strange \in SUBSET Hitches :
          /\ Opens(c, ide', strange)
          /\ mode = "off" => c.disk = ide.disk
          /\ mode = "idle" => Flushes(ide, c)
    BY <1>1 DEF StepOpen
  <2>2. mode \in {"off", "idle"} /\ mode' = "idle" /\ newest' = newest
    BY <1>1 DEF StepOpen
  <2>3. InFile(c, newest, f)
    <3>1. CASE mode = "off"
      BY <1>e, <2>1, <3>1 DEF InFile
    <3>2. CASE mode = "idle"
      BY <1>a, <1>b, <1>c, <1>f, <1>g, <2>1, <3>2, FlushedIn
    <3> QED BY <2>2, <3>1, <3>2
  <2>4. ide'.disk = c.disk /\ ide'.stack = <<>>
    BY <1>1, <2>1, OpenedStack, KeepsFields DEF Opens, OpenedFields
  <2>5. ide'.project.of = f => \/ c.disk[f] # NONE /\ ide'.project = c.disk[f]
                               \/ c.disk[f] = NONE /\ ide'.project.ver = 0
    BY <2>1 DEF Opens, Counted
  <2>6. [of |-> f, ver |-> newest[f]] # NONE
    <3>1. [of |-> f, ver |-> newest[f]] \in Project
      BY <1>g DEF Project
    <3> QED BY <3>1, TreeAssumption
  <2>7. ide'.project.of = f => ide'.project.ver = newest[f]
    BY <2>3, <2>5, <2>6 DEF InFile
  <2> QED BY <2>2, <2>3, <2>4, <2>7 DEF InFile, Current, RootProject
<1>2. CASE StepStore
  <2>1. /\ ide'.stack = ide.stack /\ ide'.project = ide.project /\ ide.stack = <<>>
        /\ Writes(ide, ide') /\ mode # "off" /\ mode' = "idle" /\ newest' = newest
    BY <1>2, <1>g, KeepsFields DEF StepStore
  <2>2. ide.project.of # f => InFile(ide', newest, f)
    BY <1>f, <1>g, <2>1 DEF Writes, InFile
  <2> QED BY <1>f, <2>1, <2>2 DEF Current, RootProject
<1>3. CASE StepEnd
  <2>1. Flushes(ide, ide') /\ mode \in {"idle", "make"} /\ mode' = "off" /\ newest' = newest
    BY <1>3, <1>d DEF StepEnd
  <2>2. InFile(ide', newest, f)
    BY <1>a, <1>b, <1>c, <1>f, <1>g, <2>1, FlushedIn
  <2> QED BY <2>1, <2>2
<1>4. CASE StepStay
  <2>1. /\ ide'.stack = ide.stack /\ ide'.project = ide.project /\ ide'.disk = ide.disk
        /\ newest' = newest /\ mode # "off"
        /\ mode = "idle" => mode' \in {"make", "clean", "spec"}
        /\ mode # "idle" => mode' = mode
    BY <1>4, <1>g, KeepsFields DEF StepStay
  <2> QED BY <1>c, <1>e, <2>1 DEF Current, RootProject, InFile
<1>5. CASE StepPush
  <2>0. mode' = mode /\ mode # "off" /\ newest' = newest
    BY <1>5 DEF StepPush, Walking
  <2>1. CASE mode = "make"
    <3>1. InFile(ide', newest, f)
      BY <1>5, <1>a, <1>b, <1>f, <1>g, <2>1, FlushedIn DEF StepPush
    <3>2. ide'.project = ide'.disk[ide'.project.of] /\ ide'.project # NONE
      BY <1>5 DEF StepPush, Placed
    <3>3. ide'.project.of = f => ide'.project.ver = newest[f]
      BY <3>1, <3>2 DEF InFile
    <3>4. \A k \in DOMAIN ide'.stack :
            ide'.stack[k].project.of = f => ide'.stack[k].project.ver = newest[f]
      <4> SUFFICES ASSUME NEW k \in DOMAIN ide'.stack, ide'.stack[k].project.of = f
                   PROVE  ide'.stack[k].project.ver = newest[f]
        OBVIOUS
      <4>1. CASE k \in 1..Len(ide.stack)
        BY <1>5, <1>e, <2>1, <4>1, PushStack, StackFacts
      <4>2. CASE k = Len(ide.stack) + 1
        BY <1>5, <1>f, <2>1, <4>2, PushStack
      <4> QED BY <1>5, <4>1, <4>2, PushStack, StackFacts
    <3> QED BY <2>0, <2>1, <3>1, <3>3, <3>4 DEF Current
  <2>2. CASE mode # "make"
    <3>1. ide'.disk = ide.disk
      BY <1>5, <2>2 DEF StepPush
    <3>2. Current(ide', mode') = Current(ide, mode)
      BY <1>5, <2>0, <2>2, PushStack DEF Current
    <3> QED BY <1>e, <2>0, <2>2, <3>1, <3>2 DEF InFile
  <2> QED BY <2>1, <2>2
<1>6. CASE StepPop
  <2>0. mode' = mode /\ mode # "off" /\ newest' = newest
    BY <1>6 DEF StepPop, Walking
  <2>1. CASE mode = "make"
    <3>1. InFile(ide', newest, f)
      BY <1>6, <1>a, <1>b, <1>f, <1>g, <2>1, FlushedIn DEF StepPop
    <3>2. ide'.project = ide.stack[Len(ide.stack)].project /\ Len(ide.stack) \in DOMAIN ide.stack
      BY <1>6, PopStack DEF StepPop
    <3>3. ide'.project.of = f => ide'.project.ver = newest[f]
      BY <1>e, <2>1, <3>2
    <3>4. \A k \in DOMAIN ide'.stack :
            ide'.stack[k].project.of = f => ide'.stack[k].project.ver = newest[f]
      BY <1>6, <1>e, <2>1, PopStack
    <3> QED BY <2>0, <2>1, <3>1, <3>3, <3>4 DEF Current
  <2>2. CASE mode # "make"
    <3>1. ide'.disk = ide.disk
      BY <1>6, <2>2 DEF StepPop
    <3>2. Current(ide', mode') = Current(ide, mode)
      BY <1>6, <2>0, <2>2, PopStack DEF Current
    <3> QED BY <1>e, <2>0, <2>2, <3>1, <3>2 DEF InFile
  <2> QED BY <2>1, <2>2
<1>7. CASE StepReset
  <2>1. /\ ide'.project = ide.project /\ ide'.stack = <<>> /\ mode = "make"
        /\ mode' = "idle" /\ newest' = newest
        /\ \/ ide'.disk[f] = ide.disk[f]
           \/ f = ide.project.of /\ ide'.disk[f] = ide.project
    BY <1>7, <1>g, KeepsFields DEF StepReset
  <2>2. ide.project.of # f => InFile(ide', newest, f)
    BY <1>f, <2>1 DEF InFile
  <2> QED BY <1>f, <2>1, <2>2 DEF Current, RootProject
<1>8. CASE StepWork
  <2>1. /\ ide'.stack = ide.stack /\ ide.stack = <<>> /\ ide'.project.of = ide.project.of
        /\ ide'.disk = ide.disk /\ mode' = mode /\ mode = "idle"
        /\ f # ide.project.of => newest'[f] = newest[f]
        /\ ide.project.ver = newest[ide.project.of] =>
             ide'.project.ver = newest'[ide.project.of]
    BY <1>8, <1>c, <1>g, KeepsFields DEF StepWork
  <2>2. ide.project.of # f => InFile(ide', newest', f)
    BY <1>f, <2>1 DEF InFile
  <2> QED BY <1>f, <2>1, <2>2 DEF Current, RootProject
<1>9. CASE BackToDirectory
  <2>1. Keeps(ide, ide', {"cwd"}) /\ mode' = mode /\ newest' = newest
    BY <1>9, <1>g, ChdirFields DEF BackToDirectory
  <2>2. ide'.disk = ide.disk /\ ide'.stack = ide.stack /\ ide'.project = ide.project
    BY <2>1, <1>g, KeepsFields
  <2> QED BY <1>e, <2>1, <2>2 DEF Current, RootProject, InFile
<1>10. CASE UNCHANGED vars
  BY <1>10, <1>e DEF vars
<1> QED BY <1>1, <1>2, <1>3, <1>4, <1>5, <1>6, <1>7, <1>8, <1>9, <1>10 DEF StepKinds

\* At the start all that exists is as it is on disk.
LEMMA VersionInit == Init => VersionInv
<1> SUFFICES ASSUME Init PROVE Versions(ide, mode, newest)
  BY DEF VersionInv
<1>1. mode = "off" /\ newest = [f \in Path |-> 0]
  BY DEF Init
<1>2. \A f \in Path : ide.disk[f] = [of |-> f, ver |-> 0] \/ ide.disk[f] = NONE
  BY DEF Init
<1> QED BY <1>1, <1>2 DEF Versions, InFile, Projects, Counted

\* The invariant says that nothing is lost.
LEMMA VersionsLast ==
  ASSUME TreeInv, VersionInv PROVE NothingLost
<1> SUFFICES ASSUME NEW f \in Projects, ~ide.only, f[1] \notin ReadOnly,
                    "crashed" \notin odd, newest[f] # 0
             PROVE  [of |-> f, ver |-> newest[f]] \in
                      {ide.disk[f], ide.project} \cup {e.project : e \in Range(ide.stack)}
  BY DEF NothingLost
<1>0. f \in Counted /\ ide \in AsItGoes
  BY StackFacts DEF Counted, AsItGoes
<1>1. /\ mode = "off" => InFile(ide, newest, f)
      /\ mode # "off" => IF Current(ide, mode).of = f THEN Current(ide, mode).ver = newest[f]
                         ELSE InFile(ide, newest, f)
  BY <1>0 DEF VersionInv, Versions
<1>2. InFile(ide, newest, f) => ide.disk[f] = [of |-> f, ver |-> newest[f]]
  BY DEF InFile
<1>3. CASE mode # "off" /\ Current(ide, mode).of = f
  <2>1. CASE Current(ide, mode) = ide.project
    <3>1. ide.project \in Project
      BY <1>3 DEF TreeInv, Typed, InPlace, Placed, Ide
    <3>2. ide.project = [of |-> f, ver |-> newest[f]]
      BY <1>1, <1>3, <2>1, <3>1 DEF Project
    <3> QED BY <3>2
  <2>2. CASE Current(ide, mode) # ide.project
    <3>1. ide.stack # <<>> /\ Current(ide, mode) = ide.stack[1].project
      BY <2>2 DEF Current, RootProject
    <3>2. 1 \in DOMAIN ide.stack /\ ide.stack[1] \in Entry
      <4>1. ide.stack \in Seq(Entry) /\ Len(ide.stack) \in Nat \ {0}
            /\ DOMAIN ide.stack = 1..Len(ide.stack)
        BY <3>1, StackFacts
      <4> QED BY ONLY <4>1, ElementOfSeq
    <3>3. ide.stack[1].project = [of |-> f, ver |-> newest[f]]
      BY <1>1, <1>3, <3>1, <3>2 DEF Entry, Project
    <3>4. ide.stack[1] \in Range(ide.stack)
      BY <3>2 DEF Range
    <3> QED BY <3>3, <3>4
  <2> QED BY <2>1, <2>2
<1> QED BY <1>1, <1>2, <1>3

\* As long as projects are saved as they go, the last version of every project
\* is in its file, in memory or on the stack: each way out of a project saves
\* it or keeps it (ideprj.cc:1354, idegcc.cc:522, 850).
THEOREM NothingIsLost == Spec => []NothingLost
<1>1. TreeInv /\ VersionInv /\ [Next]_vars => VersionInv'
  BY NextIs, VersionNext
<1>2. TreeInv /\ VersionInv => NothingLost
  BY VersionsLast
<1> QED BY <1>1, <1>2, VersionInit, TreeAlways, PTL DEF Spec

----------------------------------------------------------------------------
(* Variables: what the rhide.env files of the open directories set.  q is  *)
(* the sequence of these directories, the current one last.                *)

Setting(q, v, n) == {i \in 1..n : v \in DOMAIN EnvFile[q[i]]}
Count(q, v, n) == Cardinality(Setting(q, v, n))
EnvIs(e, q) ==
  \A v \in Vars :
    /\ Len(e[v]) = Count(q, v, Len(q))
    /\ \A i \in Setting(q, v, Len(q)) :
         e[v][Len(e[v]) + 1 - Count(q, v, i)] = EnvFile[q[i]][v]

\* a directory that sets v counts itself, and at most all of them are counted
LEMMA CountBounds ==
  ASSUME NEW q, NEW v, NEW n \in Nat
  PROVE  /\ IsFiniteSet(Setting(q, v, n)) /\ Count(q, v, n) \in Nat
         /\ \A i \in Setting(q, v, n) : Count(q, v, i) \in 1..Count(q, v, n)
<1>1. \A m \in Nat : IsFiniteSet(Setting(q, v, m)) /\ Count(q, v, m) \in Nat
  <2> SUFFICES ASSUME NEW m \in Nat
               PROVE  IsFiniteSet(Setting(q, v, m)) /\ Count(q, v, m) \in Nat
    OBVIOUS
  <2>1. IsFiniteSet(1..m)
    BY FS_Interval
  <2>2. Setting(q, v, m) \in SUBSET (1..m)
    BY DEF Setting
  <2>3. IsFiniteSet(Setting(q, v, m))
    BY ONLY <2>1, <2>2, FS_Subset
  <2> QED BY <2>3, FS_CardinalityType DEF Count
<1>2. ASSUME NEW i \in Setting(q, v, n) PROVE Count(q, v, i) \in 1..Count(q, v, n)
  <2>1. i \in 1..n /\ i \in Setting(q, v, i) /\ i \in Nat
    BY <1>2 DEF Setting
  <2>2. Setting(q, v, i) \in SUBSET Setting(q, v, n)
    BY <2>1 DEF Setting
  <2>3. IsFiniteSet(Setting(q, v, n)) /\ IsFiniteSet(Setting(q, v, i))
        /\ Count(q, v, n) \in Nat /\ Count(q, v, i) \in Nat
    BY <1>1, <2>1
  <2>4. Count(q, v, i) <= Count(q, v, n)
    BY ONLY <2>2, <2>3, FS_Subset DEF Count
  <2>5. Count(q, v, i) # 0
    BY ONLY <2>1, <2>3, FS_EmptySet DEF Count
  <2> QED BY <2>3, <2>4, <2>5
<1> QED BY <1>1, <1>2

\* One more directory counts once for the variables it sets.
LEMMA SettingAppend ==
  ASSUME NEW q \in Seq(Dirs), NEW d \in Dirs, NEW v
  PROVE  LET r == Append(q, d) IN
         /\ Len(q) \in Nat /\ Len(r) = Len(q) + 1 /\ r[Len(r)] = d
         /\ \A i \in 1..Len(q) : r[i] = q[i]
         /\ \A n \in 0..Len(q) : Setting(r, v, n) = Setting(q, v, n) /\ Count(r, v, n) = Count(q, v, n)
         /\ v \in DOMAIN EnvFile[d] =>
              /\ Setting(r, v, Len(r)) = Setting(q, v, Len(q)) \cup {Len(r)}
              /\ Count(r, v, Len(r)) = Count(q, v, Len(q)) + 1
         /\ v \notin DOMAIN EnvFile[d] =>
              /\ Setting(r, v, Len(r)) = Setting(q, v, Len(q))
              /\ Count(r, v, Len(r)) = Count(q, v, Len(q))
<1> DEFINE r == Append(q, d)
<1>1. /\ Len(q) \in Nat /\ Len(r) = Len(q) + 1 /\ r[Len(r)] = d
      /\ \A i \in 1..Len(q) : r[i] = q[i]
  BY AppendProperties, LenProperties
<1> HIDE DEF r
<1>2. \A n \in 0..Len(q) : Setting(r, v, n) = Setting(q, v, n) /\ Count(r, v, n) = Count(q, v, n)
  <2> SUFFICES ASSUME NEW n \in 0..Len(q) PROVE Setting(r, v, n) = Setting(q, v, n)
    BY DEF Count
  <2> QED BY <1>1 DEF Setting
<1>3. ASSUME v \in DOMAIN EnvFile[d]
      PROVE  /\ Setting(r, v, Len(r)) = Setting(q, v, Len(q)) \cup {Len(r)}
             /\ Count(r, v, Len(r)) = Count(q, v, Len(q)) + 1
  <2>1. Setting(r, v, Len(r)) = Setting(q, v, Len(q)) \cup {Len(r)}
    <3>1. \A i : i \in 1..Len(r) <=> i \in 1..Len(q) \/ i = Len(r)
      BY <1>1
    <3> QED BY <1>1, <1>3, <3>1 DEF Setting
  <2>2. Len(r) \notin Setting(q, v, Len(q)) /\ IsFiniteSet(Setting(q, v, Len(q)))
    <3>1. Len(r) \notin Setting(q, v, Len(q))
      BY <1>1 DEF Setting
    <3>2. IsFiniteSet(Setting(q, v, Len(q)))
      BY <1>1, CountBounds
    <3> QED BY <3>1, <3>2
  <2> QED BY ONLY <2>1, <2>2, FS_AddElement DEF Count
<1>4. ASSUME v \notin DOMAIN EnvFile[d]
      PROVE  Setting(r, v, Len(r)) = Setting(q, v, Len(q))
  <2>1. \A i : i \in 1..Len(r) <=> i \in 1..Len(q) \/ i = Len(r)
    BY <1>1
  <2> QED BY <1>1, <1>4, <2>1 DEF Setting
<1> QED BY <1>1, <1>2, <1>3, <1>4 DEF r, Count

\* push_environment adds the values of the new directory.
LEMMA EnvPushed ==
  ASSUME NEW e \in [Vars -> Seq(Value)], NEW f, NEW q \in Seq(Dirs), NEW d \in Dirs,
         EnvIs(e, q), Pushed(e, d, f)
  PROVE  EnvIs(f, Append(q, d))
<1> DEFINE r == Append(q, d)
<1> SUFFICES ASSUME NEW v \in Vars
             PROVE  /\ Len(f[v]) = Count(r, v, Len(r))
                    /\ \A i \in Setting(r, v, Len(r)) :
                         f[v][Len(f[v]) + 1 - Count(r, v, i)] = EnvFile[r[i]][v]
  BY DEF EnvIs
<1>1. e[v] \in Seq(Value) /\ Len(e[v]) \in Nat
  BY LenProperties
<1>2. /\ Len(e[v]) = Count(q, v, Len(q))
      /\ \A i \in Setting(q, v, Len(q)) :
           e[v][Len(e[v]) + 1 - Count(q, v, i)] = EnvFile[q[i]][v]
  BY DEF EnvIs
<1>3. /\ Len(q) \in Nat /\ Len(r) = Len(q) + 1 /\ r[Len(r)] = d
      /\ \A i \in 1..Len(q) : r[i] = q[i]
      /\ \A n \in 0..Len(q) : Setting(r, v, n) = Setting(q, v, n) /\ Count(r, v, n) = Count(q, v, n)
      /\ v \in DOMAIN EnvFile[d] =>
           /\ Setting(r, v, Len(r)) = Setting(q, v, Len(q)) \cup {Len(r)}
           /\ Count(r, v, Len(r)) = Count(q, v, Len(q)) + 1
      /\ v \notin DOMAIN EnvFile[d] =>
           /\ Setting(r, v, Len(r)) = Setting(q, v, Len(q))
           /\ Count(r, v, Len(r)) = Count(q, v, Len(q))
  BY SettingAppend
<1>4. \A i \in Setting(q, v, Len(q)) : i \in 1..Len(q) /\ r[i] = q[i]
        /\ Count(r, v, i) = Count(q, v, i) /\ Count(q, v, i) \in 1..Len(e[v])
  <2> TAKE i \in Setting(q, v, Len(q))
  <2>1. i \in 1..Len(q)
    BY DEF Setting
  <2>2. Count(q, v, i) \in 1..Count(q, v, Len(q))
    BY <1>3, CountBounds
  <2> QED BY <1>2, <1>3, <2>1, <2>2
<1> HIDE DEF r
<1>5. CASE v \in DOMAIN EnvFile[d]
  <2> DEFINE x == EnvFile[d][v]
  <2>1. x \in Value
    BY <1>5 DEF Value, Range
  <2>2. f[v] = <<x>> \o e[v]
    BY <1>5 DEF Pushed
  <2> HIDE DEF x
  <2>3. <<x>> \in Seq(Value) /\ Len(<<x>>) = 1 /\ <<x>>[1] = x
    BY <2>1
  <2>4. /\ Len(f[v]) = 1 + Len(e[v])
        /\ \A i \in 1..(1 + Len(e[v])) : f[v][i] = IF i <= 1 THEN <<x>>[i] ELSE e[v][i - 1]
    BY ONLY <1>1, <2>2, <2>3, ConcatProperties
  <2>5. f[v][1] = x /\ \A i \in 1..Len(e[v]) : f[v][i + 1] = e[v][i]
    <3>1. 1 \in 1..(1 + Len(e[v])) /\ 1 <= 1
      BY <1>1
    <3>2. f[v][1] = x
      BY ONLY <2>3, <2>4, <3>1
    <3>3. ASSUME NEW i \in 1..Len(e[v]) PROVE f[v][i + 1] = e[v][i]
      <4>1. i + 1 \in 1..(1 + Len(e[v])) /\ ~(i + 1 <= 1) /\ (i + 1) - 1 = i
        BY <1>1, <3>3
      <4> QED BY ONLY <2>4, <4>1
    <3> QED BY <3>2, <3>3
  <2>6. ASSUME NEW i \in Setting(q, v, Len(q))
        PROVE  f[v][Len(f[v]) + 1 - Count(r, v, i)] = EnvFile[r[i]][v]
    <3>1. Count(r, v, i) = Count(q, v, i) /\ Count(q, v, i) \in 1..Len(e[v]) /\ r[i] = q[i]
      BY <1>4
    <3>2. Len(e[v]) + 1 - Count(q, v, i) \in 1..Len(e[v])
      BY <1>1, <3>1
    <3>3. Len(f[v]) + 1 - Count(r, v, i) = (Len(e[v]) + 1 - Count(q, v, i)) + 1
      BY <1>1, <2>4, <3>1
    <3>4. f[v][Len(f[v]) + 1 - Count(r, v, i)] = e[v][Len(e[v]) + 1 - Count(q, v, i)]
      BY <2>5, <3>2, <3>3
    <3> QED BY <1>2, <3>1, <3>4
  <2>7. Len(f[v]) = Count(r, v, Len(r))
    BY <1>1, <1>2, <1>3, <1>5, <2>4
  <2>8. f[v][Len(f[v]) + 1 - Count(r, v, Len(r))] = EnvFile[r[Len(r)]][v]
    <3>1. Len(f[v]) + 1 - Count(r, v, Len(r)) = 1
      BY <1>1, <2>4, <2>7
    <3> QED BY <1>3, <2>5, <3>1 DEF x
  <2> QED BY <1>3, <1>5, <2>6, <2>7, <2>8
<1>6. CASE v \notin DOMAIN EnvFile[d]
  <2>1. f[v] = e[v]
    BY <1>6 DEF Pushed
  <2> QED BY <1>2, <1>3, <1>4, <1>6, <2>1
<1> QED BY <1>5, <1>6

\* pop_environment removes those of the last one.
LEMMA EnvPopped ==
  ASSUME NEW e \in [Vars -> Seq(Value)], NEW f, NEW q \in Seq(Dirs), NEW d \in Dirs,
         EnvIs(e, Append(q, d)), Popped(e, d, f)
  PROVE  EnvIs(f, q)
<1> DEFINE r == Append(q, d)
<1> SUFFICES ASSUME NEW v \in Vars
             PROVE  /\ Len(f[v]) = Count(q, v, Len(q))
                    /\ \A i \in Setting(q, v, Len(q)) :
                         f[v][Len(f[v]) + 1 - Count(q, v, i)] = EnvFile[q[i]][v]
  BY DEF EnvIs
<1>1. e[v] \in Seq(Value) /\ Len(e[v]) \in Nat
  BY LenProperties
<1>2. /\ Len(e[v]) = Count(r, v, Len(r))
      /\ \A i \in Setting(r, v, Len(r)) :
           e[v][Len(e[v]) + 1 - Count(r, v, i)] = EnvFile[r[i]][v]
  BY DEF EnvIs
<1>3. /\ Len(q) \in Nat /\ Len(r) = Len(q) + 1 /\ r[Len(r)] = d
      /\ \A i \in 1..Len(q) : r[i] = q[i]
      /\ \A n \in 0..Len(q) : Setting(r, v, n) = Setting(q, v, n) /\ Count(r, v, n) = Count(q, v, n)
      /\ v \in DOMAIN EnvFile[d] =>
           /\ Setting(r, v, Len(r)) = Setting(q, v, Len(q)) \cup {Len(r)}
           /\ Count(r, v, Len(r)) = Count(q, v, Len(q)) + 1
      /\ v \notin DOMAIN EnvFile[d] =>
           /\ Setting(r, v, Len(r)) = Setting(q, v, Len(q))
           /\ Count(r, v, Len(r)) = Count(q, v, Len(q))
  BY SettingAppend
<1> HIDE DEF r
<1>0. Count(q, v, Len(q)) \in Nat
  BY <1>3, CountBounds
<1>4. \A i \in Setting(q, v, Len(q)) : i \in 1..Len(q) /\ r[i] = q[i]
        /\ Count(r, v, i) = Count(q, v, i) /\ Count(q, v, i) \in 1..Count(q, v, Len(q))
        /\ i \in Setting(r, v, Len(r))
  <2> TAKE i \in Setting(q, v, Len(q))
  <2>1. i \in 1..Len(q)
    BY DEF Setting
  <2>2. Count(q, v, i) \in 1..Count(q, v, Len(q))
    BY <1>3, CountBounds
  <2> QED BY <1>3, <2>1, <2>2
<1>5. CASE v \in DOMAIN EnvFile[d]
  <2>1. Len(e[v]) = Count(q, v, Len(q)) + 1 /\ e[v] # <<>>
    <3>1. Len(e[v]) = Count(q, v, Len(q)) + 1
      BY <1>2, <1>3, <1>5
    <3>2. Len(e[v]) # 0
      BY <1>0, <3>1
    <3> QED BY <1>1, <3>1, <3>2, EmptySeq
  <2>2. f[v] = Tail(e[v])
    BY <1>5, <2>1 DEF Popped
  <2>3. Len(f[v]) = Len(e[v]) - 1 /\ \A i \in 1..Len(f[v]) : f[v][i] = e[v][i + 1]
    BY ONLY <1>1, <2>1, <2>2, HeadTailProperties
  <2>4. Len(f[v]) = Count(q, v, Len(q))
    BY <1>0, <2>1, <2>3
  <2>5. ASSUME NEW i \in Setting(q, v, Len(q))
        PROVE  f[v][Len(f[v]) + 1 - Count(q, v, i)] = EnvFile[q[i]][v]
    <3>1. Count(r, v, i) = Count(q, v, i) /\ Count(q, v, i) \in 1..Count(q, v, Len(q))
          /\ r[i] = q[i] /\ i \in Setting(r, v, Len(r))
      BY <1>4
    <3>2. Len(f[v]) + 1 - Count(q, v, i) \in 1..Len(f[v])
      BY <1>0, <2>4, <3>1
    <3>3. (Len(f[v]) + 1 - Count(q, v, i)) + 1 = Len(e[v]) + 1 - Count(r, v, i)
      BY <1>0, <2>1, <2>4, <3>1
    <3>4. f[v][Len(f[v]) + 1 - Count(q, v, i)] = e[v][Len(e[v]) + 1 - Count(r, v, i)]
      BY <2>3, <3>2, <3>3
    <3> QED BY <1>2, <3>1, <3>4
  <2> QED BY <2>4, <2>5
<1>6. CASE v \notin DOMAIN EnvFile[d]
  <2>1. f[v] = e[v]
    BY <1>6 DEF Popped
  <2> QED BY <1>2, <1>3, <1>4, <1>6, <2>1
<1> QED BY <1>5, <1>6

\* the directories of the open projects, the current one last
DirsOf(s) == Append([i \in DOMAIN s.stack |-> s.stack[i].dname], s.cwd)
EnvInv ==
  /\ mode = "off" => ide.env = NoVars
  /\ mode # "off" /\ odd \cap {"cancelled", "readonly"} = {} => EnvIs(ide.env, DirsOf(ide))

\* The directories of the open projects.
LEMMA DirsFacts ==
  ASSUME NEW s \in Ide
  PROVE  /\ [i \in DOMAIN s.stack |-> s.stack[i].dname] \in Seq(Dirs) /\ s.cwd \in Dirs
         /\ s.env \in [Vars -> Seq(Value)]
         /\ s.stack = <<>> => DirsOf(s) = Append(<<>>, s.cwd) /\ DirsOf(s) = <<s.cwd>>
<1>1. s.stack \in Seq(Entry) /\ DOMAIN s.stack = 1..Len(s.stack) /\ Len(s.stack) \in Nat
      /\ s.cwd \in Dirs /\ s.env \in [Vars -> Seq(Value)]
  BY LenProperties DEF Ide
<1>2. \A i \in 1..Len(s.stack) : s.stack[i].dname \in Dirs
  <2>1. \A i \in 1..Len(s.stack) : s.stack[i] \in Entry
    BY ONLY <1>1, ElementOfSeq
  <2> QED BY <2>1 DEF Entry
<1>3. [i \in 1..Len(s.stack) |-> s.stack[i].dname] \in [1..Len(s.stack) -> Dirs]
  BY <1>2
<1>4. [i \in DOMAIN s.stack |-> s.stack[i].dname] \in Seq(Dirs)
  BY <1>1, <1>3, SeqDef
<1>5. ASSUME s.stack = <<>> PROVE [i \in DOMAIN s.stack |-> s.stack[i].dname] = <<>>
  BY <1>5
<1>6. ASSUME s.stack = <<>> PROVE DirsOf(s) = Append(<<>>, s.cwd) /\ DirsOf(s) = <<s.cwd>>
  <2>1. DirsOf(s) = Append(<<>>, s.cwd)
    BY <1>5, <1>6 DEF DirsOf
  <2>2. Append(<<>>, s.cwd) = <<s.cwd>>
    OBVIOUS
  <2> QED BY <2>1, <2>2
<1> QED BY <1>1, <1>4, <1>6

\* A push adds a directory.
LEMMA DirsPushed ==
  ASSUME TreeInv, StepPush
  PROVE  DirsOf(ide') = Append(DirsOf(ide), ide'.cwd) /\ DirsOf(ide) \in Seq(Dirs)
<1> DEFINE a == [i \in DOMAIN ide.stack |-> ide.stack[i].dname]
           b == [i \in DOMAIN ide'.stack |-> ide'.stack[i].dname]
<1>1. ide' \in Ide /\ ide \in Ide /\ Len(ide.stack) \in Nat /\ DOMAIN ide.stack = 1..Len(ide.stack)
  BY StackFacts DEF StepPush, StepTyped
<1>2. a \in Seq(Dirs) /\ b \in Seq(Dirs) /\ ide.cwd \in Dirs
  BY <1>1, DirsFacts
<1>3. /\ DOMAIN ide'.stack = 1..(Len(ide.stack) + 1)
      /\ \A k \in 1..Len(ide.stack) : ide'.stack[k] = ide.stack[k]
      /\ ide'.stack[Len(ide.stack) + 1].dname = ide.cwd
  BY PushStack
<1>4. DOMAIN a = 1..Len(ide.stack) /\ DOMAIN b = 1..(Len(ide.stack) + 1)
  BY <1>1, <1>3
<1>5. \A i \in 1..Len(ide.stack) : b[i] = a[i]
  <2> TAKE i \in 1..Len(ide.stack)
  <2>1. i \in DOMAIN ide.stack /\ i \in DOMAIN ide'.stack
    BY <1>1, <1>3
  <2> QED BY <1>3, <2>1
<1>6. b[Len(ide.stack) + 1] = ide.cwd
  <2>1. Len(ide.stack) + 1 \in DOMAIN ide'.stack
    BY <1>1, <1>3
  <2> QED BY <1>3, <2>1
<1> HIDE DEF a, b
<1>7. Len(a) = Len(ide.stack) /\ Len(b) = Len(ide.stack) + 1
  <2>1. DOMAIN a = 1..Len(a) /\ DOMAIN b = 1..Len(b) /\ Len(a) \in Nat /\ Len(b) \in Nat
    BY <1>2, LenProperties
  <2> QED BY <1>1, <1>4, <2>1
<1>8. /\ Append(a, ide.cwd) \in Seq(Dirs) /\ Len(Append(a, ide.cwd)) = Len(a) + 1
      /\ \A i \in 1..Len(a) : Append(a, ide.cwd)[i] = a[i]
      /\ Append(a, ide.cwd)[Len(a) + 1] = ide.cwd
  BY <1>2, AppendProperties
<1>9. b = Append(a, ide.cwd)
  <2>1. \A i \in 1..Len(b) : b[i] = Append(a, ide.cwd)[i]
    BY <1>1, <1>5, <1>6, <1>7, <1>8
  <2>2. Len(b) = Len(Append(a, ide.cwd))
    BY <1>7, <1>8
  <2> QED BY ONLY <1>2, <1>8, <2>1, <2>2, SeqEqual
<1>10. DirsOf(ide) = Append(a, ide.cwd) /\ DirsOf(ide') = Append(b, ide'.cwd)
  BY DEF DirsOf, a, b
<1> QED BY <1>8, <1>9, <1>10

\* A pop removes the last one.
LEMMA DirsPopped ==
  ASSUME TreeInv, StepPop
  PROVE  DirsOf(ide) = Append(DirsOf(ide'), ide.cwd) /\ DirsOf(ide') \in Seq(Dirs)
<1> DEFINE a == [i \in DOMAIN ide.stack |-> ide.stack[i].dname]
           b == [i \in DOMAIN ide'.stack |-> ide'.stack[i].dname]
<1>1. ide' \in Ide /\ ide \in Ide /\ ide'.cwd = Last(ide.stack).dname
  BY StackFacts DEF StepPop, StepTyped
<1>2. a \in Seq(Dirs) /\ b \in Seq(Dirs) /\ ide'.cwd \in Dirs
  BY <1>1, DirsFacts
<1>3. /\ Len(ide.stack) \in Nat \ {0} /\ DOMAIN ide.stack = 1..Len(ide.stack)
      /\ DOMAIN ide'.stack = 1..(Len(ide.stack) - 1)
      /\ \A k \in 1..(Len(ide.stack) - 1) : ide'.stack[k] = ide.stack[k]
      /\ ide.stack[Len(ide.stack)].dname = ide'.cwd
  BY <1>1, PopStack
<1>4. DOMAIN a = 1..Len(ide.stack) /\ DOMAIN b = 1..(Len(ide.stack) - 1)
  BY <1>3
<1>5. \A i \in 1..(Len(ide.stack) - 1) : b[i] = a[i]
  BY <1>3
<1>6. a[Len(ide.stack)] = ide'.cwd
  BY <1>3
<1> HIDE DEF a, b
<1>7. Len(a) = Len(ide.stack) /\ Len(b) = Len(ide.stack) - 1
  <2>1. DOMAIN a = 1..Len(a) /\ DOMAIN b = 1..Len(b) /\ Len(a) \in Nat /\ Len(b) \in Nat
    BY <1>2, LenProperties
  <2> QED BY <1>3, <1>4, <2>1
<1>8. /\ Append(b, ide'.cwd) \in Seq(Dirs) /\ Len(Append(b, ide'.cwd)) = Len(b) + 1
      /\ \A i \in 1..Len(b) : Append(b, ide'.cwd)[i] = b[i]
      /\ Append(b, ide'.cwd)[Len(b) + 1] = ide'.cwd
  BY <1>2, AppendProperties
<1>9. a = Append(b, ide'.cwd)
  <2>1. \A i \in 1..Len(a) : a[i] = Append(b, ide'.cwd)[i]
    BY <1>3, <1>5, <1>6, <1>7, <1>8
  <2>2. Len(a) = Len(Append(b, ide'.cwd))
    BY <1>3, <1>7, <1>8
  <2> QED BY ONLY <1>2, <1>8, <2>1, <2>2, SeqEqual
<1>10. DirsOf(ide) = Append(a, ide.cwd) /\ DirsOf(ide') = Append(b, ide'.cwd)
  BY DEF DirsOf, a, b
<1> QED BY <1>8, <1>9, <1>10

\* Opening a project sets the variables of its directory and no others.
LEMMA EnvOpened ==
  ASSUME NEW c \in Ide, NEW r, NEW strange, Opens(c, r, strange), r.stack = <<>>,
         EnvIs(c.env, <<>>)
  PROVE  EnvIs(r.env, DirsOf(r))
<1>1. r \in Ide /\ Pushed(c.env, r.cwd, r.env)
  BY DEF Opens
<1>2. DirsOf(r) = Append(<<>>, r.cwd) /\ r.cwd \in Dirs /\ c.env \in [Vars -> Seq(Value)]
  BY <1>1, DirsFacts
<1>3. <<>> \in Seq(Dirs)
  OBVIOUS
<1> QED BY <1>1, <1>2, <1>3, EnvPushed

\* Without a project no variable is set.
LEMMA NoVarsSet == EnvIs(NoVars, <<>>)
<1> SUFFICES ASSUME NEW v \in Vars
             PROVE  /\ Len(NoVars[v]) = Count(<<>>, v, Len(<<>>))
                    /\ Setting(<<>>, v, Len(<<>>)) = {}
  BY DEF EnvIs
<1>1. Len(<<>>) = 0 /\ NoVars[v] = <<>> /\ 1..0 = {}
  BY DEF NoVars
<1>2. Setting(<<>>, v, Len(<<>>)) = {}
  BY <1>1 DEF Setting
<1> QED BY <1>1, <1>2, FS_EmptySet DEF Count

\* Every step keeps the variables those of the open directories.
LEMMA EnvNext ==
  ASSUME TreeInv, StepKinds, EnvInv
  PROVE  EnvInv'
<1> USE StackFacts
<1>0. odd \subseteq odd'
  BY DEF StepKinds, StepOpen, StepStore, StepEnd, StepStay, StepPush, StepPop, StepReset,
         StepWork, StepTyped, vars
<1>a. ASSUME mode' = "off" PROVE ide'.env = NoVars
  <2>1. CASE StepEnd
    BY <2>1 DEF StepEnd
  <2>2. CASE UNCHANGED vars
    BY <1>a, <2>2 DEF vars, EnvInv
  <2> QED BY <1>a, <2>1, <2>2 DEF StepKinds, StepOpen, StepStore, StepStay, StepPush, StepPop,
               StepReset, StepWork, BackToDirectory, Walking
<1> SUFFICES ASSUME odd' \cap {"cancelled", "readonly"} = {}, mode' # "off"
             PROVE  EnvIs(ide'.env, DirsOf(ide'))
  BY <1>a DEF EnvInv
<1>b. mode = "off" => ide.env = NoVars
  BY DEF EnvInv
<1>c. mode # "off" => EnvIs(ide.env, DirsOf(ide))
  BY <1>0 DEF EnvInv
<1>d. ide'.cwd = ide.cwd /\ ide'.stack = ide.stack => DirsOf(ide') = DirsOf(ide)
  BY DEF DirsOf
<1>e. ide.env \in [Vars -> Seq(Value)] /\ ide.cwd \in Dirs
  BY DEF Ide
<1>1. CASE StepOpen
  <2>1. PICK c \in Ide, strange \in SUBSET Hitches :
          /\ Opens(c, ide', strange)
          /\ mode = "off" => c.env = ide.env
          /\ mode = "idle" => Popped(ide.env, ide.cwd, c.env)
    BY <1>1 DEF StepOpen
  <2>2. mode \in {"off", "idle"}
    BY <1>1 DEF StepOpen
  <2>3. EnvIs(c.env, <<>>)
    <3>1. CASE mode = "off"
      BY <1>b, <2>1, <3>1, NoVarsSet
    <3>2. CASE mode = "idle"
      <4>1. DirsOf(ide) = Append(<<>>, ide.cwd)
        BY <1>1, OpenedStack, DirsFacts
      <4>2. <<>> \in Seq(Dirs)
        OBVIOUS
      <4> QED BY <1>c, <1>e, <2>1, <3>2, <4>1, <4>2, EnvPopped
    <3> QED BY <2>2, <3>1, <3>2
  <2>4. ide'.stack = <<>>
    BY <1>1, OpenedStack
  <2> QED BY <2>1, <2>3, <2>4, EnvOpened
<1>2. CASE StepStore
  <2>1. ide'.env = ide.env /\ ide'.stack = ide.stack /\ ide'.cwd = ide.cwd /\ mode # "off"
    BY <1>2, KeepsFields DEF StepStore
  <2> QED BY <1>c, <1>d, <2>1
<1>3. CASE StepEnd
  BY <1>3 DEF StepEnd
<1>4. CASE StepStay
  <2>1. ide'.env = ide.env /\ ide'.stack = ide.stack /\ ide'.cwd = ide.cwd /\ mode # "off"
    BY <1>4, KeepsFields DEF StepStay
  <2> QED BY <1>c, <1>d, <2>1
<1>5. CASE StepPush
  <2>1. Pushed(ide.env, ide'.cwd, ide'.env) /\ mode # "off" /\ ide'.cwd \in Dirs
    BY <1>5 DEF StepPush, StepTyped, Ide, Walking
  <2>2. DirsOf(ide') = Append(DirsOf(ide), ide'.cwd) /\ DirsOf(ide) \in Seq(Dirs)
    BY <1>5, DirsPushed
  <2>3. EnvIs(ide.env, DirsOf(ide))
    BY <1>c, <2>1
  <2>4. EnvIs(ide'.env, Append(DirsOf(ide), ide'.cwd))
    BY ONLY <1>e, <2>1, <2>2, <2>3, EnvPushed
  <2> QED BY <2>2, <2>4
<1>6. CASE StepPop
  <2>1. Popped(ide.env, ide.cwd, ide'.env) /\ mode # "off"
    BY <1>6 DEF StepPop, Walking
  <2> QED BY <1>6, <1>c, <1>e, <2>1, DirsPopped, EnvPopped
<1>7. CASE StepReset
  <2>1. ide'.env = ide.env /\ ide'.cwd = ide.cwd /\ mode # "off"
    BY <1>7, KeepsFields DEF StepReset
  <2>2. ide'.stack = ide.stack
    BY <1>7 DEF StepReset
  <2> QED BY <1>c, <1>d, <2>1, <2>2
<1>8. CASE StepWork
  <2>1. ide'.env = ide.env /\ ide'.stack = ide.stack /\ ide'.cwd = ide.cwd /\ mode # "off"
    BY <1>8, KeepsFields DEF StepWork
  <2> QED BY <1>c, <1>d, <2>1
<1>9. CASE BackToDirectory
  <2>1. "readonly" \notin odd /\ mode # "off"
    BY <1>0, <1>9 DEF BackToDirectory
  <2>2. ide.cwd = ide.project_directory /\ ide.cwd \in ide.dirs
    BY <2>1 DEF TreeInv, InPlace
  <2>3. ide' = ide
    BY <1>9, <2>2, ChdirFields DEF BackToDirectory
  <2> QED BY <1>c, <2>1, <2>3
<1>10. CASE UNCHANGED vars
  BY <1>10, <1>c DEF vars
<1> QED BY <1>1, <1>2, <1>3, <1>4, <1>5, <1>6, <1>7, <1>8, <1>9, <1>10 DEF StepKinds

\* The invariant is the property.
LEMMA EnvLast == ASSUME TreeInv, EnvInv PROVE EnvRight
BY DEF EnvInv, EnvIs, Count, Setting, DirsOf, EnvRight

----------------------------------------------------------------------------
(* The two stacks, and the projects of the stack one below the other *)

Above(p, q) ==
  /\ Len(q) <= Len(p)
  /\ \A i \in 1..Len(q) : p[Len(p) - Len(q) + i] = <<q[i].dname, q[i].pname>>
StacksInv == mode = "make" => Above(ide.PRJSTACK, ide.stack)

\* The steps that leave or bring the IDE in a make.
LEMMA ToMake ==
  ASSUME StepKinds, mode' = "make"
  PROVE  \/ StepStay \/ StepPush \/ StepPop \/ (BackToDirectory /\ StepTyped /\ mode = "make")
         \/ UNCHANGED vars
BY DEF StepKinds, StepOpen, StepStore, StepEnd, StepReset, StepWork, BackToDirectory

\* Places at the end of a longer sequence.
LEMMA Shift ==
  ASSUME NEW m \in Nat, NEW n \in Nat, n <= m, NEW i \in 1..n
  PROVE  m - n + i \in 1..m /\ (i # n => m - n + i \in 1..(m - 1))
OBVIOUS

\* The last place.
LEMMA ShiftLast == \A m, n \in Nat : (m + 1) - (n + 1) + (n + 1) = m + 1
OBVIOUS

\* Every step keeps the parents on both stacks.
LEMMA StacksNext ==
  ASSUME TreeInv, StepKinds, StacksInv
  PROVE  StacksInv'
<1> SUFFICES ASSUME mode' = "make" PROVE Above(ide'.PRJSTACK, ide'.stack)
  BY DEF StacksInv
<1>0. /\ ide \in Ide /\ ide.stack \in Seq(Entry) /\ ide.PRJSTACK \in Seq(Dirs \X Names)
      /\ Len(ide.stack) \in Nat /\ Len(ide.PRJSTACK) \in Nat
  BY StackFacts, LenProperties DEF Ide
<1>1. CASE StepStay
  <2>1. CASE mode = "idle"
    <3>1. ide'.stack = <<>> /\ ide'.PRJSTACK = ide.PRJSTACK
      BY <1>1, <2>1 DEF StepStay, TreeInv, Lengths
    <3>2. Len(ide'.stack) = 0 /\ 1..0 = {}
      BY <3>1
    <3> QED BY ONLY <1>0, <3>1, <3>2 DEF Above
  <2>2. CASE mode # "idle"
    BY <1>1, <2>2 DEF StepStay, StacksInv
  <2> QED BY <2>1, <2>2
<1>2. CASE StepPush
  <2> DEFINE x == <<ide.cwd, ide.project_name>>
  <2>1. /\ Above(ide.PRJSTACK, ide.stack) /\ ide'.PRJSTACK = Append(ide.PRJSTACK, x)
        /\ x \in Dirs \X Names
    BY <1>2 DEF StepPush, StacksInv
  <2>2. /\ Len(ide'.stack) = Len(ide.stack) + 1
        /\ \A k \in 1..Len(ide.stack) : ide'.stack[k] = ide.stack[k]
        /\ ide'.stack[Len(ide.stack) + 1].dname = ide.cwd
        /\ ide'.stack[Len(ide.stack) + 1].pname = ide.project_name
    BY <1>2, PushStack
  <2>5. x = <<ide'.stack[Len(ide.stack) + 1].dname, ide'.stack[Len(ide.stack) + 1].pname>>
    BY <2>2
  <2> HIDE DEF x
  <2>3. /\ Len(ide'.PRJSTACK) = Len(ide.PRJSTACK) + 1
        /\ \A k \in 1..Len(ide.PRJSTACK) : ide'.PRJSTACK[k] = ide.PRJSTACK[k]
        /\ ide'.PRJSTACK[Len(ide.PRJSTACK) + 1] = x
    BY <1>0, <2>1, AppendProperties
  <2>4. Len(ide'.PRJSTACK) - Len(ide'.stack) = Len(ide.PRJSTACK) - Len(ide.stack)
        /\ Len(ide'.stack) <= Len(ide'.PRJSTACK)
    BY <1>0, <2>1, <2>2, <2>3 DEF Above
  <2>6. ASSUME NEW i \in 1..Len(ide'.stack)
        PROVE  ide'.PRJSTACK[Len(ide'.PRJSTACK) - Len(ide'.stack) + i] =
                 <<ide'.stack[i].dname, ide'.stack[i].pname>>
    <3>1. CASE i \in 1..Len(ide.stack)
      <4>0. Len(ide.stack) <= Len(ide.PRJSTACK)
        BY <2>1 DEF Above
      <4>1. Len(ide.PRJSTACK) - Len(ide.stack) + i \in 1..Len(ide.PRJSTACK)
        BY ONLY <1>0, <3>1, <4>0, Shift
      <4>2. ide'.PRJSTACK[Len(ide.PRJSTACK) - Len(ide.stack) + i] =
              ide.PRJSTACK[Len(ide.PRJSTACK) - Len(ide.stack) + i]
        BY <2>3, <4>1
      <4> QED BY <2>1, <2>2, <2>4, <3>1, <4>2 DEF Above
    <3>2. CASE i = Len(ide.stack) + 1
      <4>1. Len(ide'.PRJSTACK) - Len(ide'.stack) + i = Len(ide.PRJSTACK) + 1
        <5>1. Len(ide'.PRJSTACK) = Len(ide.PRJSTACK) + 1 /\ Len(ide'.stack) = Len(ide.stack) + 1
          BY <2>2, <2>3
        <5>2. \A m, n \in Nat : (m + 1) - (n + 1) + (n + 1) = m + 1
          BY ONLY ShiftLast
        <5>3. (Len(ide.PRJSTACK) + 1) - (Len(ide.stack) + 1) + (Len(ide.stack) + 1) = Len(ide.PRJSTACK) + 1
          BY ONLY <1>0, <5>2
        <5> QED BY ONLY <3>2, <5>1, <5>3
      <4> QED BY <2>3, <2>5, <3>2, <4>1
    <3>3. i \in 1..Len(ide.stack) \/ i = Len(ide.stack) + 1
      BY ONLY <1>0, <2>2, <2>6
    <3> QED BY <3>1, <3>2, <3>3
  <2> QED BY <2>4, <2>6 DEF Above
<1>3. CASE StepPop
  <2>1. Above(ide.PRJSTACK, ide.stack) /\ mode = "make"
    BY <1>3 DEF StepPop, StacksInv
  <2>2. /\ Len(ide.stack) \in Nat \ {0} /\ Len(ide'.stack) = Len(ide.stack) - 1
        /\ \A k \in 1..(Len(ide.stack) - 1) : ide'.stack[k] = ide.stack[k]
    BY <1>3, PopStack
  <2>3. ide.PRJSTACK # <<>>
    <3>1. Len(ide.PRJSTACK) # 0
      BY <1>0, <2>1, <2>2 DEF Above
    <3> QED BY <1>0, <3>1, EmptySeq
  <2>4. ide'.PRJSTACK = Front(ide.PRJSTACK)
    BY <1>3, <2>1, <2>3 DEF StepPop
  <2>5. /\ Len(ide'.PRJSTACK) = Len(ide.PRJSTACK) - 1
        /\ \A k \in 1..(Len(ide.PRJSTACK) - 1) : ide'.PRJSTACK[k] = ide.PRJSTACK[k]
    BY ONLY <1>0, <2>3, <2>4, FrontFacts
  <2>6. Len(ide'.PRJSTACK) - Len(ide'.stack) = Len(ide.PRJSTACK) - Len(ide.stack)
        /\ Len(ide'.stack) <= Len(ide'.PRJSTACK)
    BY <1>0, <2>1, <2>2, <2>5 DEF Above
  <2>7. ASSUME NEW i \in 1..Len(ide'.stack)
        PROVE  ide'.PRJSTACK[Len(ide'.PRJSTACK) - Len(ide'.stack) + i] =
                 <<ide'.stack[i].dname, ide'.stack[i].pname>>
    <3>1. i \in 1..(Len(ide.stack) - 1) /\ i \in 1..Len(ide.stack)
      BY <1>0, <2>2, <2>7
    <3>0. Len(ide.stack) <= Len(ide.PRJSTACK)
      BY <2>1 DEF Above
    <3>2. Len(ide.PRJSTACK) - Len(ide.stack) + i \in 1..(Len(ide.PRJSTACK) - 1)
      <4>1. i # Len(ide.stack)
        BY ONLY <1>0, <3>1
      <4> QED BY ONLY <1>0, <3>0, <3>1, <4>1, Shift
    <3>3. ide'.PRJSTACK[Len(ide.PRJSTACK) - Len(ide.stack) + i] =
            ide.PRJSTACK[Len(ide.PRJSTACK) - Len(ide.stack) + i]
      BY <2>5, <3>2
    <3> QED BY <2>1, <2>2, <2>6, <3>1, <3>3 DEF Above
  <2> QED BY <2>6, <2>7 DEF Above
<1>4. CASE BackToDirectory /\ mode = "make"
  <2>1. Keeps(ide, ide', {"cwd"})
    BY <1>0, <1>4, ChdirFields DEF BackToDirectory
  <2>2. ide'.PRJSTACK = ide.PRJSTACK /\ ide'.stack = ide.stack
    BY <1>0, <2>1, KeepsFields
  <2> QED BY <1>4, <2>2 DEF StacksInv
<1>5. CASE UNCHANGED vars
  BY <1>5 DEF vars, StacksInv
<1> QED BY <1>1, <1>2, <1>3, <1>4, <1>5, ToMake

\* The invariant is the property.
LEMMA StacksLast == ASSUME TreeInv, StacksInv PROVE StacksAgree
<1>1. Len(ide.PRJSTACK) \in Nat /\ Len(ide.stack) \in Nat /\ DOMAIN ide.stack = 1..Len(ide.stack)
  BY StackFacts, LenProperties DEF Ide
<1>2. mode \in {"off", "idle"} => ide.stack = <<>>
  BY DEF TreeInv, Lengths
<1>3. mode = "make" => /\ Len(ide.PRJSTACK) - Len(ide.stack) >= 0
                       /\ \A i \in DOMAIN ide.stack :
                            ide.PRJSTACK[Len(ide.PRJSTACK) - Len(ide.stack) + i] =
                              <<ide.stack[i].dname, ide.stack[i].pname>>
  <2>1. mode = "make" => Len(ide.stack) <= Len(ide.PRJSTACK)
    BY DEF StacksInv, Above
  <2>2. mode = "make" => Len(ide.PRJSTACK) - Len(ide.stack) >= 0
    BY ONLY <1>1, <2>1
  <2> QED BY <1>1, <2>2 DEF StacksInv, Above
<1> QED BY <1>2, <1>3 DEF StacksAgree

\* rank falls from a project to its sub-projects: what is open falls too
Falling(rank) ==
  /\ \A j, k \in DOMAIN ide.stack :
       j < k => rank[ide.stack[k].project.of] < rank[ide.stack[j].project.of]
  /\ \A j \in DOMAIN ide.stack : rank[ide.project.of] < rank[ide.stack[j].project.of]
\* a make walks the projects that are open
WalksOpen ==
  /\ \A k \in DOMAIN ide.stack : at[k].of = ide.stack[k].project.of
  /\ at[Len(ide.stack) + 1].of = ide.project.of
ChainInv(rank) ==
  /\ ide.dirs = Dirs => Falling(rank)
  /\ mode = "make" => WalksOpen
Ranked(rank) ==
  rank \in [Path -> Nat] /\ \A f \in Path : \A g \in Range(Subs[f]) : g \in Path => rank[g] < rank[f]

\* Every step keeps the ranks falling, and a make in what is open.
LEMMA ChainNext ==
  ASSUME NEW rank, Ranked(rank), TreeInv, StepKinds, ChainInv(rank)
  PROVE  ChainInv(rank)'
<1> DEFINE D == ide.dirs = Dirs
<1>0. /\ ide \in Ide /\ ide.stack \in Seq(Entry) /\ Len(ide.stack) \in Nat
      /\ DOMAIN ide.stack = 1..Len(ide.stack)
  BY StackFacts
<1>1. CASE StepOpen \/ StepStore \/ StepEnd \/ StepReset
  <2>1. ide'.stack = <<>> /\ mode' # "make"
    BY <1>1, <1>0, OpenedStack, KeepsFields DEF StepOpen, StepStore, StepEnd, StepReset
  <2>2. DOMAIN ide'.stack = {}
    BY ONLY <2>1
  <2> QED BY <2>1, <2>2 DEF ChainInv, Falling
<1>2. CASE StepStay
  <2>1. ide'.stack = ide.stack /\ ide'.project = ide.project /\ ide'.dirs = ide.dirs
    BY <1>0, <1>2, KeepsFields DEF StepStay
  <2>2. CASE mode = "idle"
    <3>1. ide.stack = <<>> /\ at' = <<Level(ide.project.of)>>
      BY <1>2, <2>2 DEF StepStay, TreeInv, Lengths
    <3>2. DOMAIN ide.stack = {} /\ Len(ide.stack) = 0
      BY <3>1
    <3>3. at'[1].of = ide.project.of
      BY <3>1 DEF Level
    <3> QED BY <2>1, <3>2, <3>3 DEF ChainInv, Falling, WalksOpen
  <2>3. CASE mode # "idle"
    <3>1. mode' = "make" =>
            /\ mode = "make" /\ Len(at) = Len(ide.stack) + 1
            /\ \A k \in 1..Len(at) : at'[k].of = at[k].of
      BY <1>2, <2>3, LenProperties DEF StepStay, TreeInv, Lengths
    <3>2. mode' = "make" => WalksOpen'
      <4> SUFFICES ASSUME mode' = "make" PROVE WalksOpen'
        OBVIOUS
      <4>1. WalksOpen /\ \A k \in 1..(Len(ide.stack) + 1) : at'[k].of = at[k].of
        BY <3>1 DEF ChainInv
      <4> QED BY <1>0, <2>1, <4>1, SMTT(30) DEF WalksOpen
    <3> QED BY <2>1, <3>2 DEF ChainInv, Falling
  <2> QED BY <2>2, <2>3
<1>3. CASE StepPush
  <2>1. ide'.dirs = ide.dirs
    BY <1>0, <1>3, KeepsFields, SMTT(30) DEF StepPush, StepFields, WalkFields
  <2>2. /\ Len(ide'.stack) = Len(ide.stack) + 1 /\ DOMAIN ide'.stack = 1..(Len(ide.stack) + 1)
        /\ \A k \in 1..Len(ide.stack) : ide'.stack[k] = ide.stack[k]
        /\ ide'.stack[Len(ide.stack) + 1].project = ide.project
    BY <1>3, PushStack
  <2>3. /\ at' = Append(at, Level(ide'.project.of)) /\ Level(ide'.project.of) \in Levels
        /\ mode' = mode /\ Walking /\ at \in Seq(Levels)
    BY <1>3 DEF StepPush, TreeInv, Typed
  <2>4. mode = "make" => Len(at) = Len(ide.stack) + 1 /\ Last(at).of = ide.project.of
    <3> SUFFICES ASSUME mode = "make"
                 PROVE  Len(at) = Len(ide.stack) + 1 /\ Last(at).of = ide.project.of
      OBVIOUS
    <3>1. Len(at) = Len(ide.stack) + 1 /\ WalksOpen
      BY DEF TreeInv, Lengths, ChainInv
    <3> QED BY <3>1 DEF WalksOpen, Last
  <2>5. mode' = "make" => WalksOpen'
    <3> SUFFICES ASSUME mode = "make" PROVE WalksOpen'
      BY <2>3
    <3>1. /\ \A k \in 1..Len(at) : at'[k] = at[k]
          /\ at'[Len(at) + 1] = Level(ide'.project.of)
      BY <2>3, AppendProperties
    <3>2. WalksOpen
      BY DEF ChainInv
    <3>3. Level(ide'.project.of).of = ide'.project.of
      BY DEF Level
    <3>4. ASSUME NEW k \in DOMAIN ide'.stack PROVE at'[k].of = ide'.stack[k].project.of
      <4>1. CASE k \in 1..Len(ide.stack)
        BY <1>0, <2>2, <2>4, <3>1, <3>2, <4>1 DEF WalksOpen
      <4>2. CASE k = Len(ide.stack) + 1
        BY <1>0, <2>2, <2>4, <3>1, <3>2, <4>2 DEF WalksOpen
      <4> QED BY <1>0, <2>2, <4>1, <4>2
    <3> QED BY <2>2, <2>4, <3>1, <3>3, <3>4 DEF WalksOpen
  <2>6. ide'.dirs = Dirs => Falling(rank)'
    <3> SUFFICES ASSUME D PROVE Falling(rank)'
      BY <2>1
    <3>1. Falling(rank)
      BY DEF ChainInv
    <3>2. ide'.project.of \in Range(Subs[ide.project.of])
      BY <1>3, <2>3, <2>4 DEF StepPush
    <3>3. ide'.project.of \in Path /\ ide.project.of \in Path
      BY <1>3 DEF StepPush, StepTyped, Placed, Ide, Project, TreeInv, Typed, InPlace, Walking
    <3>4. /\ rank[ide'.project.of] < rank[ide.project.of]
          /\ rank[ide'.project.of] \in Nat /\ rank[ide.project.of] \in Nat
      BY <3>2, <3>3 DEF Ranked
    <3>5. \A j \in DOMAIN ide.stack : rank[ide.stack[j].project.of] \in Nat
      <4>1. \A j \in DOMAIN ide.stack : ide.stack[j] \in Entry
        BY ONLY <1>0, ElementOfSeq
      <4> QED BY <4>1 DEF Ranked, Entry, Project
    <3> DEFINE n == Len(ide.stack) + 1
    <3>6. \A j \in 1..Len(ide.stack) : ide'.stack[j] = ide.stack[j] /\ j \in DOMAIN ide.stack
      BY <1>0, <2>2
    <3>7. ide'.stack[n].project = ide.project
      BY <2>2
    <3>8. \A j \in DOMAIN ide'.stack : j \in 1..Len(ide.stack) \/ j = n
      BY <1>0, <2>2
    <3>9. \A j, k \in DOMAIN ide'.stack : j < k => j \in 1..Len(ide.stack)
      BY <1>0, <2>2
    <3> HIDE DEF n
    <3>10. \A j \in DOMAIN ide'.stack : rank[ide'.project.of] < rank[ide'.stack[j].project.of]
      BY <3>1, <3>4, <3>5, <3>6, <3>7, <3>8, SMTT(30) DEF Falling
    <3>11. ASSUME NEW j \in DOMAIN ide'.stack, NEW k \in DOMAIN ide'.stack, j < k
           PROVE  rank[ide'.stack[k].project.of] < rank[ide'.stack[j].project.of]
      <4>1. j \in 1..Len(ide.stack)
        BY <3>9, <3>11
      <4>2. CASE k \in 1..Len(ide.stack)
        BY <3>1, <3>6, <3>11, <4>1, <4>2 DEF Falling
      <4>3. CASE k = n
        BY <3>1, <3>6, <3>7, <4>1, <4>3 DEF Falling
      <4> QED BY <3>8, <4>2, <4>3
    <3> QED BY <3>10, <3>11 DEF Falling
  <2> QED BY <2>5, <2>6 DEF ChainInv
<1>4. CASE StepPop
  <2>1. ide'.dirs = ide.dirs
    BY <1>0, <1>4, KeepsFields DEF StepPop, StepFields, WalkFields
  <2>2. /\ Len(ide.stack) \in Nat \ {0} /\ Len(ide'.stack) = Len(ide.stack) - 1
        /\ DOMAIN ide'.stack = 1..(Len(ide.stack) - 1)
        /\ \A k \in 1..(Len(ide.stack) - 1) : ide'.stack[k] = ide.stack[k]
        /\ ide'.project = ide.stack[Len(ide.stack)].project
    BY <1>4, PopStack DEF StepPop
  <2>3. mode' = "make" =>
          /\ mode = "make" /\ Len(at) = Len(ide.stack) + 1
          /\ \A k \in 1..Len(ide.stack) : at'[k].of = at[k].of
    <3>1. /\ mode' = mode
          /\ mode = "clean" \/ \A k \in 1..(Len(at) - 1) : at'[k].of = at[k].of
      BY <1>4 DEF StepPop
    <3>2. mode = "make" => Len(at) = Len(ide.stack) + 1 /\ Len(at) - 1 = Len(ide.stack)
      BY <1>0 DEF TreeInv, Lengths
    <3> QED BY <3>1, <3>2
  <2>4. mode' = "make" => WalksOpen'
    <3> SUFFICES ASSUME mode' = "make" PROVE WalksOpen'
      OBVIOUS
    <3>1. WalksOpen
      BY <2>3 DEF ChainInv
    <3>2. \A k \in 1..Len(ide.stack) : at'[k].of = ide.stack[k].project.of
      BY <1>0, <2>3, <3>1 DEF WalksOpen
    <3>3. Len(ide'.stack) + 1 = Len(ide.stack) /\ Len(ide.stack) \in 1..Len(ide.stack)
          /\ \A k \in DOMAIN ide'.stack : k \in 1..Len(ide.stack) /\ ide'.stack[k] = ide.stack[k]
      BY <2>2
    <3> QED BY <2>2, <3>2, <3>3 DEF WalksOpen
  <2>5. ide'.dirs = Dirs => Falling(rank)'
    <3> SUFFICES ASSUME D PROVE Falling(rank)'
      BY <2>1
    <3>1. Falling(rank)
      BY DEF ChainInv
    <3>2. Len(ide.stack) \in DOMAIN ide.stack
          /\ \A k \in DOMAIN ide'.stack : k \in DOMAIN ide.stack /\ ide'.stack[k] = ide.stack[k]
                                         /\ k < Len(ide.stack)
      BY <1>0, <2>2
    <3> QED BY <2>2, <3>1, <3>2 DEF Falling
  <2> QED BY <2>4, <2>5 DEF ChainInv
<1>5. CASE StepWork
  <2>1. /\ ide'.stack = <<>> /\ mode' # "make"
    BY <1>0, <1>5, KeepsFields DEF StepWork, TreeInv, Lengths
  <2>2. DOMAIN ide'.stack = {}
    BY ONLY <2>1
  <2> QED BY <2>1, <2>2 DEF ChainInv, Falling
<1>6. CASE BackToDirectory
  <2>1. Keeps(ide, ide', {"cwd"}) /\ mode' = mode /\ at' = at
    BY <1>0, <1>6, ChdirFields DEF BackToDirectory
  <2>2. ide'.project = ide.project /\ ide'.stack = ide.stack /\ ide'.dirs = ide.dirs
    BY <1>0, <2>1, KeepsFields
  <2> QED BY <2>1, <2>2 DEF ChainInv, Falling, WalksOpen
<1>7. CASE UNCHANGED vars
  BY <1>7 DEF vars, ChainInv, Falling, WalksOpen
<1> QED BY <1>1, <1>2, <1>3, <1>4, <1>5, <1>6, <1>7 DEF StepKinds

\* What falls in rank is open once.
LEMMA ChainLast ==
  ASSUME NEW rank, Ranked(rank), TreeInv, ChainInv(rank)
  PROVE  NoProjectTwice
<1> DEFINE a == [i \in DOMAIN ide.stack |-> ide.stack[i].project.of]
           open == Append(a, ide.project.of)
           n == Len(ide.stack)
<1> SUFFICES ASSUME mode # "off", ide.dirs = Dirs PROVE IsInjective(open)
  BY DEF NoProjectTwice
<1>1. /\ ide.stack \in Seq(Entry) /\ n \in Nat /\ DOMAIN ide.stack = 1..n
      /\ ide.project.of \in Path
  BY StackFacts DEF TreeInv, InPlace, Placed, Typed, Ide, Project
<1>2. Falling(rank)
  BY DEF ChainInv
<1>3. \A i \in 1..n : ide.stack[i].project.of \in Path
  <2>1. \A i \in 1..n : ide.stack[i] \in Entry
    BY ONLY <1>1, ElementOfSeq
  <2> QED BY <2>1 DEF Entry, Project
<1>4. a \in Seq(Path) /\ Len(a) = n
  <2>1. a = [i \in 1..n |-> ide.stack[i].project.of]
    BY <1>1
  <2>2. a \in [1..n -> Path]
    BY <1>3, <2>1
  <2>3. a \in Seq(Path)
    BY <1>1, <2>2, SeqDef
  <2>4. Len(a) \in Nat /\ DOMAIN a = 1..Len(a) /\ DOMAIN a = 1..n
    BY <2>1, <2>3, LenProperties
  <2> QED BY <1>1, <2>3, <2>4
<1>5. /\ Len(open) = n + 1 /\ open \in Seq(Path)
      /\ \A i \in 1..n : open[i] = a[i]
      /\ open[n + 1] = ide.project.of
  <2> HIDE DEF a
  <2> QED BY <1>1, <1>4, AppendProperties
<1>6. \A i \in 1..n : open[i] = ide.stack[i].project.of
  BY <1>1, <1>5
<1> HIDE DEF open, a
<1>7. DOMAIN open = 1..(n + 1)
  BY <1>5, LenProperties
<1>8. \A j, k \in 1..(n + 1) : j < k => rank[open[k]] < rank[open[j]]
  <2> TAKE j, k \in 1..(n + 1)
  <2> HAVE j < k
  <2>1. j \in 1..n /\ (k \in 1..n \/ k = n + 1)
    BY <1>1
  <2>2. CASE k \in 1..n
    BY <1>1, <1>2, <1>6, <2>1, <2>2 DEF Falling
  <2>3. CASE k = n + 1
    BY <1>1, <1>2, <1>5, <1>6, <2>1, <2>3 DEF Falling
  <2> QED BY <2>1, <2>2, <2>3
<1>9. \A j \in 1..(n + 1) : rank[open[j]] \in Nat
  BY <1>1, <1>3, <1>5, <1>6 DEF Ranked
<1>10. \A j, k \in 1..(n + 1) : open[j] = open[k] => j = k
  <2> TAKE j, k \in 1..(n + 1)
  <2> HAVE open[j] = open[k]
  <2>1. j < k \/ k < j \/ j = k
    BY <1>1
  <2>2. ~(rank[open[j]] < rank[open[k]]) /\ ~(rank[open[k]] < rank[open[j]])
    BY <1>9
  <2> QED BY <1>8, <2>1, <2>2
<1> QED BY <1>7, <1>10 DEF IsInjective

\* The types follow from the invariant.
LEMMA TypesLast == ASSUME TreeInv PROVE TypeOK
<1>1. ide \in Ide /\ at \in Seq(Levels) /\ mode \in {"off", "idle", "make", "clean", "spec"}
      /\ odd \subseteq Odds
  BY DEF TreeInv, Typed
<1>2. /\ ide.cwd \in ide.dirs /\ ide.dirs \subseteq Dirs /\ ide.project \in Project \cup {NONE}
      /\ ide.disk \in [Path -> Project \cup {NONE}]
      /\ ide.env \in [Vars -> Seq(UNION {Range(EnvFile[d]) : d \in Dirs})]
  BY <1>1 DEF TreeInv, InPlace, Ide, Value
<1>3. (mode = "off") = (ide.project = NONE)
  BY DEF TreeInv, InPlace, Placed
<1>4. Walking = (at # <<>>)
  <2>1. Len(ide.stack) \in Nat /\ (at = <<>> => Len(at) = 0)
    BY StackFacts
  <2>2. Walking => Len(at) >= 1
    BY <2>1 DEF Walking, TreeInv, Lengths
  <2>3. ~Walking => at = <<>>
    BY <1>1 DEF Walking, TreeInv, Lengths
  <2>4. Walking => at # <<>>
    BY <2>1, <2>2
  <2>5. Walking <=> at # <<>>
    BY <2>3, <2>4
  <2> QED BY <2>5 DEF Walking
<1> QED BY <1>1, <1>2, <1>3, <1>4 DEF TypeOK, Odds

\* So does the agreement of the globals.
LEMMA ContextLast == ASSUME TreeInv PROVE ContextAgrees
<1>1. mode = "off" \/ "readonly" \in odd \/
        (ide.cwd = ide.project_directory
         /\ ide.project.of = IF ide.project_name = NONE THEN Std ELSE <<ide.cwd, ide.project_name>>)
  BY DEF TreeInv, InPlace, Placed
<1>2. \A e \in Range(ide.stack) : e.project.of = <<e.dname, e.pname>>
  BY DEF TreeInv, InPlace, Range
<1> QED BY <1>1, <1>2 DEF ContextAgrees

\* When sub-projects are not nested in themselves (rank falls from a project to
\* its items), everything that says which project is open agrees: object, name,
\* directories, variables of rhide.env, options and both stacks, at every level
\* of a walk and after every way out of it (idemak.cc:665-748,
\* ideprj.cc:1145-1298, ideenv.cc:183-193).
THEOREM ContextAlwaysRight ==
  ASSUME NEW rank \in [Path -> Nat],
         \A f \in Path : \A g \in Range(Subs[f]) : rank[g] < rank[f]
  PROVE  Spec => []ContextRight
<1>0. Ranked(rank)
  BY DEF Ranked
<1>1. Init => OptionsOfCurrent /\ EnvInv /\ StacksInv /\ ChainInv(rank)
  <2> SUFFICES ASSUME Init PROVE OptionsOfCurrent /\ EnvInv /\ StacksInv /\ ChainInv(rank)
    OBVIOUS
  <2>1. mode = "off" /\ ide.stack = <<>> /\ ide.env = NoVars
    BY DEF Init
  <2>2. DOMAIN ide.stack = {}
    BY ONLY <2>1
  <2> QED BY <2>1, <2>2 DEF OptionsOfCurrent, EnvInv, StacksInv, ChainInv, Falling
<1>2. TreeInv /\ OptionsOfCurrent /\ EnvInv /\ StacksInv /\ ChainInv(rank) /\ [Next]_vars =>
        (OptionsOfCurrent /\ EnvInv /\ StacksInv /\ ChainInv(rank))'
  BY <1>0, NextIs, OptionsNext, EnvNext, StacksNext, ChainNext
<1>3. TreeInv /\ OptionsOfCurrent /\ EnvInv /\ StacksInv /\ ChainInv(rank) => ContextRight
  BY <1>0, TypesLast, ContextLast, EnvLast, StacksLast, ChainLast DEF ContextRight
<1> QED BY <1>1, <1>2, <1>3, TreeAlways, PTL DEF Spec

----------------------------------------------------------------------------
(* A walk only gets on *)

\* The next item is after this one.
LEMMA NextAfter ==
  ASSUME TreeInv, Walking, at' = Next1
  PROVE  After(at, at')
<1>1. at \in Seq(Levels) /\ Len(at) \in Nat \ {0}
  BY WalkPlaced
<1>2. at[Len(at)] \in Levels
  BY ONLY <1>1, ElementOfSeq
<1> DEFINE k == Len(at)
<1>3. k \in 1..Len(at)
  BY <1>1
<1>4. /\ at' = [at EXCEPT ![k].i = @ + 1]
  BY DEF Next1
<1> HIDE DEF k
<1>5. /\ at' \in Seq(Levels) /\ Len(at') = Len(at) /\ at'[k].i = at[k].i + 1
      /\ \A j \in 1..Len(at) : j # k => at'[j] = at[j]
  BY <1>1, <1>3, <1>4, AdvanceFacts
<1>6. k \in DOMAIN at \cap DOMAIN at'
  BY <1>1, <1>3, <1>5, LenProperties
<1>7. at'[k].i > at[k].i
  BY <1>2, <1>5 DEF Levels, k
<1>8. \A j \in 1..(k - 1) : at[j] = at'[j]
  BY <1>1, <1>3, <1>5
<1> QED BY <1>6, <1>7, <1>8 DEF After

\* A sub-project is after the item it is.
LEMMA EnterAfter ==
  ASSUME TreeInv, Enter
  PROVE  After(at, at')
<1>1. StepPush
  BY EnterIs
<1> DEFINE x == Level(ide'.project.of)
<1>2. at \in Seq(Levels) /\ at' = Append(at, x) /\ x \in Levels
  BY <1>1 DEF StepPush, TreeInv, Typed
<1> HIDE DEF x
<1>3. /\ Len(at') = Len(at) + 1 /\ Len(at) \in Nat /\ at' \in Seq(Levels)
      /\ \A i \in 1..Len(at) : at'[i] = at[i]
  BY <1>2, AppendProperties, LenProperties
<1>4. at # at'
  BY <1>3
<1>5. IsPrefix(at, at')
  <2> DEFINE n == Len(at)
             b == SubSeq(at, 1, n)
             c == SubSeq(at', 1, n)
  <2>1. \A i \in 1..n : at[i] \in Levels /\ at'[i] = at[i]
    BY <1>2, <1>3, ElementOfSeq
  <2> HIDE DEF n
  <2>2. /\ n \in Nat /\ 1 \in Int /\ n \in Int /\ \A i \in 1..n : at[i] \in Levels
        /\ \A i \in 1..n : at'[i] \in Levels
    BY <1>3, <2>1 DEF n
  <2>3. /\ b \in Seq(Levels) /\ Len(b) = IF 1 <= n THEN n - 1 + 1 ELSE 0
        /\ \A i \in 1..(n - 1 + 1) : b[i] = at[1 + i - 1]
    BY ONLY <2>2, SubSeqProperties
  <2>4. /\ c \in Seq(Levels) /\ Len(c) = IF 1 <= n THEN n - 1 + 1 ELSE 0
        /\ \A i \in 1..(n - 1 + 1) : c[i] = at'[1 + i - 1]
    BY ONLY <2>2, SubSeqProperties
  <2> HIDE DEF b, c
  <2>5. Len(b) = Len(c) /\ \A i \in 1..Len(b) : b[i] = c[i]
    BY <2>1, <2>2, <2>3, <2>4
  <2>6. b = c
    BY ONLY <2>3, <2>4, <2>5, SeqEqual
  <2>7. Len(at) <= Len(at')
    BY <1>3
  <2> QED BY <2>6, <2>7 DEF IsPrefix, n, b, c
<1> QED BY <1>4, <1>5 DEF After

\* What follows a sub-project is after it.
LEMMA LeaveAfter ==
  ASSUME TreeInv, Leave
  PROVE  After(at, at')
<1> DEFINE q == Front(at)
           k == Len(at) - 1
<1>1. at \in Seq(Levels) /\ at # <<>> /\ Len(at) > 1 /\ Walking
  BY WalkPlaced DEF Leave
<1>2. /\ q \in Seq(Levels) /\ Len(q) = k /\ Len(at) \in Nat
      /\ \A i \in 1..k : q[i] = at[i]
  BY ONLY <1>1, FrontFacts
<1>3. at' = [q EXCEPT ![Len(q)].i = @ + 1]
  BY DEF Leave
<1> HIDE DEF q
<1>4. k \in 1..Len(q) /\ Len(q) = k
  BY <1>1, <1>2
<1> HIDE DEF k
<1>5. /\ at' \in Seq(Levels) /\ Len(at') = Len(q) /\ at'[k].i = q[k].i + 1
      /\ \A j \in 1..Len(q) : j # k => at'[j] = q[j]
  BY <1>2, <1>3, <1>4, AdvanceFacts
<1>6. k \in DOMAIN at \cap DOMAIN at'
  <2>1. DOMAIN at = 1..Len(at) /\ DOMAIN at' = 1..Len(at') /\ Len(at) \in Nat
    BY <1>1, <1>5, LenProperties
  <2> QED BY <1>1, <1>2, <1>4, <1>5, <2>1 DEF k
<1>7. at'[k].i > at[k].i
  <2>1. q[k] \in Levels
    BY ONLY <1>2, <1>4, ElementOfSeq
  <2> QED BY <1>2, <1>4, <1>5, <2>1 DEF Levels
<1>8. \A j \in 1..(k - 1) : at[j] = at'[j]
  BY <1>2, <1>4, <1>5
<1> QED BY <1>6, <1>7, <1>8 DEF After

\* A walk over the sub-projects never comes back to an item it has passed:
\* a sub-project that was left, could not be read or was left alone is
\* followed by the next item of the project above it (idegcc.cc:618-639,
\* ideprj.cc:1962-1974).
THEOREM WalksAlwaysProceed == Spec => WalksProceed
<1>1. TreeInv /\ [Next]_vars => [Walking /\ mode' = mode /\ at' # at => After(at, at')]_vars
  <2> SUFFICES ASSUME TreeInv, Next, Walking, mode' = mode, at' # at PROVE After(at, at')
    BY DEF vars
  <2>1. CASE WalkStep
    <3>1. CASE Enter
      BY <3>1, EnterAfter
    <3>2. CASE EnterFails
      <4>1. at' = Next1
        BY <3>2 DEF EnterFails, Abort, Over, Walking
      <4> QED BY <4>1, NextAfter
    <3>3. CASE CompileFails
      BY <3>3 DEF CompileFails, Abort, Over
    <3>4. CASE LeaveAlone
      BY <3>4, NextAfter DEF LeaveAlone
    <3>5. CASE Leave
      BY <3>5, LeaveAfter
    <3>6. CASE Finish
      BY <3>6 DEF Finish, Walking
    <3> QED BY <2>1, <3>1, <3>2, <3>3, <3>4, <3>5, <3>6 DEF WalkStep
  <2>2. CASE ~WalkStep
    <3>1. mode # "off" /\ mode # "idle"
      BY DEF Walking
    <3> QED BY <2>2, <3>1 DEF Next, Start, cmOpenProject, Begin, cmCloseProject, cmSelectProject,
                 cmQuit, Crash, Work, DosShell, BackToDirectory
  <2> QED BY <2>1, <2>2
<1> QED BY <1>1, TreeAlways, PTL DEF Spec, WalksProceed
=============================================================================
