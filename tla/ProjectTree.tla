---------------------------- MODULE ProjectTree ----------------------------
(***************************************************************************)
(* Projects, sub-projects and what belongs to the current one: working     *)
(* directory, project directory, desktop file, variables of rhide.env and  *)
(* the options in force (ideprj.cc, idemak.cc, ideenv.cc).                  *)
(*                                                                         *)
(* There are two stacks.  PROJECT_STACK holds the parents while a make, a  *)
(* clean or the expansion of $(OBJFILES) is inside a sub-project.          *)
(* PRJSTACK holds what "Close project" goes back to.                        *)
(*                                                                         *)
(* The functions of the code are operators from one state of the IDE (a    *)
(* record s) to the next, because the commands compose them.               *)
(***************************************************************************)
EXTENDS Naturals, Sequences, SequencesExt, FiniteSets, TLC

CONSTANTS
  Dirs,        \* directories
  Names,       \* base names of project files
  StdDir,      \* the directory of the standard project rhide.gpr
  StdName,     \* its base name
  Subs,        \* Subs[f]: the sub-projects among the items of f, in order
  EnvFile,     \* EnvFile[d]: the variables rhide.env of d sets
  Vars,        \* variables of RHIDE
  MaxEnv,      \* values of one when a make is cancelled
  ReadOnly,    \* directories no file can be created in
  Worlds,      \* disks and options to begin with: the project files that are
               \* missing, the directories that are gone, and the option
               \* SaveProjectOnlyWhenClosing
  StartDirs,   \* bound: where RHIDE is started
  Given,       \* bound: the projects named on the command line
  Chosen,      \* bound: the projects selected by name
  MaxVer,      \* bound: MaxVer[f] edits of the project f
  MaxDepth,    \* bound: projects on PROJECT_STACK
  MaxBack,     \* bound: projects on PRJSTACK when a command begins
  MaxOdd,      \* bound: how many kinds of unusual use are combined
  NONE, NOWHERE

Std == <<StdDir, StdName>>
Path == Dirs \X (Names \cup {StdName})
Project == [of : Path, ver : Nat]

\* the standard project is read and written, but never chosen nor an item
ASSUME TreeAssumption ==
  /\ StdDir \in Dirs /\ StdName \notin Names /\ MaxVer \in [Path -> Nat]
  /\ Subs \in [Path -> Seq(Dirs \X Names)]
  /\ Given \cup Chosen \subseteq Dirs \X Names /\ StartDirs \subseteq Dirs
  /\ Worlds \subseteq [missing : SUBSET Path, gone : SUBSET (Dirs \ {StdDir}),
                       only : BOOLEAN]
  /\ \A d \in Dirs : DOMAIN EnvFile[d] \subseteq Vars
  /\ NONE \notin Dirs \cup Names \cup {StdName, NOWHERE}
  /\ NONE \notin Path /\ NONE \notin Project
  /\ NOWHERE \notin Names \cup {StdName}

VARIABLES
  ide,     \* the globals and the disk, see Init
  mode,    \* "off", "idle", or the walk that is on: "make", "clean", "spec"
  at,      \* the walk: for each level the project, the next item, the count
  newest,  \* newest[f]: the last version of project f the user has made
  odd      \* what has happened that careful use avoids

vars == <<ide, mode, at, newest, odd>>

Noted(xs) == /\ odd' = odd \cup xs
             /\ xs \subseteq odd \/ Cardinality(odd') <= MaxOdd
Walking == mode \in {"make", "clean", "spec"}

----------------------------------------------------------------------------
(* Disk, directories, rhide.env *)

Chdir(s, d) == IF d \in s.dirs THEN [s EXCEPT !.cwd = d] ELSE s
Writable(s) == s.cwd \notin ReadOnly
Here(s, n) == IF n = StdName THEN Std ELSE <<s.cwd, n>>
NoVars == [v \in Vars |-> <<>>]
EnvironmentStays(s) == s               \* mutant: the variables are kept
\* a variable set twice hides its old value, and the new one is removed first
push_environment(s) ==
  [s EXCEPT !.env = [v \in Vars |-> IF v \in DOMAIN EnvFile[s.cwd]
                                    THEN <<EnvFile[s.cwd][v]>> \o @[v] ELSE @[v]]]
pop_environment(s) ==
  [s EXCEPT !.env = [v \in Vars |-> IF v \in DOMAIN EnvFile[s.cwd] /\ @[v] # <<>>
                                    THEN Tail(@[v]) ELSE @[v]]]

\* open_ifpstream succeeds and the magic and version are right
ReadProject(s, f) ==
  [s EXCEPT !.project = s.disk[f],
            !.project_directory = IF s.disk[f] = NONE THEN @ ELSE s.cwd]

SaveTo(s, f) == IF f[1] \in ReadOnly THEN s
                ELSE [s EXCEPT !.disk[f] = s.project]
SaveDesktop(s) == IF s.dskname = NOWHERE \/ Here(s, s.dskname)[1] \in ReadOnly
                  THEN s ELSE [s EXCEPT !.gdt[Here(s, s.dskname)] = s.desk]

\* SaveProject(): a sub-project of a walk is saved without a desktop
SaveWithDesktop(s) ==                  \* mutant: with it
  LET name == IF s.project_name = NONE THEN s.standard_project_name
              ELSE s.project_name
  IN IF name = NONE THEN s ELSE SaveDesktop(SaveTo(s, Here(s, name)))
SaveProject(s) ==
  LET name == IF s.project_name = NONE THEN s.standard_project_name
              ELSE s.project_name
  IN IF name = NONE THEN s
     ELSE IF s.stack = <<>> THEN SaveDesktop(SaveTo(s, Here(s, name)))
     ELSE SaveTo(s, Here(s, name))
SaveIfWanted(s) == IF s.only THEN s ELSE SaveProject(s)

\* the static flags of the editors and of the debugger
SetGlobalOptions(s) == [s EXCEPT !.applied = s.project.of]

\* LoadDesktop(): windows, breakpoints and watches of the desktop file
LoadDesktop(s, n) ==
  [s EXCEPT !.dskname = n,
            !.desk = @ \cup (IF s.gdt[Here(s, n)] = NONE THEN {}
                             ELSE s.gdt[Here(s, n)])]
ClearDeskTop(s) == [s EXCEPT !.desk = {}]

----------------------------------------------------------------------------
(* Opening and closing *)

CloseProject(s) ==
  LET t == SaveProject(s)
      u == [ClearDeskTop(t) EXCEPT
              !.project = NONE,
              !.dskname = IF t.project_name = NONE THEN @ ELSE NONE,
              !.project_name = NONE]
  IN pop_environment(u)

\* reads the standard project; creating and removing a file shows whether a
\* project can be made here
OpenStandardProject(s, withDesktop) ==
  LET t == [ReadProject(s, Std) EXCEPT !.standard_project_name = StdName,
                                       !.dskname = StdName]
      u == IF withDesktop THEN LoadDesktop(t, StdName) ELSE t
  IN IF t.project = NONE THEN t
     ELSE IF ~Writable(u) THEN [u EXCEPT !.project_name = NONE]
     ELSE u

OpenNone(s) ==
  LET t == OpenStandardProject(s, TRUE)
      u == IF t.project = NONE
           THEN [t EXCEPT !.project = [of |-> Std, ver |-> 0]] ELSE t
  IN push_environment(SetGlobalOptions([u EXCEPT !.project_directory = u.cwd]))

New(s) == [of |-> Here(s, s.project_name), ver |-> 0]

\* the file exists: its desktop replaces what is shown
OpenOld(s, n) ==
  LET t == LoadDesktop(ClearDeskTop(ReadProject(s, Here(s, n))), n)
  IN push_environment(SetGlobalOptions([t EXCEPT !.project_directory = t.cwd]))

\* it does not: a copy of the standard project, or an empty one
OpenNew(s, n, ori_dir) ==
  LET t == OpenStandardProject(s, FALSE)
      std == t.project # NONE
      u == [t EXCEPT !.project_directory = t.cwd]
      made == [u EXCEPT !.project = New(u), !.dskname = IF std THEN n ELSE @]
      copy == [u EXCEPT !.dskname = NOWHERE]
      none == [Chdir(u, ori_dir) EXCEPT !.project = [of |-> Std, ver |-> 0],
                                        !.project_name = NONE]
  IN push_environment(SetGlobalOptions(
       IF Writable(u) THEN made ELSE IF std THEN copy ELSE none))

OpenProject(s, f) ==
  LET t == [Chdir(s, f[1]) EXCEPT !.project_name = f[2], !.dskname = f[2]]
  IN IF t.disk[Here(t, f[2])] # NONE THEN OpenOld(t, f[2])
     ELSE OpenNew(t, f[2], s.cwd)

Openable(s, f) == IF f = NONE THEN OpenNone(s) ELSE OpenProject(s, f)

\* what about f is not as in careful use
Strange(s, f) ==
  LET here == <<Chdir(s, f[1]).cwd, f[2]>>
  IN IF s.disk[here] # NONE THEN {}
     ELSE IF here[1] \in ReadOnly THEN {"readonly"}
     ELSE IF s.disk[Std] = NONE THEN {"nostd"} ELSE {}

----------------------------------------------------------------------------
(* The stacks *)

AddToStack(s) == IF s.project_name = NONE THEN s
                 ELSE [s EXCEPT !.PRJSTACK = Append(@, <<s.cwd, s.project_name>>)]
RemoveFromStack(s) == IF s.PRJSTACK = <<>> THEN s
                      ELSE [s EXCEPT !.PRJSTACK = Front(@)]

\* _PushProject: the project, or the old state when it cannot be read
CanPush(s, f) == s.disk[<<Chdir(s, f[1]).cwd, f[2]>>] # NONE
PushInPlace(s, f) ==                   \* mutant: no chdir
  LET entry == [pname |-> s.project_name, dname |-> s.cwd, project |-> s.project]
      u == ReadProject([s EXCEPT !.stack = Append(@, entry)], <<s.cwd, f[2]>>)
  IN push_environment([u EXCEPT !.project_name = f[2]])
_PushProject(s, f) ==
  LET entry == [pname |-> s.project_name, dname |-> s.cwd, project |-> s.project]
      t == Chdir([s EXCEPT !.stack = Append(@, entry)], f[1])
      u == ReadProject(t, <<t.cwd, f[2]>>)
  IN push_environment([u EXCEPT !.project_name = f[2]])

PopInPlace(s) ==                       \* mutant: no chdir
  IF s.stack = <<>> THEN s
  ELSE LET e == Last(s.stack)
       IN [pop_environment(s) EXCEPT !.stack = Front(@), !.project_name = e.pname,
                    !.project_directory = e.dname, !.project = e.project]
_PopProject(s) ==
  IF s.stack = <<>> THEN s
  ELSE LET e == Last(s.stack)
           t == Chdir(pop_environment(s), e.dname)
       IN [t EXCEPT !.stack = Front(@), !.project_name = e.pname,
                    !.project_directory = e.dname, !.project = e.project]
PopProject(s) == _PopProject(SaveIfWanted(s))

\* a walk is given up: the project it is in becomes the current one
ResetKeepsStack(s, cleared) ==         \* mutant: the entries are kept
  LET u == IF cleared THEN ClearDeskTop(s) ELSE s
  IN SetGlobalOptions(LoadDesktop(u, s.project_name))
ResetKeepsFlags(s, cleared) ==         \* mutant: no SetGlobalOptions
  LET t == [s EXCEPT !.stack = <<>>]
  IN LoadDesktop(IF cleared THEN ClearDeskTop(t) ELSE t, s.project_name)
ResetProjectStack(s, cleared) ==
  LET t == [s EXCEPT !.stack = <<>>]
      u == IF cleared THEN ClearDeskTop(t) ELSE t
  IN SetGlobalOptions(LoadDesktop(u, s.project_name))

OpenFromStack(s) ==
  LET e == Last(s.PRJSTACK)
  IN RemoveFromStack(OpenProject(Chdir(s, e[1]), <<Chdir(s, e[1]).cwd, e[2]>>))

----------------------------------------------------------------------------
Init ==
  /\ \E w \in Worlds :
       LET dirs == Dirs \ w.gone
           exists(f) == f[1] \in dirs /\ f \notin w.missing
       IN ide = [cwd |-> StdDir, dirs |-> dirs, only |-> w.only,
                 project |-> NONE, project_name |-> NONE,
                 standard_project_name |-> NONE, dskname |-> NONE,
                 project_directory |-> NONE, stack |-> <<>>, PRJSTACK |-> <<>>,
                 env |-> NoVars, applied |-> NONE,
                 desk |-> {},
                 disk |-> [f \in Path |-> IF exists(f) THEN [of |-> f, ver |-> 0]
                                         ELSE NONE],
                 gdt |-> [f \in Path |-> NONE]]
  /\ mode = "off" /\ at = <<>>
  /\ newest = [f \in Path |-> 0]
  /\ odd = {}

Projects == {f \in Path : f[2] # StdName}

\* main: in the directory d, with a project or without
Start(d, f) ==
  LET s == [ide EXCEPT !.cwd = d]
  IN /\ mode = "off" /\ d \in ide.dirs
     /\ Noted(IF f = NONE THEN {} ELSE Strange(s, f))
     /\ ide' = Openable(s, f)
     /\ mode' = "idle" /\ UNCHANGED <<at, newest>>

\* an editor with unsaved text keeps its window: CloseProject returns false
\* after it has saved
Refuse(s) ==
  /\ Noted({"refuse"}) /\ ide' = SaveProject(s) /\ UNCHANGED <<mode, at, newest>>

cmOpenProject(f) ==
  /\ mode = "idle"
  /\ \/ Refuse(ide)
     \/ /\ Noted(Strange(CloseProject(ide), f))
        /\ ide' = OpenProject(CloseProject(ide), f)
        /\ UNCHANGED <<mode, at, newest>>

cmCloseProject ==
  LET s == CloseProject(ide)
      back == Last(s.PRJSTACK)
  IN /\ mode = "idle" /\ ide.project_name # NONE
     /\ \/ Refuse(ide)
        \/ /\ s.PRJSTACK = <<>> /\ ide' = OpenNone(s)
           /\ UNCHANGED <<mode, at, newest, odd>>
        \/ /\ s.PRJSTACK # <<>> /\ ide' = OpenFromStack(s)
           /\ Noted(Strange(Chdir(s, back[1]), back))
           /\ UNCHANGED <<mode, at, newest>>

\* Enter on a sub-project in the project window
cmSelectProject ==
  /\ mode = "idle" /\ Len(ide.PRJSTACK) < MaxBack
  /\ \E f \in Range(Subs[ide.project.of]) :
       LET s == CloseProject(AddToStack(ide))
       IN /\ ide.project_name # NONE
          /\ \/ Refuse(RemoveFromStack(AddToStack(ide)))
             \/ /\ Noted(Strange(s, f))
                /\ ide' = OpenProject(s, f)
                /\ UNCHANGED <<mode, at, newest>>

cmQuit == /\ mode = "idle"
          /\ ide' = [CloseProject(ide) EXCEPT !.PRJSTACK = <<>>, !.applied = NONE,
                       !.standard_project_name = NONE, !.dskname = NONE,
                       !.project_directory = NONE, !.env = NoVars]
          /\ mode' = "off" /\ UNCHANGED <<at, newest, odd>>

\* SIGSEGV: the handler saves the project it finds and ends the program
Crash == /\ mode # "off"
         /\ odd' = odd \cup (IF mode \in {"idle", "make"} THEN {} ELSE {"crashed"})
         /\ ide' = [SaveProject(ide) EXCEPT
                      !.project = NONE, !.project_name = NONE, !.stack = <<>>,
                      !.PRJSTACK = <<>>, !.applied = NONE, !.desk = {},
                      !.standard_project_name = NONE, !.dskname = NONE,
                      !.project_directory = NONE, !.env = NoVars]
         /\ mode' = "off" /\ at' = <<>> /\ UNCHANGED newest

\* the user opens windows and changes the items and options in memory
Work ==
  LET f == ide.project.of
      v == IF newest[f] < MaxVer[f] THEN newest[f] + 1 ELSE ide.project.ver
  IN /\ mode = "idle" /\ ide.project_name # NONE
     /\ newest' = [newest EXCEPT ![f] = IF v > @ THEN v ELSE @]
     /\ ide' = [ide EXCEPT !.project.ver = v, !.desk = @ \cup {f}]
     /\ UNCHANGED <<mode, at, odd>>

DosShell == /\ mode = "idle" /\ ide' = SaveIfWanted(ide)
            /\ UNCHANGED <<mode, at, newest, odd>>

\* a debugger session ends, a program was run, SIGCONT
BackToDirectory == /\ mode # "off" /\ ide' = Chdir(ide, ide.project_directory)
                   /\ UNCHANGED <<mode, at, newest, odd>>

----------------------------------------------------------------------------
(* Walks over the tree *)

Top == Last(at)
Level(p) == [of |-> p, i |-> 1, n |-> Len(Subs[p])]
Next1 == [at EXCEPT ![Len(at)].i = @ + 1]

\* make walks the object it was given, the others the current project again
Items == IF mode = "make" THEN Subs[Top.of] ELSE Subs[ide.project.of]
Sub == Items[Top.i]
HasSub == Walking /\ Top.i <= Top.n /\ Top.i <= Len(Items)

Begin(walk) == /\ mode = "idle" /\ ide.project_name # NONE
               /\ Len(ide.PRJSTACK) <= MaxBack
               /\ mode' = walk /\ at' = <<Level(ide.project.of)>>
               /\ UNCHANGED <<ide, newest, odd>>

\* a sub-project that is only built when it does not exist, or no library
LeaveAlone == /\ HasSub /\ mode # "clean" /\ at' = Next1
              /\ UNCHANGED <<ide, mode, newest, odd>>

\* PushProject and, from its end on, PopProject save the project that is left
Unsaved(s) == s                        \* mutant: they do not
Saved(s) == IF mode = "make" THEN SaveIfWanted(s) ELSE s
Enter ==
  LET s == Saved(AddToStack(ide))
      t == _PushProject(s, Sub)
  IN /\ HasSub /\ Len(ide.stack) < MaxDepth /\ CanPush(s, Sub)
     /\ ide' = t
     /\ at' = Append(at, Level(t.project.of))
     /\ UNCHANGED <<mode, newest, odd>>

\* Make ends, and what its last state saves
Over(s) == /\ ide' = SaveIfWanted(s)
           /\ mode' = "idle" /\ at' = <<>> /\ UNCHANGED newest
\* a failure in a sub-project: ResetProjectStack and longjmp
Abort(s) ==
  \E cleared \in BOOLEAN :
    /\ \A v \in Vars : Len(s.env[v]) <= MaxEnv
    /\ Over(ResetProjectStack(s, cleared))
    /\ odd' = odd \cup (IF cleared THEN {} ELSE {"refuse"})
                  \cup (IF s.stack = <<>> THEN {} ELSE {"cancelled"})

EnterFails ==
  LET s == Saved(AddToStack(ide))
  IN /\ HasSub /\ ~CanPush(s, Sub)
     /\ \/ mode = "make" /\ Abort(s)
        \/ mode = "spec" /\ ide' = RemoveFromStack(s) /\ at' = Next1
           /\ UNCHANGED <<mode, newest, odd>>
        \/ mode = "clean" /\ ide' = RemoveFromStack(_PopProject(s)) /\ at' = Next1
           /\ UNCHANGED <<mode, newest, odd>>

CompileFails == /\ mode = "make"
                /\ IF Len(at) = 1 THEN Over(ide) /\ UNCHANGED odd ELSE Abort(ide)

LeaveAgain ==   \* mutant: the sub-project is entered again
  /\ Walking /\ Len(at) > 1 /\ ~HasSub
  /\ ide' = RemoveFromStack(PopProject(ide))
  /\ at' = Front(at) /\ UNCHANGED <<mode, newest, odd>>
Leave ==
  /\ Walking /\ Len(at) > 1 /\ ~HasSub
  /\ ide' = RemoveFromStack(IF mode = "make" THEN PopProject(ide) ELSE _PopProject(ide))
  /\ at' = LET up == Front(at) IN [up EXCEPT ![Len(up)].i = @ + 1]
  /\ UNCHANGED <<mode, newest, odd>>

FinishOpen == /\ Walking /\ Len(at) = 1 /\ ~HasSub   \* mutant: at is kept
              /\ mode' = "idle" /\ UNCHANGED <<ide, at, newest, odd>>
Finish == /\ Walking /\ Len(at) = 1 /\ ~HasSub
          /\ mode' = "idle" /\ at' = <<>>
          /\ ide' = IF mode = "make" THEN SaveIfWanted(ide) ELSE ide
          /\ UNCHANGED <<newest, odd>>

WalkStep == Enter \/ EnterFails \/ CompileFails \/ LeaveAlone \/ Leave \/ Finish

Next ==
  \/ \E d \in StartDirs, f \in Given \cup {NONE} : Start(d, f)
  \/ \E f \in Chosen : cmOpenProject(f)
  \/ \E walk \in {"make", "clean", "spec"} : Begin(walk)
  \/ cmCloseProject \/ cmSelectProject \/ cmQuit \/ Crash
  \/ Work \/ DosShell \/ BackToDirectory
  \/ WalkStep

Spec == Init /\ [][Next]_vars
----------------------------------------------------------------------------
(* Properties *)

TypeOK ==
  /\ ide.cwd \in ide.dirs /\ ide.dirs \subseteq Dirs
  /\ ide.project \in Project \cup {NONE}
  /\ ide.disk \in [Path -> Project \cup {NONE}]
  /\ ide.env \in [Vars -> Seq(UNION {Range(EnvFile[d]) : d \in Dirs})]
  /\ mode \in {"off", "idle", "make", "clean", "spec"}
  /\ (mode = "off") = (ide.project = NONE) /\ Walking = (at # <<>>)
  /\ odd \subseteq {"refuse", "readonly", "nostd", "cancelled", "crashed"}

\* A project is only ever written to its own file, whatever command, failed
\* make or crash caused the saving: project, project_name and the working
\* directory are switched together (idemak.cc:665-748, ideprj.cc:1414)
FilesKeepTheirOwner ==
  \A f \in Path : ide.disk[f] # NONE => ide.disk[f].of = f

\* The user's last changes of a project are in its file or still in memory,
\* when projects are saved as they go (ideprj.cc:1354, idegcc.cc:522, 850);
\* a crash during a clean or an expansion, which push without saving, is
\* left out
NothingLost ==
  \A f \in Projects :
    \/ ide.only \/ f[1] \in ReadOnly \/ "crashed" \in odd
    \/ newest[f] = 0
    \/ [of |-> f, ver |-> newest[f]] \in
         {ide.disk[f], ide.project} \cup {e.project : e \in Range(ide.stack)}

\* The globals name one project: its object, its name, its directory and the
\* working directory, at every level of a walk and after every way out of it
\* (ideprj.cc:1145-1298, 1390-1412)
ContextAgrees ==
  mode = "off" \/ "readonly" \in odd \/
    /\ ide.cwd = ide.project_directory
    /\ ide.project.of = IF ide.project_name = NONE THEN Std
                        ELSE <<ide.cwd, ide.project_name>>
    /\ \A e \in Range(ide.stack) : e.project.of = <<e.dname, e.pname>>

\* A variable has the values that the rhide.env files of the current project's
\* directory and of those on the stack give it, the innermost first, and no
\* other (ideenv.cc:183-193, specs.cc:61-112), until a make is cancelled
\* inside a sub-project
EnvRight ==
  LET dirs == Append([i \in DOMAIN ide.stack |-> ide.stack[i].dname], ide.cwd)
      Setting(v, n) == {i \in 1..n : v \in DOMAIN EnvFile[dirs[i]]}
  IN mode = "off" \/ odd \cap {"cancelled", "readonly"} # {} \/
       \A v \in Vars :
         LET n == Len(ide.env[v])
         IN /\ n = Cardinality(Setting(v, Len(dirs)))
            /\ \A i \in Setting(v, Len(dirs)) :
                 ide.env[v][n + 1 - Cardinality(Setting(v, i))] = EnvFile[dirs[i]][v]

\* Between commands nothing is left on PROJECT_STACK, and while a make is in a
\* sub-project "Close project" would lead back through exactly its parents
\* (idegcc.cc:502-523, ideprj.cc:1309-1352)
StacksAgree ==
  /\ mode \in {"off", "idle"} => ide.stack = <<>>
  /\ LET k == Len(ide.PRJSTACK) - Len(ide.stack)
     IN mode = "make" => /\ k >= 0
          /\ \A i \in DOMAIN ide.stack :
               ide.PRJSTACK[k + i] = <<ide.stack[i].dname, ide.stack[i].pname>>

\* The static flags of editors and debugger are those of the project the user
\* works in: a walk does not change them, a cancelled make does, with the
\* project (ideprj.cc:969, 1409)
OptionsOfCurrent ==
  mode # "off" => ide.applied = IF ide.stack = <<>> THEN ide.project.of
                                ELSE ide.stack[1].project.of

\* Desktop files hold the desktop of their own project, when a standard project
\* exists and editors are closed when asked (ideprj.cc:1221-1244, 1425-1432)
DesktopsOwn ==
  odd \cap {"nostd", "refuse", "readonly"} = {} =>
    \A f \in Path : ide.gdt[f] # NONE => ide.gdt[f] \subseteq {f}

\* What is on disk is right: projects and desktops are in their own files.
FilesRight == FilesKeepTheirOwner /\ DesktopsOwn

\* A project is never open twice on the stack, as long as the directories of
\* the sub-projects exist (idemak.cc:677)
NoProjectTwice ==
  LET open == Append([i \in DOMAIN ide.stack |-> ide.stack[i].project.of], ide.project.of)
  IN mode = "off" \/ ide.dirs # Dirs \/ IsInjective(open)

\* What is open is right: one project in its directory with its variables and
\* options, its parents on both stacks.
ContextRight ==
  TypeOK /\ ContextAgrees /\ EnvRight /\ StacksAgree /\ OptionsOfCurrent /\ NoProjectTwice

\* A walk only gets on: no item is visited twice and none after it was
\* passed, so a walk over a finite tree ends (idegcc.cc:618-639,
\* ideprj.cc:1962-1974)
After(p, q) == \/ IsPrefix(p, q) /\ p # q
               \/ \E j \in DOMAIN p \cap DOMAIN q :
                    q[j].i > p[j].i /\ \A k \in 1..(j-1) : p[k] = q[k]
WalksProceed == [][Walking /\ mode' = mode /\ at' # at => After(at, at')]_vars

=============================================================================
