------------------------------- MODULE Viewer -------------------------------
(***************************************************************************)
(* The windows in which RHGDB, the stand-alone debugger, shows sources       *)
(* (rhgdb/gdbedit.cc), and the line at which the program stands              *)
(* (select_source_line of rhgdb/main.cc).                                    *)
(*                                                                         *)
(* A source is a directory and a name, as in FileSearch.  A window is told   *)
(* by its address; addresses are used again.                                 *)
(***************************************************************************)
EXTENDS Naturals, Sequences, SequencesExt, FiniteSets

CONSTANTS
  SourceFiles,    \* places in which there may be a source
  FirstSources,   \* those there are at the beginning
  ComeAndGo,      \* those that another program makes and removes
  SearchLists,    \* values of the list of directories
  Stops,          \* where the program stops: fname, dirname, fullname, line
  MaxViews,       \* bound: windows at a time
  MaxDirs         \* bound: directories the user lets add

NoFile == <<>>
NoLine == 0
NoView == 0
Views == 1..MaxViews
DisWin == MaxViews + 1
NoStop == [fname |-> NoFile, dirname |-> NoFile, fullname |-> NoFile, line |-> NoLine]

\* the first line of a file is 1
ASSUME ViewerAssumption ==
  /\ FirstSources \cup SourceFiles \cup ComeAndGo \subseteq STRING \X STRING
  /\ SearchLists \subseteq Seq(STRING) /\ <<>> \in SearchLists
  /\ LET name == (STRING \X STRING) \cup {NoFile}
     IN Stops \subseteq [fname : name, dirname : name, fullname : name, line : Nat \ {NoLine}]
  /\ MaxViews \in Nat \ {0}

VARIABLES
  sources,        \* the files there are
  desk,           \* what the front end keeps: windows, current, dis_win,
                  \* current_editor, CPULine, lastSkippedName, src_dirs
  run             \* up, debugger_started; history: the last stop, the file shown for
                  \* it, whether the user was asked, whether its window was closed
viewvars == <<sources, desk, run>>

Open(d) == {d.windows[i].view : i \in DOMAIN d.windows}
FileOf(d, v) == (CHOOSE x \in Range(d.windows) : x.view = v).file
\* what was skipped, and whether the command opened a window
Outcome(d, ok, names) == [desk |-> d, ok |-> ok, asked |-> names]
----------------------------------------------------------------------------
(* find_file: the name as it is, then its last part in each directory *)
find_file(name, dirs) ==
  LET k == SelectInSeq(dirs, LAMBDA dir : <<dir, name[2]>> \in sources)
  IN IF name \in sources THEN name ELSE IF k = 0 THEN NoFile ELSE <<dirs[k], name[2]>>

\* the first window of a file of this name, in whatever directory
Shown(d, name) ==
  LET k == SelectInSeq(d.windows, LAMBDA x : x.file[2] = name[2])
  IN IF k = 0 THEN NoView ELSE d.windows[k].view

AddView(d, file) ==
  LET v == CHOOSE x \in Views \ Open(d) : TRUE
  IN [d EXCEPT !.windows = Append(@, [view |-> v, file |-> file]), !.current = v]
\* the file in window v, and the line when the program stands there
Mark(d, v, line, from_debugger) ==
  IF from_debugger THEN [d EXCEPT !.current_editor = v, !.CPULine = line] ELSE d
\* current: the view selected before, taken again when only_focus
ShowIn(d, v, line, from_debugger, only_focus) ==
  [Mark(d, v, line, from_debugger) EXCEPT !.current = IF only_focus /\ @ # NoView THEN @ ELSE v]
ShowNew(d, file, line, from_debugger, only_focus) ==
  LET e == AddView(d, file)
  IN [Mark(e, e.current, line, from_debugger) EXCEPT
        !.current = IF only_focus /\ d.current # NoView THEN d.current ELSE @]

\* A name that is not found: the user names a file and may add its directory,
\* or cancels; a name cancelled last is not asked for again
Skip(d, name) == Outcome([d EXCEPT !.lastSkippedName = name], FALSE, {name})
Given(d, name, a, line, from_debugger, only_focus) ==
  LET e == [d EXCEPT !.lastSkippedName = NoFile,
                     !.src_dirs = IF a.add THEN Append(@, a.file[1]) ELSE @]
  IN Outcome(ShowNew(e, a.file, line, from_debugger, only_focus), TRUE, {name})
OpenViewer(d, name, line, from_debugger, only_focus, a) ==
  LET v == Shown(d, name)
      file == find_file(name, d.src_dirs)
  IN CASE v # NoView -> Outcome(ShowIn(d, v, line, from_debugger, only_focus), TRUE, {})
       [] v = NoView /\ file # NoFile ->
            Outcome(ShowNew(d, file, line, from_debugger, only_focus), TRUE, {})
       [] v = NoView /\ file = NoFile /\ only_focus -> Outcome(d, TRUE, {})
       [] v = NoView /\ file = NoFile /\ ~only_focus /\ d.lastSkippedName = name -> Outcome(d, FALSE, {})
       [] OTHER -> IF a.file = NoFile THEN Skip(d, name)
                   ELSE Given(d, name, a, line, from_debugger, only_focus)

\* mutant: the line stays
ClearNothing(d) == {d}
\* current_editor may point to an editor that is gone: then what is read there
\* may have been the desktop or not
ClearCPULine(d) ==
  CASE d.current_editor = NoView -> {d}
    [] d.current_editor \in Open(d) -> {[d EXCEPT !.CPULine = NoLine]}
    [] OTHER -> {d, [d EXCEPT !.CPULine = NoLine]}

OpenDisWin(d) == [d EXCEPT !.dis_win = TRUE, !.current = IF d.dis_win THEN @ ELSE DisWin]
\* the debugger's names for the source, one after the other; else the code
Names3(s) == <<s.fullname, IF s.fname = NoFile THEN NoFile ELSE s.dirname, s.fname>>
Try(o, name, line, a) ==
  IF o.ok \/ name = NoFile THEN o
  ELSE LET n == OpenViewer(o.desk, name, line, TRUE, FALSE, a)
       IN [n EXCEPT !.asked = @ \cup o.asked]
select_source_line(d, s, a) ==
  LET Then(q, i) == Try(q, Names3(s)[i], s.line, a)
      o == Then(Then(Then(Outcome(d, FALSE, {}), 1), 2), 3)
      dis == s.fname = NoFile \/ ~o.ok
  IN [o EXCEPT !.desk = IF dis THEN OpenDisWin(@) ELSE @,
               !.desk.current = IF dis \/ d.current = DisWin THEN DisWin ELSE @]
----------------------------------------------------------------------------
Answers ==
  {[file |-> NoFile, add |-> FALSE]}
  \cup [file : sources, add : {FALSE} \cup {b \in BOOLEAN : Len(desk.src_dirs) < MaxDirs}]
Fits(d) == Views \ Open(d) # {}

ViewInit ==
  /\ sources = FirstSources
  /\ desk = [windows |-> <<>>, current |-> NoView, dis_win |-> FALSE, current_editor |-> NoView,
             CPULine |-> NoLine, lastSkippedName |-> NoFile,
             src_dirs |-> CHOOSE l \in SearchLists : l = <<>>]
  /\ run = [up |-> FALSE, started |-> FALSE, stop |-> NoStop, shown |-> NoFile, asked |-> FALSE, closed |-> FALSE]

\* main: the source of the main function, or the code where there is none; or
\* the program cannot be loaded
MainSource(d, s, a) ==
  LET o == IF s.dirname = NoFile THEN Outcome(d, FALSE, {})
           ELSE OpenViewer(d, s.dirname, s.line, TRUE, FALSE, a)
  IN CASE s.fname = NoFile -> OpenDisWin(d)
       [] s.fname # NoFile /\ o.ok -> o.desk
       [] OTHER -> OpenViewer(o.desk, s.fname, s.line, FALSE, FALSE, a).desk
StartUp ==
  /\ desk' \in {desk} \cup {MainSource(desk, s, a) : s \in Stops, a \in Answers}
  /\ run' = [run EXCEPT !.up = TRUE]
  /\ UNCHANGED sources

\* annotate_stopped, behind Run, Step, Trace or Go to cursor
StopShown(o, s) ==
  LET shown == IF o.ok THEN FileOf(o.desk, o.desk.current_editor) ELSE NoFile
  IN /\ desk' = o.desk
     /\ run' = [run EXCEPT !.started = TRUE, !.stop = s, !.shown = shown, !.asked = o.asked # {},
                            !.closed = @ /\ ~o.ok]
Stop(s) ==
  /\ Fits(desk)
  /\ \E o \in {select_source_line(d, s, a) : d \in ClearCPULine(desk), a \in Answers} : StopShown(o, s)
  /\ UNCHANGED sources
\* it ends, or is reset
Ends ==
  /\ run.started
  /\ run' = [run EXCEPT !.started = FALSE, !.stop = NoStop, !.shown = NoFile, !.asked = FALSE]
  /\ UNCHANGED <<sources, desk>>

\* File/Open, the list of functions, and the call stack, which may leave the
\* window where it is
UserOpens(name, line, only_focus) ==
  /\ Fits(desk)
  /\ desk' \in {OpenViewer(desk, name, line, FALSE, only_focus, a).desk : a \in Answers}
  /\ UNCHANGED <<sources, run>>
cmDisWindow ==
  /\ desk' = OpenDisWin(desk)
  /\ UNCHANGED <<sources, run>>
SelectView(v) == desk' = [desk EXCEPT !.current = v] /\ UNCHANGED <<sources, run>>
\* the pointer current_editor is left as it is
CloseView(i) ==
  LET v == desk.windows[i].view
      rest == (Open(desk) \ {v}) \cup (IF desk.dis_win THEN {DisWin} ELSE {})
      next == IF desk.current # v THEN {desk.current} ELSE IF rest = {} THEN {NoView} ELSE rest
  IN /\ \E c \in next : desk' = [desk EXCEPT !.windows = RemoveAt(@, i), !.current = c]
     /\ run' = [run EXCEPT !.closed = @ \/ v = desk.current_editor]
     /\ UNCHANGED sources
CloseDisWin ==
  /\ desk.dis_win
  /\ desk' \in {[desk EXCEPT !.dis_win = FALSE, !.current = c] :
                  c \in IF desk.current # DisWin THEN {desk.current}
                        ELSE IF Open(desk) = {} THEN {NoView} ELSE Open(desk)}
  /\ UNCHANGED <<sources, run>>
SourceDirectories(l) == desk' = [desk EXCEPT !.src_dirs = l] /\ UNCHANGED <<sources, run>>
SourceComes(p) ==
  /\ sources' = IF p \in sources THEN sources \ {p} ELSE sources \cup {p}
  /\ UNCHANGED <<desk, run>>

ViewNext ==
  \/ ~run.up /\ StartUp
  \/ run.up /\ \/ \E s \in Stops : Stop(s)
               \/ Ends
               \/ \E p \in SourceFiles, only_focus \in BOOLEAN : UserOpens(p, 1, only_focus)
               \/ cmDisWindow
               \/ \E v \in Open(desk) : SelectView(v)
               \/ \E i \in DOMAIN desk.windows : CloseView(i)
               \/ CloseDisWin
               \/ \E l \in SearchLists : SourceDirectories(l)
               \/ \E p \in ComeAndGo : SourceComes(p)
ViewSpec == ViewInit /\ [][ViewNext]_viewvars
----------------------------------------------------------------------------
(* Properties *)

\* DebuggerFormatLine: the lines drawn as the one the program stands at
Drawn == {<<desk.current_editor, desk.CPULine>> : v \in Open(desk) \cap {desk.current_editor}}
         \ {<<v, NoLine>> : v \in Views}
\* While the program stands somewhere, the line drawn is the one it stands at,
\* in the file that was shown for this stop, and only there; a file shown
\* without asking the user has the name that the debugger knows.  When no file
\* is shown for the stop, no line of a stop before it is left.  All this
\* unless the window was closed: then its address may be that of another
\* window, opened since.
StopIsShown ==
  run.started /\ ~run.closed =>
    /\ \A x \in Drawn : x[2] = run.stop.line /\ FileOf(desk, x[1]) = run.shown
    /\ Drawn = {} <=> run.shown = NoFile
    /\ run.shown # NoFile /\ ~run.asked =>
         run.shown[2] \in {n[2] : n \in Range(Names3(run.stop)) \ {NoFile}}
=============================================================================
