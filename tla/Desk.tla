-------------------------------- MODULE Desk --------------------------------
(***************************************************************************)
(* The windows of the IDE, the list of closed windows, the numbers shown    *)
(* in the frames, the pointers to single windows, and the commands that     *)
(* are enabled (windowli.cc, ideapp.cc, openedit.cc, idemsg.cc, ideprj.cc,  *)
(* idegcc.cc and the event loop of idemain.cc).                              *)
(*                                                                         *)
(* The list is kept beside Turbo Vision's own; every place that opens or    *)
(* closes a window has to keep both, the numbers and the pointers right.    *)
(***************************************************************************)
EXTENDS Naturals, Sequences, SequencesExt, FiniteSetsExt, TLC

CONSTANTS
  Files,        \* files shown in editors
  Tools,        \* the windows a global points to: msg_window, project_window,
                \* dis_win, ...
  max_closed,   \* the option: closed windows remembered
  MaxWindows,   \* bound: windows at a time, one only in rarer states of a project
  MaxMsgs,      \* bound: messages, and messages appear while no project is open
  Places,       \* bound: the files messages are about
  Desktops,     \* bound: the windows and numbers in desktop files
  MaxOdd        \* bound: how many kinds of unusual use are combined

Untitled == "Untitled"
Title == Files \cup Tools \cup {Untitled, "info", "stderr"}
Kind(t) == IF t \in Files \cup {Untitled} THEN "editor" ELSE t
None == 0             \* no view, and the null pointer
Clip == 100           \* clipWindow, which is not in the list
Ids == 1..MaxWindows  \* the windows themselves (their addresses)

ASSUME DeskAssumption ==
  /\ max_closed \in Nat /\ MaxWindows \in 1..99
  /\ {"msg", "project"} \subseteq Tools /\ Places \subseteq Files
  /\ Files \cap Tools = {}
  /\ (Files \cup Tools) \cap {Untitled, "info", "stderr", "editor", "text"} = {}
  \* what desktop files hold: written from a desktop with one window each
  /\ \A open \in Desktops :
       /\ open \in Seq(Title \X (0..(MaxWindows + 1)))
       /\ \A i, j \in DOMAIN open :
            open[i][1] = open[j][1] /\ open[i][1] \in Files \cup Tools => i = j

VARIABLES
  w,        \* windows, closed, numbers, pointer, current
  prj,      \* project_name, count of items, kind of target
  debugger_started,
  msgs,     \* the messages and the focused one
  enabled,  \* the commands that are enabled
  odd       \* what has happened that careful use avoids

vars == <<w, prj, debugger_started, msgs, enabled, odd>>
----------------------------------------------------------------------------
(* The list of windows *)

InList(s) == {s.windows[i].id : i \in DOMAIN s.windows}
IndexOf(s, id) == CHOOSE i \in DOMAIN s.windows : s.windows[i].id = id
Win(s, id) == s.windows[IndexOf(s, id)]
IdOf(s, t) == LET is == {i \in DOMAIN s.windows : s.windows[i].title = t}
              IN IF is = {} THEN None ELSE s.windows[Min(is)].id
Free(s) == Min(Ids \ InList(s))
Limit(p, started) == IF ~started /\ p.target = "program" /\ p.on = (p.count > 0) THEN MaxWindows ELSE 1
Room(s) == Len(s.windows) < Limit(prj, debugger_started)
Select(s, id) == [s EXCEPT !.current = id]

\* the old number if it is free, else the first free one
AddWindow(s, t, removable, old) ==
  LET number == IF old # 0 /\ old \notin s.numbers THEN old
                ELSE Min((1..(MaxWindows + 1)) \ s.numbers)
      rec == [id |-> Free(s), title |-> t, number |-> number,
              remember |-> t \in Files \cup {"info"} \cup {Untitled},
              removable |-> removable]
  IN [s EXCEPT !.windows = Append(@, rec), !.numbers = @ \cup {number},
               !.pointer = IF t \in Tools THEN [@ EXCEPT ![t] = rec.id] ELSE @,
               !.current = rec.id]

\* mutant: the last one is dropped, or none
TrimmedOnce(seq) == IF Len(seq) <= max_closed \/ ~Last(seq).removable
                    THEN seq ELSE Front(seq)
\* from the end, those that may be are dropped until max_closed are left; Cuts:
\* where the loop may stop, Kept: what stays if it stops at c
Removables(seq, c) == {i \in c..Len(seq) : seq[i].removable}
Kept(seq, c) == DOMAIN seq \ Removables(seq, c)
Cuts(seq) == {c \in 1..(Len(seq) + 1) : Cardinality(Kept(seq, c)) <= max_closed}
\* the elements with the indices is, in order
Picked(seq, is) ==
  [k \in 1..Cardinality(is) |->
     seq[CHOOSE i \in is : Cardinality({j \in is : j <= i}) = k]]
Trimmed(seq) ==
  Picked(seq, Kept(seq, IF Cuts(seq) = {} THEN 1 ELSE Max(Cuts(seq))))
AddClosedWindow(s, x) ==
  IF x.title = Untitled THEN s
  ELSE [s EXCEPT !.closed =
          Trimmed(<<[title |-> x.title, removable |-> x.removable]>> \o @)]
RemoveClosedWindow(s, i) == [s EXCEPT !.closed = RemoveAt(@, i)]
IsClosedWindow(s, t) == {i \in DOMAIN s.closed : s.closed[i].title = t}

\* number: what is found in window->number
RemoveDangling(s, id, number, remember) ==   \* mutant: the pointer stays
  IF id \notin InList(s) THEN s
  ELSE LET x == Win(s, id)
           t == [s EXCEPT !.numbers = @ \ {number},
                          !.windows = RemoveAt(@, IndexOf(s, id))]
       IN IF x.remember /\ remember THEN AddClosedWindow(t, x) ELSE t
RemoveKeepsNumber(s, id, number, remember) ==   \* mutant: it stays taken
  IF id \notin InList(s) THEN s
  ELSE [s EXCEPT !.windows = RemoveAt(@, IndexOf(s, id)),
                 !.pointer = [k \in Tools |-> IF @[k] = id THEN None ELSE @[k]]]
RemoveWindow(s, id, number, remember) ==
  IF id \notin InList(s) THEN s
  ELSE LET x == Win(s, id)
           t == [s EXCEPT !.numbers = @ \ {number},
                          !.windows = RemoveAt(@, IndexOf(s, id)),
                          !.pointer = [k \in Tools |-> IF @[k] = id THEN None
                                                      ELSE @[k]]]
       IN IF x.remember /\ remember THEN AddClosedWindow(t, x) ELSE t

OpenUnlisted(s, i) ==                        \* mutant: it stays in the list
  AddWindow(s, s.closed[i].title, TRUE, 0)
OpenClosedWindow(s, i) ==
  RemoveClosedWindow(AddWindow(s, s.closed[i].title, TRUE, 0), i)

\* Turbo Vision selects another view when the current one is gone
Refocused(s) ==
  IF s.current \in InList(s) \cup {Clip} THEN {s}
  ELSE {[s EXCEPT !.current = id] :
          id \in IF InList(s) = {} THEN {None, Clip} ELSE InList(s)}

IDEopenEditor(s, t) ==
  LET was == IF t = Untitled THEN {} ELSE IsClosedWindow(s, t)
  IN IF was = {} THEN AddWindow(s, t, TRUE, 0) ELSE OpenClosedWindow(s, Min(was))
OpenEditorAlways(s, t) == IDEopenEditor(s, t)    \* mutant: no is_on_desktop
OpenEditor(s, t) == IF IdOf(s, t) # None THEN Select(s, IdOf(s, t))
                    ELSE IDEopenEditor(s, t)
----------------------------------------------------------------------------
(* update: the commands that are enabled when the IDE waits for an event *)

IsEditor(s, id) == id \in InList(s) /\ Kind(Win(s, id).title) = "editor"
IsKind(s, k) == s.current \in InList(s) /\ Kind(Win(s, s.current).title) = k

Edits == {"cmSyntaxHelp", "cmcFind", "cmcReplace", "cmGotoLine", "cmcJumpToFunction"}
Debugs == {"cmStep", "cmTrace", "cmFinish", "cmReset", "cmProgArgs",
           "cmBreakPoints", "cmFunctionList", "cmInspect", "cmAddDataWindow"}
Items == {"cmDelProjectItem", "cmLocalOptions", "cmShowIncludes",
          "cmClearDependencies", "cmMakeClear"}
Makes == {"cmMake", "cmBuild", "cmLink"}
Runs == {"cmRun", "cmGDB"}
Commands == Edits \cup Debugs \cup Items \cup Makes \cup Runs \cup
  {"cmCloseProject", "cmShowProject", "cmTile", "cmShowWindowList", "cmToggleBreak",
   "cmPrint", "cmSaveEditor", "cmSaveAll", "cmNextMessage",
   "cmCompile", "cmModifyRegister", "cmGoto"}

Flags(s, p) ==
  [editors |-> \E id \in InList(s) : IsEditor(s, id),
   editor |-> IsEditor(s, s.current),
   clip |-> s.windows # <<>> /\ s.current = Clip,
   help |-> IsKind(s, "info"), list |-> IsKind(s, "project"),
   exec |-> p.target # "library"]

Off(s, p, started) ==
  LET f == Flags(s, p)
      When(c, set) == IF c THEN set ELSE {}
  IN UNION {
       When(~p.on, {"cmCloseProject", "cmShowProject"} \cup Items),
       When(p.count = 0, Items),
       When(s.windows = <<>>, {"cmTile"}),
       When(s.windows = <<>> /\ s.closed = <<>>, {"cmShowWindowList"}),
       When(~f.exec, Runs \cup Debugs \cup {"cmGoto", "cmToggleBreak"}),
       When(f.exec /\ ~f.editor, {"cmToggleBreak"}),
       When(f.exec /\ ~p.on /\ ~f.editors, Debugs \cup {"cmGoto"}),
       When(p.target # "main_source" /\ ((~p.on /\ ~f.editors) \/ (p.on /\ p.count = 0)),
            Makes \cup Runs),
       When(~f.editor, {"cmSaveEditor", "cmPrint"}),
       When(~f.editor /\ ~f.clip, Edits \ (IF f.help THEN {"cmcFind"} ELSE {})),
       When(~f.editors, {"cmSaveAll"}),
       When(s.pointer["msg"] = None, {"cmNextMessage"}),
       When(~f.editor /\ ~(f.list /\ p.on /\ p.count > 0), {"cmCompile"}),
       When(~started, {"cmModifyRegister"})}
UpdatedOnlyOn(e, s, p, started) == e \cup (Commands \ Off(s, p, started))  \* mutant
Updated(e, s, p, started) == Commands \ Off(s, p, started)

NoProject == [on |-> FALSE, count |-> 0, target |-> "program"]
Shows(p, started) == enabled' \in {Updated(enabled, w', p, started)}
Rest == UNCHANGED <<prj, debugger_started>> /\ Shows(prj, debugger_started)
Noted(x) == /\ odd' = odd \cup {x} /\ Cardinality(odd') <= MaxOdd /\ prj = NoProject
            /\ msgs.list = <<>>
Careful == UNCHANGED odd
----------------------------------------------------------------------------
Init ==
  /\ w = [windows |-> <<>>, closed |-> <<>>, numbers |-> {}, current |-> None,
          pointer |-> [t \in Tools |-> None]]
  /\ prj = NoProject
  /\ debugger_started = FALSE
  /\ msgs = [list |-> <<>>, focused |-> 0]
  /\ enabled = Updated({}, w, prj, FALSE)
  /\ odd = {}

Only(next) == w' \in next /\ Rest /\ UNCHANGED msgs

\* a file by name, from a dialog, an editor or a message
OpenFile(t) == /\ Room(w) /\ Only({OpenEditor(w, t)}) /\ Careful
fileNew == /\ Room(w) /\ Only({IDEopenEditor(w, Untitled)}) /\ Careful
ShowClip == Only({Select(w, Clip)}) /\ Careful
SelectWindow == \E id \in InList(w) : Only({Select(w, id)}) /\ Careful

\* the editor gets another name; nobody looks whether it is shown already
SaveAs(t) ==
  /\ "cmSaveEditor" \in enabled
  /\ IF IdOf(w, t) \in {None, w.current} /\ IsClosedWindow(w, t) = {}
     THEN Careful ELSE Noted("same_name")
  /\ Only({[w EXCEPT !.windows = [i \in DOMAIN @ |->
              IF @[i].id = w.current THEN [@[i] EXCEPT !.title = t] ELSE @[i]]]})

\* the window watcher, and the list's Delete
cmClose(id) ==
  /\ id \in InList(w) /\ Only(Refocused(RemoveWindow(w, id, Win(w, id).number, TRUE)))
  /\ Careful
HideClip == /\ w.current = Clip /\ Only(Refocused([w EXCEPT !.current = None]))
            /\ Careful

\* a window one of the globals points to
ShowWindow(t) ==
  /\ t # "msg" /\ (t = "project" => "cmShowProject" \in enabled)
  /\ IF w.pointer[t] = None THEN Room(w) /\ Only({AddWindow(w, t, TRUE, 0)})
     ELSE Only({Select(w, w.pointer[t])})
  /\ Careful

\* help is not removable from the list of closed windows
SyntaxHelp ==
  LET was == IsClosedWindow(w, "info")
  IN /\ Careful
     /\ IF IdOf(w, "info") # None THEN Only({Select(w, IdOf(w, "info"))})
        ELSE /\ Room(w)
             /\ \/ was # {} /\ Only({OpenClosedWindow(w, Min(was))})
                \/ Len(w.closed) <= max_closed /\ Only({AddWindow(w, "info", FALSE, 0)})

\* the window list: a closed window is opened or forgotten
SelectClosed == /\ "cmShowWindowList" \in enabled /\ Room(w)
                /\ \E i \in DOMAIN w.closed : Only({OpenClosedWindow(w, i)})
                /\ Careful
DeleteClosed == /\ "cmShowWindowList" \in enabled
                /\ \E i \in DOMAIN w.closed : Only({RemoveClosedWindow(w, i)})
                /\ Careful

\* the program's stderr: close() frees the window, then RemoveWindow reads its
\* number
Freed(n) == {n} \cup (1..MaxWindows)
CheckStderr ==
  LET old == IdOf(w, "stderr")
  IN \E s \in (IF old = None THEN {w}
               ELSE {RemoveWindow(w, old, n, TRUE) : n \in Freed(Win(w, old).number)}) :
       /\ IF old # None /\ Win(w, old).number \in s.numbers
          THEN "freed" \notin odd /\ Noted("freed") ELSE Careful
       /\ \/ Only(Refocused(s))
          \/ Room(s) /\ Only({AddWindow(s, "stderr", TRUE, 0)})

----------------------------------------------------------------------------
(* Messages: which have a file and a line *)

FocusMsg(m, i) == [m EXCEPT !.focused = i]
Shown(s) == IF s.pointer["msg"] = None THEN AddWindow(s, "msg", TRUE, 0) ELSE s

\* the first error from the old end of the list is focused
ShowMessages(new, remove_old) ==
  LET fresh == remove_old \/ msgs.list = <<>>
      all == IF fresh THEN new ELSE msgs.list \o new
      from == IF fresh \/ new = <<>> THEN Len(all) ELSE Len(msgs.list) + 1
  IN /\ Room(w) /\ Len(all) <= MaxMsgs /\ prj = NoProject /\ odd = {} /\ Careful
     /\ msgs' = [list |-> all, focused |-> IF fresh THEN Min({1, Len(all)}) ELSE from]
     /\ w' = IF new # <<>> \/ w.current = None
             THEN Select(Shown(w), Shown(w).pointer["msg"])
             ELSE Select(Shown(w), w.current)
     /\ Rest

ClearMessages ==
  /\ \/ msgs' = [list |-> <<>>, focused |-> 0]
     \/ /\ msgs.list # <<>>
        /\ msgs' = [list |-> RemoveAt(msgs.list, msgs.focused),
                    focused |-> Min({msgs.focused, Len(msgs.list) - 1})]
  /\ UNCHANGED w /\ Rest /\ Careful

Located == {i \in DOMAIN msgs.list : msgs.list[i] # "text"}
GoToFirst(is, pick) ==      \* mutant: always from the top of the list
  /\ is # {} /\ Room(w) /\ msgs' = FocusMsg(msgs, Min(Located))
  /\ w' = OpenEditor(w, msgs.list[Min(Located)]) /\ Rest /\ Careful
GoTo(is, pick) ==
  /\ "cmNextMessage" \in enabled /\ is # {} /\ Room(w)
  /\ msgs' = FocusMsg(msgs, pick) /\ w' = OpenEditor(w, msgs.list[pick])
  /\ Rest /\ Careful
cmNextMessage == LET is == {i \in Located : i > msgs.focused} IN GoTo(is, Min(is))
cmPrevMessage == LET is == {i \in Located : i < msgs.focused} IN GoTo(is, Max(is))

----------------------------------------------------------------------------
(* Projects: all windows are closed, those of the desktop file opened *)

ClearDeskTop(s) ==
  [s EXCEPT !.windows = <<>>, !.numbers = {}, !.closed = <<>>, !.current = None,
            !.pointer = [t \in Tools |-> None]]
\* windows left open by an earlier run are not in the list; a closed window's
\* flag is not stored and not set: any value
LoadDesktop(s, open, closed, flags) ==
  LET after[i \in 0..Len(open)] ==
        IF i = 0 THEN s ELSE AddWindow(after[i - 1], open[i][1], TRUE, open[i][2])
  IN [after[Len(open)] EXCEPT !.closed = [i \in DOMAIN closed |->
                             [title |-> closed[i], removable |-> flags]]]

OpenProject(p) ==
  \E open \in Desktops, closed \in {<<>>} \cup {<<t>> : t \in Files}, flag \in BOOLEAN :
    /\ \A i \in DOMAIN open : open[i][1] \notin Range(closed)
    /\ Len(closed) <= max_closed   \* written with the same option
    /\ w' = LoadDesktop(ClearDeskTop(w), open, closed, flag)
    /\ prj' = p /\ debugger_started' = FALSE
    /\ msgs.list = <<>> /\ odd = {} /\ Len(open) <= Limit(p, FALSE)
    /\ UNCHANGED msgs /\ Shows(p, FALSE) /\ Careful

Change(p, started) ==
  /\ prj' = p /\ debugger_started' = started /\ UNCHANGED <<w, msgs>>
  /\ msgs.list = <<>> /\ odd = {} /\ Len(w.windows) <= Limit(p, started)
  /\ Shows(p, started) /\ Careful
AddProjectItem == prj.on /\ prj.count = 0 /\ Change([prj EXCEPT !.count = 1], debugger_started)
DelProjectItem == /\ "cmDelProjectItem" \in enabled /\ w.pointer["project"] # None
                  /\ Change([prj EXCEPT !.count = 0], debugger_started)
TargetName == \E t \in {"program", "library", "main_source"} :
                Change([prj EXCEPT !.target = t], debugger_started)
Debug == /\ "cmRun" \in enabled /\ Change(prj, ~debugger_started)

Next ==
  \/ \E t \in Files : OpenFile(t) \/ SaveAs(t)
  \/ \E t \in Tools : ShowWindow(t)
  \/ \E id \in Ids : cmClose(id)
  \/ fileNew \/ ShowClip \/ HideClip \/ SelectWindow \/ SyntaxHelp
  \/ SelectClosed \/ DeleteClosed \/ CheckStderr
  \/ \E new \in {<<>>} \cup {<<x>> : x \in Places \cup {"text"}}, old \in BOOLEAN :
       ShowMessages(new, old)
  \/ ClearMessages \/ cmNextMessage \/ cmPrevMessage
  \/ \E p \in [on : {TRUE}, count : {0, 1}, target : {"program"}] \cup {NoProject} :
       OpenProject(p)
  \/ AddProjectItem \/ DelProjectItem \/ TargetName \/ Debug

Spec == Init /\ [][Next]_vars
----------------------------------------------------------------------------
(* Properties *)

TypeOK ==
  /\ w.numbers \subseteq 1..(MaxWindows + 1)
  /\ \A x \in Range(w.windows) : x.id \in Ids /\ x.title \in Title
  /\ w.current \in InList(w) \cup {None, Clip}
  /\ w.pointer \in [Tools -> InList(w) \cup {None}]
  /\ enabled \subseteq Commands
  /\ msgs.focused \in 0..Len(msgs.list)

\* Every window of the list has a number of its own and no number is lost:
\* numbers[] counts exactly the windows (windowli.cc:75-140, 234), as long as
\* the window that is freed first still holds its number (idegcc.cc:981)
NumbersRight ==
  "freed" \in odd \/
    /\ w.numbers = {x.number : x \in Range(w.windows)}
    /\ \A i, j \in DOMAIN w.windows : w.windows[i].number = w.windows[j].number => i = j

\* A global that points to a window points to the window of its kind in the
\* list, whichever way that was opened or closed; and a window of that kind has
\* its global (idemsg.cc:166, ideprj.cc:1488, idedebug.cc:78)
PointersRight ==
  \A t \in Tools : w.pointer[t] = IdOf(w, t)

\* A file is shown by one window, or remembered as closed once, until an editor
\* is saved under a name that is in use (openedit.cc:100, ideapp.cc:109)
OneWindowPerFile ==
  "same_name" \in odd \/
    \A t \in Files :
      LET Open == {i \in DOMAIN w.windows : w.windows[i].title = t}
      IN /\ \A i, j \in Open : i = j
         /\ \A i, j \in IsClosedWindow(w, t) : i = j
         /\ Open = {} \/ IsClosedWindow(w, t) = {}

\* More windows than max_closed are remembered only when none of them may be
\* dropped (windowli.cc:208-219)
ClosedBounded ==
  Len(w.closed) <= max_closed \/ \A c \in Range(w.closed) : ~c.removable

\* The list of windows, their numbers, the pointers to them and the closed ones
\* are in step.
ListsRight == TypeOK /\ NumbersRight /\ PointersRight /\ OneWindowPerFile /\ ClosedBounded

\* What a handler relies on without asking, and update provides: the current
\* view is an editor, the project has items, a window list exists, the debugger
\* runs.  cmAddWatchEntry, which update enables for any window, is not among
\* them (idemain.cc:442-761, 1314-1830)
Ready(c) ==
  /\ c \in {"cmPrint", "cmSaveEditor", "cmToggleBreak"} => IsEditor(w, w.current)
  /\ c \in Edits \ {"cmcFind"} => IsEditor(w, w.current) \/ w.current = Clip
  /\ c = "cmcFind" => w.current # None
  /\ c \in Items => prj.on /\ prj.count > 0
  /\ c \in {"cmShowProject", "cmCloseProject"} => prj.on
  /\ c \in Makes \cup Runs => prj.count > 0 \/ prj.target = "main_source"
                             \/ \E id \in InList(w) : IsEditor(w, id)
  /\ c = "cmCompile" => IsEditor(w, w.current) \/ prj.count > 0
  /\ c = "cmModifyRegister" => debugger_started
  /\ c = "cmNextMessage" => w.pointer["msg"] # None
  /\ c = "cmShowWindowList" => w.windows # <<>> \/ w.closed # <<>>
EnabledIsReady == \A c \in enabled : Ready(c)

\* Going to the next message gets on: it never shows a message twice, and what it
\* skips has no place in a file (tmsglist.cc:42-50)
MessagesProceed ==
  [][cmNextMessage => /\ msgs'.focused > msgs.focused
                      /\ \A i \in Located : i <= msgs.focused \/ i >= msgs'.focused]_vars
=============================================================================
