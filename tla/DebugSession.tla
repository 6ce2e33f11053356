----------------------------- MODULE DebugSession -----------------------------
(***************************************************************************)
(* A debugging session: the commands of librhgdb/gdbcontr.c (Step, Trace,  *)
(* GoToLine, GoToAddress, Continue, Finish, ResetDebugger, ClearSymbols),  *)
(* the annotations gdb calls back while the program runs                   *)
(* (librhgdb/gdbinter.c), and what the IDE hangs on them (idedebug.cc):    *)
(* DoMake, StartSession, EndSession, BreakSession, RESET, with the screen  *)
(* swap and the redirection of the program's stderr (librhuti/io.cc).      *)
(* The breakpoint table is the one of Breakpoints.                         *)
(*                                                                         *)
(* A command is a sequence of steps; op.pc says where it stands.  The      *)
(* steps between two of those points run without any callback, so each is  *)
(* one action.  gdb and the program under test are external: they decide   *)
(* whether a command takes hold, where the program stops and how it ends.  *)
(* What they do seldom is listed in Surprises, so that a run can say which *)
(* of these a property survives.                                           *)
(***************************************************************************)
EXTENDS Breakpoints

CONSTANTS
  Surprises,     \* subset of SurpriseKinds: what may happen
  UseDualDisplay,\* the option, and a second display is there
  Djgpp          \* a DJGPP build: __EndSession clears inferior_pid itself

SurpriseKinds ==
  {"nocode",     \* Go to cursor at a line that has no code
   "fails",      \* "run" does not start the program
   "killed",     \* a signal ends the program
   "traceback",  \* stderr holds a DJGPP call frame traceback
   "options"}    \* the user changes "redirect stderr" in the middle

ASSUME SurprisesAssumption == Surprises \subseteq SurpriseKinds
ASSUME FlagsAssumption     == UseDualDisplay \in BOOLEAN /\ Djgpp \in BOOLEAN

VARIABLES
  started,            \* _debugger_started
  pid,                \* inferior_pid # 0
  user_screen_shown,
  switch_to_user,
  dual_display,
  ShowStderr,         \* the option "redirect stderr"
  err,                \* what descriptor 2 is open on
  errbak,             \* what h_errbak is a copy of
  input,              \* descriptor 0 is open
  tmp,                \* the file cpp_errname exists
  hook,               \* PostCommandHook = RemoveSessionTempFiles
  op                  \* the command in progress, or the one that ended last

fds         == <<err, errbak, input>>
screenVars  == <<user_screen_shown, dual_display>>
redirection == <<fds, tmp>>
sessionVars == <<started, pid, screenVars, switch_to_user, ShowStderr, redirection, hook, op>>
sVars       == <<bpVars, sessionVars>>

GoTos    == {"goline", "goaddr"}
Steps    == {"step", "continue"} \cup GoTos
Commands == Steps \cup {"finish", "run", "make", "reset", "debugger", "none"}
Points   == {"idle", "make", "compiled", "built", "session", "temp", "go", "exec",
             "exited", "mourn", "end", "direct", "break", "again", "tail", "symbols"}
Op == [name : Commands, pc : Points,
       ret : Points,                 \* where ResetDebugger returns to
       after : Points,               \* where RESET returns to
       ran : BOOLEAN,                \* the program has moved
       tmp : Numbers \cup {0}]       \* the temporary breakpoint it has set

NoOp == [name |-> "none", pc |-> "idle", ret |-> "idle", after |-> "idle",
         ran |-> FALSE, tmp |-> 0]

SessionTypeOK ==
  /\ started \in BOOLEAN /\ pid \in BOOLEAN
  /\ user_screen_shown \in BOOLEAN /\ switch_to_user \in BOOLEAN
  /\ dual_display \in BOOLEAN /\ ShowStderr \in BOOLEAN
  /\ err \in {"tty", "file", "stdin"}
  /\ errbak \in {"closed", "tty", "file", "stdin"}
  /\ input \in BOOLEAN /\ tmp \in BOOLEAN /\ hook \in BOOLEAN
  /\ op \in Op
SessionTypes == TypeOK /\ SessionTypeOK

Init ==
  /\ BpInit
  /\ started = FALSE /\ pid = FALSE
  /\ user_screen_shown = FALSE /\ switch_to_user = TRUE
  /\ dual_display = FALSE
  /\ ShowStderr \in BOOLEAN
  /\ err = "tty" /\ errbak = "stdin" /\ input = TRUE    \* h_errbak = 0
  /\ tmp = FALSE /\ hook = FALSE
  /\ op = NoOp

-----------------------------------------------------------------------------
(* Pieces the commands share *)

Quiet == op.pc = "idle" /\ job = Idle
At(pc) == op.pc = pc /\ job = Idle
Enter(pc) == op' = [op EXCEPT !.pc = pc]

ShowUserScreen(from)     == user_screen_shown' = (from \/ switch_to_user)
ShowDebuggerScreen       == user_screen_shown' = FALSE

open_stderr  == errbak' = err /\ err' = "file" /\ UNCHANGED input /\ tmp' = TRUE
close_stderr ==
  /\ err' = IF errbak = "closed" \/ (errbak = "stdin" /\ ~input) THEN err ELSE errbak
  /\ errbak' = "closed"
  /\ input' = (input /\ errbak # "stdin")

\* What EndSession and BreakSession give back
CloseStderr == IF ShowStderr THEN close_stderr ELSE UNCHANGED fds

SessionClosedDark == dual_display' = (dual_display /\ ~UseDualDisplay) /\ UNCHANGED fds  \* mutant
SessionClosedDual == UNCHANGED dual_display /\ CloseStderr                               \* mutant
SessionClosed     == dual_display' = (dual_display /\ ~UseDualDisplay) /\ CloseStderr

\* RunProgram: open_stderr, the child, close_stderr, then the file is removed
RunRedirected(redir) ==
  IF redir THEN errbak' = "closed" /\ tmp' = FALSE /\ UNCHANGED <<err, input>>
           ELSE UNCHANGED redirection

CommandEndRepeated(alive) ==      \* mutant: the hook is not forgotten
  started' = alive /\ UNCHANGED hook /\ tmp' = (tmp /\ ~(hook /\ ShowStderr))

\* The tail of Command: init_started, then PostCommandHook, once.
CommandEnd(alive) ==
  /\ started' = alive
  /\ hook' = FALSE
  /\ tmp' = (tmp /\ ~(hook /\ ShowStderr))

\* The three ends of INIT; where the command goes on when the program is loaded
INIT(loaded, failed) ==
  \/ InitLoaded /\ Enter(loaded)
  \/ (InitNoProgram \/ InitNoSymbols) /\ Enter(failed)

\* A walk over the table; each gdb command it gives ends like any other.
\* (No hook is pending then: see NoHookPending.)
CommandGiven ==
  /\ job.i \in DOMAIN rows
  /\ job.k = "set" => ~Set(job.i) /\ break_available
  /\ job.k = "remove" => Set(job.i)
Walk ==
  /\ SetNext \/ DeleteNext \/ RemoveNext
  /\ started' = IF CommandGiven THEN pid ELSE started
  /\ UNCHANGED <<pid, screenVars, switch_to_user, ShowStderr, redirection, hook, op>>

-----------------------------------------------------------------------------
(* The user's commands *)

Begin(name, swap, pc) ==
  /\ op' = [NoOp EXCEPT !.name = name, !.pc = pc]
  /\ switch_to_user' = swap
  /\ UNCHANGED <<bpVars, started, pid, screenVars, ShowStderr, redirection, hook>>

\* The bound on gdb's numbers leaves room for the table and one temporary breakpoint.
RoomForTemp == Cardinality(FreshNumbers) > Len(rows)

\* With Shift, Step, Trace and Go to cursor do not swap the screen.
StepCommand ==
  /\ Quiet /\ RoomForTemp
  /\ \E name \in Steps, swap \in BOOLEAN : (name = "continue" => swap) /\ Begin(name, swap, "make")

\* cmFinish is disabled while the debugger is not started.
FINISH == Quiet /\ started /\ Begin("finish", TRUE, "go")

\* Ctrl+F9 while nothing is being debugged; F9
Run  == Quiet /\ ~started /\ RoomForTemp /\ Begin("run", switch_to_user, "make")
Make == Quiet /\ Begin("make", switch_to_user, "make")

\* ResetDebugger kills only what runs, but always empties gdb's table.
ResetDebugger(o) ==
  /\ op' = IF started \/ pid THEN [o EXCEPT !.pc = "break"] ELSE [o EXCEPT !.pc = o.ret]
  /\ DeleteBreakPoints
  /\ UNCHANGED <<started, pid, screenVars, switch_to_user, ShowStderr, redirection, hook>>

RESET(o, after) == ResetDebugger([o EXCEPT !.ret = "tail", !.after = after])

ResetAlways == Quiet /\ RESET([NoOp EXCEPT !.name = "reset"], "idle")     \* mutant

\* Ctrl+F2; Alt+F9 resets first; so does an external debugger (FSDB, GDB).
Reset == Quiet /\ started /\ RESET([NoOp EXCEPT !.name = "reset"], "idle")
Compile == Quiet /\ started /\ RESET([NoOp EXCEPT !.name = "make"], "make")
ExternalDebugger ==
  /\ Quiet
  /\ \/ started /\ RESET([NoOp EXCEPT !.name = "debugger"], "symbols")
     \/ ~started /\ Begin("debugger", switch_to_user, "symbols")

EditBreakpoints ==
  /\ Quiet
  /\ UserCommand \/ DeleteAllBreakPoints
  /\ op' = NoOp
  /\ UNCHANGED <<started, pid, screenVars, switch_to_user, ShowStderr, redirection, hook>>

ChangeOptions ==
  /\ "options" \in Surprises
  /\ Quiet
  /\ ShowStderr' = ~ShowStderr
  /\ UNCHANGED <<bpVars, started, pid, screenVars, switch_to_user, redirection, hook, op>>

-----------------------------------------------------------------------------
(* DoMake, and the compilation of one dependency *)

\* Nothing to build, a build that went well or badly, the user's "No" or "Cancel"
MakeDone ==
  /\ At("make")
  /\ \/ Enter("idle")
     \/ op.name \in Steps /\ Enter("built")
     \/ op.name = "run" /\ rows = <<>> /\ Enter("direct")
  /\ UNCHANGED <<bpVars, started, pid, screenVars, switch_to_user, ShowStderr,
                 redirection, hook>>

\* RunMainTarget with breakpoints is CONTINUE, which makes once more.
RunWithBreakpoints ==
  /\ At("make")
  /\ op.name = "run" /\ rows # <<>>
  /\ Begin("continue", TRUE, "make")

\* compile_dep: a running program is reset before its compiler runs.
CompileDep ==
  /\ At("make")
  /\ \/ started /\ RESET(op, "compiled")
     \/ /\ ~started /\ Enter("compiled")
        /\ UNCHANGED <<bpVars, started, pid, screenVars, switch_to_user, ShowStderr,
                       redirection, hook>>

\* CLEARSYMBOLS, then RunCompiler (which always redirects) or the external debugger.
CLEARSYMBOLS ==
  /\ At("compiled") \/ At("symbols")
  /\ \/ /\ started \/ pid
        /\ ResetDebugger([op EXCEPT !.ret = op.pc])
     \/ /\ ~started /\ ~pid
        /\ ClearSymbols
        /\ IF op.pc = "compiled" THEN Enter("make") /\ RunRedirected(TRUE)
                                 ELSE Enter("idle") /\ UNCHANGED redirection
        /\ UNCHANGED <<started, pid, screenVars, switch_to_user, ShowStderr, hook>>

-----------------------------------------------------------------------------
(* Starting: INIT, StartSession, the temporary breakpoint *)

BuiltAnew ==                \* mutant: debugger_started not asked
  /\ At("built")
  /\ INIT("session", "idle")
  /\ started' = pid
  /\ UNCHANGED <<pid, screenVars, switch_to_user, ShowStderr, redirection, hook>>

Built ==
  /\ At("built")
  /\ \/ ~started /\ INIT("session", "idle")
     \/ started /\ Enter(IF op.name \in GoTos THEN "temp" ELSE "go") /\ UNCHANGED bpVars
  /\ started' = pid
  /\ UNCHANGED <<pid, screenVars, switch_to_user, ShowStderr, redirection, hook>>

StartSessionOnce ==         \* mutant: stderr is opened only if it is the terminal
  /\ At("session")
  /\ dual_display' = (dual_display \/ UseDualDisplay)
  /\ IF ShowStderr /\ err = "tty" THEN open_stderr ELSE UNCHANGED redirection
  /\ ShowUserScreen(user_screen_shown)
  /\ Enter(IF op.name = "continue" THEN "go" ELSE "temp")
  /\ UNCHANGED <<bpVars, started, pid, switch_to_user, ShowStderr, hook>>

StartSession ==
  /\ At("session")
  /\ dual_display' = (dual_display \/ UseDualDisplay)
  /\ IF ShowStderr THEN open_stderr ELSE UNCHANGED redirection
  /\ ShowUserScreen(user_screen_shown)
  /\ Enter(IF op.name = "continue" THEN "go" ELSE "temp")
  /\ UNCHANGED <<bpVars, started, pid, switch_to_user, ShowStderr, hook>>

Tbreak(line, moved, pc) ==
  /\ FreshNumbers # {}
  /\ gdb' = [gdb EXCEPT ![NewNumber] = [st |-> "temp", line |-> line]]
  /\ last' = NewNumber /\ lastLine' = line /\ invalid_line' = moved
  /\ mistaken' = mistaken \ FreshNumbers
  /\ op' = [op EXCEPT !.tmp = NewNumber, !.pc = pc]
  /\ UNCHANGED <<rows, hw_break_point_count, prog, init, job>>

NoTbreak(pc) == Enter(pc) /\ UNCHANGED bpVars

\* GoToLine: "invalid_line ||" leaves no_found at 0, so a breakpoint gdb
\* moved, or one moved by the command before, makes it return at once.  A refusal
\* that is not seen lets the program run without a temporary breakpoint.  Step and
\* Trace stop at main, whatever gdb says about it.
TempBreakpoint ==
  /\ At("temp")
  /\ \/ \E line \in Lines : Tbreak(line, FALSE, "go")
     \/ /\ op.name = "goline" /\ "nocode" \in Surprises
        /\ \/ \E line \in Lines : Tbreak(line, TRUE, "idle")
           \/ NoTbreak(IF invalid_line \/ OldGdb THEN "idle" ELSE "go")
     \/ op.name = "step" /\ NoTbreak("go")
  /\ started' = pid
  /\ UNCHANGED <<pid, screenVars, switch_to_user, ShowStderr, redirection, hook>>

-----------------------------------------------------------------------------
(* The program runs: gdb's annotations *)

\* annotate_starting
Go ==
  /\ At("go")
  /\ pid' = TRUE
  /\ ShowUserScreen(user_screen_shown)
  /\ op' = [op EXCEPT !.pc = "exec", !.ran = TRUE]
  /\ UNCHANGED <<bpVars, started, dual_display, switch_to_user, ShowStderr, redirection, hook>>

\* gdb refuses "continue" or "finish", or cannot start the program.
GoFails ==
  /\ At("go")
  /\ pid \/ "fails" \in Surprises
  /\ Enter("end")
  /\ UNCHANGED <<bpVars, started, pid, screenVars, switch_to_user, ShowStderr, redirection, hook>>

StoppedHidden ==            \* mutant: the user's screen stays
  /\ At("exec")
  /\ started' = pid
  /\ Enter("end")
  /\ UNCHANGED <<bpVars, pid, screenVars, switch_to_user, ShowStderr, redirection, hook>>

\* annotate_stopped, after a signal, a breakpoint or the end of a step; gdb
\* deletes a temporary breakpoint it has stopped at.  (annotate_signal_string_end
\* shows a warning on the debugger's screen and swaps back.)
Stopped ==
  /\ At("exec")
  /\ gdb' \in {gdb} \cup {Delete(gdb, n) : n \in {m \in Numbers : gdb[m].st = "temp"}}
  /\ ShowDebuggerScreen
  /\ started' = pid
  /\ Enter("end")
  /\ UNCHANGED <<rows, last, lastLine, invalid_line, hw_break_point_count, prog, init, job,
                 mistaken, pid, dual_display, switch_to_user, ShowStderr, redirection, hook>>

\* A signal ends the program: gdb forgets it and stops, annotate_exited is not called.
Killed ==
  /\ At("exec")
  /\ "killed" \in Surprises
  /\ pid' = FALSE /\ started' = FALSE
  /\ ShowDebuggerScreen
  /\ Enter("end")
  /\ UNCHANGED <<bpVars, dual_display, switch_to_user, ShowStderr, redirection, hook>>

annotate_exited ==
  /\ At("exec")
  /\ ShowDebuggerScreen
  /\ DeleteBreakPoints
  /\ Enter("exited")
  /\ UNCHANGED <<started, pid, dual_display, switch_to_user, ShowStderr, redirection, hook>>

\* CheckStderr(false) shows the file and looks for a traceback in it, for which
\* it loads the symbols again; nothing is removed yet.
EndSession ==
  /\ At("exited")
  /\ pid' = (pid /\ ~Djgpp)
  /\ SessionClosed
  /\ \/ started' = FALSE /\ Enter("mourn") /\ UNCHANGED bpVars
     \/ /\ "traceback" \in Surprises /\ ShowStderr /\ tmp
        /\ INIT("mourn", "mourn")
        /\ started' = pid'
  /\ UNCHANGED <<user_screen_shown, switch_to_user, ShowStderr, tmp, hook>>

\* SetPostCommandHook; then gdb mourns the program and calls annotate_stopped.
Mourn ==
  /\ At("mourn")
  /\ hook' = TRUE
  /\ pid' = FALSE /\ started' = FALSE
  /\ ShowDebuggerScreen
  /\ Enter("end")
  /\ UNCHANGED <<bpVars, dual_display, switch_to_user, ShowStderr, redirection>>

\* "delete last_breakpoint_number": the breakpoint Go to cursor takes for its
\* own is another one when gdb refused the temporary breakpoint, or a reload of
\* the symbols set the table again while the program ran.
Carried(n) == {n} \cap {rows[i].num : i \in DOMAIN rows}
DeleteLast ==
  /\ gdb' = Delete(gdb, last)
  /\ mistaken' = IF last # op.tmp THEN mistaken \cup Carried(last) ELSE mistaken

DeleteAnyLast ==            \* mutant of Returned: every command deletes it
  gdb' = Delete(gdb, last) /\ UNCHANGED mistaken

DeleteAtLine ==             \* mutant of Returned: GoToAddress leaves its breakpoint
  IF op.name = "goline" THEN DeleteLast ELSE UNCHANGED <<gdb, mistaken>>

Returned == IF op.name \in GoTos THEN DeleteLast ELSE UNCHANGED <<gdb, mistaken>>

\* The command returns; Go to cursor deletes "its" breakpoint.  Finish alone
\* leaves the screen to annotate_stopped.
Return ==
  /\ At("end")
  /\ CommandEnd(pid)
  /\ Returned
  /\ user_screen_shown' = (op.name = "finish" /\ user_screen_shown)
  /\ Enter("idle")
  /\ UNCHANGED <<rows, last, lastLine, invalid_line, hw_break_point_count, prog, init, job,
                 pid, dual_display, switch_to_user, ShowStderr, fds>>

-----------------------------------------------------------------------------
(* Ending from outside *)

\* RunMainTarget without breakpoints: the program runs outside the debugger.
RunDirect ==
  /\ At("direct")
  /\ RunRedirected(ShowStderr)
  /\ \/ Enter("idle") /\ UNCHANGED bpVars
     \/ "traceback" \in Surprises /\ ShowStderr /\ INIT("idle", "idle")
  /\ UNCHANGED <<started, pid, screenVars, switch_to_user, ShowStderr, hook>>

BreakSessionAlive ==        \* mutant: no "kill"
  /\ At("break")
  /\ SessionClosed
  /\ tmp' = (tmp /\ ~ShowStderr)
  /\ started' = FALSE /\ hook' = FALSE
  /\ DeleteBreakPoints
  /\ Enter(op.ret)
  /\ UNCHANGED <<pid, user_screen_shown, switch_to_user, ShowStderr>>

\* reset_debugger once the breakpoints are gone (BreakSession, "kill"), then
\* the second DeleteBreakPoints, of ResetDebugger
BreakSession ==
  /\ At("break")
  /\ SessionClosed
  /\ tmp' = (tmp /\ ~ShowStderr)
  /\ pid' = FALSE /\ started' = FALSE /\ hook' = FALSE
  /\ DeleteBreakPoints
  /\ Enter(op.ret)
  /\ UNCHANGED <<user_screen_shown, switch_to_user, ShowStderr>>

\* With a traceback in the file BreakSession does not get that far: CheckStderr
\* loads the symbols for it, and INIT, as long as the debugger counts as started,
\* resets it, which breaks the session, which finds the same traceback...
BreakSessionAgain ==
  /\ "traceback" \in Surprises
  /\ \/ At("break") /\ ShowStderr /\ tmp /\ started
     \/ At("again")
  /\ SessionClosed
  /\ DeleteBreakPoints
  /\ Enter("again")
  /\ UNCHANGED <<started, pid, user_screen_shown, switch_to_user, ShowStderr, tmp, hook>>

\* The rest of RESET: close_stderr once more, RemoveSessionTempFiles
ResetTail ==
  /\ At("tail")
  /\ CloseStderr
  /\ tmp' = (tmp /\ ~ShowStderr)
  /\ Enter(op.after)
  /\ UNCHANGED <<bpVars, started, pid, screenVars, switch_to_user, ShowStderr, hook>>

-----------------------------------------------------------------------------
User ==
  \/ StepCommand \/ FINISH \/ Run \/ Make
  \/ Reset \/ Compile \/ ExternalDebugger
  \/ EditBreakpoints \/ ChangeOptions

\* What the program under test decides
Annotation == Stopped \/ Killed \/ annotate_exited

Progress ==
  \/ Walk \/ MakeDone \/ RunWithBreakpoints \/ CLEARSYMBOLS \/ Built \/ StartSession \/ TempBreakpoint
  \/ Go \/ GoFails \/ EndSession \/ Mourn \/ Return \/ RunDirect
  \/ BreakSession \/ BreakSessionAgain \/ ResetTail

Next == User \/ CompileDep \/ Annotation \/ Progress

Spec == Init /\ [][Next]_sVars

\* The library's own steps go on by themselves, and a make comes to its end: a
\* project has finitely many dependencies.  The program may run for ever.
FairSpec == Spec /\ WF_sVars(Progress) /\ SF_sVars(MakeDone)

-----------------------------------------------------------------------------
(* Properties *)

\* Between commands _debugger_started says whether gdb has a live program:
\* every early return, reset, exit and death leaves the two in step.
StartedIsAlive == Quiet => (started <=> pid)

\* The symbols of a program that is alive are loaded: no build, external
\* debugger or reload unloads them while gdb still needs them (which it does
\* not any more while it mourns the program).
AliveIsLoaded == pid /\ op.pc # "mourn" => prog /\ init

\* While the program runs its stderr goes to a file that is still there,
\* whatever sessions, builds and resets came before.
RunsRedirected == op.pc = "exec" /\ ShowStderr => err = "file" /\ tmp

\* PostCommandHook has run when a command returns: the session's file is
\* removed by the command in which the program exited, not by a later one.
NoHookPending == hook => op.pc = "end"

\* After a command that let the program move, the debugger's screen is back.
ScreenBack == Quiet /\ op.ran => ~user_screen_shown

\* A command that is over leaves nothing behind for a later one to do.
CommandDone == NoHookPending /\ ScreenBack

\* Go to cursor takes its own temporary breakpoint away once the program has run.
OwnTempGone ==
  Quiet /\ op.ran /\ op.name \in GoTos /\ op.tmp # 0 => gdb[op.tmp].st # "temp"

\* A session is open exactly while the program is alive: StartSession is
\* answered by one EndSession or BreakSession, so the second display, the
\* descriptor of stderr and the session's file are given back.
SessionPaired ==
  Quiet =>
    /\ dual_display <=> pid /\ UseDualDisplay
    /\ ShowStderr => /\ tmp <=> pid
                     /\ err = IF pid THEN "file" ELSE "tty"
                     /\ pid => errbak = "tty"

\* stderr and stdin of the IDE survive every session.
DescriptorsKept == Quiet /\ ~pid => err = "tty" /\ input

\* "Program reset" ends with no program, no session and a gdb that holds none
\* of the table's breakpoints.
ResetComplete ==
  Quiet /\ op.name = "reset" =>
    /\ ~pid /\ ~dual_display /\ ~tmp /\ err = "tty"
    /\ \A i \in DOMAIN rows : ~Set(i)
    /\ \A n \in Numbers : gdb[n].st \notin {"on", "off"}

\* Every command returns, unless the program under test keeps running, or a
\* session is broken whose file holds a traceback: that one never returns.
CommandReturns == (~Quiet) ~> (Quiet \/ op.pc \in {"exec", "again"})
=============================================================================
