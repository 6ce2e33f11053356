------------------------- MODULE DebugSession_proofs -------------------------
(***************************************************************************)
(* Proofs about the debugging session, for every value of the constants:   *)
(* its types, the agreement of the debugger's flags with the program, and  *)
(* what sessions give back.                                                *)
(***************************************************************************)
EXTENDS DebugSession, Breakpoints_proofs

(* Which walk over the table may be in progress at which point: the table is *)
(* loaded behind INIT and emptied by resets and at the end of the program.   *)
WalkPoints ==
  \/ job = Idle
  \/ job.k = "delete" /\ op.pc \in {"break", "again", "exited", "tail"}
  \/ job.k = "set" /\ op.pc \in {"mourn", "session"}
  \/ job.k = "set" /\ op.pc = "idle" /\ op.name = "run"
  \/ job.k = "remove" /\ op.pc = "idle" /\ op.name = "none"

(* Where _debugger_started and inferior_pid may differ, and which way        *)
FlagPoints ==
  /\ op.pc \in {"exec", "exited"} => pid
  /\ op.pc \in {"break", "again"} => started /\ pid
  /\ op.pc \in {"compiled", "session", "tail", "symbols", "direct"} => ~started /\ ~pid
  /\ op.pc \in {"idle", "make", "built", "temp", "go", "end"} => (started <=> pid)
  /\ op.pc = "direct" => op.name = "run"
  /\ op.name = "run" => ~started /\ ~pid /\ op.pc \in {"idle", "make", "compiled", "direct"}

(* Where a reset goes on: RESET calls ResetDebugger, then the rest of itself *)
ResetPoints ==
  /\ op.name = "reset" => op.pc \in {"break", "again", "tail", "idle"}
  /\ op.pc = "break" => op.ret = "tail"
  /\ op.pc \in {"break", "again", "tail"} =>
       /\ op.after \in {"idle", "make", "compiled", "symbols"}
       /\ op.after = "idle" <=> op.name = "reset"

(* The program file is loaded from StartSession until gdb mourns             *)
LoadedPoints ==
  /\ pid /\ op.pc # "mourn" => prog /\ init
  /\ op.pc \in {"session", "temp", "go"} => prog /\ init

(* The hook waits for the end of the command; the program has moved only     *)
(* where it is running or has been, and the debugger's screen is back then.  *)
EndPoints ==
  /\ hook => op.pc = "end" /\ ~pid
  /\ op.ran => op.pc \in {"exec", "exited", "mourn", "end", "idle"}
  /\ op.ran /\ op.pc \in {"end", "idle"} => ~user_screen_shown

ControlInv == WalkPoints /\ FlagPoints /\ ResetPoints /\ LoadedPoints /\ EndPoints

-----------------------------------------------------------------------------
(* A command on the table loads and unloads nothing and starts no walk.      *)
LEMMA UserCommandFrame == UserCommand => UNCHANGED <<prog, init, job>>
BY UserCommandIsOperation
   DEF Operation, AddBreakPoint, RemoveOne, RemoveBreakPoint, SwitchBreak, DisableBreakPoint,
       EnableBreakPoint, EditBreakPoint

LEMMA ControlUser == SessionTypeOK /\ ControlInv /\ User => ControlInv'
<1> SUFFICES ASSUME SessionTypeOK, ControlInv, User PROVE ControlInv'
  OBVIOUS
<1> USE DEF ControlInv, WalkPoints, FlagPoints, ResetPoints, LoadedPoints, EndPoints,
            Quiet, SessionTypeOK, Op, screenVars, fds, redirection, bpVars, bpTable
<1>1. CASE StepCommand
  BY <1>1 DEF StepCommand, Begin, NoOp, Steps, GoTos
<1>2. CASE FINISH
  BY <1>2 DEF FINISH, Begin, NoOp
<1>3. CASE Run
  BY <1>3 DEF Run, Begin, NoOp
<1>4. CASE Make
  BY <1>4 DEF Make, Begin, NoOp
<1>5. CASE Reset
  BY <1>5 DEF Reset, RESET, ResetDebugger, DeleteBreakPoints, Start, NoOp
<1>6. CASE Compile
  BY <1>6 DEF Compile, RESET, ResetDebugger, DeleteBreakPoints, Start, NoOp
<1>7. CASE ExternalDebugger
  <2>1. CASE started /\ RESET([NoOp EXCEPT !.name = "debugger"], "symbols")
    BY <1>7, <2>1 DEF ExternalDebugger, RESET, ResetDebugger, DeleteBreakPoints, Start, NoOp
  <2>2. CASE ~started /\ Begin("debugger", switch_to_user, "symbols")
    BY <1>7, <2>2 DEF ExternalDebugger, Begin, NoOp
  <2> QED BY <1>7, <2>1, <2>2 DEF ExternalDebugger
<1>8. CASE EditBreakpoints
  <2>1. UNCHANGED <<prog, init>> /\ (job' = Idle \/ job'.k = "remove")
    BY <1>8, UserCommandFrame DEF EditBreakpoints, DeleteAllBreakPoints, Start
  <2> QED BY <1>8, <2>1 DEF EditBreakpoints, NoOp
<1>9. CASE ChangeOptions
  BY <1>9 DEF ChangeOptions
<1> QED BY <1>1, <1>2, <1>3, <1>4, <1>5, <1>6, <1>7, <1>8, <1>9 DEF User

(* A step of a walk goes on with the same walk or ends it.                   *)
LEMMA WalkFrame ==
  SetNext \/ DeleteNext \/ RemoveNext =>
    UNCHANGED <<prog, init>> /\ job # Idle /\ (job' = Idle \/ job'.k = job.k)
BY DEF SetNext, DeleteNext, RemoveNext, RemoveBreakPoint, Start, bpTable, Idle

(* INIT loads the program and starts a walk, or leaves it unloaded.          *)
LEMMA InitFrame ==
  ASSUME NEW loaded, NEW failed, INIT(loaded, failed)
  PROVE  \/ prog' /\ init' /\ job'.k = "set" /\ job'.i = 1 /\ Enter(loaded)
         \/ job' = job /\ ~init' /\ Enter(failed)
BY DEF INIT, InitLoaded, InitNoProgram, InitNoSymbols, Enter, Start, bpTable

LEMMA ControlProgress == SessionTypeOK /\ ControlInv /\ (Progress \/ CompileDep \/ Annotation) => ControlInv'
<1> SUFFICES ASSUME SessionTypeOK, ControlInv, Progress \/ CompileDep \/ Annotation PROVE ControlInv'
  OBVIOUS
<1> USE DEF ControlInv, WalkPoints, FlagPoints, ResetPoints, LoadedPoints, EndPoints,
            At, Enter, SessionTypeOK, Op, screenVars, fds, redirection, bpVars, bpTable
<1>1. CASE Walk
  BY <1>1, WalkFrame DEF Walk
<1>2. CASE MakeDone
  BY <1>2 DEF MakeDone, Steps, GoTos
<1>3. CASE RunWithBreakpoints
  BY <1>3 DEF RunWithBreakpoints, Begin, NoOp
<1>4. CASE CompileDep
  <2>1. CASE started /\ RESET(op, "compiled")
    <3>1. op' = [op EXCEPT !.ret = "tail", !.after = "compiled", !.pc = "break"]
      BY <2>1 DEF RESET, ResetDebugger
    <3>2. job'.k = "delete" /\ UNCHANGED <<started, pid, prog, init, hook, user_screen_shown>>
      BY <2>1 DEF RESET, ResetDebugger, DeleteBreakPoints, Start
    <3> QED BY <1>4, <2>1, <3>1, <3>2 DEF CompileDep
  <2>2. CASE ~started /\ Enter("compiled") /\ UNCHANGED <<bpVars, started, pid, user_screen_shown, hook>>
    BY <1>4, <2>2 DEF CompileDep
  <2> QED BY <1>4, <2>1, <2>2 DEF CompileDep
<1>5. CASE CLEARSYMBOLS
  <2>1. ~started /\ ~pid /\ prog' = FALSE /\ UNCHANGED <<init, job>>
    BY <1>5 DEF CLEARSYMBOLS, ClearSymbols
  <2>2. Enter("make") \/ (op.pc = "symbols" /\ Enter("idle"))
    BY <1>5, <2>1 DEF CLEARSYMBOLS
  <2>3. UNCHANGED <<started, pid, user_screen_shown, switch_to_user, ShowStderr, hook>>
    BY <1>5, <2>1 DEF CLEARSYMBOLS
  <2> QED BY <1>5, <2>1, <2>2, <2>3 DEF CLEARSYMBOLS
<1>6. CASE Built
  BY <1>6, InitFrame DEF Built
<1>7. CASE StartSession
  BY <1>7 DEF StartSession
<1>8. CASE TempBreakpoint
  BY <1>8 DEF TempBreakpoint, Tbreak, NoTbreak
<1>9. CASE Go
  BY <1>9 DEF Go
<1>10. CASE GoFails
  BY <1>10 DEF GoFails
<1>11. CASE Stopped
  BY <1>11 DEF Stopped, ShowDebuggerScreen
<1>12. CASE Killed
  BY <1>12 DEF Killed, ShowDebuggerScreen
<1>13. CASE annotate_exited
  BY <1>13 DEF annotate_exited, DeleteBreakPoints, Start
<1>14. CASE EndSession
  <2>1. pid' \in BOOLEAN /\ (pid' => pid)
    BY <1>14, FlagsAssumption DEF EndSession
  <2>2. \/ started' = FALSE /\ Enter("mourn") /\ UNCHANGED <<prog, init, job>>
        \/ started' = pid' /\ Enter("mourn") /\ (job' = job \/ job'.k = "set")
    BY <1>14, InitFrame DEF EndSession
  <2>3. op.pc = "exited" /\ job = Idle /\ UNCHANGED <<user_screen_shown, hook>>
    BY <1>14 DEF EndSession
  <2> QED BY <2>1, <2>2, <2>3
<1>15. CASE Mourn
  BY <1>15 DEF Mourn, ShowDebuggerScreen
<1>16. CASE Return
  BY <1>16 DEF Return, CommandEnd
<1>17. CASE RunDirect
  <2>1. Enter("idle") /\ (job' = job \/ job'.k = "set")
    BY <1>17, InitFrame DEF RunDirect
  <2>2. op.pc = "direct" /\ job = Idle /\ UNCHANGED <<started, pid, user_screen_shown, hook>>
    BY <1>17 DEF RunDirect
  <2> QED BY <2>1, <2>2
<1>18. CASE BreakSession
  BY <1>18 DEF BreakSession, DeleteBreakPoints, Start
<1>19. CASE ResetTail
  BY <1>19 DEF ResetTail
<1>20. CASE BreakSessionAgain
  BY <1>20 DEF BreakSessionAgain, DeleteBreakPoints, Start
<1> QED
  BY <1>1, <1>2, <1>3, <1>4, <1>5, <1>6, <1>7, <1>8, <1>9, <1>10, <1>11, <1>12, <1>13,
     <1>14, <1>15, <1>16, <1>17, <1>18, <1>19, <1>20 DEF Progress, Annotation

LEMMA ControlInit == Init => ControlInv
BY DEF Init, BpInit, NoOp, ControlInv, WalkPoints, FlagPoints, ResetPoints, LoadedPoints, EndPoints

-----------------------------------------------------------------------------
(* What a step of a session does to the table: a step the table takes by     *)
(* itself, or a temporary breakpoint that is set or goes.                    *)
TempSet ==
  \E line \in Lines, moved \in BOOLEAN, pc \in Points : Tbreak(line, moved, pc)
TempGone ==
  /\ \/ \E n \in Numbers : gdb[n].st = "temp" /\ gdb' = Delete(gdb, n) /\ UNCHANGED mistaken
     \/ op.pc = "end" /\ op.name \in GoTos /\ DeleteLast
  /\ UNCHANGED <<rows, last, lastLine, invalid_line, hw_break_point_count, prog, init, job>>

LEMMA InitIsTableStep ==
  ASSUME job = Idle, NEW loaded, NEW failed, INIT(loaded, failed)
  PROVE  BpNext
BY DEF INIT, BpNext

LEMMA TableSteps == Next => [BpNext]_bpVars \/ TempSet \/ TempGone
<1> SUFFICES ASSUME Next PROVE [BpNext]_bpVars \/ TempSet \/ TempGone
  OBVIOUS
<1> USE DEF At, Quiet
<1>1. CASE StepCommand \/ FINISH \/ Run \/ Make \/ ChangeOptions
  BY <1>1 DEF StepCommand, FINISH, Run, Make, Begin, ChangeOptions
<1>2. CASE Reset \/ Compile \/ ExternalDebugger
  BY <1>2 DEF Reset, Compile, ExternalDebugger, RESET, ResetDebugger, Begin, BpNext
<1>3. CASE EditBreakpoints
  BY <1>3 DEF EditBreakpoints, BpNext
<1>4. CASE Walk
  BY <1>4 DEF Walk, BpNext, TableWalk
<1>5. CASE MakeDone \/ RunWithBreakpoints \/ StartSession \/ Go \/ GoFails \/ Killed \/ Mourn \/ ResetTail
  BY <1>5 DEF MakeDone, RunWithBreakpoints, StartSession, Go, GoFails, Killed, Mourn, ResetTail, Begin
<1>6. CASE CompileDep \/ CLEARSYMBOLS
  BY <1>6 DEF CompileDep, CLEARSYMBOLS, RESET, ResetDebugger, BpNext
<1>7. CASE Built \/ EndSession \/ RunDirect
  BY <1>7, InitIsTableStep DEF Built, EndSession, RunDirect
<1>8. CASE TempBreakpoint
  BY <1>8 DEF TempBreakpoint, TempSet, NoTbreak, Points
<1>9. CASE Stopped
  BY <1>9 DEF Stopped, TempGone, bpVars
<1>10. CASE annotate_exited \/ BreakSession \/ BreakSessionAgain
  BY <1>10 DEF annotate_exited, BreakSession, BreakSessionAgain, BpNext
<1>11. CASE Return
  BY <1>11 DEF Return, Returned, TempGone, bpVars
<1> QED
  BY <1>1, <1>2, <1>3, <1>4, <1>5, <1>6, <1>7, <1>8, <1>9, <1>10, <1>11
     DEF Next, User, Progress, Annotation

LEMMA TempTypes == TypeInv /\ (TempSet \/ TempGone) => TypeInv'
<1> SUFFICES ASSUME TypeInv, TempSet \/ TempGone PROVE TypeInv'
  OBVIOUS
<1> USE DEF TypeInv, TypeOK, RemovalInTable
<1>1. CASE TempSet
  <2>1. PICK line \in Lines, moved \in BOOLEAN : \E pc \in Points : Tbreak(line, moved, pc)
    BY <1>1 DEF TempSet
  <2>2. NewNumber \in Numbers
    BY <2>1, NewNumberFresh DEF Tbreak, FreshNumbers
  <2>3. [st |-> "temp", line |-> line] \in GdbState /\ line \in Position
    BY DEF GdbState, Position
  <2>4. gdb' \in [Numbers -> GdbState]
    BY <2>1, <2>2, <2>3 DEF Tbreak
  <2> QED BY <2>1, <2>2, <2>3, <2>4 DEF Tbreak
<1>2. CASE TempGone
  <2>1. \E n \in Numbers \cup {0} : gdb' = Delete(gdb, n)
    BY <1>2 DEF TempGone, DeleteLast
  <2>2. mistaken' \subseteq Numbers \cup {0}
    BY <1>2 DEF TempGone, DeleteLast, Carried
  <2>3. gdb' \in [Numbers -> GdbState]
    BY <2>1, DeleteType
  <2> QED BY <1>2, <2>2, <2>3 DEF TempGone
<1> QED BY <1>1, <1>2

(* The record of a command stays one: points and names are as written.       *)
LEMMA OpPoint ==
  ASSUME NEW o \in Op, NEW pc \in Points
  PROVE  [o EXCEPT !.pc = pc] \in Op
BY DEF Op

LEMMA OpBegin ==
  ASSUME NEW name \in Commands, NEW pc \in Points, NEW swap, Begin(name, swap, pc)
  PROVE  op' \in Op
BY DEF Begin, Op, NoOp, Points, Commands

LEMMA OpReset ==
  ASSUME NEW o \in Op, NEW ret \in Points, ResetDebugger([o EXCEPT !.ret = ret])
  PROVE  op' \in Op
BY DEF Op, ResetDebugger, Points

LEMMA OpRESET ==
  ASSUME NEW o \in Op, NEW after \in Points, RESET(o, after)
  PROVE  op' \in Op
BY DEF Op, RESET, ResetDebugger, Points

LEMMA CommandNames ==
  ASSUME NEW name \in Commands PROVE [NoOp EXCEPT !.name = name] \in Op
BY DEF Op, NoOp, Points, Commands

LEMMA OpTypesUser == op \in Op /\ User => op' \in Op
<1> SUFFICES ASSUME op \in Op, User PROVE op' \in Op
  OBVIOUS
<1>1. {"idle", "make", "go", "symbols"} \subseteq Points
      /\ Steps \subseteq Commands /\ {"finish", "run", "make", "reset", "debugger"} \subseteq Commands
  BY DEF Points, Commands
<1>2. CASE StepCommand \/ FINISH \/ Run \/ Make
  BY <1>1, <1>2, OpBegin DEF StepCommand, FINISH, Run, Make
<1>3. CASE Reset \/ Compile
  BY <1>1, <1>3, OpRESET, CommandNames DEF Reset, Compile
<1>4. CASE ExternalDebugger
  BY <1>1, <1>4, OpRESET, OpBegin, CommandNames DEF ExternalDebugger
<1>5. CASE EditBreakpoints \/ ChangeOptions
  <2>1. NoOp \in Op
    BY DEF NoOp, Op, Points, Commands
  <2> QED BY <1>5, <2>1 DEF EditBreakpoints, ChangeOptions
<1> QED BY <1>2, <1>3, <1>4, <1>5 DEF User

LEMMA OpTypesProgress == op \in Op /\ (Progress \/ CompileDep \/ Annotation) => op' \in Op
<1> SUFFICES ASSUME op \in Op, Progress \/ CompileDep \/ Annotation PROVE op' \in Op
  OBVIOUS
<1>1. /\ {"idle", "make", "compiled", "built", "session", "temp", "go", "exec", "exited",
          "mourn", "end", "direct", "again", "symbols"} \subseteq Points
      /\ "continue" \in Commands /\ op.ret \in Points /\ op.after \in Points /\ op.pc \in Points
  BY DEF Points, Commands, Steps, Op
<1>2. CASE Walk
  BY <1>2 DEF Walk
<1>3. CASE MakeDone \/ RunWithBreakpoints
  BY <1>1, <1>3, OpPoint, OpBegin DEF MakeDone, RunWithBreakpoints, Enter
<1>4. CASE CompileDep \/ CLEARSYMBOLS
  BY <1>1, <1>4, OpPoint, OpReset, OpRESET DEF CompileDep, CLEARSYMBOLS, Enter
<1>5. CASE Built \/ EndSession \/ RunDirect
  BY <1>1, <1>5, OpPoint, InitFrame DEF Built, EndSession, RunDirect, Enter
<1>6. CASE TempBreakpoint
  <2>1. ASSUME NEW line \in Lines, NEW moved \in BOOLEAN, NEW pc \in Points, Tbreak(line, moved, pc)
        PROVE op' \in Op
    BY <2>1, NewNumberFresh DEF Tbreak, FreshNumbers, Op
  <2> QED BY <1>1, <1>6, <2>1, OpPoint DEF TempBreakpoint, NoTbreak, Enter
<1>7. CASE \/ StartSession \/ GoFails \/ Annotation \/ Mourn \/ Return
           \/ BreakSession \/ BreakSessionAgain \/ ResetTail
  BY <1>1, <1>7, OpPoint
     DEF StartSession, GoFails, Annotation, Stopped, Killed, annotate_exited, Mourn, Return,
         BreakSession, BreakSessionAgain, ResetTail, Enter
<1>8. CASE Go
  BY <1>8 DEF Go, Op, Points
<1> QED BY <1>2, <1>3, <1>4, <1>5, <1>6, <1>7, <1>8 DEF Progress

(* The flags and descriptors of a session keep their types.                  *)
FlagTypes ==
  /\ started \in BOOLEAN /\ pid \in BOOLEAN
  /\ user_screen_shown \in BOOLEAN /\ switch_to_user \in BOOLEAN
  /\ dual_display \in BOOLEAN /\ ShowStderr \in BOOLEAN
  /\ err \in {"tty", "file", "stdin"}
  /\ errbak \in {"closed", "tty", "file", "stdin"}
  /\ input \in BOOLEAN /\ tmp \in BOOLEAN /\ hook \in BOOLEAN

LEMMA CloseTypes ==
  FlagTypes /\ CloseStderr =>
    /\ err' \in {"tty", "file", "stdin"} /\ errbak' \in {"closed", "tty", "file", "stdin"}
    /\ input' \in BOOLEAN
BY DEF FlagTypes, CloseStderr, close_stderr, fds

LEMMA ClosedTypes ==
  FlagTypes /\ SessionClosed =>
    /\ err' \in {"tty", "file", "stdin"} /\ errbak' \in {"closed", "tty", "file", "stdin"}
    /\ input' \in BOOLEAN /\ dual_display' \in BOOLEAN
BY CloseTypes, FlagsAssumption DEF FlagTypes, SessionClosed

LEMMA FlagTypesNext == FlagTypes /\ Next => FlagTypes'
<1> SUFFICES ASSUME FlagTypes, Next PROVE FlagTypes'
  OBVIOUS
<1> USE DEF FlagTypes, screenVars, fds, redirection
<1>1. CASE StepCommand \/ FINISH \/ Run \/ Make \/ EditBreakpoints \/ ChangeOptions
  <2>1. UNCHANGED <<started, pid, user_screen_shown, dual_display, err, errbak, input, tmp, hook>>
    BY <1>1 DEF StepCommand, FINISH, Run, Make, Begin, EditBreakpoints, ChangeOptions
  <2>2. ShowStderr' \in BOOLEAN
    BY <1>1 DEF StepCommand, FINISH, Run, Make, Begin, EditBreakpoints, ChangeOptions
  <2>3. switch_to_user' \in BOOLEAN
    <3>1. ASSUME NEW name, NEW swap \in BOOLEAN, NEW pc, Begin(name, swap, pc)
          PROVE  switch_to_user' \in BOOLEAN
      BY <3>1 DEF Begin
    <3>2. CASE StepCommand
      BY <3>1, <3>2 DEF StepCommand
    <3> QED BY <1>1, <3>1, <3>2 DEF FINISH, Run, Make, EditBreakpoints, ChangeOptions
  <2> QED BY <2>1, <2>2, <2>3
<1>2. CASE Reset \/ Compile \/ ExternalDebugger \/ CompileDep
  <2>1. UNCHANGED <<started, pid, user_screen_shown, dual_display, ShowStderr, err, errbak, input, tmp, hook>>
        /\ (UNCHANGED switch_to_user \/ switch_to_user' = switch_to_user)
    BY <1>2 DEF Reset, Compile, ExternalDebugger, CompileDep, RESET, ResetDebugger, Begin
  <2> QED BY <2>1
<1>3. CASE CLEARSYMBOLS
  <2>1. UNCHANGED <<started, pid, user_screen_shown, switch_to_user, dual_display, ShowStderr, hook>>
    BY <1>3 DEF CLEARSYMBOLS, ResetDebugger
  <2>2. UNCHANGED redirection \/ RunRedirected(TRUE)
    BY <1>3 DEF CLEARSYMBOLS, ResetDebugger
  <2>3. /\ err' \in {"tty", "file", "stdin"} /\ errbak' \in {"closed", "tty", "file", "stdin"}
        /\ input' \in BOOLEAN /\ tmp' \in BOOLEAN
    <3>1. CASE UNCHANGED redirection
      BY ONLY FlagTypes, <3>1
    <3>2. CASE RunRedirected(TRUE)
      <4>1. errbak' = "closed" /\ tmp' = FALSE /\ err' = err /\ input' = input
        BY ONLY <3>2 DEF RunRedirected
      <4> QED BY ONLY FlagTypes, <4>1
    <3> QED BY <2>2, <3>1, <3>2
  <2>4. /\ started' \in BOOLEAN /\ pid' \in BOOLEAN /\ user_screen_shown' \in BOOLEAN
        /\ switch_to_user' \in BOOLEAN /\ dual_display' \in BOOLEAN /\ ShowStderr' \in BOOLEAN
        /\ hook' \in BOOLEAN
    BY ONLY FlagTypes, <2>1
  <2> QED BY ONLY <2>3, <2>4
<1>4. CASE Walk \/ MakeDone \/ RunWithBreakpoints \/ Built \/ TempBreakpoint
  <2>1. CASE Walk
    BY <2>1 DEF Walk
  <2>2. CASE MakeDone \/ RunWithBreakpoints
    <3>1. switch_to_user' \in BOOLEAN
      BY <2>2, Zenon DEF MakeDone, RunWithBreakpoints, Begin
    <3> QED BY <2>2, <3>1 DEF MakeDone, RunWithBreakpoints, Begin
  <2>3. CASE Built \/ TempBreakpoint
    <3>1. started' = pid
          /\ UNCHANGED <<pid, screenVars, switch_to_user, ShowStderr, redirection, hook>>
      BY <2>3 DEF Built, TempBreakpoint
    <3> QED BY <3>1
  <2> QED BY <1>4, <2>1, <2>2, <2>3
<1>5. CASE StartSession
  <2>1. UNCHANGED redirection \/ open_stderr
    BY <1>5 DEF StartSession
  <2>2. err' \in {"tty", "file", "stdin"} /\ errbak' \in {"closed", "tty", "file", "stdin"}
        /\ input' \in BOOLEAN /\ tmp' \in BOOLEAN
    BY <2>1 DEF open_stderr
  <2>3. dual_display' \in BOOLEAN /\ user_screen_shown' \in BOOLEAN
        /\ UNCHANGED <<started, pid, switch_to_user, ShowStderr, hook>>
    BY <1>5, FlagsAssumption DEF StartSession, ShowUserScreen
  <2> QED BY <2>2, <2>3
<1>6. CASE Go \/ GoFails \/ Annotation \/ Mourn
  <2>1. CASE Go
    <3>1. pid' \in BOOLEAN /\ user_screen_shown' \in BOOLEAN
      BY <2>1 DEF Go, ShowUserScreen
    <3> QED BY <2>1, <3>1 DEF Go
  <2>2. CASE GoFails \/ Mourn
    <3>1. pid' \in BOOLEAN /\ started' \in BOOLEAN /\ user_screen_shown' \in BOOLEAN
          /\ hook' \in BOOLEAN
      BY <2>2 DEF GoFails, Mourn, ShowDebuggerScreen
    <3> QED BY <2>2, <3>1 DEF GoFails, Mourn
  <2>3. CASE Annotation
    <3>1. pid' \in BOOLEAN /\ started' \in BOOLEAN /\ user_screen_shown' \in BOOLEAN
      BY <2>3 DEF Annotation, Stopped, Killed, annotate_exited, ShowDebuggerScreen
    <3> QED BY <2>3, <3>1 DEF Annotation, Stopped, Killed, annotate_exited
  <2> QED BY <1>6, <2>1, <2>2, <2>3
<1>7. CASE EndSession
  BY <1>7, ClosedTypes, FlagsAssumption DEF EndSession
<1>8. CASE Return
  BY <1>8 DEF Return, CommandEnd
<1>9. CASE RunDirect
  BY <1>9, ZenonT(60) DEF RunDirect, RunRedirected
<1>10. CASE BreakSession \/ BreakSessionAgain
  BY <1>10, ClosedTypes DEF BreakSession, BreakSessionAgain
<1>11. CASE ResetTail
  BY <1>11, CloseTypes DEF ResetTail
<1> QED
  BY <1>1, <1>2, <1>3, <1>4, <1>5, <1>6, <1>7, <1>8, <1>9, <1>10, <1>11
     DEF Next, User, Progress

LEMMA SessionInit == Init => SessionTypeOK /\ ControlInv
<1> SUFFICES ASSUME Init PROVE SessionTypeOK
  BY ControlInit
<1>1. op \in Op
  BY DEF Init, Op, NoOp, Points, Commands
<1> QED BY <1>1 DEF Init, SessionTypeOK

LEMMA SessionNext == SessionTypeOK /\ ControlInv /\ [Next]_sVars => SessionTypeOK' /\ ControlInv'
<1> SUFFICES ASSUME SessionTypeOK, ControlInv, [Next]_sVars PROVE SessionTypeOK' /\ ControlInv'
  OBVIOUS
<1>1. CASE Next
  <2>1. FlagTypes' /\ op' \in Op
    BY <1>1, FlagTypesNext, OpTypesUser, OpTypesProgress DEF Next, FlagTypes, SessionTypeOK
  <2> QED BY <1>1, <2>1, ControlUser, ControlProgress DEF Next, FlagTypes, SessionTypeOK
<1>2. CASE UNCHANGED sVars
  BY <1>2 DEF sVars, sessionVars, screenVars, fds, redirection, bpVars, bpTable, SessionTypeOK,
              ControlInv, WalkPoints, FlagPoints, ResetPoints, LoadedPoints, EndPoints
<1> QED BY <1>1, <1>2

(* What a session does keeps the types of the table.                         *)
LEMMA TableTypesNext == TypeInv /\ [Next]_sVars => TypeInv'
<1> SUFFICES ASSUME TypeInv, [Next]_sVars PROVE TypeInv'
  OBVIOUS
<1>1. [BpNext]_bpVars \/ TempSet \/ TempGone
  BY TableSteps DEF sVars
<1> QED BY <1>1, TypeInvNext, TempTypes

-----------------------------------------------------------------------------
(* Every command keeps the types of the session and of the table, whatever   *)
(* gdb and the program under test do.                                        *)
THEOREM SessionTypesCorrect == Spec => []SessionTypes
<1>1. Init => TypeInv
  BY TypeInvInit DEF Init
<1>2. TypeInv => TypeOK
  BY DEF TypeInv
<1> QED BY <1>1, <1>2, SessionInit, SessionNext, TableTypesNext, PTL DEF Spec, SessionTypes

(* The control invariant, from which the next three follow                   *)
LEMMA ControlCorrect == Spec => [](SessionTypeOK /\ ControlInv)
BY SessionInit, SessionNext, PTL DEF Spec

(* Between commands _debugger_started says whether gdb has a live program.   *)
THEOREM StartedIsAliveCorrect == Spec => []StartedIsAlive
<1>1. SessionTypeOK /\ ControlInv => StartedIsAlive
  BY DEF SessionTypeOK, ControlInv, FlagPoints, StartedIsAlive, Quiet
<1> QED BY <1>1, ControlCorrect, PTL

(* The symbols of a live program are loaded until gdb mourns it.             *)
THEOREM AliveIsLoadedCorrect == Spec => []AliveIsLoaded
<1>1. SessionTypeOK /\ ControlInv => AliveIsLoaded
  BY DEF ControlInv, LoadedPoints, AliveIsLoaded
<1> QED BY <1>1, ControlCorrect, PTL

(* PostCommandHook runs in the command that set it, and a command after      *)
(* which the program has moved gives the debugger's screen back.             *)
THEOREM CommandDoneCorrect == Spec => []CommandDone
<1>1. SessionTypeOK /\ ControlInv => CommandDone
  BY DEF ControlInv, EndPoints, CommandDone, NoHookPending, ScreenBack, Quiet
<1> QED BY <1>1, ControlCorrect, PTL

-----------------------------------------------------------------------------
(* From StartSession until gdb mourns the program stderr is redirected, as   *)
(* long as the option does not change in the middle.                         *)
RedirectedInv ==
  ShowStderr /\ ((pid /\ op.pc \notin {"mourn", "again"}) \/ op.pc \in {"temp", "go"}) => err = "file" /\ tmp

LEMMA RedirectedUser ==
  ASSUME "options" \notin Surprises, SessionTypeOK, ControlInv, RedirectedInv, User
  PROVE  RedirectedInv'
<1> USE DEF RedirectedInv, Quiet, ControlInv, FlagPoints, ResetPoints, SessionTypeOK, Op,
            screenVars, fds, redirection
<1>1. CASE StepCommand \/ Run \/ Make
  BY <1>1 DEF StepCommand, Run, Make, Begin, NoOp
<1>2. CASE FINISH
  BY <1>2 DEF FINISH, Begin, NoOp
<1>3. CASE Reset \/ Compile
  BY <1>3 DEF Reset, Compile, RESET, ResetDebugger, NoOp
<1>4. CASE ExternalDebugger
  <2>1. CASE started /\ RESET([NoOp EXCEPT !.name = "debugger"], "symbols")
    BY <1>4, <2>1 DEF ExternalDebugger, RESET, ResetDebugger, NoOp
  <2>2. CASE ~started /\ Begin("debugger", switch_to_user, "symbols")
    BY <1>4, <2>2 DEF ExternalDebugger, Begin, NoOp
  <2> QED BY <1>4, <2>1, <2>2 DEF ExternalDebugger
<1>5. CASE EditBreakpoints
  BY <1>5 DEF EditBreakpoints, NoOp
<1>6. CASE ChangeOptions
  BY <1>6 DEF ChangeOptions
<1> QED BY <1>1, <1>2, <1>3, <1>4, <1>5, <1>6 DEF User

LEMMA RedirectedProgress ==
  ASSUME SessionTypeOK, ControlInv, RedirectedInv, Progress \/ CompileDep \/ Annotation
  PROVE  RedirectedInv'
<1> USE DEF RedirectedInv, At, Enter, ControlInv, FlagPoints, EndPoints, SessionTypeOK, Op,
            screenVars, fds, redirection
<1>1. CASE Walk \/ MakeDone
  BY <1>1 DEF Walk, MakeDone
<1>2. CASE RunWithBreakpoints
  BY <1>2 DEF RunWithBreakpoints, Begin, NoOp
<1>3. CASE CompileDep
  <2>1. pid' = pid /\ op'.pc \in {"break", "compiled", "tail"} /\ UNCHANGED <<ShowStderr, err, tmp>>
        /\ op.pc = "make"
    BY <1>3 DEF CompileDep, RESET, ResetDebugger
  <2> QED BY <2>1
<1>4. CASE CLEARSYMBOLS
  <2>1. ~started /\ ~pid
    BY <1>4 DEF CLEARSYMBOLS
  <2>2. ~pid'
    BY <1>4, <2>1 DEF CLEARSYMBOLS
  <2>3. Enter("make") \/ Enter("idle")
    BY <1>4, <2>1 DEF CLEARSYMBOLS
  <2> QED BY <2>2, <2>3
<1>5. CASE Built
  <2>1. op.pc = "built" /\ UNCHANGED <<pid, ShowStderr, err, tmp>> /\ (started <=> pid)
    BY <1>5 DEF Built
  <2>2. ~started => op'.pc \in {"session", "idle"}
    BY <1>5, InitFrame DEF Built
  <2> QED BY <2>1, <2>2
<1>6. CASE StartSession
  BY <1>6 DEF StartSession, open_stderr
<1>7. CASE TempBreakpoint
  <2>1. op.pc = "temp" /\ UNCHANGED <<pid, ShowStderr, err, tmp>>
    BY <1>7 DEF TempBreakpoint
  <2> QED BY <2>1
<1>8. CASE Go \/ GoFails
  BY <1>8 DEF Go, GoFails
<1>9. CASE Annotation \/ Mourn
  BY <1>9 DEF Annotation, Stopped, Killed, annotate_exited, Mourn
<1>10. CASE EndSession
  <2>1. op'.pc = "mourn"
    BY <1>10, InitFrame DEF EndSession
  <2> QED BY <2>1
<1>11. CASE Return
  BY <1>11 DEF Return, CommandEnd
<1>12. CASE RunDirect
  <2>1. ~pid' /\ op'.pc = "idle"
    BY <1>12, InitFrame DEF RunDirect
  <2> QED BY <2>1
<1>13. CASE BreakSession \/ ResetTail
  BY <1>13 DEF BreakSession, ResetTail, ResetPoints
<1>14. CASE BreakSessionAgain
  BY <1>14 DEF BreakSessionAgain
<1> QED
  BY <1>1, <1>2, <1>3, <1>4, <1>5, <1>6, <1>7, <1>8, <1>9, <1>10, <1>11, <1>12, <1>13, <1>14
     DEF Progress

(* While the program runs its stderr goes to a file that is there, whatever  *)
(* sessions, builds and resets came before, if "redirect stderr" stays.      *)
THEOREM RunsRedirectedCorrect ==
  ASSUME "options" \notin Surprises PROVE Spec => []RunsRedirected
<1>1. Init => RedirectedInv
  BY DEF Init, NoOp, RedirectedInv
<1>2. SessionTypeOK /\ ControlInv /\ RedirectedInv /\ [Next]_sVars => RedirectedInv'
  <2>1. UNCHANGED sVars => (RedirectedInv => RedirectedInv')
    BY DEF sVars, sessionVars, fds, redirection, RedirectedInv
  <2> QED BY <2>1, RedirectedUser, RedirectedProgress DEF Next
<1>3. SessionTypeOK /\ ControlInv /\ RedirectedInv => RunsRedirected
  BY DEF ControlInv, FlagPoints, RedirectedInv, RunsRedirected
<1> QED BY <1>1, <1>2, <1>3, ControlCorrect, PTL DEF Spec

-----------------------------------------------------------------------------
(* The temporary breakpoint of Go to cursor stays the one created last until *)
(* the command returns: nothing but the reload of the symbols behind a       *)
(* traceback creates another one before.                                     *)
TempPoints == op.tmp # 0 => op.pc \in {"go", "exec", "exited", "mourn", "end", "idle"}

TempInv ==
  /\ op.pc = "mourn" => job = Idle
  /\ TempPoints
  /\ op.name \in GoTos /\ op.tmp # 0 =>
       /\ op.pc \in {"go", "exec", "exited", "mourn", "end"} => last = op.tmp
       /\ op.pc = "idle" /\ op.ran => gdb[op.tmp].st # "temp"

LEMMA TempUser == ASSUME SessionTypeOK, ControlInv, TempInv, User PROVE TempInv'
<1> USE DEF TempInv, TempPoints, Quiet, SessionTypeOK, Op
<1>1. CASE StepCommand \/ FINISH \/ Run \/ Make
  <2>1. job' = Idle /\ op'.tmp = 0
    BY <1>1 DEF StepCommand, FINISH, Run, Make, Begin, NoOp, bpVars
  <2> QED BY <2>1
<1>2. CASE Reset \/ Compile \/ ExternalDebugger
  <2>1. op'.tmp = 0
    BY <1>2 DEF Reset, Compile, ExternalDebugger, RESET, ResetDebugger, Begin, NoOp
  <2>2. op'.pc \in {"break", "tail", "symbols"}
    BY <1>2 DEF Reset, Compile, ExternalDebugger, RESET, ResetDebugger, Begin, NoOp
  <2> QED BY <2>1, <2>2
<1>3. CASE EditBreakpoints
  BY <1>3 DEF EditBreakpoints, NoOp
<1>4. CASE ChangeOptions
  BY <1>4 DEF ChangeOptions, bpVars
<1> QED BY <1>1, <1>2, <1>3, <1>4 DEF User

LEMMA TempProgress ==
  ASSUME "traceback" \notin Surprises, TypeInv, SessionTypeOK, ControlInv, TempInv,
         Progress \/ CompileDep \/ Annotation
  PROVE  TempInv'
<1> USE DEF TempInv, TempPoints, At, Enter, SessionTypeOK, Op, bpVars
<1>1. CASE Walk
  <2>1. job # Idle /\ op' = op /\ op.pc # "mourn"
    BY <1>1, WalkFrame DEF Walk
  <2>2. CASE op.tmp # 0 /\ op.name \in GoTos
    <3>1. op.pc = "exited" /\ job.k = "delete"
      BY <2>1, <2>2 DEF ControlInv, WalkPoints, GoTos
    <3>2. last' = last
      BY <1>1, <3>1 DEF Walk, SetNext, DeleteNext, RemoveNext
    <3> QED BY <2>1, <3>1, <3>2
  <2> QED BY <2>1, <2>2
<1>2. CASE MakeDone \/ RunWithBreakpoints \/ CompileDep \/ CLEARSYMBOLS
  <2>1. op.tmp = 0
    BY <1>2 DEF MakeDone, RunWithBreakpoints, CompileDep, CLEARSYMBOLS
  <2>2. op'.tmp = 0 /\ op'.pc # "mourn"
    <3>1. CASE MakeDone \/ RunWithBreakpoints
      BY <2>1, <3>1 DEF MakeDone, RunWithBreakpoints, Begin, NoOp
    <3>2. CASE CompileDep
      BY <2>1, <3>2 DEF CompileDep, RESET, ResetDebugger
    <3>3. CASE CLEARSYMBOLS
      <4>1. ~started /\ ~pid
        BY <3>3 DEF CLEARSYMBOLS, ControlInv, FlagPoints
      <4>2. Enter("make") \/ Enter("idle")
        BY <3>3, <4>1 DEF CLEARSYMBOLS
      <4> QED BY <2>1, <4>2
    <3> QED BY <1>2, <3>1, <3>2, <3>3
  <2> QED BY <2>2
<1>3. CASE Built \/ StartSession \/ RunDirect
  <2>1. op.tmp = 0
    BY <1>3 DEF Built, StartSession, RunDirect
  <2>2. op'.tmp = 0 /\ op'.pc # "mourn"
    BY <1>3, <2>1, InitFrame DEF Built, StartSession, RunDirect
  <2> QED BY <2>2
<1>4. CASE TempBreakpoint
  <2>1. op.tmp = 0 /\ ~op.ran /\ op.pc = "temp"
    BY <1>4 DEF TempBreakpoint, ControlInv, EndPoints
  <2>2. CASE \E line \in Lines, moved \in BOOLEAN, pc \in {"go", "idle"} : Tbreak(line, moved, pc)
    <3>1. op'.tmp = last' /\ op'.pc \in {"go", "idle"} /\ ~op'.ran
      BY <2>1, <2>2 DEF Tbreak
    <3> QED BY <3>1
  <2>3. CASE NoTbreak("go") \/ NoTbreak("idle")
    BY <2>1, <2>3 DEF NoTbreak
  <2> QED BY <1>4, <2>2, <2>3 DEF TempBreakpoint
<1>5. CASE Go \/ GoFails \/ Killed
  BY <1>5 DEF Go, GoFails, Killed
<1>6. CASE Stopped
  BY <1>6 DEF Stopped
<1>7. CASE annotate_exited
  BY <1>7 DEF annotate_exited, DeleteBreakPoints
<1>8. CASE EndSession
  BY <1>8 DEF EndSession
<1>9. CASE Mourn
  BY <1>9 DEF Mourn
<1>10. CASE Return
  <2>1. op.pc = "end" /\ op' = [op EXCEPT !.pc = "idle"]
    BY <1>10 DEF Return
  <2>2. CASE op.tmp # 0 /\ op.name \in GoTos
    <3>1. last \in Numbers /\ gdb' = Delete(gdb, last) /\ op'.tmp = last
      BY <1>10, <2>1, <2>2 DEF Return, Returned, DeleteLast
    <3>2. gdb'[last].st = "none"
      BY <3>1 DEF Delete, Dead, TypeInv, TypeOK
    <3> QED BY <2>1, <3>1, <3>2
  <2> QED BY <2>1, <2>2
<1>11. CASE BreakSession \/ BreakSessionAgain \/ ResetTail
  BY <1>11 DEF BreakSession, BreakSessionAgain, ResetTail, ControlInv, ResetPoints
<1> QED
  BY <1>1, <1>2, <1>3, <1>4, <1>5, <1>6, <1>7, <1>8, <1>9, <1>10, <1>11
     DEF Progress, Annotation

(* Go to cursor takes its own temporary breakpoint away once the program has *)
(* run, whether it stopped there, elsewhere, exited or was killed.           *)
THEOREM OwnTempGoneCorrect ==
  ASSUME "traceback" \notin Surprises PROVE Spec => []OwnTempGone
<1>1. Init => TypeInv /\ TempInv
  BY TypeInvInit DEF Init, NoOp, TempInv, TempPoints
<1>2. TypeInv /\ SessionTypeOK /\ ControlInv /\ TempInv /\ [Next]_sVars => TempInv'
  <2>1. UNCHANGED sVars => (TempInv => TempInv')
    BY DEF sVars, sessionVars, bpVars, TempInv, TempPoints
  <2> QED BY <2>1, TempUser, TempProgress DEF Next
<1>3. TempInv => OwnTempGone
  BY DEF TempInv, OwnTempGone, Quiet
<1> QED BY <1>1, <1>2, <1>3, ControlCorrect, TableTypesNext, PTL DEF Spec

-----------------------------------------------------------------------------
(* What a session borrows: from StartSession until EndSession or BreakSession *)
(* the second display is on and stderr is a file, of which the terminal is   *)
(* kept in h_errbak; at any other time nothing is borrowed, but for the file, *)
(* which the hook removes at the end of the command.                         *)
Open == op.pc \in {"temp", "go", "exec", "exited"} \/ (pid /\ op.pc \notin {"mourn", "again"})

BorrowedInv ==
  /\ input
  /\ dual_display <=> Open /\ UseDualDisplay
  /\ ~ShowStderr => err = "tty" /\ ~tmp
  /\ ShowStderr /\ Open  => err = "file" /\ errbak = "tty" /\ tmp
  /\ ShowStderr /\ ~Open => err = "tty" /\ (tmp => hook \/ op.pc \in {"mourn", "again"})
  /\ ShowStderr /\ op.pc \in {"tail", "again"} => errbak = "closed"

\* A step that leaves the session as it is
Undisturbed ==
  /\ Open' = Open
  /\ UNCHANGED <<dual_display, ShowStderr, err, errbak, input, tmp, hook>>
  /\ op'.pc \notin {"tail", "again"}
  /\ op.pc = "mourn" => op'.pc = "mourn"
  /\ op.pc # "again"

LEMMA UndisturbedKeeps == BorrowedInv /\ Undisturbed => BorrowedInv'
BY DEF BorrowedInv, Undisturbed

LEMMA BorrowedUser ==
  ASSUME "options" \notin Surprises, SessionTypeOK, ControlInv, BorrowedInv, User
  PROVE  BorrowedInv'
<1>1. Undisturbed
  <2> USE DEF Undisturbed, Open, Quiet, ControlInv, FlagPoints, EndPoints, SessionTypeOK, Op,
              screenVars, fds, redirection
  <2>1. CASE StepCommand \/ Run \/ Make
    BY <2>1 DEF StepCommand, Run, Make, Begin, NoOp
  <2>2. CASE FINISH
    BY <2>2 DEF FINISH, Begin, NoOp
  <2>3. CASE Reset \/ Compile
    BY <2>3 DEF Reset, Compile, RESET, ResetDebugger, NoOp
  <2>4. CASE ExternalDebugger
    <3>1. CASE started /\ RESET([NoOp EXCEPT !.name = "debugger"], "symbols")
      BY <2>4, <3>1 DEF ExternalDebugger, RESET, ResetDebugger, NoOp
    <3>2. CASE ~started /\ Begin("debugger", switch_to_user, "symbols")
      BY <2>4, <3>2 DEF ExternalDebugger, Begin, NoOp
    <3> QED BY <2>4, <3>1, <3>2 DEF ExternalDebugger
  <2>5. CASE EditBreakpoints
    BY <2>5 DEF EditBreakpoints, NoOp
  <2>6. CASE ChangeOptions
    BY <2>6 DEF ChangeOptions
  <2> QED BY <2>1, <2>2, <2>3, <2>4, <2>5, <2>6 DEF User
<1> QED BY <1>1, UndisturbedKeeps

LEMMA BorrowedProgress ==
  ASSUME Surprises \subseteq {"traceback"}, SessionTypeOK, ControlInv, BorrowedInv,
         Progress \/ CompileDep \/ Annotation
  PROVE  BorrowedInv'
<1> USE DEF At, Enter, Open, Undisturbed, ControlInv, FlagPoints, EndPoints, SessionTypeOK, Op,
            screenVars, fds, redirection
<1>1. CASE Walk
  BY <1>1, UndisturbedKeeps DEF Walk, BorrowedInv
<1>2. CASE MakeDone
  BY <1>2, UndisturbedKeeps DEF MakeDone
<1>3. CASE RunWithBreakpoints
  BY <1>3, UndisturbedKeeps DEF RunWithBreakpoints, Begin, NoOp
<1>4. CASE CompileDep
  <2>1. CASE started /\ RESET(op, "compiled")
    <3>1. op' = [op EXCEPT !.ret = "tail", !.after = "compiled", !.pc = "break"]
      BY <2>1 DEF RESET, ResetDebugger
    <3>2. UNCHANGED <<pid, dual_display, ShowStderr, err, errbak, input, tmp, hook>>
      BY <2>1 DEF RESET, ResetDebugger
    <3> QED BY <1>4, <2>1, <3>1, <3>2, UndisturbedKeeps DEF CompileDep
  <2>2. CASE ~started
    BY <1>4, <2>2, UndisturbedKeeps DEF CompileDep
  <2> QED BY <2>1, <2>2, <1>4 DEF CompileDep
<1>5. CASE CLEARSYMBOLS
  <2>1. ~started /\ ~pid
    BY <1>5 DEF CLEARSYMBOLS
  <2>2. UNCHANGED <<pid, dual_display, ShowStderr, hook>>
    BY <1>5, <2>1, Zenon DEF CLEARSYMBOLS
  <2>3. Enter("make") \/ Enter("idle")
    BY <1>5, <2>1 DEF CLEARSYMBOLS
  <2>4. UNCHANGED redirection \/ RunRedirected(TRUE)
    BY <1>5, <2>1 DEF CLEARSYMBOLS
  <2>5. UNCHANGED <<err, input>> /\ (tmp' => tmp)
    BY <2>4 DEF RunRedirected
  <2>6. op.pc \in {"compiled", "symbols"}
    BY <1>5 DEF CLEARSYMBOLS
  <2> QED BY <2>1, <2>2, <2>3, <2>5, <2>6 DEF BorrowedInv
<1>6. CASE Built
  <2>1. op.pc = "built" /\ UNCHANGED <<pid, dual_display, ShowStderr, err, errbak, input, tmp, hook>>
    BY <1>6 DEF Built
  <2>2. IF started THEN op'.pc \in {"temp", "go"} ELSE op'.pc \in {"session", "idle"}
    BY <1>6, InitFrame DEF Built
  <2> QED BY <2>1, <2>2, UndisturbedKeeps
<1>7. CASE StartSession
  <2>1. op.pc = "session" /\ op'.pc \in {"temp", "go"} /\ UNCHANGED <<pid, ShowStderr, hook>>
        /\ (dual_display' <=> UseDualDisplay)
    BY <1>7, FlagsAssumption DEF StartSession, BorrowedInv
  <2>2. IF ShowStderr THEN open_stderr ELSE UNCHANGED redirection
    BY <1>7 DEF StartSession
  <2>3. ~Open /\ Open' /\ ~hook
    BY <2>1
  <2> QED BY <2>1, <2>2, <2>3 DEF BorrowedInv, open_stderr
<1>8. CASE TempBreakpoint
  <2>1. op'.pc = "go"
    BY <1>8 DEF TempBreakpoint, Tbreak, NoTbreak
  <2> QED BY <1>8, <2>1, UndisturbedKeeps DEF TempBreakpoint
<1>9. CASE Go
  BY <1>9, UndisturbedKeeps DEF Go
<1>10. CASE GoFails
  BY <1>10, UndisturbedKeeps DEF GoFails
<1>11. CASE Annotation
  BY <1>11, UndisturbedKeeps DEF Annotation, Stopped, Killed, annotate_exited
<1>12. CASE EndSession
  <2>1. op.pc = "exited" /\ op'.pc = "mourn" /\ UNCHANGED <<ShowStderr, tmp, hook>>
    BY <1>12, InitFrame DEF EndSession
  <2>2. (dual_display' = (dual_display /\ ~UseDualDisplay)) /\ CloseStderr
    BY <1>12 DEF EndSession, SessionClosed
  <2> QED BY <2>1, <2>2 DEF BorrowedInv, CloseStderr, close_stderr
<1>13. CASE Mourn
  BY <1>13 DEF Mourn, BorrowedInv
<1>14. CASE Return
  BY <1>14 DEF Return, CommandEnd, BorrowedInv
<1>15. CASE RunDirect
  <2>1. op.pc = "direct" /\ op'.pc = "idle" /\ UNCHANGED <<pid, dual_display, ShowStderr, hook>>
    BY <1>15, InitFrame DEF RunDirect
  <2>2. UNCHANGED redirection \/ RunRedirected(TRUE)
    BY <1>15 DEF RunDirect, RunRedirected
  <2>3. UNCHANGED <<err, input>> /\ (tmp' => tmp)
    BY <2>2 DEF RunRedirected
  <2> QED BY <2>1, <2>3 DEF BorrowedInv
<1>16. CASE BreakSession
  <2>1. op.pc = "break" /\ op'.pc = "tail" /\ ~pid' /\ ShowStderr' = ShowStderr
        /\ tmp' = (tmp /\ ~ShowStderr)
    BY <1>16 DEF BreakSession, ResetPoints
  <2>2. (dual_display' = (dual_display /\ ~UseDualDisplay)) /\ CloseStderr
    BY <1>16 DEF BreakSession, SessionClosed
  <2> QED BY <2>1, <2>2 DEF BorrowedInv, CloseStderr, close_stderr
<1>17. CASE ResetTail
  <2>1. op.pc = "tail" /\ op'.pc \in {"idle", "make", "compiled", "symbols"}
        /\ UNCHANGED <<pid, dual_display, ShowStderr, hook>> /\ tmp' = (tmp /\ ~ShowStderr)
    BY <1>17 DEF ResetTail, ResetPoints
  <2>2. CloseStderr
    BY <1>17 DEF ResetTail
  <2> QED BY <2>1, <2>2 DEF BorrowedInv, CloseStderr, close_stderr
<1>18. CASE BreakSessionAgain
  <2>1. /\ op.pc \in {"break", "again"} /\ op'.pc = "again"
        /\ UNCHANGED <<pid, ShowStderr, tmp, hook>>
        /\ op.pc = "break" => ShowStderr
    BY <1>18 DEF BreakSessionAgain
  <2>2. (dual_display' = (dual_display /\ ~UseDualDisplay)) /\ CloseStderr
    BY <1>18 DEF BreakSessionAgain, SessionClosed
  <2> QED BY <2>1, <2>2 DEF BorrowedInv, CloseStderr, close_stderr
<1> QED
  BY <1>1, <1>2, <1>3, <1>4, <1>5, <1>6, <1>7, <1>8, <1>9, <1>10, <1>11, <1>12, <1>13,
     <1>14, <1>15, <1>16, <1>17, <1>18 DEF Progress

LEMMA BorrowedCorrect ==
  ASSUME Surprises \subseteq {"traceback"} PROVE Spec => [](SessionTypeOK /\ ControlInv /\ BorrowedInv)
<1>1. Init => BorrowedInv
  BY DEF Init, NoOp, BorrowedInv, Open
<1>2. SessionTypeOK /\ ControlInv /\ BorrowedInv /\ [Next]_sVars => BorrowedInv'
  <2>1. UNCHANGED sVars => (BorrowedInv => BorrowedInv')
    BY DEF sVars, sessionVars, screenVars, fds, redirection, BorrowedInv, Open
  <2> QED BY <2>1, BorrowedUser, BorrowedProgress DEF Next
<1> QED BY <1>1, <1>2, ControlCorrect, PTL DEF Spec

(* Between commands a session is open exactly while the program is alive:    *)
(* every StartSession is answered by one EndSession or BreakSession, also    *)
(* where the program ends by itself, is reset, or is killed by a compilation. *)
THEOREM SessionPairedCorrect ==
  ASSUME Surprises \subseteq {"traceback"} PROVE Spec => []SessionPaired
<1>1. SessionTypeOK /\ ControlInv /\ BorrowedInv => SessionPaired
  BY FlagsAssumption DEF ControlInv, EndPoints, BorrowedInv, Open, SessionPaired, Quiet, SessionTypeOK
<1> QED BY <1>1, BorrowedCorrect, PTL

(* stderr and stdin of the IDE survive every session.                        *)
THEOREM DescriptorsKeptCorrect ==
  ASSUME Surprises \subseteq {"traceback"} PROVE Spec => []DescriptorsKept
<1>1. SessionTypeOK /\ BorrowedInv => DescriptorsKept
  BY DEF BorrowedInv, Open, DescriptorsKept, Quiet, SessionTypeOK
<1> QED BY <1>1, BorrowedCorrect, PTL

-----------------------------------------------------------------------------
(* The breakpoint Go to cursor has set is gdb's temporary one, and no row is *)
(* it, as long as nothing has gone wrong: what "delete                       *)
(* last_breakpoint_number" hits, if it is that one, is no breakpoint of the  *)
(* table.                                                                    *)
GoPoints == {"go", "exec", "exited", "mourn", "end"}

TempIsOurs ==
  /\ op.pc # "end" => gdb[op.tmp].st = "temp" /\ (invalid_line => last # op.tmp)
  /\ op.pc \in {"go", "exec", "exited"} => \A i \in DOMAIN rows : rows[i].num # op.tmp
  /\ op.pc = "end" => \/ gdb[op.tmp].st = "temp"
                      \/ \A i \in DOMAIN rows : Sure(i) => rows[i].num # op.tmp

OwnerInv ==
  /\ TempPoints
  /\ op.tmp # 0 /\ op.pc \in GoPoints => TempIsOurs

(* Where no temporary breakpoint is at stake                                 *)
LEMMA NoneOfOurs == op'.tmp = 0 => OwnerInv'
BY DEF OwnerInv, TempPoints

LEMMA OwnerUser == ASSUME SessionTypeOK, OwnerInv, User PROVE OwnerInv'
<1> USE DEF Quiet
<1>1. CASE StepCommand \/ FINISH \/ Run \/ Make
  <2>1. op'.tmp = 0
    BY <1>1 DEF StepCommand, FINISH, Run, Make, Begin, NoOp
  <2> QED BY <2>1, NoneOfOurs
<1>2. CASE Reset \/ Compile \/ ExternalDebugger
  <2>1. op'.tmp = 0
    BY <1>2 DEF Reset, Compile, ExternalDebugger, RESET, ResetDebugger, Begin, NoOp
  <2> QED BY <2>1, NoneOfOurs
<1>3. CASE EditBreakpoints
  <2>1. op'.tmp = 0
    BY <1>3 DEF EditBreakpoints, NoOp
  <2> QED BY <2>1, NoneOfOurs
<1>4. CASE ChangeOptions
  <2>1. UNCHANGED <<op, bpVars>>
    BY <1>4 DEF ChangeOptions
  <2> QED BY <2>1 DEF OwnerInv, TempPoints, TempIsOurs, GoPoints, Sure, Set, bpVars
<1> QED BY <1>1, <1>2, <1>3, <1>4 DEF User

(* The walk that deletes the rows' breakpoints when the program has exited   *)
LEMMA OwnerDeleteNext ==
  ASSUME TypeInv, SessionTypeOK, op.pc = "exited", op.tmp # 0, TempIsOurs, DeleteNext, op' = op
  PROVE  TempIsOurs'
<1>1. /\ gdb[op.tmp].st = "temp" /\ (invalid_line => last # op.tmp)
      /\ \A i \in DOMAIN rows : rows[i].num # op.tmp
  BY DEF TempIsOurs
<1>2. UNCHANGED <<last, invalid_line>>
  BY DEF DeleteNext
<1>3. gdb \in [Numbers -> GdbState] /\ op.tmp \in Numbers
  BY DEF TypeInv, TypeOK, SessionTypeOK, Op
<1>4. CASE job.i \in DOMAIN rows
  <2>1. gdb' = Delete(gdb, rows[job.i].num) /\ rows' = [rows EXCEPT ![job.i].num = Unset]
    BY <1>4 DEF DeleteNext
  <2>2. gdb'[op.tmp] = gdb[op.tmp]
    BY <1>1, <1>3, <1>4, <2>1 DEF Delete
  <2>3. rows[job.i] \in Row /\ rows'[job.i] = [rows[job.i] EXCEPT !.num = Unset]
    BY <1>4, <2>1, RowsTypes DEF TypeInv
  <2>4. rows'[job.i].num = Unset /\ Unset # op.tmp
    BY <1>3, <2>3, BoundsAssumption DEF Row, Numbers, Unset
  <2>5. \A i \in DOMAIN rows' : rows'[i].num # op.tmp
    BY <1>1, <2>1, <2>4
  <2> QED BY <1>1, <1>2, <2>2, <2>5 DEF TempIsOurs
<1>5. CASE job.i \notin DOMAIN rows
  BY <1>1, <1>2, <1>5 DEF DeleteNext, TempIsOurs
<1> QED BY <1>4, <1>5

(* SetBreakPoint never deletes gdb's temporary breakpoint.                   *)
LEMMA CallSparesTemp ==
  ASSUME TypeOK, NEW t \in Numbers, gdb[t].st = "temp", invalid_line => last # t,
         NEW r \in Row, NEW o \in Outcomes(r)
  PROVE  /\ SetBreakPoint(r, gdb, o).gdb[t].st = "temp"
         /\ SetBreakPoint(r, gdb, o).invalid => SetBreakPoint(r, gdb, o).last # t
<1> DEFINE c == Created(r, gdb, o)
<1>1. c \in Call /\ gdb \in [Numbers -> GdbState]
  BY CreatedType DEF TypeOK
<1>2. c.gdb[t].st = "temp" /\ (c.invalid => c.last # t)
  <2>1. CASE o.made
    <3>1. NewNumber \in Numbers /\ NewNumber # t
      BY <2>1, OutcomeProperties, NewNumberFresh DEF FreshNumbers
    <3> QED BY <1>1, <2>1, <3>1 DEF Created, Untouched
  <2>2. CASE ~o.made
    BY <2>2 DEF Created, Untouched
  <2> QED BY <2>1, <2>2
<1>3. CASE SetBreakPoint(r, gdb, o).gdb = gdb /\ ~(SetBreakPoint(r, gdb, o).invalid # invalid_line)
           /\ SetBreakPoint(r, gdb, o).last = last
  BY <1>3
<1> HIDE DEF c
<1>4. CASE SetBreakPoint(r, gdb, o) = Rejected(r, c)
  <2>1. /\ Rejected(r, c).gdb = IF c.invalid THEN Delete(c.gdb, c.last) ELSE c.gdb
        /\ Rejected(r, c).last = c.last /\ Rejected(r, c).invalid = c.invalid
    BY <1>1, RejectedFields
  <2>2. c.invalid => Delete(c.gdb, c.last)[t] = c.gdb[t]
    BY <1>1, <1>2 DEF Delete, Call
  <2> QED BY <1>2, <1>4, <2>1, <2>2
<1>5. CASE SetBreakPoint(r, gdb, o) = Accepted(r, c)
  <2>1. Switch(c.gdb, c.last, "off")[t] = c.gdb[t]
    BY <1>1, <1>2 DEF Switch, Call
  <2>2. /\ Accepted(r, c).gdb = IF r.en THEN c.gdb ELSE Switch(c.gdb, c.last, "off")
        /\ Accepted(r, c).last = c.last /\ Accepted(r, c).invalid = c.invalid
    BY <1>1, AcceptedFields
  <2> QED BY <1>2, <1>5, <2>1, <2>2
<1> QED BY <1>3, <1>4, <1>5 DEF SetBreakPoint, Untouched, c

(* The walk that sets them again behind a traceback                          *)
LEMMA OwnerSetNext ==
  ASSUME TypeInv, SessionTypeOK, op.pc = "mourn", op.tmp # 0, TempIsOurs, SetNext, op' = op
  PROVE  TempIsOurs'
<1>1. gdb[op.tmp].st = "temp" /\ (invalid_line => last # op.tmp)
  BY DEF TempIsOurs
<1>2. op.tmp \in Numbers /\ TypeOK /\ gdb \in [Numbers -> GdbState]
  BY DEF TypeInv, TypeOK, SessionTypeOK, Op
<1>3. ASSUME job.i \in DOMAIN rows, NEW o \in Outcomes(rows[job.i]),
             Apply(SetBreakPoint(rows[job.i], gdb, o))
      PROVE  TempIsOurs'
  <2> DEFINE r == rows[job.i]
             s == SetBreakPoint(r, gdb, o)
  <2>1. gdb' = s.gdb /\ last' = s.last /\ invalid_line' = s.invalid
    BY <1>3 DEF Apply
  <2>2. r \in Row
    BY <1>2, <1>3, RowsTypes
  <2>3. s.gdb[op.tmp].st = "temp" /\ (s.invalid => s.last # op.tmp)
    BY <1>1, <1>2, <1>3, <2>2, CallSparesTemp
  <2> QED BY <2>1, <2>3 DEF TempIsOurs
<1>4. CASE UNCHANGED bpTable
  BY <1>1, <1>4 DEF TempIsOurs, bpTable
<1> QED BY <1>3, <1>4 DEF SetNext

LEMMA OwnerProgress ==
  ASSUME TypeInv, SessionTypeOK, ControlInv, OwnerInv, Progress \/ CompileDep \/ Annotation
  PROVE  OwnerInv'
<1> USE DEF At, Enter, SessionTypeOK, Op, bpVars
<1>1. CASE Walk
  <2>1. op' = op /\ job # Idle /\ (SetNext \/ DeleteNext \/ RemoveNext)
    BY <1>1, WalkFrame DEF Walk
  <2>2. CASE op.tmp # 0 /\ op.pc \in GoPoints
    <3>1. (op.pc = "exited" /\ job.k = "delete") \/ (op.pc = "mourn" /\ job.k = "set")
      <4>1. WalkPoints
        BY DEF ControlInv
      <4> QED BY ONLY <2>1, <2>2, <4>1 DEF WalkPoints, GoPoints
    <3>2. (op.pc = "exited" /\ DeleteNext) \/ (op.pc = "mourn" /\ SetNext)
      BY <2>1, <3>1 DEF SetNext, DeleteNext, RemoveNext
    <3>3. TempIsOurs'
      BY <2>1, <2>2, <3>2, OwnerDeleteNext, OwnerSetNext DEF OwnerInv
    <3> QED BY <2>1, <3>3 DEF OwnerInv, TempPoints
  <2> QED BY <2>1, <2>2 DEF OwnerInv, TempPoints
<1>2. CASE MakeDone \/ RunWithBreakpoints \/ CompileDep \/ CLEARSYMBOLS
  <2>1. op.tmp = 0
    BY <1>2 DEF MakeDone, RunWithBreakpoints, CompileDep, CLEARSYMBOLS, OwnerInv, TempPoints
  <2>2. op'.tmp = 0
    <3>1. CASE MakeDone \/ RunWithBreakpoints
      BY <2>1, <3>1 DEF MakeDone, RunWithBreakpoints, Begin, NoOp
    <3>2. CASE CompileDep
      BY <2>1, <3>2 DEF CompileDep, RESET, ResetDebugger
    <3>3. CASE CLEARSYMBOLS
      BY <2>1, <3>3 DEF CLEARSYMBOLS, ResetDebugger
    <3> QED BY <1>2, <3>1, <3>2, <3>3
  <2> QED BY <2>2, NoneOfOurs
<1>3. CASE Built \/ StartSession \/ RunDirect
  <2>1. op.tmp = 0
    BY <1>3 DEF Built, StartSession, RunDirect, OwnerInv, TempPoints
  <2>2. op'.tmp = 0
    BY <1>3, <2>1, InitFrame DEF Built, StartSession, RunDirect
  <2> QED BY <2>2, NoneOfOurs
<1>4. CASE TempBreakpoint
  <2>1. op.tmp = 0 /\ op.pc = "temp"
    BY <1>4 DEF TempBreakpoint, OwnerInv, TempPoints
  <2>2. ASSUME NEW line \in Lines, Tbreak(line, FALSE, "go") PROVE OwnerInv'
    <3>1. /\ op'.tmp = NewNumber /\ op'.pc = "go" /\ rows' = rows /\ FreshNumbers # {}
          /\ gdb' = [gdb EXCEPT ![NewNumber] = [st |-> "temp", line |-> line]] /\ ~invalid_line'
      BY <2>2 DEF Tbreak
    <3>2. NewNumber \in Numbers /\ \A i \in DOMAIN rows : rows[i].num # NewNumber
      BY <3>1, NewNumberFresh DEF FreshNumbers
    <3>3. gdb'[op'.tmp].st = "temp"
      BY <3>1, <3>2 DEF TypeInv, TypeOK
    <3> QED BY <3>1, <3>2, <3>3 DEF OwnerInv, TempPoints, TempIsOurs
  <2>3. ASSUME NEW line \in Lines, Tbreak(line, TRUE, "idle") PROVE OwnerInv'
    BY <2>3 DEF Tbreak, OwnerInv, TempPoints, GoPoints
  <2>4. ASSUME NEW pc, NoTbreak(pc) PROVE OwnerInv'
    BY <2>1, <2>4, NoneOfOurs DEF NoTbreak
  <2> QED BY <1>4, <2>2, <2>3, <2>4 DEF TempBreakpoint
<1>5. CASE Go \/ GoFails \/ Killed \/ annotate_exited \/ Mourn
  <2>1. /\ op'.tmp = op.tmp /\ UNCHANGED <<rows, gdb, last, invalid_line, mistaken>>
        /\ op.pc \in {"go", "exec", "mourn"} /\ op'.pc \in {"exec", "exited", "end"}
        /\ op.pc = "mourn" => op'.pc = "end"
    BY <1>5 DEF Go, GoFails, Killed, annotate_exited, DeleteBreakPoints, Mourn
  <2> QED BY <2>1 DEF OwnerInv, TempPoints, TempIsOurs, GoPoints, Sure, Set
<1>6. CASE Stopped
  <2>1. /\ op.pc = "exec" /\ op' = [op EXCEPT !.pc = "end"] /\ rows' = rows
    BY <1>6 DEF Stopped
  <2> QED BY <2>1 DEF OwnerInv, TempPoints, TempIsOurs, GoPoints
<1>7. CASE EndSession
  <2>1. /\ op'.tmp = op.tmp /\ UNCHANGED <<rows, gdb, last, invalid_line>>
        /\ op.pc = "exited" /\ op'.pc = "mourn"
    BY <1>7, InitFrame DEF EndSession, INIT, InitLoaded, InitNoProgram, InitNoSymbols, bpTable
  <2> QED BY <2>1 DEF OwnerInv, TempPoints, TempIsOurs, GoPoints
<1>8. CASE Return
  BY <1>8 DEF Return, OwnerInv, TempPoints, GoPoints
<1>9. CASE BreakSession \/ BreakSessionAgain \/ ResetTail
  <2>1. op.tmp = 0 /\ op'.tmp = op.tmp
    BY <1>9 DEF BreakSession, BreakSessionAgain, ResetTail, OwnerInv, TempPoints
  <2> QED BY <2>1, NoneOfOurs
<1> QED
  BY <1>1, <1>2, <1>3, <1>4, <1>5, <1>6, <1>7, <1>8, <1>9 DEF Progress, Annotation

(* gdb holds a new temporary breakpoint, no row's                            *)
LEMMA TempSetKeepsTable == TypeInv /\ TableInv /\ TempSet => TableInv'
<1> SUFFICES ASSUME TypeInv, TableInv, TempSet PROVE TableInv'
  OBVIOUS
<1>1. PICK line \in Lines, moved \in BOOLEAN : \E pc \in Points : Tbreak(line, moved, pc)
  BY DEF TempSet
<1>2. /\ gdb' = [gdb EXCEPT ![NewNumber] = [st |-> "temp", line |-> line]]
      /\ last' = NewNumber /\ FreshNumbers # {} /\ mistaken' = mistaken \ FreshNumbers
      /\ rows' = rows /\ job' = job
  BY <1>1 DEF Tbreak
<1>3. gdb \in [Numbers -> GdbState] /\ \A k \in DOMAIN rows : rows[k].num \notin FreshNumbers
  BY DEF TypeInv, TypeOK, FreshNumbers
<1>4. \A k \in DOMAIN rows : rows[k].num # NewNumber
  BY <1>2, <1>3, NewNumberFresh
<1>5. \A m \in Numbers : m # NewNumber => gdb'[m] = gdb[m]
  BY <1>2, <1>3
<1>6. \A m \in Numbers : gdb'[m].st \in {"on", "off"} => gdb'[m] = gdb[m]
  BY <1>2, <1>3
<1>7. NumbersExact'
  <2> SUFFICES ASSUME NEW k \in DOMAIN rows, Sure(k) PROVE Shown(gdb'[rows[k].num], rows[k])
    BY <1>2, <1>3 DEF NumbersExact, Sure, Set
  <2>1. Shown(gdb[rows[k].num], rows[k]) /\ rows[k].num \in Numbers
    BY RowsTypes, BoundsAssumption
       DEF TableInv, NumbersExact, Sure, Set, Row, Numbers, Unset, TypeInv
  <2> QED BY <1>4, <1>5, <2>1
<1>8. NumbersDistinct' /\ StaleInvalidLineOwnsNothing' /\ DeletedSoFar'
  BY <1>2, <1>3, <1>4
     DEF TableInv, NumbersDistinct, StaleInvalidLineOwnsNothing, DeletedSoFar, Set
<1>9. NoOrphans' /\ ArmedOwned'
  BY <1>2, <1>6 DEF TableInv, NoOrphans, ArmedOwned
<1> QED BY <1>7, <1>8, <1>9 DEF TableInv

(* What goes with it, and what "delete last_breakpoint_number" takes, is no  *)
(* row's either, or is mistaken from then on.                                *)
LEMMA TempGoneKeepsTable ==
  ASSUME TypeInv, SessionTypeOK, TableInv, OwnerInv, TempGone
  PROVE  TableInv'
<1>1. gdb \in [Numbers -> GdbState] /\ UNCHANGED <<rows, last, invalid_line, job>>
  BY DEF TypeInv, TypeOK, TempGone
<1>2. \A k \in DOMAIN rows : Sure(k) => gdb[rows[k].num].st # "temp"
  BY DEF TableInv, NumbersExact, Shown, Sure
<1>3. PICK n : /\ gdb' = Delete(gdb, n) /\ mistaken \subseteq mistaken'
               /\ \A k \in DOMAIN rows : Set(k) /\ rows[k].num \notin mistaken' => rows[k].num # n
  <2>1. CASE \E n \in Numbers : gdb[n].st = "temp" /\ gdb' = Delete(gdb, n) /\ UNCHANGED mistaken
    BY <1>2, <2>1 DEF Sure
  <2>2. CASE op.pc = "end" /\ DeleteLast
    <3>1. gdb' = Delete(gdb, last) /\ mistaken \subseteq mistaken'
      BY <2>2 DEF DeleteLast
    <3>2. ASSUME NEW k \in DOMAIN rows, Set(k), rows[k].num \notin mistaken', rows[k].num = last
          PROVE  FALSE
      <4>1. last = op.tmp
        BY <2>2, <3>2 DEF DeleteLast, Carried
      <4>2. op.tmp # 0
        BY <3>2, <4>1 DEF Set
      <4>3. Sure(k)
        BY <3>1, <3>2 DEF Sure
      <4> QED BY <1>2, <2>2, <3>2, <4>1, <4>2, <4>3 DEF OwnerInv, GoPoints, TempIsOurs
    <3> QED BY <3>1, <3>2
  <2> QED BY <2>1, <2>2 DEF TempGone
<1>4. /\ \A m \in Numbers : m # n => gdb'[m] = gdb[m]
      /\ \A m \in Numbers : gdb'[m].st \in {"on", "off"} => gdb'[m] = gdb[m]
  BY <1>1, <1>3 DEF Delete, Dead
<1>5. NumbersExact'
  <2> SUFFICES ASSUME NEW k \in DOMAIN rows, Set(k), rows[k].num \notin mistaken'
               PROVE  Shown(gdb'[rows[k].num], rows[k])
    BY <1>1 DEF NumbersExact, Set
  <2>1. Shown(gdb[rows[k].num], rows[k]) /\ rows[k].num \in Numbers /\ rows[k].num # n
    BY <1>3, RowsTypes, BoundsAssumption
       DEF TableInv, NumbersExact, Set, Row, Numbers, Unset, TypeInv
  <2> QED BY <1>4, <2>1
<1>6. NumbersDistinct' /\ StaleInvalidLineOwnsNothing' /\ DeletedSoFar'
  BY <1>1, <1>3 DEF TableInv, NumbersDistinct, StaleInvalidLineOwnsNothing, DeletedSoFar, Set
<1>7. NoOrphans' /\ ArmedOwned'
  BY <1>1, <1>4 DEF TableInv, NoOrphans, ArmedOwned
<1> QED BY <1>5, <1>6, <1>7 DEF TableInv

LEMMA SessionTable == Spec => [](TypeInv /\ OwnerInv /\ TableInv)
<1> DEFINE I == TypeInv /\ OwnerInv /\ TableInv
<1>1. Init => I
  BY TypeInvInit, TableInvInit DEF Init, NoOp, OwnerInv, TempPoints
<1>2. I /\ SessionTypeOK /\ ControlInv /\ [Next]_sVars => I'
  <2> SUFFICES ASSUME I, SessionTypeOK, ControlInv, [Next]_sVars PROVE I'
    OBVIOUS
  <2>1. OwnerInv'
    <3>1. UNCHANGED sVars => OwnerInv'
      BY DEF sVars, sessionVars, bpVars, OwnerInv, TempPoints, TempIsOurs, Sure, Set
    <3> QED BY <3>1, OwnerUser, OwnerProgress DEF Next
  <2>2. [BpNext]_bpVars \/ TempSet \/ TempGone
    BY TableSteps DEF sVars
  <2>3. TableInv'
    BY <2>2, TableInvNext, TempSetKeepsTable, TempGoneKeepsTable
  <2> QED BY <2>1, <2>3, TableTypesNext
<1> QED BY <1>1, <1>2, ControlCorrect, PTL DEF Spec

(* Through every session, whatever gdb, the program and its stderr do, each  *)
(* numbered row is still the gdb breakpoint at its line and in its state, if *)
(* its number is not one that a misread answer has spoilt: no stop, exit,    *)
(* reset or temporary breakpoint moves, disarms or deletes a breakpoint of   *)
(* the table.                                                                *)
THEOREM SessionsKeepTable == Spec => []NumbersExact
<1>1. TypeInv /\ OwnerInv /\ TableInv => NumbersExact
  BY DEF TableInv
<1> QED BY <1>1, SessionTable, PTL

-----------------------------------------------------------------------------
(* A reset empties the table on the way: a walk of DeleteBreakPoints has left *)
(* the rows behind it unset, and nothing sets them before the reset ends.    *)
AllUnset == \A i \in DOMAIN rows : ~Set(i)

ResetInv ==
  /\ op.pc = "tail" /\ job = Idle => AllUnset
  /\ op.name = "reset" /\ op.pc = "idle" => AllUnset /\ ~pid

\* A step after which no reset is just over
Elsewhere == op'.pc # "tail" /\ (op'.name = "reset" => op'.pc # "idle")

LEMMA ElsewhereKeeps == Elsewhere => ResetInv'
BY DEF Elsewhere, ResetInv, Idle

LEMMA EmptyingKeeps ==
  ASSUME DeleteBreakPoints, op'.pc # "idle"
  PROVE  ResetInv'
BY DEF DeleteBreakPoints, Start, ResetInv, Idle

LEMMA WalkKeepsReset ==
  ASSUME TypeInv, TableInv, SessionTypeOK, ControlInv, ResetInv, Walk
  PROVE  ResetInv'
<1>1. op' = op /\ pid' = pid /\ job # Idle /\ (job' = Idle \/ job'.k = job.k)
  BY WalkFrame DEF Walk
<1>2. ~(op.name = "reset" /\ op.pc = "idle")
  BY <1>1 DEF ControlInv, WalkPoints
<1>3. CASE SetNext \/ RemoveNext
  <2>1. job.k \in {"set", "remove"}
    BY <1>3 DEF SetNext, RemoveNext
  <2>2. op.pc # "tail" /\ job'.k # "delete"
    BY <1>1, <2>1 DEF ControlInv, WalkPoints, Idle
  <2> QED BY <1>1, <1>2, <2>2, ElsewhereKeeps DEF Elsewhere
<1>4. CASE DeleteNext
  <2>1. DOMAIN rows = 1..Len(rows) /\ Len(rows) \in Nat /\ job.k = "delete" /\ job.i \in Int
    BY <1>4, RowsTypes, BoundsAssumption DEF TypeInv, TypeOK, Job, DeleteNext
  <2>2. CASE job.i \in DOMAIN rows
    <3>1. job'.k = "delete"
      BY <1>4, <2>2 DEF DeleteNext, Start
    <3> QED BY <1>1, <1>2, <3>1 DEF ResetInv, Idle
  <2>3. CASE job.i \notin DOMAIN rows
    <3>1. job' = Idle /\ rows' = rows
      BY <1>4, <2>3 DEF DeleteNext
    <3>2. AllUnset
      BY <2>1, <2>3 DEF TableInv, DeletedSoFar, AllUnset
    <3>3. AllUnset'
      BY <3>1, <3>2 DEF AllUnset, Set
    <3> QED BY <1>1, <1>2, <3>1, <3>3 DEF ResetInv, Idle
  <2> QED BY <2>2, <2>3
<1> QED BY <1>3, <1>4 DEF Walk

LEMMA UserKeepsReset ==
  ASSUME TypeInv, SessionTypeOK, ControlInv, ResetInv, User
  PROVE  ResetInv'
<1> USE DEF Quiet, SessionTypeOK, Op
<1>1. CASE StepCommand
  <2>1. op'.pc = "make" /\ job' = Idle
    BY <1>1 DEF StepCommand, Begin, NoOp, bpVars
  <2> QED BY <2>1, ElsewhereKeeps DEF Elsewhere, Idle
<1>2. CASE FINISH \/ Run \/ Make
  <2>1. op'.pc \in {"make", "go"} /\ job' = Idle
    BY <1>2 DEF FINISH, Run, Make, Begin, NoOp, bpVars
  <2> QED BY <2>1, ElsewhereKeeps DEF Elsewhere, Idle
<1>3. CASE Reset \/ Compile
  <2>1. DeleteBreakPoints /\ op'.pc \in {"break", "tail"}
    BY <1>3 DEF Reset, Compile, RESET, ResetDebugger, NoOp
  <2> QED BY <2>1, EmptyingKeeps
<1>4. CASE ExternalDebugger
  <2>1. CASE RESET([NoOp EXCEPT !.name = "debugger"], "symbols")
    <3>1. DeleteBreakPoints /\ op'.pc \in {"break", "tail"}
      BY <2>1 DEF RESET, ResetDebugger, NoOp
    <3> QED BY <3>1, EmptyingKeeps
  <2>2. CASE Begin("debugger", switch_to_user, "symbols")
    <3>1. op'.pc = "symbols" /\ job' = Idle
      BY <1>4, <2>2 DEF ExternalDebugger, Begin, NoOp, bpVars
    <3> QED BY <3>1, ElsewhereKeeps DEF Elsewhere, Idle
  <2> QED BY <1>4, <2>1, <2>2 DEF ExternalDebugger
<1>5. CASE EditBreakpoints
  <2>1. op' = NoOp /\ (job' = Idle \/ job'.k = "remove")
    BY <1>5, UserCommandFrame DEF EditBreakpoints, DeleteAllBreakPoints, Start
  <2> QED BY <2>1, ElsewhereKeeps DEF Elsewhere, Idle, NoOp
<1>6. CASE ChangeOptions
  BY <1>6 DEF ChangeOptions, ResetInv, AllUnset, Set, bpVars
<1> QED BY <1>1, <1>2, <1>3, <1>4, <1>5, <1>6 DEF User

LEMMA ProgressKeepsReset ==
  ASSUME TypeInv, TableInv, SessionTypeOK, ControlInv, ResetInv,
         Progress \/ CompileDep \/ Annotation
  PROVE  ResetInv'
<1> USE DEF At, Enter, SessionTypeOK, Op, bpVars
<1>1. CASE Walk
  BY <1>1, WalkKeepsReset
<1>2. op.name = "reset" => op.pc \in {"break", "again", "tail", "idle"}
  BY DEF ControlInv, ResetPoints
<1>3. CASE MakeDone \/ RunWithBreakpoints
  <2>1. job' = Idle /\ op'.pc # "tail" /\ op'.name # "reset"
    BY <1>2, <1>3 DEF MakeDone, RunWithBreakpoints, Begin, NoOp
  <2> QED BY <2>1, ElsewhereKeeps DEF Elsewhere, Idle
<1>4. CASE CompileDep
  <2>1. CASE RESET(op, "compiled")
    <3>1. DeleteBreakPoints /\ op'.pc \in {"break", "tail"}
      BY <2>1 DEF RESET, ResetDebugger
    <3> QED BY <3>1, EmptyingKeeps
  <2>2. CASE Enter("compiled") /\ job' = job
    <3>1. job' = Idle /\ op'.pc = "compiled"
      BY <1>4, <2>2 DEF CompileDep
    <3> QED BY <3>1, ElsewhereKeeps DEF Elsewhere, Idle
  <2> QED BY <1>4, <2>1, <2>2 DEF CompileDep
<1>5. CASE CLEARSYMBOLS
  <2>1. op.pc \in {"compiled", "symbols"} /\ ~started /\ ~pid /\ job = Idle
    BY <1>5 DEF CLEARSYMBOLS, ControlInv, FlagPoints
  <2>2. Enter("make") \/ Enter("idle")
    BY <1>5, <2>1 DEF CLEARSYMBOLS
  <2>3. job' = Idle
    BY <1>5, <2>1 DEF CLEARSYMBOLS, ClearSymbols
  <2>4. op'.name # "reset" /\ op'.pc # "tail"
    BY <1>2, <2>1, <2>2
  <2> QED BY <2>3, <2>4, ElsewhereKeeps DEF Elsewhere, Idle
<1>6. CASE Built \/ EndSession \/ RunDirect
  <2>1. op'.pc # "tail" /\ op'.name # "reset" /\ (job' = Idle \/ job'.k = "set")
    <3>1. CASE Built
      BY <1>2, <3>1, InitFrame DEF Built
    <3>2. CASE EndSession
      BY <1>2, <3>2, InitFrame DEF EndSession
    <3>3. CASE RunDirect
      BY <1>2, <3>3, InitFrame DEF RunDirect
    <3> QED BY <1>6, <3>1, <3>2, <3>3
  <2> QED BY <2>1, ElsewhereKeeps DEF Elsewhere, Idle
<1>7. CASE StartSession \/ TempBreakpoint \/ Go \/ GoFails
  <2>1. op'.pc # "tail" /\ op'.name # "reset" /\ job' = Idle
    BY <1>2, <1>7 DEF StartSession, TempBreakpoint, Tbreak, NoTbreak, Go, GoFails
  <2> QED BY <2>1, ElsewhereKeeps DEF Elsewhere, Idle
<1>8. CASE Stopped \/ Killed \/ Mourn \/ Return
  <2>1. op'.pc # "tail" /\ op'.name # "reset" /\ job' = Idle
    BY <1>2, <1>8 DEF Stopped, Killed, Mourn, Return
  <2> QED BY <2>1, ElsewhereKeeps DEF Elsewhere, Idle
<1>9. CASE annotate_exited \/ BreakSession \/ BreakSessionAgain
  <2>1. DeleteBreakPoints /\ op'.pc # "idle"
    BY <1>9 DEF annotate_exited, BreakSession, BreakSessionAgain, ControlInv, ResetPoints
  <2> QED BY <2>1, EmptyingKeeps
<1>10. CASE ResetTail
  <2>1. op.pc = "tail" /\ job' = Idle /\ job = Idle /\ rows' = rows /\ ~pid' /\ op'.pc # "tail"
    BY <1>10 DEF ResetTail, ControlInv, FlagPoints, ResetPoints
  <2>2. AllUnset'
    BY <2>1 DEF ResetInv, AllUnset, Set
  <2> QED BY <2>1, <2>2 DEF ResetInv, Idle
<1> QED
  BY <1>1, <1>3, <1>4, <1>5, <1>6, <1>7, <1>8, <1>9, <1>10 DEF Progress, Annotation

(* "Program reset" ends with no program, no session and a gdb that holds     *)
(* none of the table's breakpoints.                                          *)
THEOREM ResetCompleteCorrect ==
  ASSUME Surprises \subseteq {"traceback"} PROVE Spec => []ResetComplete
<1>1. Init => ResetInv
  BY DEF Init, BpInit, NoOp, Idle, ResetInv
<1>2. /\ TypeInv /\ TableInv /\ SessionTypeOK /\ ControlInv /\ ResetInv /\ [Next]_sVars
      => ResetInv'
  <2>1. UNCHANGED sVars => (ResetInv => ResetInv')
    BY DEF sVars, sessionVars, bpVars, ResetInv, AllUnset, Set
  <2> QED BY <2>1, UserKeepsReset, ProgressKeepsReset DEF Next
<1>3. TypeInv /\ TableInv /\ ResetInv /\ SessionTypeOK /\ ControlInv /\ BorrowedInv => ResetComplete
  <2> SUFFICES ASSUME TableInv, ResetInv, SessionTypeOK, ControlInv, BorrowedInv,
                      Quiet, op.name = "reset"
               PROVE  /\ ~pid /\ ~dual_display /\ ~tmp /\ err = "tty"
                      /\ \A i \in DOMAIN rows : ~Set(i)
                      /\ \A n \in Numbers : gdb[n].st \notin {"on", "off"}
    BY DEF ResetComplete
  <2>1. ~pid /\ AllUnset
    BY DEF Quiet, ResetInv
  <2>2. ~dual_display /\ ~tmp /\ err = "tty"
    BY <2>1 DEF Quiet, BorrowedInv, Open, ControlInv, EndPoints, SessionTypeOK
  <2>3. \A n \in Numbers : n > 0
    BY BoundsAssumption DEF Numbers
  <2>4. \A n \in Numbers : gdb[n].st \notin {"on", "off"}
    BY <2>1, <2>3 DEF TableInv, NoOrphans, AllUnset, Set
  <2> QED BY <2>1, <2>2, <2>4 DEF AllUnset
<1> QED BY <1>1, <1>2, <1>3, BorrowedCorrect, ControlCorrect, SessionTable, PTL DEF Spec

=============================================================================
