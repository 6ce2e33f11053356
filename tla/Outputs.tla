------------------------------- MODULE Outputs -------------------------------
(***************************************************************************)
(* What compilers, the linker, the archiver and error checkers print, and    *)
(* the messages, the result and the dependencies RHIDE takes from it          *)
(* (idecomp.cc, ideuser.cc).                                                 *)
(*                                                                         *)
(* A line is a sequence of tokens: punctuation marks, words, numbers.         *)
(***************************************************************************)
EXTENDS Integers, Sequences, SequencesExt

CONSTANTS
  Number,     \* the tokens that are numbers, with their values
  Chopped,    \* ... what is left of one without its last digit
  Letters,    \* words of one letter
  BaseOf,     \* names with a directory, and their last part
  Findable    \* names FindFile finds

IsNumber(t) == t \in DOMAIN Number
IsBlank(t) == t \in {" ", "indent"}
From(l, i) == SubSeq(l, i, Len(l))
Strip(l) ==
  LET k == SelectInSeq(l, LAMBDA t : ~IsBlank(t)) IN IF k = 0 THEN <<>> ELSE From(l, k)
Has(l, phrase) == \E i \in 0..(Len(l) - Len(phrase)) : IsPrefix(phrase, From(l, i + 1))
FirstFrom(l, i, t) == IF i > Len(l) THEN 0 ELSE SelectInSubSeq(l, i, Len(l), LAMBDA x : x = t)
LastOf(l, t) == SelectLastInSeq(l, LAMBDA x : x = t)

NULL == <<>>
MsgRec(fname, msg, type, line, column) ==
  [fname |-> fname, msg |-> msg, type |-> type, line |-> line, column |-> column]
Plain(msg, type) == MsgRec(NULL, msg, type, 0, 1)
\* what a parser has got: messages, its result, the line number it read last,
\* and the linker's doubt; crashed: RHIDE is no more
Start(line) == [msgs |-> <<>>, ok |-> TRUE, line |-> line, maybe |-> FALSE, crashed |-> FALSE]
insert(acc, m) == [acc EXCEPT !.msgs = Append(@, m)]
----------------------------------------------------------------------------
(* gcc, gpc, g77, nasm *)

Pressed == <<"Control-Break", " ", "Pressed">>
FromLines == {<<"In", " ", "file", " ", "included", " ", "from", " ">>, <<"indent", "from", " ">>}
\* their names begin 20 characters behind, but 22 are skipped
SkewedLines == {<<"In", " ", "instantiation", " ", "of", " ">>, <<" ", " ", "instantiated", " ", "from", " ">>}
Cut(l) == IF IsNumber(Last(l)) THEN Front(l) \o Chopped[Last(l)] ELSE Front(l)
\* strrchr finds no colon before the line number, and a 0 is written to it
NoColon(l) == LastOf(Cut(l), ":") = 0
Number1(l, old) == IF l # <<>> /\ IsNumber(Head(l)) THEN Number[Head(l)] ELSE old
Included(l, p, old) ==
  LET cut == Cut(l)
      k == LastOf(cut, ":")
      name == SubSeq(cut, Len(p) + 1, k - 1)
  IN MsgRec(IF p \in FromLines THEN name ELSE <<"skewed">> \o Tail(name), l, "msgMessage",
            Number1(From(cut, k + 1), old), 1)

\* behind a drive letter; and no file before a blank
NameStart(l) == IF Len(l) > 1 /\ l[1] \in Letters /\ l[2] = ":" THEN 3 ELSE 1
NameEnds(l, at) == at # 0 /\ \A i \in 1..(at - 1) : ~IsBlank(l[i])
\* digits and what follows them
LineNumber(rest, ends, old) ==
  LET n == IF rest # <<>> /\ IsNumber(rest[1]) THEN 1 ELSE 0
  IN IF Len(rest) > n /\ rest[n + 1] \in ends
     THEN [line |-> Number1(rest, old), rest |-> From(rest, n + 2)]
     ELSE [line |-> 0, rest |-> rest]

WarningC(s) == s # <<>> /\ s[1] \in {"warning", "Warning"} /\ IsPrefix(<<":">>, Tail(s))
CType(s) ==
  CASE WarningC(s) -> "msgWarning"
    [] s = <<"Assembler", " ", "messages", ":">> -> "msgMessage"
    [] IsPrefix(<<"instantiated", " ", "from", " ", "here">>, s) -> "msgMessage"
    [] OTHER -> "msgError"
\* mutant: an error without a line stays an error
ErrorAnyway(type, line) == type
\* without a line it is only a message
WithoutLine(type, line) == IF line = 0 /\ type = "msgError" THEN "msgMessage" ELSE type
Told(acc, m) == [insert(acc, m) EXCEPT !.ok = @ /\ m.type # "msgError", !.line = m.line]

\* a warning's text keeps the character before it, a blank or the colon; the
\* title and the instantiation are set back over their blanks, one too few
CText(rest) ==
  LET s == Strip(rest)
      said == Strip(From(s, 3))
      later == IF rest # s THEN Tail(rest) ELSE <<"rest of ">> \o s
  IN CASE WarningC(s) -> IF said = <<>> THEN <<>> ELSE <<IF IsBlank(s[3]) THEN " " ELSE ":">> \o said
       [] ~WarningC(s) /\ CType(s) = "msgMessage" -> IF s[1] = "Assembler" THEN later ELSE <<":">> \o later
       [] OTHER -> s
CMessage(fname, line, rest) ==
  MsgRec(fname, CText(rest), WithoutLine(CType(Strip(rest)), line), line, 1)
CNumbered(fname, n) == CMessage(fname, n.line, n.rest)
CLine(acc, l) ==
  LET at == FirstFrom(l, NameStart(l), ":")
      special == {p \in FromLines \cup SkewedLines : IsPrefix(p, l)}
  IN CASE IsPrefix(Pressed, l) -> [insert(acc, Plain(Pressed, "msgError")) EXCEPT !.ok = FALSE]
       [] special # {} /\ NoColon(l) -> [acc EXCEPT !.crashed = TRUE]
       [] special # {} /\ ~NoColon(l) -> Told(acc, Included(l, CHOOSE p \in special : TRUE, acc.line))
       [] special = {} /\ NameEnds(l, at) ->
            Told(acc, CNumbered(SubSeq(l, 1, at - 1), LineNumber(From(l, at + 1), {":"}, acc.line)))
       [] OTHER -> IF Strip(l) = <<>> THEN [acc EXCEPT !.line = 0]
                   ELSE [insert(acc, Plain(l, "msgMessage")) EXCEPT !.line = 0]
\* old: what the variable of the line number holds at the beginning
check_compile_c_errors(lines, old) ==
  FoldLeft(LAMBDA acc, l : IF acc.crashed THEN acc ELSE CLine(acc, l), Start(old), lines)
----------------------------------------------------------------------------
(* Free Pascal: FILE(LINE,COLUMN) TYPE: text; lines without a file are ignored *)

FpcType(s) ==
  CASE IsPrefix(<<"warning", ":">>, s) -> [type |-> "msgWarning", rest |-> Strip(From(s, 3))]
    [] Len(s) > 1 /\ s[1] \in {"error", "Error", "Fatal"} /\ s[2] = ":" ->
         [type |-> "msgError", rest |-> Strip(From(s, 3))]
    [] OTHER -> [type |-> "msgError", rest |-> s]
FpcColumn(rest) ==
  LET n == IF rest # <<>> /\ IsNumber(rest[1]) THEN 1 ELSE 0
  IN IF Len(rest) > n /\ rest[n + 1] = ")" THEN [column |-> Number1(rest, 1), rest |-> From(rest, n + 2)]
     ELSE [column |-> 1, rest |-> rest]
\* a number behind the type is the line, or the column when there is a line
FpcMessage(fname, n, c, t) ==
  LET k == IF Len(t.rest) > 0 /\ IsNumber(t.rest[1]) THEN 1 ELSE 0
      more == Len(t.rest) > k /\ t.rest[k + 1] = ":"
      value == Number1(t.rest, c.column)
      line == IF more /\ n.line = 0 THEN value ELSE n.line
  IN MsgRec(fname, IF more THEN From(t.rest, k + 2) ELSE t.rest, WithoutLine(t.type, line), line,
            IF ~more THEN c.column ELSE IF n.line = 0 THEN 1 ELSE value)
FpcNumbered(fname, brace, n) ==
  LET FpcTyped(c) == FpcMessage(fname, n, c, FpcType(Strip(c.rest)))
  IN FpcTyped(IF brace THEN FpcColumn(n.rest) ELSE [column |-> 1, rest |-> n.rest])
FpcLine(acc, l) ==
  LET brace == FirstFrom(l, NameStart(l), "(")
      at == IF brace # 0 THEN brace ELSE FirstFrom(l, NameStart(l), ":")
      ends == {":", ","} \cup (IF brace # 0 THEN {")"} ELSE {})
      special == {p \in FromLines : IsPrefix(p, l)}
  IN CASE IsPrefix(Pressed, l) -> [insert(acc, Plain(Pressed, "msgError")) EXCEPT !.ok = FALSE]
       [] special # {} /\ NoColon(l) -> [acc EXCEPT !.crashed = TRUE]
       [] special # {} /\ ~NoColon(l) -> Told(acc, Included(l, CHOOSE p \in special : TRUE, acc.line))
       [] special = {} /\ NameEnds(l, at) ->
            Told(acc, FpcNumbered(SubSeq(l, 1, at - 1), brace # 0, LineNumber(From(l, at + 1), ends, acc.line)))
       [] OTHER -> [acc EXCEPT !.line = 0]
check_compile_fpc_errors_(acc, lines, old) ==
  FoldLeft(LAMBDA a, l : IF a.crashed THEN a ELSE FpcLine(a, l), [acc EXCEPT !.line = old], lines)
check_compile_fpc_errors(err, out, old) ==
  check_compile_fpc_errors_(check_compile_fpc_errors_(Start(old), err, old), out, old)
----------------------------------------------------------------------------
(* The linker *)

UseOf == <<"the", " ", "use", " ", "of">>
\* the name before LINE, back to the colon before it and one character more
BackToFile(l, k) ==
  LET p == LastOf(SubSeq(l, 1, k - 1), ":")
  IN IF p > 1 THEN <<"tail", ":">> \o SubSeq(l, p + 1, k - 1) ELSE SubSeq(l, 1, k - 1)
LinkName(temp) ==
  LET base == IF Last(temp) \in DOMAIN BaseOf THEN <<BaseOf[Last(temp)]>> ELSE temp
  IN IF base \in Findable THEN base ELSE temp
Doubted(acc, m) == [insert(acc, m) EXCEPT !.maybe = TRUE]
LinkMessage(acc, l) ==
  LET b == SelectInSeq(l, IsBlank)
      k == IF b > 2 /\ IsNumber(l[b - 2]) THEN b - 3 ELSE b - 2
      q == [acc EXCEPT !.ok = @ /\ ~acc.maybe, !.maybe = FALSE]
  IN CASE b < 2 \/ l[b - 1] # ":" -> insert(q, Plain(l, "msgMessage"))
       [] b >= 2 /\ l[b - 1] = ":" /\ (k < 1 \/ l[k] # ":") ->
            IF Has(l, <<":", " ", "warning", ":", " ">>) THEN insert(q, Plain(l, "msgWarning"))
            ELSE Doubted(q, Plain(l, "msgError"))
       [] OTHER -> Doubted(q, MsgRec(LinkName(BackToFile(l, k)), From(l, b + 1), "msgError",
                                     Number1(From(l, k + 1), acc.line), 1))
\* "the use of" makes a warning of the line before
LinkLine(acc, l) ==
  IF Has(l, UseOf) /\ acc.maybe
  THEN [acc EXCEPT !.msgs = Append([@ EXCEPT ![Len(@)].type = "msgWarning"], Plain(l, "msgWarning")),
                   !.maybe = FALSE]
  ELSE LinkMessage(acc, l)
check_link_errors(lines, old) == FoldLeft(LinkLine, Start(old), lines)
----------------------------------------------------------------------------
(* The archiver, Ada, and tools of which nothing is known *)

ArLine(acc, l) ==
  IF Has(l, <<":", " ", "creating", " ">>) \/ Has(l, <<"warning", ":">>)
  THEN insert(acc, Plain(l, "msgMessage")) ELSE [insert(acc, Plain(l, "msgError")) EXCEPT !.ok = FALSE]
check_ar_errors(lines) == FoldLeft(ArLine, Start(0), lines)

Titled(acc, title, lines) ==
  IF lines = <<>> THEN acc
  ELSE FoldLeft(LAMBDA a, l : insert(a, Plain(l, "msgMessage")), insert(acc, Plain(title, "msgMessage")), lines)
check_user_messages(err, out) ==
  Titled(Titled(Start(0), <<"Messages to stdout:">>, out), <<"Messages to stderr:">>, err)

\* FILE:LINE:COLUMN: text; the ten characters compared with "warning: " are
\* those of a message that says nothing else
AdaWarning == <<"warning", ":", " ">>
AdaLine(acc, l) ==
  LET a == FirstFrom(l, 1, ":")
      b == IF a = 0 THEN 0 ELSE FirstFrom(l, a + 1, ":")
      c == IF b = 0 THEN 0 ELSE FirstFrom(l, b + 1, ":")
      msg == Strip(From(l, c + 1))
      line == Number1(From(l, a + 1), acc.line)
  IN IF c = 0 THEN insert(acc, Plain(l, "msgMessage"))
     ELSE insert(acc, MsgRec(SubSeq(l, 1, a - 1), IF msg = AdaWarning THEN <<>> ELSE msg,
                             IF msg = AdaWarning THEN "msgWarning" ELSE "msgError", line,
                             IF b = a + 2 THEN Number1(From(l, b + 1), acc.line) ELSE acc.line))
check_compile_ada_errors(err, out, old) ==
  FoldLeft(AdaLine, Titled(Start(old), <<"Messages to stdout:">>, out), err)
----------------------------------------------------------------------------
(* The checker of the user: !Error!File'name'!Line17!Column18, and the text   *)
(* on the next line.  u: the static variables, which stay from run to run.    *)

NothingSeen == [in_error |-> FALSE, in_warning |-> FALSE, line_no |-> 0, column_no |-> 0, fname |-> NULL]
\* one character more than the keyword is skipped: the first digit
DropDigit(l) ==
  IF l = <<>> THEN <<>>
  ELSE IF IsNumber(l[1]) /\ Number[l[1]] > 9 THEN <<"rest of ">> \o l ELSE Tail(l)
\* what is left of a number without its first digit
Behind(l) == IF Len(l) > 1 /\ l[1] = "rest of " THEN Number[l[2]] % 10 ELSE 0
After(l) == IF Len(l) > 1 /\ l[1] = "rest of " THEN From(l, 3) ELSE l
RECURSIVE ScanBuffer(_, _)
ScanBuffer(u, l) ==
  IF l = <<>> THEN [u |-> u, msg |-> l]
  ELSE CASE l[1] = "!Error" -> ScanBuffer([u EXCEPT !.in_error = TRUE], Tail(l))
         [] l[1] = "!Warning" -> ScanBuffer([u EXCEPT !.in_warning = TRUE], Tail(l))
         [] l[1] = "!File" ->
              LET end == FirstFrom(l, 3, "'")
              IN IF Len(l) < 2 \/ l[2] # "'" THEN ScanBuffer(u, Tail(l))
                 ELSE IF end = 0 THEN ScanBuffer(u, From(l, 3))
                 ELSE ScanBuffer([u EXCEPT !.fname = SubSeq(l, 3, end - 1)], From(l, end + 1))
         [] l[1] = "!Line" ->
              LET q == DropDigit(Tail(l))
              IN ScanBuffer(IF After(q) = q THEN u ELSE [u EXCEPT !.line_no = Behind(q)], After(q))
         [] l[1] = "!Column" ->
              LET q == DropDigit(Tail(l))
              IN ScanBuffer(IF After(q) = q THEN u ELSE [u EXCEPT !.column_no = Behind(q)], After(q))
         [] OTHER -> [u |-> u, msg |-> l]
UserLine(acc, l) ==
  LET u == acc.u
      Here(type, msg) == MsgRec(u.fname, msg, type, u.line_no, u.column_no)
      s == ScanBuffer([u EXCEPT !.line_no = 0, !.column_no = 0, !.fname = NULL], l)
  IN CASE u.in_error -> [insert(acc, Here("msgError", l)) EXCEPT !.u.in_error = FALSE]
       [] ~u.in_error /\ u.in_warning -> insert(acc, Here("msgWarning", l))
       [] OTHER ->
            [acc EXCEPT !.u = s.u, !.ok = @ /\ ~s.u.in_error,
                        !.msgs = IF s.u.in_error \/ s.u.in_warning THEN @
                                 ELSE Append(@, MsgRec(s.u.fname, s.msg, "msgMessage", s.u.line_no,
                                                       s.u.column_no))]
\* the end of the file is read as an empty line more
user_check_errors(lines, u) == FoldLeft(UserLine, Start(0) @@ [u |-> u], Append(lines, <<>>))
----------------------------------------------------------------------------
(* One call of a tool: who reads its output, and is it a success *)

LikeC == {"COMPILE_C", "COMPILE_C_LIKE", "COMPILE_CC", "COMPILE_CC_LIKE", "COMPILE_OBJC",
          "COMPILE_PASCAL", "COMPILE_FORTRAN", "COMPILE_NASM"}
\* a command of the user, or one for which nothing is built in
UserChecks(error_type, how) ==
  CASE error_type = "ERROR_AUTO" /\ how \in LikeC -> "c"
    [] error_type = "ERROR_AUTO" /\ how \in {"COMPILE_FPC", "COMPILE_LINK_FPC_AUTOMAKE"} -> "fpc"
    [] error_type = "ERROR_AUTO" /\ how \in {"COMPILE_LINK", "COMPILE_LINK_DLL"} -> "link"
    [] error_type = "ERROR_BUILTIN_C" -> "c"
    [] error_type = "ERROR_BUILTIN_FPC" -> "fpc"
    [] error_type = "ERROR_BUILTIN_LINK" -> "link"
    [] error_type = "ERROR_USER" -> "user"
    [] OTHER -> "none"
BuiltinChecks(compile_id, UseFPC) ==
  CASE compile_id \in LikeC \cup {"COMPILE_ASM"} -> "c"
    [] compile_id = "COMPILE_ADA" -> "ada"
    [] compile_id = "COMPILE_FPC" -> "fpc"
    [] compile_id = "COMPILE_LINK_PASCAL_AUTOMAKE" -> IF UseFPC THEN "fpc" ELSE "c"
    [] compile_id = "COMPILE_LINK_FPC_AUTOMAKE" -> "fpc"
    [] compile_id \in {"COMPILE_LINK", "COMPILE_LINK_DLL"} -> "link"
    [] compile_id = "COMPILE_ARCHIVE" -> "ar"
Checks(dep, UseFPC) ==
  IF dep.user_spec \/ dep.compile_id \notin LikeC \cup
       {"COMPILE_ASM", "COMPILE_ADA", "COMPILE_FPC", "COMPILE_LINK", "COMPILE_LINK_DLL",
        "COMPILE_LINK_PASCAL_AUTOMAKE", "COMPILE_LINK_FPC_AUTOMAKE", "COMPILE_ARCHIVE"}
  THEN UserChecks(dep.error_type, dep.compile_id) ELSE BuiltinChecks(dep.compile_id, UseFPC)
Parse(checker, err, out, old) ==
  CASE checker = "c" -> check_compile_c_errors(err, old)
    [] checker = "fpc" -> check_compile_fpc_errors(err, out, old)
    [] checker = "link" -> check_link_errors(err, old)
    [] checker = "ar" -> check_ar_errors(err)
    [] checker = "ada" -> check_compile_ada_errors(err, out, old)
    [] checker = "user" -> user_check_errors(err, NothingSeen)
    [] OTHER -> check_user_messages(err, out)
\* the result, what is shown, and whether the target is removed
Outcome(r, run_ret) ==
  LET retval == r.ok /\ run_ret = 0
  IN [retval |-> retval, removed |-> ~retval,
      msgs |-> Append(r.msgs, Plain(<<IF retval THEN "no errors" ELSE "There were some errors">>, "msgMessage"))]
compile_dep(dep, UseFPC, run_ret, err, out, old) ==
  Outcome(Parse(Checks(dep, UseFPC), err, out, old), run_ret)
----------------------------------------------------------------------------
(* Dependencies: a rule of make, its lines broken behind backslashes *)

Names(l) == SelectSeq(l, LAMBDA t : ~IsBlank(t) /\ t # "\\")
FromNextBlank(l) == LET k == SelectInSeq(l, IsBlank) IN IF k = 0 THEN <<>> ELSE From(l, k)
\* the first line of a list of the user's headers begins with the source
Prerequisites(l, OnlyUserIncludes) ==
  LET rest == Strip(From(l, FirstFrom(l, 1, ":") + 1))
  IN IF OnlyUserIncludes THEN FromNextBlank(rest) ELSE rest
check_c_deps(lines, OnlyUserIncludes, StandardHeaders) ==
  IF lines = <<>> \/ FirstFrom(Head(lines), 1, ":") = 0 THEN {}
  ELSE UNION {{Names(l)[i] : i \in DOMAIN Names(l)} :
                l \in {Prerequisites(Head(lines), OnlyUserIncludes)} \cup {lines[i] : i \in 2..Len(lines)}}
       \ StandardHeaders
----------------------------------------------------------------------------
(* Properties.  A tool says something: m, and prints it in a line. *)

Head2(m) == IF m.line = 0 THEN m.file \o <<":">> ELSE m.file \o <<":", m.number, ":">>
Printed(checker, m) ==
  CASE checker = "c" /\ m.kind = "from" -> <<"indent", "from", " ">> \o m.file \o <<":", m.number, m.end>>
    [] checker = "c" /\ m.kind = "warning" -> Head2(m) \o <<" ", "warning", ":", " ">> \o m.text
    [] checker = "fpc" -> m.file \o <<"(", m.number>> \o (IF m.end = "," THEN <<",", "7">> ELSE <<>>)
         \o <<")", " ", IF m.kind = "warning" THEN "warning" ELSE "Error", ":", " ">> \o m.text
    [] checker = "link" /\ m.line # 0 -> (IF m.end = "," THEN <<"x.o", ":">> ELSE <<>>) \o Head2(m) \o <<" ">> \o m.text
    [] checker \in {"link", "ar"} -> <<"ld", ":", " ">> \o (IF m.kind = "warning" THEN <<"warning", ":", " ">> ELSE <<>>) \o m.text
    [] checker = "ada" -> m.file \o <<":", m.number, ":", "7", ":", " ">> \o m.text
    [] OTHER -> Head2(m) \o <<" ">> \o m.text
Type(m) == IF m.kind = "error" /\ m.line # 0 THEN "msgError" ELSE IF m.kind = "warning" THEN "msgWarning" ELSE "msgMessage"
Understood(checker, m) ==
  CASE checker = "c" /\ m.kind = "from" -> MsgRec(m.file, Printed("c", m), "msgMessage", m.line, 1)
    [] checker \in {"c"} /\ m.kind # "from" -> MsgRec(m.file, IF m.kind = "warning" THEN <<" ">> \o m.text ELSE m.text, Type(m), m.line, 1)
    [] checker = "fpc" -> MsgRec(m.file, m.text, IF m.kind = "warning" THEN "msgWarning" ELSE "msgError",
                                 m.line, IF m.end = "," THEN 7 ELSE 1)
    [] checker = "link" /\ m.line # 0 -> MsgRec(LinkName(m.file), m.text, "msgError", m.line, 1)
    [] checker = "link" /\ m.line = 0 ->
         Plain(Printed(checker, m), IF m.kind = "warning" THEN "msgWarning" ELSE "msgError")
    [] checker = "ar" -> Plain(Printed(checker, m), IF m.kind = "warning" THEN "msgMessage" ELSE "msgError")
    [] OTHER -> MsgRec(m.file, m.text, "msgError", m.line, 7)
Errors(msgs) == {i \in DOMAIN msgs : msgs[i].type = "msgError"}
\* what a tool may say
Speaks(checker, m) ==
  CASE checker = "c" -> TRUE
    [] checker = "fpc" -> m.kind # "from" /\ m.line # 0
    [] checker = "link" -> m.kind # "from" /\ (m.line # 0 => m.kind = "error" /\ Len(m.file) = 1
                             /\ (m.end = "," => LinkName(m.file) # m.file))
    [] checker = "ar" -> m.kind # "from" /\ m.line = 0
    [] OTHER -> m.kind = "error" /\ m.line # 0 /\ Len(m.file) = 1
\* Every line that says something becomes one message with its file, line and
\* kind, in order (a compiler's warning with the blank before it: the messages of
\* gcc are shown so), and a run fails exactly when one of them is an error (the
\* linker's last line decides only together with its exit status, Ada's none).
OutputRight(checker, ms, old) ==
  LET Agrees(r) ==
        /\ ~r.crashed
        /\ r.msgs = [i \in DOMAIN ms |-> Understood(checker, ms[i])]
        /\ checker \notin {"link", "ada"} => (r.ok <=> Errors(r.msgs) = {})
        /\ checker = "link" => (r.ok <=> Errors(r.msgs) \ {Len(ms)} = {})
  IN Agrees(Parse(checker, [i \in DOMAIN ms |-> Printed(checker, ms[i])], <<>>, old))
\* A warning of the C library's that the linker prints makes no error of the
\* line before it, whatever stands around both.
UseIsWarning(before, after) ==
  LET use == <<<<"a.o", ":", " ", "In">>, <<"a.o", ":", " ">> \o UseOf \o <<" ", "gets">>>>
      Warned(r, k) == \A i \in {k + 1, k + 2} : r.msgs[i].type = "msgWarning"
  IN Warned(check_link_errors(before \o use \o after, 0), Len(before))
\* A compilation succeeds only when the tool ended well and no error is among
\* its messages (but for the two exceptions above), it fails only for a reason
\* that the user sees, and the target of one that failed is gone.
ResultRight(dep, UseFPC, run_ret, err, old) ==
  LET sees == Checks(dep, UseFPC) \notin {"link", "ada"}
      Right(r) ==
        /\ r.retval => run_ret = 0 /\ (sees => Errors(r.msgs) = {})
        /\ ~r.retval => run_ret # 0 \/ Errors(r.msgs) # {}
        /\ r.removed = ~r.retval
  IN Right(compile_dep(dep, UseFPC, run_ret, err, <<>>, old))
\* However the rule is broken into lines behind the source, the headers are
\* the ones in it that are not standard headers.
Rule(source, headers, breaks) ==
  LET RECURSIVE Broken(_, _)
      Broken(line, i) ==
        IF i > Len(headers) THEN <<line>>
        ELSE IF i \in breaks THEN <<line \o <<" ", "\\">>>> \o Broken(<<" ", headers[i]>>, i + 1)
        ELSE Broken(line \o <<" ", headers[i]>>, i + 1)
  IN Broken(<<"a.o", ":", " ", source>>, 1)
DepsRight(headers, breaks, StandardHeaders) ==
  check_c_deps(Rule("a.c", headers, breaks), TRUE, StandardHeaders)
    = {headers[i] : i \in DOMAIN headers} \ StandardHeaders
\* What the user's checker says without numbers comes as it says it: errors
\* with their file, other lines as they are.
UserRight(ms) ==
  LET lines == FlattenSeq([i \in DOMAIN ms |->
                 IF ms[i].kind = "error" THEN <<<<"!Error", "!File", "'">> \o ms[i].file \o <<"'">>, ms[i].text>>
                 ELSE <<ms[i].text>>])
      Right(r) ==
        /\ r.msgs = Append([i \in DOMAIN ms |->
                       IF ms[i].kind = "error" THEN MsgRec(ms[i].file, ms[i].text, "msgError", 0, 0)
                       ELSE MsgRec(NULL, ms[i].text, "msgMessage", 0, 0)], MsgRec(NULL, <<>>, "msgMessage", 0, 0))
        /\ r.ok <=> \A i \in DOMAIN ms : ms[i].kind # "error"
  IN Right(user_check_errors(lines, NothingSeen))
=============================================================================
