------------------------------- MODULE Specs -------------------------------
(***************************************************************************)
(* librhuti/specs.cc: the expansion of $(...). A text is a sequence of        *)
(* characters; the names of string functions are characters of their own.    *)
(***************************************************************************)
EXTENDS Paths, TLC

(* Braces and commas; 0 is NULL *)

RECURSIVE Closing(_, _, _)
Closing(s, i, open) ==
  IF open = 0 THEN i - 1
  ELSE IF i > Len(s) THEN 0
  ELSE CASE s[i] = "\\" -> Closing(s, i + 2, open)
         [] s[i] = ")"  -> Closing(s, i + 1, open - 1)
         [] s[i] = "("  -> Closing(s, i + 1, open + 1)
         [] OTHER       -> Closing(s, i + 1, open)
find_close_brace(s, i) == Closing(s, i + 1, 1)

RECURSIVE find_next_comma(_, _)
CommaPlain(s, i) == Min({j \in i..Len(s) : s[j] = ","} \cup {Len(s) + 1}) % (Len(s) + 1)
                                       \* mutant: braces do not hide commas
find_next_comma(s, i) ==
  IF i > Len(s) THEN 0
  ELSE CASE s[i] = "\\" -> find_next_comma(s, i + 2)
         [] s[i] = ","  -> i
         [] s[i] = "("  -> LET e == find_close_brace(s, i + 1)
                           IN IF e = 0 THEN 0 ELSE find_next_comma(s, e + 1)
         [] OTHER       -> find_next_comma(s, i + 1)
----------------------------------------------------------------------------
(* Words, as strtok gives them, and what the functions do with them *)

Words(s) ==
  LET ends == {i \in DOMAIN s : s[i] # " " /\ (i = Len(s) \/ s[i + 1] = " ")}
      order == SetToSortSeq(ends, <)
  IN [k \in DOMAIN order |-> SubSeq(s, LastOf(s, " ", order[k]) + 1, order[k])]
Joined(ws) == FlattenSeq([i \in DOMAIN ws |-> IF i = 1 THEN ws[i] ELSE <<" ">> \o ws[i]])

\* runs of blanks become one, except between quotes; none at the ends
RECURSIVE Squeezed(_, _, _)
Squeezed(s, i, quote) ==
  IF i > Len(s) THEN <<>>
  ELSE IF quote # "" THEN <<s[i]>> \o Squeezed(s, i + 1, IF s[i] = quote THEN "" ELSE quote)
  ELSE IF s[i] \in {"'", "\""} THEN <<s[i]>> \o Squeezed(s, i + 1, s[i])
  ELSE IF s[i] = " " /\ i < Len(s) /\ s[i + 1] = " " THEN Squeezed(s, i + 1, "")
  ELSE <<s[i]>> \o Squeezed(s, i + 1, "")
Inked(s) == {i \in DOMAIN s : s[i] # " "}
string_function_strip(s) ==
  IF Inked(s) = {} THEN <<>>
  ELSE LET out == Squeezed(From(s, Min(Inked(s))), 1, "") IN Upto(out, Max(Inked(out)))

\* strcmp
RECURSIVE Before(_, _, _)
Before(Rank, a, b) ==
  /\ b # <<>>
  /\ \/ a = <<>>
     \/ Rank[Head(a)] < Rank[Head(b)]
     \/ Head(a) = Head(b) /\ Before(Rank, Tail(a), Tail(b))
\* add_string: binary search, a word that is there is not added again
add_string(Rank, ws, w) ==
  LET at == Cardinality({i \in DOMAIN ws : Before(Rank, ws[i], w)}) + 1
  IN IF at \in DOMAIN ws /\ ws[at] = w THEN ws ELSE InsertAt(ws, at, w)
string_function_sort(Rank, s) ==
  Joined(FoldLeft(LAMBDA ws, w : add_string(Rank, ws, w), <<>>, Words(s)))

DotOn(w) == LET d == LastOf(w, ".", Len(w)) IN IF d = 0 THEN <<>> ELSE <<From(w, d)>>
string_function_suffix(s) ==
  LET ws == Words(s) IN Joined(FlattenSeq([i \in DOMAIN ws |-> DotOn(ws[i])]))
\* the last suffix of the whole text, unless a slash follows
string_function_nosuffix(s) ==
  LET d == LastOf(s, ".", Len(s))
  IN IF d > LastOf(s, "/", Len(s)) THEN Upto(s, d - 1) ELSE s
string_function_setsuffix(a, s) == string_function_nosuffix(s) \o a
add_pre_or_suffix(a, s, prefix) ==
  LET ws == Words(s)
  IN Joined([i \in DOMAIN ws |-> IF prefix THEN a \o ws[i] ELSE ws[i] \o a])
RECURSIVE string_function_subst(_, _, _)
string_function_subst(a, b, s) ==
  LET at == {i \in DOMAIN s : i + Len(a) - 1 <= Len(s) /\ SubSeq(s, i, i + Len(a) - 1) = a}
  IN IF a = <<>> \/ at = {} THEN s
     ELSE Upto(s, Min(at) - 1) \o b \o string_function_subst(a, b, From(s, Min(at) + Len(a)))
\* without a match there is no result: the caller goes on looking for a variable
string_function_wildcard(Glob, s) == IF s \in DOMAIN Glob THEN Glob[s] ELSE <<>>
\* the number of the word is text before the comma
string_function_word(Digit, s) ==
  LET c == find_next_comma(s, 1)
      n == IF c > 1 /\ s[1] \in DOMAIN Digit THEN Digit[s[1]] ELSE 0
      ws == Words(From(s, c + 1))
  IN IF n \in DOMAIN ws THEN ws[n] ELSE <<>>
\* line ends become blanks, a last one is taken off
string_function_shell(Sh, s) ==
  LET out == IF s \in DOMAIN Sh THEN [i \in DOMAIN Sh[s] |-> IF Sh[s][i] = "\n" THEN " " ELSE Sh[s][i]]
             ELSE <<>>
  IN IF out # <<>> /\ Last(out) = " " THEN Front(out) ELSE out
----------------------------------------------------------------------------
(* Expansion. W is what it looks into: user and default variables, the        *)
(* environment, the tokens the caller knows, asked last (no caller asks for    *)
(* them first); int holds the variables of foreach, which the expansion itself *)
(* sets and removes.  A text is expanded in place: where it has $$, the second *)
(* one becomes the end of the text, NUL, and stays it                         *)

Functions1 == {"strip", "sort", "suffix", "nosuffix", "notdir", "dir", "wildcard", "word", "shell"}
Functions2 == {"setsuffix", "addprefix", "addsuffix"}
Functions3 == {"subst", "foreach"}
StringFunctions == Functions1 \cup Functions2 \cup Functions3

Nul == "NUL"
CString(s) == Upto(s, Min({i \in DOMAIN s : s[i] = Nul} \cup {Len(s) + 1}) - 1)

\* what comes out, and the text as it is left
Result(t, int, left) == [text |-> t, int |-> int, left |-> left]
Apply1(W, f, s) ==
  CASE f = "strip" -> string_function_strip(s)
    [] f = "sort" -> string_function_sort(W.rank, s)
    [] f = "suffix" -> string_function_suffix(s)
    [] f = "nosuffix" -> string_function_nosuffix(s)
    [] f = "notdir" -> BaseName(s, TRUE)
    [] f = "dir" -> split_fname(s).dir
    [] f = "wildcard" -> string_function_wildcard(W.glob, s)
    [] f = "word" -> string_function_word(W.digit, s)
    [] f = "shell" -> string_function_shell(W.sh, s)
Apply2(f, a, s) == IF f = "setsuffix" THEN string_function_setsuffix(a, s)
                   ELSE add_pre_or_suffix(a, s, f = "addprefix")

\* <<>> is NULL
GetVariable(W, int, n) ==
  CASE n \in DOMAIN int -> <<int[n]>>
    [] n \in DOMAIN W.user -> <<W.user[n]>>
    [] n \in DOMAIN W.vars -> <<W.vars[n]>>
    [] n \in DOMAIN W.env -> <<W.env[n]>>
    [] OTHER -> <<>>

\* a name that is no variable may be a token of the caller, by the name as it is
\* written; its text is expanded in turn
RECURSIVE expand_tokens(_, _, _), expand_token(_, _, _), foreach(_, _, _, _, _)

expand_variable(W, int, inner) ==
  LET named == expand_tokens(W, int, inner)
      value == GetVariable(W, named.int, named.text)
      found == IF value # <<>> THEN value[1]
               ELSE IF inner \in DOMAIN W.tokens THEN W.tokens[inner] ELSE <<>>
  IN [expand_tokens(W, named.int, found) EXCEPT !.left = named.left]

foreach(W, int, name, ws, body) ==
  IF ws = <<>> THEN Result(<<>>, int, body)
  ELSE LET one == expand_tokens(W, (name :> Head(ws)) @@ int, body)
           rest == foreach(W, one.int, name, Tail(ws), one.left)
           gap == IF one.text # <<>> /\ rest.text # <<>> THEN <<" ">> ELSE <<>>
       IN Result(one.text \o gap \o rest.text, rest.int, rest.left)

\* inner is what is between $( and )
Apart(f, lefts) == <<f, " ">> \o lefts[1] \o FlattenSeq([i \in DOMAIN Tail(lefts) |-> <<",">> \o Tail(lefts)[i]])
expand_token(W, int, inner) ==
  IF Len(inner) < 2 \/ inner[1] \notin StringFunctions \/ inner[2] # " "
  THEN expand_variable(W, int, inner)
  ELSE
    LET f == inner[1]
        arg == From(inner, 3)
        c == find_next_comma(arg, 1)
        d == IF c = 0 THEN 0 ELSE find_next_comma(arg, c + 1)
        first == expand_tokens(W, int, Upto(arg, c - 1))
        all == expand_tokens(W, int, arg)
        second == expand_tokens(W, first.int, From(arg, c + 1))
        middle == expand_tokens(W, first.int, SubSeq(arg, c + 1, d - 1))
        third == expand_tokens(W, middle.int, From(arg, d + 1))
        each == foreach(W, middle.int, first.text, Words(middle.text), From(arg, d + 1))
    IN CASE f \in Functions1 -> Result(Apply1(W, f, all.text), all.int, Apart(f, <<all.left>>))
         [] f \in Functions2 /\ c > 0 ->
              Result(Apply2(f, first.text, second.text), second.int, Apart(f, <<first.left, second.left>>))
         [] f = "subst" /\ d > 0 ->
              Result(string_function_subst(first.text, middle.text, third.text), third.int,
                     Apart(f, <<first.left, middle.left, third.left>>))
         [] f = "foreach" /\ d > 0 ->
              Result(each.text, [n \in DOMAIN each.int \ {first.text} |-> each.int[n]],
                     Apart(f, <<first.left, middle.left, each.left>>))
         [] OTHER -> expand_variable(W, int, inner)

expand_tokens(W, int, buffer) ==
  LET s == CString(buffer)
      at == {i \in DOMAIN s : s[i] = "$" /\ i < Len(s) /\ s[i + 1] \in {"(", "$"}}
      i == Min(at)
      e == find_close_brace(s, i + 1)
  IN IF at = {} THEN Result(s, int, buffer)
     ELSE IF s[i + 1] = "$"
     THEN LET rest == expand_tokens(W, int, From(buffer, i + 2))
          IN Result(Upto(s, i) \o rest.text, rest.int, Upto(s, i) \o <<Nul>> \o rest.left)
     ELSE IF e = 0 THEN Result(s, int, buffer)
     ELSE LET one == expand_token(W, int, SubSeq(s, i + 2, e - 1))
              rest == expand_tokens(W, one.int, From(buffer, e + 1))
          IN Result(Upto(s, i - 1) \o one.text \o rest.text, rest.int,
                    Upto(s, i + 1) \o one.left \o <<")">> \o rest.left)

expand_spec(W, s) == expand_tokens(W, <<>>, s).text
=============================================================================
