------------------------------- MODULE Paths -------------------------------
(***************************************************************************)
(* The functions on file names of librhuti: splitting, fixing, making        *)
(* relative. A name is a sequence of characters; only "/" and "." matter.    *)
(***************************************************************************)
EXTENDS Naturals, Sequences, SequencesExt, FiniteSetsExt

Up == <<".", ".">>
From(s, i) == SubSeq(s, i, Len(s))
Upto(s, i) == SubSeq(s, 1, i)
\* strrchr: the last place of c in s up to i, 0 when there is none
LastOf(s, c, i) == Max({j \in 1..i : s[j] = c} \cup {0})
Count(s, c) == Cardinality({i \in DOMAIN s : s[i] = c})

----------------------------------------------------------------------------
(* split_fname and its format, BaseName *)

split_fname(f) ==
  LET slash == LastOf(f, "/", Len(f))
      at == LastOf(f, ".", Len(f))
      dot == IF at > slash THEN at ELSE Len(f) + 1
  IN [dir |-> Upto(f, slash), name |-> SubSeq(f, slash + 1, dot - 1), ext |-> From(f, dot)]

split_fname_fmt(f, letters) ==
  LET p == split_fname(f)
      part == [D |-> p.dir, d |-> p.dir, F |-> p.name, e |-> p.ext, f |-> p.name \o p.ext]
  IN FlattenSeq([i \in DOMAIN letters |-> part[letters[i]]])

BaseName(f, with_suffix) ==
  LET name == From(f, LastOf(f, "/", Len(f)) + 1)
      dot == LastOf(name, ".", Len(name))
  IN IF with_suffix \/ dot = 0 THEN name ELSE Upto(name, dot - 1)
----------------------------------------------------------------------------
(* __fixpath: absolute, without empty parts, "." and ".." *)

\* the parts between slashes
Parts(s) ==
  LET ends == {i \in DOMAIN s : s[i] # "/" /\ (i = Len(s) \/ s[i + 1] = "/")}
      order == SetToSortSeq(ends, <)
  IN [k \in DOMAIN order |-> SubSeq(s, LastOf(s, "/", order[k]) + 1, order[k])]

StepOverRoot(out, part) ==             \* mutant: ".." is left alone
  IF part = <<".">> THEN out ELSE out \o <<"/">> \o part
\* ".." takes characters off up to the last slash; out is never left of it
Step(out, part) ==
  IF part = <<".">> THEN out
  ELSE IF part # Up THEN out \o <<"/">> \o part
  ELSE Upto(out, Max({1, LastOf(out, "/", Len(out))}) - 1)
__fixpath(in, cwd) ==
  LET out == FoldLeft(Step, IF Head(in) = "/" THEN <<>> ELSE cwd, Parts(in))
  IN IF out = <<>> THEN <<"/">> ELSE out
FExpand(in, cwd) == IF in = <<>> THEN cwd ELSE __fixpath(in, cwd)
----------------------------------------------------------------------------
(* AbsToRelPath: <<>> when it answers 0 and leaves ret alone *)

Common(ref, ret) == Max({n \in 0..Min({Len(ref), Len(ret)}) : Upto(ref, n) = Upto(ret, n)})
Ups(n) == FlattenSeq([i \in 1..n |-> IF i = 1 THEN Up ELSE <<"/">> \o Up])

\* ret is above ref: as many ".." as ref goes on
Above(ref, n, max_up) ==
  LET ups == 1 + Count(From(ref, n + 2), "/")
  IN IF ups > 1 /\ ups > max_up THEN <<>> ELSE <<Ups(ups)>>
\* both go on behind the n characters that end with a slash
Beside(ref, ret, n, max_up) ==
  LET more == Count(From(ref, n + 1), "/")
      rest == From(ret, n + 1)
  IN IF more > max_up THEN <<>>
     ELSE <<Ups(1 + more) \o (IF rest = <<>> THEN rest ELSE <<"/">> \o rest)>>
\* mutant: a directory counts as above when its name only begins the same
AbsToRelPlain(ref, ret, allow, max_up) ==
  LET n == Common(ref, ret)
  IN IF n = Len(ref) /\ n > 0 THEN <<From(ret, n + 2)>> ELSE <<>>
AbsToRelPath(ref, ret, allow, max_up) ==
  LET n == Common(ref, ret)
      ends == n = Len(ref)
      slash == n < Len(ret) /\ ret[n + 1] = "/"
      back == LastOf(ret, "/", n)
  IN IF ref = <<>> \/ n = 0 THEN <<>>
     ELSE IF ends /\ n = Len(ret) THEN <<<<>>>>
     ELSE IF ends /\ (slash \/ ref[n] = "/") THEN <<From(ret, IF slash THEN n + 2 ELSE n + 1)>>
     ELSE IF ~allow THEN <<>>
     ELSE IF n = Len(ret) /\ ref[n + 1] = "/" THEN Above(ref, n, max_up)
     ELSE Beside(ref, ret, back, max_up)
----------------------------------------------------------------------------
(* _AbsToRelPath of the makefile writer: below the project, or below the      *)
(* longest directory a variable holds; dirs is the sequence of those values   *)

\* which variable (0 for none) and the rest of the name
ViaVariable(dname, dirs) ==
  LET below == {i \in DOMAIN dirs :
                  LET r == AbsToRelPath(dirs[i], dname, FALSE, 0)
                  IN r # <<>> /\ dirs[i] # <<>>}
      best == {i \in below : \A j \in below :
                 Len(dirs[j]) < Len(dirs[i]) \/ (Len(dirs[j]) = Len(dirs[i]) /\ i <= j)}
  IN IF below = {} THEN [var |-> 0, rest |-> dname]
     ELSE LET i == CHOOSE k \in best : TRUE
          IN [var |-> i, rest |-> AbsToRelPath(dirs[i], dname, FALSE, 0)[1]]
_AbsToRelPath(dname, project, dirs) ==
  LET r == AbsToRelPath(project, dname, FALSE, 0)
  IN IF dname = <<>> THEN [var |-> 0, rest |-> dname]
     ELSE IF r # <<>> THEN [var |-> 0, rest |-> r[1]] ELSE ViaVariable(dname, dirs)
----------------------------------------------------------------------------
(* What they promise *)

\* Splitting loses nothing, and the base name is the end of the file's name
\* (splitfn.cc:8-60, basename.cc:17)
SplitRight(f) ==
  LET p == split_fname(f)
  IN /\ p.dir \o p.name \o p.ext = f
     /\ split_fname_fmt(f, <<"d", "f">>) = f
     /\ BaseName(f, TRUE) = p.name \o p.ext
     /\ BaseName(f, FALSE) = p.name
     /\ p.dir # <<>> => Last(p.dir) = "/"

\* A fixed name is absolute, has no part that is empty, "." or "..", and is the
\* directory one gets to by walking along it (fixpath.cc:28-34)
RECURSIVE Walk(_, _)
Walk(dir, parts) ==
  IF parts = <<>> THEN dir
  ELSE Walk(CASE Head(parts) = <<".">> -> dir
              [] Head(parts) = Up -> IF dir = <<>> THEN dir ELSE Front(dir)
              [] OTHER -> Append(dir, Head(parts)), Tail(parts))
FixRight(f, cwd) ==
  LET out == FExpand(f, cwd)
  IN /\ Head(out) = "/" /\ (Len(out) > 1 => Last(out) # "/")
     /\ \A i \in 2..Len(out) : ~(out[i] = "/" /\ out[i - 1] = "/")
     /\ Parts(out) = Walk(IF f # <<>> /\ f[1] = "/" THEN <<>> ELSE Parts(cwd), Parts(f))
     /\ FExpand(out, cwd) = out

\* A relative name leads from the directory back to the file; a file below the
\* directory always has one, a file that only begins like it has none; a slash
\* at the end of the directory changes nothing (abstorel.cc:5-135)
RelativeRight(ref, ret, allow, max_up) ==
  LET r == AbsToRelPath(ref, ret, allow, max_up)
      below == ref \o <<"/">>
  IN /\ r # <<>> => FExpand(r[1], ref) = ret
     /\ IsPrefix(below, ret) \/ ret = ref => r # <<>>
     /\ ~allow /\ r # <<>> => IsPrefix(below, ret) \/ ret = ref
     /\ ret # ref => AbsToRelPath(below, ret, FALSE, 0) = AbsToRelPath(ref, ret, FALSE, 0)

\* The name written into a makefile names the same file: the variable's
\* directory followed by the rest, and no longer variable would do
\* (idemak.cc:192-276)
InMakefileRight(dname, project, dirs) ==
  LET w == _AbsToRelPath(dname, project, dirs)
      base == IF w.var = 0 THEN project ELSE dirs[w.var]
  IN /\ FExpand(w.rest, base) = dname
     /\ w.var # 0 => \A i \in DOMAIN dirs :
          IsPrefix(dirs[i] \o <<"/">>, dname) => Len(dirs[i]) <= Len(dirs[w.var])
=============================================================================
