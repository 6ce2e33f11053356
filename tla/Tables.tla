------------------------------- MODULE Tables -------------------------------
(***************************************************************************)
(* The tables of variables of librhuti/specs.cc: sequences of name and       *)
(* contents, sorted by name. A name that is added again comes before the old *)
(* entry and is removed first.                                               *)
(***************************************************************************)
EXTENDS Naturals, Sequences, SequencesExt, FiniteSetsExt

CONSTANT Rank       \* strcmp of names, by numbers

Less(a, b) == Rank[a] < Rank[b]
Entry(n, c) == [name |-> n, contents |-> c]
NotLess(tab, n) == {i \in DOMAIN tab : ~Less(tab[i].name, n)}
\* the first entry of that name, or where it would be put in
_find_var(tab, n) == Min(NotLess(tab, n) \cup {Len(tab) + 1})
Found(tab, i, n) == i \in DOMAIN tab /\ tab[i].name = n
AddBehind(tab, n, c) ==      \* mutant: behind the old entry
  LET k == _find_var(tab, n)
      i == IF Found(tab, k, n) THEN k + 1 ELSE k
  IN InsertAt(tab, i, Entry(n, c))
_add_variable(tab, n, c) == InsertAt(tab, _find_var(tab, n), Entry(n, c))
_remove_variable(tab, n) ==
  LET i == _find_var(tab, n) IN IF Found(tab, i, n) THEN RemoveAt(tab, i) ELSE tab
_set_variable(tab, n, c) ==
  LET i == _find_var(tab, n)
  IN IF Found(tab, i, n) THEN [tab EXCEPT ![i].contents = c] ELSE tab
\* <<>> is NULL
_get_variable(tab, n) ==
  LET i == _find_var(tab, n) IN IF Found(tab, i, n) THEN <<tab[i].contents>> ELSE <<>>
=============================================================================
