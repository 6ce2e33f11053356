----------------------------- MODULE SyntaxIndex -----------------------------
(***************************************************************************)
(* Help on the word under the cursor: the index of the topics of all INFO    *)
(* files of a project, kept from one question to the next (idesynta.cc).     *)
(*                                                                         *)
(* info: the topics of each file that can be read.  An entry of the index is *)
(* [origname, nodes], a node [name, real].                                   *)
(***************************************************************************)
EXTENDS Naturals, Sequences, SequencesExt, FiniteSetsExt

CONSTANTS
  Lower,      \* the name in small letters
  Inside,   \* pairs of names: the second is in the first
  Similar,    \* fstrcmp, in thousandths, of pairs of names
  InfoFile    \* the INFO file of each name in the list: "(file)topic" is one topic of it

NULL == "NULL"
MAX_FUZZY == 1000

\* nothing is added when the file cannot be read, or has no topics
Topics(info, name) == IF name \in DOMAIN info THEN info[name] ELSE {}
add_nodes_from_file(files, name, info) ==
  IF Topics(info, name) = {} THEN files
  ELSE Append(files, [origname |-> name, nodes |-> Topics(info, name)])
InIndex(files, name) == \E i \in DOMAIN files : files[i].origname = name

\* syntaxhelp: what is new is put behind the others; drop: the names which the
\* user lets remove from the list because they cannot be read
\* r: the index so far and the names that stay in the list
AddNew(r, name, first, info, drop) ==
  LET files == IF ~first /\ InIndex(r.files, name) THEN r.files
               ELSE add_nodes_from_file(r.files, name, info)
      failed == files = r.files /\ (first \/ ~InIndex(r.files, name))
  IN [files |-> files, list |-> IF failed /\ name \in drop THEN r.list ELSE Append(r.list, name)]

\* mutant: the one behind the entry that goes
RemoveNext(files, i) == IF i < Len(files) THEN RemoveAt(files, i + 1) ELSE RemoveAt(files, i)
remove_nodes_from_file(files, i) == RemoveAt(files, i)
\* the loop goes on behind the place of the entry that was removed, and so
\* leaves out the one that took it
RECURSIVE RemoveGone(_, _, _)
RemoveGone(files, i, list) ==
  IF i > Len(files) THEN files
  ELSE RemoveGone(IF files[i].origname \in Range(list) THEN files ELSE remove_nodes_from_file(files, i),
                  i + 1, list)
Refreshed(files, list, info, drop) ==
  LET Next(r, name) == AddNew(r, name, files = <<>>, info, drop)
      r == FoldLeft(Next, [files |-> files, list |-> <<>>], list)
  IN [files |-> IF files = <<>> THEN r.files ELSE RemoveGone(r.files, 1, r.list), list |-> r.list]
----------------------------------------------------------------------------
(* Questions.  A node of an index is <<i, n>>: the file and the topic.       *)

NodesOf(files) == UNION {{<<i, n>> : n \in files[i].nodes} : i \in DOMAIN files}
Cased(case, w) == IF case THEN w ELSE Lower[w]
\* one in the first file that has one
find_exact_node(files, word, case) ==
  LET hits == {x \in NodesOf(files) : Cased(case, x[2].name) = Cased(case, word)}
  IN {x \in hits : \A y \in hits : x[1] <= y[1]}
substring_fkt(s1, s2) == <<s1, s2>> \in Inside
fuzzy_fkt(s1, s2, fuzzy_value) == Similar[<<s1, s2>>] >= fuzzy_value
\* what is found is one node, or the user chooses among those found
find_node(files, word, mode, case, fuzzy_value) ==
  {x \in NodesOf(files) :
     LET s == Cased(case, x[2].name)
         t == Cased(case, word)
     IN CASE mode = "any" -> TRUE
          [] mode = "fuzzy" -> fuzzy_fkt(s, t, fuzzy_value)
          [] mode = "substring" -> substring_fkt(s, t)}
Found(files, word, mode, case, fuzzy_value) ==
  IF mode = "exact" THEN find_exact_node(files, word, case)
  ELSE find_node(files, word, mode, case, fuzzy_value)
\* the topics that may be shown, each by its own name and its file
syntaxhelp(files, word, mode, case, fuzzy_value) ==
  {[topic |-> IF x[2].real = NULL THEN x[2].name ELSE x[2].real, file |-> InfoFile[files[x[1]].origname]] :
     x \in Found(files, word, IF word = "" THEN "any" ELSE mode, case, fuzzy_value)}
----------------------------------------------------------------------------
(* Property *)

Stale(files, list) == {i \in DOMAIN files : files[i].origname \notin Range(list)}
\* After a question every file of the list that can be read is in the index,
\* once and with its own topics; of the entries that are in the list no more
\* every second of neighbours is left, so that as many questions as there are
\* entries leave none; and a word that is found is a topic of its file.
IndexRight(files, list, info, drop) ==
  LET r == Refreshed(files, list, info, drop)
      names == [i \in DOMAIN r.files |-> r.files[i].origname]
  IN /\ \A n \in Range(list) :
          /\ Topics(info, n) # {} => n \in Range(r.list) /\ InIndex(r.files, n)
          /\ n \notin Range(r.list) => n \in drop
     /\ IsInjective(names)
     /\ 2 * Cardinality(Stale(r.files, r.list)) <= Cardinality(Stale(files, r.list))
     /\ \A w \in DOMAIN Lower, mode \in {"exact", "substring", "fuzzy"}, case \in BOOLEAN :
          LET shown == syntaxhelp(r.files, w, mode, case, MAX_FUZZY)
          IN /\ shown = {} => \A i \in DOMAIN r.files : \A n \in r.files[i].nodes : n.name # w
             /\ \A x \in shown : \E i \in DOMAIN r.files : /\ InfoFile[r.files[i].origname] = x.file
                  /\ \E n \in r.files[i].nodes : x.topic = IF n.real = NULL THEN n.name ELSE n.real
=============================================================================
