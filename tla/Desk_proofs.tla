------------------------------ MODULE Desk_proofs ------------------------------
(***************************************************************************)
(* Proofs about the windows of the IDE, for any files, tools, desktop files, *)
(* limits and number of windows: the lists of windows stay in step, enabled   *)
(* commands find what they need, and going through messages gets on.          *)
(*                                                                         *)
(* What is shown by induction (the loop over closed windows, the windows of a *)
(* desktop file) is shown by the least counterexample, which the library has  *)
(* without a parameter that is an operator.                                  *)
(***************************************************************************)
EXTENDS Desk, SequenceTheorems, FiniteSetTheorems, WellFoundedInduction, TLAPS

(* Numbers *)

\* A set of natural numbers that is not empty has a least element.
LEMMA LeastExists ==
  ASSUME NEW T \in SUBSET Nat, T # {}
  PROVE  \E x \in T : \A y \in T : x <= y
<1> DEFINE R == {ss \in Nat \X Nat : ss[1] < ss[2]}
<1>1. IsWellFoundedOn(R, Nat)
  BY NatLessThanWellFounded DEF OpToRel
<1>2. \A x, y \in T : ~(<<y, x>> \in R) => x <= y
  OBVIOUS
<1> HIDE DEF R
<1>3. \E x \in T : \A y \in T : ~(<<y, x>> \in R)
  BY <1>1, WFMin
<1> QED BY <1>2, <1>3

\* So Min is that element,
LEMMA MinIs ==
  ASSUME NEW T \in SUBSET Nat, T # {}
  PROVE  Min(T) \in T /\ \A y \in T : Min(T) <= y
<1>1. \E x \in T : \A y \in T : x <= y
  BY LeastExists
<1>2. \A x \in T : \A y \in T : (x <= y) <=> (x =< y)
  OBVIOUS
<1> QED BY <1>1, <1>2 DEF Min

\* and Max the greatest one of a bounded set.
LEMMA MaxIs ==
  ASSUME NEW T \in SUBSET Nat, T # {}, NEW n \in Nat, \A y \in T : y <= n
  PROVE  Max(T) \in T /\ \A y \in T : y <= Max(T)
<1> DEFINE U == {n - y : y \in T}
<1>1. U \in SUBSET Nat /\ U # {}
  <2>1. \A y \in T : n - y \in Nat
    OBVIOUS
  <2> QED BY <2>1
<1>2. PICK u \in U : \A v \in U : u <= v
  <2> HIDE DEF U
  <2> QED BY <1>1, LeastExists
<1>3. PICK x \in T : u = n - x
  BY <1>2
<1>4. \A y \in T : n - y \in U
  OBVIOUS
<1>5. \A y \in T : n - x <= n - y /\ x \in Nat /\ y \in Nat /\ n \in Nat
  BY <1>2, <1>3, <1>4
<1>6. \A y \in T : x >= y
  BY <1>5
<1>7. Max(T) \in T /\ \A y \in T : Max(T) >= y
  BY <1>3, <1>6 DEF Max
<1> QED BY <1>7

\* What holds of 0 and of the next of each holds of all up to n.
LEMMA CountUp ==
  ASSUME NEW n \in Nat, NEW Good \in SUBSET Nat, 0 \in Good,
         \A i \in 0..(n - 1) : i \in Good => i + 1 \in Good
  PROVE  0..n \subseteq Good
<1> SUFFICES ASSUME ~(0..n \subseteq Good) PROVE FALSE
  OBVIOUS
<1> DEFINE Bad == (0..n) \ Good
<1>1. Bad \in SUBSET Nat /\ Bad # {}
  OBVIOUS
<1>2. PICK b \in Bad : \A y \in Bad : b <= y
  <2> HIDE DEF Bad
  <2> QED BY <1>1, LeastExists
<1>3. b \in 1..n /\ b - 1 \in 0..(n - 1) /\ b - 1 \notin Bad
  BY <1>2
<1>4. b - 1 \in Good
  BY <1>3
<1>5. (b - 1) + 1 \in Good
  BY <1>3, <1>4
<1> QED BY <1>2, <1>3, <1>5

\* A finite set of numbers has, for each k up to its size, an element that is
\* the k-th one.
LEMMA RankExists ==
  ASSUME NEW n \in Nat, NEW is \in SUBSET (1..n), NEW k \in 1..Cardinality(is)
  PROVE  \E i \in is : Cardinality({j \in is : j <= i}) = k
<1> DEFINE Upto(i) == {j \in is : j <= i}
           Ranks == {Cardinality(Upto(i)) : i \in is}
<1>1. IsFiniteSet(is) /\ Cardinality(is) \in Nat
  <2>1. IsFiniteSet(1..n)
    BY FS_Interval
  <2> QED BY <2>1, FS_Subset, FS_CardinalityType
<1>2. ASSUME NEW i \in is PROVE IsFiniteSet(Upto(i)) /\ Cardinality(Upto(i)) \in Nat
  <2>1. Upto(i) \in SUBSET is
    OBVIOUS
  <2> HIDE DEF Upto
  <2> QED BY <1>1, <2>1, FS_Subset, FS_CardinalityType
<1> DEFINE Good == {0} \cup Ranks
<1>3. Good \in SUBSET Nat /\ 0 \in Good
  <2> HIDE DEF Upto
  <2> QED BY <1>2
<1>4. ASSUME NEW m \in 0..(Cardinality(is) - 1), m \in Good
      PROVE  m + 1 \in Good
  <2>1. PICK below \in SUBSET is :
          /\ Cardinality(below) = m
          /\ \A x \in below, y \in is \ below : x < y
    <3>1. CASE m = 0
      <4>1. {} \in SUBSET is /\ Cardinality({}) = m
        BY <3>1, FS_EmptySet
      <4> QED BY <4>1
    <3>2. CASE m # 0
      <4>1. PICK i \in is : m = Cardinality(Upto(i))
        BY <1>4, <3>2
      <4>2. \A x \in Upto(i), y \in is \ Upto(i) : x < y
        OBVIOUS
      <4> QED BY <4>1, <4>2
    <3> QED BY <3>1, <3>2
  <2>2. is \ below # {} /\ is \ below \in SUBSET Nat
    <3>1. Cardinality(below) # Cardinality(is)
      BY <1>1, <2>1
    <3>2. below # is
      BY <3>1
    <3>3. \A x \in is : x \in Nat
      OBVIOUS
    <3> QED BY <3>2, <3>3
  <2>3. PICK i \in is \ below : \A y \in is \ below : i <= y
    BY <2>2, LeastExists
  <2>4. Upto(i) = below \cup {i}
    <3>1. i \in Nat /\ \A j \in is : j \in Nat
      OBVIOUS
    <3>2. \A j \in below : j \in is /\ j < i
      BY <2>1, <2>3
    <3>3. \A j \in is \ below : i <= j
      BY <2>3
    <3>4. \A j \in is : j <= i <=> j \in below \/ j = i
      BY <3>1, <3>2, <3>3
    <3> QED BY <2>3, <3>2, <3>4
  <2>5. Cardinality(below \cup {i}) = m + 1
    <3>1. IsFiniteSet(below)
      BY <1>1, FS_Subset
    <3> QED BY <2>1, <2>3, <3>1, FS_AddElement
  <2>6. Cardinality(Upto(i)) = m + 1 /\ i \in is
    BY <2>3, <2>4, <2>5
  <2> HIDE DEF Upto
  <2> QED BY <2>6
<1>5. 0..Cardinality(is) \subseteq Good
  <2> HIDE DEF Good
  <2> QED BY <1>1, <1>3, <1>4, CountUp
<1>6. k \in Good /\ k # 0
  BY <1>1, <1>5
<1>7. k \in Ranks
  BY <1>6
<1> QED BY <1>7

(* Sequences *)

\* A function on 1..n is a sequence of its values.
LEMMA FunctionIsSeq ==
  ASSUME NEW S, NEW n \in Nat, NEW f \in [1..n -> S]
  PROVE  f \in Seq(S) /\ Len(f) = n /\ DOMAIN f = 1..n
<1>1. f \in Seq(S)
  BY SeqDef
<1> QED BY <1>1, LenProperties

\* Two sequences of one length with the same elements are equal.
LEMMA SameSeq ==
  ASSUME NEW S, NEW q \in Seq(S), NEW r \in Seq(S), Len(q) = Len(r),
         \A i \in 1..Len(q) : q[i] = r[i]
  PROVE  q = r
BY SeqEqual

\* RemoveAt takes one element out and keeps the order of the others.
LEMMA RemoveAtIs ==
  ASSUME NEW S, NEW s \in Seq(S), NEW i \in 1..Len(s)
  PROVE  /\ RemoveAt(s, i) \in Seq(S)
         /\ Len(RemoveAt(s, i)) = Len(s) - 1
         /\ DOMAIN RemoveAt(s, i) = 1..(Len(s) - 1)
         /\ \A k \in 1..Len(s) - 1 :
              RemoveAt(s, i)[k] = IF k < i THEN s[k] ELSE s[k + 1]
<1> DEFINE a == SubSeq(s, 1, i - 1)
           b == SubSeq(s, i + 1, Len(s))
<1>1. Len(s) \in Nat /\ i \in Nat /\ 1 <= i /\ i <= Len(s)
  BY LenProperties
<1>2. /\ a \in Seq(S) /\ Len(a) = i - 1
      /\ \A k \in 1..i - 1 : a[k] = s[k]
  <2>1. \A k \in 1..i - 1 : s[k] \in S
    BY <1>1, ElementOfSeq
  <2> QED BY <1>1, <2>1, SubSeqProperties
<1>3. /\ b \in Seq(S) /\ Len(b) = Len(s) - i
      /\ \A k \in 1..Len(s) - i : b[k] = s[i + k]
  <2>1. \A k \in i + 1..Len(s) : s[k] \in S
    BY <1>1, ElementOfSeq
  <2> QED BY <1>1, <2>1, SubSeqProperties
<1>4. RemoveAt(s, i) = a \o b
  BY DEF RemoveAt
<1>5. /\ a \o b \in Seq(S) /\ Len(a \o b) = Len(a) + Len(b)
      /\ \A k \in 1..Len(a) + Len(b) :
           (a \o b)[k] = IF k <= Len(a) THEN a[k] ELSE b[k - Len(a)]
  BY <1>2, <1>3, ConcatProperties
<1> HIDE DEF a, b
<1>6. ASSUME NEW k \in 1..Len(s) - 1
      PROVE  RemoveAt(s, i)[k] = IF k < i THEN s[k] ELSE s[k + 1]
  <2>1. k \in 1..Len(a) + Len(b) /\ (k <= Len(a) <=> k < i)
    BY <1>1, <1>2, <1>3
  <2>2. CASE k < i
    BY <1>2, <1>4, <1>5, <2>1, <2>2
  <2>3. CASE ~(k < i)
    <3>1. k - Len(a) \in 1..Len(s) - i /\ i + (k - Len(a)) = k + 1
      BY <1>1, <1>2, <2>3
    <3> QED BY <1>3, <1>4, <1>5, <2>1, <2>3, <3>1
  <2> QED BY <2>2, <2>3
<1>7. RemoveAt(s, i) \in Seq(S) /\ Len(RemoveAt(s, i)) = Len(s) - 1
  BY <1>1, <1>2, <1>3, <1>4, <1>5
<1> QED BY <1>6, <1>7, LenProperties

\* Where the elements of RemoveAt(s, i) were: a place each, none of them i.
Moved(s, i, at) ==
  /\ \A k \in 1..(Len(s) - 1) : at[k] # i /\ RemoveAt(s, i)[k] = s[at[k]]
  /\ \A k, l \in 1..(Len(s) - 1) : at[k] = at[l] => k = l
  /\ \A j \in (1..Len(s)) \ {i} : \E k \in 1..(Len(s) - 1) : at[k] = j
LEMMA RemoveAtPlaces ==
  ASSUME NEW S, NEW s \in Seq(S), NEW i \in 1..Len(s)
  PROVE  \E at \in [1..(Len(s) - 1) -> 1..Len(s)] : Moved(s, i, at)
<1>1. Len(s) \in Nat /\ i \in Nat /\ 1 <= i /\ i <= Len(s)
  BY LenProperties
<1> DEFINE n == Len(s) - 1
           at == [k \in 1..n |-> IF k < i THEN k ELSE k + 1]
<1>2. \A k \in 1..n : RemoveAt(s, i)[k] = IF k < i THEN s[k] ELSE s[k + 1]
  BY RemoveAtIs
<1>3. n \in Nat /\ n + 1 = Len(s)
  BY <1>1
<1> HIDE DEF n
<1>4. at \in [1..n -> 1..Len(s)]
  BY <1>1, <1>3
<1>5. \A k \in 1..n : at[k] # i /\ RemoveAt(s, i)[k] = s[at[k]]
  BY <1>1, <1>2, <1>3
<1>6. \A k, l \in 1..n : at[k] = at[l] => k = l
  BY <1>1, <1>3
<1>7. ASSUME NEW j \in (1..Len(s)) \ {i} PROVE \E k \in 1..n : at[k] = j
  <2>1. CASE j < i
    <3>1. j \in 1..n
      BY <1>1, <1>3, <2>1
    <3> QED BY <2>1, <3>1
  <2>2. CASE ~(j < i)
    <3>1. j - 1 \in 1..n /\ ~(j - 1 < i) /\ (j - 1) + 1 = j
      BY <1>1, <1>3, <2>2
    <3> QED BY <3>1
  <2> QED BY <2>1, <2>2
<1>8. Moved(s, i, at)
  BY <1>5, <1>6, <1>7 DEF n, Moved
<1> QED BY <1>4, <1>8 DEF n

\* Picked takes each element with an index of the set once.
LEMMA PickedIs ==
  ASSUME NEW S, NEW s \in Seq(S), NEW is \in SUBSET (1..Len(s))
  PROVE  /\ Picked(s, is) \in Seq(S)
         /\ Len(Picked(s, is)) = Cardinality(is) /\ Cardinality(is) \in Nat
         /\ \E at \in [1..Cardinality(is) -> is] :
              /\ \A k \in 1..Cardinality(is) : Picked(s, is)[k] = s[at[k]]
              /\ \A k, l \in 1..Cardinality(is) : at[k] = at[l] => k = l
<1> DEFINE n == Cardinality(is)
           Rank(i) == Cardinality({j \in is : j <= i})
           at == [k \in 1..n |-> CHOOSE i \in is : Rank(i) = k]
<1>1. n \in Nat /\ Len(s) \in Nat
  <2>1. Len(s) \in Nat /\ IsFiniteSet(1..Len(s))
    BY LenProperties, FS_Interval
  <2> QED BY <2>1, FS_Subset, FS_CardinalityType
<1>2. \A k \in 1..n : \E i \in is : Rank(i) = k
  BY <1>1, RankExists
<1>3. Picked(s, is) = [k \in 1..n |-> s[CHOOSE i \in is : Rank(i) = k]]
  BY DEF Picked
<1> HIDE DEF n, Rank
<1>4. \A k \in 1..n : at[k] \in is /\ Rank(at[k]) = k
  BY <1>2
<1>5. at \in [1..n -> is] /\ \A k, l \in 1..n : at[k] = at[l] => k = l
  BY <1>4
<1>6. \A k \in 1..n : Picked(s, is)[k] = s[at[k]] /\ s[at[k]] \in S
  <2>1. \A k \in 1..n : Picked(s, is)[k] = s[at[k]]
    BY <1>3
  <2>2. \A k \in 1..n : at[k] \in 1..Len(s)
    BY <1>4
  <2> QED BY <2>1, <2>2, ElementOfSeq
<1>7. Picked(s, is) \in [1..n -> S]
  BY <1>3, <1>6
<1>8. Picked(s, is) \in Seq(S) /\ Len(Picked(s, is)) = n
  BY <1>1, <1>7, FunctionIsSeq
<1> HIDE DEF at
<1> QED BY <1>1, <1>5, <1>6, <1>8 DEF n

\* The loop over closed windows (windowli.cc:230-247) drops some of them, and
\* ends with no more than max_closed or with none that may be dropped.
LEMMA TrimmedIs ==
  ASSUME NEW S, NEW q \in Seq(S), \A x \in S : x.removable \in BOOLEAN
  PROVE  /\ Trimmed(q) \in Seq(S)
         /\ \E at \in [1..Len(Trimmed(q)) -> 1..Len(q)] :
              /\ \A k \in 1..Len(Trimmed(q)) : Trimmed(q)[k] = q[at[k]]
              /\ \A k, l \in 1..Len(Trimmed(q)) : at[k] = at[l] => k = l
         /\ \/ Len(Trimmed(q)) <= max_closed
            \/ \A k \in 1..Len(Trimmed(q)) : ~Trimmed(q)[k].removable
<1> DEFINE c == IF Cuts(q) = {} THEN 1 ELSE Max(Cuts(q))
           is == Kept(q, c)
<1>1. Len(q) \in Nat /\ DOMAIN q = 1..Len(q)
  BY LenProperties
<1>2. is \in SUBSET (1..Len(q))
  BY <1>1 DEF Kept
<1>3. Trimmed(q) = Picked(q, is)
  BY DEF Trimmed
<1>4. \/ Cardinality(is) <= max_closed
      \/ \A i \in is : ~q[i].removable
  <2>1. CASE Cuts(q) = {}
    <3>1. \A i \in 1..Len(q) : i \notin Removables(q, 1) => ~q[i].removable
      BY <1>1 DEF Removables
    <3> QED BY <1>1, <2>1, <3>1 DEF Kept
  <2>2. CASE Cuts(q) # {}
    <3>1. Cuts(q) \in SUBSET Nat /\ (\A y \in Cuts(q) : y <= Len(q) + 1) /\ Len(q) + 1 \in Nat
      BY <1>1 DEF Cuts
    <3>2. Max(Cuts(q)) \in Cuts(q)
      BY <2>2, <3>1, MaxIs
    <3>3. c \in Cuts(q)
      BY <2>2, <3>2
    <3> HIDE DEF c
    <3> QED BY <3>3 DEF Cuts
  <2> QED BY <2>1, <2>2
<1> HIDE DEF is
<1>5. /\ Picked(q, is) \in Seq(S)
      /\ Len(Picked(q, is)) = Cardinality(is) /\ Cardinality(is) \in Nat
      /\ \E at \in [1..Cardinality(is) -> is] :
           /\ \A k \in 1..Cardinality(is) : Picked(q, is)[k] = q[at[k]]
           /\ \A k, l \in 1..Cardinality(is) : at[k] = at[l] => k = l
  <2>1. \A js \in SUBSET (1..Len(q)) :
          /\ Picked(q, js) \in Seq(S)
          /\ Len(Picked(q, js)) = Cardinality(js) /\ Cardinality(js) \in Nat
          /\ \E at \in [1..Cardinality(js) -> js] :
               /\ \A k \in 1..Cardinality(js) : Picked(q, js)[k] = q[at[k]]
               /\ \A k, l \in 1..Cardinality(js) : at[k] = at[l] => k = l
    BY PickedIs
  <2> QED BY <1>2, <2>1
<1>6. PICK at \in [1..Cardinality(is) -> is] :
        /\ \A k \in 1..Cardinality(is) : Trimmed(q)[k] = q[at[k]]
        /\ \A k, l \in 1..Cardinality(is) : at[k] = at[l] => k = l
  BY <1>3, <1>5
<1>7. at \in [1..Cardinality(is) -> 1..Len(q)]
  BY <1>2
<1>8. /\ Trimmed(q) \in Seq(S) /\ Len(Trimmed(q)) = Cardinality(is)
  BY <1>3, <1>5
<1>9. \/ Len(Trimmed(q)) <= max_closed
      \/ \A k \in 1..Len(Trimmed(q)) : ~Trimmed(q)[k].removable
  BY <1>4, <1>6, <1>8
<1> QED BY <1>6, <1>7, <1>8, <1>9

(* The state of the desktop *)

NumberSet == 1..(MaxWindows + 1)
WindowRec == [id : Ids, title : Title, number : NumberSet, remember : BOOLEAN,
              removable : BOOLEAN]
ClosedRec == [title : Title, removable : BOOLEAN]
DeskState == [windows : Seq(WindowRec), closed : Seq(ClosedRec), numbers : SUBSET NumberSet,
              current : Ids \cup {None, Clip}, pointer : [Tools -> Ids \cup {None}]]

\* Windows have an identity each; the pointer of a tool is its window's; no tool is
\* remembered when it is closed.
IdsDiffer(s) ==
  \A i, j \in DOMAIN s.windows : s.windows[i].id = s.windows[j].id => i = j
PointersHold(s) ==
  /\ \A t \in Tools : s.pointer[t] # None =>
       \E i \in DOMAIN s.windows : s.windows[i].id = s.pointer[t] /\ s.windows[i].title = t
  /\ \A i \in DOMAIN s.windows : s.windows[i].title \in Tools =>
       s.pointer[s.windows[i].title] = s.windows[i].id
ToolsForgotten(s) ==
  /\ \A i \in DOMAIN s.windows : s.windows[i].remember => s.windows[i].title \notin Tools
  /\ \A i \in DOMAIN s.closed : s.closed[i].title \notin Tools
ListOK(s) == IdsDiffer(s) /\ PointersHold(s) /\ ToolsForgotten(s)

\* The numbers taken are those of the windows; at most one more was lost.
NumbersOf(s) == {s.windows[i].number : i \in DOMAIN s.windows}
NumbersExact(s) ==
  /\ s.numbers = NumbersOf(s)
  /\ \A i, j \in DOMAIN s.windows : s.windows[i].number = s.windows[j].number => i = j
NumbersLoose(s) == \E x \in NumberSet : s.numbers \subseteq NumbersOf(s) \cup {x}
NumbersInv(s, o) == ("freed" \notin o => NumbersExact(s)) /\ NumbersLoose(s)

\* A file has one window or one closed window.
NotShown(s, t) == \A i \in DOMAIN s.windows : s.windows[i].title # t
NotClosed(s, t) == \A i \in DOMAIN s.closed : s.closed[i].title # t
ShownOnce(s) == \A i, j \in DOMAIN s.windows :
  s.windows[i].title \in Files /\ s.windows[i].title = s.windows[j].title => i = j
ClosedOnce(s) == \A i, j \in DOMAIN s.closed :
  s.closed[i].title \in Files /\ s.closed[i].title = s.closed[j].title => i = j
Apart(s) == \A i \in DOMAIN s.windows, j \in DOMAIN s.closed :
  s.windows[i].title \in Files => s.windows[i].title # s.closed[j].title
FilesInv(s, o) == "same_name" \in o \/ (ShownOnce(s) /\ ClosedOnce(s) /\ Apart(s))

FewClosed(s) ==
  Len(s.closed) <= max_closed \/ \A i \in DOMAIN s.closed : ~s.closed[i].removable

DeskOK(s, o) ==
  s \in DeskState /\ ListOK(s) /\ NumbersInv(s, o) /\ FilesInv(s, o) /\ FewClosed(s)
CurrentOK(s) == s.current \in InList(s) \cup {None, Clip}

\* The constants and the titles.
LEMMA TitleFacts ==
  /\ MaxWindows \in Nat /\ MaxWindows >= 1 /\ max_closed \in Nat
  /\ Files \cap Tools = {} /\ Untitled \notin Files \cup Tools
  /\ \A t \in Files \cup {"info", Untitled, "stderr"} : t \in Title /\ t \notin Tools
  /\ Files \subseteq Title /\ Tools \subseteq Title
  /\ "msg" \in Tools /\ "project" \in Tools
BY DeskAssumption DEF Title, Untitled

\* The types of the parts of a state.
LEMMA StateTypes ==
  ASSUME NEW s \in DeskState
  PROVE  /\ s.windows \in Seq(WindowRec) /\ Len(s.windows) \in Nat
         /\ DOMAIN s.windows = 1..Len(s.windows)
         /\ \A i \in DOMAIN s.windows : s.windows[i] \in WindowRec
         /\ s.closed \in Seq(ClosedRec) /\ Len(s.closed) \in Nat
         /\ DOMAIN s.closed = 1..Len(s.closed)
         /\ \A i \in DOMAIN s.closed : s.closed[i] \in ClosedRec
         /\ s.numbers \in SUBSET NumberSet /\ s.current \in Ids \cup {None, Clip}
         /\ s.pointer \in [Tools -> Ids \cup {None}]
<1>1. /\ s.windows \in Seq(WindowRec) /\ s.closed \in Seq(ClosedRec)
      /\ s.numbers \in SUBSET NumberSet /\ s.current \in Ids \cup {None, Clip}
      /\ s.pointer \in [Tools -> Ids \cup {None}]
  BY DEF DeskState
<1>2. /\ Len(s.windows) \in Nat /\ DOMAIN s.windows = 1..Len(s.windows)
      /\ Len(s.closed) \in Nat /\ DOMAIN s.closed = 1..Len(s.closed)
  BY <1>1, LenProperties
<1>3. \A i \in DOMAIN s.windows : s.windows[i] \in WindowRec
  BY <1>1, <1>2, ElementOfSeq
<1>4. \A i \in DOMAIN s.closed : s.closed[i] \in ClosedRec
  BY <1>1, <1>2, ElementOfSeq
<1> QED BY <1>1, <1>2, <1>3, <1>4

\* The elements of Append.
LEMMA AppendIs ==
  ASSUME NEW S, NEW q \in Seq(S), NEW x \in S
  PROVE  /\ Append(q, x) \in Seq(S) /\ Len(q) \in Nat /\ Len(Append(q, x)) = Len(q) + 1
         /\ DOMAIN q = 1..Len(q) /\ DOMAIN Append(q, x) = 1..(Len(q) + 1)
         /\ \A i \in 1..Len(q) : Append(q, x)[i] = q[i]
         /\ Append(q, x)[Len(q) + 1] = x
BY AppendProperties, LenProperties

\* There are no more values of a field than windows.
LEMMA FewerThanWindows ==
  ASSUME NEW n \in Nat, NEW f \in [1..n -> Nat]
  PROVE  /\ IsFiniteSet({f[i] : i \in 1..n})
         /\ Cardinality({f[i] : i \in 1..n}) \in Nat
         /\ Cardinality({f[i] : i \in 1..n}) <= n
<1> DEFINE T == {f[i] : i \in 1..n}
<1>1. f \in Surjection(1..n, T)
  BY DEF Surjection
<1>2. IsFiniteSet(1..n) /\ Cardinality(1..n) = n
  <2>1. 1 \in Int /\ n \in Int
    OBVIOUS
  <2>2. Cardinality(1..n) = IF 1 > n THEN 0 ELSE n - 1 + 1
    BY <2>1, FS_Interval
  <2> QED BY <2>1, <2>2, FS_Interval
<1> HIDE DEF T
<1>3. IsFiniteSet(T) /\ Cardinality(T) <= n
  BY <1>1, <1>2, FS_Surjection
<1> QED BY <1>3, FS_CardinalityType DEF T

\* So a window that is added finds a place and a number.
LEMMA RoomIsFound ==
  ASSUME NEW s \in DeskState, Len(s.windows) < MaxWindows, NumbersLoose(s)
  PROVE  /\ Free(s) \in Ids /\ Free(s) \notin InList(s)
         /\ Min(NumberSet \ s.numbers) \in NumberSet \ s.numbers
<1> DEFINE n == Len(s.windows)
           ids == [i \in 1..n |-> s.windows[i].id]
           nums == [i \in 1..n |-> s.windows[i].number]
           I == {ids[i] : i \in 1..n}
           N == {nums[i] : i \in 1..n}
<1>1. n \in Nat /\ DOMAIN s.windows = 1..n /\ \A i \in 1..n : s.windows[i] \in WindowRec
  BY StateTypes
<1>2. ids \in [1..n -> Nat] /\ nums \in [1..n -> Nat] /\ MaxWindows \in Nat
  BY <1>1, TitleFacts DEF WindowRec, Ids, NumberSet
<1>3. InList(s) = I /\ NumbersOf(s) = N
  BY <1>1 DEF InList, NumbersOf
<1>4. n < MaxWindows
  OBVIOUS
<1> HIDE DEF n, ids, nums
<1>5. /\ IsFiniteSet(I) /\ Cardinality(I) \in Nat /\ Cardinality(I) <= n
      /\ IsFiniteSet(N) /\ Cardinality(N) \in Nat /\ Cardinality(N) <= n
  BY <1>1, <1>2, FewerThanWindows
<1> HIDE DEF I, N
<1>6. Free(s) \in Ids /\ Free(s) \notin InList(s)
  <2>1. Cardinality(Ids) = MaxWindows
    <3>1. Cardinality(1..MaxWindows) = IF 1 > MaxWindows THEN 0 ELSE MaxWindows - 1 + 1
      BY <1>2, FS_Interval
    <3> QED BY <1>2, <3>1 DEF Ids
  <2>2. ~(Ids \subseteq I)
    BY <1>1, <1>2, <1>4, <1>5, <2>1, FS_Subset
  <2>3. Ids \ I \in SUBSET Nat /\ Ids \ I # {}
    BY <2>2 DEF Ids
  <2>4. Min(Ids \ I) \in Ids \ I
    BY <2>3, MinIs
  <2> QED BY <1>3, <2>4 DEF Free
<1>7. Min(NumberSet \ s.numbers) \in NumberSet \ s.numbers
  <2>1. PICK x \in NumberSet : s.numbers \subseteq N \cup {x}
    BY <1>3 DEF NumbersLoose
  <2>2. IsFiniteSet(N \cup {x}) /\ Cardinality(N \cup {x}) \in Nat /\ Cardinality(N \cup {x}) <= n + 1
    <3>1. IsFiniteSet(N \cup {x}) /\ Cardinality(N \cup {x}) = IF x \in N THEN Cardinality(N) ELSE Cardinality(N) + 1
      BY <1>5, FS_AddElement
    <3> QED BY <1>1, <1>5, <3>1
  <2>3. Cardinality(NumberSet) = MaxWindows + 1
    <3> DEFINE m == MaxWindows + 1
    <3>1. m \in Int /\ m >= 1
      BY <1>2
    <3> HIDE DEF m
    <3>2. Cardinality(1..m) = IF 1 > m THEN 0 ELSE m - 1 + 1
      BY <3>1, FS_Interval
    <3> QED BY <3>1, <3>2 DEF NumberSet, m
  <2>4. ~(NumberSet \subseteq N \cup {x})
    <3>1. ASSUME NumberSet \subseteq N \cup {x} PROVE FALSE
      <4>1. Cardinality(NumberSet) <= Cardinality(N \cup {x})
        BY <2>2, <3>1, FS_Subset
      <4> QED BY <1>1, <1>2, <1>4, <2>2, <2>3, <4>1
    <3> QED BY <3>1
  <2>5. NumberSet \ s.numbers \in SUBSET Nat /\ NumberSet \ s.numbers # {}
    BY <2>1, <2>4 DEF NumberSet
  <2> QED BY <2>5, MinIs
<1> QED BY <1>6, <1>7

\* AddWindow, field by field.
Added(s, t, u, rec) ==
  /\ rec.id \notin InList(s) /\ rec.title = t /\ rec.number \notin s.numbers
  /\ rec.remember => t \notin Tools
  /\ u.windows = Append(s.windows, rec) /\ u.closed = s.closed
  /\ u.numbers = s.numbers \cup {rec.number} /\ u.current = rec.id
  /\ u.pointer = IF t \in Tools THEN [s.pointer EXCEPT ![t] = rec.id] ELSE s.pointer
  /\ u \in DeskState
LEMMA AddWindowIs ==
  ASSUME NEW s \in DeskState, Len(s.windows) < MaxWindows, NumbersLoose(s),
         NEW t \in Title, NEW removable \in BOOLEAN, NEW old \in 0..(MaxWindows + 1),
         NEW u, u = AddWindow(s, t, removable, old)
  PROVE  \E rec \in WindowRec : Added(s, t, u, rec)
<1> DEFINE number == IF old # 0 /\ old \notin s.numbers THEN old
                     ELSE Min((1..(MaxWindows + 1)) \ s.numbers)
           rec == [id |-> Free(s), title |-> t, number |-> number,
                   remember |-> t \in Files \cup {"info"} \cup {Untitled},
                   removable |-> removable]
<1>1. /\ Free(s) \in Ids /\ Free(s) \notin InList(s)
      /\ Min((1..(MaxWindows + 1)) \ s.numbers) \in NumberSet \ s.numbers
  BY RoomIsFound DEF NumberSet
<1>2. number \in NumberSet /\ number \notin s.numbers
  <2>1. CASE old # 0 /\ old \notin s.numbers
    BY <2>1, TitleFacts DEF NumberSet
  <2>2. CASE ~(old # 0 /\ old \notin s.numbers)
    BY <1>1, <2>2
  <2> QED BY <2>1, <2>2
<1>3. u = [s EXCEPT !.windows = Append(@, rec), !.numbers = @ \cup {number},
                    !.pointer = IF t \in Tools THEN [@ EXCEPT ![t] = rec.id] ELSE @,
                    !.current = rec.id]
  BY DEF AddWindow
<1> HIDE DEF number
<1>4. /\ rec \in WindowRec /\ rec.id = Free(s) /\ rec.title = t /\ rec.number = number
      /\ rec.id \in Ids
  BY <1>1, <1>2 DEF WindowRec
<1>5. rec.remember => t \notin Tools
  BY TitleFacts
<1> HIDE DEF rec
<1>6. /\ u.windows = Append(s.windows, rec) /\ u.closed = s.closed
      /\ u.numbers = s.numbers \cup {number} /\ u.current = rec.id
      /\ u.pointer = IF t \in Tools THEN [s.pointer EXCEPT ![t] = rec.id] ELSE s.pointer
      /\ u = [windows |-> u.windows, closed |-> u.closed, numbers |-> u.numbers,
              current |-> u.current, pointer |-> u.pointer]
  BY <1>3 DEF DeskState
<1>7. u.windows \in Seq(WindowRec)
  BY <1>4, <1>6, StateTypes, AppendIs
<1>8. u.pointer \in [Tools -> Ids \cup {None}]
  BY <1>4, <1>6, StateTypes
<1>9. u.numbers \in SUBSET NumberSet /\ u.current \in Ids \cup {None, Clip} /\ u.closed \in Seq(ClosedRec)
  BY <1>2, <1>4, <1>6, StateTypes
<1>10. u \in DeskState
  BY <1>6, <1>7, <1>8, <1>9 DEF DeskState
<1>11. Added(s, t, u, rec)
  BY <1>1, <1>2, <1>4, <1>5, <1>6, <1>10 DEF Added
<1> QED BY <1>4, <1>11

\* A state that differs in the current view only.
LEMMA SelectIs ==
  ASSUME NEW s \in DeskState, NEW id \in Ids \cup {None, Clip}, NEW u, u = Select(s, id)
  PROVE  /\ u \in DeskState /\ u.windows = s.windows /\ u.closed = s.closed
         /\ u.numbers = s.numbers /\ u.pointer = s.pointer /\ u.current = id
BY DEF Select, DeskState

\* Nothing in DeskOK is about the current view.
LEMMA SameListsOK ==
  ASSUME NEW s \in DeskState, NEW u \in DeskState, NEW o, DeskOK(s, o),
         u.windows = s.windows, u.closed = s.closed, u.numbers = s.numbers,
         u.pointer = s.pointer
  PROVE  DeskOK(u, o) /\ InList(u) = InList(s)
BY DEF DeskOK, ListOK, IdsDiffer, PointersHold, ToolsForgotten, NumbersInv, NumbersExact,
       NumbersLoose, NumbersOf, FilesInv, ShownOnce, ClosedOnce, Apart, FewClosed, InList

\* Selecting a window of the list, the clipboard or nothing keeps the lists.
LEMMA SelectOK ==
  ASSUME NEW s, NEW o, DeskOK(s, o), NEW id \in InList(s) \cup {None, Clip},
         NEW u, u = Select(s, id)
  PROVE  DeskOK(u, o) /\ CurrentOK(u)
<1>1. s \in DeskState
  BY DEF DeskOK
<1>2. InList(s) \subseteq Ids
  BY <1>1, StateTypes DEF InList, WindowRec
<1>3. /\ u \in DeskState /\ u.windows = s.windows /\ u.closed = s.closed
      /\ u.numbers = s.numbers /\ u.pointer = s.pointer /\ u.current = id
  BY <1>1, <1>2, SelectIs
<1>4. DeskOK(u, o) /\ InList(u) = InList(s)
  BY <1>1, <1>3, SameListsOK
<1> QED BY <1>3, <1>4 DEF CurrentOK

\* Refocused chooses another view when the current one is gone.
LEMMA RefocusedOK ==
  ASSUME NEW s, NEW o, DeskOK(s, o), NEW u \in Refocused(s)
  PROVE  DeskOK(u, o) /\ CurrentOK(u)
<1>1. CASE s.current \in InList(s) \cup {Clip}
  BY <1>1 DEF Refocused, CurrentOK
<1>2. CASE s.current \notin InList(s) \cup {Clip}
  <2>1. PICK id \in InList(s) \cup {None, Clip} : u = [s EXCEPT !.current = id]
    BY <1>2 DEF Refocused
  <2>2. u = Select(s, id)
    BY <2>1 DEF Select
  <2> QED BY <2>2, SelectOK
<1> QED BY <1>1, <1>2

\* A window is added: it is the only one of its identity and of its number; the
\* caller sees to it that its file or its tool has none yet.
CanAdd(s, o, t) ==
  /\ DeskOK(s, o) /\ Len(s.windows) < MaxWindows /\ t \in Title
  /\ t \in Tools => s.pointer[t] = None
  /\ "same_name" \in o \/ t \notin Files \/ (NotShown(s, t) /\ NotClosed(s, t))
Inserted(s, o, t, u) ==
  /\ DeskOK(u, o) /\ CurrentOK(u) /\ u.closed = s.closed
  /\ Len(u.windows) = Len(s.windows) + 1
  /\ \A x : x # t /\ NotShown(s, x) => NotShown(u, x)
  /\ \A x \in Tools : x # t => u.pointer[x] = s.pointer[x]
  /\ t \in Tools => u.pointer[t] \in InList(u)
  /\ InList(s) \subseteq InList(u)
LEMMA AddedOK ==
  ASSUME NEW s, NEW o, NEW t, CanAdd(s, o, t), NEW u, NEW rec \in WindowRec, Added(s, t, u, rec)
  PROVE  Inserted(s, o, t, u)
<1> USE DEF CanAdd
<1>1. s \in DeskState /\ NumbersLoose(s)
  BY DEF DeskOK, NumbersInv
<1>2. /\ rec.id \notin InList(s) /\ rec.title = t /\ rec.number \notin s.numbers
      /\ rec.remember => t \notin Tools
      /\ u.windows = Append(s.windows, rec) /\ u.closed = s.closed
      /\ u.numbers = s.numbers \cup {rec.number} /\ u.current = rec.id
      /\ u.pointer = IF t \in Tools THEN [s.pointer EXCEPT ![t] = rec.id] ELSE s.pointer
      /\ u \in DeskState
  BY DEF Added
<1> DEFINE n == Len(s.windows)
<1>3. /\ n \in Nat /\ DOMAIN s.windows = 1..n /\ DOMAIN u.windows = 1..(n + 1)
      /\ Len(u.windows) = n + 1
      /\ \A i \in 1..n : u.windows[i] = s.windows[i]
      /\ u.windows[n + 1] = rec
  <2>1. s.windows \in Seq(WindowRec)
    BY <1>1, StateTypes
  <2>2. /\ Len(s.windows) \in Nat /\ DOMAIN s.windows = 1..n
        /\ DOMAIN Append(s.windows, rec) = 1..(n + 1) /\ Len(Append(s.windows, rec)) = n + 1
        /\ \A i \in 1..n : Append(s.windows, rec)[i] = s.windows[i]
        /\ Append(s.windows, rec)[n + 1] = rec
    BY <2>1, AppendIs
  <2> QED BY <1>2, <2>2
<1> HIDE DEF n
<1>4. \A i \in 1..(n + 1) : i \in 1..n \/ i = n + 1
  BY <1>3
<1>5. n + 1 \in 1..(n + 1) /\ 1..n \subseteq 1..(n + 1) /\ n + 1 \notin 1..n
  BY <1>3
<1>6. \A i \in 1..n : s.windows[i].id # rec.id /\ s.windows[i].id \in InList(s)
  BY <1>2, <1>3 DEF InList
<1>7. IdsDiffer(u)
  <2>1. IdsDiffer(s)
    BY DEF DeskOK, ListOK
  <2>2. ASSUME NEW i \in 1..(n + 1), NEW j \in 1..(n + 1), u.windows[i].id = u.windows[j].id
        PROVE  i = j
    <3>1. CASE i = n + 1 \/ j = n + 1
      BY <1>3, <1>4, <1>6, <2>2, <3>1
    <3>2. CASE i \in 1..n /\ j \in 1..n
      BY <1>3, <2>1, <2>2, <3>2 DEF IdsDiffer
    <3> QED BY <1>4, <3>1, <3>2
  <2> QED BY <1>3, <2>2 DEF IdsDiffer
<1>8. PointersHold(s) /\ ToolsForgotten(s)
  BY DEF DeskOK, ListOK
<1>9. s.pointer \in [Tools -> Ids \cup {None}] /\ rec.id \in Ids /\ rec.id # None
  BY <1>1, StateTypes DEF WindowRec, Ids, None
<1>10. ASSUME NEW x \in Tools, u.pointer[x] # None
       PROVE  \E i \in 1..(n + 1) : u.windows[i].id = u.pointer[x] /\ u.windows[i].title = x
  <2>1. CASE x = t
    BY <1>2, <1>3, <1>5, <1>9, <2>1
  <2>2. CASE x # t
    <3>1. u.pointer[x] = s.pointer[x]
      BY <1>2, <1>9, <2>2
    <3>2. \E i \in 1..n : s.windows[i].id = s.pointer[x] /\ s.windows[i].title = x
      BY <1>3, <1>8, <1>10, <3>1 DEF PointersHold
    <3> QED BY <1>3, <1>5, <3>1, <3>2
  <2> QED BY <2>1, <2>2
<1>11. ASSUME NEW i \in 1..(n + 1), u.windows[i].title \in Tools
       PROVE  u.pointer[u.windows[i].title] = u.windows[i].id
  <2>1. CASE i = n + 1
    BY <1>2, <1>3, <1>9, <1>11, <2>1
  <2>2. CASE i \in 1..n
    <3>1. u.windows[i] = s.windows[i] /\ s.windows[i].id # None
      <4>1. s.windows[i] \in WindowRec
        BY <1>1, <1>3, <2>2, StateTypes
      <4> QED BY <1>3, <2>2, <4>1 DEF WindowRec, Ids, None
    <3>2. s.pointer[s.windows[i].title] = s.windows[i].id
      BY <1>3, <1>8, <1>11, <2>2, <3>1 DEF PointersHold
    <3>3. s.windows[i].title # t
      BY <1>11, <3>1, <3>2
    <3> QED BY <1>2, <1>9, <1>11, <3>1, <3>2, <3>3
  <2> QED BY <1>4, <2>1, <2>2
<1>12. PointersHold(u)
  BY <1>3, <1>10, <1>11 DEF PointersHold
<1>13. ToolsForgotten(u)
  BY <1>2, <1>3, <1>4, <1>8 DEF ToolsForgotten
<1>14. NumbersOf(u) = NumbersOf(s) \cup {rec.number}
  BY <1>3, <1>4, <1>5 DEF NumbersOf
<1>15. NumbersInv(u, o)
  <2>1. NumbersInv(s, o)
    BY DEF DeskOK
  <2>2. NumbersLoose(u)
    BY <1>1, <1>2, <1>14 DEF NumbersLoose
  <2>3. ASSUME NumbersExact(s) PROVE NumbersExact(u)
    <3>1. u.numbers = NumbersOf(u)
      BY <1>2, <1>14, <2>3 DEF NumbersExact
    <3>2. \A i \in 1..n : s.windows[i].number \in s.numbers
      BY <1>3, <2>3 DEF NumbersExact, NumbersOf
    <3>3. \A i, j \in 1..(n + 1) : u.windows[i].number = u.windows[j].number => i = j
      <4>1. \A i, j \in 1..n : s.windows[i].number = s.windows[j].number => i = j
        BY <1>3, <2>3 DEF NumbersExact
      <4>2. \A i \in 1..n : s.windows[i].number # rec.number
        BY <1>2, <3>2
      <4> QED BY ONLY <1>3, <1>4, <4>1, <4>2
    <3> QED BY <1>3, <3>1, <3>3 DEF NumbersExact
  <2> QED BY <2>1, <2>2, <2>3 DEF NumbersInv
<1>16. FilesInv(u, o)
  <2>1. SUFFICES ASSUME "same_name" \notin o PROVE ShownOnce(u) /\ ClosedOnce(u) /\ Apart(u)
    BY DEF FilesInv
  <2>2. ShownOnce(s) /\ ClosedOnce(s) /\ Apart(s)
    BY <2>1 DEF DeskOK, FilesInv
  <2>3. t \in Files => NotShown(s, t) /\ NotClosed(s, t)
    BY <2>1
  <2>4. ShownOnce(u)
    BY <1>2, <1>3, <1>4, <2>2, <2>3 DEF ShownOnce, NotShown
  <2>5. ClosedOnce(u)
    BY <1>2, <2>2 DEF ClosedOnce
  <2>6. Apart(u)
    BY <1>2, <1>3, <1>4, <2>2, <2>3 DEF Apart, NotClosed
  <2> QED BY <2>4, <2>5, <2>6
<1>17. FewClosed(u)
  BY <1>2 DEF DeskOK, FewClosed
<1>18. CurrentOK(u) /\ rec.id \in InList(u)
  BY <1>2, <1>3, <1>5 DEF CurrentOK, InList
<1>19. \A x : x # t /\ NotShown(s, x) => NotShown(u, x)
  BY <1>2, <1>3, <1>4 DEF NotShown
<1>20. \A x \in Tools : x # t => u.pointer[x] = s.pointer[x]
  BY <1>2, <1>9
<1>21. t \in Tools => u.pointer[t] \in InList(u)
  BY <1>2, <1>9, <1>18
<1>22. InList(s) \subseteq InList(u)
  BY <1>3, <1>5 DEF InList
<1> QED
  BY <1>2, <1>3, <1>7, <1>12, <1>13, <1>15, <1>16, <1>17, <1>18, <1>19, <1>20, <1>21, <1>22
  DEF DeskOK, ListOK, n, Inserted

\* AddWindow (windowli.cc:75) inserts, whatever number is asked for.
LEMMA AddWindowOK ==
  ASSUME NEW s, NEW o, NEW t, CanAdd(s, o, t), NEW removable \in BOOLEAN,
         NEW old \in 0..(MaxWindows + 1)
  PROVE  Inserted(s, o, t, AddWindow(s, t, removable, old))
<1>1. s \in DeskState /\ NumbersLoose(s) /\ Len(s.windows) < MaxWindows /\ t \in Title
  BY DEF CanAdd, DeskOK, NumbersInv
<1>2. PICK rec \in WindowRec : Added(s, t, AddWindow(s, t, removable, old), rec)
  BY <1>1, AddWindowIs
<1> QED BY <1>2, AddedOK

\* The calls: a window that is removable gets any free number,
LEMMA AddNewOK ==
  ASSUME NEW s, NEW o, NEW t, CanAdd(s, o, t)
  PROVE  Inserted(s, o, t, AddWindow(s, t, TRUE, 0))
<1>1. PICK yes \in BOOLEAN : yes = TRUE
  OBVIOUS
<1>2. 0 \in 0..(MaxWindows + 1)
  BY TitleFacts
<1>3. Inserted(s, o, t, AddWindow(s, t, yes, 0))
  BY <1>2, AddWindowOK
<1> QED BY <1>1, <1>3

\* the help window is not removable,
LEMMA AddHelpOK ==
  ASSUME NEW s, NEW o, NEW t, CanAdd(s, o, t)
  PROVE  Inserted(s, o, t, AddWindow(s, t, FALSE, 0))
<1>1. PICK no \in BOOLEAN : no = FALSE
  OBVIOUS
<1>2. 0 \in 0..(MaxWindows + 1)
  BY TitleFacts
<1>3. Inserted(s, o, t, AddWindow(s, t, no, 0))
  BY <1>2, AddWindowOK
<1> QED BY <1>1, <1>3

\* and a window of a desktop file asks for its old number.
LEMMA AddOldOK ==
  ASSUME NEW s, NEW o, NEW t, CanAdd(s, o, t), NEW old \in 0..(MaxWindows + 1)
  PROVE  Inserted(s, o, t, AddWindow(s, t, TRUE, old))
<1>1. PICK yes \in BOOLEAN : yes = TRUE
  OBVIOUS
<1>2. Inserted(s, o, t, AddWindow(s, t, yes, old))
  BY AddWindowOK
<1> QED BY <1>1, <1>2

\* Where the window of an identity is, and what IdOf finds.
LEMMA IndexOfIs ==
  ASSUME NEW s \in DeskState, NEW id \in InList(s)
  PROVE  /\ IndexOf(s, id) \in 1..Len(s.windows) /\ s.windows[IndexOf(s, id)].id = id
         /\ Win(s, id) = s.windows[IndexOf(s, id)] /\ Win(s, id) \in WindowRec
<1>1. DOMAIN s.windows = 1..Len(s.windows)
  BY StateTypes
<1>2. \E i \in DOMAIN s.windows : s.windows[i].id = id
  BY DEF InList
<1>3. IndexOf(s, id) \in DOMAIN s.windows /\ s.windows[IndexOf(s, id)].id = id
  BY <1>2 DEF IndexOf
<1> QED BY <1>1, <1>3, StateTypes DEF Win

\* IdOf finds a window of the title if there is one.
LEMMA IdOfIs ==
  ASSUME NEW s \in DeskState, NEW t
  PROVE  /\ IdOf(s, t) = None <=> NotShown(s, t)
         /\ IdOf(s, t) \in InList(s) \cup {None}
         /\ IdOf(s, t) # None =>
              \E i \in DOMAIN s.windows : s.windows[i].title = t /\ s.windows[i].id = IdOf(s, t)
<1> DEFINE is == {i \in DOMAIN s.windows : s.windows[i].title = t}
<1>1. DOMAIN s.windows = 1..Len(s.windows) /\ Len(s.windows) \in Nat
  BY StateTypes
<1>2. \A i \in DOMAIN s.windows : s.windows[i].id \in InList(s) /\ s.windows[i].id # None
  BY StateTypes DEF InList, WindowRec, Ids, None
<1>3. is \in SUBSET Nat
  BY <1>1
<1>4. IdOf(s, t) = IF is = {} THEN None ELSE s.windows[Min(is)].id
  BY DEF IdOf
<1>5. CASE is = {}
  BY <1>4, <1>5 DEF NotShown
<1>6. CASE is # {}
  <2>1. Min(is) \in is
    <3> HIDE DEF is
    <3> QED BY <1>3, <1>6, MinIs
  <2>2. Min(is) \in DOMAIN s.windows /\ s.windows[Min(is)].title = t
    BY <2>1
  <2>3. IdOf(s, t) = s.windows[Min(is)].id
    BY <1>4, <1>6
  <2> HIDE DEF is
  <2>4. ~NotShown(s, t)
    BY <2>2 DEF NotShown
  <2> QED BY <1>2, <2>2, <2>3, <2>4
<1> QED BY <1>5, <1>6

\* A closed window is remembered (windowli.cc:212): what is dropped for it does not
\* come into conflict with what stays.
LEMMA AddClosedOK ==
  ASSUME NEW s, NEW o, DeskOK(s, o), NEW x \in WindowRec, x.title \notin Tools,
         "same_name" \in o \/ x.title \notin Files
           \/ (NotShown(s, x.title) /\ NotClosed(s, x.title)),
         NEW u, u = AddClosedWindow(s, x)
  PROVE  DeskOK(u, o) /\ u.windows = s.windows /\ u.current = s.current /\ u.pointer = s.pointer
         /\ u.numbers = s.numbers
<1>1. CASE x.title = Untitled
  BY <1>1 DEF AddClosedWindow
<1>2. CASE x.title # Untitled
  <2> DEFINE c == [title |-> x.title, removable |-> x.removable]
             all == <<c>> \o s.closed
             kept == Trimmed(all)
             n == Len(s.closed)
  <2>1. s \in DeskState
    BY DEF DeskOK
  <2>2. u = [s EXCEPT !.closed = kept]
    BY <1>2 DEF AddClosedWindow
  <2>3. c \in ClosedRec /\ c.title = x.title
    BY DEF WindowRec, ClosedRec
  <2> HIDE DEF c
  <2>4. /\ s.closed \in Seq(ClosedRec) /\ n \in Nat /\ DOMAIN s.closed = 1..n
    BY <2>1, StateTypes
  <2>5. /\ all \in Seq(ClosedRec) /\ Len(all) = n + 1 /\ all[1] = c
        /\ \A k \in 1..n : all[k + 1] = s.closed[k]
    <3>1. <<c>> \in Seq(ClosedRec) /\ Len(<<c>>) = 1 /\ <<c>>[1] = c
      BY <2>3
    <3>2. /\ all \in Seq(ClosedRec) /\ Len(all) = Len(<<c>>) + Len(s.closed)
          /\ \A k \in 1..(Len(<<c>>) + Len(s.closed)) :
               all[k] = IF k <= Len(<<c>>) THEN <<c>>[k] ELSE s.closed[k - Len(<<c>>)]
      BY <2>4, <3>1, ConcatProperties
    <3> HIDE DEF all
    <3> QED BY <2>4, <3>1, <3>2
  <2> HIDE DEF all, n
  <2>6. \A y \in ClosedRec : y.removable \in BOOLEAN
    BY DEF ClosedRec
  <2>7. PICK at \in [1..Len(kept) -> 1..Len(all)] :
          /\ \A k \in 1..Len(kept) : kept[k] = all[at[k]]
          /\ \A k, l \in 1..Len(kept) : at[k] = at[l] => k = l
    BY <2>5, <2>6, TrimmedIs
  <2>8. /\ kept \in Seq(ClosedRec)
        /\ Len(kept) <= max_closed \/ \A k \in 1..Len(kept) : ~kept[k].removable
    BY <2>5, <2>6, TrimmedIs
  <2> HIDE DEF kept
  <2>9. /\ u.closed = kept /\ u.windows = s.windows /\ u.current = s.current
        /\ u.pointer = s.pointer /\ u.numbers = s.numbers /\ u \in DeskState
    BY <2>1, <2>2, <2>8 DEF DeskState
  <2>10. DOMAIN u.closed = 1..Len(kept)
    BY <2>8, <2>9, LenProperties
  <2>11. \A k \in 1..Len(kept) : at[k] = 1 \/ at[k] - 1 \in 1..n
    BY <2>4, <2>5, <2>7
  <2>17. \A k \in 1..Len(kept) : at[k] \in Nat /\ (at[k] - 1) + 1 = at[k]
    BY <2>5, <2>7, <2>4
  <2>12. \A k \in 1..Len(kept) :
           \/ at[k] = 1 /\ kept[k] = c
           \/ at[k] - 1 \in 1..n /\ kept[k] = s.closed[at[k] - 1]
    BY <2>5, <2>7, <2>11, <2>17
  <2>13. FewClosed(u)
    BY <2>8, <2>9, <2>10 DEF FewClosed
  <2>14. ListOK(u)
    <3>1. ListOK(s)
      BY DEF DeskOK
    <3>2. \A k \in 1..Len(kept) : kept[k].title \notin Tools
      BY <2>3, <2>4, <2>12, <3>1 DEF ListOK, ToolsForgotten
    <3> QED BY <2>9, <2>10, <3>1, <3>2 DEF ListOK, IdsDiffer, PointersHold, ToolsForgotten
  <2>15. NumbersInv(u, o)
    BY <2>9 DEF DeskOK, NumbersInv, NumbersExact, NumbersLoose, NumbersOf
  <2>16. FilesInv(u, o)
    <3>1. SUFFICES ASSUME "same_name" \notin o PROVE ShownOnce(u) /\ ClosedOnce(u) /\ Apart(u)
      BY DEF FilesInv
    <3>2. ShownOnce(s) /\ ClosedOnce(s) /\ Apart(s)
      BY <3>1 DEF DeskOK, FilesInv
    <3>3. c.title \in Files => NotShown(s, c.title) /\ NotClosed(s, c.title)
      BY <2>3, <3>1
    <3>4. ShownOnce(u)
      BY <2>9, <3>2 DEF ShownOnce
    <3>5. \A i \in 1..n : c.title \in Files => s.closed[i].title # c.title
      BY <2>4, <3>3 DEF NotClosed
    <3>6. ASSUME NEW k \in 1..Len(kept), NEW l \in 1..Len(kept),
                 kept[k].title \in Files, kept[k].title = kept[l].title
          PROVE  k = l
      <4>1. at[k] = at[l]
        <5>1. CASE at[k] = 1 \/ at[l] = 1
          <6>1. CASE at[k] = 1 /\ at[l] = 1
            BY <6>1
          <6>2. CASE at[k] = 1 /\ at[l] # 1
            BY <2>12, <3>5, <3>6, <6>2
          <6>3. CASE at[k] # 1 /\ at[l] = 1
            BY <2>12, <3>5, <3>6, <6>3
          <6> QED BY <5>1, <6>1, <6>2, <6>3
        <5>2. CASE at[k] # 1 /\ at[l] # 1
          <6>1. /\ at[k] - 1 \in 1..n /\ kept[k] = s.closed[at[k] - 1]
                /\ at[l] - 1 \in 1..n /\ kept[l] = s.closed[at[l] - 1]
            BY <2>12, <5>2
          <6>2. at[k] - 1 = at[l] - 1
            BY <2>4, <3>2, <3>6, <6>1 DEF ClosedOnce
          <6>3. at[k] \in Nat /\ at[l] \in Nat
            BY ONLY <2>17, k \in 1..Len(kept), l \in 1..Len(kept)
          <6> QED BY <6>2, <6>3
        <5> QED BY <5>1, <5>2
      <4> QED BY <2>7, <4>1
    <3>7. ClosedOnce(u)
      BY <2>9, <2>10, <3>6 DEF ClosedOnce
    <3>8. Apart(u)
      <4>1. SUFFICES ASSUME NEW i \in DOMAIN s.windows, NEW k \in 1..Len(kept),
                            s.windows[i].title \in Files, s.windows[i].title = kept[k].title
                     PROVE  FALSE
        BY <2>9, <2>10 DEF Apart
      <4>2. CASE at[k] = 1 /\ kept[k] = c
        BY <3>3, <4>1, <4>2 DEF NotShown
      <4>3. CASE at[k] - 1 \in 1..n /\ kept[k] = s.closed[at[k] - 1]
        BY <2>4, <3>2, <4>1, <4>3 DEF Apart
      <4> QED BY <2>12, <4>2, <4>3
    <3> QED BY <3>4, <3>7, <3>8
  <2> QED BY <2>9, <2>13, <2>14, <2>15, <2>16 DEF DeskOK
<1> QED BY <1>1, <1>2

\* A window leaves the list of closed ones.
LEMMA RemoveClosedOK ==
  ASSUME NEW s, NEW o, DeskOK(s, o), NEW i \in 1..Len(s.closed),
         NEW u, u = RemoveClosedWindow(s, i)
  PROVE  /\ DeskOK(u, o) /\ u.windows = s.windows /\ u.current = s.current
         /\ u.pointer = s.pointer /\ u.numbers = s.numbers /\ u.closed = RemoveAt(s.closed, i)
         /\ "same_name" \in o \/ s.closed[i].title \notin Files
              \/ (NotShown(u, s.closed[i].title) /\ NotClosed(u, s.closed[i].title))
<1> DEFINE q == s.closed
           r == RemoveAt(q, i)
           n == Len(q)
<1>1. s \in DeskState
  BY DEF DeskOK
<1>2. q \in Seq(ClosedRec) /\ n \in Nat /\ DOMAIN q = 1..n /\ i \in 1..n
  BY <1>1, StateTypes
<1>3. r \in Seq(ClosedRec) /\ Len(r) = n - 1 /\ DOMAIN r = 1..(n - 1)
  BY <1>2, RemoveAtIs
<1>4. PICK at \in [1..(n - 1) -> 1..n] :
        /\ \A k \in 1..(n - 1) : at[k] # i /\ r[k] = q[at[k]]
        /\ \A k, l \in 1..(n - 1) : at[k] = at[l] => k = l
  <2>1. \E at \in [1..(n - 1) -> 1..n] : Moved(q, i, at)
    <3> HIDE DEF q
    <3> QED BY <1>2, RemoveAtPlaces
  <2> QED BY <2>1 DEF Moved
<1> HIDE DEF r
<1>5. u = [s EXCEPT !.closed = r]
  BY DEF RemoveClosedWindow, r
<1>6. /\ u.closed = r /\ u.windows = s.windows /\ u.current = s.current
      /\ u.pointer = s.pointer /\ u.numbers = s.numbers /\ u \in DeskState
  BY <1>1, <1>3, <1>5 DEF DeskState
<1> HIDE DEF n
<1>7. FewClosed(u)
  <2>1. Len(q) <= max_closed \/ \A k \in 1..n : ~q[k].removable
    BY <1>2 DEF DeskOK, FewClosed
  <2>2. CASE Len(q) <= max_closed
    BY <1>2, <1>3, <1>6, <2>2, TitleFacts DEF FewClosed, n
  <2>3. CASE \A k \in 1..n : ~q[k].removable
    BY <1>3, <1>4, <1>6, <2>3 DEF FewClosed
  <2> QED BY <2>1, <2>2, <2>3
<1>8. ListOK(u)
  <2>1. ListOK(s)
    BY DEF DeskOK
  <2>2. \A k \in 1..(n - 1) : r[k].title \notin Tools
    BY <1>2, <1>4, <2>1 DEF ListOK, ToolsForgotten
  <2> QED BY <1>3, <1>6, <2>1, <2>2 DEF ListOK, IdsDiffer, PointersHold, ToolsForgotten
<1>9. NumbersInv(u, o)
  BY <1>6 DEF DeskOK, NumbersInv, NumbersExact, NumbersLoose, NumbersOf
<1>10. ASSUME "same_name" \notin o
       PROVE  /\ ShownOnce(u) /\ ClosedOnce(u) /\ Apart(u)
              /\ q[i].title \in Files => NotShown(u, q[i].title) /\ NotClosed(u, q[i].title)
  <2>1. ShownOnce(s) /\ ClosedOnce(s) /\ Apart(s)
    BY <1>10 DEF DeskOK, FilesInv
  <2>2. ShownOnce(u)
    BY <1>6, <2>1 DEF ShownOnce
  <2>7. \A k, l \in 1..n : q[k].title \in Files /\ q[k].title = q[l].title => k = l
    BY <1>2, <2>1 DEF ClosedOnce
  <2>8. \A k \in 1..(n - 1) : at[k] \in 1..n /\ at[k] # i /\ r[k] = q[at[k]]
    BY <1>4
  <2>3. ClosedOnce(u)
    <3>1. \A k, l \in 1..(n - 1) : r[k].title \in Files /\ r[k].title = r[l].title => k = l
      BY <1>4, <2>7, <2>8
    <3> QED BY <1>3, <1>6, <3>1 DEF ClosedOnce
  <2>4. Apart(u)
    BY <1>2, <1>3, <1>4, <1>6, <2>1 DEF Apart
  <2>5. q[i].title \in Files => NotShown(u, q[i].title)
    BY <1>2, <1>6, <2>1 DEF Apart, NotShown
  <2>6. q[i].title \in Files => NotClosed(u, q[i].title)
    <3>1. ASSUME q[i].title \in Files, NEW k \in 1..(n - 1) PROVE r[k].title # q[i].title
      <4>1. at[k] \in 1..n /\ at[k] # i /\ r[k] = q[at[k]] /\ i \in 1..n
        BY <1>2, <2>8
      <4> QED BY <2>7, <3>1, <4>1
    <3> QED BY <1>3, <1>6, <3>1 DEF NotClosed
  <2> QED BY <2>2, <2>3, <2>4, <2>5, <2>6
<1>11. FilesInv(u, o)
  BY <1>10 DEF FilesInv
<1> QED BY <1>6, <1>7, <1>8, <1>9, <1>10, <1>11 DEF DeskOK, r

\* A closed window is opened (windowli.cc:306): the order, list first, makes no
\* difference.
LEMMA OpenClosedOK ==
  ASSUME NEW s, NEW o, DeskOK(s, o), NEW i \in DOMAIN s.closed, Len(s.windows) < MaxWindows,
         NEW u, u = OpenClosedWindow(s, i)
  PROVE  /\ DeskOK(u, o) /\ CurrentOK(u)
         /\ \A x \in Tools : u.pointer[x] = s.pointer[x]
<1> DEFINE t == s.closed[i].title
           r == RemoveClosedWindow(s, i)
           a == AddWindow(s, t, TRUE, 0)
           v == AddWindow(r, t, TRUE, 0)
<1>1. s \in DeskState /\ i \in 1..Len(s.closed) /\ s.closed[i] \in ClosedRec
  BY StateTypes DEF DeskOK
<1>2. /\ DeskOK(r, o) /\ r.windows = s.windows /\ r.current = s.current
      /\ r.pointer = s.pointer /\ r.numbers = s.numbers /\ r.closed = RemoveAt(s.closed, i)
      /\ "same_name" \in o \/ t \notin Files \/ (NotShown(r, t) /\ NotClosed(r, t))
  BY <1>1, RemoveClosedOK
<1>3. r \in DeskState
  BY <1>2 DEF DeskOK
<1>4. InList(r) = InList(s) /\ Free(r) = Free(s)
  BY <1>2 DEF InList, Free
<1>5. u = RemoveClosedWindow(a, i)
  BY DEF OpenClosedWindow
<1>6. t \in Title /\ t \notin Tools
  <2>1. t \notin Tools
    BY DEF DeskOK, ListOK, ToolsForgotten
  <2> QED BY <1>1, <2>1 DEF ClosedRec
<1>8. u = v
  <2> DEFINE number == Min((1..(MaxWindows + 1)) \ s.numbers)
             rec == [id |-> Free(s), title |-> t, number |-> number,
                     remember |-> t \in Files \cup {"info"} \cup {Untitled},
                     removable |-> TRUE]
             ws == Append(s.windows, rec)
  <2>1. a = [s EXCEPT !.windows = ws, !.numbers = @ \cup {number},
                      !.pointer = IF t \in Tools THEN [@ EXCEPT ![t] = rec.id] ELSE @,
                      !.current = rec.id]
    BY DEF AddWindow
  <2>2. v = [r EXCEPT !.windows = ws, !.numbers = @ \cup {number},
                      !.pointer = IF t \in Tools THEN [@ EXCEPT ![t] = rec.id] ELSE @,
                      !.current = rec.id]
    BY <1>2, <1>4, Zenon DEF AddWindow
  <2> HIDE DEF number, rec, ws
  <2>3. a = [s EXCEPT !.windows = ws, !.numbers = @ \cup {number}, !.current = rec.id]
    BY <1>1, <1>6, <2>1 DEF DeskState
  <2>4. v = [r EXCEPT !.windows = ws, !.numbers = @ \cup {number}, !.current = rec.id]
    BY <1>3, <1>6, <2>2 DEF DeskState
  <2>5. r = [s EXCEPT !.closed = RemoveAt(s.closed, i)]
    BY DEF RemoveClosedWindow
  <2>6. u = [a EXCEPT !.closed = RemoveAt(a.closed, i)]
    BY <1>5 DEF RemoveClosedWindow
  <2>7. s = [windows |-> s.windows, closed |-> s.closed, numbers |-> s.numbers,
             current |-> s.current, pointer |-> s.pointer]
    BY <1>1 DEF DeskState
  <2> HIDE DEF a, r, v
  <2>8. a = [windows |-> ws, closed |-> s.closed, numbers |-> s.numbers \cup {number},
             current |-> rec.id, pointer |-> s.pointer]
    BY <2>3, <2>7
  <2>9. u = [windows |-> ws, closed |-> RemoveAt(s.closed, i), numbers |-> s.numbers \cup {number},
             current |-> rec.id, pointer |-> s.pointer]
    BY <2>6, <2>8
  <2>10. r = [windows |-> s.windows, closed |-> RemoveAt(s.closed, i), numbers |-> s.numbers,
              current |-> s.current, pointer |-> s.pointer]
    BY <2>5, <2>7
  <2>11. v = [windows |-> ws, closed |-> RemoveAt(s.closed, i), numbers |-> s.numbers \cup {number},
              current |-> rec.id, pointer |-> s.pointer]
    BY <2>4, <2>10
  <2> QED BY <2>9, <2>11
<1> HIDE DEF r, a, t
<1>9. DeskOK(v, o) /\ CurrentOK(v) /\ \A x \in Tools : x # t => v.pointer[x] = r.pointer[x]
  <2>1. Len(r.windows) < MaxWindows
    BY <1>2
  <2>2. CanAdd(r, o, t)
    BY <1>2, <1>6, <2>1 DEF CanAdd
  <2>3. Inserted(r, o, t, v)
    BY <2>2, AddNewOK
  <2> QED BY <2>3 DEF Inserted
<1> QED BY <1>2, <1>6, <1>8, <1>9

\* IDE::openEditor and OpenEditor (ideapp.cc:85, openedit.cc:73).
LEMMA IDEopenEditorOK ==
  ASSUME NEW s, NEW o, DeskOK(s, o), NEW t \in Files \cup {Untitled}, Len(s.windows) < MaxWindows,
         "same_name" \in o \/ t \notin Files \/ NotShown(s, t),
         NEW u, u = IDEopenEditor(s, t)
  PROVE  DeskOK(u, o) /\ CurrentOK(u) /\ \A x \in Tools : u.pointer[x] = s.pointer[x]
<1> DEFINE was == IF t = Untitled THEN {} ELSE IsClosedWindow(s, t)
<1>1. s \in DeskState
  BY DEF DeskOK
<1>2. DOMAIN s.closed = 1..Len(s.closed) /\ Len(s.closed) \in Nat
  BY <1>1, StateTypes
<1>3. was \in SUBSET (DOMAIN s.closed) /\ was \in SUBSET Nat
  BY <1>2 DEF IsClosedWindow
<1>4. u = IF was = {} THEN AddWindow(s, t, TRUE, 0) ELSE OpenClosedWindow(s, Min(was))
  BY DEF IDEopenEditor
<1>5. CASE was = {}
  <2>1. t \in Files => NotClosed(s, t)
    BY <1>5, TitleFacts DEF IsClosedWindow, NotClosed
  <2>2. t \in Title /\ t \notin Tools /\ 0 \in 0..(MaxWindows + 1)
    BY TitleFacts
  <2>3. u = AddWindow(s, t, TRUE, 0)
    BY <1>4, <1>5
  <2>4. DeskOK(u, o) /\ CurrentOK(u) /\ \A x \in Tools : x # t => u.pointer[x] = s.pointer[x]
    <3>1. CanAdd(s, o, t)
      BY <2>1, <2>2 DEF CanAdd
    <3>2. Inserted(s, o, t, u)
      BY <2>3, <3>1, AddNewOK
    <3> QED BY <3>2 DEF Inserted
  <2> QED BY <2>2, <2>4
<1>6. CASE was # {}
  <2> HIDE DEF was
  <2>1. Min(was) \in DOMAIN s.closed
    BY <1>3, <1>6, MinIs
  <2>2. u = OpenClosedWindow(s, Min(was))
    BY <1>4, <1>6
  <2> QED BY <2>1, <2>2, OpenClosedOK
<1> QED BY <1>5, <1>6

\* A file by its name: shown, taken from the closed ones, or opened.
LEMMA OpenEditorOK ==
  ASSUME NEW s, NEW o, DeskOK(s, o), NEW t \in Files, Len(s.windows) < MaxWindows,
         NEW u, u = OpenEditor(s, t)
  PROVE  DeskOK(u, o) /\ CurrentOK(u)
<1>1. s \in DeskState
  BY DEF DeskOK
<1>2. CASE IdOf(s, t) # None
  <2>1. IdOf(s, t) \in InList(s) /\ u = Select(s, IdOf(s, t))
    BY <1>1, <1>2, IdOfIs DEF OpenEditor
  <2> QED BY <2>1, SelectOK
<1>3. CASE IdOf(s, t) = None
  <2>1. NotShown(s, t) /\ u = IDEopenEditor(s, t)
    BY <1>1, <1>3, IdOfIs DEF OpenEditor
  <2> QED BY <2>1, IDEopenEditorOK
<1> QED BY <1>2, <1>3

\* A window is taken out of the list (windowli.cc:249).  Its number is given back,
\* or, when the window is freed first, another one is: then the flag is set.
Unlisted(s, id, number) ==
  [s EXCEPT !.numbers = @ \ {number}, !.windows = RemoveAt(@, IndexOf(s, id)),
            !.pointer = [k \in Tools |-> IF @[k] = id THEN None ELSE @[k]]]
GivenBack(s, id, number, o, op) ==
  \/ op = o /\ Win(s, id).number \notin s.numbers \ {number}
  \/ o \subseteq op /\ "freed" \notin o /\ "freed" \in op

\* Without the window, its number and its pointer, the lists are right, and its file
\* may be remembered.
LEMMA UnlistedOK ==
  ASSUME NEW s, NEW o, DeskOK(s, o), NEW id \in InList(s), NEW number, NEW op,
         GivenBack(s, id, number, o, op), NEW t, t = Unlisted(s, id, number)
  PROVE  /\ DeskOK(t, op) /\ Len(t.windows) = Len(s.windows) - 1 /\ t.current = s.current
         /\ t.numbers = s.numbers \ {number}
         /\ LET title == Win(s, id).title
            IN "same_name" \in op \/ title \notin Files \/ (NotShown(t, title) /\ NotClosed(t, title))
<1> DEFINE ws == s.windows
           i == IndexOf(s, id)
           n == Len(ws)
           r == RemoveAt(ws, i)
           x == ws[i]
<1>1. s \in DeskState
  BY DEF DeskOK
<1>2. /\ ws \in Seq(WindowRec) /\ n \in Nat /\ DOMAIN ws = 1..n /\ i \in 1..n
      /\ x.id = id /\ Win(s, id) = x /\ x \in WindowRec
      /\ s.pointer \in [Tools -> Ids \cup {None}] /\ s.numbers \in SUBSET NumberSet
  BY <1>1, StateTypes, IndexOfIs
<1> HIDE DEF i
<1>3. r \in Seq(WindowRec) /\ Len(r) = n - 1 /\ DOMAIN r = 1..(n - 1)
  BY <1>2, RemoveAtIs
<1>4. PICK at \in [1..(n - 1) -> 1..n] : Moved(ws, i, at)
  <2> HIDE DEF ws
  <2> QED BY <1>2, RemoveAtPlaces
<1>5. \A k \in 1..(n - 1) : at[k] \in 1..n /\ at[k] # i /\ r[k] = ws[at[k]]
  BY <1>4 DEF Moved
<1>6. \A k, l \in 1..(n - 1) : at[k] = at[l] => k = l
  BY <1>4 DEF Moved
<1>7. \A j \in 1..n : j # i => \E k \in 1..(n - 1) : at[k] = j
  BY <1>4 DEF Moved
<1> HIDE DEF r
<1>8. t = [s EXCEPT !.numbers = @ \ {number}, !.windows = r,
                    !.pointer = [k \in Tools |-> IF @[k] = id THEN None ELSE @[k]]]
  BY DEF Unlisted, r, i
<1>9. /\ t.windows = r /\ t.closed = s.closed /\ t.current = s.current
      /\ t.numbers = s.numbers \ {number}
      /\ t.pointer = [k \in Tools |-> IF s.pointer[k] = id THEN None ELSE s.pointer[k]]
      /\ t = [windows |-> t.windows, closed |-> t.closed, numbers |-> t.numbers,
              current |-> t.current, pointer |-> t.pointer]
  BY <1>1, <1>8 DEF DeskState
<1>10. t \in DeskState
  <2>1. t.pointer \in [Tools -> Ids \cup {None}]
    BY <1>2, <1>9
  <2>2. t.numbers \in SUBSET NumberSet
    BY <1>2, <1>9
  <2>3. t.windows \in Seq(WindowRec) /\ t.closed \in Seq(ClosedRec) /\ t.current \in Ids \cup {None, Clip}
    BY <1>1, <1>3, <1>9, StateTypes
  <2> QED BY <1>9, <2>1, <2>2, <2>3 DEF DeskState
<1> HIDE DEF ws, n, x
<1>11. \A j, k \in 1..n : ws[j].id = ws[k].id => j = k
  BY <1>2 DEF DeskOK, ListOK, IdsDiffer, ws
<1>12. PointersHold(s) /\ ToolsForgotten(s)
  BY DEF DeskOK, ListOK
<1>13. IdsDiffer(t)
  <2>1. \A k, l \in 1..(n - 1) : r[k].id = r[l].id => k = l
    BY <1>5, <1>6, <1>11
  <2> QED BY <1>3, <1>9, <2>1 DEF IdsDiffer
<1>14. PointersHold(t)
  <2>1. ASSUME NEW y \in Tools, t.pointer[y] # None
        PROVE  \E k \in 1..(n - 1) : r[k].id = t.pointer[y] /\ r[k].title = y
    <3>1. t.pointer[y] = s.pointer[y] /\ s.pointer[y] # id
      BY <1>9, <2>1
    <3>2. PICK j \in 1..n : ws[j].id = s.pointer[y] /\ ws[j].title = y
      BY <1>2, <1>12, <2>1, <3>1 DEF PointersHold, ws
    <3>3. j # i
      BY <1>2, <3>1, <3>2 DEF x
    <3>4. PICK k \in 1..(n - 1) : at[k] = j
      BY <1>7, <3>3
    <3> QED BY <1>5, <3>1, <3>2, <3>4
  <2>2. ASSUME NEW k \in 1..(n - 1), r[k].title \in Tools
        PROVE  t.pointer[r[k].title] = r[k].id
    <3>1. at[k] \in 1..n /\ at[k] # i /\ r[k] = ws[at[k]]
      BY <1>5
    <3>2. s.pointer[r[k].title] = r[k].id
      BY <1>2, <1>12, <2>2, <3>1 DEF PointersHold, ws
    <3>3. r[k].id # id
      BY <1>2, <1>11, <3>1 DEF x
    <3> QED BY <1>9, <2>2, <3>2, <3>3
  <2> QED BY <1>3, <1>9, <2>1, <2>2 DEF PointersHold
<1>15. ToolsForgotten(t)
  <2>1. \A j \in 1..n : ws[j].remember => ws[j].title \notin Tools
    BY <1>2, <1>12 DEF ToolsForgotten, ws
  <2>2. \A k \in 1..(n - 1) : r[k].remember => r[k].title \notin Tools
    BY <1>5, <2>1
  <2> QED BY <1>3, <1>9, <1>12, <2>2 DEF ToolsForgotten
<1>16. /\ \A k \in 1..(n - 1) : r[k].number \in NumbersOf(t)
       /\ NumbersOf(s) \subseteq NumbersOf(t) \cup {x.number}
       /\ NumbersOf(t) \subseteq NumbersOf(s)
  <2>1. NumbersOf(t) = {r[k].number : k \in 1..(n - 1)}
    BY <1>3, <1>9 DEF NumbersOf
  <2>2. NumbersOf(s) = {ws[j].number : j \in 1..n}
    BY <1>2 DEF NumbersOf, ws
  <2>3. \A j \in 1..n : j = i \/ \E k \in 1..(n - 1) : r[k] = ws[j]
    BY <1>5, <1>7
  <2>4. \A k \in 1..(n - 1) : \E j \in 1..n : r[k] = ws[j]
    BY <1>5
  <2> QED BY <2>1, <2>2, <2>3, <2>4 DEF x
<1>17. NumbersInv(t, op)
  <2>1. NumbersInv(s, o) /\ x.number \in NumberSet
    BY <1>2 DEF DeskOK, WindowRec
  <2>2. CASE op = o /\ x.number \notin s.numbers \ {number}
    <3>1. NumbersLoose(t)
      <4>1. PICK y \in NumberSet : s.numbers \subseteq NumbersOf(s) \cup {y}
        BY <2>1 DEF NumbersInv, NumbersLoose
      <4>2. t.numbers \subseteq NumbersOf(t) \cup {y}
        BY <1>9, <1>16, <2>2, <4>1
      <4> QED BY <4>2 DEF NumbersLoose
    <3>2. ASSUME NumbersExact(s) PROVE NumbersExact(t)
      <4>1. \A j, k \in 1..n : ws[j].number = ws[k].number => j = k
        BY <1>2, <3>2 DEF NumbersExact, ws
      <4>2. \A k, l \in 1..(n - 1) : r[k].number = r[l].number => k = l
        BY <1>5, <1>6, <4>1
      <4>3. s.numbers = NumbersOf(s)
        BY <3>2 DEF NumbersExact
      <4>4. x.number \in s.numbers
        BY <1>2, <4>3 DEF NumbersOf, x, ws
      <4>5. x.number = number
        BY <2>2, <4>4
      <4>6. x.number \notin NumbersOf(t)
        <5>1. \A k \in 1..(n - 1) : r[k].number # x.number
          BY <1>2, <1>5, <4>1 DEF x
        <5> QED BY <1>3, <1>9, <5>1 DEF NumbersOf
      <4>7. t.numbers = NumbersOf(t)
        BY <1>9, <1>16, <4>3, <4>5, <4>6
      <4> QED BY <1>3, <1>9, <4>2, <4>7 DEF NumbersExact
    <3> QED BY <2>1, <2>2, <3>1, <3>2 DEF NumbersInv
  <2>3. CASE o \subseteq op /\ "freed" \notin o /\ "freed" \in op
    <3>1. s.numbers = NumbersOf(s)
      BY <2>1, <2>3 DEF NumbersInv, NumbersExact
    <3>2. t.numbers \subseteq NumbersOf(t) \cup {x.number}
      BY <1>9, <1>16, <3>1
    <3> QED BY <2>1, <2>3, <3>2 DEF NumbersInv, NumbersLoose
  <2> QED BY <1>2, <2>2, <2>3 DEF GivenBack
<1>18. o \subseteq op
  BY DEF GivenBack
<1>19. ASSUME "same_name" \notin op
       PROVE  /\ ShownOnce(t) /\ ClosedOnce(t) /\ Apart(t)
              /\ x.title \in Files => NotShown(t, x.title) /\ NotClosed(t, x.title)
  <2>1. ShownOnce(s) /\ ClosedOnce(s) /\ Apart(s)
    BY <1>18, <1>19 DEF DeskOK, FilesInv
  <2>2. \A j, k \in 1..n : ws[j].title \in Files /\ ws[j].title = ws[k].title => j = k
    BY <1>2, <2>1 DEF ShownOnce, ws
  <2>3. \A k, l \in 1..(n - 1) : r[k].title \in Files /\ r[k].title = r[l].title => k = l
    BY <1>5, <1>6, <2>2
  <2>4. ShownOnce(t)
    BY <1>3, <1>9, <2>3 DEF ShownOnce
  <2>5. ClosedOnce(t)
    BY <1>9, <2>1 DEF ClosedOnce
  <2>6. \A j \in 1..n, k \in DOMAIN s.closed : ws[j].title \in Files => ws[j].title # s.closed[k].title
    BY <1>2, <2>1 DEF Apart, ws
  <2>7. Apart(t)
    <3>1. \A j \in 1..(n - 1), k \in DOMAIN s.closed : r[j].title \in Files => r[j].title # s.closed[k].title
      BY <1>5, <2>6
    <3> QED BY <1>3, <1>9, <3>1 DEF Apart
  <2>8. ASSUME x.title \in Files PROVE NotShown(t, x.title) /\ NotClosed(t, x.title)
    <3>1. \A k \in 1..(n - 1) : r[k].title # x.title
      BY <1>2, <1>5, <2>2, <2>8 DEF x
    <3>2. \A k \in DOMAIN s.closed : s.closed[k].title # x.title
      BY <1>2, <2>6, <2>8 DEF x
    <3> QED BY <1>3, <1>9, <3>1, <3>2 DEF NotShown, NotClosed
  <2> QED BY <2>4, <2>5, <2>7, <2>8
<1>20. FilesInv(t, op)
  BY <1>19 DEF FilesInv
<1>21. FewClosed(t)
  BY <1>9 DEF DeskOK, FewClosed
<1> QED BY <1>2, <1>3, <1>9, <1>10, <1>13, <1>14, <1>15, <1>17, <1>19, <1>20, <1>21
        DEF DeskOK, ListOK, n, ws

\* So RemoveWindow keeps the lists, whether or not it remembers the window.
LEMMA RemoveWindowOK ==
  ASSUME NEW s, NEW o, DeskOK(s, o), NEW id \in InList(s), NEW number, NEW op,
         GivenBack(s, id, number, o, op)
  PROVE  /\ DeskOK(RemoveWindow(s, id, number, TRUE), op)
         /\ Len(RemoveWindow(s, id, number, TRUE).windows) = Len(s.windows) - 1
         /\ RemoveWindow(s, id, number, TRUE).numbers = s.numbers \ {number}
<1> DEFINE u == RemoveWindow(s, id, number, TRUE)
           t == Unlisted(s, id, number)
           x == Win(s, id)
<1>1. u = IF x.remember THEN AddClosedWindow(t, x) ELSE t
  BY DEF RemoveWindow, Unlisted
<1> HIDE DEF u, t
<1>2. /\ DeskOK(t, op) /\ Len(t.windows) = Len(s.windows) - 1 /\ t.numbers = s.numbers \ {number}
      /\ "same_name" \in op \/ x.title \notin Files \/ (NotShown(t, x.title) /\ NotClosed(t, x.title))
  BY UnlistedOK DEF t
<1>3. CASE x.remember
  <2>1. s \in DeskState /\ ToolsForgotten(s)
    BY DEF DeskOK, ListOK
  <2>2. x \in WindowRec /\ x = s.windows[IndexOf(s, id)] /\ IndexOf(s, id) \in DOMAIN s.windows
    BY <2>1, StateTypes, IndexOfIs
  <2>3. x.title \notin Tools
    BY <1>3, <2>1, <2>2 DEF ToolsForgotten
  <2> HIDE DEF x
  <2>4. u = AddClosedWindow(t, x)
    BY <1>1, <1>3
  <2>5. DeskOK(u, op) /\ u.windows = t.windows /\ u.numbers = t.numbers
    BY <1>2, <2>2, <2>3, <2>4, AddClosedOK
  <2> QED BY <1>2, <2>5 DEF u
<1>4. CASE ~x.remember
  BY <1>1, <1>2, <1>4 DEF u
<1> QED BY <1>3, <1>4

(* A desktop is loaded (ideprj.cc:502) *)

\* ClearDeskTop, field by field.
LEMMA ClearIs ==
  ASSUME NEW s \in DeskState, NEW u, u = ClearDeskTop(s)
  PROVE  /\ u.windows = <<>> /\ u.closed = <<>> /\ u.numbers = {} /\ u.current = None
         /\ u.pointer = [t \in Tools |-> None]
         /\ u = [windows |-> u.windows, closed |-> u.closed, numbers |-> u.numbers,
                 current |-> u.current, pointer |-> u.pointer]
BY DEF ClearDeskTop, DeskState

\* No windows at all is a desktop.
LEMMA ClearedOK ==
  ASSUME NEW s \in DeskState, NEW u, u = ClearDeskTop(s)
  PROVE  /\ DeskOK(u, {}) /\ CurrentOK(u) /\ u.windows = <<>> /\ u.closed = <<>>
         /\ Len(u.windows) = 0
<1>1. /\ u.windows = <<>> /\ u.closed = <<>> /\ u.numbers = {} /\ u.current = None
      /\ u.pointer = [t \in Tools |-> None]
      /\ u = [windows |-> u.windows, closed |-> u.closed, numbers |-> u.numbers,
              current |-> u.current, pointer |-> u.pointer]
  BY ClearIs
<1>2. <<>> \in Seq(WindowRec) /\ <<>> \in Seq(ClosedRec) /\ Len(<<>>) = 0
  BY EmptySeq
<1>3. DOMAIN <<>> = {}
  OBVIOUS
<1>4. u \in DeskState
  BY <1>1, <1>2 DEF DeskState
<1>5. 1 \in NumberSet
  BY TitleFacts DEF NumberSet
<1>6. ListOK(u)
  BY <1>1, <1>3 DEF ListOK, IdsDiffer, PointersHold, ToolsForgotten
<1>7. NumbersInv(u, {})
  BY <1>1, <1>3, <1>5 DEF NumbersInv, NumbersExact, NumbersLoose, NumbersOf
<1>8. FilesInv(u, {})
  BY <1>1, <1>3 DEF FilesInv, ShownOnce, ClosedOnce, Apart
<1>9. FewClosed(u)
  BY <1>1, <1>2, TitleFacts DEF FewClosed
<1> QED BY <1>1, <1>2, <1>4, <1>6, <1>7, <1>8, <1>9 DEF DeskOK, CurrentOK

\* The function that LoadDesktop goes through exists.
Put(acc, open, i) == AddWindow(acc, open[i][1], TRUE, open[i][2])
Puts(f, s, open, m) == f = [i \in 0..m |-> IF i = 0 THEN s ELSE Put(f[i - 1], open, i)]
LEMMA PutsExists ==
  ASSUME NEW s, NEW open, NEW n \in Nat
  PROVE  \E f : Puts(f, s, open, n)
<1> DEFINE Good == {m \in Nat : \E f : Puts(f, s, open, m)}
<1>1. 0 \in Good
  <2> DEFINE f == [i \in 0..0 |-> s]
  <2>1. f = [i \in 0..0 |-> IF i = 0 THEN s ELSE Put(f[i - 1], open, i)]
    OBVIOUS
  <2> HIDE DEF f
  <2>2. Puts(f, s, open, 0)
    BY <2>1 DEF Puts
  <2> QED BY <2>2
<1>2. ASSUME NEW m \in 0..(n - 1), m \in Good PROVE m + 1 \in Good
  <2>1. PICK f : Puts(f, s, open, m)
    BY <1>2
  <2> DEFINE g == [i \in 0..(m + 1) |-> IF i = m + 1 THEN Put(f[m], open, m + 1) ELSE f[i]]
  <2>2. m \in Nat /\ m + 1 \in Nat /\ \A i \in 0..(m + 1) : i = m + 1 \/ i \in 0..m
    OBVIOUS
  <2>3. \A i \in 0..m : f[i] = IF i = 0 THEN s ELSE Put(f[i - 1], open, i)
    BY <2>1 DEF Puts
  <2>4. ASSUME NEW i \in 0..(m + 1)
        PROVE  g[i] = IF i = 0 THEN s ELSE Put(g[i - 1], open, i)
    <3>1. CASE i = m + 1
      <4>1. i # 0 /\ i - 1 = m /\ m \in 0..(m + 1) /\ m # m + 1
        BY <2>2, <3>1
      <4>2. g[i - 1] = f[m] /\ g[i] = Put(f[m], open, i)
        BY <3>1, <4>1
      <4> HIDE DEF g
      <4> QED BY <4>1, <4>2
    <3>2. CASE i \in 0..m
      <4>1. i # m + 1 /\ g[i] = f[i]
        BY <2>2, <3>2
      <4>2. CASE i = 0
        BY <2>3, <3>2, <4>1, <4>2
      <4>3. CASE i # 0
        <5>1. i - 1 \in 0..(m + 1) /\ i - 1 # m + 1
          BY <2>2, <3>2, <4>3
        <5>2. g[i - 1] = f[i - 1]
          BY <5>1
        <5> HIDE DEF g
        <5> QED BY <2>3, <3>2, <4>1, <4>3, <5>2
      <4> QED BY <4>2, <4>3
    <3> QED BY <2>2, <3>1, <3>2
  <2>5. g = [i \in 0..(m + 1) |-> IF i = 0 THEN s ELSE Put(g[i - 1], open, i)]
    <3>1. \A i \in 0..(m + 1) : g[i] = IF i = 0 THEN s ELSE Put(g[i - 1], open, i)
      BY <2>4
    <3>2. g = [i \in 0..(m + 1) |-> g[i]]
      OBVIOUS
    <3> HIDE DEF g
    <3> QED BY <3>1, <3>2
  <2> HIDE DEF g
  <2>6. Puts(g, s, open, m + 1)
    BY <2>5 DEF Puts
  <2> QED BY <2>2, <2>6
<1>3. Good \in SUBSET Nat
  OBVIOUS
<1>4. 0..n \subseteq Good
  <2> HIDE DEF Good
  <2> QED BY <1>1, <1>2, <1>3, CountUp
<1> QED BY <1>4

\* The state after the first i windows are there.
PartLoaded(u, open, i) ==
  /\ DeskOK(u, {}) /\ CurrentOK(u) /\ u.closed = <<>> /\ Len(u.windows) = i
  /\ \A x : (\A j \in 1..i : open[j][1] # x) => NotShown(u, x)

\* After every window of the desktop file the lists are right (ideprj.cc:502).
LEMMA LoadedOK ==
  ASSUME NEW s, DeskOK(s, {}), CurrentOK(s), s.windows = <<>>, s.closed = <<>>,
         Len(s.windows) = 0,
         NEW open \in Desktops, Len(open) <= MaxWindows,
         NEW f, Puts(f, s, open, Len(open))
  PROVE  PartLoaded(f[Len(open)], open, Len(open))
<1> DEFINE n == Len(open)
<1>1. /\ open \in Seq(Title \X (0..(MaxWindows + 1))) /\ n \in Nat /\ DOMAIN open = 1..n
      /\ \A i, j \in 1..n : open[i][1] = open[j][1] /\ open[i][1] \in Files \cup Tools => i = j
  <2>1. open \in Seq(Title \X (0..(MaxWindows + 1)))
    BY DeskAssumption
  <2>2. n \in Nat /\ DOMAIN open = 1..n
    BY <2>1, LenProperties
  <2>3. \A i, j \in DOMAIN open :
          open[i][1] = open[j][1] /\ open[i][1] \in Files \cup Tools => i = j
    BY DeskAssumption
  <2> QED BY <2>1, <2>2, <2>3
<1>2. \A i \in 1..n : open[i][1] \in Title /\ open[i][2] \in 0..(MaxWindows + 1)
  <2>1. \A i \in 1..n : open[i] \in Title \X (0..(MaxWindows + 1))
    BY <1>1, ElementOfSeq
  <2> QED BY <2>1
<1>3. n <= MaxWindows /\ MaxWindows \in Nat
  BY TitleFacts
<1> HIDE DEF n
<1> DEFINE Good == {i \in Nat : i <= n => PartLoaded(f[i], open, i)}
<1>4. \A i \in 0..n : f[i] = IF i = 0 THEN s ELSE Put(f[i - 1], open, i)
  BY DEF Puts, n
<1>5. 0 \in Good
  <2>1. f[0] = s
    BY <1>1, <1>4
  <2>2. \A x : NotShown(s, x)
    <3>1. DOMAIN <<>> = {}
      OBVIOUS
    <3> QED BY <3>1 DEF NotShown
  <2>3. PartLoaded(s, open, 0)
    BY <2>2 DEF PartLoaded
  <2> QED BY <2>1, <2>3
<1>6. ASSUME NEW i \in 0..(n - 1), i \in Good PROVE i + 1 \in Good
  <2> DEFINE k == i + 1
             t == open[k][1]
             v == f[i]
             u == f[k]
  <2>1. i \in Nat /\ i < n /\ k \in 1..n /\ k - 1 = i /\ k # 0 /\ k \in 0..n
    BY <1>1
  <2>2. PartLoaded(v, open, i)
    BY <1>1, <1>6, <2>1
  <2>3. u = AddWindow(v, t, TRUE, open[k][2])
    BY <1>4, <2>1 DEF Put
  <2>4. t \in Title /\ open[k][2] \in 0..(MaxWindows + 1)
    BY <1>2, <2>1
  <2> HIDE DEF u, v
  <2>5. t \in Files \cup Tools => \A j \in 1..i : open[j][1] # t
    <3>1. ASSUME NEW j \in 1..i, t \in Files \cup Tools, open[j][1] = t PROVE FALSE
      <4>1. j \in 1..n /\ j # k
        BY <1>1, <2>1
      <4> QED BY <1>1, <2>1, <3>1, <4>1
    <3> QED BY <3>1
  <2> HIDE DEF t
  <2>6. t \in Files \cup Tools => NotShown(v, t)
    BY <2>2, <2>5 DEF PartLoaded
  <2>7. NotClosed(v, t)
    <3>1. DOMAIN <<>> = {} /\ v.closed = <<>>
      BY <2>2 DEF PartLoaded
    <3> QED BY <3>1 DEF NotClosed
  <2>8. t \in Tools => v.pointer[t] = None
    <3>1. PointersHold(v)
      BY <2>2 DEF PartLoaded, DeskOK, ListOK
    <3> QED BY <2>6, <3>1 DEF PointersHold, NotShown
  <2>9. CanAdd(v, {}, t)
    <3>1. Len(v.windows) = i /\ DeskOK(v, {})
      BY <2>2 DEF PartLoaded
    <3>2. i < MaxWindows
      BY <1>1, <1>3, <2>1
    <3> QED BY <2>4, <2>6, <2>7, <2>8, <3>1, <3>2 DEF CanAdd
  <2>10. Inserted(v, {}, t, u)
    BY <2>3, <2>4, <2>9, AddOldOK
  <2>11. \A x : (\A j \in 1..k : open[j][1] # x) => NotShown(u, x)
    <3>1. SUFFICES ASSUME NEW x, \A j \in 1..k : open[j][1] # x PROVE NotShown(u, x)
      OBVIOUS
    <3>2. k \in 1..k /\ \A j \in 1..i : j \in 1..k
      BY <2>1
    <3>3. x # t /\ NotShown(v, x)
      BY <2>2, <3>1, <3>2 DEF PartLoaded, t
    <3> QED BY <2>10, <3>3 DEF Inserted
  <2>12. PartLoaded(u, open, k)
    BY <2>1, <2>2, <2>10, <2>11 DEF PartLoaded, Inserted
  <2> QED BY <2>1, <2>12 DEF u
<1>7. Good \in SUBSET Nat
  OBVIOUS
<1>8. 0..n \subseteq Good
  <2> HIDE DEF Good
  <2> QED BY <1>1, <1>5, <1>6, <1>7, CountUp
<1>9. n \in 0..n /\ n <= n
  BY <1>1
<1>10. PartLoaded(f[n], open, n)
  BY <1>8, <1>9
<1> QED BY <1>10 DEF n

\* What LoadDesktop makes of a cleared desktop is a desktop.
LEMMA LoadDesktopOK ==
  ASSUME NEW s \in DeskState, NEW open \in Desktops, Len(open) <= MaxWindows,
         NEW closed, closed = <<>> \/ (\E t \in Files : closed = <<t>>),
         Len(closed) <= max_closed, NEW flag \in BOOLEAN,
         \A i \in DOMAIN open : open[i][1] \notin Range(closed),
         NEW u, u = LoadDesktop(ClearDeskTop(s), open, closed, flag)
  PROVE  DeskOK(u, {}) /\ CurrentOK(u)
<1> DEFINE c == ClearDeskTop(s)
           n == Len(open)
           cl == [i \in DOMAIN closed |-> [title |-> closed[i], removable |-> flag]]
           after == CHOOSE f : Puts(f, c, open, n)
           v == after[n]
<1>1. open \in Seq(Title \X (0..(MaxWindows + 1))) /\ n \in Nat /\ DOMAIN open = 1..n
  <2>1. open \in Seq(Title \X (0..(MaxWindows + 1)))
    BY DeskAssumption
  <2> QED BY <2>1, LenProperties
<1>2. u = [v EXCEPT !.closed = cl]
  BY DEF LoadDesktop, Puts, Put
<1>3. Puts(after, c, open, n)
  BY <1>1, PutsExists
<1>4. PartLoaded(v, open, n)
  <2>1. DeskOK(c, {}) /\ CurrentOK(c) /\ c.windows = <<>> /\ c.closed = <<>> /\ Len(c.windows) = 0
    BY ClearedOK
  <2> HIDE DEF c, after
  <2> QED BY <1>3, <2>1, LoadedOK
<1> HIDE DEF v
<1>5. /\ DOMAIN closed = 1..Len(closed) /\ Len(closed) \in {0, 1}
      /\ \A i \in DOMAIN closed : closed[i] \in Files /\ i = 1 /\ closed[i] \in Range(closed)
  <2>1. CASE closed = <<>>
    BY <2>1
  <2>2. CASE \E t \in Files : closed = <<t>>
    <3>1. PICK t \in Files : closed = <<t>>
      BY <2>2
    <3>2. DOMAIN closed = {1} /\ Len(closed) = 1 /\ closed[1] = t /\ 1..1 = {1}
      BY <3>1
    <3> QED BY <3>2 DEF Range
  <2> QED BY <2>1, <2>2
<1>6. /\ cl \in Seq(ClosedRec) /\ Len(cl) = Len(closed) /\ DOMAIN cl = 1..Len(closed)
      /\ \A i \in 1..Len(closed) : cl[i].title \in Files /\ i = 1 /\ cl[i].title \in Range(closed)
  <2>1. cl \in [1..Len(closed) -> ClosedRec]
    BY <1>5, TitleFacts DEF ClosedRec
  <2>2. Len(closed) \in Nat
    BY <1>5
  <2>3. \A i \in 1..Len(closed) : cl[i].title \in Files /\ i = 1 /\ cl[i].title \in Range(closed)
    BY <1>5
  <2> HIDE DEF cl
  <2> QED BY <2>1, <2>2, <2>3, FunctionIsSeq
<1> HIDE DEF cl
<1>7. v \in DeskState /\ DeskOK(v, {})
  BY <1>4 DEF PartLoaded, DeskOK
<1>8. /\ u.windows = v.windows /\ u.closed = cl /\ u.numbers = v.numbers /\ u.current = v.current
      /\ u.pointer = v.pointer /\ u \in DeskState
  BY <1>2, <1>6, <1>7 DEF DeskState
<1>9. ListOK(u)
  <2>1. ListOK(v)
    BY <1>7 DEF DeskOK
  <2>2. \A i \in 1..Len(closed) : cl[i].title \notin Tools
    BY <1>6, TitleFacts
  <2> QED BY <1>6, <1>8, <2>1, <2>2 DEF ListOK, IdsDiffer, PointersHold, ToolsForgotten
<1>10. NumbersInv(u, {})
  BY <1>7, <1>8 DEF DeskOK, NumbersInv, NumbersExact, NumbersLoose, NumbersOf
<1>11. FilesInv(u, {})
  <2>1. ShownOnce(u)
    <3>1. ShownOnce(v)
      BY <1>7 DEF DeskOK, FilesInv
    <3> QED BY <1>8, <3>1 DEF ShownOnce
  <2>2. ClosedOnce(u)
    BY <1>6, <1>8 DEF ClosedOnce
  <2>3. \A i \in 1..Len(closed) : NotShown(v, cl[i].title)
    <3>1. \A i \in 1..Len(closed) : \A j \in 1..n : open[j][1] # cl[i].title
      BY <1>1, <1>6
    <3> QED BY <1>4, <3>1 DEF PartLoaded
  <2>4. Apart(u)
    BY <1>6, <1>8, <2>3 DEF Apart, NotShown
  <2> QED BY <2>1, <2>2, <2>4 DEF FilesInv
<1>12. FewClosed(u)
  BY <1>6, <1>8 DEF FewClosed
<1>13. CurrentOK(u)
  BY <1>4, <1>8 DEF PartLoaded, CurrentOK, InList
<1> QED BY <1>8, <1>9, <1>10, <1>11, <1>12, <1>13 DEF DeskOK

(* What is enabled *)

ProjectOK ==
  /\ prj \in [on : BOOLEAN, count : {0, 1}, target : {"program", "library", "main_source"}]
  /\ debugger_started \in BOOLEAN
Place == Places \cup {"text"}
MsgsOK ==
  /\ msgs \in [list : Seq(Place), focused : Nat]
  /\ msgs.focused <= Len(msgs.list) /\ (msgs.list # <<>> => msgs.focused >= 1)
EnabledOK == enabled = Commands \ Off(w, prj, debugger_started)

\* The parts of Off, one for each test of update (idemain.cc:478-768).
LEMMA OffParts ==
  ASSUME NEW s, NEW p, NEW started, NEW f, f = Flags(s, p), NEW c, c \notin Off(s, p, started)
  PROVE  /\ ~p.on => c \notin {"cmCloseProject", "cmShowProject"} \cup Items
         /\ p.count = 0 => c \notin Items
         /\ s.windows = <<>> /\ s.closed = <<>> => c # "cmShowWindowList"
         /\ ~f.exec => c \notin Runs \cup Debugs \cup {"cmGoto", "cmToggleBreak"}
         /\ f.exec /\ ~f.editor => c # "cmToggleBreak"
         /\ p.target # "main_source" /\ ((~p.on /\ ~f.editors) \/ (p.on /\ p.count = 0)) =>
              c \notin Makes \cup Runs
         /\ ~f.editor => c \notin {"cmSaveEditor", "cmPrint"}
         /\ ~f.editor /\ ~f.clip => c \notin Edits \ (IF f.help THEN {"cmcFind"} ELSE {})
         /\ s.pointer["msg"] = None => c # "cmNextMessage"
         /\ ~f.editor /\ ~(f.list /\ p.on /\ p.count > 0) => c # "cmCompile"
         /\ ~started => c # "cmModifyRegister"
BY DEF Off

\* What holds of the flags.
LEMMA FlagsIs ==
  ASSUME NEW s, NEW p, NEW f, f = Flags(s, p)
  PROVE  /\ f.editors => \E id \in InList(s) : IsEditor(s, id)
         /\ f.editor => IsEditor(s, s.current)
         /\ f.clip => s.current = Clip
         /\ f.help => s.current \in InList(s)
BY DEF Flags, IsKind

\* What update enables finds what its handler relies on (idemain.cc:442).
LEMMA ReadyHolds ==
  ASSUME w \in DeskState, ProjectOK, EnabledOK
  PROVE  EnabledIsReady
<1> SUFFICES ASSUME NEW c \in enabled PROVE Ready(c)
  BY DEF EnabledIsReady
<1> DEFINE f == Flags(w, prj)
<1>1. c \in Commands /\ c \notin Off(w, prj, debugger_started)
  BY DEF EnabledOK
<1>2. /\ ~prj.on => c \notin {"cmCloseProject", "cmShowProject"} \cup Items
      /\ prj.count = 0 => c \notin Items
      /\ w.windows = <<>> /\ w.closed = <<>> => c # "cmShowWindowList"
      /\ ~f.exec => c \notin Runs \cup Debugs \cup {"cmGoto", "cmToggleBreak"}
      /\ f.exec /\ ~f.editor => c # "cmToggleBreak"
      /\ prj.target # "main_source" /\ ((~prj.on /\ ~f.editors) \/ (prj.on /\ prj.count = 0)) =>
           c \notin Makes \cup Runs
      /\ ~f.editor => c \notin {"cmSaveEditor", "cmPrint"}
      /\ ~f.editor /\ ~f.clip => c \notin Edits \ (IF f.help THEN {"cmcFind"} ELSE {})
      /\ w.pointer["msg"] = None => c # "cmNextMessage"
      /\ ~f.editor /\ ~(f.list /\ prj.on /\ prj.count > 0) => c # "cmCompile"
      /\ ~debugger_started => c # "cmModifyRegister"
  BY <1>1, OffParts
<1>3. /\ f.editors => \E id \in InList(w) : IsEditor(w, id)
      /\ f.editor => IsEditor(w, w.current)
      /\ f.clip => w.current = Clip
      /\ f.help => w.current \in InList(w)
  BY FlagsIs
<1>4. prj.on \in BOOLEAN /\ (prj.count = 0 \/ prj.count > 0)
  BY DEF ProjectOK
<1>5. InList(w) \subseteq Ids /\ None \notin Ids /\ Clip # None
  BY StateTypes DEF InList, WindowRec, Ids, None, Clip
<1>6. IsEditor(w, w.current) => w.current # None
  BY <1>5 DEF IsEditor
<1> HIDE DEF f
<1>7. c \in {"cmPrint", "cmSaveEditor", "cmToggleBreak"} => IsEditor(w, w.current)
  BY <1>2, <1>3
<1>8. c \in Edits \ {"cmcFind"} => IsEditor(w, w.current) \/ w.current = Clip
  BY <1>2, <1>3
<1>9. c = "cmcFind" => w.current # None
  BY <1>2, <1>3, <1>5, <1>6 DEF Edits
<1>10. c \in Items => prj.on /\ prj.count > 0
  BY <1>2, <1>4 DEF Items
<1>11. c \in {"cmShowProject", "cmCloseProject"} => prj.on
  BY <1>2
<1>12. c \in Makes \cup Runs => prj.count > 0 \/ prj.target = "main_source"
                             \/ \E id \in InList(w) : IsEditor(w, id)
  BY <1>2, <1>3, <1>4
<1>13. /\ c = "cmCompile" => IsEditor(w, w.current) \/ prj.count > 0
       /\ c = "cmModifyRegister" => debugger_started
       /\ c = "cmNextMessage" => w.pointer["msg"] # None
       /\ c = "cmShowWindowList" => w.windows # <<>> \/ w.closed # <<>>
  BY <1>2, <1>3
<1> QED BY <1>7, <1>8, <1>9, <1>10, <1>11, <1>12, <1>13 DEF Ready

(* The invariant *)

DeskInv == DeskOK(w, odd) /\ CurrentOK(w) /\ ProjectOK /\ MsgsOK /\ EnabledOK
\* What an action on windows does: the lists are right, update sees the same project.
Settles == DeskOK(w', odd') /\ CurrentOK(w') /\ Rest

\* What is known of a state, by the parts the actions use.
LEMMA InvFacts ==
  ASSUME DeskInv
  PROVE  /\ w \in DeskState /\ DeskOK(w, odd) /\ CurrentOK(w) /\ ProjectOK /\ MsgsOK /\ EnabledOK
         /\ Len(w.windows) \in Nat /\ InList(w) \subseteq Ids /\ None \notin Ids /\ Clip # None
<1>1. w \in DeskState
  BY DEF DeskInv, DeskOK
<1>2. InList(w) \subseteq Ids
  BY <1>1, StateTypes DEF InList, WindowRec
<1> QED BY <1>1, <1>2, StateTypes DEF DeskInv, Ids, None, Clip

\* More kinds of unusual use only take promises away.
LEMMA MoreOdd ==
  ASSUME NEW s, NEW o, DeskOK(s, o), NEW op, o \subseteq op
  PROVE  DeskOK(s, op)
BY DEF DeskOK, NumbersInv, FilesInv

\* The bound on windows is never above MaxWindows,
LEMMA LimitIs ==
  ASSUME NEW p, NEW started
  PROVE  Limit(p, started) <= MaxWindows
BY TitleFacts DEF Limit

\* so where there is room a window may be added.
LEMMA RoomIs ==
  ASSUME NEW s, Len(s.windows) \in Nat, Room(s)
  PROVE  Len(s.windows) < MaxWindows
<1>1. Limit(prj, debugger_started) <= MaxWindows /\ Limit(prj, debugger_started) \in Nat
  BY LimitIs, TitleFacts DEF Limit
<1>2. Len(s.windows) < Limit(prj, debugger_started)
  BY DEF Room
<1> HIDE DEF Room
<1> QED BY <1>1, <1>2, TitleFacts

\* update runs after every action.
LEMMA RestOK ==
  ASSUME ProjectOK, Rest
  PROVE  ProjectOK' /\ EnabledOK'
BY DEF ProjectOK, Rest, Shows, Updated, EnabledOK

\* An action that settles the windows keeps the invariant if the messages are right.
LEMMA SettlesOK ==
  ASSUME DeskInv, Settles, MsgsOK'
  PROVE  DeskInv'
BY RestOK DEF DeskInv, Settles

\* Messages that do not change stay right.
LEMMA MsgsStay ==
  ASSUME MsgsOK, msgs' = msgs
  PROVE  MsgsOK'
BY DEF MsgsOK

\* An action that only changes windows: every state it may choose is right.
LEMMA OnlyOK ==
  ASSUME DeskInv, NEW next, Only(next), \A u \in next : DeskOK(u, odd') /\ CurrentOK(u)
  PROVE  DeskInv'
<1>1. w' \in next /\ Rest /\ msgs' = msgs
  BY DEF Only
<1>2. Settles
  BY <1>1 DEF Settles
<1>3. MsgsOK'
  BY <1>1, InvFacts, MsgsStay
<1> QED BY <1>2, <1>3, SettlesOK

\* The same for an action with one outcome.
LEMMA OnlyOne ==
  ASSUME DeskInv, NEW u, Only({u}), DeskOK(u, odd'), CurrentOK(u)
  PROVE  DeskInv'
BY OnlyOK

\* At the start there is nothing.
LEMMA InitOK == Init => DeskInv
<1> SUFFICES ASSUME Init PROVE DeskInv
  OBVIOUS
<1>1. /\ w = [windows |-> <<>>, closed |-> <<>>, numbers |-> {}, current |-> None,
              pointer |-> [t \in Tools |-> None]]
      /\ prj = NoProject /\ debugger_started = FALSE
      /\ msgs = [list |-> <<>>, focused |-> 0] /\ enabled = Updated({}, w, prj, FALSE) /\ odd = {}
  BY DEF Init
<1>2. w \in DeskState /\ w = ClearDeskTop(w)
  <2>1. <<>> \in Seq(WindowRec) /\ <<>> \in Seq(ClosedRec)
    BY EmptySeq
  <2>2. [t \in Tools |-> None] \in [Tools -> Ids \cup {None}]
    OBVIOUS
  <2>3. w \in DeskState
    BY <1>1, <2>1, <2>2 DEF DeskState
  <2> DEFINE u == ClearDeskTop(w)
  <2>4. /\ u.windows = <<>> /\ u.closed = <<>> /\ u.numbers = {} /\ u.current = None
        /\ u.pointer = [t \in Tools |-> None]
        /\ u = [windows |-> u.windows, closed |-> u.closed, numbers |-> u.numbers,
                current |-> u.current, pointer |-> u.pointer]
    BY <2>3, ClearIs
  <2> HIDE DEF u
  <2>5. w = u
    BY <1>1, <2>4
  <2> QED BY <2>3, <2>5 DEF u
<1>3. DeskOK(w, {}) /\ CurrentOK(w)
  BY <1>2, ClearedOK
<1>4. ProjectOK
  BY <1>1 DEF ProjectOK, NoProject
<1>5. MsgsOK
  <2>1. <<>> \in Seq(Place) /\ Len(<<>>) = 0
    BY EmptySeq
  <2> QED BY <1>1, <2>1 DEF MsgsOK
<1>6. EnabledOK
  BY <1>1 DEF EnabledOK, Updated
<1> QED BY <1>1, <1>3, <1>4, <1>5, <1>6 DEF DeskInv

(* The actions *)

\* An editor gets another name (idemain.cc:1281): unless the name is in use, its
\* file is still shown once.
Renamed(s, t) ==
  [s EXCEPT !.windows = [i \in DOMAIN @ |->
     IF @[i].id = s.current THEN [@[i] EXCEPT !.title = t] ELSE @[i]]]
LEMMA RenamedOK ==
  ASSUME NEW s, NEW o, DeskOK(s, o), CurrentOK(s), IsEditor(s, s.current), NEW t \in Files,
         NEW op, o \subseteq op,
         "same_name" \in op \/ (IdOf(s, t) \in {None, s.current} /\ IsClosedWindow(s, t) = {}),
         "freed" \in op => "freed" \in o,
         "same_name" \in o => "same_name" \in op,
         NEW u, u = Renamed(s, t)
  PROVE  DeskOK(u, op) /\ CurrentOK(u)
<1> DEFINE n == Len(s.windows)
<1>1. s \in DeskState
  BY DEF DeskOK
<1>2. /\ n \in Nat /\ DOMAIN s.windows = 1..n /\ \A i \in 1..n : s.windows[i] \in WindowRec
      /\ s.windows \in Seq(WindowRec)
  BY <1>1, StateTypes
<1> DEFINE R(i) == IF s.windows[i].id = s.current THEN [s.windows[i] EXCEPT !.title = t]
                   ELSE s.windows[i]
           v == [i \in 1..n |-> R(i)]
<1>3. /\ u.windows = v /\ u.closed = s.closed /\ u.numbers = s.numbers /\ u.current = s.current
      /\ u.pointer = s.pointer
      /\ u = [windows |-> u.windows, closed |-> u.closed, numbers |-> u.numbers,
              current |-> u.current, pointer |-> u.pointer]
  BY <1>1, <1>2 DEF DeskState, Renamed
<1>4. \A i \in 1..n :
        /\ v[i] \in WindowRec /\ v[i].id = s.windows[i].id /\ v[i].number = s.windows[i].number
        /\ v[i].remember = s.windows[i].remember
        /\ v[i].title = IF s.windows[i].id = s.current THEN t ELSE s.windows[i].title
  BY <1>2, TitleFacts DEF WindowRec
<1>5. v \in [1..n -> WindowRec]
  BY <1>4
<1> HIDE DEF v, R
<1>6. v \in Seq(WindowRec) /\ Len(v) = n /\ DOMAIN v = 1..n
  BY <1>2, <1>5, FunctionIsSeq
<1>7. u \in DeskState
  BY <1>1, <1>3, <1>6, StateTypes DEF DeskState
<1>8. PICK k \in 1..n : s.windows[k].id = s.current /\ s.windows[k].title \notin Tools
  <2>1. s.current \in InList(s) /\ Kind(Win(s, s.current).title) = "editor"
    BY DEF IsEditor
  <2>2. /\ IndexOf(s, s.current) \in 1..n /\ s.windows[IndexOf(s, s.current)].id = s.current
        /\ Win(s, s.current) = s.windows[IndexOf(s, s.current)]
    BY <1>1, <2>1, IndexOfIs
  <2>3. \A x \in Tools : x # "editor" /\ x \notin Files \cup {Untitled}
    BY DeskAssumption DEF Untitled
  <2>4. Win(s, s.current).title \notin Tools
    BY <2>1, <2>3 DEF Kind
  <2> QED BY <2>2, <2>4
<1>9. IdsDiffer(s) /\ PointersHold(s) /\ ToolsForgotten(s)
  BY DEF DeskOK, ListOK
<1>10. \A i \in 1..n : s.windows[i].id = s.current <=> i = k
  BY <1>2, <1>8, <1>9 DEF IdsDiffer
<1>11. t \notin Tools
  BY TitleFacts
<1>12. \A i \in 1..n : v[i].title = IF i = k THEN t ELSE s.windows[i].title
  BY <1>4, <1>10
<1>13. IdsDiffer(u)
  BY <1>2, <1>3, <1>4, <1>6, <1>9 DEF IdsDiffer
<1>14. PointersHold(u)
  <2>1. ASSUME NEW x \in Tools, u.pointer[x] # None
        PROVE  \E i \in 1..n : v[i].id = u.pointer[x] /\ v[i].title = x
    <3>1. PICK i \in 1..n : s.windows[i].id = s.pointer[x] /\ s.windows[i].title = x
      BY <1>2, <1>3, <1>9, <2>1 DEF PointersHold
    <3>2. i # k
      BY <1>8, <3>1
    <3> QED BY <1>3, <1>4, <1>12, <3>1, <3>2
  <2>2. ASSUME NEW i \in 1..n, v[i].title \in Tools
        PROVE  u.pointer[v[i].title] = v[i].id
    <3>1. v[i].title = s.windows[i].title /\ v[i].id = s.windows[i].id
      BY <1>4, <1>11, <1>12, <2>2
    <3> QED BY <1>2, <1>3, <1>9, <2>2, <3>1 DEF PointersHold
  <2> QED BY <1>3, <1>6, <2>1, <2>2 DEF PointersHold
<1>15. ToolsForgotten(u)
  <2>1. \A i \in 1..n : v[i].remember => v[i].title \notin Tools
    BY <1>2, <1>4, <1>9, <1>11, <1>12 DEF ToolsForgotten
  <2> QED BY <1>3, <1>6, <1>9, <2>1 DEF ToolsForgotten
<1>16. NumbersInv(u, op)
  <2>1. NumbersInv(s, o)
    BY DEF DeskOK
  <2>2. NumbersOf(u) = NumbersOf(s)
    BY <1>2, <1>3, <1>4, <1>6 DEF NumbersOf
  <2>3. NumbersExact(s) => NumbersExact(u)
    BY <1>2, <1>3, <1>4, <1>6, <2>2 DEF NumbersExact
  <2> QED BY <1>3, <2>1, <2>2, <2>3 DEF NumbersInv, NumbersLoose
<1>17. FilesInv(u, op)
  <2>1. SUFFICES ASSUME "same_name" \notin op PROVE ShownOnce(u) /\ ClosedOnce(u) /\ Apart(u)
    BY DEF FilesInv
  <2>2. ShownOnce(s) /\ ClosedOnce(s) /\ Apart(s)
    BY <2>1 DEF DeskOK, FilesInv
  <2>3. IdOf(s, t) \in {None, s.current} /\ IsClosedWindow(s, t) = {}
    BY <2>1
  <2>4. \A i \in 1..n : i # k => s.windows[i].title # t
    <3>1. CASE IdOf(s, t) = None
      BY <1>1, <1>2, <3>1, IdOfIs DEF NotShown
    <3>2. CASE IdOf(s, t) # None
      <4>1. PICK j \in 1..n : s.windows[j].title = t /\ s.windows[j].id = IdOf(s, t)
        BY <1>1, <1>2, <3>2, IdOfIs
      <4>2. j = k
        BY <1>10, <2>3, <3>2, <4>1
      <4> QED BY <1>2, <2>2, <4>1, <4>2 DEF ShownOnce
    <3> QED BY <3>1, <3>2
  <2>5. ShownOnce(u)
    <3>1. ASSUME NEW i \in 1..n, NEW j \in 1..n, v[i].title \in Files, v[i].title = v[j].title
          PROVE  i = j
      <4>1. CASE i = k \/ j = k
        BY <1>12, <2>4, <3>1, <4>1
      <4>2. CASE i # k /\ j # k
        BY <1>2, <1>12, <2>2, <3>1, <4>2 DEF ShownOnce
      <4> QED BY <4>1, <4>2
    <3> QED BY <1>3, <1>6, <3>1 DEF ShownOnce
  <2>6. ClosedOnce(u)
    BY <1>3, <2>2 DEF ClosedOnce
  <2>7. Apart(u)
    <3>1. \A j \in DOMAIN s.closed : s.closed[j].title # t
      BY <2>3 DEF IsClosedWindow
    <3>2. \A i \in 1..n, j \in DOMAIN s.closed :
            s.windows[i].title \in Files => s.windows[i].title # s.closed[j].title
      BY <1>2, <2>2 DEF Apart
    <3> QED BY <1>3, <1>6, <1>12, <3>1, <3>2 DEF Apart
  <2> QED BY <2>5, <2>6, <2>7
<1>18. FewClosed(u)
  BY <1>3 DEF DeskOK, FewClosed
<1>19. CurrentOK(u)
  <2>1. InList(u) = InList(s)
    BY <1>2, <1>3, <1>4, <1>6 DEF InList
  <2> QED BY <1>3, <2>1 DEF CurrentOK
<1> QED BY <1>7, <1>13, <1>14, <1>15, <1>16, <1>17, <1>18, <1>19 DEF DeskOK, ListOK

\* Each action keeps the invariant: a file is opened,
LEMMA OpenFileOK ==
  ASSUME DeskInv, NEW t \in Files, OpenFile(t)
  PROVE  DeskInv'
<1>1. /\ Room(w) /\ Only({OpenEditor(w, t)}) /\ odd' = odd
  BY DEF OpenFile, Careful
<1>2. Len(w.windows) < MaxWindows
  BY <1>1, InvFacts, RoomIs
<1>3. DeskOK(OpenEditor(w, t), odd) /\ CurrentOK(OpenEditor(w, t))
  BY <1>2, InvFacts, OpenEditorOK
<1> QED BY <1>1, <1>3, OnlyOne

\* an editor is saved under a name; update enabled it for an editor only,
LEMMA SaveAsOK ==
  ASSUME DeskInv, NEW t \in Files, SaveAs(t)
  PROVE  DeskInv'
<1>1. /\ "cmSaveEditor" \in enabled /\ Only({Renamed(w, t)})
      /\ IF IdOf(w, t) \in {None, w.current} /\ IsClosedWindow(w, t) = {}
         THEN odd' = odd ELSE odd' = odd \cup {"same_name"}
  BY DEF SaveAs, Careful, Noted, Renamed
<1>2. IsEditor(w, w.current)
  <2>1. EnabledIsReady
    BY InvFacts, ReadyHolds
  <2>2. Ready("cmSaveEditor")
    BY <1>1, <2>1 DEF EnabledIsReady
  <2> QED BY <2>2 DEF Ready
<1>3. /\ odd \subseteq odd' /\ ("freed" \in odd' => "freed" \in odd)
      /\ "same_name" \in odd' \/ (IdOf(w, t) \in {None, w.current} /\ IsClosedWindow(w, t) = {})
  BY <1>1
<1>4. DeskOK(Renamed(w, t), odd') /\ CurrentOK(Renamed(w, t))
  BY <1>2, <1>3, InvFacts, RenamedOK
<1> QED BY <1>1, <1>4, OnlyOne

\* a tool's window is shown: its global says whether there is one,
LEMMA ShowWindowOK ==
  ASSUME DeskInv, NEW t \in Tools, ShowWindow(t)
  PROVE  DeskInv'
<1>1. /\ odd' = odd
      /\ IF w.pointer[t] = None THEN Room(w) /\ Only({AddWindow(w, t, TRUE, 0)})
         ELSE Only({Select(w, w.pointer[t])})
  BY DEF ShowWindow, Careful
<1>2. CASE w.pointer[t] = None
  <2>1. Len(w.windows) < MaxWindows
    BY <1>1, <1>2, InvFacts, RoomIs
  <2>2. CanAdd(w, odd, t)
    BY <1>2, <2>1, InvFacts, TitleFacts DEF CanAdd
  <2>3. DeskOK(AddWindow(w, t, TRUE, 0), odd) /\ CurrentOK(AddWindow(w, t, TRUE, 0))
    BY <2>2, AddNewOK DEF Inserted
  <2> QED BY <1>1, <1>2, <2>3, OnlyOne
<1>3. CASE w.pointer[t] # None
  <2>1. w.pointer[t] \in InList(w)
    BY <1>3, InvFacts DEF DeskOK, ListOK, PointersHold, InList
  <2>2. DeskOK(Select(w, w.pointer[t]), odd) /\ CurrentOK(Select(w, w.pointer[t]))
    BY <2>1, InvFacts, SelectOK
  <2> QED BY <1>1, <1>3, <2>2, OnlyOne
<1> QED BY <1>2, <1>3

\* a window is closed: it gives back its own number,
LEMMA CloseOK ==
  ASSUME DeskInv, NEW id, cmClose(id)
  PROVE  DeskInv'
<1> DEFINE r == RemoveWindow(w, id, Win(w, id).number, TRUE)
<1>1. id \in InList(w) /\ Only(Refocused(r)) /\ odd' = odd
  BY DEF cmClose, Careful
<1>2. GivenBack(w, id, Win(w, id).number, odd, odd)
  BY DEF GivenBack
<1>3. DeskOK(r, odd)
  BY <1>1, <1>2, InvFacts, RemoveWindowOK
<1> HIDE DEF r
<1>4. \A u \in Refocused(r) : DeskOK(u, odd') /\ CurrentOK(u)
  BY <1>1, <1>3, RefocusedOK
<1> QED BY <1>1, <1>4, OnlyOK

\* a new editor is opened,
LEMMA fileNewOK ==
  ASSUME DeskInv, fileNew
  PROVE  DeskInv'
<1>1. /\ Room(w) /\ Only({IDEopenEditor(w, Untitled)}) /\ odd' = odd
  BY DEF fileNew, Careful
<1>2. Len(w.windows) < MaxWindows
  BY <1>1, InvFacts, RoomIs
<1>3. DeskOK(IDEopenEditor(w, Untitled), odd) /\ CurrentOK(IDEopenEditor(w, Untitled))
  BY <1>2, InvFacts, TitleFacts, IDEopenEditorOK
<1> QED BY <1>1, <1>3, OnlyOne

\* another view becomes the current one,
LEMMA SelectingOK ==
  ASSUME DeskInv, ShowClip \/ HideClip \/ SelectWindow
  PROVE  DeskInv'
<1>1. ASSUME NEW id \in InList(w) \cup {None, Clip}
      PROVE  DeskOK(Select(w, id), odd) /\ CurrentOK(Select(w, id))
  BY InvFacts, SelectOK
<1>2. CASE ShowClip
  <2>1. Only({Select(w, Clip)}) /\ odd' = odd
    BY <1>2 DEF ShowClip, Careful
  <2> QED BY <1>1, <2>1, OnlyOne
<1>3. CASE HideClip
  <2>1. Only(Refocused(Select(w, None))) /\ odd' = odd
    BY <1>3 DEF HideClip, Careful, Select
  <2>2. \A u \in Refocused(Select(w, None)) : DeskOK(u, odd') /\ CurrentOK(u)
    BY <1>1, <2>1, RefocusedOK
  <2> QED BY <2>1, <2>2, OnlyOK
<1>4. CASE SelectWindow
  <2>1. PICK id \in InList(w) : Only({Select(w, id)})
    BY <1>4 DEF SelectWindow
  <2>2. odd' = odd
    BY <1>4 DEF SelectWindow, Careful
  <2> QED BY <1>1, <2>1, <2>2, OnlyOne
<1> QED BY <1>2, <1>3, <1>4

\* the help window is opened, from the list of closed ones or new,
LEMMA SyntaxHelpOK ==
  ASSUME DeskInv, SyntaxHelp
  PROVE  DeskInv'
<1> DEFINE was == IsClosedWindow(w, "info")
<1>1. /\ odd' = odd
      /\ IF IdOf(w, "info") # None THEN Only({Select(w, IdOf(w, "info"))})
         ELSE /\ Room(w)
              /\ \/ was # {} /\ Only({OpenClosedWindow(w, Min(was))})
                 \/ Only({AddWindow(w, "info", FALSE, 0)})
  BY DEF SyntaxHelp, Careful
<1>2. CASE IdOf(w, "info") # None
  <2>1. IdOf(w, "info") \in InList(w)
    BY <1>2, InvFacts, IdOfIs
  <2>2. DeskOK(Select(w, IdOf(w, "info")), odd) /\ CurrentOK(Select(w, IdOf(w, "info")))
    BY <2>1, InvFacts, SelectOK
  <2> QED BY <1>1, <1>2, <2>2, OnlyOne
<1>3. CASE IdOf(w, "info") = None
  <2>1. Len(w.windows) < MaxWindows
    BY <1>1, <1>3, InvFacts, RoomIs
  <2>2. CASE was # {} /\ Only({OpenClosedWindow(w, Min(was))})
    <3>1. was \in SUBSET DOMAIN w.closed /\ DOMAIN w.closed \in SUBSET Nat
      BY InvFacts, StateTypes DEF IsClosedWindow
    <3> HIDE DEF was
    <3>2. Min(was) \in DOMAIN w.closed
      BY <2>2, <3>1, MinIs
    <3>3. DeskOK(OpenClosedWindow(w, Min(was)), odd) /\ CurrentOK(OpenClosedWindow(w, Min(was)))
      BY <2>1, <3>2, InvFacts, OpenClosedOK
    <3> QED BY <1>1, <2>2, <3>3, OnlyOne
  <2>3. CASE Only({AddWindow(w, "info", FALSE, 0)})
    <3>1. CanAdd(w, odd, "info")
      <4>1. "info" \in Title /\ "info" \notin Tools /\ "info" \notin Files
        BY DeskAssumption DEF Title
      <4> QED BY <2>1, <4>1, InvFacts DEF CanAdd
    <3>2. DeskOK(AddWindow(w, "info", FALSE, 0), odd) /\ CurrentOK(AddWindow(w, "info", FALSE, 0))
      BY <3>1, AddHelpOK DEF Inserted
    <3> QED BY <1>1, <2>3, <3>2, OnlyOne
  <2> QED BY <1>1, <1>3, <2>2, <2>3
<1> QED BY <1>2, <1>3

\* a closed window is opened or forgotten,
LEMMA ClosedListOK ==
  ASSUME DeskInv, SelectClosed \/ DeleteClosed
  PROVE  DeskInv'
<1>1. CASE SelectClosed
  <2>1. Room(w) /\ odd' = odd
    BY <1>1 DEF SelectClosed, Careful
  <2>2. PICK i \in DOMAIN w.closed : Only({OpenClosedWindow(w, i)})
    BY <1>1 DEF SelectClosed
  <2>3. Len(w.windows) < MaxWindows
    BY <2>1, InvFacts, RoomIs
  <2>4. DeskOK(OpenClosedWindow(w, i), odd) /\ CurrentOK(OpenClosedWindow(w, i))
    BY <2>3, InvFacts, OpenClosedOK
  <2> QED BY <2>1, <2>2, <2>4, OnlyOne
<1>2. CASE DeleteClosed
  <2>1. odd' = odd
    BY <1>2 DEF DeleteClosed, Careful
  <2>2. PICK i \in DOMAIN w.closed : Only({RemoveClosedWindow(w, i)})
    BY <1>2 DEF DeleteClosed
  <2> DEFINE u == RemoveClosedWindow(w, i)
  <2>3. i \in 1..Len(w.closed)
    BY InvFacts, StateTypes
  <2>4. DeskOK(u, odd) /\ u.windows = w.windows /\ u.current = w.current
    BY <2>3, InvFacts, RemoveClosedOK
  <2> HIDE DEF u
  <2>5. CurrentOK(u)
    BY <2>4, InvFacts DEF CurrentOK, InList
  <2> QED BY <2>1, <2>2, <2>4, <2>5, OnlyOne DEF u
<1> QED BY <1>1, <1>2

\* The number is given back whatever the list of closed windows does.
LEMMA RemovedNumbers ==
  ASSUME NEW s \in DeskState, NEW id \in InList(s), NEW number
  PROVE  RemoveWindow(s, id, number, TRUE).numbers = s.numbers \ {number}
<1> DEFINE t == Unlisted(s, id, number)
           x == Win(s, id)
<1>1. RemoveWindow(s, id, number, TRUE) = IF x.remember THEN AddClosedWindow(t, x) ELSE t
  BY DEF RemoveWindow, Unlisted
<1>0. t = [s EXCEPT !.numbers = @ \ {number}, !.windows = RemoveAt(@, IndexOf(s, id)),
                    !.pointer = [k \in Tools |-> IF @[k] = id THEN None ELSE @[k]]]
  BY DEF Unlisted
<1> HIDE DEF t
<1>2. /\ t.numbers = s.numbers \ {number}
      /\ t = [windows |-> t.windows, closed |-> t.closed, numbers |-> t.numbers,
              current |-> t.current, pointer |-> t.pointer]
  BY <1>0 DEF DeskState
<1> HIDE DEF x
<1>3. AddClosedWindow(t, x).numbers = t.numbers
  BY <1>2 DEF AddClosedWindow
<1> QED BY <1>1, <1>2, <1>3

\* What CheckStderr (idegcc.cc:965) makes of the old window, and then of the list.
LEMMA StderrGone ==
  ASSUME DeskInv, NEW old, old = IdOf(w, "stderr"), old # None, NEW n,
         NEW s, s = RemoveWindow(w, old, n, TRUE),
         NEW op, IF Win(w, old).number \in s.numbers
                 THEN "freed" \notin odd /\ op = odd \cup {"freed"} ELSE op = odd
  PROVE  DeskOK(s, op)
<1>1. old \in InList(w)
  BY InvFacts, IdOfIs
<1>2. s.numbers = w.numbers \ {n}
  BY <1>1, InvFacts, RemovedNumbers
<1>3. GivenBack(w, old, n, odd, op)
  BY <1>2 DEF GivenBack
<1>4. DeskOK(w, odd)
  BY InvFacts
<1>5. DeskOK(RemoveWindow(w, old, n, TRUE), op)
  BY ONLY <1>1, <1>3, <1>4, RemoveWindowOK
<1> QED BY <1>5

\* the window of the program's errors is renewed: it is removed, and added again,
LEMMA CheckStderrOK ==
  ASSUME DeskInv, CheckStderr
  PROVE  DeskInv'
<1> DEFINE old == IdOf(w, "stderr")
           S == IF old = None THEN {w}
                ELSE {RemoveWindow(w, old, n, TRUE) : n \in Freed(Win(w, old).number)}
<1>1. PICK s \in S :
        /\ IF old # None /\ Win(w, old).number \in s.numbers
           THEN "freed" \notin odd /\ odd' = odd \cup {"freed"} ELSE odd' = odd
        /\ Only(Refocused(s)) \/ (Room(s) /\ Only({AddWindow(s, "stderr", TRUE, 0)}))
  BY DEF CheckStderr, Noted, Careful
<1>2. DeskOK(s, odd') /\ Len(s.windows) \in Nat
  <2>1. CASE old = None
    BY <1>1, <2>1, InvFacts
  <2>2. CASE old # None
    <3>1. PICK n : s = RemoveWindow(w, old, n, TRUE)
      BY <1>1, <2>2
    <3>2. IF Win(w, old).number \in s.numbers
          THEN "freed" \notin odd /\ odd' = odd \cup {"freed"} ELSE odd' = odd
      BY <1>1, <2>2
    <3> HIDE DEF old, S
    <3>3. old = IdOf(w, "stderr")
      BY DEF old
    <3>4. DeskOK(s, odd')
      BY ONLY DeskInv, <2>2, <3>1, <3>2, <3>3, StderrGone
    <3>5. s \in DeskState
      BY <3>4 DEF DeskOK
    <3> QED BY <3>4, <3>5, StateTypes
  <2> QED BY <2>1, <2>2
<1>3. CASE Only(Refocused(s))
  <2>1. \A u \in Refocused(s) : DeskOK(u, odd') /\ CurrentOK(u)
    BY <1>2, RefocusedOK
  <2> QED BY <1>3, <2>1, OnlyOK
<1>4. CASE Room(s) /\ Only({AddWindow(s, "stderr", TRUE, 0)})
  <2>1. Len(s.windows) < MaxWindows
    BY <1>2, <1>4, RoomIs
  <2>2. CanAdd(s, odd', "stderr")
    <3>1. "stderr" \in Title /\ "stderr" \notin Tools /\ "stderr" \notin Files
      BY DeskAssumption DEF Title
    <3> QED BY <1>2, <2>1, <3>1 DEF CanAdd
  <2>3. DeskOK(AddWindow(s, "stderr", TRUE, 0), odd') /\ CurrentOK(AddWindow(s, "stderr", TRUE, 0))
    BY <2>2, AddNewOK DEF Inserted
  <2> QED BY <1>4, <2>3, OnlyOne
<1> QED BY <1>1, <1>3, <1>4

\* The message window is there, opened or found, and so is the old current view.
LEMMA ShownOK ==
  ASSUME DeskInv, Room(w)
  PROVE  /\ DeskOK(Shown(w), odd) /\ Shown(w).pointer["msg"] \in InList(Shown(w))
         /\ InList(w) \subseteq InList(Shown(w))
<1>1. CASE w.pointer["msg"] = None
  <2>1. Len(w.windows) < MaxWindows
    BY InvFacts, RoomIs
  <2>2. CanAdd(w, odd, "msg")
    BY <1>1, <2>1, InvFacts, TitleFacts DEF CanAdd
  <2>3. Shown(w) = AddWindow(w, "msg", TRUE, 0)
    BY <1>1 DEF Shown
  <2>4. Inserted(w, odd, "msg", AddWindow(w, "msg", TRUE, 0))
    BY <2>2, AddNewOK
  <2> QED BY <2>3, <2>4, TitleFacts DEF Inserted
<1>2. CASE w.pointer["msg"] # None
  <2>1. Shown(w) = w
    BY <1>2 DEF Shown
  <2>2. w.pointer["msg"] \in InList(w)
    BY <1>2, InvFacts, TitleFacts DEF DeskOK, ListOK, PointersHold, InList
  <2> QED BY <2>1, <2>2, InvFacts
<1> QED BY <1>1, <1>2

\* The messages that ShowMessages may be called with.
News == {<<>>} \cup {<<x>> : x \in Place}
LEMMA NewsAre ==
  ASSUME NEW new \in News
  PROVE  new \in Seq(Place) /\ Len(new) \in {0, 1} /\ (new = <<>> <=> Len(new) = 0)
<1>1. CASE new = <<>>
  BY <1>1, EmptySeq
<1>2. CASE new # <<>>
  <2>1. PICK x \in Place : new = <<x>>
    BY <1>2 DEF News
  <2>2. new \in Seq(Place) /\ Len(new) = 1
    BY <2>1
  <2> QED BY <1>2, <2>2
<1> QED BY <1>1, <1>2

\* messages are shown; the focused one is there,
LEMMA ShowMessagesOK ==
  ASSUME DeskInv, NEW new \in News, NEW remove_old \in BOOLEAN, ShowMessages(new, remove_old)
  PROVE  DeskInv'
<1> DEFINE fresh == remove_old \/ msgs.list = <<>>
           all == IF fresh THEN new ELSE msgs.list \o new
           from == IF fresh \/ new = <<>> THEN Len(all) ELSE Len(msgs.list) + 1
<1>1. /\ Room(w) /\ odd' = odd /\ Rest
      /\ msgs' = [list |-> all, focused |-> IF fresh THEN Min({1, Len(all)}) ELSE from]
      /\ w' = IF new # <<>> \/ w.current = None
              THEN Select(Shown(w), Shown(w).pointer["msg"]) ELSE Select(Shown(w), w.current)
  BY DEF ShowMessages, Careful
<1>2. DeskOK(w', odd') /\ CurrentOK(w')
  <2>1. w.current \in InList(w) \cup {None, Clip}
    BY InvFacts DEF CurrentOK
  <2>2. PICK id \in InList(Shown(w)) \cup {None, Clip} : w' = Select(Shown(w), id)
    BY <1>1, <2>1, ShownOK
  <2> QED BY <1>1, <2>2, ShownOK, SelectOK
<1>3. MsgsOK'
  <2>1. /\ msgs.list \in Seq(Place) /\ Len(msgs.list) \in Nat
        /\ new \in Seq(Place) /\ Len(new) \in {0, 1} /\ (new = <<>> <=> Len(new) = 0)
    BY InvFacts, NewsAre, LenProperties DEF MsgsOK
  <2>2. /\ msgs.list \o new \in Seq(Place)
        /\ Len(msgs.list \o new) = Len(msgs.list) + Len(new)
    BY <2>1, ConcatProperties
  <2>3. all \in Seq(Place) /\ Len(all) \in Nat
    BY <2>1, <2>2
  <2>4. CASE fresh
    <3>1. all = new
      BY <2>4
    <3>2. Min({1, Len(all)}) = Len(all)
      <4>1. {1, Len(all)} \in SUBSET Nat /\ {1, Len(all)} # {} /\ Len(all) <= 1
        <5>1. Len(all) \in {0, 1}
          BY <2>1, <3>1
        <5>2. PICK k \in {0, 1} : k = Len(all)
          BY <5>1
        <5> HIDE DEF all
        <5>3. {1, k} \in SUBSET Nat /\ {1, k} # {} /\ k <= 1
          BY ONLY k \in {0, 1}
        <5> QED BY <5>2, <5>3
      <4>2. Min({1, Len(all)}) \in {1, Len(all)} /\ \A y \in {1, Len(all)} : Min({1, Len(all)}) <= y
        BY <4>1, MinIs
      <4> QED BY <2>1, <3>1, <4>1, <4>2
    <3>3. msgs' = [list |-> all, focused |-> Len(all)]
      BY <1>1, <2>4, <3>2
    <3>4. all # <<>> => Len(all) >= 1
      BY <2>1, <3>1
    <3> HIDE DEF all, fresh
    <3> QED BY <2>3, <3>3, <3>4 DEF MsgsOK
  <2>5. CASE ~fresh
    <3>1. all = msgs.list \o new /\ msgs.list # <<>>
      BY <2>5
    <3>2. from = Len(all) /\ Len(all) >= 1
      <4>1. Len(msgs.list) >= 1
        BY <2>1, <3>1, EmptySeq
      <4> QED BY <2>1, <2>2, <2>5, <3>1, <4>1
    <3>3. msgs' = [list |-> all, focused |-> Len(all)]
      BY <1>1, <2>5, <3>2
    <3> HIDE DEF all, fresh, from
    <3> QED BY <2>3, <3>2, <3>3 DEF MsgsOK
  <2> QED BY <2>4, <2>5
<1> QED BY <1>1, <1>2, <1>3, SettlesOK DEF Settles

\* messages are cleared, all or the focused one,
LEMMA ClearMessagesOK ==
  ASSUME DeskInv, ClearMessages
  PROVE  DeskInv'
<1>1. /\ w' = w /\ odd' = odd /\ Rest
      /\ \/ msgs' = [list |-> <<>>, focused |-> 0]
         \/ /\ msgs.list # <<>>
            /\ msgs' = [list |-> RemoveAt(msgs.list, msgs.focused),
                        focused |-> Min({msgs.focused, Len(msgs.list) - 1})]
  BY DEF ClearMessages, Careful
<1>2. DeskOK(w', odd') /\ CurrentOK(w')
  BY <1>1, InvFacts
<1>3. MsgsOK'
  <2>1. CASE msgs' = [list |-> <<>>, focused |-> 0]
    <3>1. <<>> \in Seq(Place) /\ Len(<<>>) = 0
      BY EmptySeq
    <3> QED BY <2>1, <3>1 DEF MsgsOK
  <2>2. CASE /\ msgs.list # <<>>
             /\ msgs' = [list |-> RemoveAt(msgs.list, msgs.focused),
                         focused |-> Min({msgs.focused, Len(msgs.list) - 1})]
    <3> DEFINE l == msgs.list
               f == msgs.focused
               r == RemoveAt(l, f)
               m == Min({f, Len(l) - 1})
    <3>1. l \in Seq(Place) /\ Len(l) \in Nat /\ f \in 1..Len(l)
      <4>1. l \in Seq(Place) /\ f \in Nat /\ f <= Len(l) /\ f >= 1
        BY <2>2, InvFacts DEF MsgsOK
      <4> QED BY <4>1, LenProperties
    <3>2. msgs' = [list |-> r, focused |-> m]
      BY <2>2
    <3>3. r \in Seq(Place) /\ Len(r) = Len(l) - 1
      BY <3>1, RemoveAtIs
    <3> HIDE DEF l, f, r
    <3>4. m \in {f, Len(l) - 1} /\ m <= Len(l) - 1
      <4>1. {f, Len(l) - 1} \in SUBSET Nat /\ {f, Len(l) - 1} # {}
        BY <3>1
      <4> QED BY <4>1, MinIs
    <3> HIDE DEF m
    <3>5. m \in Nat /\ m <= Len(r) /\ (r # <<>> => m >= 1)
      <4>1. r # <<>> => Len(l) - 1 >= 1
        BY <3>1, <3>3, EmptySeq
      <4> QED BY <3>1, <3>3, <3>4, <4>1
    <3> QED BY <3>2, <3>3, <3>5 DEF MsgsOK
  <2> QED BY <1>1, <2>1, <2>2
<1> QED BY <1>1, <1>2, <1>3, SettlesOK DEF Settles


\* Going to a message that has a place (tmsglist.cc:42): its file is a file.
LEMMA GoToOK ==
  ASSUME DeskInv, NEW is, NEW pick \in Located, GoTo(is, pick)
  PROVE  DeskInv'
<1>1. /\ Room(w) /\ msgs' = [msgs EXCEPT !.focused = pick] /\ w' = OpenEditor(w, msgs.list[pick])
      /\ Rest /\ odd' = odd
  BY DEF GoTo, FocusMsg, Careful
<1>2. msgs.list \in Seq(Place) /\ pick \in DOMAIN msgs.list /\ msgs.list[pick] # "text"
  BY InvFacts DEF MsgsOK, Located
<1>3. DOMAIN msgs.list = 1..Len(msgs.list) /\ Len(msgs.list) \in Nat
  BY <1>2, LenProperties
<1>4. msgs.list[pick] \in Files
  <2>1. msgs.list[pick] \in Place
    BY <1>2, <1>3, ElementOfSeq
  <2> QED BY <1>2, <2>1, DeskAssumption DEF Place
<1>5. DeskOK(w', odd') /\ CurrentOK(w')
  <2>1. Len(w.windows) < MaxWindows
    BY <1>1, InvFacts, RoomIs
  <2> QED BY <1>1, <1>4, <2>1, InvFacts, OpenEditorOK
<1>6. MsgsOK'
  <2>1. msgs \in [list : Seq(Place), focused : Nat] /\ pick \in Nat /\ pick >= 1
        /\ pick <= Len(msgs.list)
    BY <1>2, <1>3, InvFacts DEF MsgsOK
  <2>2. msgs'.list = msgs.list /\ msgs'.focused = pick /\ msgs' \in [list : Seq(Place), focused : Nat]
    BY <1>1, <2>1
  <2> QED BY <2>1, <2>2 DEF MsgsOK
<1> QED BY <1>1, <1>5, <1>6, SettlesOK DEF Settles

\* What is picked: the nearest of the messages after, or before, the focused one.
Later == {i \in Located : i > msgs.focused}
Earlier == {i \in Located : i < msgs.focused}
LEMMA PicksAre ==
  ASSUME DeskInv
  PROVE  /\ Later # {} => Min(Later) \in Later /\ \A i \in Later : Min(Later) <= i
         /\ Earlier # {} => Max(Earlier) \in Earlier
<1>1. msgs.list \in Seq(Place) /\ msgs.focused \in Nat
  BY InvFacts DEF MsgsOK
<1>2. DOMAIN msgs.list = 1..Len(msgs.list) /\ Len(msgs.list) \in Nat
  BY <1>1, LenProperties
<1>3. Located \in SUBSET (1..Len(msgs.list))
  BY <1>2 DEF Located
<1>8. Located \in SUBSET Nat /\ \A i \in Located : i <= Len(msgs.list)
  BY ONLY <1>2, <1>3
<1>9. Later \subseteq Located /\ Earlier \subseteq Located
  BY DEF Later, Earlier
<1>4. Later \in SUBSET Nat
  BY <1>8, <1>9
<1>5. Earlier \in SUBSET Nat /\ \A i \in Earlier : i <= Len(msgs.list)
  BY <1>8, <1>9
<1>6. Later # {} => Min(Later) \in Later /\ \A i \in Later : Min(Later) <= i
  BY <1>4, MinIs
<1>7. Earlier # {} => Max(Earlier) \in Earlier
  BY <1>2, <1>5, MaxIs
<1> QED BY <1>6, <1>7

\* the next or previous message is gone to,
LEMMA NextPrevOK ==
  ASSUME DeskInv, cmNextMessage \/ cmPrevMessage
  PROVE  DeskInv'
<1>1. CASE cmNextMessage
  <2>1. GoTo(Later, Min(Later)) /\ Later # {}
    BY <1>1 DEF cmNextMessage, Later, GoTo
  <2>2. Min(Later) \in Located
    BY <2>1, PicksAre DEF Later
  <2> QED BY <2>1, <2>2, GoToOK
<1>2. CASE cmPrevMessage
  <2>1. GoTo(Earlier, Max(Earlier)) /\ Earlier # {}
    BY <1>2 DEF cmPrevMessage, Earlier, GoTo
  <2>2. Max(Earlier) \in Located
    BY <2>1, PicksAre DEF Earlier
  <2> QED BY <2>1, <2>2, GoToOK
<1> QED BY <1>1, <1>2

Project == [on : BOOLEAN, count : {0, 1}, target : {"program", "library", "main_source"}]
\* update sees the project that is set.
LEMMA ShowsOK ==
  ASSUME NEW p \in Project, NEW started \in BOOLEAN, prj' = p, debugger_started' = started,
         Shows(p, started)
  PROVE  ProjectOK' /\ EnabledOK'
BY DEF ProjectOK, Project, Shows, Updated, EnabledOK

\* a project is opened or closed, with its desktop,
LEMMA OpenProjectOK ==
  ASSUME DeskInv, NEW p \in Project, OpenProject(p)
  PROVE  DeskInv'
<1>1. PICK open \in Desktops, closed \in {<<>>} \cup {<<t>> : t \in Files}, flag \in BOOLEAN :
        /\ \A i \in DOMAIN open : open[i][1] \notin Range(closed)
        /\ Len(closed) <= max_closed
        /\ w' = LoadDesktop(ClearDeskTop(w), open, closed, flag)
        /\ prj' = p /\ debugger_started' = FALSE
        /\ odd = {} /\ Len(open) <= Limit(p, FALSE)
        /\ msgs' = msgs /\ Shows(p, FALSE) /\ odd' = odd
  BY DEF OpenProject, Careful
<1>2. Len(open) <= MaxWindows
  <2>1. Len(open) \in Nat
    BY DeskAssumption, LenProperties
  <2>2. PICK m \in Nat : m = Limit(p, FALSE) /\ m <= MaxWindows
    BY TitleFacts DEF Limit
  <2>3. PICK n \in Nat : n = Len(open)
    BY <2>1
  <2>4. n <= m
    BY <1>1, <2>2, <2>3
  <2>6. MaxWindows \in Nat /\ m <= MaxWindows /\ m \in Nat /\ n \in Nat
    BY <2>2, TitleFacts
  <2>5. n <= MaxWindows
    BY ONLY <2>4, <2>6
  <2> QED BY <2>3, <2>5
<1>3. closed = <<>> \/ (\E t \in Files : closed = <<t>>)
  OBVIOUS
<1>4. DeskOK(w', odd') /\ CurrentOK(w')
  BY <1>1, <1>2, <1>3, InvFacts, LoadDesktopOK
<1>5. ProjectOK' /\ EnabledOK'
  BY <1>1, ShowsOK
<1>6. MsgsOK'
  BY <1>1, InvFacts, MsgsStay
<1> QED BY <1>4, <1>5, <1>6 DEF DeskInv

\* and the project or the debugger changes, the windows do not:
LEMMA ChangeOK ==
  ASSUME DeskInv, NEW p \in Project, NEW started \in BOOLEAN, Change(p, started)
  PROVE  DeskInv'
<1>1. /\ prj' = p /\ debugger_started' = started /\ w' = w /\ msgs' = msgs
      /\ Shows(p, started) /\ odd' = odd
  BY DEF Change, Careful
<1>2. ProjectOK' /\ EnabledOK'
  BY <1>1, ShowsOK
<1>3. MsgsOK'
  BY <1>1, InvFacts, MsgsStay
<1>4. DeskOK(w', odd') /\ CurrentOK(w')
  BY <1>1, InvFacts
<1> QED BY <1>2, <1>3, <1>4 DEF DeskInv

\* an item is added or deleted, the target renamed, the debugger started.
LEMMA ChangesOK ==
  ASSUME DeskInv, AddProjectItem \/ DelProjectItem \/ TargetName \/ Debug
  PROVE  DeskInv'
<1>1. prj \in Project /\ debugger_started \in BOOLEAN
  BY InvFacts DEF ProjectOK, Project
<1>2. [prj EXCEPT !.count = 1] \in Project /\ [prj EXCEPT !.count = 0] \in Project
  BY <1>1 DEF Project
<1>3. \A t \in {"program", "library", "main_source"} : [prj EXCEPT !.target = t] \in Project
  BY <1>1 DEF Project
<1>4. CASE AddProjectItem
  BY <1>1, <1>2, <1>4, ChangeOK DEF AddProjectItem
<1>5. CASE DelProjectItem
  BY <1>1, <1>2, <1>5, ChangeOK DEF DelProjectItem
<1>6. CASE TargetName
  BY <1>1, <1>3, <1>6, ChangeOK DEF TargetName
<1>7. CASE Debug
  <2>1. (~debugger_started) \in BOOLEAN
    BY <1>1
  <2> QED BY <1>1, <1>7, <2>1, ChangeOK DEF Debug
<1> QED BY <1>4, <1>5, <1>6, <1>7

\* Every step keeps the invariant.
LEMMA StepOK == DeskInv /\ [Next]_vars => DeskInv'
<1> SUFFICES ASSUME DeskInv, [Next]_vars PROVE DeskInv'
  OBVIOUS
<1>1. CASE UNCHANGED vars
  <2>1. /\ w' = w /\ prj' = prj /\ debugger_started' = debugger_started /\ msgs' = msgs
        /\ enabled' = enabled /\ odd' = odd
    BY <1>1 DEF vars
  <2>2. MsgsOK'
    BY <2>1, InvFacts, MsgsStay
  <2>3. ProjectOK' /\ EnabledOK'
    BY <2>1, InvFacts DEF ProjectOK, EnabledOK
  <2> QED BY <2>1, <2>2, <2>3, InvFacts DEF DeskInv
<1>2. CASE Next
  <2>1. ASSUME NEW t \in Files, OpenFile(t) PROVE DeskInv'
    BY <2>1, OpenFileOK
  <2>2. ASSUME NEW t \in Files, SaveAs(t) PROVE DeskInv'
    BY <2>2, SaveAsOK
  <2>3. ASSUME NEW t \in Tools, ShowWindow(t) PROVE DeskInv'
    BY <2>3, ShowWindowOK
  <2>4. ASSUME NEW id \in Ids, cmClose(id) PROVE DeskInv'
    BY <2>4, CloseOK
  <2>5. CASE fileNew
    BY <2>5, fileNewOK
  <2>6. CASE ShowClip \/ HideClip \/ SelectWindow
    BY <2>6, SelectingOK
  <2>7. CASE SyntaxHelp
    BY <2>7, SyntaxHelpOK
  <2>8. CASE SelectClosed \/ DeleteClosed
    BY <2>8, ClosedListOK
  <2>9. CASE CheckStderr
    BY <2>9, CheckStderrOK
  <2>10. ASSUME NEW new \in {<<>>} \cup {<<x>> : x \in Places \cup {"text"}},
                NEW old \in BOOLEAN, ShowMessages(new, old)
         PROVE  DeskInv'
    <3>1. new \in News
      BY DEF News, Place
    <3> QED BY <2>10, <3>1, ShowMessagesOK
  <2>11. CASE ClearMessages
    BY <2>11, ClearMessagesOK
  <2>12. CASE cmNextMessage \/ cmPrevMessage
    BY <2>12, NextPrevOK
  <2>13. ASSUME NEW p \in [on : {TRUE}, count : {0, 1}, target : {"program"}] \cup {NoProject},
                OpenProject(p)
         PROVE  DeskInv'
    <3>1. p \in Project
      <4>1. CASE p = NoProject
        BY <4>1 DEF Project, NoProject
      <4>2. CASE p # NoProject
        <5>1. p \in [on : {TRUE}, count : {0, 1}, target : {"program"}]
          BY <4>2
        <5> QED BY <5>1 DEF Project
      <4> QED BY <4>1, <4>2
    <3> QED BY <2>13, <3>1, OpenProjectOK
  <2>14. CASE AddProjectItem \/ DelProjectItem \/ TargetName \/ Debug
    BY <2>14, ChangesOK
  <2> QED
    BY <1>2, <2>1, <2>2, <2>3, <2>4, <2>5, <2>6, <2>7, <2>8, <2>9, <2>10, <2>11, <2>12,
       <2>13, <2>14 DEF Next
<1> QED BY <1>1, <1>2

\* The invariant holds in every state.
THEOREM DeskAlwaysRight == Spec => []DeskInv
<1>1. DeskInv /\ [Next]_vars => DeskInv'
  BY StepOK
<1> QED BY InitOK, <1>1, PTL DEF Spec

(* What it promises *)

\* The invariant promises the types,
LEMMA TypesHold ==
  ASSUME DeskInv
  PROVE  TypeOK
<1>1. /\ DOMAIN w.windows = 1..Len(w.windows)
      /\ \A i \in DOMAIN w.windows : w.windows[i] \in WindowRec
      /\ w.numbers \in SUBSET NumberSet /\ w.pointer \in [Tools -> Ids \cup {None}]
  BY InvFacts, StateTypes
<1>2. w.numbers \subseteq 1..(MaxWindows + 1)
  BY <1>1 DEF NumberSet
<1>3. \A x \in Range(w.windows) : x.id \in Ids /\ x.title \in Title
  BY <1>1 DEF Range, WindowRec
<1>4. w.current \in InList(w) \cup {None, Clip}
  BY InvFacts DEF CurrentOK
<1>5. w.pointer \in [Tools -> InList(w) \cup {None}]
  <2>1. \A t \in Tools : w.pointer[t] \in InList(w) \cup {None}
    BY InvFacts DEF DeskOK, ListOK, PointersHold, InList
  <2> QED BY <1>1, <2>1
<1>6. enabled \subseteq Commands
  BY InvFacts DEF EnabledOK
<1>7. msgs.focused \in 0..Len(msgs.list)
  <2>1. /\ msgs.list \in Seq(Place) /\ msgs.focused \in Nat /\ msgs.focused <= Len(msgs.list)
    BY InvFacts DEF MsgsOK
  <2> QED BY <2>1, LenProperties
<1> QED BY <1>2, <1>3, <1>4, <1>5, <1>6, <1>7 DEF TypeOK

\* the pointers: the window a global points to is the one IdOf finds,
LEMMA PointersAre ==
  ASSUME DeskInv
  PROVE  PointersRight
<1> SUFFICES ASSUME NEW t \in Tools PROVE w.pointer[t] = IdOf(w, t)
  BY DEF PointersRight
<1>1. /\ w.pointer[t] # None =>
           \E i \in DOMAIN w.windows : w.windows[i].id = w.pointer[t] /\ w.windows[i].title = t
      /\ \A i \in DOMAIN w.windows : w.windows[i].title = t => w.pointer[t] = w.windows[i].id
  BY InvFacts DEF DeskOK, ListOK, PointersHold
<1>2. /\ IdOf(w, t) = None <=> NotShown(w, t)
      /\ IdOf(w, t) # None =>
           \E i \in DOMAIN w.windows : w.windows[i].title = t /\ w.windows[i].id = IdOf(w, t)
  BY InvFacts, IdOfIs
<1>3. CASE NotShown(w, t)
  BY <1>1, <1>2, <1>3 DEF NotShown
<1>4. CASE ~NotShown(w, t)
  BY <1>1, <1>2, <1>4
<1> QED BY <1>3, <1>4

\* and all of ListsRight.
LEMMA ListsHold ==
  ASSUME DeskInv
  PROVE  ListsRight
<1>1. DeskOK(w, odd)
  BY DEF DeskInv
<1>2. NumbersRight
  <2>1. SUFFICES ASSUME "freed" \notin odd
                 PROVE  /\ w.numbers = {x.number : x \in Range(w.windows)}
                        /\ \A i, j \in DOMAIN w.windows :
                             w.windows[i].number = w.windows[j].number => i = j
    BY DEF NumbersRight
  <2>2. NumbersExact(w)
    BY <1>1, <2>1 DEF DeskOK, NumbersInv
  <2>3. {x.number : x \in Range(w.windows)} = NumbersOf(w)
    BY DEF Range, NumbersOf
  <2> QED BY <2>2, <2>3 DEF NumbersExact
<1>3. OneWindowPerFile
  <2>1. CASE "same_name" \in odd
    BY <2>1 DEF OneWindowPerFile
  <2>2. CASE "same_name" \notin odd
    <3>1. ShownOnce(w) /\ ClosedOnce(w) /\ Apart(w)
      BY <1>1, <2>2 DEF DeskOK, FilesInv
    <3>2. ASSUME NEW t \in Files
          PROVE  LET Open == {i \in DOMAIN w.windows : w.windows[i].title = t}
                 IN /\ \A i, j \in Open : i = j
                    /\ \A i, j \in IsClosedWindow(w, t) : i = j
                    /\ Open = {} \/ IsClosedWindow(w, t) = {}
      <4>1. \A i, j \in {k \in DOMAIN w.windows : w.windows[k].title = t} : i = j
        BY <3>1 DEF ShownOnce
      <4>2. \A i, j \in IsClosedWindow(w, t) : i = j
        BY <3>1 DEF ClosedOnce, IsClosedWindow
      <4>3. {k \in DOMAIN w.windows : w.windows[k].title = t} = {} \/ IsClosedWindow(w, t) = {}
        BY <3>1 DEF Apart, IsClosedWindow
      <4> QED BY <4>1, <4>2, <4>3
    <3> QED BY <3>2 DEF OneWindowPerFile
  <2> QED BY <2>1, <2>2
<1>4. ClosedBounded
  BY <1>1 DEF DeskOK, FewClosed, ClosedBounded, Range
<1> QED BY <1>2, <1>3, <1>4, TypesHold, PointersAre DEF ListsRight

\* The next message is the least of those after the focused one (tmsglist.cc:42).
LEMMA NextProceeds ==
  ASSUME DeskInv, cmNextMessage
  PROVE  /\ msgs'.focused > msgs.focused
         /\ \A i \in Located : i <= msgs.focused \/ i >= msgs'.focused
<1>1. msgs' = [msgs EXCEPT !.focused = Min(Later)] /\ Later # {}
  BY DEF cmNextMessage, GoTo, FocusMsg, Later
<1>2. msgs'.focused = Min(Later)
  BY <1>1, InvFacts DEF MsgsOK
<1>3. Min(Later) > msgs.focused
  BY <1>1, PicksAre DEF Later
<1>4. ASSUME NEW i \in Located PROVE i <= msgs.focused \/ i >= Min(Later)
  <2>1. i \in Nat /\ msgs.focused \in Nat
    <3>1. msgs.list \in Seq(Place) /\ msgs.focused \in Nat
      BY InvFacts DEF MsgsOK
    <3>2. DOMAIN msgs.list = 1..Len(msgs.list) /\ Len(msgs.list) \in Nat
      BY <3>1, LenProperties
    <3> QED BY <3>1, <3>2 DEF Located
  <2>2. CASE i > msgs.focused
    <3>1. i \in Later
      BY <2>2 DEF Later
    <3>2. Min(Later) <= i /\ Min(Later) \in Later
      BY <1>1, <3>1, PicksAre
    <3>3. Min(Later) \in Nat
      <4>1. msgs.list \in Seq(Place)
        BY InvFacts DEF MsgsOK
      <4>2. DOMAIN msgs.list = 1..Len(msgs.list) /\ Len(msgs.list) \in Nat
        BY <4>1, LenProperties
      <4> QED BY <3>2, <4>2 DEF Later, Located
    <3> QED BY <2>1, <3>2, <3>3
  <2> QED BY <2>1, <2>2
<1> QED BY <1>2, <1>3, <1>4

\* The lists, numbers and pointers of windows are always in step: a window is in
\* Turbo Vision's desktop, in the list and in the global of its kind, whatever
\* desktop files are opened (windowli.cc, ideprj.cc:502).
THEOREM ListsAlwaysRight == Spec => []ListsRight
<1>1. DeskInv => ListsRight
  BY ListsHold
<1> QED BY DeskAlwaysRight, <1>1, PTL

\* No command is enabled whose handler would not find what it uses without asking
\* (update, idemain.cc:442-761).
THEOREM EnabledAlwaysReady == Spec => []EnabledIsReady
<1>1. DeskInv => EnabledIsReady
  BY InvFacts, ReadyHolds
<1> QED BY DeskAlwaysRight, <1>1, PTL

\* Next message always moves down and skips nothing that has a place
\* (tmsglist.cc:42).
THEOREM MessagesAlwaysProceed == Spec => MessagesProceed
<1>1. DeskInv /\ [Next]_vars =>
        [cmNextMessage => /\ msgs'.focused > msgs.focused
                          /\ \A i \in Located : i <= msgs.focused \/ i >= msgs'.focused]_vars
  BY NextProceeds
<1>2. Spec => [][Next]_vars
  BY DEF Spec
<1> QED BY DeskAlwaysRight, <1>1, <1>2, PTL DEF MessagesProceed

====
