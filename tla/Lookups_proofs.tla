---------------------------- MODULE Lookups_proofs ----------------------------
(***************************************************************************)
(* Proofs about what is looked up, for any files, directories, variables and  *)
(* windows: where a file is found, which window shows the place where the    *)
(* program stands, and what a variable is after the directory that set it   *)
(* has been left.                                                           *)
(***************************************************************************)
EXTENDS FileSearch, Viewer, Environment, SequenceTheorems, WellFoundedInduction, TLAPS

(* Numbers and sequences *)

LEMMA LeastExists ==
  ASSUME NEW T \in SUBSET Nat, T # {}
  PROVE  \E x \in T : \A y \in T : x <= y
<1> DEFINE R == {ss \in Nat \X Nat : ss[1] < ss[2]}
<1>1. IsWellFoundedOn(R, Nat)
  BY NatLessThanWellFounded DEF OpToRel
<1>2. \A x, y \in T : ~(<<y, x>> \in R) => x <= y
  OBVIOUS
<1> HIDE DEF R
<1>3. \E x \in T : \A y \in T : ~(<<y, x>> \in R)
  BY <1>1, WFMin
<1> QED BY <1>2, <1>3

\* So Min is that element.
LEMMA MinIs ==
  ASSUME NEW T \in SUBSET Nat, T # {}
  PROVE  Min(T) \in T /\ \A y \in T : Min(T) <= y
<1>1. \E x \in T : \A y \in T : x <= y
  BY LeastExists
<1>2. \A x \in T : \A y \in T : (x <= y) <=> (x =< y)
  OBVIOUS
<1> QED BY <1>1, <1>2 DEF Min

LEMMA Singleton ==
  ASSUME NEW S, NEW x \in S
  PROVE  <<x>> \in Seq(S) /\ Len(<<x>>) = 1 /\ <<x>>[1] = x
OBVIOUS

LEMMA SeqWider ==
  ASSUME NEW S, NEW T, S \subseteq T, NEW s \in Seq(S)
  PROVE  s \in Seq(T)
<1>1. Len(s) \in Nat /\ s \in [1..Len(s) -> S]
  BY LenProperties
<1>2. s \in [1..Len(s) -> T]
  BY <1>1
<1> QED BY <1>1, <1>2, SeqDef

(***************************************************************************)
(* Files that are looked for                                                *)
(***************************************************************************)

\* Each list of directories has one of its values, what is remembered was
\* found, and is right while nothing changed.
Directory == STRING \cup {"ada_include"}
DirsInv == dirs = [l \in DOMAIN Lists |-> dirs[l]] /\ \A l \in DOMAIN Lists : dirs[l] \in Lists[l]
CacheInv ==
  /\ \A n \in DOMAIN FindCache : FileType[n] # "EXE" /\ FindCache[n] # None
  /\ calm => \A n \in DOMAIN FindCache : FindCache[n] = Search(n)
SearchInv == DirsInv /\ CacheInv /\ FilesFound

LEMMA SearchedIsList ==
  ASSUME DirsInv, NEW n \in Names
  PROVE  Searched(n) \in Seq(Directory)
<1> DEFINE l == ListFor(FileType[n])
<1>1. l = "none" \/ dirs[l] \in Seq(Directory)
  <2>1. l = "none" \/ (dirs[l] \in Lists[l] /\ Lists[l] \subseteq Seq(STRING))
    BY SearchAssumption DEF DirsInv, Names
  <2>2. STRING \subseteq Directory
    BY DEF Directory
  <2> HIDE DEF l
  <2> QED BY <2>1, <2>2, SeqWider
<1> HIDE DEF l
<1> DEFINE more == IF FileType[n] = "ADA" THEN <<"ada_include">> ELSE <<>>
<1>2. more \in Seq(Directory) /\ <<>> \in Seq(Directory)
  <2>1. <<>> \in Seq(Directory) /\ <<"ada_include">> \in Seq(Directory)
    BY EmptySeq, Singleton DEF Directory
  <2> QED BY <2>1
<1>3. Searched(n) = IF l = "none" THEN <<>> ELSE dirs[l] \o more
  BY DEF Searched, l
<1> HIDE DEF more
<1> QED BY <1>1, <1>2, <1>3, ConcatProperties

\* A search takes the current directory, or the first directory that has the
\* file, or gives nothing when it is nowhere.
Place1(n, p) ==
  LET there == {i \in DOMAIN Searched(n) : Place(Searched(n)[i], n) \in disk}
  IN IF Place(".", n) \in disk THEN p = Place(".", n)
     ELSE IF there = {} THEN p = None
     ELSE \E i \in there : p = Place(Searched(n)[i], n) /\ \A j \in there : i <= j
LEMMA SearchFinds ==
  ASSUME DirsInv, NEW n \in Names
  PROVE  Place1(n, Search(n))
<1> DEFINE list == Searched(n)
           there == {i \in DOMAIN list : Place(list[i], n) \in disk}
           k == SelectInSeq(list, LAMBDA d : Place(d, n) \in disk)
<1>1. list \in Seq(Directory) /\ DOMAIN list = 1..Len(list) /\ Len(list) \in Nat
  BY SearchedIsList, LenProperties
<1>2. there \in SUBSET Nat
  BY <1>1
<1>3. k = IF there = {} THEN 0 ELSE Min(there)
  <2>1. there = {i \in 1..Len(list) : Place(list[i], n) \in disk}
    BY <1>1
  <2> QED BY <2>1 DEF SelectInSeq
<1>4. Search(n) = IF Place(".", n) \in disk THEN Place(".", n)
                  ELSE IF k = 0 THEN None ELSE Place(list[k], n)
  BY DEF Search
<1>5. there # {} => k \in there /\ k # 0 /\ \A j \in there : k <= j
  <2>1. \A i \in there : i # 0
    BY <1>1
  <2> HIDE DEF there, k
  <2> QED BY <1>2, <1>3, <2>1, MinIs
<1>6. Place1(n, Search(n)) =
        IF Place(".", n) \in disk THEN Search(n) = Place(".", n)
        ELSE IF there = {} THEN Search(n) = None
        ELSE \E i \in there : Search(n) = Place(list[i], n) /\ \A j \in there : i <= j
  BY DEF Place1
<1> HIDE DEF list, there, k
<1> QED BY <1>3, <1>4, <1>5, <1>6

LEMMA Distinct ==
  ASSUME NEW d, NEW n
  PROVE  Place(d, n) # None /\ Place(d, n)[1] = d /\ Place(d, n)[2] = n
BY DEF Place, None

\* What follows is about the cache and the answer, whatever the search is.
LEMMA AskKeeps ==
  ASSUME SearchInv, NEW n \in Names, Ask(n)
  PROVE  SearchInv'
<1> USE DEF SearchInv
<1>1. disk' = disk /\ dirs' = dirs /\ NoFileCache' = NoFileCache /\ calm' = calm
  BY DEF Ask
<1>2. DirsInv'
  BY <1>1 DEF DirsInv
<1>3. \A x : Searched(x)' = Searched(x) /\ Search(x)' = Search(x)
  <2>1. \A x : Searched(x)' = Searched(x)
    BY <1>1 DEF Searched
  <2> QED BY <1>1, <2>1 DEF Search, SelectInSeq
<1>4. Place1(n, Search(n))
  BY SearchFinds
<1>5. CacheInv'
  <2>1. FindCache' = Remembered(n)
    BY DEF Ask
  <2>2. CASE Cached(n) /\ ~Hit(n) /\ Search(n) # None
    <3>1. FindCache' = With(n, Search(n))
      BY <2>1, <2>2 DEF Remembered
    <3>2. /\ DOMAIN FindCache' = DOMAIN FindCache \cup {n}
          /\ \A x \in DOMAIN FindCache' : FindCache'[x] = IF x = n THEN Search(n) ELSE FindCache[x]
      BY <3>1 DEF With
    <3>3. FileType[n] # "EXE"
      BY <2>2 DEF Cached
    <3>4. \A x \in DOMAIN FindCache' : FileType[x] # "EXE" /\ FindCache'[x] # None
      BY <2>2, <3>2, <3>3 DEF CacheInv
    <3>5. calm => \A x \in DOMAIN FindCache' : FindCache'[x] = Search(x)
      BY <3>2 DEF CacheInv
    <3> QED BY <1>1, <1>3, <3>4, <3>5 DEF CacheInv
  <2>3. CASE ~(Cached(n) /\ ~Hit(n) /\ Search(n) # None)
    <3>1. FindCache' = FindCache
      BY <2>1, <2>3 DEF Remembered
    <3> QED BY <1>1, <1>3, <3>1 DEF CacheInv
  <2> QED BY <2>2, <2>3
<1>6. FilesFound'
  <2>1. answer' = FindFile(n)
    BY DEF Ask
  <2>2. /\ answer'.name = n /\ (answer'.found <=> Lookup(n) # None)
        /\ answer'.found => answer'.full = Lookup(n)
    BY <2>1 DEF FindFile, Answer
  <2>3. ~answer'.found => Search(n) = None
    <3>1. Hit(n) => Lookup(n) = FindCache[n] /\ FindCache[n] # None
      BY DEF Lookup, Hit, CacheInv
    <3>2. ~Hit(n) => Lookup(n) = Search(n)
      BY DEF Lookup
    <3> QED BY <2>2, <3>1, <3>2
  <2>4. answer'.found /\ (calm \/ NoFileCache) => answer'.full = Search(n) /\ Search(n) # None
    <3>1. Hit(n) => ~NoFileCache /\ n \in DOMAIN FindCache
      BY DEF Hit, Cached
    <3>2. calm /\ n \in DOMAIN FindCache => FindCache[n] = Search(n)
      BY DEF CacheInv
    <3>3. Lookup(n) = IF Hit(n) THEN FindCache[n] ELSE Search(n)
      BY DEF Lookup
    <3> QED BY <2>2, <3>1, <3>2, <3>3
  <2> DEFINE list == Searched(n)
             there == {i \in DOMAIN list : Place(list[i], n) \in disk}
  <2>5. /\ Place(".", n) \in disk => Search(n) = Place(".", n)
        /\ Place(".", n) \notin disk /\ there = {} => Search(n) = None
        /\ Place(".", n) \notin disk /\ there # {} =>
             \E i \in there : Search(n) = Place(list[i], n) /\ \A j \in there : i <= j
    BY <1>4 DEF Place1
  <2>6. Search(n) = None => Place(".", n) \notin disk /\ there = {}
    <3>1. Place(".", n) # None /\ \A i \in there : Place(list[i], n) # None
      BY Distinct
    <3> HIDE DEF list, there
    <3> QED BY <2>5, <3>1
  <2>7. Search(n) # None =>
          /\ Search(n) \in disk /\ Search(n)[2] = n
          /\ IF Place(".", n) \in disk THEN Search(n)[1] = "."
             ELSE \E i \in there : Search(n)[1] = list[i] /\ \A j \in there : i <= j
    <3>1. /\ Place(".", n)[1] = "." /\ Place(".", n)[2] = n
          /\ \A i \in there : /\ Place(list[i], n)[1] = list[i] /\ Place(list[i], n)[2] = n
                              /\ Place(list[i], n) \in disk
      BY Distinct
    <3> HIDE DEF list, there
    <3> QED BY <2>5, <3>1
  <2>8. n \in DOMAIN FindCache' => FileType[n] # "EXE"
    BY <1>5 DEF CacheInv
  <2> HIDE DEF list, there
  <2>9. LET m == answer'.name
        IN /\ ~answer'.found => Place(".", m) \notin disk /\ there = {}
           /\ answer'.found /\ (calm \/ NoFileCache) =>
                /\ answer'.full \in disk /\ answer'.full[2] = m
                /\ IF Place(".", m) \in disk THEN answer'.full[1] = "."
                   ELSE \E i \in there : answer'.full[1] = list[i] /\ \A j \in there : i <= j
           /\ m \in DOMAIN FindCache' => FileType[m] # "EXE"
    BY <2>2, <2>3, <2>4, <2>6, <2>7, <2>8
  <2>10. Searched(answer.name)' = list
    BY <1>3, <2>2 DEF list
  <2> QED BY <1>1, <2>2, <2>9, <2>10 DEF FilesFound, list, there
<1> QED BY <1>2, <1>5, <1>6

\* While an answer waits, only its use is possible: every other step starts and
\* ends without one.
LEMMA NoAnswerIsRight ==
  ASSUME answer' = NoAnswer
  PROVE  FilesFound'
BY DEF FilesFound

\* Steps of the user and of other programs change the lists, the files or the
\* cache.
LEMMA OthersKeep ==
  ASSUME SearchInv, SearchNext, ~(\E n \in Names : Ask(n))
  PROVE  SearchInv'
<1> USE DEF SearchInv
<1>1. ASSUME UNCHANGED <<dirs, FindCache>>, calm' = FALSE \/ (calm' = calm /\ disk' = disk)
      PROVE  DirsInv' /\ CacheInv'
  <2>1. DirsInv'
    BY <1>1 DEF DirsInv
  <2>2. calm' => \A x : Search(x)' = Search(x)
    <3> SUFFICES ASSUME calm' PROVE \A x : Search(x)' = Search(x)
      OBVIOUS
    <3>1. disk' = disk /\ \A x : Searched(x)' = Searched(x)
      BY <1>1 DEF Searched
    <3> QED BY <3>1 DEF Search, SelectInSeq
  <2> QED BY <1>1, <2>1, <2>2 DEF CacheInv
<1>2. CASE Use
  <2>1. answer' = NoAnswer
    BY <1>2 DEF Use
  <2> QED BY <1>1, <1>2, <2>1, NoAnswerIsRight DEF Use
<1>3. ASSUME NEW p \in MayAppear, Elsewhere(p) PROVE SearchInv'
  <2>1. answer' = NoAnswer /\ UNCHANGED <<dirs, FindCache>> /\ calm' = FALSE
    BY <1>3 DEF Elsewhere
  <2> QED BY <1>1, <2>1, NoAnswerIsRight
<1>4. ASSUME NEW l \in DOMAIN Lists, NEW d \in Lists[l], EditDirList(l, d) PROVE SearchInv'
  <2>1. /\ answer' = NoAnswer /\ FindCache' = FindCache /\ calm' = FALSE
        /\ dirs' = [dirs EXCEPT ![l] = d]
    BY <1>4 DEF EditDirList
  <2>2. DirsInv'
    BY <1>4, <2>1 DEF DirsInv
  <2>3. CacheInv'
    BY <2>1 DEF CacheInv
  <2> QED BY <2>1, <2>2, <2>3, NoAnswerIsRight
<1>5. CASE SwitchCache
  <2>1. answer' = NoAnswer /\ UNCHANGED <<dirs, FindCache, calm, disk>>
    BY <1>5 DEF SwitchCache
  <2> QED BY <1>1, <2>1, NoAnswerIsRight
<1>6. CASE ClearFindCache
  <2>1. answer' = NoAnswer /\ dirs' = dirs /\ FindCache' = <<>>
    BY <1>6 DEF ClearFindCache, NoCache
  <2>2. DirsInv'
    BY <2>1 DEF DirsInv
  <2>3. CacheInv'
    <3>1. DOMAIN FindCache' = {}
      BY <2>1
    <3> QED BY <3>1 DEF CacheInv
  <2> QED BY <2>1, <2>2, <2>3, NoAnswerIsRight
<1>7. ASSUME NEW p \in Archives, CheckoutRCSFile(p[2]) PROVE SearchInv'
  <2>1. answer' = NoAnswer /\ UNCHANGED <<dirs, FindCache>> /\ calm' = FALSE
    BY <1>7 DEF CheckoutRCSFile
  <2> QED BY <1>1, <2>1, NoAnswerIsRight
\* the compiler looks for the source that came out of the archive
<1>8. CASE Compiled
  <2> DEFINE n == checkedout[2]
  <2>1. answer' = NoAnswer /\ dirs' = dirs /\ FindCache' = Remembered(n) /\ calm' = FALSE
    BY <1>8 DEF Compiled
  <2> HIDE DEF n
  <2>2. DirsInv'
    BY <2>1 DEF DirsInv
  <2>3. CacheInv'
    <3>1. CASE Cached(n) /\ ~Hit(n) /\ Search(n) # None
      <4>1. FindCache' = With(n, Search(n))
        BY <2>1, <3>1 DEF Remembered
      <4>2. /\ DOMAIN FindCache' = DOMAIN FindCache \cup {n}
            /\ \A x \in DOMAIN FindCache' : FindCache'[x] = IF x = n THEN Search(n) ELSE FindCache[x]
        BY <4>1 DEF With
      <4>3. FileType[n] # "EXE"
        BY <3>1 DEF Cached
      <4> QED BY <2>1, <3>1, <4>2, <4>3 DEF CacheInv
    <3>2. CASE ~(Cached(n) /\ ~Hit(n) /\ Search(n) # None)
      <4>1. FindCache' = FindCache
        BY <2>1, <3>2 DEF Remembered
      <4> QED BY <2>1, <4>1 DEF CacheInv
    <3> QED BY <3>1, <3>2
  <2> QED BY <2>1, <2>2, <2>3, NoAnswerIsRight
<1> QED BY <1>2, <1>3, <1>4, <1>5, <1>6, <1>7, <1>8 DEF SearchNext

\* The cache says of a name what is remembered, and what is remembered was found
\* in the order of the search and is right until something changes
\* (ideutil.cc:206-317).
THEOREM FilesAreFound == SearchSpec => []FilesFound
<1>1. SearchInit => SearchInv
  <2> SUFFICES ASSUME SearchInit PROVE SearchInv
    OBVIOUS
  <2>1. dirs = [l \in DOMAIN Lists |-> CHOOSE d \in Lists[l] : TRUE]
    BY DEF SearchInit
  <2>2. \A l \in DOMAIN Lists : (CHOOSE d \in Lists[l] : TRUE) \in Lists[l]
    BY SearchAssumption
  <2>3. DirsInv
    BY <2>1, <2>2 DEF DirsInv
  <2>4. CacheInv
    <3>1. FindCache = <<>>
      BY DEF SearchInit
    <3>2. DOMAIN FindCache = {}
      BY <3>1
    <3> QED BY <3>2 DEF CacheInv
  <2>5. FilesFound
    BY DEF SearchInit, FilesFound
  <2> QED BY <2>3, <2>4, <2>5 DEF SearchInv
<1>2. SearchInv /\ [SearchNext]_searchvars => SearchInv'
  <2> SUFFICES ASSUME SearchInv, [SearchNext]_searchvars PROVE SearchInv'
    OBVIOUS
  <2>1. CASE UNCHANGED searchvars
    <3>1. UNCHANGED <<disk, dirs, FindCache, NoFileCache, answer, calm>>
      BY <2>1 DEF searchvars
    <3>2. \A x : Searched(x)' = Searched(x)
      BY <3>1 DEF Searched
    <3>3. \A x : Search(x)' = Search(x)
      BY <3>1, <3>2 DEF Search, SelectInSeq
    <3>4. DirsInv' /\ CacheInv'
      BY <3>1, <3>3 DEF SearchInv, DirsInv, CacheInv
    <3>5. FilesFound' = FilesFound
      BY <3>1, <3>2 DEF FilesFound
    <3> QED BY <3>4, <3>5 DEF SearchInv
  <2>2. CASE \E n \in Names : Ask(n)
    BY <2>2, AskKeeps
  <2>3. CASE SearchNext /\ ~(\E n \in Names : Ask(n))
    BY <2>3, OthersKeep
  <2> QED BY <2>1, <2>2, <2>3
<1>3. SearchInv => FilesFound
  BY DEF SearchInv
<1> QED BY <1>1, <1>2, <1>3, PTL DEF SearchSpec

(***************************************************************************)
(* Windows of the stand-alone debugger                                      *)
(***************************************************************************)

Files == FirstSources \cup ComeAndGo
FileName == (STRING \X STRING) \cup {NoFile}
Windows == [view : Views, file : Files]
Desks ==
  [windows : Seq(Windows), current : Nat, dis_win : BOOLEAN, current_editor : Views \cup {NoView},
   CPULine : Nat, lastSkippedName : FileName, src_dirs : Seq(STRING)]
Runs ==
  [up : BOOLEAN, started : BOOLEAN, stop : Stops \cup {NoStop}, shown : Files \cup {NoFile},
   asked : BOOLEAN, closed : BOOLEAN]
\* No two windows are at the same address.
Separate(ws) == \A i, j \in DOMAIN ws : ws[i].view = ws[j].view => i = j
Good(d) == d \in Desks /\ Separate(d.windows)

LEMMA ViewNumbers == /\ Views \subseteq Nat /\ NoView \notin Views /\ NoView \in Nat
                     /\ DisWin \in Nat /\ 1 \in Views /\ NoLine \in Nat
BY ViewerAssumption DEF Views, NoView, DisWin, NoLine

LEMMA FilesArePairs ==
  ASSUME NEW f \in STRING \X STRING
  PROVE  f # NoFile /\ f = <<f[1], f[2]>> /\ f[1] \in STRING
BY DEF NoFile

LEMMA FilesAreNames ==
  /\ Files \subseteq STRING \X STRING /\ NoFile \notin Files
  /\ \A f \in STRING \X STRING : f \in FileName
<1>1. Files \subseteq STRING \X STRING
  BY ViewerAssumption DEF Files
<1>2. \A f \in Files : f # NoFile
  BY <1>1, FilesArePairs
<1> QED BY <1>1, <1>2 DEF FileName

LEMMA WindowsOf ==
  ASSUME NEW d, Good(d)
  PROVE  /\ d.windows \in Seq(Windows) /\ Len(d.windows) \in Nat
         /\ DOMAIN d.windows = 1..Len(d.windows)
         /\ \A i \in DOMAIN d.windows :
              /\ d.windows[i] \in Windows /\ d.windows[i].view \in Views
              /\ d.windows[i].file \in Files /\ d.windows[i].view \in Open(d)
         /\ Open(d) \subseteq Views
         /\ \A v \in Open(d) : \E i \in DOMAIN d.windows : d.windows[i].view = v
<1>1. d.windows \in Seq(Windows)
  BY DEF Good, Desks
<1>2. Len(d.windows) \in Nat /\ DOMAIN d.windows = 1..Len(d.windows)
  BY <1>1, LenProperties
<1>3. \A i \in DOMAIN d.windows : d.windows[i] \in Windows
  BY <1>1, <1>2, ElementOfSeq
<1> QED BY <1>1, <1>2, <1>3 DEF Windows, Open

\* So the file in a window is that of its entry.
LEMMA FileIs ==
  ASSUME NEW d, Good(d), NEW i \in DOMAIN d.windows
  PROVE  FileOf(d, d.windows[i].view) = d.windows[i].file
<1> DEFINE v == d.windows[i].view
           x == CHOOSE y \in Range(d.windows) : y.view = v
<1>1. d.windows[i] \in Range(d.windows) /\ d.windows[i].view = v
  BY DEF Range
<1>2. x \in Range(d.windows) /\ x.view = v
  BY <1>1
<1>3. FileOf(d, v) = x.file
  BY DEF FileOf
<1> HIDE DEF x
<1>4. PICK j \in DOMAIN d.windows : d.windows[j] = x
  BY <1>2 DEF Range
<1>5. j = i
  BY <1>2, <1>4 DEF Good, Separate
<1> QED BY <1>3, <1>4, <1>5

\* A window is opened at an address of its own: the others stay as they are.
LEMMA NewWindow ==
  ASSUME NEW d, Good(d), NEW v \in Views \ Open(d), NEW f \in Files, NEW e \in Desks,
         e.windows = Append(d.windows, [view |-> v, file |-> f])
  PROVE  /\ Good(e) /\ v \in Open(e) /\ FileOf(e, v) = f /\ Open(d) \subseteq Open(e)
         /\ \A u \in Open(d) : FileOf(e, u) = FileOf(d, u)
<1> DEFINE n == Len(d.windows)
           x == [view |-> v, file |-> f]
<1>1. /\ d.windows \in Seq(Windows) /\ n \in Nat /\ DOMAIN d.windows = 1..n
      /\ \A i \in 1..n : d.windows[i].view \in Open(d)
      /\ \A u \in Open(d) : \E i \in 1..n : d.windows[i].view = u
  BY WindowsOf
<1>2. x.view = v /\ x.file = f
  OBVIOUS
<1>3. x \in Windows
  BY DEF Windows
<1> HIDE DEF x
<1>4. /\ DOMAIN e.windows = 1..(n + 1) /\ e.windows[n + 1] = x
      /\ \A i \in 1..n : e.windows[i] = d.windows[i]
  <2>1. e.windows = Append(d.windows, x)
    BY DEF x
  <2>2. /\ Append(d.windows, x) \in Seq(Windows) /\ Len(Append(d.windows, x)) = n + 1
        /\ \A i \in 1..n : Append(d.windows, x)[i] = d.windows[i]
        /\ Append(d.windows, x)[n + 1] = x
    BY <1>1, <1>3, AppendProperties
  <2> QED BY <2>1, <2>2, LenProperties
<1>5. \A i \in 1..(n + 1) : i \in 1..n \/ i = n + 1
  BY <1>1
<1>6. \A i \in 1..n : i # n + 1 /\ i \in 1..(n + 1)
  BY <1>1
<1>7. n + 1 \in 1..(n + 1)
  BY <1>1
<1> HIDE DEF n
<1>8. \A i \in 1..n : e.windows[i].view # v
  BY <1>1, <1>4
<1>9. Separate(e.windows)
  <2> SUFFICES ASSUME NEW i \in 1..(n + 1), NEW j \in 1..(n + 1),
                      e.windows[i].view = e.windows[j].view
               PROVE  i = j
    BY <1>4 DEF Separate
  <2>1. CASE i \in 1..n /\ j \in 1..n
    <3>1. d.windows[i].view = d.windows[j].view
      BY <1>4, <2>1
    <3> QED BY <1>1, <2>1, <3>1 DEF Good, Separate
  <2>2. CASE i = n + 1 \/ j = n + 1
    BY <1>2, <1>4, <1>5, <1>8, <2>2
  <2> QED BY <1>5, <2>1, <2>2
<1>10. Good(e)
  BY <1>9 DEF Good
<1>11. v \in Open(e) /\ FileOf(e, v) = f
  BY <1>2, <1>4, <1>7, <1>10, WindowsOf, FileIs
<1>12. ASSUME NEW u \in Open(d) PROVE u \in Open(e) /\ FileOf(e, u) = FileOf(d, u)
  <2>1. PICK i \in 1..n : d.windows[i].view = u
    BY <1>1
  <2>2. e.windows[i] = d.windows[i] /\ i \in DOMAIN e.windows /\ i \in DOMAIN d.windows
    BY <1>1, <1>4, <1>6
  <2>3. FileOf(e, e.windows[i].view) = e.windows[i].file /\ e.windows[i].view \in Open(e)
    BY <1>10, <2>2, WindowsOf, FileIs
  <2>4. FileOf(d, d.windows[i].view) = d.windows[i].file
    BY <2>2, FileIs
  <2> QED BY <2>1, <2>2, <2>3, <2>4
<1> QED BY <1>10, <1>11, <1>12

\* Where find_file gives a name, it is that of a file there is, with the last
\* part of the name that was looked for.
LEMMA FindGives ==
  ASSUME NEW name, NEW ds \in Seq(STRING), find_file(name, ds) # NoFile
  PROVE  find_file(name, ds) \in sources /\ find_file(name, ds)[2] = name[2]
<1> DEFINE there == {i \in 1..Len(ds) : <<ds[i], name[2]>> \in sources}
           k == IF there # {} THEN Min(there) ELSE 0
<1>1. find_file(name, ds) = IF name \in sources THEN name
                              ELSE IF k = 0 THEN NoFile ELSE <<ds[k], name[2]>>
  BY DEF find_file, SelectInSeq
<1>2. k # 0 => k \in there
  <2>1. there \in SUBSET Nat
    BY LenProperties
  <2> HIDE DEF there
  <2> QED BY <2>1, MinIs
<1>3. \A i \in there : <<ds[i], name[2]>> \in sources /\ <<ds[i], name[2]>>[2] = name[2]
  OBVIOUS
<1> HIDE DEF there, k
<1>4. CASE name \in sources
  BY <1>1, <1>4
<1>5. CASE name \notin sources
  <2>1. k # 0 /\ find_file(name, ds) = <<ds[k], name[2]>>
    BY <1>1, <1>5
  <2> QED BY <1>2, <1>3, <2>1
<1> QED BY <1>4, <1>5

\* What a call of OpenViewer may do to the desktop: nothing is closed; when it
\* says that it failed, nothing is shown that was not; when the debugger calls
\* and it did not, a file of that name is shown with the line.
Kept(d, e) ==
  /\ Open(d) \subseteq Open(e)
  /\ \A u \in Open(d) : FileOf(e, u) = FileOf(d, u)
SameMark(d, e) == e.current_editor = d.current_editor /\ e.CPULine = d.CPULine
Opened(d, o, name, line, from_debugger) ==
  /\ Good(o.desk) /\ Kept(d, o.desk) /\ o.ok \in BOOLEAN
  /\ ~from_debugger => SameMark(d, o.desk)
  /\ ~o.ok => SameMark(d, o.desk) /\ o.desk.windows = d.windows
  /\ o.ok /\ from_debugger =>
       /\ o.desk.current_editor \in Open(o.desk) /\ o.desk.CPULine = line
       /\ o.asked = {} => FileOf(o.desk, o.desk.current_editor)[2] = name[2]

LEMMA SameWindows ==
  ASSUME NEW d, Good(d), NEW e \in Desks, e.windows = d.windows
  PROVE  Good(e) /\ Kept(d, e)
<1>1. Good(e)
  BY DEF Good
<1>2. Open(e) = Open(d)
  BY DEF Open
<1>3. \A u : FileOf(e, u) = FileOf(d, u)
  BY DEF FileOf
<1> QED BY <1>1, <1>2, <1>3 DEF Kept

LEMMA KeptTwice ==
  ASSUME NEW d, NEW e, NEW f, Kept(d, e), Kept(e, f)
  PROVE  Kept(d, f)
BY DEF Kept

\* The window that shows a file of the name already
LEMMA ShownIs ==
  ASSUME NEW d, Good(d), NEW name, Shown(d, name) # NoView
  PROVE  Shown(d, name) \in Open(d) /\ FileOf(d, Shown(d, name))[2] = name[2]
<1> DEFINE ws == {i \in 1..Len(d.windows) : d.windows[i].file[2] = name[2]}
           k == IF ws # {} THEN Min(ws) ELSE 0
<1>1. Shown(d, name) = IF k = 0 THEN NoView ELSE d.windows[k].view
  BY DEF Shown, SelectInSeq
<1>2. k # 0 => k \in ws
  <2>1. ws \in SUBSET Nat
    BY WindowsOf
  <2> HIDE DEF ws
  <2> QED BY <2>1, MinIs
<1>3. \A i \in ws : i \in DOMAIN d.windows /\ d.windows[i].file[2] = name[2]
  BY WindowsOf
<1> HIDE DEF ws, k
<1>4. k \in ws /\ Shown(d, name) = d.windows[k].view
  BY <1>1, <1>2
<1> QED BY <1>3, <1>4, WindowsOf, FileIs

LEMMA MarkDoes ==
  ASSUME NEW d \in Desks, NEW v \in Views, NEW line \in Nat, NEW fd \in BOOLEAN
  PROVE  /\ Mark(d, v, line, fd) \in Desks /\ Mark(d, v, line, fd).windows = d.windows
         /\ fd => Mark(d, v, line, fd).current_editor = v /\ Mark(d, v, line, fd).CPULine = line
         /\ ~fd => SameMark(d, Mark(d, v, line, fd))
BY DEF Mark, Desks, SameMark

LEMMA ShowInDoes ==
  ASSUME NEW d, Good(d), NEW v \in Open(d), NEW line \in Nat, NEW fd \in BOOLEAN, NEW only \in BOOLEAN
  PROVE  LET e == ShowIn(d, v, line, fd, only)
         IN /\ Good(e) /\ Kept(d, e)
            /\ fd => e.current_editor = v /\ e.CPULine = line /\ v \in Open(e) /\ FileOf(e, v) = FileOf(d, v)
            /\ ~fd => SameMark(d, e)
<1> DEFINE e == ShowIn(d, v, line, fd, only)
           m == Mark(d, v, line, fd)
<1>1. d \in Desks /\ v \in Views /\ v \in Nat
  BY WindowsOf, ViewNumbers DEF Good
<1>2. /\ m \in Desks /\ m.windows = d.windows
      /\ fd => m.current_editor = v /\ m.CPULine = line
      /\ ~fd => SameMark(d, m)
  BY <1>1, MarkDoes
<1>3. \E c \in Nat : e = [m EXCEPT !.current = c]
  <2>1. m.current \in Nat
    BY <1>2 DEF Desks
  <2> DEFINE c == IF only /\ m.current # NoView THEN m.current ELSE v
  <2>2. c \in Nat /\ e = [m EXCEPT !.current = c]
    BY <1>1, <2>1 DEF ShowIn
  <2> QED BY <2>2
<1> HIDE DEF e, m
<1>4. /\ e \in Desks /\ e.windows = m.windows
      /\ e.current_editor = m.current_editor /\ e.CPULine = m.CPULine
  BY <1>2, <1>3 DEF Desks
<1>5. Good(e) /\ Kept(d, e)
  BY <1>2, <1>4, SameWindows
<1> QED BY <1>2, <1>4, <1>5 DEF Kept, SameMark, e

LEMMA ShowNewDoes ==
  ASSUME NEW d, Good(d), Fits(d), NEW f \in Files, NEW line \in Nat, NEW fd \in BOOLEAN, NEW only \in BOOLEAN
  PROVE  LET e == ShowNew(d, f, line, fd, only)
         IN /\ Good(e) /\ Kept(d, e)
            /\ fd => e.current_editor \in Open(e) /\ e.CPULine = line /\ FileOf(e, e.current_editor) = f
            /\ ~fd => SameMark(d, e)
<1> DEFINE e == ShowNew(d, f, line, fd, only)
           v == CHOOSE x \in Views \ Open(d) : TRUE
           x == [view |-> v, file |-> f]
           a == AddView(d, f)
           m == Mark(a, v, line, fd)
<1>1. v \in Views \ Open(d)
  BY DEF Fits
<1>2. a = [d EXCEPT !.windows = Append(@, x), !.current = v]
  BY DEF AddView
<1> HIDE DEF v
<1>3. v \in Nat /\ d \in Desks /\ x \in Windows
  BY <1>1, ViewNumbers DEF Good, Windows
<1>4. a \in Desks /\ a.windows = Append(d.windows, x) /\ a.current = v /\ SameMark(d, a)
  <2>1. Append(d.windows, x) \in Seq(Windows)
    BY <1>3, AppendProperties, WindowsOf
  <2> HIDE DEF x, a
  <2> QED BY <1>2, <1>3, <2>1 DEF Desks, SameMark
<1>5. Good(a) /\ v \in Open(a) /\ FileOf(a, v) = f /\ Kept(d, a)
  <2> HIDE DEF a
  <2> QED BY <1>1, <1>4, NewWindow DEF Kept
<1>6. \E c \in Nat : e = [m EXCEPT !.current = c]
  <2>1. e = [Mark(a, a.current, line, fd) EXCEPT !.current = IF only /\ d.current # NoView THEN d.current ELSE @]
    BY DEF ShowNew
  <2>2. m \in Desks
    <3> HIDE DEF a
    <3> QED BY <1>1, <1>4, MarkDoes
  <2>3. d.current \in Nat /\ m.current \in Nat
    BY <1>3, <2>2 DEF Desks
  <2>4. a.current = v
    BY <1>4
  <2> DEFINE c == IF only /\ d.current # NoView THEN d.current ELSE m.current
  <2>5. c \in Nat
    BY <2>3
  <2>6. e = [m EXCEPT !.current = c]
    <3> HIDE DEF a, e
    <3> QED BY <2>1, <2>4
  <2> HIDE DEF c
  <2> QED BY <2>5, <2>6
<1>7. /\ m \in Desks /\ m.windows = a.windows
      /\ fd => m.current_editor = v /\ m.CPULine = line
      /\ ~fd => SameMark(a, m)
  <2>1. a \in Desks /\ v \in Views
    BY <1>1, <1>4
  <2> HIDE DEF a
  <2> QED BY <2>1, MarkDoes
<1> HIDE DEF e, m, a, x
<1>8. /\ e \in Desks /\ e.windows = a.windows
      /\ e.current_editor = m.current_editor /\ e.CPULine = m.CPULine
  BY <1>6, <1>7 DEF Desks
<1>9. Good(e) /\ Kept(a, e)
  BY <1>5, <1>8, SameWindows
<1>10. Good(e) /\ Kept(d, e) /\ v \in Open(e) /\ FileOf(e, v) = f
  BY <1>5, <1>9, KeptTwice DEF Kept
<1> QED BY <1>4, <1>7, <1>8, <1>10 DEF SameMark, e

\* What the user says when a name is not found.
Said1 == [file : sources \cup {NoFile}, add : BOOLEAN]

LEMMA OpenViewerDoes ==
  ASSUME sources \subseteq Files, NEW d, Good(d), Fits(d), NEW name \in FileName, NEW line \in Nat,
         NEW fd \in BOOLEAN, NEW only \in BOOLEAN, fd => ~only, NEW a \in Said1
  PROVE  Opened(d, OpenViewer(d, name, line, fd, only, a), name, line, fd)
<1> DEFINE v == Shown(d, name)
           file == find_file(name, d.src_dirs)
           o == OpenViewer(d, name, line, fd, only, a)
<1>1. d \in Desks /\ d.src_dirs \in Seq(STRING)
  BY DEF Good, Desks
<1>2. d.windows = d.windows /\ Kept(d, d) /\ SameMark(d, d)
  BY <1>1, SameWindows DEF SameMark
<1>3. CASE v # NoView
  <2> DEFINE e == ShowIn(d, v, line, fd, only)
  <2>1. o = [desk |-> e, ok |-> TRUE, asked |-> {}]
    BY <1>3 DEF OpenViewer, Outcome
  <2>2. v \in Open(d) /\ FileOf(d, v)[2] = name[2]
    BY <1>3, ShownIs
  <2> HIDE DEF v
  <2>3. /\ Good(e) /\ Kept(d, e)
        /\ fd => e.current_editor = v /\ e.CPULine = line /\ v \in Open(e) /\ FileOf(e, v) = FileOf(d, v)
        /\ ~fd => SameMark(d, e)
    BY <2>2, ShowInDoes
  <2> HIDE DEF e, o
  <2> QED BY <2>1, <2>2, <2>3 DEF Opened, o
<1>4. CASE v = NoView /\ file # NoFile
  <2> DEFINE e == ShowNew(d, file, line, fd, only)
  <2>1. o = [desk |-> e, ok |-> TRUE, asked |-> {}]
    BY <1>4 DEF OpenViewer, Outcome
  <2>2. file \in Files /\ file[2] = name[2]
    BY <1>1, <1>4, FindGives
  <2> HIDE DEF file
  <2>3. /\ Good(e) /\ Kept(d, e)
        /\ fd => e.current_editor \in Open(e) /\ e.CPULine = line /\ FileOf(e, e.current_editor) = file
        /\ ~fd => SameMark(d, e)
    BY <2>2, ShowNewDoes
  <2> HIDE DEF e, o
  <2> QED BY <2>1, <2>2, <2>3 DEF Opened, o
<1>5. CASE v = NoView /\ file = NoFile /\ only
  <2>1. o = [desk |-> d, ok |-> TRUE, asked |-> {}]
    BY <1>5 DEF OpenViewer, Outcome
  <2>2. ~fd
    BY <1>5
  <2> HIDE DEF o
  <2>3. o.desk = d /\ o.ok = TRUE
    BY <2>1
  <2> QED BY <1>2, <2>2, <2>3 DEF Opened, o
<1>6. CASE v = NoView /\ file = NoFile /\ ~only /\ d.lastSkippedName = name
  <2>1. o = [desk |-> d, ok |-> FALSE, asked |-> {}]
    BY <1>6 DEF OpenViewer, Outcome
  <2> HIDE DEF o
  <2> QED BY <1>2, <2>1 DEF Opened, o
<1>7. CASE v = NoView /\ file = NoFile /\ ~only /\ d.lastSkippedName # name
  <2>1. o = IF a.file = NoFile THEN Skip(d, name) ELSE Given(d, name, a, line, fd, only)
    BY <1>7 DEF OpenViewer
  <2>2. CASE a.file = NoFile
    <3> DEFINE e == [d EXCEPT !.lastSkippedName = name]
    <3>1. o = [desk |-> e, ok |-> FALSE, asked |-> {name}]
      BY <2>1, <2>2 DEF Skip, Outcome
    <3>2. e \in Desks /\ e.windows = d.windows /\ SameMark(d, e)
      BY <1>1 DEF Desks, SameMark
    <3> HIDE DEF e, o
    <3>3. Good(e) /\ Kept(d, e)
      BY <3>2, SameWindows
    <3> QED BY <3>1, <3>2, <3>3 DEF Opened, o
  <2>3. CASE a.file # NoFile
    <3> DEFINE ds == IF a.add THEN Append(d.src_dirs, a.file[1]) ELSE d.src_dirs
               c == [d EXCEPT !.lastSkippedName = NoFile, !.src_dirs = ds]
               e == ShowNew(c, a.file, line, fd, only)
    <3>1. a.file \in sources
      BY <2>3 DEF Said1
    <3>2. a.file \in Files /\ a.file[1] \in STRING
      <4>1. a.file \in STRING \X STRING
        BY <3>1, FilesAreNames
      <4> QED BY <3>1, <4>1, FilesArePairs
    <3>3. ds \in Seq(STRING)
      BY <1>1, <3>2, AppendProperties
    <3>4. o = [desk |-> e, ok |-> TRUE, asked |-> {name}]
      BY <2>1, <2>3 DEF Given, Outcome
    <3> HIDE DEF ds
    <3>5. c \in Desks /\ c.windows = d.windows /\ SameMark(d, c)
      <4>1. NoFile \in FileName
        BY DEF FileName
      <4> QED BY <1>1, <3>3, <4>1 DEF Desks, SameMark
    <3> HIDE DEF c
    <3>6. Good(c) /\ Kept(d, c)
      BY <3>5, SameWindows
    <3>7. Fits(c)
      BY <3>5 DEF Fits, Open
    <3>8. /\ Good(e) /\ Kept(c, e)
          /\ fd => e.current_editor \in Open(e) /\ e.CPULine = line
          /\ ~fd => SameMark(c, e)
      BY <3>2, <3>6, <3>7, ShowNewDoes
    <3> HIDE DEF e, o
    <3>9. Kept(d, e)
      BY <3>6, <3>8, KeptTwice
    <3> QED BY <3>4, <3>5, <3>8, <3>9 DEF Opened, SameMark, o
  <2> QED BY <2>2, <2>3
<1> QED BY <1>3, <1>4, <1>5, <1>6, <1>7

\* One name after the other, until a file is shown: told of an outcome o that
\* began with the desktop d, the names tried so far being ns.
Tried(d, o, ns, line) ==
  /\ Good(o.desk) /\ Kept(d, o.desk) /\ o.ok \in BOOLEAN
  /\ ~o.ok => SameMark(d, o.desk) /\ o.desk.windows = d.windows
  /\ o.ok =>
       /\ o.desk.current_editor \in Open(o.desk) /\ o.desk.CPULine = line
       /\ o.asked = {} => \E n \in ns \ {NoFile} : FileOf(o.desk, o.desk.current_editor)[2] = n[2]

LEMMA TryDoes ==
  ASSUME sources \subseteq Files, NEW d, Fits(d), NEW o, NEW ns, NEW line \in Nat,
         Tried(d, o, ns, line), NEW name \in FileName, NEW a \in Said1
  PROVE  Tried(d, Try(o, name, line, a), ns \cup {name}, line)
<1>1. CASE o.ok \/ name = NoFile
  <2>1. Try(o, name, line, a) = o
    BY <1>1 DEF Try
  <2> QED BY <2>1 DEF Tried
<1>2. CASE ~o.ok /\ name # NoFile
  <2> DEFINE e == OpenViewer(o.desk, name, line, TRUE, FALSE, a)
             p == Try(o, name, line, a)
  <2>1. p = [e EXCEPT !.asked = @ \cup o.asked]
    BY <1>2 DEF Try
  <2>2. Good(o.desk) /\ Kept(d, o.desk) /\ SameMark(d, o.desk) /\ o.desk.windows = d.windows
    BY <1>2 DEF Tried
  <2>3. Fits(o.desk)
    BY <2>2 DEF Fits, Open
  <2>4. Opened(o.desk, e, name, line, TRUE)
    BY <2>2, <2>3, OpenViewerDoes
  <2>5. \E f, b, q : e = [desk |-> f, ok |-> b, asked |-> q]
    BY DEF OpenViewer, Outcome, Skip, Given
  <2> HIDE DEF e, p
  <2>6. p.desk = e.desk /\ p.ok = e.ok /\ p.asked = e.asked \cup o.asked
    BY <2>1, <2>5
  <2>7. Kept(d, e.desk)
    BY <2>2, <2>4, KeptTwice DEF Opened
  <2>8. name \in (ns \cup {name}) \ {NoFile}
    BY <1>2
  <2>9. p.asked = {} => e.asked = {}
    BY <2>6
  <2> QED BY <2>2, <2>4, <2>6, <2>7, <2>8, <2>9 DEF Opened, Tried, SameMark, p
<1>3. o.ok \in BOOLEAN
  BY DEF Tried
<1> QED BY <1>1, <1>2, <1>3

\* The window of the last stop is still there, or there never was one, unless it
\* was closed; and nothing is open before the program is up.
ViewInv ==
  /\ sources \subseteq Files /\ Good(desk) /\ run \in Runs
  /\ ~run.closed => desk.current_editor \in Open(desk) \cup {NoView}
  /\ ~run.up => ~run.started /\ ~run.closed /\ desk.windows = <<>> /\ desk.current_editor = NoView
  /\ StopIsShown

\* What StopIsShown says in terms of the window that has the line
LEMMA DrawnIs ==
  ASSUME Good(desk)
  PROVE  /\ Drawn = {} <=> (desk.current_editor \notin Open(desk) \/ desk.CPULine = NoLine)
         /\ \A x \in Drawn : x = <<desk.current_editor, desk.CPULine>>
<1> DEFINE one == <<desk.current_editor, desk.CPULine>>
<1>1. Open(desk) \subseteq Views
  BY WindowsOf
<1>2. Drawn = {one : v \in Open(desk) \cap {desk.current_editor}} \ {<<v, NoLine>> : v \in Views}
  BY DEF Drawn
<1>3. desk.current_editor \in Open(desk) =>
        (one \in {<<v, NoLine>> : v \in Views} <=> desk.CPULine = NoLine)
  BY <1>1
<1>4. desk.current_editor \in Open(desk) => {one : v \in Open(desk) \cap {desk.current_editor}} = {one}
  OBVIOUS
<1>5. desk.current_editor \notin Open(desk) => {one : v \in Open(desk) \cap {desk.current_editor}} = {}
  OBVIOUS
<1>6. \A x \in Drawn : x = one
  BY <1>2
<1> HIDE DEF one
<1>7. Drawn = {} <=> (desk.current_editor \notin Open(desk) \/ desk.CPULine = NoLine)
  BY <1>2, <1>3, <1>4, <1>5
<1> QED BY <1>6, <1>7 DEF one

Shows(d, r) ==
  r.started /\ ~r.closed =>
    IF d.current_editor \in Open(d) /\ d.CPULine # NoLine
    THEN /\ d.CPULine = r.stop.line /\ FileOf(d, d.current_editor) = r.shown /\ r.shown # NoFile
         /\ ~r.asked => r.shown[2] \in {n[2] : n \in Range(Names3(r.stop)) \ {NoFile}}
    ELSE r.shown = NoFile

LEMMA ShowsIs ==
  ASSUME Good(desk)
  PROVE  StopIsShown <=> Shows(desk, run)
<1> DEFINE one == <<desk.current_editor, desk.CPULine>>
           names == {n[2] : n \in Range(Names3(run.stop)) \ {NoFile}}
<1>1. /\ Drawn = {} <=> ~(desk.current_editor \in Open(desk) /\ desk.CPULine # NoLine)
      /\ \A x \in Drawn : x = one
  BY DrawnIs
<1>2. one[1] = desk.current_editor /\ one[2] = desk.CPULine
  OBVIOUS
<1>3. StopIsShown <=>
        (run.started /\ ~run.closed =>
           /\ \A x \in Drawn : x[2] = run.stop.line /\ FileOf(desk, x[1]) = run.shown
           /\ Drawn = {} <=> run.shown = NoFile
           /\ run.shown # NoFile /\ ~run.asked => run.shown[2] \in names)
  BY DEF StopIsShown
<1>4. Shows(desk, run) <=>
        (run.started /\ ~run.closed =>
           IF desk.current_editor \in Open(desk) /\ desk.CPULine # NoLine
           THEN /\ desk.CPULine = run.stop.line /\ FileOf(desk, desk.current_editor) = run.shown
                /\ run.shown # NoFile /\ (~run.asked => run.shown[2] \in names)
           ELSE run.shown = NoFile)
  BY DEF Shows
<1> HIDE DEF one, names
<1>5. CASE Drawn = {}
  BY <1>1, <1>3, <1>4, <1>5
<1>6. CASE Drawn # {}
  <2>1. PICK x \in Drawn : x = one
    BY <1>1, <1>6
  <2>2. (\A y \in Drawn : y[2] = run.stop.line /\ FileOf(desk, y[1]) = run.shown) <=>
          desk.CPULine = run.stop.line /\ FileOf(desk, desk.current_editor) = run.shown
    BY <1>1, <1>2, <2>1
  <2>3. desk.current_editor \in Open(desk) /\ desk.CPULine # NoLine
    BY <1>1, <1>6
  <2> QED BY <1>3, <1>4, <1>6, <2>2, <2>3
<1> QED BY <1>5, <1>6

\* A step that closes nothing and does not move the line leaves what is shown.
LEMMA MarkStays ==
  ASSUME ViewInv, NEW e, Good(e), Kept(desk, e), SameMark(desk, e)
  PROVE  /\ Shows(e, run)
         /\ ~run.closed => e.current_editor \in Open(e) \cup {NoView}
<1>1. Open(desk) \subseteq Open(e) /\ \A u \in Open(desk) : FileOf(e, u) = FileOf(desk, u)
  BY DEF Kept
<1>2. e.current_editor = desk.current_editor /\ e.CPULine = desk.CPULine
  BY DEF SameMark
<1>3. Shows(desk, run)
  BY ShowsIs DEF ViewInv
<1>4. NoView \notin Open(e) /\ NoView \notin Open(desk)
  BY WindowsOf, ViewNumbers DEF ViewInv
<1>5. ~run.closed => desk.current_editor \in Open(desk) \cup {NoView}
  BY DEF ViewInv
<1>6. CASE run.closed
  BY <1>6 DEF Shows
<1>7. CASE ~run.closed
  <2>1. desk.current_editor \in Open(desk) <=> e.current_editor \in Open(e)
    BY <1>1, <1>2, <1>4, <1>5, <1>7
  <2>2. desk.current_editor \in Open(desk) =>
          FileOf(e, e.current_editor) = FileOf(desk, desk.current_editor)
    BY <1>1, <1>2
  <2>3. Shows(e, run)
    BY <1>2, <1>3, <2>1, <2>2 DEF Shows
  <2> QED BY <1>1, <1>2, <1>5, <2>3
<1> QED BY <1>6, <1>7

LEMMA DeskStep ==
  ASSUME ViewInv, run.up, run' = run, sources' \subseteq Files,
         Good(desk'), Kept(desk, desk'), SameMark(desk, desk')
  PROVE  ViewInv'
<1>1. /\ Shows(desk', run)
      /\ ~run.closed => desk'.current_editor \in Open(desk') \cup {NoView}
  BY MarkStays
<1>2. Open(desk)' = Open(desk')
  BY DEF Open
<1>3. Good(desk)' = Good(desk') /\ Shows(desk, run)' = Shows(desk', run)
  <2>1. \A u : FileOf(desk, u)' = FileOf(desk', u)
    BY DEF FileOf
  <2> QED BY <1>2, <2>1 DEF Good, Separate, Shows
<1>4. Good(desk)' => (StopIsShown' <=> Shows(desk, run)')
  BY ShowsIs, PTL
<1> QED BY <1>1, <1>2, <1>3, <1>4 DEF ViewInv

\* What is left when one element is removed
LEMMA RemovedAt ==
  ASSUME NEW S, NEW s \in Seq(S), NEW i \in 1..Len(s)
  PROVE  /\ RemoveAt(s, i) \in Seq(S) /\ Len(RemoveAt(s, i)) = Len(s) - 1
         /\ \A j \in 1..(Len(s) - 1) : RemoveAt(s, i)[j] = IF j < i THEN s[j] ELSE s[j + 1]
<1> DEFINE a == SubSeq(s, 1, i - 1)
           b == SubSeq(s, i + 1, Len(s))
<1>1. Len(s) \in Nat /\ i \in Nat /\ i >= 1 /\ i <= Len(s)
  BY LenProperties
<1>2. a \in Seq(S) /\ Len(a) = i - 1 /\ \A j \in 1..(i - 1) : a[j] = s[j]
  <2>1. \A j \in 1..(i - 1) : j \in 1..Len(s)
    BY <1>1
  <2>2. i - 1 \in Nat /\ i - 1 <= Len(s) /\ 1 <= (i - 1) + 1
    BY <1>1
  <2>3. CASE i = 1
    <3>1. a = <<>> /\ i - 1 = 0
      BY <2>3
    <3> QED BY <3>1
  <2>4. CASE i # 1
    <3>1. 1 \in 1..Len(s) /\ i - 1 \in 1..Len(s) /\ 1 <= i - 1
      BY <1>1, <2>4
    <3>2. a \in Seq(S) /\ Len(a) = (i - 1) - 1 + 1 /\ \A j \in 1..((i - 1) - 1 + 1) : a[j] = s[1 + j - 1]
      BY <1>1, <3>1, SubSeqProperties
    <3>3. (i - 1) - 1 + 1 = i - 1 /\ \A j \in 1..(i - 1) : 1 + j - 1 = j
      BY <1>1
    <3> QED BY <3>2, <3>3
  <2> QED BY <2>3, <2>4
<1>3. b \in Seq(S) /\ Len(b) = Len(s) - i /\ \A j \in 1..(Len(s) - i) : b[j] = s[i + j]
  <2>1. CASE i = Len(s)
    <3>1. b = <<>> /\ Len(s) - i = 0
      BY <1>1, <2>1
    <3> QED BY <3>1
  <2>2. CASE i # Len(s)
    <3>1. i + 1 \in 1..Len(s) /\ Len(s) \in 1..Len(s) /\ i + 1 <= Len(s)
      BY <1>1, <2>2
    <3>2. b \in Seq(S) /\ Len(b) = Len(s) - (i + 1) + 1
          /\ \A j \in 1..(Len(s) - (i + 1) + 1) : b[j] = s[(i + 1) + j - 1]
      BY <1>1, <3>1, SubSeqProperties
    <3>3. Len(s) - (i + 1) + 1 = Len(s) - i /\ \A j \in 1..(Len(s) - i) : (i + 1) + j - 1 = i + j
      BY <1>1
    <3> QED BY <3>2, <3>3
  <2> QED BY <2>1, <2>2
<1> HIDE DEF a, b
<1>4. /\ a \o b \in Seq(S) /\ Len(a \o b) = Len(a) + Len(b)
      /\ \A j \in 1..(Len(a) + Len(b)) : (a \o b)[j] = IF j <= Len(a) THEN a[j] ELSE b[j - Len(a)]
  BY <1>2, <1>3, ConcatProperties
<1>5. Len(a) + Len(b) = Len(s) - 1
  BY <1>1, <1>2, <1>3
<1>6. ASSUME NEW j \in 1..(Len(s) - 1)
      PROVE  (a \o b)[j] = IF j < i THEN s[j] ELSE s[j + 1]
  <2>1. (a \o b)[j] = IF j <= Len(a) THEN a[j] ELSE b[j - Len(a)]
    BY <1>4, <1>5
  <2>2. CASE j < i
    <3>1. j \in 1..(i - 1) /\ j <= Len(a)
      BY <1>1, <1>2, <2>2
    <3> QED BY <1>2, <2>1, <2>2, <3>1
  <2>3. CASE ~(j < i)
    <3>1. ~(j <= Len(a)) /\ j - Len(a) = j - i + 1 /\ j - i + 1 \in 1..(Len(s) - i) /\ i + (j - i + 1) = j + 1
      BY <1>1, <1>2, <2>3
    <3> QED BY <1>3, <2>1, <2>3, <3>1
  <2> QED BY <2>2, <2>3
<1> QED BY <1>4, <1>5, <1>6 DEF RemoveAt, a, b

\* A window is closed: the others stay.
LEMMA WindowGone ==
  ASSUME NEW d, Good(d), NEW i \in DOMAIN d.windows, NEW e \in Desks, e.windows = RemoveAt(d.windows, i)
  PROVE  /\ Good(e) /\ Open(e) = Open(d) \ {d.windows[i].view}
         /\ \A u \in Open(e) : FileOf(e, u) = FileOf(d, u)
<1> DEFINE n == Len(d.windows)
           old(j) == IF j < i THEN j ELSE j + 1
<1>1. /\ d.windows \in Seq(Windows) /\ n \in Nat /\ DOMAIN d.windows = 1..n
      /\ \A j \in 1..n : d.windows[j].view \in Open(d)
      /\ \A u \in Open(d) : \E j \in 1..n : d.windows[j].view = u
  BY WindowsOf
<1>2. DOMAIN e.windows = 1..(n - 1) /\ \A j \in 1..(n - 1) : e.windows[j] = d.windows[old(j)]
  <2>1. i \in 1..n
    BY <1>1
  <2>2. /\ e.windows \in Seq(Windows) /\ Len(e.windows) = n - 1
        /\ \A j \in 1..(n - 1) : e.windows[j] = IF j < i THEN d.windows[j] ELSE d.windows[j + 1]
    <3> DEFINE s == d.windows
               r == RemoveAt(s, i)
    <3>1. s \in Seq(Windows) /\ i \in 1..Len(s)
      BY <1>1, <2>1
    <3>2. e.windows = r
      OBVIOUS
    <3> HIDE DEF s, r
    <3>3. /\ r \in Seq(Windows) /\ Len(r) = Len(s) - 1
          /\ \A j \in 1..(Len(s) - 1) : r[j] = IF j < i THEN s[j] ELSE s[j + 1]
      BY <3>1, RemovedAt DEF r
    <3> QED BY <3>2, <3>3 DEF s
  <2> QED BY <2>2, LenProperties
<1>3. /\ i \in 1..n
      /\ \A j \in 1..(n - 1) : old(j) \in 1..n /\ old(j) # i
      /\ \A j, k \in 1..(n - 1) : old(j) = old(k) => j = k
      /\ \A j \in 1..n : j # i => \E k \in 1..(n - 1) : old(k) = j
  <2>1. i \in 1..n /\ \A j \in 1..(n - 1) : old(j) \in 1..n /\ old(j) # i
    BY <1>1
  <2>2. \A j, k \in 1..(n - 1) : old(j) = old(k) => j = k
    BY <1>1
  <2>3. ASSUME NEW j \in 1..n, j # i PROVE \E k \in 1..(n - 1) : old(k) = j
    <3> DEFINE k == IF j < i THEN j ELSE j - 1
    <3>1. k \in 1..(n - 1) /\ old(k) = j
      BY <1>1, <2>1, <2>3
    <3> QED BY <3>1
  <2> QED BY <2>1, <2>2, <2>3
<1> HIDE DEF n, old
<1>4. \A j, k \in 1..n : d.windows[j].view = d.windows[k].view => j = k
  BY <1>1 DEF Good, Separate
<1>5. Good(e)
  BY <1>2, <1>3, <1>4 DEF Good, Separate
<1>6. ASSUME NEW u
      PROVE  u \in Open(e) <=> u \in Open(d) /\ u # d.windows[i].view
  <2>1. u \in Open(e) <=> \E j \in 1..(n - 1) : d.windows[old(j)].view = u
    BY <1>2 DEF Open
  <2>2. u \in Open(d) <=> \E j \in 1..n : d.windows[j].view = u
    BY <1>1
  <2> QED BY <1>3, <1>4, <2>1, <2>2
<1>7. ASSUME NEW u \in Open(e) PROVE FileOf(e, u) = FileOf(d, u)
  <2>1. PICK j \in 1..(n - 1) : e.windows[j].view = u
    BY <1>2 DEF Open
  <2>2. FileOf(e, e.windows[j].view) = e.windows[j].file
    BY <1>2, <1>5, FileIs
  <2>3. PICK k \in 1..n : k = old(j)
    BY <1>3
  <2>4. FileOf(d, d.windows[k].view) = d.windows[k].file
    BY <1>1, FileIs
  <2> QED BY <1>2, <2>1, <2>2, <2>3, <2>4
<1> QED BY <1>5, <1>6, <1>7

Outcomes(o) == \E f, b, q : o = [desk |-> f, ok |-> b, asked |-> q]

LEMMA TryShape ==
  ASSUME NEW o, Outcomes(o), NEW name, NEW line, NEW a
  PROVE  Outcomes(Try(o, name, line, a))
<1> DEFINE e == OpenViewer(o.desk, name, line, TRUE, FALSE, a)
<1>1. Outcomes(e)
  BY DEF OpenViewer, Outcome, Skip, Given, Outcomes
<1>2. Try(o, name, line, a) = IF o.ok \/ name = NoFile THEN o ELSE [e EXCEPT !.asked = @ \cup o.asked]
  BY DEF Try
<1> HIDE DEF e
<1>3. Outcomes([e EXCEPT !.asked = @ \cup o.asked])
  <2>1. PICK f, b, q : e = [desk |-> f, ok |-> b, asked |-> q]
    BY <1>1 DEF Outcomes
  <2>2. [e EXCEPT !.asked = @ \cup o.asked] = [desk |-> f, ok |-> b, asked |-> q \cup o.asked]
    BY <2>1
  <2> QED BY <2>2 DEF Outcomes
<1> QED BY <1>2, <1>3

LEMMA DisWinDoes ==
  ASSUME NEW d \in Desks
  PROVE  /\ OpenDisWin(d) \in Desks /\ OpenDisWin(d).windows = d.windows
         /\ SameMark(d, OpenDisWin(d))
<1>1. d.current \in Nat /\ DisWin \in Nat
  BY ViewNumbers DEF Desks
<1> QED BY <1>1 DEF OpenDisWin, Desks, SameMark

\* The file is shown for a stop, or none is and no line is left.
LEMMA SelectDoes ==
  ASSUME sources \subseteq Files, NEW d, Good(d), Fits(d), NEW s \in Stops, NEW a \in Said1
  PROVE  Tried(d, select_source_line(d, s, a), Range(Names3(s)), s.line)
<1> DEFINE n == Names3(s)
           o0 == Outcome(d, FALSE, {})
           o1 == Try(o0, n[1], s.line, a)
           o2 == Try(o1, n[2], s.line, a)
           o3 == Try(o2, n[3], s.line, a)
           o == select_source_line(d, s, a)
<1>1. /\ s.fname \in FileName /\ s.dirname \in FileName /\ s.fullname \in FileName
      /\ s.line \in Nat /\ NoFile \in FileName
  BY ViewerAssumption DEF FileName
<1>2. n[1] \in FileName /\ n[2] \in FileName /\ n[3] \in FileName
  BY <1>1 DEF Names3
<1>3. Range(n) = {} \cup {n[1]} \cup {n[2]} \cup {n[3]}
  <2>1. DOMAIN n = 1..3
    BY DEF Names3
  <2>2. 1..3 = {1, 2, 3}
    OBVIOUS
  <2> HIDE DEF n
  <2> QED BY <2>1, <2>2 DEF Range
<1>4. Tried(d, o0, {}, s.line)
  <2>1. o0.desk = d /\ o0.ok = FALSE
    BY DEF Outcome
  <2>2. d \in Desks /\ d.windows = d.windows
    BY DEF Good
  <2>3. Good(d) /\ Kept(d, d)
    BY <2>2, SameWindows
  <2> HIDE DEF o0
  <2> QED BY <2>1, <2>3 DEF Tried, SameMark
<1>5. Tried(d, o3, Range(n), s.line)
  <2> HIDE DEF n
  <2>1. Tried(d, o1, {} \cup {n[1]}, s.line)
    <3> HIDE DEF o0
    <3> QED BY <1>1, <1>2, <1>4, TryDoes
  <2>2. Tried(d, o2, {} \cup {n[1]} \cup {n[2]}, s.line)
    <3> HIDE DEF o1
    <3> QED BY <1>1, <1>2, <2>1, TryDoes
  <2>3. Tried(d, o3, {} \cup {n[1]} \cup {n[2]} \cup {n[3]}, s.line)
    <3> HIDE DEF o2
    <3> QED BY <1>1, <1>2, <2>2, TryDoes
  <2> QED BY <1>3, <2>3
<1>6. Outcomes(o3)
  <2>1. Outcomes(o0)
    BY DEF Outcome, Outcomes
  <2> HIDE DEF o0
  <2>2. Outcomes(o1)
    BY <2>1, TryShape
  <2> HIDE DEF o1
  <2>3. Outcomes(o2)
    BY <2>2, TryShape
  <2> HIDE DEF o2
  <2> QED BY <2>3, TryShape
<1> DEFINE dis == s.fname = NoFile \/ ~o3.ok
           g == IF dis THEN OpenDisWin(o3.desk) ELSE o3.desk
           c == IF dis \/ d.current = DisWin THEN DisWin ELSE g.current
<1>7. o = [o3 EXCEPT !.desk = IF dis THEN OpenDisWin(@) ELSE @,
                     !.desk.current = IF dis \/ d.current = DisWin THEN DisWin ELSE @]
  BY DEF select_source_line
<1> HIDE DEF o3, n
<1>8. o.desk = [g EXCEPT !.current = c] /\ o.ok = o3.ok /\ o.asked = o3.asked
  <2>1. PICK f, b, q : o3 = [desk |-> f, ok |-> b, asked |-> q]
    BY <1>6 DEF Outcomes
  <2> HIDE DEF o
  <2> QED BY <1>7, <2>1
<1>9. Good(o3.desk) /\ o3.desk \in Desks
  BY <1>5 DEF Tried, Good
<1>10. g \in Desks /\ g.windows = o3.desk.windows /\ SameMark(o3.desk, g)
  BY <1>9, DisWinDoes DEF SameMark
<1>11. c \in Nat
  <2>1. g.current \in Nat
    BY <1>10 DEF Desks
  <2> HIDE DEF g
  <2> QED BY <2>1, ViewNumbers
<1> HIDE DEF o, g, c, dis
<1>12. o.desk \in Desks /\ o.desk.windows = o3.desk.windows /\ SameMark(o3.desk, o.desk)
  BY <1>8, <1>10, <1>11 DEF Desks, SameMark
<1>13. Good(o.desk) /\ Kept(o3.desk, o.desk)
  BY <1>9, <1>12, SameWindows
<1>14. Kept(d, o.desk)
  BY <1>5, <1>13, KeptTwice DEF Tried
<1>15. o.desk.current_editor = o3.desk.current_editor /\ o.desk.CPULine = o3.desk.CPULine
  BY <1>12 DEF SameMark
<1>16. ~o.ok => SameMark(d, o.desk) /\ o.desk.windows = d.windows
  BY <1>5, <1>8, <1>12, <1>15 DEF Tried, SameMark
<1>17. o.ok => FileOf(o.desk, o.desk.current_editor) = FileOf(o3.desk, o3.desk.current_editor)
  BY <1>5, <1>8, <1>13, <1>15 DEF Tried, Kept
<1>18. Tried(d, o, Range(n), s.line)
  BY <1>5, <1>8, <1>13, <1>14, <1>15, <1>16, <1>17 DEF Tried, Kept
<1> QED BY <1>18 DEF o, n

LEMMA AnswersAreSaid ==
  ASSUME NEW a \in Answers
  PROVE  a \in Said1
<1>1. CASE a = [file |-> NoFile, add |-> FALSE]
  BY <1>1 DEF Said1
<1>2. CASE a # [file |-> NoFile, add |-> FALSE]
  <2>1. {FALSE} \cup {b \in BOOLEAN : Len(desk.src_dirs) < MaxDirs} \subseteq BOOLEAN
    OBVIOUS
  <2>2. a \in [file : sources, add : {FALSE} \cup {b \in BOOLEAN : Len(desk.src_dirs) < MaxDirs}]
    BY <1>2 DEF Answers
  <2> QED BY <2>1, <2>2 DEF Said1
<1> QED BY <1>1, <1>2

\* The invariant of the next state, from what the desktop shows there.
LEMMA ViewInvNext ==
  ASSUME sources' \subseteq Files, Good(desk'), run' \in Runs, Shows(desk', run'), run'.up,
         ~run'.closed => desk'.current_editor \in Open(desk') \cup {NoView}
  PROVE  ViewInv'
<1>1. Open(desk)' = Open(desk')
  BY DEF Open
<1>2. Good(desk)' = Good(desk') /\ Shows(desk, run)' = Shows(desk', run')
  <2>1. \A u : FileOf(desk, u)' = FileOf(desk', u)
    BY DEF FileOf
  <2> QED BY <1>1, <2>1 DEF Good, Separate, Shows
<1>3. Good(desk)' => (StopIsShown' <=> Shows(desk, run)')
  BY ShowsIs, PTL
<1> QED BY <1>1, <1>2, <1>3 DEF ViewInv

LEMMA StopKeeps ==
  ASSUME ViewInv, run.up, NEW s \in Stops, Stop(s)
  PROVE  ViewInv'
<1>1. PICK d \in ClearCPULine(desk), a \in Answers : StopShown(select_source_line(d, s, a), s)
  BY DEF Stop
<1>2. Fits(desk) /\ sources' = sources
  BY DEF Stop
<1>3. /\ d \in Desks /\ d.windows = desk.windows /\ d.current_editor = desk.current_editor
      /\ desk.current_editor \in Open(desk) => d.CPULine = NoLine
  <2>1. desk \in Desks /\ NoView \notin Open(desk) /\ NoLine \in Nat
    BY WindowsOf, ViewNumbers DEF ViewInv, Good
  <2>2. d = [desk EXCEPT !.CPULine = NoLine] \/ (d = desk /\ desk.current_editor \notin Open(desk))
    BY <1>1, <2>1 DEF ClearCPULine
  <2> QED BY <2>1, <2>2 DEF Desks
<1>4. Good(d) /\ Fits(d) /\ Open(d) = Open(desk)
  <2>1. Good(d)
    BY <1>3, SameWindows DEF ViewInv
  <2> QED BY <1>2, <1>3, <2>1 DEF Fits, Open
<1> DEFINE o == select_source_line(d, s, a)
           names == Range(Names3(s))
           f == IF o.ok THEN FileOf(o.desk, o.desk.current_editor) ELSE NoFile
<1>5. Tried(d, o, names, s.line)
  <2>1. a \in Said1 /\ sources \subseteq Files
    BY AnswersAreSaid DEF ViewInv
  <2> QED BY <1>4, <2>1, SelectDoes
<1>6. /\ desk' = o.desk
      /\ run' = [run EXCEPT !.started = TRUE, !.stop = s, !.shown = f, !.asked = o.asked # {},
                             !.closed = @ /\ ~o.ok]
  BY <1>1 DEF StopShown
<1> HIDE DEF o
<1>7. o.ok \in BOOLEAN /\ Good(o.desk) /\ s.line \in Nat /\ s.line # NoLine
  BY <1>5, ViewerAssumption DEF Tried
<1>8. f \in Files \cup {NoFile} /\ (o.ok => f # NoFile)
  <2>1. o.ok => o.desk.current_editor \in Open(o.desk)
    BY <1>5 DEF Tried
  <2>2. \A v \in Open(o.desk) : FileOf(o.desk, v) \in Files
    <3>1. \A v \in Open(o.desk) : \E i \in DOMAIN o.desk.windows : o.desk.windows[i].view = v
      BY <1>7, WindowsOf
    <3>2. \A i \in DOMAIN o.desk.windows :
            /\ FileOf(o.desk, o.desk.windows[i].view) = o.desk.windows[i].file
            /\ o.desk.windows[i].file \in Files
      BY <1>7, WindowsOf, FileIs
    <3> QED BY <3>1, <3>2
  <2> QED BY <2>1, <2>2, FilesAreNames
<1>9. /\ run \in Runs /\ run' \in Runs /\ run'.started = TRUE /\ run'.stop = s
      /\ run'.asked = (o.asked # {}) /\ run'.closed = (run.closed /\ ~o.ok) /\ run'.shown = f
      /\ run'.up = run.up
  <2>1. run \in Runs
    BY DEF ViewInv
  <2>2. run' = [run EXCEPT !.started = TRUE, !.stop = s, !.shown = f, !.asked = o.asked # {},
                           !.closed = @ /\ ~o.ok]
    BY <1>6
  <2> HIDE DEF f
  <2> QED BY <1>8, <2>1, <2>2 DEF Runs
<1> HIDE DEF f
<1>10. CASE o.ok
  <2>1. /\ o.desk.current_editor \in Open(o.desk) /\ o.desk.CPULine = s.line
        /\ o.asked = {} => \E n \in names \ {NoFile} : FileOf(o.desk, o.desk.current_editor)[2] = n[2]
    BY <1>5, <1>10 DEF Tried
  <2>2. f = FileOf(o.desk, o.desk.current_editor)
    BY <1>10 DEF f
  <2>3. ~run'.asked => f[2] \in {n[2] : n \in names \ {NoFile}}
    BY <1>9, <2>1, <2>2
  <2>4. Shows(desk', run')
    BY <1>6, <1>7, <1>8, <1>9, <1>10, <2>1, <2>2, <2>3 DEF Shows
  <2>5. desk'.current_editor \in Open(desk')
    BY <1>6, <2>1
  <2> HIDE DEF names
  <2> QED BY <1>2, <1>6, <1>7, <1>9, <2>4, <2>5, ViewInvNext DEF ViewInv
<1>11. CASE ~o.ok
  <2>1. o.desk.current_editor = d.current_editor /\ o.desk.CPULine = d.CPULine /\ o.desk.windows = d.windows
    BY <1>5, <1>11 DEF Tried, SameMark
  <2>2. Open(o.desk) = Open(desk)
    BY <1>3, <2>1 DEF Open
  <2>3. f = NoFile
    BY <1>11 DEF f
  <2>4. Shows(desk', run')
    BY <1>3, <1>6, <1>9, <2>1, <2>2, <2>3 DEF Shows
  <2>5. ~run'.closed => desk'.current_editor \in Open(desk') \cup {NoView}
    BY <1>3, <1>6, <1>9, <1>11, <2>1, <2>2 DEF ViewInv
  <2> QED BY <1>2, <1>6, <1>7, <1>9, <2>4, <2>5, ViewInvNext DEF ViewInv
<1> QED BY <1>7, <1>10, <1>11

LEMMA StartUpKeeps ==
  ASSUME ViewInv, ~run.up, StartUp
  PROVE  ViewInv'
<1>1. /\ sources' = sources /\ run' = [run EXCEPT !.up = TRUE]
      /\ desk' = desk \/ \E s \in Stops, a \in Answers : desk' = MainSource(desk, s, a)
  <2>1. desk' \in {desk} \cup {MainSource(desk, s, a) : s \in Stops, a \in Answers}
    BY DEF StartUp
  <2>2. desk' = desk \/ \E s \in Stops, a \in Answers : desk' = MainSource(desk, s, a)
    BY <2>1
  <2> QED BY <2>2 DEF StartUp
<1>2. /\ run \in Runs /\ ~run.started /\ ~run.closed /\ Good(desk) /\ desk \in Desks
      /\ desk.windows = <<>> /\ desk.current_editor = NoView /\ sources \subseteq Files
  BY DEF ViewInv, Good
<1>3. Fits(desk)
  <2>1. Open(desk) = {}
    <3>1. DOMAIN desk.windows = {}
      BY <1>2
    <3> QED BY <3>1 DEF Open
  <2> QED BY <2>1, ViewNumbers DEF Fits
<1>4. run' \in Runs /\ run'.up /\ ~run'.started /\ ~run'.closed
  BY <1>1, <1>2 DEF Runs
<1>5. Good(desk') /\ desk'.current_editor \in Open(desk') \cup {NoView}
  <2>1. CASE desk' = desk
    BY <1>2, <2>1
  <2>2. ASSUME NEW s \in Stops, NEW a \in Answers, desk' = MainSource(desk, s, a)
        PROVE  Good(desk') /\ desk'.current_editor \in Open(desk') \cup {NoView}
    <3> DEFINE none == Outcome(desk, FALSE, {})
               o == IF s.dirname = NoFile THEN none
                    ELSE OpenViewer(desk, s.dirname, s.line, TRUE, FALSE, a)
               p == OpenViewer(o.desk, s.fname, s.line, FALSE, FALSE, a)
    <3>1. /\ s.fname \in FileName /\ s.dirname \in FileName /\ s.line \in Nat /\ a \in Said1
      BY ViewerAssumption, AnswersAreSaid DEF FileName
    <3>2. Opened(desk, o, s.dirname, s.line, TRUE)
      <4>1. Opened(desk, OpenViewer(desk, s.dirname, s.line, TRUE, FALSE, a), s.dirname, s.line, TRUE)
        BY <1>2, <1>3, <3>1, OpenViewerDoes
      <4>2. Opened(desk, none, s.dirname, s.line, TRUE)
        <5>1. none.desk = desk /\ none.ok = FALSE
          BY DEF Outcome
        <5>2. Good(desk) /\ Kept(desk, desk)
          BY <1>2, SameWindows
        <5> HIDE DEF none
        <5> QED BY <5>1, <5>2 DEF Opened, SameMark
      <4> QED BY <4>1, <4>2
    <3>3. /\ s.fname = NoFile => desk' = OpenDisWin(desk)
          /\ s.fname # NoFile /\ o.ok => desk' = o.desk
          /\ s.fname # NoFile /\ ~o.ok => desk' = p.desk
      BY <2>2 DEF MainSource
    <3> HIDE DEF o
    <3>4. CASE s.fname = NoFile
      <4>1. /\ OpenDisWin(desk) \in Desks /\ OpenDisWin(desk).windows = desk.windows
            /\ SameMark(desk, OpenDisWin(desk))
        BY <1>2, DisWinDoes
      <4>2. Good(OpenDisWin(desk))
        BY <1>2, <4>1, SameWindows
      <4> QED BY <1>2, <3>3, <3>4, <4>1, <4>2 DEF SameMark
    <3>5. CASE s.fname # NoFile /\ o.ok
      BY <3>2, <3>3, <3>5 DEF Opened
    <3>6. CASE s.fname # NoFile /\ ~o.ok
      <4>1. Good(o.desk) /\ SameMark(desk, o.desk) /\ o.desk.windows = desk.windows
        BY <3>2, <3>6 DEF Opened
      <4>2. Fits(o.desk)
        BY <1>3, <4>1 DEF Fits, Open
      <4>3. Opened(o.desk, p, s.fname, s.line, FALSE)
        BY <1>2, <3>1, <4>1, <4>2, OpenViewerDoes
      <4> HIDE DEF p
      <4> QED BY <1>2, <3>3, <3>6, <4>1, <4>3 DEF Opened, SameMark
    <3>7. o.ok \in BOOLEAN
      BY <3>2 DEF Opened
    <3> QED BY <3>4, <3>5, <3>6, <3>7
  <2> QED BY <1>1, <2>1, <2>2
<1>6. Shows(desk', run')
  BY <1>4 DEF Shows
<1> QED BY <1>1, <1>2, <1>4, <1>5, <1>6, ViewInvNext

LEMMA CloseViewKeeps ==
  ASSUME ViewInv, run.up, NEW i \in DOMAIN desk.windows, CloseView(i)
  PROVE  ViewInv'
<1> DEFINE v == desk.windows[i].view
<1>1. Good(desk) /\ desk \in Desks /\ run \in Runs /\ sources \subseteq Files
  BY DEF ViewInv, Good
<1>2. PICK c : /\ desk' = [desk EXCEPT !.windows = RemoveAt(@, i), !.current = c]
               /\ c \in {desk.current, NoView, DisWin} \cup Open(desk)
  BY DEF CloseView
<1>3. run' = [run EXCEPT !.closed = @ \/ v = desk.current_editor] /\ sources' = sources
  BY DEF CloseView
<1>4. /\ desk' \in Desks /\ desk'.windows = RemoveAt(desk.windows, i)
      /\ desk'.current_editor = desk.current_editor /\ desk'.CPULine = desk.CPULine
  <2>1. c \in Nat
    <3>1. desk.current \in Nat /\ NoView \in Nat /\ DisWin \in Nat /\ Open(desk) \subseteq Nat
      BY <1>1, ViewNumbers, WindowsOf DEF Desks
    <3> QED BY <1>2, <3>1
  <2>2. RemoveAt(desk.windows, i) \in Seq(Windows)
    BY <1>1, WindowsOf, RemovedAt
  <2> QED BY <1>1, <1>2, <2>1, <2>2 DEF Desks
<1>5. /\ Good(desk') /\ Open(desk') = Open(desk) \ {v}
      /\ \A u \in Open(desk') : FileOf(desk', u) = FileOf(desk, u)
  BY <1>1, <1>4, WindowGone
<1> HIDE DEF v
<1>6. /\ run' \in Runs /\ run'.up /\ run'.started = run.started /\ run'.stop = run.stop
      /\ run'.shown = run.shown /\ run'.asked = run.asked
      /\ run'.closed = (run.closed \/ v = desk.current_editor)
  BY <1>1, <1>3 DEF Runs
<1>7. Shows(desk, run)
  BY ShowsIs DEF ViewInv
<1>8. ~run'.closed => ~run.closed /\ (desk.current_editor \in Open(desk) <=> desk'.current_editor \in Open(desk'))
  BY <1>4, <1>5, <1>6
<1>9. Shows(desk', run')
  BY <1>4, <1>5, <1>6, <1>7, <1>8 DEF Shows
<1>10. ~run'.closed => desk'.current_editor \in Open(desk') \cup {NoView}
  BY <1>4, <1>8 DEF ViewInv
<1> QED BY <1>1, <1>3, <1>5, <1>6, <1>9, <1>10, ViewInvNext

\* The other steps of the user leave the line where it is.
LEMMA OthersStay ==
  ASSUME ViewInv, run.up, run' = run, sources' = sources,
         \/ \E p \in SourceFiles, only_focus \in BOOLEAN : UserOpens(p, 1, only_focus)
         \/ cmDisWindow \/ CloseDisWin
         \/ \E v \in Open(desk) : SelectView(v)
         \/ \E l \in SearchLists : SourceDirectories(l)
  PROVE  ViewInv'
<1>1. Good(desk) /\ desk \in Desks /\ sources \subseteq Files
  BY DEF ViewInv, Good
<1>2. ASSUME desk' \in Desks, desk'.windows = desk.windows, SameMark(desk, desk')
      PROVE  ViewInv'
  <2>1. Good(desk') /\ Kept(desk, desk')
    BY <1>1, <1>2, SameWindows
  <2> QED BY <1>1, <1>2, <2>1, DeskStep
<1>3. ASSUME NEW p \in SourceFiles, NEW only_focus \in BOOLEAN, UserOpens(p, 1, only_focus)
      PROVE  ViewInv'
  <2>1. PICK a \in Answers : desk' = OpenViewer(desk, p, 1, FALSE, only_focus, a).desk
    BY <1>3 DEF UserOpens
  <2>2. Fits(desk)
    BY <1>3 DEF UserOpens
  <2>3. p \in FileName /\ a \in Said1
    BY ViewerAssumption, AnswersAreSaid DEF FileName
  <2>4. Opened(desk, OpenViewer(desk, p, 1, FALSE, only_focus, a), p, 1, FALSE)
    BY <1>1, <2>2, <2>3, OpenViewerDoes
  <2>5. Good(desk') /\ Kept(desk, desk') /\ SameMark(desk, desk')
    BY <2>1, <2>4 DEF Opened
  <2> QED BY <1>1, <2>5, DeskStep
<1>4. CASE cmDisWindow
  BY <1>1, <1>2, <1>4, DisWinDoes DEF cmDisWindow
<1>5. CASE CloseDisWin
  <2>1. PICK c : /\ desk' = [desk EXCEPT !.dis_win = FALSE, !.current = c]
                 /\ c \in {desk.current, NoView} \cup Open(desk)
    BY <1>5 DEF CloseDisWin
  <2>2. c \in Nat
    <3>1. desk.current \in Nat /\ NoView \in Nat /\ Open(desk) \subseteq Nat
      BY <1>1, ViewNumbers, WindowsOf DEF Desks
    <3> QED BY <2>1, <3>1
  <2> QED BY <1>1, <1>2, <2>1, <2>2 DEF Desks, SameMark
<1>6. ASSUME NEW v \in Open(desk), SelectView(v) PROVE ViewInv'
  <2>1. v \in Nat
    BY <1>1, ViewNumbers, WindowsOf
  <2> QED BY <1>1, <1>2, <1>6, <2>1 DEF SelectView, Desks, SameMark
<1>7. ASSUME NEW l \in SearchLists, SourceDirectories(l) PROVE ViewInv'
  <2>1. l \in Seq(STRING)
    BY ViewerAssumption
  <2> QED BY <1>1, <1>2, <1>7, <2>1 DEF SourceDirectories, Desks, SameMark
<1> QED BY <1>3, <1>4, <1>5, <1>6, <1>7

\* While the program stands somewhere, the line drawn is the one it stands at in
\* the file that was shown for this stop, or none, as long as the window of the
\* stop is not closed (rhgdb/gdbedit.cc, select_source_line of rhgdb/main.cc).
THEOREM StopsAreShown == ViewSpec => []StopIsShown
<1>1. ViewInit => ViewInv
  <2> SUFFICES ASSUME ViewInit PROVE ViewInv
    OBVIOUS
  <2> DEFINE l == CHOOSE x \in SearchLists : x = <<>>
  <2>1. l \in Seq(STRING)
    <3>1. l \in SearchLists
      BY ViewerAssumption
    <3> QED BY <3>1, ViewerAssumption
  <2>2. desk = [windows |-> <<>>, current |-> NoView, dis_win |-> FALSE, current_editor |-> NoView,
                CPULine |-> NoLine, lastSkippedName |-> NoFile, src_dirs |-> l]
    BY DEF ViewInit
  <2> HIDE DEF l
  <2>3. desk \in Desks /\ desk.windows = <<>> /\ desk.current_editor = NoView
    <3>1. <<>> \in Seq(Windows) /\ NoFile \in FileName
      BY EmptySeq DEF FileName
    <3> QED BY <2>1, <2>2, <3>1, ViewNumbers DEF Desks
  <2>4. Good(desk)
    <3>1. DOMAIN desk.windows = {}
      BY <2>3
    <3> QED BY <2>3, <3>1 DEF Good, Separate
  <2>5. run \in Runs /\ ~run.up /\ ~run.started /\ ~run.closed
    BY DEF ViewInit, Runs
  <2>6. sources \subseteq Files
    BY DEF ViewInit, Files
  <2>7. StopIsShown
    BY <2>5 DEF StopIsShown
  <2> QED BY <2>3, <2>4, <2>5, <2>6, <2>7 DEF ViewInv
<1>2. ViewInv /\ [ViewNext]_viewvars => ViewInv'
  <2> SUFFICES ASSUME ViewInv, [ViewNext]_viewvars PROVE ViewInv'
    OBVIOUS
  <2>1. CASE UNCHANGED viewvars
    <3>1. UNCHANGED <<sources, desk, run>>
      BY <2>1 DEF viewvars
    <3>2. Open(desk)' = Open(desk) /\ \A u : FileOf(desk, u)' = FileOf(desk, u)
      BY <3>1 DEF Open, FileOf
    <3>3. StopIsShown' = StopIsShown
      BY <3>1, <3>2 DEF StopIsShown, Drawn
    <3> QED BY <3>1, <3>2, <3>3 DEF ViewInv, Good, Separate
  <2>2. CASE ~run.up /\ StartUp
    BY <2>2, StartUpKeeps
  <2>3. ASSUME run.up, NEW s \in Stops, Stop(s) PROVE ViewInv'
    BY <2>3, StopKeeps
  <2>4. CASE run.up /\ Ends
    <3>1. run' = [run EXCEPT !.started = FALSE, !.stop = NoStop, !.shown = NoFile, !.asked = FALSE]
      BY <2>4 DEF Ends
    <3>2. sources' = sources /\ desk' = desk
      BY <2>4 DEF Ends
    <3>3. run' \in Runs /\ ~run'.started /\ run'.up /\ run'.closed = run.closed
      BY <2>4, <3>1 DEF ViewInv, Runs
    <3>4. Shows(desk', run')
      BY <3>3 DEF Shows
    <3>5. Open(desk') = Open(desk)
      BY <3>2
    <3> QED BY <3>2, <3>3, <3>4, <3>5, ViewInvNext DEF ViewInv
  <2>5. ASSUME run.up, \/ \E p \in SourceFiles, only_focus \in BOOLEAN : UserOpens(p, 1, only_focus)
                       \/ cmDisWindow \/ CloseDisWin
                       \/ \E v \in Open(desk) : SelectView(v)
                       \/ \E l \in SearchLists : SourceDirectories(l)
        PROVE  ViewInv'
    <3>1. run' = run /\ sources' = sources
      BY <2>5 DEF UserOpens, cmDisWindow, CloseDisWin, SelectView, SourceDirectories
    <3> QED BY <2>5, <3>1, OthersStay
  <2>6. ASSUME run.up, NEW i \in DOMAIN desk.windows, CloseView(i) PROVE ViewInv'
    BY <2>6, CloseViewKeeps
  <2>7. ASSUME run.up, NEW p \in ComeAndGo, SourceComes(p) PROVE ViewInv'
    <3>1. desk' = desk /\ run' = run /\ sources' \subseteq Files
      BY <2>7 DEF SourceComes, ViewInv, Files
    <3>2. Good(desk) /\ desk \in Desks /\ desk.windows = desk.windows
      BY DEF ViewInv, Good
    <3>3. Good(desk') /\ Kept(desk, desk') /\ SameMark(desk, desk')
      BY <3>1, <3>2, SameWindows DEF SameMark
    <3> QED BY <2>7, <3>1, <3>3, DeskStep
  <2> QED BY <2>1, <2>2, <2>3, <2>4, <2>5, <2>6, <2>7 DEF ViewNext
<1>3. ViewInv => StopIsShown
  BY DEF ViewInv
<1> QED BY <1>1, <1>2, <1>3, PTL DEF ViewSpec
\* Counting up from zero.
LEMMA CountUp ==
  ASSUME NEW n \in Nat, NEW Reached \in SUBSET Nat, 0 \in Reached,
         \A i \in 0..(n - 1) : i \in Reached => i + 1 \in Reached
  PROVE  0..n \subseteq Reached
<1> SUFFICES ASSUME ~(0..n \subseteq Reached) PROVE FALSE
  OBVIOUS
<1> DEFINE Bad == (0..n) \ Reached
<1>1. Bad \in SUBSET Nat /\ Bad # {}
  OBVIOUS
<1>2. PICK b \in Bad : \A y \in Bad : b <= y
  <2> HIDE DEF Bad
  <2> QED BY <1>1, LeastExists
<1>3. b \in 1..n /\ b - 1 \in 0..(n - 1) /\ b - 1 \notin Bad
  BY <1>2
<1>4. b - 1 \in Reached
  BY <1>3
<1>5. (b - 1) + 1 \in Reached
  BY <1>3, <1>4
<1> QED BY <1>2, <1>3, <1>5

(***************************************************************************)
(* The variables of rhide.env                                               *)
(***************************************************************************)

LEMMA InsertedAt ==
  ASSUME NEW S, NEW s \in Seq(S), NEW i \in 1..(Len(s) + 1), NEW x \in S
  PROVE  /\ InsertAt(s, i, x) \in Seq(S) /\ Len(InsertAt(s, i, x)) = Len(s) + 1
         /\ \A j \in 1..(Len(s) + 1) :
              InsertAt(s, i, x)[j] = IF j < i THEN s[j] ELSE IF j = i THEN x ELSE s[j - 1]
<1> DEFINE a == SubSeq(s, 1, i - 1)
           b == SubSeq(s, i, Len(s))
           q == a \o <<x>>
<1>1. Len(s) \in Nat /\ i \in Nat /\ i >= 1 /\ i <= Len(s) + 1
  BY LenProperties
<1>2. a \in Seq(S) /\ Len(a) = i - 1 /\ \A j \in 1..(i - 1) : a[j] = s[j]
  <2>1. 1 \in Int /\ i - 1 \in Int /\ \A j \in 1..(i - 1) : s[j] \in S
    BY <1>1, ElementOfSeq
  <2>2. /\ a \in Seq(S) /\ Len(a) = IF 1 <= i - 1 THEN (i - 1) - 1 + 1 ELSE 0
        /\ \A j \in 1..((i - 1) - 1 + 1) : a[j] = s[1 + j - 1]
    BY <2>1, SubSeqProperties
  <2>3. (i - 1) - 1 + 1 = i - 1 /\ \A j \in 1..(i - 1) : 1 + j - 1 = j
    BY <1>1
  <2> QED BY <1>1, <2>2, <2>3
<1>3. b \in Seq(S) /\ Len(b) = Len(s) - i + 1 /\ \A j \in 1..(Len(s) - i + 1) : b[j] = s[i + j - 1]
  <2>1. i \in Int /\ Len(s) \in Int /\ \A j \in i..Len(s) : s[j] \in S
    BY <1>1, ElementOfSeq
  <2>2. /\ b \in Seq(S) /\ Len(b) = IF i <= Len(s) THEN Len(s) - i + 1 ELSE 0
        /\ \A j \in 1..(Len(s) - i + 1) : b[j] = s[i + j - 1]
    BY <2>1, SubSeqProperties
  <2> QED BY <1>1, <2>2
<1>4. <<x>> \in Seq(S) /\ Len(<<x>>) = 1 /\ <<x>>[1] = x
  BY Singleton
<1> HIDE DEF a, b
<1>5. /\ q \in Seq(S) /\ Len(q) = i
      /\ \A j \in 1..i : q[j] = IF j < i THEN s[j] ELSE x
  <2> DEFINE o == <<x>>
  <2>1. o \in Seq(S) /\ Len(o) = 1 /\ o[1] = x
    BY <1>4
  <2> HIDE DEF o
  <2>2. /\ a \o o \in Seq(S) /\ Len(a \o o) = Len(a) + Len(o)
        /\ \A j \in 1..(Len(a) + Len(o)) : (a \o o)[j] = IF j <= Len(a) THEN a[j] ELSE o[j - Len(a)]
    BY <1>2, <2>1, ConcatProperties
  <2>3. Len(a) + Len(o) = i /\ Len(a) = i - 1
    BY <1>1, <1>2, <2>1
  <2>4. ASSUME NEW j \in 1..i PROVE (a \o o)[j] = IF j < i THEN s[j] ELSE x
    <3>1. CASE j < i
      <4>1. j \in 1..(i - 1) /\ j <= Len(a)
        BY <1>1, <2>3, <3>1
      <4> QED BY <1>2, <2>2, <2>3, <3>1, <4>1
    <3>2. CASE j = i
      <4>1. ~(j <= Len(a)) /\ j - Len(a) = 1
        BY <1>1, <2>3, <3>2
      <4>2. (a \o o)[j] = o[1]
        BY <2>2, <2>3, <4>1
      <4> QED BY <2>1, <3>2, <4>2, <1>1
    <3>3. j < i \/ j = i
      BY <1>1
    <3> QED BY <3>1, <3>2, <3>3
  <2> QED BY <2>2, <2>3, <2>4 DEF o
<1> HIDE DEF q
<1>6. /\ q \o b \in Seq(S) /\ Len(q \o b) = Len(q) + Len(b)
      /\ \A j \in 1..(Len(q) + Len(b)) : (q \o b)[j] = IF j <= Len(q) THEN q[j] ELSE b[j - Len(q)]
  BY <1>3, <1>5, ConcatProperties
<1>7. Len(q) + Len(b) = Len(s) + 1
  BY <1>1, <1>3, <1>5
<1>8. ASSUME NEW j \in 1..(Len(s) + 1)
      PROVE  (q \o b)[j] = IF j < i THEN s[j] ELSE IF j = i THEN x ELSE s[j - 1]
  <2>1. (q \o b)[j] = IF j <= i THEN q[j] ELSE b[j - i]
    BY <1>5, <1>6, <1>7
  <2>2. CASE j <= i
    <3>1. j \in 1..i
      BY <1>1, <2>2
    <3> QED BY <1>1, <1>5, <2>1, <2>2, <3>1
  <2>3. CASE ~(j <= i)
    <3>1. j - i \in 1..(Len(s) - i + 1) /\ i + (j - i) - 1 = j - 1 /\ ~(j < i) /\ j # i
      BY <1>1, <2>3
    <3> QED BY <1>3, <2>1, <2>3, <3>1
  <2> QED BY <2>2, <2>3
<1>9. InsertAt(s, i, x) = q \o b
  BY DEF InsertAt, a, b, q
<1> QED BY <1>6, <1>7, <1>8, <1>9

(* Tables are sorted by name; At is what is d entries below the top of a name *)

Entries == [name : VarNames, contents : Seq(STRING)]
Sorted(tab) == \A i, j \in 1..Len(tab) : i <= j => ~Less(tab[j].name, tab[i].name)
Sorteds == {tab \in Seq(Entries) : Sorted(tab)}
At(tab, n, d) ==
  LET i == _find_var(tab, n) + d IN IF Found(tab, i, n) THEN <<tab[i].contents>> ELSE <<>>

LEMMA RanksOrder ==
  /\ \A n \in VarNames : Rank[n] \in Nat
  /\ \A n, m \in VarNames : Less(n, m) <=> Rank[n] < Rank[m]
  /\ \A n, m \in VarNames : Rank[n] = Rank[m] => n = m
BY EnvironmentAssumption DEF IsInjective, Less

LEMMA SortedIs ==
  ASSUME NEW tab \in Sorteds
  PROVE  /\ tab \in Seq(Entries) /\ Len(tab) \in Nat /\ DOMAIN tab = 1..Len(tab)
         /\ \A i \in 1..Len(tab) : /\ tab[i] \in Entries /\ tab[i].name \in VarNames
                                   /\ tab[i].contents \in Seq(STRING)
         /\ \A i, j \in 1..Len(tab) : i <= j => Rank[tab[i].name] <= Rank[tab[j].name]
<1>1. tab \in Seq(Entries) /\ Sorted(tab) /\ Len(tab) \in Nat /\ DOMAIN tab = 1..Len(tab)
  BY LenProperties DEF Sorteds
<1>2. \A i \in 1..Len(tab) : /\ tab[i] \in Entries /\ tab[i].name \in VarNames
                             /\ tab[i].contents \in Seq(STRING)
  <2>1. \A i \in 1..Len(tab) : tab[i] \in Entries
    BY <1>1, ElementOfSeq
  <2>2. \A x \in Entries : x.name \in VarNames /\ x.contents \in Seq(STRING)
    BY DEF Entries
  <2> QED BY <2>1, <2>2
<1>3. ASSUME NEW i \in 1..Len(tab), NEW j \in 1..Len(tab), i <= j
      PROVE  Rank[tab[i].name] <= Rank[tab[j].name]
  <2>1. ~Less(tab[j].name, tab[i].name)
    BY <1>1, <1>3 DEF Sorted
  <2> QED BY <1>2, <2>1, RanksOrder
<1> QED BY <1>1, <1>2, <1>3

\* The search by halves gives the first place that is not less.
LEMMA FindIs ==
  ASSUME NEW tab \in Sorteds, NEW n \in VarNames
  PROVE  /\ _find_var(tab, n) \in 1..(Len(tab) + 1)
         /\ \A i \in 1..Len(tab) : i < _find_var(tab, n) <=> Rank[tab[i].name] < Rank[n]
<1> DEFINE T == NotLess(tab, n) \cup {Len(tab) + 1}
           p == Min(T)
<1>1. /\ Len(tab) \in Nat /\ DOMAIN tab = 1..Len(tab)
      /\ \A i \in 1..Len(tab) : tab[i].name \in VarNames
      /\ \A i, j \in 1..Len(tab) : i <= j => Rank[tab[i].name] <= Rank[tab[j].name]
  BY SortedIs
<1>2. NotLess(tab, n) = {i \in 1..Len(tab) : ~(Rank[tab[i].name] < Rank[n])}
  BY <1>1, RanksOrder DEF NotLess
<1>3. T \in SUBSET Nat /\ T # {}
  BY <1>1, <1>2
<1>4. p \in T /\ \A y \in T : p <= y
  <2> HIDE DEF T
  <2> QED BY <1>3, MinIs
<1>5. p \in 1..(Len(tab) + 1)
  <2>1. T \subseteq 1..(Len(tab) + 1)
    <3>1. NotLess(tab, n) \subseteq 1..Len(tab)
      BY <1>2
    <3> QED BY <1>1, <3>1
  <2> HIDE DEF T, p
  <2> QED BY <1>4, <2>1
<1> HIDE DEF p
<1>6. ASSUME NEW i \in 1..Len(tab) PROVE i < p <=> Rank[tab[i].name] < Rank[n]
  <2>1. CASE i < p
    <3>1. i \notin T
      BY <1>1, <1>4, <1>5, <2>1
    <3> QED BY <1>2, <2>1, <3>1
  <2>2. CASE ~(i < p)
    <3>1. p \in 1..Len(tab) /\ p <= i /\ p \in NotLess(tab, n)
      BY <1>1, <1>4, <1>5, <2>2
    <3>2. ~(Rank[tab[p].name] < Rank[n]) /\ Rank[tab[p].name] <= Rank[tab[i].name]
      BY <1>1, <1>2, <3>1
    <3>3. Rank[tab[p].name] \in Nat /\ Rank[tab[i].name] \in Nat /\ Rank[n] \in Nat
      BY <1>1, <3>1, RanksOrder
    <3> QED BY <2>2, <3>2, <3>3
  <2> QED BY <2>1, <2>2
<1> QED BY <1>5, <1>6 DEF _find_var, p

\* and it is the only one
LEMMA FindUnique ==
  ASSUME NEW tab \in Sorteds, NEW n \in VarNames, NEW p \in 1..(Len(tab) + 1),
         \A i \in 1..Len(tab) : i < p <=> Rank[tab[i].name] < Rank[n]
  PROVE  _find_var(tab, n) = p
<1> DEFINE q == _find_var(tab, n)
<1>1. /\ q \in 1..(Len(tab) + 1) /\ Len(tab) \in Nat
      /\ \A i \in 1..Len(tab) : i < q <=> Rank[tab[i].name] < Rank[n]
  BY FindIs, SortedIs
<1> HIDE DEF q
<1>2. CASE q < p
  BY <1>1, <1>2
<1>3. CASE p < q
  BY <1>1, <1>3
<1> QED BY <1>1, <1>2, <1>3 DEF q

LEMMA AtIs ==
  ASSUME NEW tab \in Sorteds, NEW n \in VarNames, NEW d \in Nat
  PROVE  LET i == _find_var(tab, n) + d
         IN /\ i \in Nat \ {0}
            /\ At(tab, n, d) = IF i \in 1..Len(tab) /\ tab[i].name = n THEN <<tab[i].contents>> ELSE <<>>
BY FindIs, SortedIs DEF At, Found

\* A name that is added comes above what the name had, and other names keep what
\* they have.
LEMMA AddDoes ==
  ASSUME NEW tab \in Sorteds, NEW n \in VarNames, NEW c \in Seq(STRING)
  PROVE  /\ _add_variable(tab, n, c) \in Sorteds
         /\ \A d \in Nat : At(_add_variable(tab, n, c), n, d + 1) = At(tab, n, d)
         /\ \A m \in VarNames \ {n}, d \in Nat : At(_add_variable(tab, n, c), m, d) = At(tab, m, d)
<1> DEFINE p == _find_var(tab, n)
           x == Entry(n, c)
           new == _add_variable(tab, n, c)
<1>1. /\ tab \in Seq(Entries) /\ Len(tab) \in Nat
      /\ \A i \in 1..Len(tab) : tab[i].name \in VarNames
      /\ \A i, j \in 1..Len(tab) : i <= j => Rank[tab[i].name] <= Rank[tab[j].name]
  BY SortedIs
<1>2. /\ p \in 1..(Len(tab) + 1)
      /\ \A i \in 1..Len(tab) : i < p <=> Rank[tab[i].name] < Rank[n]
  BY FindIs
<1>3. x \in Entries /\ x.name = n
  BY DEF Entries, Entry
<1>4. /\ new \in Seq(Entries) /\ Len(new) = Len(tab) + 1
      /\ \A j \in 1..(Len(tab) + 1) : new[j] = IF j < p THEN tab[j] ELSE IF j = p THEN x ELSE tab[j - 1]
  <2> HIDE DEF p, x
  <2>1. InsertAt(tab, p, x) = new
    BY DEF _add_variable, p, x
  <2> HIDE DEF new
  <2>2. /\ InsertAt(tab, p, x) \in Seq(Entries) /\ Len(InsertAt(tab, p, x)) = Len(tab) + 1
        /\ \A j \in 1..(Len(tab) + 1) :
             InsertAt(tab, p, x)[j] = IF j < p THEN tab[j] ELSE IF j = p THEN x ELSE tab[j - 1]
    <3>1. tab \in Seq(Entries) /\ p \in 1..(Len(tab) + 1) /\ x \in Entries
      BY <1>1, <1>2, <1>3
    <3> QED BY ONLY <3>1, InsertedAt
  <2> QED BY <2>1, <2>2
<1> HIDE DEF p, x, new
<1>5. \A i \in 1..Len(tab) : Rank[tab[i].name] \in Nat
  BY <1>1, RanksOrder
<1>6. Rank[n] \in Nat
  BY RanksOrder
<1>7. \A j \in 1..Len(new) : /\ j < p => j \in 1..Len(tab) /\ new[j] = tab[j] /\ Rank[new[j].name] < Rank[n]
                             /\ j = p => new[j].name = n
                             /\ j > p => /\ j - 1 \in 1..Len(tab) /\ new[j] = tab[j - 1]
                                         /\ ~(Rank[new[j].name] < Rank[n])
  <2> SUFFICES ASSUME NEW j \in 1..Len(new)
               PROVE  /\ j < p => j \in 1..Len(tab) /\ new[j] = tab[j] /\ Rank[new[j].name] < Rank[n]
                      /\ j = p => new[j].name = n
                      /\ j > p => /\ j - 1 \in 1..Len(tab) /\ new[j] = tab[j - 1]
                                  /\ ~(Rank[new[j].name] < Rank[n])
    OBVIOUS
  <2>1. ASSUME j < p PROVE j \in 1..Len(tab) /\ new[j] = tab[j] /\ Rank[new[j].name] < Rank[n]
    BY <1>1, <1>2, <1>4, <2>1
  <2>2. ASSUME j = p PROVE new[j].name = n
    BY <1>1, <1>2, <1>3, <1>4, <2>2
  <2>3. ASSUME j > p PROVE /\ j - 1 \in 1..Len(tab) /\ new[j] = tab[j - 1] /\ ~(Rank[new[j].name] < Rank[n])
    <3>1. j - 1 \in 1..Len(tab) /\ ~(j < p) /\ j # p /\ ~(j - 1 < p)
      BY <1>1, <1>2, <1>4, <2>3
    <3> QED BY <1>2, <1>4, <3>1
  <2> QED BY <2>1, <2>2, <2>3
<1>8. new \in Sorteds
  <2>1. \A j \in 1..Len(new) : new[j].name \in VarNames
    <3>1. \A e \in Entries : e.name \in VarNames
      BY DEF Entries
    <3> QED BY <1>4, <3>1, ElementOfSeq
  <2>2. ASSUME NEW i \in 1..Len(new), NEW j \in 1..Len(new), i <= j
        PROVE  Rank[new[i].name] <= Rank[new[j].name]
    <3>0. Rank[new[i].name] \in Nat /\ Rank[new[j].name] \in Nat /\ i \in Nat /\ j \in Nat /\ p \in Nat
      BY <1>2, <1>1, <2>1, RanksOrder
    <3>1. CASE i < p /\ j < p
      BY <1>1, <1>7, <2>2, <3>1
    <3>2. CASE i < p /\ ~(j < p)
      <4>1. Rank[new[i].name] < Rank[n] /\ (Rank[new[j].name] = Rank[n] \/ ~(Rank[new[j].name] < Rank[n]))
        BY <1>7, <3>0, <3>2
      <4> QED BY <1>6, <3>0, <4>1
    <3>3. CASE i = p
      <4>1. Rank[new[i].name] = Rank[n] /\ (Rank[new[j].name] = Rank[n] \/ ~(Rank[new[j].name] < Rank[n]))
        BY <1>7, <2>2, <3>0, <3>3
      <4> QED BY <1>6, <3>0, <4>1
    <3>4. CASE i > p
      <4>1. j > p /\ i - 1 <= j - 1
        BY <2>2, <3>0, <3>4
      <4>2. /\ i - 1 \in 1..Len(tab) /\ j - 1 \in 1..Len(tab)
            /\ new[i] = tab[i - 1] /\ new[j] = tab[j - 1]
        BY <1>7, <3>4, <4>1
      <4> QED BY <1>1, <4>1, <4>2
    <3> QED BY <3>0, <3>1, <3>2, <3>3, <3>4, <2>2
  <2>3. Sorted(new)
    <3> SUFFICES ASSUME NEW i \in 1..Len(new), NEW j \in 1..Len(new), i <= j
                 PROVE  ~Less(new[j].name, new[i].name)
      BY DEF Sorted
    <3>1. Rank[new[i].name] <= Rank[new[j].name] /\ new[i].name \in VarNames /\ new[j].name \in VarNames
      BY <2>1, <2>2
    <3> QED BY <3>1, RanksOrder
  <2> QED BY <1>4, <2>3 DEF Sorteds
<1>9. _find_var(new, n) = p
  <2>1. p \in 1..(Len(new) + 1)
    BY <1>1, <1>2, <1>4
  <2>2. \A i \in 1..Len(new) : i < p <=> Rank[new[i].name] < Rank[n]
    <3> SUFFICES ASSUME NEW i \in 1..Len(new) PROVE i < p <=> Rank[new[i].name] < Rank[n]
      OBVIOUS
    <3>1. i < p \/ i = p \/ i > p
      BY <1>1, <1>2
    <3>2. i = p => ~(Rank[new[i].name] < Rank[n]) /\ ~(i < p)
      BY <1>2, <1>6, <1>7
    <3>3. i > p => ~(i < p)
      BY <1>1, <1>2
    <3> QED BY <1>7, <3>1, <3>2, <3>3
  <2> QED BY <1>8, <2>1, <2>2, FindUnique
<1>10. ASSUME NEW d \in Nat PROVE At(new, n, d + 1) = At(tab, n, d)
  <2>1. At(new, n, d + 1) = IF p + (d + 1) \in 1..Len(new) /\ new[p + (d + 1)].name = n
                            THEN <<new[p + (d + 1)].contents>> ELSE <<>>
    <3>1. d + 1 \in Nat
      OBVIOUS
    <3> QED BY <1>8, <1>9, <3>1, AtIs
  <2>2. At(tab, n, d) = IF p + d \in 1..Len(tab) /\ tab[p + d].name = n THEN <<tab[p + d].contents>> ELSE <<>>
    BY AtIs DEF p
  <2>3. p + (d + 1) \in 1..Len(new) <=> p + d \in 1..Len(tab)
    BY <1>1, <1>2, <1>4
  <2>4. ASSUME p + d \in 1..Len(tab) PROVE new[p + (d + 1)] = tab[p + d]
    <3>1. p + (d + 1) \in 1..Len(new) /\ p + (d + 1) > p /\ (p + (d + 1)) - 1 = p + d
      BY <1>2, <2>3, <2>4
    <3> QED BY <1>7, <3>1
  <2> QED BY <2>1, <2>2, <2>3, <2>4
<1>11. ASSUME NEW m \in VarNames \ {n}, NEW d \in Nat PROVE At(new, m, d) = At(tab, m, d)
  <2> DEFINE q == _find_var(tab, m)
             r == IF q <= p /\ Rank[m] < Rank[n] THEN q ELSE q + 1
  <2>1. q \in 1..(Len(tab) + 1) /\ \A i \in 1..Len(tab) : i < q <=> Rank[tab[i].name] < Rank[m]
    BY FindIs
  <2> HIDE DEF q
  <2>2. Rank[m] \in Nat /\ Rank[m] # Rank[n]
    BY RanksOrder
  <2>3. CASE Rank[m] < Rank[n]
    <3>1. q <= p
      <4> SUFFICES ASSUME p < q PROVE FALSE
        BY <1>2, <2>1, <1>1
      <4>1. p \in 1..Len(tab) /\ Rank[tab[p].name] < Rank[m] /\ ~(Rank[tab[p].name] < Rank[n])
        BY <1>1, <1>2, <2>1
      <4> QED BY <1>5, <1>6, <2>2, <2>3, <4>1
    <3>2. _find_var(new, m) = q
      <4>1. q \in 1..(Len(new) + 1)
        BY <1>1, <1>4, <2>1
      <4>2. ASSUME NEW i \in 1..Len(new) PROVE i < q <=> Rank[new[i].name] < Rank[m]
        <5>1. CASE i < p
          BY <1>7, <2>1, <5>1
        <5>2. CASE ~(i < p)
          <6>1. ~(Rank[new[i].name] < Rank[m])
            <7>1. i = p \/ i > p
              BY <1>1, <1>2, <5>2
            <7>2. CASE i = p
              BY <1>6, <1>7, <2>2, <2>3, <7>2
            <7>3. CASE i > p
              <8>1. Rank[new[i].name] \in Nat /\ ~(Rank[new[i].name] < Rank[n])
                BY <1>5, <1>7, <7>3
              <8> QED BY <1>6, <2>2, <2>3, <8>1
            <7> QED BY <7>1, <7>2, <7>3
          <6>2. ~(i < q)
            BY <1>1, <1>2, <2>1, <3>1, <5>2
          <6> QED BY <6>1, <6>2
        <5> QED BY <5>1, <5>2
      <4> QED BY <1>8, <4>1, <4>2, FindUnique
    <3>3. At(new, m, d) = IF q + d \in 1..Len(new) /\ new[q + d].name = m THEN <<new[q + d].contents>> ELSE <<>>
      BY <1>8, <3>2, AtIs
    <3>4. At(tab, m, d) = IF q + d \in 1..Len(tab) /\ tab[q + d].name = m THEN <<tab[q + d].contents>> ELSE <<>>
      BY AtIs DEF q
    <3>5. q + d < p \/ q + d = p \/ q + d > p
      <4>1. q \in Nat /\ p \in Nat
        BY <1>1, <1>2, <2>1
      <4> QED BY <4>1
    <3>6. CASE q + d < p
      <4>1. q + d \in 1..Len(tab) /\ q + d \in 1..Len(new)
        BY <1>1, <1>2, <1>4, <2>1, <3>6
      <4> QED BY <1>7, <3>3, <3>4, <3>6, <4>1
    <3>7. CASE ~(q + d < p)
      <4>1. q + d \in 1..Len(tab) => tab[q + d].name # m
        <5> SUFFICES ASSUME q + d \in 1..Len(tab) PROVE tab[q + d].name # m
          OBVIOUS
        <5>1. ~(Rank[tab[q + d].name] < Rank[n])
          BY <1>2, <3>7
        <5> QED BY <5>1, <2>3
      <4>2. q + d \in 1..Len(new) => new[q + d].name # m
        <5> SUFFICES ASSUME q + d \in 1..Len(new) PROVE new[q + d].name # m
          OBVIOUS
        <5>1. q + d = p => new[q + d].name = n
          BY <1>7
        <5>2. q + d > p => ~(Rank[new[q + d].name] < Rank[n])
          BY <1>7
        <5> QED BY <2>3, <3>5, <3>7, <5>1, <5>2
      <4> QED BY <3>3, <3>4, <4>1, <4>2
    <3> QED BY <3>6, <3>7
  <2>4. CASE Rank[n] < Rank[m]
    <3>1. p <= q
      <4> SUFFICES ASSUME q < p PROVE FALSE
        BY <1>2, <2>1, <1>1
      <4>1. q \in 1..Len(tab) /\ ~(Rank[tab[q].name] < Rank[m]) /\ Rank[tab[q].name] < Rank[n]
        BY <1>1, <1>2, <2>1
      <4> QED BY <1>5, <1>6, <2>2, <2>4, <4>1
    <3>2. _find_var(new, m) = q + 1
      <4>1. q + 1 \in 1..(Len(new) + 1)
        BY <1>1, <1>4, <2>1
      <4>2. ASSUME NEW i \in 1..Len(new) PROVE i < q + 1 <=> Rank[new[i].name] < Rank[m]
        <5>1. CASE i < p
          <6>1. Rank[new[i].name] < Rank[n] /\ Rank[new[i].name] \in Nat
            BY <1>5, <1>7, <5>1
          <6>2. i < q + 1
            BY <1>1, <1>2, <2>1, <3>1, <5>1
          <6> QED BY <1>6, <2>2, <2>4, <6>1, <6>2
        <5>2. CASE i = p
          <6>1. i < q + 1
            BY <1>1, <1>2, <2>1, <3>1, <5>2
          <6> QED BY <1>7, <2>4, <5>2, <6>1
        <5>3. CASE i > p
          <6>1. i - 1 \in 1..Len(tab) /\ new[i] = tab[i - 1]
            BY <1>7, <5>3
          <6>2. i - 1 < q <=> i < q + 1
            BY <1>1, <2>1
          <6> QED BY <2>1, <6>1, <6>2
        <5>4. i < p \/ i = p \/ i > p
          BY <1>1, <1>2
        <5> QED BY <5>1, <5>2, <5>3, <5>4
      <4> QED BY <1>8, <4>1, <4>2, FindUnique
    <3>3. At(new, m, d) = IF (q + 1) + d \in 1..Len(new) /\ new[(q + 1) + d].name = m
                          THEN <<new[(q + 1) + d].contents>> ELSE <<>>
      BY <1>8, <3>2, AtIs
    <3>4. At(tab, m, d) = IF q + d \in 1..Len(tab) /\ tab[q + d].name = m THEN <<tab[q + d].contents>> ELSE <<>>
      BY AtIs DEF q
    <3>5. (q + 1) + d > p /\ ((q + 1) + d \in 1..Len(new) <=> q + d \in 1..Len(tab)) /\ ((q + 1) + d) - 1 = q + d
      BY <1>1, <1>2, <1>4, <2>1, <3>1
    <3>6. (q + 1) + d \in 1..Len(new) => new[(q + 1) + d] = tab[q + d]
      BY <1>7, <3>5
    <3> QED BY <3>3, <3>4, <3>5, <3>6
  <2> QED BY <1>6, <2>2, <2>3, <2>4
<1> QED BY <1>8, <1>10, <1>11 DEF new

\* A name that is removed has again what was below its top, and other names keep
\* what they have.
LEMMA RemoveDoes ==
  ASSUME NEW tab \in Sorteds, NEW n \in VarNames
  PROVE  /\ _remove_variable(tab, n) \in Sorteds
         /\ \A d \in Nat : At(_remove_variable(tab, n), n, d) = At(tab, n, d + 1)
         /\ \A m \in VarNames \ {n}, d \in Nat : At(_remove_variable(tab, n), m, d) = At(tab, m, d)
<1> DEFINE p == _find_var(tab, n)
           new == _remove_variable(tab, n)
<1>1. /\ tab \in Seq(Entries) /\ Len(tab) \in Nat /\ DOMAIN tab = 1..Len(tab)
      /\ \A i \in 1..Len(tab) : tab[i].name \in VarNames /\ Rank[tab[i].name] \in Nat
      /\ \A i, j \in 1..Len(tab) : i <= j => Rank[tab[i].name] <= Rank[tab[j].name]
      /\ Rank[n] \in Nat
  BY SortedIs, RanksOrder
<1>2. /\ p \in 1..(Len(tab) + 1)
      /\ \A i \in 1..Len(tab) : i < p <=> Rank[tab[i].name] < Rank[n]
  BY FindIs
<1>3. CASE ~Found(tab, p, n)
  <2>1. new = tab
    BY <1>3 DEF _remove_variable
  <2>2. ASSUME NEW d \in Nat PROVE At(tab, n, d) = <<>>
    <3>1. At(tab, n, d) = IF p + d \in 1..Len(tab) /\ tab[p + d].name = n THEN <<tab[p + d].contents>> ELSE <<>>
      BY AtIs
    <3> HIDE DEF p
    <3>2. ASSUME p + d \in 1..Len(tab), tab[p + d].name = n PROVE FALSE
      <4>1. p \in 1..Len(tab) /\ p <= p + d
        BY <1>1, <1>2, <3>2
      <4>2. Rank[tab[p].name] <= Rank[n] /\ ~(Rank[tab[p].name] < Rank[n])
        BY <1>1, <1>2, <3>2, <4>1
      <4>3. tab[p].name = n
        BY <1>1, <4>1, <4>2, RanksOrder
      <4> QED BY <1>1, <1>3, <4>1, <4>3 DEF Found, p
    <3> QED BY <3>1, <3>2
  <2>3. \A d \in Nat : At(tab, n, d) = At(tab, n, d + 1)
    BY <2>2
  <2> HIDE DEF new
  <2> QED BY <2>1, <2>3 DEF new
<1>4. CASE Found(tab, p, n)
  <2>0. p \in 1..Len(tab) /\ tab[p].name = n
    BY <1>1, <1>4 DEF Found
  <2>1. /\ new \in Seq(Entries) /\ Len(new) = Len(tab) - 1
        /\ \A j \in 1..(Len(tab) - 1) : new[j] = IF j < p THEN tab[j] ELSE tab[j + 1]
    <3> HIDE DEF p
    <3>1. RemoveAt(tab, p) = new
      BY <1>4 DEF _remove_variable, p
    <3> HIDE DEF new
    <3>2. /\ RemoveAt(tab, p) \in Seq(Entries) /\ Len(RemoveAt(tab, p)) = Len(tab) - 1
          /\ \A j \in 1..(Len(tab) - 1) : RemoveAt(tab, p)[j] = IF j < p THEN tab[j] ELSE tab[j + 1]
      BY <1>1, <2>0, RemovedAt
    <3> QED BY <3>1, <3>2
  <2> HIDE DEF p, new
  <2>2. \A j \in 1..Len(new) : /\ j < p => j \in 1..Len(tab) /\ new[j] = tab[j]
                               /\ ~(j < p) => j + 1 \in 1..Len(tab) /\ new[j] = tab[j + 1] /\ j + 1 > p
    BY <1>1, <2>0, <2>1
  <2>3. new \in Sorteds
    <3>1. \A j \in 1..Len(new) : new[j].name \in VarNames
      BY <1>1, <2>2
    <3>2. ASSUME NEW i \in 1..Len(new), NEW j \in 1..Len(new), i <= j
          PROVE  Rank[new[i].name] <= Rank[new[j].name]
      <4>1. CASE j < p
        <5>1. i < p
          BY <1>1, <2>0, <2>1, <3>2, <4>1
        <5> QED BY <1>1, <2>2, <3>2, <4>1, <5>1
      <4>2. CASE i < p /\ ~(j < p)
        <5>1. i <= j + 1
          BY <1>1, <2>0, <2>1, <3>2
        <5> QED BY <1>1, <2>2, <4>2, <5>1
      <4>3. CASE ~(i < p)
        <5>1. i + 1 <= j + 1 /\ ~(j < p)
          BY <1>1, <2>0, <2>1, <3>2, <4>3
        <5> QED BY <1>1, <2>2, <4>3, <5>1
      <4> QED BY <4>1, <4>2, <4>3
    <3>3. Sorted(new)
      <4> SUFFICES ASSUME NEW i \in 1..Len(new), NEW j \in 1..Len(new), i <= j
                   PROVE  ~Less(new[j].name, new[i].name)
        BY DEF Sorted
      <4>1. Rank[new[i].name] <= Rank[new[j].name] /\ new[i].name \in VarNames /\ new[j].name \in VarNames
        BY <3>1, <3>2
      <4> QED BY <4>1, RanksOrder
    <3> QED BY <2>1, <3>3 DEF Sorteds
  <2>4. ASSUME NEW d \in Nat PROVE At(new, n, d) = At(tab, n, d + 1)
    <3>1. _find_var(new, n) = p
      <4>1. p \in 1..(Len(new) + 1)
        BY <1>1, <2>0, <2>1
      <4>2. ASSUME NEW i \in 1..Len(new) PROVE i < p <=> Rank[new[i].name] < Rank[n]
        <5>1. CASE i < p
          BY <1>2, <2>2, <5>1
        <5>2. CASE ~(i < p)
          <6>1. i + 1 \in 1..Len(tab) /\ new[i] = tab[i + 1] /\ ~(i + 1 < p)
            BY <1>1, <2>0, <2>1, <2>2, <5>2
          <6> QED BY <1>2, <5>2, <6>1
        <5> QED BY <5>1, <5>2
      <4> QED BY <2>3, <4>1, <4>2, FindUnique
    <3>2. At(new, n, d) = IF p + d \in 1..Len(new) /\ new[p + d].name = n THEN <<new[p + d].contents>> ELSE <<>>
      BY <2>3, <3>1, AtIs
    <3>3. At(tab, n, d + 1) = IF p + (d + 1) \in 1..Len(tab) /\ tab[p + (d + 1)].name = n
                              THEN <<tab[p + (d + 1)].contents>> ELSE <<>>
      <4>1. d + 1 \in Nat
        OBVIOUS
      <4> QED BY <4>1, AtIs DEF p
    <3>4. p + d \in 1..Len(new) <=> p + (d + 1) \in 1..Len(tab)
      BY <1>1, <2>0, <2>1
    <3>5. p + d \in 1..Len(new) => new[p + d] = tab[p + (d + 1)]
      <4>1. ~(p + d < p) /\ (p + d) + 1 = p + (d + 1)
        BY <2>0
      <4> QED BY <2>2, <4>1
    <3> QED BY <3>2, <3>3, <3>4, <3>5
  <2>5. ASSUME NEW m \in VarNames \ {n}, NEW d \in Nat PROVE At(new, m, d) = At(tab, m, d)
    <3> DEFINE q == _find_var(tab, m)
    <3>1. q \in 1..(Len(tab) + 1) /\ \A i \in 1..Len(tab) : i < q <=> Rank[tab[i].name] < Rank[m]
      BY FindIs
    <3>2. At(tab, m, d) = IF q + d \in 1..Len(tab) /\ tab[q + d].name = m THEN <<tab[q + d].contents>> ELSE <<>>
      BY AtIs
    <3> HIDE DEF q
    <3>3. Rank[m] \in Nat /\ Rank[m] # Rank[n] /\ p \in Nat /\ q \in Nat
      BY <2>0, <3>1, <1>1, RanksOrder
    <3>4. CASE Rank[m] < Rank[n]
      <4>1. q <= p
        <5>1. ~(p < q)
          BY <1>1, <2>0, <3>1, <3>3, <3>4
        <5> QED BY <3>3, <5>1
      <4>2. _find_var(new, m) = q
        <5>1. q \in 1..(Len(new) + 1)
          BY <1>1, <2>0, <2>1, <3>1, <4>1
        <5>2. ASSUME NEW i \in 1..Len(new) PROVE i < q <=> Rank[new[i].name] < Rank[m]
          <6>1. CASE i < p
            BY <2>2, <3>1, <6>1
          <6>2. CASE ~(i < p)
            <7>1. i + 1 \in 1..Len(tab) /\ new[i] = tab[i + 1] /\ ~(i + 1 < p) /\ ~(i < q)
              BY <1>1, <2>0, <2>1, <2>2, <3>3, <4>1, <6>2
            <7>2. ~(Rank[tab[i + 1].name] < Rank[n]) /\ Rank[tab[i + 1].name] \in Nat
              BY <1>1, <1>2, <7>1
            <7> QED BY <1>1, <3>3, <3>4, <7>1, <7>2
          <6> QED BY <6>1, <6>2
        <5> QED BY <2>3, <5>1, <5>2, FindUnique
      <4>3. At(new, m, d) = IF q + d \in 1..Len(new) /\ new[q + d].name = m THEN <<new[q + d].contents>> ELSE <<>>
        BY <2>3, <4>2, AtIs
      <4>4. CASE q + d < p
        <5>1. q + d \in 1..Len(tab) /\ q + d \in 1..Len(new)
          BY <1>1, <2>0, <2>1, <3>1, <4>4
        <5> QED BY <2>2, <3>2, <4>3, <4>4, <5>1
      <4>5. CASE ~(q + d < p)
        <5>1. \A i \in 1..Len(tab) : ~(i < p) => tab[i].name # m
          BY <1>2, <3>4
        <5>2. q + d \in 1..Len(tab) => tab[q + d].name # m
          BY <4>5, <5>1
        <5>3. q + d \in 1..Len(new) => new[q + d].name # m
          <6> SUFFICES ASSUME q + d \in 1..Len(new) PROVE new[q + d].name # m
            OBVIOUS
          <6>1. (q + d) + 1 \in 1..Len(tab) /\ new[q + d] = tab[(q + d) + 1] /\ (q + d) + 1 > p
            BY <2>2, <4>5
          <6>2. ~((q + d) + 1 < p)
            BY <3>3, <6>1
          <6> QED BY <5>1, <6>1, <6>2
        <5> QED BY <3>2, <4>3, <5>2, <5>3
      <4> QED BY <4>4, <4>5
    <3>5. CASE Rank[n] < Rank[m]
      <4>1. p < q
        <5>1. p < q <=> Rank[tab[p].name] < Rank[m]
          BY <2>0, <3>1
        <5> QED BY <2>0, <3>5, <5>1
      <4>2. _find_var(new, m) = q - 1
        <5>1. q - 1 \in 1..(Len(new) + 1)
          BY <1>1, <2>0, <2>1, <3>1, <4>1
        <5>2. ASSUME NEW i \in 1..Len(new) PROVE i < q - 1 <=> Rank[new[i].name] < Rank[m]
          <6>1. CASE i < p
            <7>1. i \in 1..Len(tab) /\ new[i] = tab[i] /\ Rank[tab[i].name] < Rank[n] /\ Rank[tab[i].name] \in Nat
              BY <1>1, <1>2, <2>2, <6>1
            <7>2. i < q - 1
              BY <3>3, <4>1, <6>1
            <7> QED BY <1>1, <3>3, <3>5, <7>1, <7>2
          <6>2. CASE ~(i < p)
            <7>1. i + 1 \in 1..Len(tab) /\ new[i] = tab[i + 1]
              BY <2>2, <6>2
            <7>2. i + 1 < q <=> i < q - 1
              BY <3>3
            <7> QED BY <3>1, <7>1, <7>2
          <6> QED BY <6>1, <6>2
        <5> QED BY <2>3, <5>1, <5>2, FindUnique
      <4>3. At(new, m, d) = IF (q - 1) + d \in 1..Len(new) /\ new[(q - 1) + d].name = m
                            THEN <<new[(q - 1) + d].contents>> ELSE <<>>
        BY <2>3, <4>2, AtIs
      <4>4. ((q - 1) + d \in 1..Len(new) <=> q + d \in 1..Len(tab)) /\ ~((q - 1) + d < p) /\ ((q - 1) + d) + 1 = q + d
        BY <1>1, <2>0, <2>1, <3>1, <4>1
      <4>5. (q - 1) + d \in 1..Len(new) => new[(q - 1) + d] = tab[q + d]
        BY <2>2, <4>4
      <4> QED BY <3>2, <4>3, <4>4, <4>5
    <3> QED BY <1>1, <3>3, <3>4, <3>5
  <2> QED BY <2>3, <2>4, <2>5 DEF new
<1> QED BY <1>3, <1>4

(* What names stand for, and what a line does *)

States == [user : Sorteds, environ : {EnvNames}]
Val(v, n) ==
  IF v # <<>> THEN v ELSE IF n \in DOMAIN Defaults THEN <<Defaults[n]>>
  ELSE IF n \in DOMAIN EnvNames THEN <<EnvNames[n]>> ELSE <<>>
ContentsOf(v) == IF v = <<>> THEN <<>> ELSE v[1]

LEMMA ValueIs ==
  ASSUME NEW tab \in Sorteds, NEW n \in VarNames
  PROVE  /\ ValueOf(tab, EnvNames, n) = Val(At(tab, n, 0), n)
         /\ Contents(tab, EnvNames, n) = ContentsOf(Val(At(tab, n, 0), n))
         /\ Val(At(tab, n, 0), n) \in Seq(Seq(STRING))
         /\ ContentsOf(Val(At(tab, n, 0), n)) \in Seq(STRING)
<1> DEFINE i == _find_var(tab, n)
           v == At(tab, n, 0)
           w == Val(v, n)
<1>1. i + 0 = i
  BY FindIs
<1>2. v = _get_variable(tab, n)
  BY <1>1 DEF At, _get_variable
<1>3. ValueOf(tab, EnvNames, n) = w
  BY <1>2 DEF ValueOf, Val
<1>4. v = <<>> \/ \E x \in Seq(STRING) : v = <<x>>
  <2>1. Found(tab, i, n) => tab[i].contents \in Seq(STRING)
    BY SortedIs DEF Found
  <2> QED BY <1>2, <2>1 DEF _get_variable
<1>5. w = <<>> \/ \E x \in Seq(STRING) : w = <<x>>
  <2>1. /\ n \in DOMAIN Defaults => Defaults[n] \in Seq(STRING)
        /\ n \in DOMAIN EnvNames => EnvNames[n] \in Seq(STRING)
    BY EnvironmentAssumption
  <2> HIDE DEF v
  <2> QED BY <1>4, <2>1 DEF Val
<1> HIDE DEF w
<1>6. w \in Seq(Seq(STRING)) /\ ContentsOf(w) \in Seq(STRING)
  <2>1. CASE w = <<>>
    BY <2>1, EmptySeq DEF ContentsOf
  <2>2. ASSUME NEW x \in Seq(STRING), w = <<x>> PROVE w \in Seq(Seq(STRING)) /\ ContentsOf(w) \in Seq(STRING)
    <3>1. <<x>> \in Seq(Seq(STRING)) /\ Len(<<x>>) = 1 /\ <<x>>[1] = x
      BY Singleton
    <3>2. <<x>> # <<>>
      OBVIOUS
    <3> QED BY <2>2, <3>1, <3>2 DEF ContentsOf
  <2> QED BY <1>5, <2>1, <2>2
<1>7. Contents(tab, EnvNames, n) = ContentsOf(w)
  BY <1>3 DEF Contents, ContentsOf
<1> QED BY <1>3, <1>6, <1>7 DEF w

\* high has c[n] entries more on top of each name n than low.
Above(low, high, c) == \A n \in VarNames, d \in Nat : At(high, n, d + c[n]) = At(low, n, d)
Moved(s, t, unload, c) == IF unload THEN Above(t.user, s.user, c) ELSE Above(s.user, t.user, c)
Plus(c, e) == [n \in VarNames |-> c[n] + e[n]]
Counts == [VarNames -> Nat]

LEMMA MovedTwice ==
  ASSUME NEW s, NEW t, NEW w, NEW unload \in BOOLEAN, NEW c \in Counts, NEW e \in Counts,
         Moved(s, t, unload, c), Moved(t, w, unload, e)
  PROVE  Moved(s, w, unload, Plus(c, e)) /\ Plus(c, e) \in Counts
<1>1. Plus(c, e) \in Counts /\ \A n \in VarNames : c[n] \in Nat /\ e[n] \in Nat /\ Plus(c, e)[n] = c[n] + e[n]
  BY DEF Counts, Plus
<1>2. ASSUME NEW a, NEW b, NEW h, NEW x \in Counts, NEW y \in Counts, Above(a, b, x), Above(b, h, y),
             NEW n \in VarNames, NEW d \in Nat
      PROVE  At(h, n, d + (x[n] + y[n])) = At(a, n, d)
  <2>1. x[n] \in Nat /\ y[n] \in Nat
    BY DEF Counts
  <2>2. d + x[n] \in Nat /\ (d + x[n]) + y[n] = d + (x[n] + y[n])
    BY <2>1
  <2>3. At(h, n, (d + x[n]) + y[n]) = At(b, n, d + x[n]) /\ At(b, n, d + x[n]) = At(a, n, d)
    BY <1>2, <2>2 DEF Above
  <2> QED BY <2>2, <2>3
<1>3. CASE unload
  <2>1. Above(t.user, s.user, c) /\ Above(w.user, t.user, e)
    BY <1>3 DEF Moved
  <2>2. ASSUME NEW n \in VarNames, NEW d \in Nat PROVE At(s.user, n, d + Plus(c, e)[n]) = At(w.user, n, d)
    <3>1. At(s.user, n, d + (e[n] + c[n])) = At(w.user, n, d)
      BY <1>2, <2>1
    <3>2. e[n] + c[n] = Plus(c, e)[n]
      BY <1>1
    <3> QED BY <3>1, <3>2
  <2> QED BY <1>1, <1>3, <2>2 DEF Moved, Above
<1>4. CASE ~unload
  <2>1. Above(s.user, t.user, c) /\ Above(t.user, w.user, e)
    BY <1>4 DEF Moved
  <2>2. ASSUME NEW n \in VarNames, NEW d \in Nat PROVE At(w.user, n, d + Plus(c, e)[n]) = At(s.user, n, d)
    <3>1. At(w.user, n, d + (c[n] + e[n])) = At(s.user, n, d)
      BY <1>2, <2>1
    <3> QED BY <1>1, <3>1
  <2> QED BY <1>1, <1>4, <2>2 DEF Moved, Above
<1> QED BY <1>3, <1>4

\* The names O stand for what V says.
Agrees(tab, V, O) == \A o \in O : Val(At(tab, o, 0), o) = V[o]
Spares(c, O) == c \in Counts /\ \A o \in O : c[o] = 0

LEMMA MovedAgrees ==
  ASSUME NEW O \in SUBSET VarNames, NEW V, NEW s, NEW t, NEW unload \in BOOLEAN, NEW c, Spares(c, O),
         Moved(s, t, unload, c), Agrees(s.user, V, O)
  PROVE  Agrees(t.user, V, O)
<1> SUFFICES ASSUME NEW o \in O PROVE Val(At(t.user, o, 0), o) = V[o]
  BY DEF Agrees
<1>1. 0 \in Nat /\ 0 + c[o] = 0 /\ o \in VarNames
  BY DEF Spares
<1>2. At(t.user, o, 0) = At(s.user, o, 0)
  BY <1>1 DEF Moved, Above
<1> QED BY <1>2 DEF Agrees

\* A name that is set or removed, one time.
One(n) == [x \in VarNames |-> IF x = n THEN 1 ELSE 0]
Change(tab, n, c, unload) == IF unload THEN remove_user_variable(tab, n) ELSE insert_user_variable(tab, n, c)
LEMMA ChangeMoves ==
  ASSUME NEW tab \in Sorteds, NEW n \in VarNames, NEW c \in Seq(STRING), NEW unload \in BOOLEAN
  PROVE  /\ Change(tab, n, c, unload) \in Sorteds /\ One(n) \in Counts
         /\ IF unload THEN Above(Change(tab, n, c, unload), tab, One(n))
            ELSE Above(tab, Change(tab, n, c, unload), One(n))
<1>1. One(n) \in Counts /\ One(n)[n] = 1 /\ \A m \in VarNames \ {n} : One(n)[m] = 0
  BY DEF One, Counts
<1>2. CASE unload
  <2> DEFINE new == _remove_variable(tab, n)
  <2>1. /\ new \in Sorteds /\ \A d \in Nat : At(new, n, d) = At(tab, n, d + 1)
        /\ \A m \in VarNames \ {n}, d \in Nat : At(new, m, d) = At(tab, m, d)
    BY RemoveDoes
  <2>2. Change(tab, n, c, unload) = new
    BY <1>2 DEF Change, remove_user_variable
  <2> HIDE DEF new
  <2>3. ASSUME NEW m \in VarNames, NEW d \in Nat PROVE At(tab, m, d + One(n)[m]) = At(new, m, d)
    <3>1. CASE m = n
      BY <1>1, <2>1, <3>1
    <3>2. CASE m # n
      <4>1. d + One(n)[m] = d /\ m \in VarNames \ {n}
        BY <1>1, <3>2
      <4> QED BY <2>1, <4>1
    <3> QED BY <3>1, <3>2
  <2> QED BY <1>1, <1>2, <2>1, <2>2, <2>3 DEF Above
<1>3. CASE ~unload
  <2> DEFINE new == _add_variable(tab, n, c)
  <2>1. /\ new \in Sorteds /\ \A d \in Nat : At(new, n, d + 1) = At(tab, n, d)
        /\ \A m \in VarNames \ {n}, d \in Nat : At(new, m, d) = At(tab, m, d)
    BY AddDoes
  <2>2. Change(tab, n, c, unload) = new
    BY <1>3 DEF Change, insert_user_variable
  <2> HIDE DEF new
  <2>3. ASSUME NEW m \in VarNames, NEW d \in Nat PROVE At(new, m, d + One(n)[m]) = At(tab, m, d)
    <3>1. CASE m = n
      BY <1>1, <2>1, <3>1
    <3>2. CASE m # n
      <4>1. d + One(n)[m] = d /\ m \in VarNames \ {n}
        BY <1>1, <3>2
      <4> QED BY <2>1, <4>1
    <3> QED BY <3>1, <3>2
  <2> QED BY <1>1, <1>3, <2>1, <2>2, <2>3 DEF Above
<1> QED BY <1>2, <1>3

\* A line that sets none of the names O but is expanded by them, and that exports
\* no variable of the process.
Proper(line, O) ==
  /\ line \in SetLines /\ SetBy(line.name) \cap O = {}
  /\ line.name \in DOMAIN Computed => Computed[line.name].of \in O
  /\ line.kind = "export" => SetBy(line.name) \cap DOMAIN EnvNames = {}

\* What a line sets depends only on what O stand for.
LEMMA LineMoves ==
  ASSUME NEW O \in SUBSET VarNames, NEW V, NEW line, Proper(line, O)
  PROVE  \E c : /\ Spares(c, O)
                /\ \A s \in States, unload \in BOOLEAN : Agrees(s.user, V, O) =>
                     LoadLine(s, line, unload) \in States /\ Moved(s, LoadLine(s, line, unload), unload, c)
<1> DEFINE n == line.name
           v == ContentsOf(V[Computed[n].of])
           m == IF n \notin DOMAIN Computed THEN n
                ELSE IF v \in DOMAIN Computed[n].names THEN Computed[n].names[v] ELSE n
           c == IF m = n THEN One(n) ELSE Plus(One(n), One(m))
<1>1. n \in VarNames /\ line.contents \in Seq(STRING) /\ line.kind \in {"set", "add", "export"}
  BY DEF Proper, SetLines
<1>2. m \in VarNames /\ m \in SetBy(n) /\ n \in SetBy(n)
  <2>1. n \in DOMAIN Computed => Range(Computed[n].names) \subseteq VarNames
    BY EnvironmentAssumption
  <2>2. n \in SetBy(n)
    BY DEF SetBy
  <2>3. CASE n \in DOMAIN Computed /\ v \in DOMAIN Computed[n].names
    <3>1. Computed[n].names[v] \in Range(Computed[n].names)
      BY <2>3 DEF Range
    <3>2. m = Computed[n].names[v]
      BY <2>3
    <3> HIDE DEF m, v
    <3> QED BY <2>1, <2>2, <2>3, <3>1, <3>2 DEF SetBy
  <2>4. CASE ~(n \in DOMAIN Computed /\ v \in DOMAIN Computed[n].names)
    <3>1. m = n
      BY <2>4
    <3> QED BY <1>1, <2>2, <3>1
  <2> QED BY <2>3, <2>4
<1>3. ASSUME NEW s \in States, Agrees(s.user, V, O)
      PROVE  Expanded(s.user, s.environ, n) = m
  <2>1. s.environ = EnvNames /\ s.user \in Sorteds
    BY DEF States
  <2>2. CASE n \in DOMAIN Computed
    <3>1. Computed[n].of \in O /\ Computed[n].of \in VarNames
      BY <2>2 DEF Proper
    <3>2. Contents(s.user, EnvNames, Computed[n].of) = v
      BY <1>3, <2>1, <3>1, ValueIs DEF Agrees
    <3> QED BY <2>1, <2>2, <3>2 DEF Expanded
  <2>3. CASE n \notin DOMAIN Computed
    BY <2>3 DEF Expanded
  <2> QED BY <2>2, <2>3
<1> HIDE DEF m, v
<1>4. Spares(c, O)
  <2>1. n \notin O /\ m \notin O
    BY <1>2 DEF Proper
  <2>2. One(n) \in Counts /\ One(m) \in Counts /\ c \in Counts
    <3>1. One(n) \in Counts /\ One(m) \in Counts
      BY DEF One, Counts
    <3>2. Plus(One(n), One(m)) \in Counts
      BY <3>1 DEF Plus, Counts
    <3> QED BY <3>1, <3>2
  <2>3. ASSUME NEW o \in O PROVE c[o] = 0
    <3>1. One(n)[o] = 0 /\ One(m)[o] = 0 /\ o \in VarNames
      BY <2>1 DEF One
    <3> QED BY <3>1 DEF Plus
  <2> QED BY <2>2, <2>3 DEF Spares
<1>5. ASSUME NEW s \in States, NEW unload \in BOOLEAN, Agrees(s.user, V, O)
      PROVE  LoadLine(s, line, unload) \in States /\ Moved(s, LoadLine(s, line, unload), unload, c)
  <2> DEFINE k == IF line.kind = "add" THEN Contents(s.user, s.environ, m) \o line.contents
                  ELSE line.contents
             once == Change(s.user, n, k, unload)
             twice == Change(once, m, k, unload)
             new == LoadLine(s, line, unload)
             env == IF line.kind = "export"
                    THEN [x \in DOMAIN s.environ \ {m} |-> s.environ[x]] ELSE s.environ
  <2>1. s.environ = EnvNames /\ s.user \in Sorteds
    BY DEF States
  <2>2. k \in Seq(STRING)
    <3>1. Contents(s.user, s.environ, m) \in Seq(STRING)
      BY <1>2, <2>1, ValueIs
    <3> QED BY <1>1, <3>1, ConcatProperties
  <2>3. new = [user |-> IF m = n THEN once ELSE twice, environ |-> env]
    BY <1>3, <1>5 DEF LoadLine, Change
  <2>4. env = EnvNames
    <3>1. line.kind = "export" => m \notin DOMAIN EnvNames
      BY <1>2 DEF Proper
    <3>2. EnvNames = [x \in DOMAIN EnvNames |-> EnvNames[x]]
      BY EnvironmentAssumption
    <3>3. m \notin DOMAIN EnvNames => DOMAIN EnvNames \ {m} = DOMAIN EnvNames
      OBVIOUS
    <3> QED BY <2>1, <3>1, <3>2, <3>3
  <2> HIDE DEF k, env
  <2>5. /\ once \in Sorteds
        /\ IF unload THEN Above(once, s.user, One(n)) ELSE Above(s.user, once, One(n))
    BY <1>1, <2>1, <2>2, ChangeMoves
  <2> DEFINE half == [user |-> once, environ |-> EnvNames]
             full == [user |-> twice, environ |-> EnvNames]
  <2> HIDE DEF once, new
  <2>6. /\ twice \in Sorteds
        /\ IF unload THEN Above(twice, once, One(m)) ELSE Above(once, twice, One(m))
    BY <1>2, <2>2, <2>5, ChangeMoves
  <2> HIDE DEF twice
  <2>7. half \in States /\ full \in States /\ half.user = once /\ full.user = twice
    BY <2>5, <2>6 DEF States
  <2> HIDE DEF half, full
  <2>8. Moved(s, half, unload, One(n)) /\ Moved(half, full, unload, One(m))
    BY <2>5, <2>6, <2>7 DEF Moved
  <2>9. One(n) \in Counts /\ One(m) \in Counts
    BY DEF One, Counts
  <2>10. Moved(s, full, unload, Plus(One(n), One(m)))
    BY <2>8, <2>9, MovedTwice
  <2>11. new = IF m = n THEN half ELSE full
    BY <2>3, <2>4 DEF half, full
  <2> QED BY <2>7, <2>8, <2>10, <2>11 DEF new
<1> HIDE DEF c
<1> QED BY <1>4, <1>5

(* Lines one after the other *)

StepsOf(f, s, lines, unload) ==
  f = [i \in 0..Len(lines) |-> IF i = 0 THEN s ELSE LoadLine(f[i - 1], lines[i], unload)]
StepsTo(f, s, lines, unload, k) ==
  f = [i \in 0..k |-> IF i = 0 THEN s ELSE LoadLine(f[i - 1], lines[i], unload)]
LEMMA StepsExist ==
  ASSUME NEW s, NEW lines, NEW unload, Len(lines) \in Nat
  PROVE  \E f : StepsOf(f, s, lines, unload)
<1> DEFINE Reached == {k \in Nat : \E f : StepsTo(f, s, lines, unload, k)}
           n == Len(lines)
<1>1. 0 \in Reached
  <2> DEFINE f == [i \in 0..0 |-> s]
  <2>1. f = [i \in 0..0 |-> IF i = 0 THEN s ELSE LoadLine(f[i - 1], lines[i], unload)]
    OBVIOUS
  <2> HIDE DEF f
  <2>2. StepsTo(f, s, lines, unload, 0)
    BY <2>1 DEF StepsTo
  <2> QED BY <2>2
<1>2. ASSUME NEW k \in 0..(n - 1), k \in Reached PROVE k + 1 \in Reached
  <2>1. PICK f : StepsTo(f, s, lines, unload, k)
    BY <1>2
  <2> DEFINE g == [i \in 0..(k + 1) |-> IF i = k + 1 THEN LoadLine(f[k], lines[k + 1], unload) ELSE f[i]]
  <2>2. k \in Nat /\ k + 1 \in Nat /\ \A i \in 0..(k + 1) : i = k + 1 \/ i \in 0..k
    OBVIOUS
  <2>3. \A i \in 0..k : f[i] = IF i = 0 THEN s ELSE LoadLine(f[i - 1], lines[i], unload)
    BY <2>1 DEF StepsTo
  <2>4. ASSUME NEW i \in 0..(k + 1)
        PROVE  g[i] = IF i = 0 THEN s ELSE LoadLine(g[i - 1], lines[i], unload)
    <3>1. CASE i = k + 1
      <4>1. i # 0 /\ i - 1 = k /\ k \in 0..(k + 1) /\ k # k + 1
        BY <2>2, <3>1
      <4>2. g[i - 1] = f[k] /\ g[i] = LoadLine(f[k], lines[i], unload)
        BY <3>1, <4>1
      <4> HIDE DEF g
      <4> QED BY <4>1, <4>2
    <3>2. CASE i \in 0..k
      <4>1. i # k + 1 /\ g[i] = f[i]
        BY <2>2, <3>2
      <4>2. i # 0 => i - 1 \in 0..(k + 1) /\ i - 1 # k + 1
        BY <2>2, <3>2
      <4>3. i # 0 => g[i - 1] = f[i - 1]
        BY <4>2
      <4> HIDE DEF g
      <4> QED BY <2>3, <3>2, <4>1, <4>3
    <3> QED BY <2>2, <3>1, <3>2
  <2>5. g = [i \in 0..(k + 1) |-> IF i = 0 THEN s ELSE LoadLine(g[i - 1], lines[i], unload)]
    <3>1. \A i \in 0..(k + 1) : g[i] = IF i = 0 THEN s ELSE LoadLine(g[i - 1], lines[i], unload)
      BY <2>4
    <3>2. g = [i \in 0..(k + 1) |-> g[i]]
      OBVIOUS
    <3> HIDE DEF g
    <3> QED BY <3>1, <3>2
  <2> HIDE DEF g
  <2>6. StepsTo(g, s, lines, unload, k + 1)
    BY <2>5 DEF StepsTo
  <2> QED BY <2>2, <2>6
<1>3. n \in Reached
  <2>1. Reached \in SUBSET Nat /\ n \in Nat /\ n \in 0..n
    OBVIOUS
  <2> HIDE DEF Reached, n
  <2> QED BY <1>1, <1>2, <2>1, CountUp
<1> QED BY <1>3 DEF StepsTo, StepsOf

LoadsBy(f, s, lines, unload) ==
  /\ f[0] = s /\ LoadLines(s, lines, unload) = f[Len(lines)]
  /\ \A i \in 1..Len(lines) : f[i] = LoadLine(f[i - 1], lines[i], unload)
LEMMA LoadLinesIs ==
  ASSUME NEW s, NEW lines, NEW unload, Len(lines) \in Nat
  PROVE  \E f : LoadsBy(f, s, lines, unload)
<1> DEFINE f == CHOOSE f : StepsOf(f, s, lines, unload)
<1>1. StepsOf(f, s, lines, unload)
  BY StepsExist
<1>2. LoadLines(s, lines, unload) = f[Len(lines)]
  BY DEF LoadLines, StepsOf
<1> HIDE DEF f
<1>3. \A i \in 0..Len(lines) : f[i] = IF i = 0 THEN s ELSE LoadLine(f[i - 1], lines[i], unload)
  BY <1>1 DEF StepsOf
<1>4. f[0] = s /\ \A i \in 1..Len(lines) : f[i] = LoadLine(f[i - 1], lines[i], unload)
  BY <1>3
<1> QED BY <1>2, <1>4 DEF LoadsBy

\* Loading and unloading lines moves each name by the same number of entries.
Undone(lines, V, O, c) ==
  /\ Spares(c, O)
  /\ \A s \in States, unload \in BOOLEAN : Agrees(s.user, V, O) =>
       LoadLines(s, lines, unload) \in States /\ Moved(s, LoadLines(s, lines, unload), unload, c)
LEMMA LinesMove ==
  ASSUME NEW O \in SUBSET VarNames, NEW V, NEW lines \in Seq(SetLines),
         \A i \in 1..Len(lines) : Proper(lines[i], O)
  PROVE  \E c : Undone(lines, V, O, c)
<1> DEFINE F(s, unload) == CHOOSE f : LoadsBy(f, s, lines, unload)
           Is(k, c) == /\ Spares(c, O)
                       /\ \A s \in States, unload \in BOOLEAN : Agrees(s.user, V, O) =>
                            F(s, unload)[k] \in States /\ Moved(s, F(s, unload)[k], unload, c)
           Reached == {k \in Nat : \E c : Is(k, c)}
           n == Len(lines)
<1>1. n \in Nat
  BY LenProperties
<1>2. ASSUME NEW s, NEW unload
      PROVE  /\ F(s, unload)[0] = s /\ LoadLines(s, lines, unload) = F(s, unload)[n]
             /\ \A i \in 1..n : F(s, unload)[i] = LoadLine(F(s, unload)[i - 1], lines[i], unload)
  <2>1. \E f : LoadsBy(f, s, lines, unload)
    BY <1>1, LoadLinesIs
  <2>2. LoadsBy(F(s, unload), s, lines, unload)
    BY <2>1
  <2> QED BY <2>2 DEF LoadsBy
<1> HIDE DEF F
<1>3. 0 \in Reached
  <2> DEFINE c == [x \in VarNames |-> 0]
  <2>1. Spares(c, O)
    BY DEF Spares, Counts
  <2>2. ASSUME NEW s \in States, NEW unload \in BOOLEAN
        PROVE  F(s, unload)[0] \in States /\ Moved(s, F(s, unload)[0], unload, c)
    <3>1. F(s, unload)[0] = s
      BY <1>2
    <3>2. \A x \in VarNames, d \in Nat : d + c[x] = d
      OBVIOUS
    <3> HIDE DEF c
    <3> QED BY <3>1, <3>2 DEF Moved, Above
  <2> HIDE DEF c
  <2>3. Is(0, c)
    BY <2>1, <2>2
  <2> QED BY <2>3
<1>4. ASSUME NEW k \in 0..(n - 1), k \in Reached PROVE k + 1 \in Reached
  <2>1. PICK c : Is(k, c)
    BY <1>4
  <2>2. k + 1 \in 1..n /\ (k + 1) - 1 = k /\ k + 1 \in Nat
    BY <1>1
  <2>3. Proper(lines[k + 1], O)
    BY <2>2
  <2> DEFINE line == lines[k + 1]
  <2>4. PICK e : /\ Spares(e, O)
                 /\ \A s \in States, unload \in BOOLEAN : Agrees(s.user, V, O) =>
                      LoadLine(s, line, unload) \in States /\ Moved(s, LoadLine(s, line, unload), unload, e)
    <3> HIDE DEF line
    <3> QED BY <2>3, LineMoves DEF line
  <2>5. c \in Counts /\ e \in Counts /\ Spares(c, O)
    BY <2>1, <2>4 DEF Spares
  <2>6. Spares(Plus(c, e), O)
    <3>1. Plus(c, e) \in Counts
      BY <2>5 DEF Plus, Counts
    <3>2. ASSUME NEW o \in O PROVE Plus(c, e)[o] = 0
      <4>1. c[o] = 0 /\ e[o] = 0
        BY <2>4, <2>5 DEF Spares
      <4> QED BY <4>1 DEF Plus
    <3> QED BY <3>1, <3>2 DEF Spares
  <2>7. ASSUME NEW s \in States, NEW unload \in BOOLEAN, Agrees(s.user, V, O)
        PROVE  F(s, unload)[k + 1] \in States /\ Moved(s, F(s, unload)[k + 1], unload, Plus(c, e))
    <3> DEFINE t == F(s, unload)[k]
               w == F(s, unload)[k + 1]
    <3>1. t \in States /\ Moved(s, t, unload, c)
      BY <2>1, <2>7
    <3>2. w = LoadLine(t, line, unload)
      BY <1>2, <2>2
    <3> HIDE DEF t, w, line
    <3>3. Agrees(t.user, V, O)
      BY <2>5, <2>7, <3>1, MovedAgrees
    <3>4. w \in States /\ Moved(t, w, unload, e)
      BY <2>4, <3>1, <3>2, <3>3
    <3>5. Moved(s, w, unload, Plus(c, e))
      BY <2>5, <3>1, <3>4, MovedTwice
    <3> QED BY <3>4, <3>5 DEF w
  <2>8. Is(k + 1, Plus(c, e))
    BY <2>6, <2>7
  <2> QED BY <2>2, <2>8
<1>5. n \in Reached
  <2>1. Reached \in SUBSET Nat /\ n \in 0..n
    BY <1>1
  <2> HIDE DEF Reached, n
  <2> QED BY <1>1, <1>3, <1>4, <2>1, CountUp
<1>6. PICK c : Is(n, c)
  BY <1>5
<1>7. Undone(lines, V, O, c)
  BY <1>2, <1>6 DEF Undone
<1> QED BY <1>7

\* Lines of any files leave tables as they are meant to be.
Safe(line) == Proper(line, IF line.name \in DOMAIN Computed THEN {Computed[line.name].of} ELSE {})
LEMMA LinesKeep ==
  ASSUME NEW lines \in Seq(SetLines), \A i \in 1..Len(lines) : Safe(lines[i]),
         NEW s \in States, NEW unload \in BOOLEAN
  PROVE  LoadLines(s, lines, unload) \in States
<1>1. Len(lines) \in Nat
  BY LenProperties
<1>0. PICK f : LoadsBy(f, s, lines, unload)
  BY <1>1, LoadLinesIs
<1>2. /\ f[0] = s /\ LoadLines(s, lines, unload) = f[Len(lines)]
      /\ \A i \in 1..Len(lines) : f[i] = LoadLine(f[i - 1], lines[i], unload)
  BY <1>0 DEF LoadsBy
<1> DEFINE Reached == {k \in Nat : f[k] \in States}
           n == Len(lines)
<1>3. 0 \in Reached
  BY <1>2
<1>4. ASSUME NEW k \in 0..(n - 1), k \in Reached PROVE k + 1 \in Reached
  <2>1. k + 1 \in 1..n /\ (k + 1) - 1 = k /\ k + 1 \in Nat /\ f[k] \in States
    BY <1>1, <1>4
  <2> DEFINE line == lines[k + 1]
             O == IF line.name \in DOMAIN Computed THEN {Computed[line.name].of} ELSE {}
             V == [o \in O |-> Val(At(f[k].user, o, 0), o)]
  <2>2. Proper(line, O)
    BY <2>1 DEF Safe
  <2>3. O \in SUBSET VarNames
    BY EnvironmentAssumption
  <2>4. Agrees(f[k].user, V, O)
    BY DEF Agrees
  <2> HIDE DEF line, O, V
  <2>5. LoadLine(f[k], line, unload) \in States
    BY <2>1, <2>2, <2>3, <2>4, LineMoves
  <2> QED BY <1>2, <2>1, <2>5 DEF line
<1>5. n \in Reached
  <2>1. Reached \in SUBSET Nat /\ n \in 0..n
    BY <1>1
  <2> HIDE DEF Reached, n
  <2> QED BY <1>1, <1>3, <1>4, <2>1, CountUp DEF n
<1> QED BY <1>2, <1>5

\* FlattenSeq joins sequences over S to one over S.
Joins(f, ss, k) == f = [i \in 1..k |-> IF i = 1 THEN ss[i] ELSE f[i - 1] \o ss[i]]
LEMMA JoinsExist ==
  ASSUME NEW ss, NEW n \in Nat, n # 0
  PROVE  \E f : Joins(f, ss, n)
<1> DEFINE Reached == {k \in Nat : \E f : Joins(f, ss, k + 1)}
<1>1. 0 \in Reached
  <2> DEFINE f == [i \in 1..(0 + 1) |-> ss[1]]
  <2>1. f = [i \in 1..(0 + 1) |-> IF i = 1 THEN ss[i] ELSE f[i - 1] \o ss[i]]
    <3>1. \A i \in 1..(0 + 1) : i = 1
      OBVIOUS
    <3> QED BY <3>1
  <2> HIDE DEF f
  <2>2. Joins(f, ss, 0 + 1)
    BY <2>1 DEF Joins
  <2> QED BY <2>2
<1>2. ASSUME NEW k \in 0..(n - 1), k \in Reached PROVE k + 1 \in Reached
  <2>1. PICK f : Joins(f, ss, k + 1)
    BY <1>2
  <2> DEFINE g == [i \in 1..(k + 2) |-> IF i = k + 2 THEN f[k + 1] \o ss[k + 2] ELSE f[i]]
  <2>2. k \in Nat /\ k + 1 \in Nat /\ (k + 1) + 1 = k + 2 /\ \A i \in 1..(k + 2) : i = k + 2 \/ i \in 1..(k + 1)
    OBVIOUS
  <2>3. \A i \in 1..(k + 1) : f[i] = IF i = 1 THEN ss[i] ELSE f[i - 1] \o ss[i]
    BY <2>1 DEF Joins
  <2>4. ASSUME NEW i \in 1..(k + 2)
        PROVE  g[i] = IF i = 1 THEN ss[i] ELSE g[i - 1] \o ss[i]
    <3>1. CASE i = k + 2
      <4>1. i # 1 /\ i - 1 = k + 1 /\ k + 1 \in 1..(k + 2) /\ k + 1 # k + 2
        BY <2>2, <3>1
      <4>2. g[i - 1] = f[k + 1] /\ g[i] = f[k + 1] \o ss[i]
        BY <3>1, <4>1
      <4> HIDE DEF g
      <4> QED BY <4>1, <4>2
    <3>2. CASE i \in 1..(k + 1)
      <4>1. i # k + 2 /\ g[i] = f[i]
        BY <2>2, <3>2
      <4>2. i # 1 => i - 1 \in 1..(k + 2) /\ i - 1 # k + 2
        BY <2>2, <3>2
      <4>3. i # 1 => g[i - 1] = f[i - 1]
        BY <4>2
      <4> HIDE DEF g
      <4> QED BY <2>3, <3>2, <4>1, <4>3
    <3> QED BY <2>2, <3>1, <3>2
  <2>5. g = [i \in 1..(k + 2) |-> IF i = 1 THEN ss[i] ELSE g[i - 1] \o ss[i]]
    <3>1. \A i \in 1..(k + 2) : g[i] = IF i = 1 THEN ss[i] ELSE g[i - 1] \o ss[i]
      BY <2>4
    <3>2. g = [i \in 1..(k + 2) |-> g[i]]
      OBVIOUS
    <3> HIDE DEF g
    <3> QED BY <3>1, <3>2
  <2> HIDE DEF g
  <2>6. Joins(g, ss, (k + 1) + 1)
    BY <2>2, <2>5 DEF Joins
  <2> QED BY <2>2, <2>6
<1>3. n - 1 \in Reached
  <2>1. Reached \in SUBSET Nat /\ n - 1 \in 0..n
    OBVIOUS
  <2> HIDE DEF Reached
  <2> QED BY <1>1, <1>2, <2>1, CountUp
<1>4. (n - 1) + 1 = n
  OBVIOUS
<1> QED BY <1>3, <1>4

LEMMA FlattenIs ==
  ASSUME NEW S, NEW ss \in Seq(Seq(S))
  PROVE  FlattenSeq(ss) \in Seq(S)
<1> DEFINE n == Len(ss)
<1>1. n \in Nat /\ \A i \in 1..n : ss[i] \in Seq(S)
  BY LenProperties, ElementOfSeq
<1>2. CASE n = 0
  <2>1. ss = <<>>
    BY <1>2, EmptySeq
  <2> QED BY <1>2, <2>1, EmptySeq DEF FlattenSeq
<1>3. CASE n # 0
  <2> DEFINE f == CHOOSE f : Joins(f, ss, n)
             Reached == {k \in Nat : f[k + 1] \in Seq(S)}
  <2>1. Joins(f, ss, n)
    BY <1>1, <1>3, JoinsExist
  <2>2. FlattenSeq(ss) = f[n]
    BY <1>3 DEF FlattenSeq, Joins
  <2> HIDE DEF f
  <2>3. \A i \in 1..n : f[i] = IF i = 1 THEN ss[i] ELSE f[i - 1] \o ss[i]
    BY <2>1 DEF Joins
  <2>4. 0 \in Reached
    <3>1. 0 + 1 = 1 /\ 1 \in 1..n
      BY <1>1, <1>3
    <3> QED BY <1>1, <2>3, <3>1
  <2>5. ASSUME NEW k \in 0..((n - 1) - 1), k \in Reached PROVE k + 1 \in Reached
    <3>1. k + 1 \in Nat /\ (k + 1) + 1 \in 1..n /\ (k + 1) + 1 # 1 /\ ((k + 1) + 1) - 1 = k + 1 /\ f[k + 1] \in Seq(S)
      BY <1>1, <1>3, <2>5
    <3>2. f[(k + 1) + 1] = f[k + 1] \o ss[(k + 1) + 1]
      BY <2>3, <3>1
    <3>3. f[k + 1] \o ss[(k + 1) + 1] \in Seq(S)
      BY <1>1, <3>1, ConcatProperties
    <3> QED BY <3>1, <3>2, <3>3
  <2>6. n - 1 \in Reached
    <3>1. Reached \in SUBSET Nat /\ n - 1 \in 0..(n - 1) /\ n - 1 \in Nat
      BY <1>1, <1>3
    <3> HIDE DEF Reached, n
    <3> QED BY <2>4, <2>5, <3>1, CountUp DEF n
  <2>7. (n - 1) + 1 = n
    BY <1>1
  <2> QED BY <2>2, <2>6, <2>7
<1> QED BY <1>2, <1>3

(* Files and the files they include *)

FilesOK(files) == DOMAIN files = DOMAIN EnvFiles /\ \A f \in DOMAIN EnvFiles : files[f] \in EnvFiles[f]
Ofs(f) == {Computed[y.name].of : y \in {z \in LinesOf(f) : z.name \in DOMAIN Computed}}
Own(f) == {x \in LinesOf(f) : x \in SetLines}

\* What is read of a file and of those it includes.
LEMMA FileLinesAre ==
  ASSUME NEW files, FilesOK(files), NEW f \in DOMAIN EnvFiles
  PROVE  FileLines(files, f) \in Seq(Own(f))
<1> DEFINE t == files[f]
           lines(g) == UNION {Range(r) : r \in EnvFiles[g]}
           included == {x.name : x \in {y \in lines(f) : y.kind = "include"}}
           S == Own(f)
           part(i) == IF t[i].kind = "include" THEN files[t[i].name] ELSE <<t[i]>>
           ss == [i \in DOMAIN t |-> part(i)]
<1>1. /\ t \in EnvFiles[f] /\ t \in Seq(SetLines \cup IncludeLines) /\ DOMAIN t = 1..Len(t) /\ Len(t) \in Nat
      /\ \A i \in 1..Len(t) : t[i] \in SetLines \cup IncludeLines /\ t[i] \in Range(t)
  <2>1. t \in EnvFiles[f] /\ EnvFiles[f] \subseteq Seq(SetLines \cup IncludeLines)
    BY EnvironmentAssumption DEF FilesOK
  <2>2. t \in Seq(SetLines \cup IncludeLines)
    BY <2>1
  <2>3. DOMAIN t = 1..Len(t) /\ Len(t) \in Nat
    BY <2>2, LenProperties
  <2> HIDE DEF t
  <2>4. \A i \in 1..Len(t) : t[i] \in SetLines \cup IncludeLines
    BY <2>2, ElementOfSeq
  <2>5. \A i \in 1..Len(t) : t[i] \in Range(t)
    BY <2>3 DEF Range
  <2> QED BY <2>1, <2>2, <2>3, <2>4, <2>5
<1>2. \A x : x \in Own(f) <=> x \in SetLines /\ x.kind # "include" /\ \E g \in {f} \cup included : x \in lines(g)
  BY DEF Own, LinesOf
<1>3. \A g, r, x : r \in EnvFiles[g] /\ x \in Range(r) => x \in lines(g)
  OBVIOUS
<1> HIDE DEF t, lines
<1>4. \A x \in lines(f) : x.kind = "include" => x.name \in included
  OBVIOUS
<1> HIDE DEF included
<1>5. ASSUME NEW i \in 1..Len(t) PROVE part(i) \in Seq(S)
  <2>1. t[i] \in lines(f) /\ t[i] \in SetLines \cup IncludeLines
    BY <1>1, <1>3
  <2>2. CASE t[i].kind = "include"
    <3> DEFINE g == t[i].name
               r == files[g]
    <3>1. t[i] \in IncludeLines
      BY <2>1, <2>2 DEF SetLines
    <3>2. g \in DOMAIN EnvFiles /\ g \in included
      BY <1>4, <2>1, <2>2, <3>1 DEF IncludeLines
    <3>3. EnvFiles[g] \subseteq Seq(SetLines)
      BY <1>1, <2>2, EnvironmentAssumption
    <3>4. r \in EnvFiles[g] /\ r \in Seq(SetLines)
      BY <3>2, <3>3 DEF FilesOK
    <3> HIDE DEF g, r
    <3>5. Len(r) \in Nat /\ DOMAIN r = 1..Len(r) /\ \A j \in 1..Len(r) : r[j] \in SetLines
      BY <3>4, LenProperties, ElementOfSeq
    <3>6. ASSUME NEW j \in 1..Len(r) PROVE r[j] \in S
      <4>1. r[j] \in SetLines /\ r[j] \in Range(r)
        BY <3>5 DEF Range
      <4>2. r[j] \in lines(g)
        BY <1>3, <3>4, <4>1
      <4>3. r[j].kind # "include"
        BY <4>1 DEF SetLines
      <4> QED BY <1>2, <3>2, <4>1, <4>2, <4>3
    <3>7. r \in Seq(S)
      <4>1. r = [j \in 1..Len(r) |-> r[j]]
        BY <3>4, <3>5, LenProperties
      <4> HIDE DEF S
      <4>2. r \in [1..Len(r) -> S]
        BY <3>6, <4>1
      <4> QED BY <3>5, <4>2, SeqDef
    <3> QED BY <2>2, <3>7 DEF g, r
  <2>3. CASE t[i].kind # "include"
    <3>1. t[i] \in SetLines
      BY <2>1, <2>3 DEF IncludeLines
    <3>2. t[i] \in S
      BY <1>2, <2>1, <2>3, <3>1
    <3> HIDE DEF S
    <3>3. <<t[i]>> \in Seq(S)
      BY <3>2, Singleton
    <3> QED BY <2>3, <3>3
  <2> QED BY <2>2, <2>3
<1>6. ss \in Seq(Seq(S))
  <2> HIDE DEF S, part
  <2>1. ss \in [1..Len(t) -> Seq(S)]
    BY <1>1, <1>5
  <2> QED BY <1>1, <2>1, SeqDef
<1>7. FileLines(files, f) = FlattenSeq(ss)
  BY DEF FileLines, t
<1> HIDE DEF ss, S
<1>8. FlattenSeq(ss) \in Seq(S)
  BY <1>6, FlattenIs
<1> QED BY <1>7, <1>8 DEF S

LEMMA OwnAreProper ==
  ASSUME NamesLast, NEW f \in DOMAIN EnvFiles, NEW x \in Own(f)
  PROVE  Proper(x, Ofs(f)) /\ Safe(x) /\ Ofs(f) \in SUBSET VarNames
<1>1. x \in SetLines /\ x \in LinesOf(f)
  BY DEF Own
<1>2. \A y \in LinesOf(f) : y.name \in DOMAIN Computed => Computed[y.name].of \notin SetBy(x.name)
  BY <1>1 DEF NamesLast
<1>3. x.kind = "export" => SetBy(x.name) \cap DOMAIN EnvNames = {}
  BY <1>1 DEF NamesLast
<1>4. SetBy(x.name) \cap Ofs(f) = {}
  BY <1>2 DEF Ofs
<1>5. x.name \in DOMAIN Computed => Computed[x.name].of \in Ofs(f)
  BY <1>1 DEF Ofs
<1>6. Proper(x, Ofs(f))
  BY <1>1, <1>3, <1>4, <1>5 DEF Proper
<1>7. Safe(x)
  BY <1>1, <1>2, <1>3 DEF Safe, Proper
<1>8. Ofs(f) \in SUBSET VarNames
  BY EnvironmentAssumption DEF Ofs
<1> QED BY <1>6, <1>7, <1>8

LEMMA FileMoves ==
  ASSUME NamesLast, NEW files, FilesOK(files), NEW f \in DOMAIN EnvFiles, NEW V
  PROVE  \E c : Undone(FileLines(files, f), V, Ofs(f), c)
<1> DEFINE lines == FileLines(files, f)
<1>1. lines \in Seq(Own(f))
  BY FileLinesAre
<1> HIDE DEF lines
<1>2. \A i \in 1..Len(lines) : lines[i] \in Own(f)
  BY <1>1, ElementOfSeq
<1>3. \A i \in 1..Len(lines) : Proper(lines[i], Ofs(f))
  BY <1>2, OwnAreProper
<1>4. lines \in Seq(SetLines)
  <2>1. Own(f) \subseteq SetLines
    BY DEF Own
  <2> QED BY <1>1, <2>1, SeqWider
<1>5. Ofs(f) \in SUBSET VarNames
  BY EnvironmentAssumption DEF Ofs
<1> QED BY <1>3, <1>4, <1>5, LinesMove DEF lines

(* What the variables stand for, directory by directory *)

Values == [VarNames -> Seq(Seq(STRING))]
EnvTypes ==
  /\ user \in Sorteds /\ environ = EnvNames /\ FilesOK(text)
  /\ inside \in Seq(DOMAIN EnvFiles) /\ before \in Seq(Values) /\ Len(before) = Len(inside)
  /\ loaded \in Seq(Seq(SetLines)) /\ Len(loaded) = Len(inside)
  /\ lost \in Nat /\ lost <= Len(inside)

\* P[i] counts the entries of the first i directories: each directory that is
\* not lost can be undone by the lines it read, and what is below its entries is
\* what was seen before.
Chain(P) ==
  /\ P \in [0..Len(inside) -> Counts]
  /\ \A i \in 1..Len(inside) : i > lost => \E c \in Counts :
       P[i] = Plus(P[i - 1], c) /\ Undone(loaded[i], before[i], Ofs(inside[i]), c)
  /\ \A i, j \in 0..Len(inside) : i <= j => \A n \in VarNames : P[i][n] <= P[j][n]
  /\ \A i \in 1..Len(inside), n \in VarNames : i > lost =>
       before[i][n] = Val(At(user, n, P[Len(inside)][n] - P[i - 1][n]), n)
EnvInv == EnvTypes /\ \E P : Chain(P)

LEMMA VisibleIs ==
  ASSUME NEW tab \in Sorteds
  PROVE  /\ Visible(tab, EnvNames) \in Values
         /\ \A n \in VarNames : Visible(tab, EnvNames)[n] = Val(At(tab, n, 0), n)
<1>1. \A n \in VarNames : /\ ValueOf(tab, EnvNames, n) = Val(At(tab, n, 0), n)
                          /\ Val(At(tab, n, 0), n) \in Seq(Seq(STRING))
  BY ValueIs
<1> QED BY <1>1 DEF Visible, Values

LEMMA EnvStarts ==
  ASSUME NamesLast, EnvInit
  PROVE  EnvInv
<1>1. FilesOK(text) /\ inside = <<>> /\ before = <<>> /\ loaded = <<>> /\ lost = 0
  BY DEF EnvInit, FilesOK
<1> DEFINE fs == ConfigDirs
           s == [user |-> <<>>, environ |-> EnvNames]
           S == {x \in SetLines : Safe(x)}
           ss == [i \in DOMAIN fs |-> FileLines(text, Reverse(fs)[i])]
           lines == FlattenSeq(ss)
           t == LoadLines(s, lines, FALSE)
<1>2. user = t.user /\ environ = t.environ
  BY DEF EnvInit, rhide_load_environment_file
<1>3. fs \in Seq(DOMAIN EnvFiles) /\ Len(fs) \in Nat /\ DOMAIN fs = 1..Len(fs)
  BY EnvironmentAssumption, LenProperties
<1>4. ASSUME NEW i \in 1..Len(fs) PROVE FileLines(text, Reverse(fs)[i]) \in Seq(S)
  <2> DEFINE f == Reverse(fs)[i]
  <2>1. f \in DOMAIN EnvFiles
    <3>1. (Len(fs) - i) + 1 \in 1..Len(fs) /\ f = fs[(Len(fs) - i) + 1]
      BY <1>3 DEF Reverse
    <3> HIDE DEF f, fs
    <3> QED BY <1>3, <3>1, ElementOfSeq
  <2> HIDE DEF f
  <2>2. FileLines(text, f) \in Seq(Own(f))
    BY <1>1, <2>1, FileLinesAre
  <2>3. Own(f) \subseteq S
    <3>1. \A x \in Own(f) : Safe(x) /\ x \in SetLines
      BY <2>1, OwnAreProper DEF Own
    <3> QED BY <3>1
  <2> HIDE DEF S
  <2> QED BY <2>2, <2>3, SeqWider DEF f
<1>5. ss \in Seq(Seq(S))
  <2> HIDE DEF S, fs
  <2>1. ss \in [1..Len(fs) -> Seq(S)]
    BY <1>3, <1>4
  <2> QED BY <1>3, <2>1, SeqDef
<1> HIDE DEF ss
<1>6. lines \in Seq(S)
  <2> HIDE DEF S
  <2> QED BY <1>5, FlattenIs
<1> HIDE DEF lines
<1>7. lines \in Seq(SetLines) /\ \A i \in 1..Len(lines) : Safe(lines[i])
  <2>1. \A i \in 1..Len(lines) : lines[i] \in S
    <3> HIDE DEF S
    <3> QED BY <1>6, ElementOfSeq
  <2>2. S \subseteq SetLines
    OBVIOUS
  <2>3. lines \in Seq(SetLines)
    <3> HIDE DEF S
    <3> QED BY <1>6, <2>2, SeqWider
  <2> QED BY <2>1, <2>3
<1>8. s \in States
  <2>1. <<>> \in Sorteds
    <3>1. Len(<<>>) = 0 /\ \A i \in 1..0 : FALSE
      OBVIOUS
    <3>2. <<>> \in Seq(Entries)
      BY EmptySeq
    <3> QED BY <3>1, <3>2 DEF Sorteds, Sorted
  <2> QED BY <2>1 DEF States
<1>9. t \in States
  <2> HIDE DEF s
  <2> QED BY <1>7, <1>8, LinesKeep
<1>10. user \in Sorteds /\ environ = EnvNames
  BY <1>2, <1>9 DEF States
<1>11. EnvTypes
  <2>1. Len(<<>>) = 0 /\ 0 \in Nat /\ 0 <= 0
    OBVIOUS
  <2> QED BY <1>1, <1>10, <2>1, EmptySeq DEF EnvTypes
<1>12. \E P : Chain(P)
  <2> DEFINE zero == [n \in VarNames |-> 0]
             P == [i \in 0..0 |-> zero]
  <2>1. Len(inside) = 0 /\ \A i \in 1..0 : FALSE
    BY <1>1
  <2>2. zero \in Counts /\ \A n \in VarNames : zero[n] = 0
    BY DEF Counts
  <2> HIDE DEF zero
  <2>3. P \in [0..0 -> Counts] /\ \A i \in 0..0 : P[i] = zero
    BY <2>2
  <2> HIDE DEF P
  <2>4. Chain(P)
    BY <2>1, <2>2, <2>3 DEF Chain
  <2> QED BY <2>4
<1> QED BY <1>11, <1>12 DEF EnvInv

LEMMA PushKeeps ==
  ASSUME NamesLast, EnvInv, NEW f \in DOMAIN EnvFiles, push_environment(f)
  PROVE  /\ EnvInv' /\ before' = Append(before, Visible(user, environ)) /\ Broken' = Broken
<1> DEFINE k == Len(inside)
           V == Visible(user, environ)
           lines == FileLines(text, f)
           s == [user |-> user, environ |-> environ]
           t == LoadLines(s, lines, FALSE)
<1>1. /\ user \in Sorteds /\ environ = EnvNames /\ FilesOK(text)
      /\ inside \in Seq(DOMAIN EnvFiles) /\ before \in Seq(Values) /\ Len(before) = k /\ k \in Nat
      /\ loaded \in Seq(Seq(SetLines)) /\ Len(loaded) = k /\ lost \in Nat /\ lost <= k
  BY LenProperties DEF EnvInv, EnvTypes
<1>2. PICK P : Chain(P)
  BY DEF EnvInv
<1>3. /\ text' = text /\ user' = t.user /\ environ' = t.environ
      /\ inside' = Append(inside, f) /\ before' = Append(before, V)
      /\ loaded' = Append(loaded, lines) /\ lost' = lost
  BY DEF push_environment, Set, Now, _rhide_load_environment_file
<1>4. s \in States /\ s.user = user
  BY <1>1 DEF States
<1>5. V \in Values /\ \A n \in VarNames : V[n] = Val(At(user, n, 0), n)
  BY <1>1, VisibleIs
<1>6. /\ inside' \in Seq(DOMAIN EnvFiles) /\ Len(inside') = k + 1 /\ inside'[k + 1] = f
      /\ \A i \in 1..k : inside'[i] = inside[i]
  BY <1>1, <1>3, AppendProperties
<1>7. /\ before' \in Seq(Values) /\ Len(before') = k + 1 /\ before'[k + 1] = V
      /\ \A i \in 1..k : before'[i] = before[i]
  <2> HIDE DEF V
  <2> QED BY <1>1, <1>3, <1>5, AppendProperties
<1>7a. /\ loaded' \in Seq(Seq(SetLines)) /\ Len(loaded') = k + 1 /\ loaded'[k + 1] = lines
       /\ \A i \in 1..k : loaded'[i] = loaded[i]
  <2>1. lines \in Seq(SetLines)
    <3>1. lines \in Seq(Own(f)) /\ Own(f) \subseteq SetLines
      BY <1>1, FileLinesAre DEF Own
    <3> HIDE DEF lines
    <3> QED BY <3>1, SeqWider
  <2> HIDE DEF lines
  <2> QED BY <1>1, <1>3, <2>1, AppendProperties
<1>7b. lost' \in Nat /\ lost' <= Len(inside') /\ k + 1 > lost' /\ lost' = lost
  BY <1>1, <1>3, <1>6
<1>7c. Broken' = Broken
  <2>1. ASSUME NEW i \in 1..(k + 1) PROVE ~Undoes(i)' <=> i \in 1..k /\ ~Undoes(i)
    <3>1. CASE i = k + 1
      <4>1. Undoes(i)'
        BY <1>3, <1>6, <1>7a, <1>7b, <3>1 DEF Undoes, lines
      <4>2. i \notin 1..k
        BY <1>1, <3>1
      <4> QED BY <4>1, <4>2
    <3>2. CASE i \in 1..k
      <4>1. Undoes(i)' <=> Undoes(i)
        BY <1>3, <1>6, <1>7a, <1>7b, <3>2 DEF Undoes
      <4> QED BY <3>2, <4>1
    <3> QED BY <1>1, <3>1, <3>2
  <2>2. \A i \in 1..k : i \in 1..(k + 1)
    BY <1>1
  <2> QED BY <1>6, <2>1, <2>2 DEF Broken
<1> HIDE DEF V, s
<1>8. PICK c : Undone(lines, V, Ofs(f), c)
  BY <1>1, FileMoves
<1>9. c \in Counts /\ \A n \in VarNames : c[n] \in Nat
  BY <1>8 DEF Undone, Spares, Counts
<1>10. Ofs(f) \subseteq VarNames
  BY EnvironmentAssumption DEF Ofs
<1>11. Agrees(user, V, Ofs(f))
  BY <1>5, <1>10 DEF Agrees
<1> HIDE DEF lines
<1>12. t \in States /\ Above(user, t.user, c)
  <2>1. FALSE \in BOOLEAN
    OBVIOUS
  <2>2. t \in States /\ Moved(s, t, FALSE, c)
    BY <1>4, <1>8, <1>11, <2>1 DEF Undone
  <2> QED BY <1>4, <2>2 DEF Moved
<1> HIDE DEF t
<1>13. EnvTypes'
  <2>1. user' \in Sorteds /\ environ' = EnvNames
    BY <1>3, <1>12 DEF States
  <2>2. FilesOK(text)'
    BY <1>1, <1>3 DEF FilesOK
  <2>3. Len(before') = Len(inside') /\ Len(loaded') = Len(inside')
    BY <1>6, <1>7, <1>7a
  <2> QED BY <1>6, <1>7, <1>7a, <1>7b, <2>1, <2>2, <2>3 DEF EnvTypes
<1>14. \A n \in VarNames, d \in Nat : At(user', n, d + c[n]) = At(user, n, d)
  BY <1>3, <1>12 DEF Above
<1> HIDE DEF k
<1>15. /\ P \in [0..k -> Counts] /\ \A i \in 0..k, n \in VarNames : P[i][n] \in Nat
       /\ \A i, j \in 0..k : i <= j => \A n \in VarNames : P[i][n] <= P[j][n]
       /\ \A i \in 1..k, n \in VarNames : i > lost => before[i][n] = Val(At(user, n, P[k][n] - P[i - 1][n]), n)
  BY <1>2 DEF Chain, Counts, k
<1>16. \A i \in 1..k : i > lost => \E e \in Counts :
         P[i] = Plus(P[i - 1], e) /\ Undone(loaded[i], before[i], Ofs(inside[i]), e)
  BY <1>2 DEF Chain, k
<1> DEFINE Q == [i \in 0..(k + 1) |-> IF i = k + 1 THEN Plus(P[k], c) ELSE P[i]]
<1>17. /\ k \in Nat /\ k + 1 \in 0..(k + 1) /\ k \in 0..k
       /\ \A i \in 0..k : i \in 0..(k + 1) /\ i # k + 1
       /\ \A i \in 0..(k + 1) : i = k + 1 \/ i \in 0..k
       /\ \A i \in 1..(k + 1) : (i = k + 1 \/ i \in 1..k) /\ i - 1 \in 0..k
  BY <1>1
<1>18. Plus(P[k], c) \in Counts /\ \A n \in VarNames : Plus(P[k], c)[n] = P[k][n] + c[n]
  <2>1. \A n \in VarNames : P[k][n] + c[n] \in Nat
    BY <1>9, <1>15, <1>17
  <2> QED BY <2>1 DEF Plus, Counts
<1>19. /\ Q \in [0..(k + 1) -> Counts] /\ Q[k + 1] = Plus(P[k], c)
       /\ \A i \in 0..k : Q[i] = P[i]
  BY <1>15, <1>17, <1>18
<1> HIDE DEF Q
<1>20. ASSUME NEW i \in 1..(k + 1), i > lost
       PROVE  \E e \in Counts : Q[i] = Plus(Q[i - 1], e)
                             /\ Undone(loaded'[i], before'[i], Ofs(inside'[i]), e)
  <2>1. CASE i = k + 1
    <3>1. i - 1 = k /\ Q[i - 1] = P[k] /\ Q[i] = Plus(P[k], c)
      BY <1>17, <1>19, <2>1
    <3>2. Undone(loaded'[i], before'[i], Ofs(inside'[i]), c)
      BY <1>6, <1>7, <1>7a, <1>8, <2>1 DEF k
    <3> QED BY <1>9, <3>1, <3>2
  <2>2. CASE i \in 1..k
    <3>1. PICK e \in Counts :
            P[i] = Plus(P[i - 1], e) /\ Undone(loaded[i], before[i], Ofs(inside[i]), e)
      BY <1>16, <1>20, <2>2
    <3>2. i \in 0..k /\ i - 1 \in 0..k
      BY <1>17, <2>2
    <3>3. Q[i] = P[i] /\ Q[i - 1] = P[i - 1] /\ inside'[i] = inside[i] /\ before'[i] = before[i]
           /\ loaded'[i] = loaded[i]
      BY <1>6, <1>7, <1>7a, <1>19, <2>2, <3>2 DEF k
    <3> QED BY <3>1, <3>3
  <2> QED BY <1>17, <2>1, <2>2
<1>21. ASSUME NEW i \in 0..(k + 1), NEW j \in 0..(k + 1), i <= j, NEW n \in VarNames
       PROVE  Q[i][n] <= Q[j][n]
  <2>1. P[k][n] \in Nat /\ c[n] \in Nat /\ Q[k + 1][n] = P[k][n] + c[n]
    BY <1>9, <1>15, <1>17, <1>18, <1>19
  <2>2. CASE j \in 0..k
    <3>1. i \in 0..k
      BY <1>17, <1>21, <2>2
    <3> QED BY <1>15, <1>19, <1>21, <2>2, <3>1
  <2>3. CASE j = k + 1
    <3>1. CASE i = k + 1
      BY <2>1, <2>3, <3>1
    <3>2. CASE i \in 0..k
      <4>1. i <= k /\ P[i][n] <= P[k][n] /\ P[i][n] \in Nat /\ Q[i] = P[i]
        BY <1>15, <1>17, <1>19, <3>2
      <4> QED BY <2>1, <2>3, <4>1
    <3> QED BY <1>17, <3>1, <3>2
  <2> QED BY <1>17, <2>2, <2>3
<1>22. ASSUME NEW i \in 1..(k + 1), NEW n \in VarNames, i > lost
       PROVE  before'[i][n] = Val(At(user', n, Q[k + 1][n] - Q[i - 1][n]), n)
  <2> DEFINE d == P[k][n] - P[i - 1][n]
  <2>1. /\ P[k][n] \in Nat /\ c[n] \in Nat /\ Q[k + 1][n] = P[k][n] + c[n]
        /\ i - 1 \in 0..k /\ Q[i - 1] = P[i - 1] /\ P[i - 1][n] \in Nat /\ P[i - 1][n] <= P[k][n]
    <3>1. i - 1 \in 0..k /\ i - 1 <= k
      BY <1>17
    <3> QED BY <1>9, <1>15, <1>17, <1>18, <1>19, <3>1
  <2>2. d \in Nat /\ Q[k + 1][n] - Q[i - 1][n] = d + c[n]
    BY <2>1
  <2> HIDE DEF d
  <2>3. At(user', n, Q[k + 1][n] - Q[i - 1][n]) = At(user, n, d)
    BY <1>14, <2>2
  <2>4. CASE i = k + 1
    <3>1. d = 0
      BY <1>17, <2>1, <2>4 DEF d
    <3>2. before'[i][n] = V[n]
      BY <1>7, <2>4 DEF k
    <3> QED BY <1>5, <2>3, <3>1, <3>2
  <2>5. CASE i \in 1..k
    <3>1. before'[i][n] = Val(At(user, n, d), n)
      BY <1>7, <1>15, <1>22, <2>5 DEF d, k
    <3> QED BY <2>3, <3>1
  <2> QED BY <1>17, <2>4, <2>5
<1>23. PICK R : R = Q
  OBVIOUS
<1>24. Chain(R)'
  <2>1. Len(inside') = k + 1 /\ lost' = lost
    BY <1>3, <1>6 DEF k
  <2> QED BY <1>19, <1>20, <1>21, <1>22, <1>23, <2>1 DEF Chain
<1>25. EnvInv'
  BY <1>13, <1>24 DEF EnvInv
<1> QED BY <1>3, <1>7c, <1>25 DEF V

\* Leaving a directory gives each name what it stood for before.
LEMMA PopKeeps ==
  ASSUME NamesLast, EnvInv, pop_environment, Undoes(Len(inside))
  PROVE  EnvInv' /\ Append(before', Visible(user', environ')) = before /\ lost' = lost
<1> DEFINE k == Len(inside)
           f == Last(inside)
           lines == FileLines(text, f)
           s == [user |-> user, environ |-> environ]
           t == LoadLines(s, lines, TRUE)
<1>1. /\ user \in Sorteds /\ environ = EnvNames /\ FilesOK(text)
      /\ inside \in Seq(DOMAIN EnvFiles) /\ before \in Seq(Values) /\ Len(before) = k
      /\ k \in Nat /\ k >= 1
      /\ loaded \in Seq(Seq(SetLines)) /\ Len(loaded) = k /\ lost \in Nat /\ k > lost
  <2>1. k \in Nat /\ inside \in Seq(DOMAIN EnvFiles) /\ inside # <<>>
    BY LenProperties DEF EnvInv, EnvTypes, pop_environment, Leave
  <2>2. k # 0
    BY <2>1, EmptySeq
  <2> QED BY <2>1, <2>2 DEF EnvInv, EnvTypes, Undoes
<1>2. PICK P : Chain(P)
  BY DEF EnvInv
<1>3. /\ text' = text /\ user' = t.user /\ environ' = t.environ /\ lost' = lost
      /\ inside' = SubSeq(inside, 1, k - 1) /\ before' = SubSeq(before, 1, k - 1)
      /\ loaded' = SubSeq(loaded, 1, k - 1) /\ f = inside[k]
  BY <1>1 DEF pop_environment, Leave, Set, Now, _rhide_load_environment_file, Front, Last
<1>3a. lines = loaded[k]
  BY <1>3 DEF Undoes
<1>4. s \in States /\ s.user = user
  BY <1>1 DEF States
<1>5. ASSUME NEW S, NEW q \in Seq(S), Len(q) = k
      PROVE  /\ SubSeq(q, 1, k - 1) \in Seq(S) /\ Len(SubSeq(q, 1, k - 1)) = k - 1
             /\ \A i \in 1..(k - 1) : SubSeq(q, 1, k - 1)[i] = q[i]
             /\ q[k] \in S
  <2> HIDE DEF k
  <2>1. 1 \in Int /\ k - 1 \in Int /\ (\A i \in 1..(k - 1) : q[i] \in S) /\ q[k] \in S
    BY <1>1, <1>5, ElementOfSeq
  <2>2. /\ SubSeq(q, 1, k - 1) \in Seq(S)
        /\ Len(SubSeq(q, 1, k - 1)) = IF 1 <= k - 1 THEN (k - 1) - 1 + 1 ELSE 0
        /\ \A i \in 1..((k - 1) - 1 + 1) : SubSeq(q, 1, k - 1)[i] = q[1 + i - 1]
    BY <2>1, SubSeqProperties
  <2>3. (k - 1) - 1 + 1 = k - 1 /\ \A i \in 1..(k - 1) : 1 + i - 1 = i
    BY <1>1
  <2> QED BY <1>1, <2>1, <2>2, <2>3
<1>6. /\ inside' \in Seq(DOMAIN EnvFiles) /\ Len(inside') = k - 1 /\ f \in DOMAIN EnvFiles
      /\ \A i \in 1..(k - 1) : inside'[i] = inside[i]
  BY <1>1, <1>3, <1>5
<1>7. /\ before' \in Seq(Values) /\ Len(before') = k - 1 /\ before[k] \in Values
      /\ \A i \in 1..(k - 1) : before'[i] = before[i]
  BY <1>1, <1>3, <1>5
<1>7a. /\ loaded' \in Seq(Seq(SetLines)) /\ Len(loaded') = k - 1
       /\ \A i \in 1..(k - 1) : loaded'[i] = loaded[i]
  BY <1>1, <1>3, <1>5
<1>7b. lost' \in Nat /\ lost' <= k - 1 /\ lost' = lost
  BY <1>1, <1>3
<1> HIDE DEF s
<1>8. /\ P \in [0..k -> Counts] /\ \A i \in 0..k, n \in VarNames : P[i][n] \in Nat
      /\ \A i, j \in 0..k : i <= j => \A n \in VarNames : P[i][n] <= P[j][n]
      /\ \A i \in 1..k, n \in VarNames : i > lost => before[i][n] = Val(At(user, n, P[k][n] - P[i - 1][n]), n)
  BY <1>2 DEF Chain, Counts
<1>9. \A i \in 1..k : i > lost => \E e \in Counts :
        P[i] = Plus(P[i - 1], e) /\ Undone(loaded[i], before[i], Ofs(inside[i]), e)
  BY <1>2 DEF Chain
<1> HIDE DEF k
<1>10. PICK c \in Counts : P[k] = Plus(P[k - 1], c) /\ Undone(lines, before[k], Ofs(f), c)
  <2>1. k \in 1..k
    BY <1>1
  <2> QED BY <1>1, <1>3, <1>3a, <1>9, <2>1
<1>11. \A n \in VarNames : c[n] \in Nat /\ P[k][n] = P[k - 1][n] + c[n] /\ P[k - 1][n] \in Nat
  <2>1. k - 1 \in 0..k
    BY <1>1
  <2> QED BY <1>8, <1>10, <2>1 DEF Counts, Plus
<1>12. \A n \in VarNames : before[k][n] = Val(At(user, n, c[n]), n)
  <2> SUFFICES ASSUME NEW n \in VarNames PROVE before[k][n] = Val(At(user, n, c[n]), n)
    OBVIOUS
  <2>1. k \in 1..k
    BY <1>1
  <2>2. P[k][n] - P[k - 1][n] = c[n]
    BY <1>11
  <2> QED BY <1>1, <1>8, <2>1, <2>2
<1>13. Agrees(user, before[k], Ofs(f))
  <2> SUFFICES ASSUME NEW o \in Ofs(f) PROVE Val(At(user, o, 0), o) = before[k][o]
    BY DEF Agrees
  <2>1. o \in VarNames
    BY EnvironmentAssumption DEF Ofs
  <2>2. c[o] = 0
    BY <1>10 DEF Undone, Spares
  <2> QED BY <1>12, <2>1, <2>2
<1> HIDE DEF lines, f
<1>14. t \in States /\ Above(t.user, user, c)
  <2>1. TRUE \in BOOLEAN
    OBVIOUS
  <2>2. t \in States /\ Moved(s, t, TRUE, c)
    BY <1>4, <1>10, <1>13, <2>1 DEF Undone
  <2> QED BY <1>4, <2>2 DEF Moved
<1> HIDE DEF t
<1>15. \A n \in VarNames, d \in Nat : At(user, n, d + c[n]) = At(user', n, d)
  BY <1>3, <1>14 DEF Above
<1>16. EnvTypes' /\ user' \in Sorteds /\ environ' = EnvNames
  <2>1. user' \in Sorteds /\ environ' = EnvNames
    BY <1>3, <1>14 DEF States
  <2>2. FilesOK(text)'
    BY <1>1, <1>3 DEF FilesOK
  <2>3. Len(before') = Len(inside') /\ Len(loaded') = Len(inside') /\ lost' <= Len(inside')
    BY <1>6, <1>7, <1>7a, <1>7b
  <2> QED BY <1>6, <1>7, <1>7a, <1>7b, <2>1, <2>2, <2>3 DEF EnvTypes
<1> DEFINE Q == [i \in 0..(k - 1) |-> P[i]]
<1>17. /\ k \in Nat /\ k - 1 \in Nat /\ k - 1 \in 0..(k - 1)
       /\ \A i \in 0..(k - 1) : i \in 0..k
       /\ \A i \in 1..(k - 1) : i \in 1..k /\ i \in 0..(k - 1) /\ i - 1 \in 0..(k - 1) /\ i - 1 <= k - 1
  BY <1>1
<1>18. Q \in [0..(k - 1) -> Counts] /\ \A i \in 0..(k - 1) : Q[i] = P[i]
  BY <1>8, <1>17
<1> HIDE DEF Q
<1>19. ASSUME NEW i \in 1..(k - 1), i > lost
       PROVE  \E e \in Counts : Q[i] = Plus(Q[i - 1], e)
                             /\ Undone(loaded'[i], before'[i], Ofs(inside'[i]), e)
  <2>1. PICK e \in Counts :
          P[i] = Plus(P[i - 1], e) /\ Undone(loaded[i], before[i], Ofs(inside[i]), e)
    BY <1>9, <1>17, <1>19
  <2>2. Q[i] = P[i] /\ Q[i - 1] = P[i - 1] /\ inside'[i] = inside[i] /\ before'[i] = before[i]
        /\ loaded'[i] = loaded[i]
    BY <1>6, <1>7, <1>7a, <1>17, <1>18
  <2> QED BY <2>1, <2>2
<1>20. ASSUME NEW i \in 0..(k - 1), NEW j \in 0..(k - 1), i <= j, NEW n \in VarNames
       PROVE  Q[i][n] <= Q[j][n]
  BY <1>8, <1>17, <1>18, <1>20
<1>21. ASSUME NEW i \in 1..(k - 1), NEW n \in VarNames, i > lost
       PROVE  before'[i][n] = Val(At(user', n, Q[k - 1][n] - Q[i - 1][n]), n)
  <2> DEFINE d == P[k - 1][n] - P[i - 1][n]
  <2>1. /\ i - 1 \in 0..k /\ k - 1 \in 0..k /\ P[i - 1][n] \in Nat /\ P[k - 1][n] \in Nat
        /\ P[i - 1][n] <= P[k - 1][n] /\ c[n] \in Nat /\ P[k][n] = P[k - 1][n] + c[n]
    <3>1. i - 1 \in 0..k /\ k - 1 \in 0..k /\ i - 1 <= k - 1
      BY <1>17
    <3> QED BY <1>8, <1>11, <3>1
  <2>2. d \in Nat /\ P[k][n] - P[i - 1][n] = d + c[n]
    BY <2>1
  <2>3. before'[i][n] = Val(At(user, n, P[k][n] - P[i - 1][n]), n)
    BY <1>7, <1>8, <1>17, <1>21
  <2>4. Q[k - 1][n] - Q[i - 1][n] = d
    BY <1>17, <1>18
  <2> HIDE DEF d
  <2>5. At(user, n, d + c[n]) = At(user', n, d)
    BY <1>15, <2>2
  <2> QED BY <2>2, <2>3, <2>4, <2>5
<1>22. PICK R : R = Q
  OBVIOUS
<1>23. Chain(R)'
  <2>1. Len(inside') = k - 1 /\ lost' = lost
    BY <1>3, <1>6
  <2> QED BY <1>18, <1>19, <1>20, <1>21, <1>22, <2>1 DEF Chain
<1>24. EnvInv'
  BY <1>16, <1>23 DEF EnvInv
<1> DEFINE W == Visible(user', environ')
<1>25. W \in Values /\ \A n \in VarNames : W[n] = Val(At(user', n, 0), n)
  BY <1>16, VisibleIs
<1> HIDE DEF W
<1>26. W = before[k]
  <2>1. ASSUME NEW n \in VarNames PROVE W[n] = before[k][n]
    <3>1. 0 \in Nat /\ 0 + c[n] = c[n]
      BY <1>11
    <3>2. At(user, n, c[n]) = At(user', n, 0)
      BY <1>15, <3>1
    <3> QED BY <1>12, <1>25, <3>2
  <2> QED BY <1>7, <1>25, <2>1 DEF Values
<1>27. Append(before', W) = before
  <2>1. /\ Append(before', W) \in Seq(Values) /\ Len(Append(before', W)) = (k - 1) + 1
        /\ \A i \in 1..(k - 1) : Append(before', W)[i] = before'[i]
        /\ Append(before', W)[(k - 1) + 1] = W
    BY <1>7, <1>25, AppendProperties
  <2>2. (k - 1) + 1 = k /\ \A i \in 1..k : i = k \/ i \in 1..(k - 1)
    BY <1>1
  <2>3. \A i \in 1..k : Append(before', W)[i] = before[i]
    BY <1>7, <1>26, <2>1, <2>2
  <2>4. Len(Append(before', W)) = Len(before)
    BY <1>1, <2>1, <2>2
  <2> QED BY <1>1, <2>1, <2>3, <2>4, SeqEqual
<1> QED BY <1>3, <1>24, <1>27 DEF W

LEMMA LeaveIs ==
  ASSUME EnvInv, Leave
  PROVE  /\ Len(inside) \in Nat \ {0} /\ Len(before) = Len(inside) /\ lost \in Nat
         /\ inside[Len(inside)] \in DOMAIN EnvFiles /\ text' = text
         /\ inside' \in Seq(DOMAIN EnvFiles) /\ Len(inside') = Len(inside) - 1
         /\ before' \in Seq(Values) /\ Len(before') = Len(inside) - 1 /\ before' = Front(before)
         /\ loaded' \in Seq(Seq(SetLines)) /\ Len(loaded') = Len(inside) - 1
         /\ \A i \in 1..(Len(inside) - 1) : inside'[i] = inside[i] /\ loaded'[i] = loaded[i]
<1> DEFINE k == Len(inside)
<1>1. /\ inside \in Seq(DOMAIN EnvFiles) /\ before \in Seq(Values) /\ Len(before) = k
      /\ loaded \in Seq(Seq(SetLines)) /\ Len(loaded) = k /\ lost \in Nat /\ inside # <<>> /\ k \in Nat
  BY LenProperties DEF EnvInv, EnvTypes, Leave
<1>2. k >= 1
  <2>1. k # 0
    BY <1>1, EmptySeq
  <2> QED BY <1>1, <2>1
<1>3. /\ inside' = SubSeq(inside, 1, k - 1) /\ before' = SubSeq(before, 1, k - 1)
      /\ loaded' = SubSeq(loaded, 1, k - 1) /\ before' = Front(before) /\ text' = text
  BY <1>1 DEF Leave, Front
<1>4. ASSUME NEW S, NEW q \in Seq(S), Len(q) = k
      PROVE  /\ SubSeq(q, 1, k - 1) \in Seq(S) /\ Len(SubSeq(q, 1, k - 1)) = k - 1
             /\ \A i \in 1..(k - 1) : SubSeq(q, 1, k - 1)[i] = q[i]
             /\ q[k] \in S
  <2> HIDE DEF k
  <2>1. 1 \in Int /\ k - 1 \in Int /\ (\A i \in 1..(k - 1) : q[i] \in S) /\ q[k] \in S
    BY <1>1, <1>2, <1>4, ElementOfSeq
  <2>2. /\ SubSeq(q, 1, k - 1) \in Seq(S)
        /\ Len(SubSeq(q, 1, k - 1)) = IF 1 <= k - 1 THEN (k - 1) - 1 + 1 ELSE 0
        /\ \A i \in 1..((k - 1) - 1 + 1) : SubSeq(q, 1, k - 1)[i] = q[1 + i - 1]
    BY <2>1, SubSeqProperties
  <2>3. (k - 1) - 1 + 1 = k - 1 /\ \A i \in 1..(k - 1) : 1 + i - 1 = i
    BY <1>1
  <2> QED BY <1>1, <1>2, <2>1, <2>2, <2>3
<1>5. /\ inside' \in Seq(DOMAIN EnvFiles) /\ Len(inside') = k - 1 /\ inside[k] \in DOMAIN EnvFiles
      /\ \A i \in 1..(k - 1) : inside'[i] = inside[i]
  BY <1>1, <1>3, <1>4
<1>6. before' \in Seq(Values) /\ Len(before') = k - 1
  BY <1>1, <1>3, <1>4
<1>7. /\ loaded' \in Seq(Seq(SetLines)) /\ Len(loaded') = k - 1
      /\ \A i \in 1..(k - 1) : loaded'[i] = loaded[i]
  BY <1>1, <1>3, <1>4
<1> QED BY <1>1, <1>2, <1>3, <1>5, <1>6, <1>7

\* What leaving does to the directories that are broken.
LEMMA LeaveBreaks ==
  ASSUME EnvInv, Leave
  PROVE  /\ Undoes(Len(inside)) => Len(inside) \notin Broken /\ Broken' = Broken
         /\ ~Undoes(Len(inside)) => Len(inside) \in Broken /\ Broken' = 1..(Len(inside) - 1)
<1> DEFINE k == Len(inside)
<1>1. /\ k \in Nat \ {0} /\ Len(inside') = k - 1 /\ text' = text /\ lost \in Nat
      /\ \A i \in 1..(k - 1) : inside'[i] = inside[i] /\ loaded'[i] = loaded[i]
  BY LeaveIs
<1>2. lost' = IF Undoes(k) THEN lost ELSE k - 1
  BY DEF Leave
<1> HIDE DEF k
<1>3. k \in 1..k /\ \A i \in 1..k : i = k \/ i \in 1..(k - 1)
  BY <1>1
<1>4. CASE Undoes(k)
  <2>1. k \notin Broken
    BY <1>4 DEF Broken
  <2>2. \A i \in 1..(k - 1) : Undoes(i)' <=> Undoes(i)
    BY <1>1, <1>2, <1>4 DEF Undoes
  <2>3. Broken' = {i \in 1..(k - 1) : ~Undoes(i)}
    BY <1>1, <2>2 DEF Broken
  <2>4. Broken = {i \in 1..k : ~Undoes(i)}
    BY DEF Broken, k
  <2>5. \A i \in 1..(k - 1) : i \in 1..k
    BY <1>1
  <2>6. Broken' = Broken
    BY <1>3, <1>4, <2>3, <2>4, <2>5
  <2> QED BY <1>4, <2>1, <2>6 DEF k
<1>5. CASE ~Undoes(k)
  <2>1. k \in Broken
    BY <1>3, <1>5 DEF Broken, k
  <2>2. \A i \in 1..(k - 1) : ~Undoes(i)'
    BY <1>1, <1>2, <1>5 DEF Undoes
  <2>3. Broken' = 1..(k - 1)
    BY <1>1, <2>2 DEF Broken
  <2> QED BY <1>5, <2>1, <2>3 DEF k
<1> QED BY <1>4, <1>5 DEF k

\* Leaving a directory whose file reads otherwise leaves a table.
LEMMA PopLoses ==
  ASSUME NamesLast, EnvInv, pop_environment, ~Undoes(Len(inside))
  PROVE  EnvInv'
<1> DEFINE k == Len(inside)
           f == inside[k]
           lines == FileLines(text, f)
           s == [user |-> user, environ |-> environ]
           t == LoadLines(s, lines, TRUE)
<1>1. /\ k \in Nat \ {0} /\ f \in DOMAIN EnvFiles /\ text' = text /\ Len(inside') = k - 1
      /\ inside' \in Seq(DOMAIN EnvFiles) /\ before' \in Seq(Values) /\ Len(before') = k - 1
      /\ loaded' \in Seq(Seq(SetLines)) /\ Len(loaded') = k - 1
  BY LeaveIs DEF pop_environment
<1>2. user \in Sorteds /\ environ = EnvNames /\ FilesOK(text)
  BY DEF EnvInv, EnvTypes
<1>3. user' = t.user /\ environ' = t.environ /\ lost' = k - 1
  BY DEF pop_environment, Leave, Set, Now, _rhide_load_environment_file, Last
<1>4. s \in States
  BY <1>2 DEF States
<1>5. lines \in Seq(SetLines) /\ \A i \in 1..Len(lines) : Safe(lines[i])
  <2>1. lines \in Seq(Own(f)) /\ Own(f) \subseteq SetLines
    BY <1>1, <1>2, FileLinesAre DEF Own
  <2>2. \A x \in Own(f) : Safe(x)
    BY <1>1, OwnAreProper
  <2> HIDE DEF lines, f
  <2> QED BY <2>1, <2>2, SeqWider, ElementOfSeq
<1>6. t \in States
  <2>1. TRUE \in BOOLEAN
    OBVIOUS
  <2> HIDE DEF s, lines
  <2> QED BY <1>4, <1>5, <2>1, LinesKeep
<1>7. user' \in Sorteds /\ environ' = EnvNames
  <2> HIDE DEF t
  <2> QED BY <1>3, <1>6 DEF States
<1> HIDE DEF k, f, t
<1>8. EnvTypes'
  <2>1. FilesOK(text)'
    BY <1>1, <1>2 DEF FilesOK
  <2>2. lost' \in Nat /\ lost' <= Len(inside') /\ Len(before') = Len(inside') /\ Len(loaded') = Len(inside')
    BY <1>1, <1>3
  <2> QED BY <1>1, <1>7, <2>1, <2>2 DEF EnvTypes
<1>9. (\E P : Chain(P))'
  <2> DEFINE zero == [n \in VarNames |-> 0]
             P == [i \in 0..(k - 1) |-> zero]
  <2>1. zero \in Counts /\ \A n \in VarNames : zero[n] = 0
    BY DEF Counts
  <2> HIDE DEF zero
  <2>2. P \in [0..(k - 1) -> Counts] /\ \A i \in 0..(k - 1) : P[i] = zero
    BY <2>1
  <2>3. \A i \in 1..Len(inside') : ~(i > lost')
    BY <1>1, <1>3
  <2>4. PICK R : R = P
    OBVIOUS
  <2> HIDE DEF P
  <2>5. Chain(R)'
    BY <1>1, <2>1, <2>2, <2>3, <2>4 DEF Chain
  <2> QED BY <2>5
<1> QED BY <1>8, <1>9 DEF EnvInv

LEMMA EditKeeps ==
  ASSUME EnvInv, NEW f \in DOMAIN EnvFiles, EditFile(f)
  PROVE  EnvInv' /\ Broken' \in SUBSET (1..Len(inside)) /\ UNCHANGED <<user, environ, inside, before>>
<1>1. UNCHANGED <<user, environ, inside, before, loaded, lost>>
  BY DEF EditFile
<1>2. PICK u \in EnvFiles[f] : text' = [text EXCEPT ![f] = u]
  BY DEF EditFile
<1>3. EnvTypes'
  <2>1. FilesOK(text)'
    BY <1>2 DEF EnvInv, EnvTypes, FilesOK
  <2> QED BY <1>1, <2>1 DEF EnvInv, EnvTypes
<1>4. PICK P : Chain(P)
  BY DEF EnvInv
<1>5. Chain(P)'
  BY <1>1, <1>4 DEF Chain
<1>6. Broken' \in SUBSET (1..Len(inside))
  BY <1>1 DEF Broken
<1> QED BY <1>1, <1>3, <1>5, <1>6 DEF EnvInv

LEMMA FrontOfAppend ==
  ASSUME NEW S, NEW q \in Seq(S), NEW e \in S
  PROVE  /\ Append(q, e) \in Seq(S) /\ Len(Append(q, e)) = Len(q) + 1 /\ Len(q) \in Nat
         /\ Front(Append(q, e)) = q /\ Last(Append(q, e)) = e
<1> DEFINE r == Append(q, e)
           n == Len(q)
<1>1. /\ r \in Seq(S) /\ Len(r) = n + 1 /\ n \in Nat /\ r[n + 1] = e
      /\ \A i \in 1..n : r[i] = q[i]
  BY AppendProperties, LenProperties
<1> HIDE DEF r, n
<1>2. Front(r) = SubSeq(r, 1, n) /\ Last(r) = e
  <2>1. Len(r) - 1 = n
    BY <1>1
  <2> QED BY <1>1, <2>1 DEF Front, Last
<1>3. SubSeq(r, 1, n) = q
  <2>1. 1 \in Int /\ n \in Int /\ \A i \in 1..n : r[i] \in S
    BY <1>1, ElementOfSeq
  <2>2. /\ SubSeq(r, 1, n) \in Seq(S) /\ Len(SubSeq(r, 1, n)) = IF 1 <= n THEN n - 1 + 1 ELSE 0
        /\ \A i \in 1..(n - 1 + 1) : SubSeq(r, 1, n)[i] = r[1 + i - 1]
    BY <2>1, SubSeqProperties
  <2>3. n - 1 + 1 = n /\ \A i \in 1..n : 1 + i - 1 = i
    BY <1>1
  <2>4. Len(SubSeq(r, 1, n)) = n /\ \A i \in 1..n : SubSeq(r, 1, n)[i] = q[i]
    BY <1>1, <2>2, <2>3
  <2> QED BY <2>2, <2>4, SeqEqual DEF n
<1> QED BY <1>1, <1>2, <1>3 DEF r, n

\* Leaving a directory gives every variable the value it had before it was
\* entered, however often names are set, added to, hidden or included
\* (ideenv.cc:71-193), if its files then read as they did when it was entered and
\* so did those of the directories left inside of it.  A file may change at any
\* time; what one that changed in between removes is not the names it set, and of
\* the directories it is in nothing more is claimed.
THEOREM ScopesAreRestored ==
  ASSUME NamesLast
  PROVE  EnvSpec => ScopesRestored
<1>1. EnvInit => EnvInv
  BY EnvStarts
<1>2. EnvInv /\ [EnvNext]_envvars => EnvInv'
  <2> SUFFICES ASSUME EnvInv, [EnvNext]_envvars PROVE EnvInv'
    OBVIOUS
  <2>1. CASE UNCHANGED envvars
    BY <2>1 DEF envvars, EnvInv, EnvTypes, Chain, FilesOK
  <2>2. ASSUME NEW f \in DOMAIN EnvFiles, push_environment(f) PROVE EnvInv'
    BY <2>2, PushKeeps
  <2>3. ASSUME NEW f \in DOMAIN EnvFiles, EditFile(f) PROVE EnvInv'
    BY <2>3, EditKeeps
  <2>4. CASE pop_environment
    BY <2>4, PopKeeps, PopLoses
  <2> QED BY <2>1, <2>2, <2>3, <2>4 DEF EnvNext
<1>3. EnvInv => /\ before \in Seq(Values) /\ Visible(user, environ) \in Values
  <2> SUFFICES ASSUME EnvInv PROVE before \in Seq(Values) /\ Visible(user, environ) \in Values
    OBVIOUS
  <2> QED BY VisibleIs DEF EnvInv, EnvTypes
<1>4. EnvInit /\ EnvInv => Scopes!Init
  <2> SUFFICES ASSUME EnvInit, EnvInv PROVE Scopes!Init
    OBVIOUS
  <2> DEFINE W == Visible(user, environ)
             scopes == Append(before, W)
  <2>1. before = <<>> /\ before \in Seq(Values) /\ W \in Values
    BY <1>3 DEF EnvInit
  <2> HIDE DEF W
  <2>2. Len(scopes) = Len(before) + 1 /\ scopes[Len(before) + 1] = W
    BY <2>1, AppendProperties
  <2>3. Len(before) = 0
    BY <2>1
  <2> HIDE DEF scopes
  <2>4. Len(scopes) = 1 /\ scopes[1] \in Values
    BY <2>1, <2>2, <2>3
  <2>5. Broken = {}
    <3>1. Len(inside) = 0 /\ 1..0 = {}
      BY DEF EnvInit
    <3> QED BY <3>1 DEF Broken
  <2> QED BY <2>4, <2>5 DEF Scopes!Init, scopes, W, Values
<1>5. EnvInv /\ EnvInv' /\ [EnvNext]_envvars
      => [Scopes!Next]_<<Append(before, Visible(user, environ)), Broken>>
  <2> SUFFICES ASSUME EnvInv, EnvInv', [EnvNext]_envvars
               PROVE  [Scopes!Next]_<<Append(before, Visible(user, environ)), Broken>>
    OBVIOUS
  <2> DEFINE W == Visible(user, environ)
             Wn == Visible(user', environ')
             new == Append(before', Wn)
             old == Append(before, W)
             next == (Append(before, W))'
  <2>0. next = new
    BY DEF Visible, ValueOf
  <2>1. /\ before \in Seq(Values) /\ W \in Values
        /\ before' \in Seq(Values) /\ Wn \in Values
    <3>1. (EnvInv => before \in Seq(Values) /\ Visible(user, environ) \in Values)'
      BY <1>3, PTL
    <3> QED BY <1>3, <3>1 DEF Visible, ValueOf
  <2>2. /\ old \in Seq(Values) /\ Len(old) = Len(before) + 1 /\ Len(before) \in Nat
        /\ Front(old) = before
    <3> HIDE DEF W
    <3> QED BY <2>1, FrontOfAppend
  <2>3. /\ Len(new) = Len(before') + 1 /\ Len(before') \in Nat /\ Front(new) = before' /\ Last(new) = Wn
    <3> HIDE DEF Wn
    <3> QED BY <2>1, FrontOfAppend
  <2>3a. Scopes!Open = Len(inside)
    <3>1. Len(before) = Len(inside)
      BY DEF EnvInv, EnvTypes
    <3>2. Len(old) - 1 = Len(inside)
      <4> HIDE DEF old
      <4> QED BY <2>2, <3>1
    <3> QED BY <3>2 DEF Scopes!Open
  <2>4. ASSUME NEW f \in DOMAIN EnvFiles, push_environment(f) PROVE Scopes!Push
    <3>1. before' = old /\ Broken' = Broken
      BY <2>4, PushKeeps
    <3>2. Len(new) > Len(old) /\ Front(new) = old /\ Last(new) \in Values
      <4> HIDE DEF W, Wn, new
      <4> QED BY <2>1, <2>2, <2>3, <3>1
    <3>3. Len(next) > Len(old) /\ Scopes!Front(next) = old /\ Scopes!Last(next) \in Values
      <4> HIDE DEF next, new, old
      <4> QED BY <2>0, <3>2 DEF Scopes!Front, Scopes!Last, Front, Last
    <3> QED BY <3>1, <3>3 DEF Scopes!Push, Values
  <2>5. ASSUME pop_environment, Undoes(Len(inside)) PROVE Scopes!Pop
    <3>1. new = before /\ Len(inside) \notin Broken /\ Broken' = Broken /\ Len(inside) > 0
      BY <2>5, PopKeeps, LeaveBreaks, LeaveIs DEF pop_environment
    <3>2. new = Front(old)
      <4> HIDE DEF W, Wn, new
      <4> QED BY <2>2, <3>1
    <3>3. next = Scopes!Front(old)
      <4> HIDE DEF next, new, old
      <4> QED BY <2>0, <3>2 DEF Scopes!Front, Front
    <3>4. Scopes!Open > 0 /\ Scopes!Open \notin Broken
      BY <2>3a, <3>1
    <3> HIDE DEF next, old
    <3> QED BY <3>1, <3>3, <3>4 DEF Scopes!Pop, next, old
  <2>6. ASSUME pop_environment, ~Undoes(Len(inside)) PROVE Scopes!Lose
    <3>1. /\ Len(inside) \in Broken /\ Broken' = 1..(Len(inside) - 1)
          /\ Len(before) = Len(inside) /\ Len(inside) \in Nat \ {0}
          /\ Len(before') = Len(inside) - 1 /\ before' = Front(before)
      BY <2>6, LeaveBreaks, LeaveIs DEF pop_environment
    <3>2. Len(new) = Len(inside) /\ Front(new) = Front(Front(old)) /\ Last(new) \in Values
      <4> HIDE DEF W, Wn, new, old
      <4> QED BY <2>1, <2>2, <2>3, <3>1
    <3>3. /\ Len(next) = Len(inside) /\ Scopes!Front(next) = Scopes!Front(Scopes!Front(old))
          /\ Scopes!Last(next) \in Values
      <4> HIDE DEF next, new, old
      <4> QED BY <2>0, <3>2 DEF Scopes!Front, Scopes!Last, Front, Last
    <3>4. Scopes!Open' = Len(inside) - 1
      <4>1. Len(next) - 1 = Len(inside) - 1
        BY <3>3
      <4> QED BY <4>1 DEF Scopes!Open
    <3>5. Broken' = 1..(Scopes!Open')
      BY <3>1, <3>4
    <3> HIDE DEF next, old
    <3> QED BY <2>3a, <3>1, <3>3, <3>5 DEF Scopes!Lose, Values, next, old
  <2>7. ASSUME NEW f \in DOMAIN EnvFiles, EditFile(f) PROVE Scopes!Change
    <3>1. Broken' \in SUBSET (1..Len(inside)) /\ UNCHANGED <<user, environ, before>>
      BY <2>7, EditKeeps
    <3>2. UNCHANGED Append(before, Visible(user, environ))
      BY <3>1 DEF Visible, ValueOf
    <3> QED BY <2>3a, <3>1, <3>2 DEF Scopes!Change
  <2>8. ASSUME UNCHANGED envvars
        PROVE  UNCHANGED <<Append(before, Visible(user, environ)), Broken>>
    BY <2>8 DEF envvars, Visible, ValueOf, Broken, Undoes
  <2> QED BY <2>4, <2>5, <2>6, <2>7, <2>8 DEF EnvNext, Scopes!Next
<1> QED BY <1>1, <1>2, <1>4, <1>5, PTL DEF EnvSpec, ScopesRestored, Scopes!Spec
=============================================================================
