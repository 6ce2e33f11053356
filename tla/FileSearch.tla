------------------------------ MODULE FileSearch ------------------------------
(***************************************************************************)
(* Where a file of a project is looked for, and the cache of what was found   *)
(* (ideutil.cc), with sources that come out of RCS archives for the time of   *)
(* a compilation (idercs.cc, idecomp.cc).                                    *)
(*                                                                         *)
(* A place is a directory and a name; "." is the current directory.           *)
(***************************************************************************)
EXTENDS Naturals, Sequences, SequencesExt, TLC

CONSTANTS
  FileType,     \* the names looked for, and the type of each by its suffix
  FirstFiles,   \* the files there are at the beginning: a set of places
  MayAppear,    \* places of which files come and go
  Lists,        \* each list of directories: the values it may have
  Archives      \* places that have an RCS archive

SourceTypes == {"C", "CC", "ASM", "FLEX", "BISON", "OBJC", "PASCAL", "FPC", "FORTRAN", "ADA"}
\* sources and what is unknown are searched in the source directories
ListFor(type) ==
  CASE type \in SourceTypes \cup {"UNKNOWN"} -> "src"
    [] type \in {"LIBRARY", "DLL"} -> "lib"
    [] type = "OBJECT" -> "obj"
    [] type = "HEADER" -> "include"
    [] OTHER -> "none"
ASSUME SearchAssumption ==
  /\ \A l \in DOMAIN Lists : Lists[l] # {} /\ Lists[l] \subseteq Seq(STRING)
  /\ \A n \in DOMAIN FileType : ListFor(FileType[n]) \in DOMAIN Lists \cup {"none"}

VARIABLES
  disk,         \* the files there are
  dirs,         \* the lists of directories: "src", "lib", "obj", "include"
  FindCache,    \* names found, and where
  NoFileCache,
  answer,       \* what the last search said
  checkedout,   \* the source that is out of its archive
  calm          \* history: no file and no list changed since the cache was cleared
searchvars == <<disk, dirs, FindCache, NoFileCache, answer, checkedout, calm>>

Names == DOMAIN FileType
Place(d, n) == <<d, n>>
None == <<>>
Answer(n, found, full) == [name |-> n, found |-> found, full |-> full]
NoAnswer == Answer("none", FALSE, None)
Searched(n) == IF ListFor(FileType[n]) = "none" THEN <<>> ELSE dirs[ListFor(FileType[n])]
                 \o (IF FileType[n] = "ADA" THEN <<"ada_include">> ELSE <<>>)
\* mutant: the directories before the current one
DirsFirst(n) ==
  LET k == SelectInSeq(Searched(n), LAMBDA d : Place(d, n) \in disk)
  IN IF k # 0 THEN Place(Searched(n)[k], n) ELSE IF Place(".", n) \in disk THEN Place(".", n) ELSE None
\* the current directory first, then the list in its order
Search(n) ==
  LET k == SelectInSeq(Searched(n), LAMBDA d : Place(d, n) \in disk)
  IN IF Place(".", n) \in disk THEN Place(".", n) ELSE IF k = 0 THEN None ELSE Place(Searched(n)[k], n)
\* what is taken for a file that is not there
Taken(n) ==
  IF FileType[n] = "OBJECT" /\ dirs["obj"] # <<>> THEN Place(Head(dirs["obj"]), n) ELSE Place(".", n)

\* programs are looked for here only, and never kept in the cache
Cached(n) == ~NoFileCache /\ FileType[n] # "EXE"
Hit(n) == Cached(n) /\ n \in DOMAIN FindCache
Lookup(n) == IF Hit(n) THEN FindCache[n] ELSE Search(n)
FindFile(n) == IF Lookup(n) # None THEN Answer(n, TRUE, Lookup(n)) ELSE Answer(n, FALSE, Taken(n))
With(n, place) == [x \in DOMAIN FindCache \cup {n} |-> IF x = n THEN place ELSE FindCache[x]]
\* mutant: what was not found as well
FoundAlways(n) == IF Cached(n) /\ ~Hit(n) THEN With(n, FindFile(n).full) ELSE FindCache
\* only what was found is remembered
Remembered(n) == IF Cached(n) /\ ~Hit(n) /\ Search(n) # None THEN With(n, Search(n)) ELSE FindCache
----------------------------------------------------------------------------
SearchInit ==
  /\ disk = FirstFiles /\ dirs = [l \in DOMAIN Lists |-> CHOOSE d \in Lists[l] : TRUE]
  /\ FindCache = <<>> /\ NoFileCache = FALSE /\ answer = NoAnswer /\ checkedout = None /\ calm = TRUE

Ask(n) ==
  /\ answer = NoAnswer
  /\ answer' = FindFile(n) /\ FindCache' = Remembered(n)
  /\ UNCHANGED <<disk, dirs, NoFileCache, checkedout, calm>>
\* the answer is used up
Use ==
  /\ answer # NoAnswer /\ answer' = NoAnswer
  /\ UNCHANGED <<disk, dirs, FindCache, NoFileCache, checkedout, calm>>
\* another program, or a compilation, makes a file or removes one
Elsewhere(p) ==
  /\ answer = NoAnswer /\ p # checkedout
  /\ disk' = IF p \in disk THEN disk \ {p} ELSE disk \cup {p}
  /\ calm' = FALSE /\ UNCHANGED <<dirs, FindCache, NoFileCache, answer, checkedout>>
\* Options/Directories does not clear the cache
EditDirList(l, d) ==
  /\ answer = NoAnswer /\ d # dirs[l]
  /\ dirs' = [dirs EXCEPT ![l] = d] /\ calm' = FALSE
  /\ UNCHANGED <<disk, FindCache, NoFileCache, answer, checkedout>>
SwitchCache ==
  /\ answer = NoAnswer /\ NoFileCache' = ~NoFileCache
  /\ UNCHANGED <<disk, dirs, FindCache, answer, checkedout, calm>>
\* build, make clear, shell, another project: nothing is compiled meanwhile
NoCache == <<>>
ClearFindCache ==
  /\ answer = NoAnswer /\ checkedout = None
  /\ FindCache' = NoCache /\ calm' = TRUE
  /\ UNCHANGED <<disk, dirs, NoFileCache, answer, checkedout>>

\* compile_dep with RCS: a source that is not found comes out of its archive,
\* the command for the compiler looks for it once more, and it is removed
FindRCSFile(n) ==
  LET places == <<Place(".", n)>> \o [i \in DOMAIN dirs["src"] |-> Place(dirs["src"][i], n)]
      k == SelectInSeq(places, LAMBDA p : p \in Archives)
  IN IF k = 0 THEN None ELSE places[k]
CheckoutRCSFile(n) ==
  /\ answer = NoAnswer /\ checkedout = None
  /\ ~FindFile(n).found /\ FindRCSFile(n) # None
  /\ disk' = disk \cup {FindRCSFile(n)} /\ checkedout' = FindRCSFile(n) /\ calm' = FALSE
  /\ UNCHANGED <<dirs, FindCache, NoFileCache, answer>>
Compiled ==
  /\ answer = NoAnswer /\ checkedout # None
  /\ FindCache' = Remembered(checkedout[2])
  /\ disk' = disk \ {checkedout} /\ checkedout' = None /\ calm' = FALSE
  /\ UNCHANGED <<dirs, NoFileCache, answer>>

SearchNext ==
  \/ \E n \in Names : Ask(n)
  \/ Use
  \/ \E p \in MayAppear : Elsewhere(p)
  \/ \E l \in DOMAIN Lists : \E d \in Lists[l] : EditDirList(l, d)
  \/ SwitchCache
  \/ ClearFindCache
  \/ \E p \in Archives : CheckoutRCSFile(p[2])
  \/ Compiled
SearchSpec == SearchInit /\ [][SearchNext]_searchvars
----------------------------------------------------------------------------
(* Properties *)

\* A file that is said to be missing is missing now, everywhere it may be: what
\* was not found is never remembered.  And a file that was found is the one a
\* search of now would find, as long as no file and no list of directories
\* changed since the cache was cleared, or when no cache is used
\* (ideutil.cc:206-317).
FilesFound ==
  answer # NoAnswer =>
    LET n == answer.name
        list == Searched(n)
        there == {i \in DOMAIN list : Place(list[i], n) \in disk}
    IN /\ ~answer.found => Place(".", n) \notin disk /\ there = {}
       /\ answer.found /\ (calm \/ NoFileCache) =>
            /\ answer.full \in disk /\ answer.full[2] = n
            /\ IF Place(".", n) \in disk THEN answer.full[1] = "."
               ELSE \E i \in there : answer.full[1] = list[i] /\ \A j \in there : i <= j
       /\ n \in DOMAIN FindCache => FileType[n] # "EXE"
=============================================================================
