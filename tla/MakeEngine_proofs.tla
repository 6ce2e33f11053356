-------------------------- MODULE MakeEngine_proofs --------------------------
(***************************************************************************)
(* Proofs about MakeEngine, for any number of items, headers and editors   *)
(* and any time.  Most of them are about a careful use, without the        *)
(* surprises; MakeEngine.cfg checks the same on a small project.           *)
(***************************************************************************)
EXTENDS MakeEngine, TLAPS

Careful == Surprises = {}

----------------------------------------------------------------------------
(* The parts of the inductive invariant *)

Unsaved == /\ changed # {} => hasmodified
           /\ pc \notin {"idle", "shell", "build"} => changed = {}

\* an editor has the time of its file; a modified one is later than
\* everything that was built
EditorTimes ==
  /\ \A f \in open \ changed : /\ edittime[f] <= mtime[f]
                               /\ pc # "shell" => edittime[f] = mtime[f]
  /\ \A f \in changed, d \in Derived : edittime[f] > mtime[d]

Times == /\ now > 0 /\ \A f \in Files : mtime[f] <= now
         /\ \A f \in Sources : edittime[f] <= now /\ mtime[f] > 0

CacheTimes ==
  /\ \A f \in open : cache[f] = Uncached
  /\ pc # "shell" => \A f \in Files \ Building :
                       cache[f] = Uncached \/ cache[f] = mtime[f]

\* an object that is out of date shows it by its times
ObjectTimes == \A s \in Items :
  /\ Object[s] \notin fresh =>
       \/ mtime[Object[s]] = 0
       \/ mtime[s] > mtime[Object[s]]
       \/ \E f \in deps[s] : mtime[f] > mtime[Object[s]]
  /\ mtime[Object[s]] # 0 => deps[s] = Includes[s]
  /\ Object[s] \in fresh => mtime[Object[s]] # 0

TargetTimes ==
  /\ Target \notin fresh =>
       /\ mtime[Target] < now
       /\ \/ mtime[Target] = 0
          \/ \E s \in Items : Object[s] \notin fresh \/ mtime[Object[s]] > mtime[Target]

Built == pc = "compiling" => Object[item] \notin fresh

LinkFiles == pc \in {"link", "linking"} => Objects \subseteq fresh

\* the items the walk has passed are built, and not after "newest"
WalkTimes ==
  /\ pc = "walk" => doing = "make"
  /\ pc \in {"idle", "shell", "build", "compile", "link"} => doing = "once"
  /\ pc \in {"walk", "compiling"} /\ doing = "make" =>
       /\ target = mtime[Target]
       /\ \A s \in Items \ (todo \cup {item}) :
            Object[s] \in fresh /\ mtime[Object[s]] <= newest

Answers == /\ MadeIsFresh /\ YesIsFresh
           /\ answer = "yes" => pc = "idle"

CarefulInv == /\ Unsaved /\ EditorTimes /\ Times /\ CacheTimes
              /\ ObjectTimes /\ TargetTimes /\ LinkFiles /\ Built /\ WalkTimes /\ Answers

----------------------------------------------------------------------------
(* Types *)

LEMMA FileFacts ==
  /\ Sources \subseteq Files /\ Derived \subseteq Files /\ Objects \subseteq Derived
  /\ Target \in Derived /\ Target \in Files /\ Target \notin Sources
  /\ \A s \in Items : /\ s \in Sources /\ s \in Files /\ s # NoItem
                      /\ Object[s] \in Objects /\ Object[s] \in Derived
                      /\ Object[s] \in Files /\ Object[s] \notin Sources
                      /\ Object[s] # Target
                      /\ Includes[s] \subseteq Headers
  /\ Headers \subseteq Sources
BY Project DEF Sources, Derived, Files, Objects

LEMMA OutdatedDerived == \A fs : Outdated(fs) \subseteq Derived
BY DEF Outdated, Derived, Objects

LEMMA SeenType == TypeOK => \A f \in Files : Seen(f) \in Nat
BY FileFacts DEF TypeOK, Seen, Files, Uncached

LEMMA LookedType ==
  TypeOK => \A fs : Looked(fs) \in [Files -> Nat \cup {Uncached}]
BY SeenType DEF TypeOK, Looked

LEMMA SaveAllType ==
  ASSUME TypeOK, NEW kept \in SUBSET changed, SaveAll(kept)
  PROVE  /\ mtime' \in [Files -> Nat] /\ fresh' \subseteq Derived
         /\ open' = open /\ changed' \subseteq open /\ edittime' = edittime
         /\ hasmodified' \in BOOLEAN /\ already_maked' \in BOOLEAN
BY OutdatedDerived DEF SaveAll, Written, TypeOK, editors

\* TypeOK is an invariant of every specification of the engine, with or
\* without surprises.
THEOREM TypeCorrect == Spec => []TypeOK
<1>1. Init => TypeOK
  <2> SUFFICES ASSUME Init PROVE TypeOK
    OBVIOUS
  <2>1. mtime \in [Files -> Nat] /\ edittime \in [Sources -> Nat]
    BY DEF Init
  <2>2. cache \in [Files -> Nat \cup {Uncached}]
    BY DEF Init
  <2>3. deps \in [Items -> SUBSET Headers]
    BY DEF Init
  <2> QED BY <2>1, <2>2, <2>3 DEF Init, TypeOK, Pcs
<1>2. TypeOK /\ [Next]_vars => TypeOK'
  <2> SUFFICES ASSUME TypeOK, [Next]_vars PROVE TypeOK'
    OBVIOUS
  <2> USE FileFacts
  <2>1. CASE UNCHANGED vars
    BY <2>1 DEF TypeOK, vars, editors, walk
  <2>2. CASE Tick
    BY <2>2 DEF Tick, TypeOK, editors, walk
  <2>3. ASSUME NEW f \in Sources, Open(f) PROVE TypeOK'
    BY <2>3 DEF Open, Idle, TypeOK, walk, Uncached
  <2>4. ASSUME NEW f \in Sources, Edit(f) PROVE TypeOK'
    <3>1. Round(now) \in Nat
      BY DEF Round, TypeOK
    <3> QED BY <2>4, <3>1 DEF Edit, Idle, TypeOK, walk
  <2>5. ASSUME NEW f \in Sources, Save(f) PROVE TypeOK'
    BY <2>5, OutdatedDerived DEF Save, Written, Idle, TypeOK, walk
  <2>6. ASSUME NEW f \in Sources, NEW save \in BOOLEAN, Close(f, save)
        PROVE  TypeOK'
    <3>1. mtime' \in [Files -> Nat] /\ fresh' \subseteq Derived
      BY <2>6, OutdatedDerived DEF Close, Written, TypeOK
    <3> QED BY <2>6, <3>1 DEF Close, Idle, TypeOK, walk
  <2>7. CASE Shell
    <3>1. PICK kept \in SUBSET changed :
            /\ Idle /\ SaveAll(kept)
            /\ pc' \in {"idle", "shell"}
            /\ UNCHANGED <<now, cache, deps, doing, walk>>
      BY <2>7 DEF Shell
    <3> QED BY <3>1, SaveAllType DEF Idle, TypeOK, walk, Pcs
  <2>8. CASE Suspend
    BY <2>8 DEF Suspend, Idle, TypeOK, editors, walk, Pcs
  <2>9. ASSUME NEW f \in Files, Outside(f) PROVE TypeOK'
    BY <2>9 DEF Outside, TypeOK, editors, walk
  <2>10. ASSUME NEW reloaded \in SUBSET Sources, Returns(reloaded)
         PROVE  TypeOK'
    BY <2>10 DEF Returns, TypeOK, walk, Pcs, Uncached
  <2>11. CASE MakeClear
    BY <2>11 DEF MakeClear, Cleared, Idle, TypeOK, editors, walk, Uncached
  <2>12. CASE ClearDependencies
    BY <2>12 DEF ClearDependencies, Idle, TypeOK, editors, walk, Uncached
  <2>13. CASE Build
    BY <2>13 DEF Build, Cleared, Idle, TypeOK, editors, walk, Uncached, Pcs
  <2>14. ASSUME NEW kept \in SUBSET changed, Make(kept) PROVE TypeOK'
    <3>1. CASE Refuses(kept)
      BY <2>14, <3>1, SaveAllType DEF Make, TypeOK, Pcs
    <3>2. CASE ~Refuses(kept) /\ NeedMake
      <4>1. cache' \in [Files -> Nat \cup {Uncached}]
        BY <2>14, <3>2, LookedType DEF Make
      <4>2. newest' \in Nat /\ target' \in Nat
        BY <2>14, <3>2, SeenType DEF Make
      <4> QED BY <2>14, <3>2, <4>1, <4>2, SaveAllType DEF Make, TypeOK, Pcs
    <3>3. CASE ~Refuses(kept) /\ ~NeedMake
      BY <2>14, <3>3 DEF Make, TypeOK, Pcs, editors
    <3> QED BY <3>1, <3>2, <3>3
  <2>15. ASSUME NEW kept \in SUBSET changed, Compile(kept) PROVE TypeOK'
    BY <2>15, SaveAllType DEF Compile, Idle, TypeOK, Pcs
  <2>16. ASSUME NEW s \in Items, UpToDate(s) PROVE TypeOK'
    <3>1. cache' \in [Files -> Nat \cup {Uncached}] /\ newest' \in Nat
      BY <2>16, LookedType, SeenType DEF UpToDate, Larger, TypeOK
    <3> QED BY <2>16, <3>1 DEF UpToDate, Stays, TypeOK, editors
  <2>17. ASSUME NEW s \in Items, OutOfDate(s) PROVE TypeOK'
    <3>1. cache' \in [Files -> Nat \cup {Uncached}]
      BY <2>17, LookedType DEF OutOfDate
    <3> QED BY <2>17, <3>1 DEF OutOfDate, CompileDep, Stays, TypeOK, editors, Pcs
  <2>18. CASE CompileOne
    BY <2>18 DEF CompileOne, CompileDep, Stays, TypeOK, editors, walk, Pcs
  <2>19. CASE LinkOrNot
    <3>1. mtime' \in [Files -> Nat] /\ fresh' \subseteq Derived
      BY <2>19 DEF LinkOrNot, CompileDep, MakeEnds, TypeOK
    <3>2. item' = NoItem /\ pc' \in {"idle", "linking"}
      BY <2>19 DEF LinkOrNot, MakeEnds, TypeOK, walk
    <3>3. already_maked' \in BOOLEAN /\ doing' \in {"make", "once"}
      BY <2>19 DEF LinkOrNot, CompileDep, MakeEnds, TypeOK
    <3>4. /\ todo' \subseteq Items /\ newest' \in Nat /\ target' \in Nat
          /\ answer' \in {"none", "yes", "no"}
      BY <2>19 DEF LinkOrNot, MakeEnds, TypeOK, walk
    <3>5. UNCHANGED <<now, cache, open, changed, edittime, hasmodified, deps>>
      BY <2>19 DEF LinkOrNot, editors
    <3> QED BY <3>1, <3>2, <3>3, <3>4, <3>5 DEF TypeOK, Pcs
  <2>20. ASSUME NEW how \in {"ok", "fails", "mute"}, CompilerEnds(how)
         PROVE  TypeOK'
    <3>1. /\ mtime' \in [Files -> Nat]
          /\ cache' \in [Files -> Nat \cup {Uncached}]
      BY <2>20 DEF CompilerEnds, Ran, TypeOK
    <3>2. deps' \in [Items -> SUBSET Headers]
      BY <2>20 DEF CompilerEnds, TypeOK
    <3>3. CASE how = "ok"
      BY <2>20, <3>1, <3>2, <3>3
      DEF CompilerEnds, Larger, TypeOK, editors, Pcs
    <3>4. CASE how # "ok"
      <4>1. Fails /\ UNCHANGED <<now, open, changed, edittime, hasmodified, fresh>>
        BY <2>20, <3>4 DEF CompilerEnds, editors
      <4>2. already_maked' \in BOOLEAN /\ item' = NoItem /\ pc' = "idle"
        BY <4>1 DEF Fails, MakeEnds, TypeOK
      <4> QED BY <3>1, <3>2, <4>1, <4>2 DEF Fails, MakeEnds, TypeOK, Pcs
    <3> QED BY <3>3, <3>4
  <2>21. ASSUME NEW how \in {"ok", "fails", "mute"}, LinkerEnds(how)
         PROVE  TypeOK'
    <3>1. /\ mtime' \in [Files -> Nat]
          /\ cache' \in [Files -> Nat \cup {Uncached}]
      BY <2>21 DEF LinkerEnds, Ran, TypeOK
    <3>2. UNCHANGED <<now, open, changed, edittime, hasmodified, deps>>
      BY <2>21 DEF LinkerEnds, editors
    <3>3. fresh' \subseteq Derived
      BY <2>21 DEF LinkerEnds, TypeOK
    <3>4. item' = NoItem /\ pc' = "idle" /\ already_maked' \in BOOLEAN
      BY <2>21 DEF LinkerEnds, Fails, MakeEnds, TypeOK, walk
    <3>5. /\ doing' \in {"make", "once"} /\ todo' \subseteq Items
          /\ newest' \in Nat /\ target' \in Nat /\ answer' \in {"none", "yes", "no"}
      BY <2>21 DEF LinkerEnds, Fails, MakeEnds, TypeOK, walk
    <3> QED BY <3>1, <3>2, <3>3, <3>4, <3>5 DEF TypeOK, Pcs
  <2>22. ASSUME NEW kept \in SUBSET changed, SaveFiles(kept) PROVE TypeOK'
    BY <2>22, SaveAllType DEF SaveFiles, Idle, TypeOK, walk
  <2> QED BY <2>1, <2>2, <2>3, <2>4, <2>5, <2>6, <2>7, <2>8, <2>9, <2>10, <2>11,
             <2>12, <2>13, <2>14, <2>15, <2>16, <2>17, <2>18, <2>19, <2>20, <2>21,
             <2>22
          DEF Next
<1> QED BY <1>1, <1>2, PTL DEF Spec

----------------------------------------------------------------------------
(* What the times say *)

\* once everything is saved, make sees the times on the disk
LEMMA SeenIsTrue ==
  ASSUME TypeOK, EditorTimes, CacheTimes, changed = {}, pc # "shell"
  PROVE  \A f \in Files \ Building : Seen(f) = mtime[f]
BY FileFacts DEF TypeOK, EditorTimes, CacheTimes, Seen

LEMMA LookedIsTrue ==
  ASSUME TypeOK, EditorTimes, CacheTimes, changed = {}, pc # "shell",
         Building = {}, NEW fs
  PROVE  \A f \in Files : /\ Looked(fs)[f] = Uncached \/ Looked(fs)[f] = mtime[f]
                          /\ f \in open => Looked(fs)[f] = Uncached
BY SeenIsTrue DEF Looked, CacheTimes

\* an object that is not fresh is compiled, one that needs no compilation is
LEMMA NeedsIsTrue ==
  ASSUME TypeOK, EditorTimes, CacheTimes, Times, ObjectTimes, changed = {},
         pc # "shell", Building = {}, NEW s \in Items, ~Needs(s)
  PROVE  Object[s] \in fresh
<1>1. /\ Seen(s) = mtime[s] /\ Seen(Object[s]) = mtime[Object[s]]
      /\ \A f \in deps[s] : Seen(f) = mtime[f]
  BY SeenIsTrue, FileFacts DEF TypeOK, Files
<1>2. mtime[s] > 0 /\ mtime[s] \in Nat /\ mtime[Object[s]] \in Nat
  BY FileFacts DEF TypeOK, Times
<1>3. \A f \in deps[s] : mtime[f] \in Nat
  BY FileFacts DEF TypeOK, Files
<1> QED BY <1>1, <1>2, <1>3 DEF Needs, HeaderNewer, ObjectTimes

\* saving modified editors: what depends on them becomes older than they are
LEMMA WrittenKeeps ==
  ASSUME TypeOK, CarefulInv, NEW fs \in SUBSET changed, Written(fs)
  PROVE  /\ \A f \in Files \ fs : mtime'[f] = mtime[f]
         /\ \A f \in fs : mtime'[f] = edittime[f]
         /\ fresh' \subseteq fresh /\ (fs = {} => fresh' = fresh /\ mtime' = mtime)
         /\ UNCHANGED <<now, deps>> => ObjectTimes' /\ TargetTimes'
         /\ \A f \in Files : mtime'[f] <= now
         /\ \A f \in Sources : mtime'[f] > 0
<1> USE FileFacts
<1>1. fs \subseteq Sources /\ fs \cap Derived = {}
  BY Project DEF TypeOK
<1>2. /\ \A f \in Files \ fs : mtime'[f] = mtime[f]
      /\ \A f \in fs : mtime'[f] = edittime[f]
  BY <1>1 DEF Written, Files
<1>3. /\ fresh' \subseteq fresh
      /\ fs = {} => fresh' = fresh /\ mtime' = mtime
  <2>1. ASSUME fs = {} PROVE fresh' = fresh /\ mtime' = mtime
    <3>1. Outdated(fs) = {}
      BY <2>1 DEF Outdated
    <3> QED BY <2>1, <3>1 DEF Written, TypeOK
  <2> QED BY <2>1 DEF Written
<1>4. \A f \in fs, d \in Derived : edittime[f] > mtime[d] /\ mtime'[d] = mtime[d]
  BY <1>1, <1>2 DEF CarefulInv, EditorTimes, Files
<1>5. \A f \in Files : mtime[f] \in Nat /\ mtime'[f] \in Nat /\ mtime'[f] <= now
  BY <1>1, <1>2 DEF CarefulInv, Times, TypeOK
<1>6. \A f \in Sources : mtime'[f] > 0
  BY <1>1, <1>2, <1>4, <1>5 DEF CarefulInv, Times, TypeOK, Files
<1>7. ASSUME UNCHANGED <<now, deps>> PROVE ObjectTimes' /\ TargetTimes'
  <2>1. ASSUME NEW s \in Items, Object[s] \notin fresh'
        PROVE  \/ mtime'[Object[s]] = 0
               \/ mtime'[s] > mtime'[Object[s]]
               \/ \E f \in deps'[s] : mtime'[f] > mtime'[Object[s]]
    <3>1. CASE Object[s] \in fresh
      <4>1. Object[s] \in Outdated(fs)
        BY <2>1, <3>1 DEF Written
      <4>2. PICK t \in Items : Object[t] = Object[s] /\ ({t} \cup Includes[t]) \cap fs # {}
        BY <4>1 DEF Outdated
      <4>3. t = s
        BY <4>2, Project
      <4>4. PICK f \in fs : f = s \/ f \in Includes[s]
        BY <4>2, <4>3
      <4>5. mtime'[f] > mtime'[Object[s]]
        BY <1>2, <1>4 
      <4> QED BY <1>4, <1>7, <4>4, <4>5 DEF CarefulInv, ObjectTimes
    <3>2. CASE Object[s] \notin fresh
      <4>1. \A f \in Sources : mtime[f] > mtime[Object[s]] => mtime'[f] > mtime'[Object[s]]
        <5> SUFFICES ASSUME NEW f \in Sources, mtime[f] > mtime[Object[s]]
                     PROVE  mtime'[f] > mtime'[Object[s]]
          OBVIOUS
        <5>1. mtime'[Object[s]] = mtime[Object[s]]
          BY <1>1, <1>2
        <5>2. CASE f \in fs
          BY <1>2, <1>4, <5>1, <5>2
        <5>3. CASE f \notin fs
          BY <1>2, <5>1, <5>3 DEF Files
        <5> QED BY <5>2, <5>3
      <4>2. deps[s] \subseteq Sources
        BY DEF TypeOK
      <4>3. \/ mtime[Object[s]] = 0 \/ mtime[s] > mtime[Object[s]]
            \/ \E f \in deps[s] : mtime[f] > mtime[Object[s]]
        BY <3>2 DEF CarefulInv, ObjectTimes
      <4>4. deps' = deps /\ mtime'[Object[s]] = mtime[Object[s]] /\ s \in Sources
        BY <1>1, <1>2, <1>7
      <4> QED BY <4>1, <4>2, <4>3, <4>4
    <3> QED BY <3>1, <3>2
  <2>2. ASSUME NEW s \in Items, mtime'[Object[s]] # 0 PROVE deps'[s] = Includes[s]
    BY <1>4, <1>7, <2>2, <1>2, <1>1 DEF CarefulInv, ObjectTimes, Files
  <2>3. ASSUME Target \notin fresh'
        PROVE  /\ mtime'[Target] < now'
               /\ \/ mtime'[Target] = 0
                  \/ \E s \in Items : \/ Object[s] \notin fresh'
                                      \/ mtime'[Object[s]] > mtime'[Target]
    <3>0. mtime'[Target] = mtime[Target]
      BY <1>1, <1>2
    <3>1. CASE Target \in fresh
      <4>1. Target \in Outdated(fs)
        BY <2>3, <3>1 DEF Written
      <4>2. PICK s \in Items : ({s} \cup Includes[s]) \cap fs # {} /\ Object[s] \in Outdated(fs)
        BY <4>1 DEF Outdated, Objects
      <4>3. PICK f \in fs : TRUE
        BY <4>2
      <4>4. mtime[Target] < now
        <5>1. edittime[f] > mtime[Target] /\ edittime[f] <= now
          BY <1>1, <1>4, <4>3 DEF CarefulInv, Times
        <5> QED BY <5>1, <1>1, <4>3 DEF TypeOK
      <4> QED BY <1>7, <3>0, <4>2, <4>4 DEF Written
    <3>2. CASE Target \notin fresh
      <4>1. \A s \in Items : mtime'[Object[s]] = mtime[Object[s]]
        BY <1>1, <1>2
      <4> QED BY <1>3, <1>7, <3>0, <3>2, <4>1 DEF CarefulInv, TargetTimes
    <3> QED BY <3>1, <3>2
  <2>4. \A s \in Items : Object[s] \in fresh' => mtime'[Object[s]] # 0
    BY <1>1, <1>2, <1>3 DEF CarefulInv, ObjectTimes
  <2> QED BY <2>1, <2>2, <2>3, <2>4 DEF ObjectTimes, TargetTimes
<1> QED BY <1>2, <1>3, <1>5, <1>6, <1>7

\* SaveAll: either everything is saved, or the editors still count
LEMMA SaveAllKeeps ==
  ASSUME TypeOK, CarefulInv, pc # "shell", NEW kept \in SUBSET changed, SaveAll(kept),
         UNCHANGED <<now, deps>>
  PROVE  /\ (changed' # {} => hasmodified') /\ (~Refuses(kept) => changed' = {} /\ ~hasmodified')
         /\ Times' /\ ObjectTimes' /\ TargetTimes'
         /\ \A f \in open' \ changed' : edittime'[f] = mtime'[f]
         /\ \A f \in changed', d \in Derived : edittime'[f] > mtime'[d]
         /\ \A f \in Files \ open : mtime'[f] = mtime[f]
         /\ open' = open /\ fresh' \subseteq fresh
         /\ already_maked' /\ ~hasmodified' =>
              already_maked /\ ~hasmodified /\ fresh' = fresh
<1>1. CASE hasmodified
  <2> DEFINE fs == changed \ kept
  <2>1. fs \in SUBSET changed /\ Written(fs)
    BY <1>1 DEF SaveAll
  <2>2. /\ \A f \in Files \ fs : mtime'[f] = mtime[f]
        /\ \A f \in fs : mtime'[f] = edittime[f]
        /\ fresh' \subseteq fresh
        /\ ObjectTimes' /\ TargetTimes'
        /\ \A f \in Files : mtime'[f] <= now
        /\ \A f \in Sources : mtime'[f] > 0
    <3> HIDE DEF fs
    <3> QED BY <2>1, WrittenKeeps
  <2>3. /\ open' = open /\ changed' = kept /\ edittime' = edittime
        /\ hasmodified' = (kept # {}) /\ already_maked' = (already_maked /\ kept # {})
    BY <1>1 DEF SaveAll
  <2>4. Times'
    BY <2>2, <2>3 DEF Times, CarefulInv
  <2>5. \A f \in open' \ changed' : edittime'[f] = mtime'[f]
    BY <2>2, <2>3, FileFacts DEF CarefulInv, EditorTimes, TypeOK, Files
  <2>6. \A f \in changed', d \in Derived : edittime'[f] > mtime'[d]
    <3>1. \A d \in Derived : d \in Files \ fs
      BY FileFacts, Project DEF TypeOK
    <3> QED BY <2>2, <2>3, <3>1 DEF CarefulInv, EditorTimes
  <2>7. \A f \in Files \ open : mtime'[f] = mtime[f]
    BY <2>2 DEF TypeOK
  <2> QED BY <1>1, <2>2, <2>3, <2>4, <2>5, <2>6, <2>7 DEF Refuses
<1>2. CASE ~hasmodified
  <2>1. UNCHANGED <<mtime, fresh, open, changed, edittime, hasmodified, already_maked>>
    BY <1>2 DEF SaveAll, editors
  <2>2. changed = {}
    BY <1>2 DEF CarefulInv, Unsaved
  <2>3. Times' /\ ObjectTimes' /\ TargetTimes'
    BY <2>1 DEF CarefulInv, Times, ObjectTimes, TargetTimes
  <2> QED BY <1>2, <2>1, <2>2, <2>3 DEF CarefulInv, EditorTimes, Refuses
<1> QED BY <1>1, <1>2

----------------------------------------------------------------------------
(* The steps *)

LEMMA CarefulInit == Init => CarefulInv
<1> SUFFICES ASSUME Init PROVE CarefulInv
  OBVIOUS
<1>1. Building = {}
  BY DEF Init, Building
<1>2. Unsaved /\ EditorTimes /\ CacheTimes /\ LinkFiles /\ Built /\ WalkTimes
  BY <1>1 DEF Init, Unsaved, EditorTimes, CacheTimes, LinkFiles, Built, WalkTimes
<1>3. Times /\ ObjectTimes /\ TargetTimes
  BY FileFacts DEF Init, Times, ObjectTimes, TargetTimes, Files
<1>4. Answers
  BY DEF Init, Answers, MadeIsFresh, YesIsFresh
<1> QED BY <1>1, <1>2, <1>3, <1>4 DEF CarefulInv

LEMMA TickKeeps ==
  ASSUME TypeOK, CarefulInv, Careful, Tick
  PROVE  CarefulInv'
<1> USE FileFacts DEF CarefulInv
<1>11. Unsaved' /\ LinkFiles' /\ Built' /\ WalkTimes' /\ Answers'
  BY DEF Tick, TypeOK, editors, walk, Unsaved, LinkFiles, Built, WalkTimes,
         Answers, MadeIsFresh, YesIsFresh
<1>12. EditorTimes'
  BY DEF Tick, TypeOK, editors, walk, EditorTimes, Unsaved
<1>13. Times'
  BY DEF Tick, TypeOK, editors, walk, Times
<1>14. CacheTimes'
  BY DEF Tick, TypeOK, editors, walk, CacheTimes, Building
<1>15. ObjectTimes' /\ TargetTimes'
  BY DEF Tick, TypeOK, editors, walk, ObjectTimes, TargetTimes
<1> QED BY <1>11, <1>12, <1>13, <1>14, <1>15

LEMMA OpenKeeps ==
  ASSUME TypeOK, CarefulInv, Careful, NEW f \in Sources, Open(f)
  PROVE  CarefulInv'
<1> USE FileFacts DEF CarefulInv
<1>11. Unsaved' /\ LinkFiles' /\ Built' /\ WalkTimes' /\ Answers'
  BY DEF Open, Idle, TypeOK, walk, Files, Unsaved, LinkFiles, Built, WalkTimes,
         Answers, MadeIsFresh, YesIsFresh
<1>12. EditorTimes'
  BY DEF Open, Idle, TypeOK, walk, Files, EditorTimes, Unsaved
<1>13. Times'
  BY DEF Open, Idle, TypeOK, walk, Files, Times
<1>14. CacheTimes'
  BY DEF Open, Idle, TypeOK, walk, Files, CacheTimes, Building
<1>15. ObjectTimes' /\ TargetTimes'
  BY DEF Open, Idle, TypeOK, walk, Files, ObjectTimes, TargetTimes
<1> QED BY <1>11, <1>12, <1>13, <1>14, <1>15

LEMMA EditKeeps ==
  ASSUME TypeOK, CarefulInv, Careful, NEW f \in Sources, Edit(f)
  PROVE  CarefulInv'
<1> USE FileFacts DEF CarefulInv
<1>1. Round(now) \in Nat /\ Round(now) <= now
  BY DEF Round, TypeOK
<1>2. \A d \in Derived : Round(now) > mtime[d]
  BY DEF Edit, Unhurried, Careful
<1>11. Unsaved' /\ LinkFiles' /\ Built' /\ WalkTimes' /\ Answers'
  BY <1>1, <1>2
  DEF Edit, Idle, TypeOK, walk, Unsaved, LinkFiles, Built, WalkTimes, Answers,
      MadeIsFresh, YesIsFresh
<1>12. EditorTimes'
  BY <1>1, <1>2 DEF Edit, Idle, TypeOK, walk, EditorTimes, Unsaved
<1>13. Times'
  BY <1>1, <1>2 DEF Edit, Idle, TypeOK, walk, Times
<1>14. CacheTimes'
  BY <1>1, <1>2 DEF Edit, Idle, TypeOK, walk, CacheTimes, Building
<1>15. ObjectTimes' /\ TargetTimes'
  BY <1>1, <1>2 DEF Edit, Idle, TypeOK, walk, ObjectTimes, TargetTimes
<1> QED BY <1>11, <1>12, <1>13, <1>14, <1>15

LEMMA SaveKeeps ==
  ASSUME TypeOK, CarefulInv, Careful, NEW f \in Sources, Save(f)
  PROVE  CarefulInv'
<1> USE FileFacts DEF CarefulInv
<1>1. {f} \in SUBSET changed /\ Written({f})
  BY DEF Save
<1>2. /\ \A g \in Files \ {f} : mtime'[g] = mtime[g]
      /\ mtime'[f] = edittime[f]
      /\ fresh' \subseteq fresh
      /\ ObjectTimes' /\ TargetTimes'
      /\ \A g \in Files : mtime'[g] <= now
      /\ \A g \in Sources : mtime'[g] > 0
  BY <1>1, WrittenKeeps DEF Save
<1>3. hasmodified /\ hasmodified'
  BY DEF Save, Unsaved
<1>11. Unsaved' /\ LinkFiles' /\ Built' /\ WalkTimes' /\ Answers'
  BY <1>1, <1>2, <1>3
  DEF Save, Idle, TypeOK, walk, Files, Unsaved, LinkFiles, Built, WalkTimes,
      Answers, MadeIsFresh, YesIsFresh
<1>12. EditorTimes'
  <2>1. \A g \in open \ (changed \ {f}) : edittime[g] = mtime'[g]
    BY <1>1, <1>2 DEF EditorTimes, TypeOK, Files, Save, Idle
  <2>2. \A d \in Derived : mtime'[d] = mtime[d]
    BY <1>2, Project
  <2>3. edittime' = edittime /\ open' = open /\ changed' = changed \ {f}
    BY DEF Save
  <2>4. \A g \in open \ (changed \ {f}) : edittime[g] <= mtime'[g]
    BY <2>1 DEF TypeOK
  <2> QED BY <2>1, <2>2, <2>3, <2>4 DEF EditorTimes
<1>13. Times'
  BY <1>1, <1>2, <1>3 DEF Save, Idle, TypeOK, walk, Files, Times
<1>14. CacheTimes'
  BY <1>1, <1>2, <1>3 DEF Save, Idle, TypeOK, walk, Files, CacheTimes, Building
<1>15. ObjectTimes' /\ TargetTimes'
  BY <1>2
<1> QED BY <1>11, <1>12, <1>13, <1>14, <1>15

LEMMA CloseKeeps ==
  ASSUME TypeOK, CarefulInv, Careful, NEW f \in Sources, NEW save \in BOOLEAN, Close(f, save)
  PROVE  CarefulInv'
<1> USE FileFacts DEF CarefulInv
<1> DEFINE fs == IF save THEN {f} \cap changed ELSE {}
<1>1. fs \in SUBSET changed /\ Written(fs)
  BY DEF Close
<1>2. /\ \A g \in Files \ fs : mtime'[g] = mtime[g]
      /\ \A g \in fs : mtime'[g] = edittime[g]
      /\ fresh' \subseteq fresh
      /\ fs = {} => fresh' = fresh /\ mtime' = mtime
      /\ ObjectTimes' /\ TargetTimes'
      /\ \A g \in Files : mtime'[g] <= now
      /\ \A g \in Sources : mtime'[g] > 0
  <2> UNCHANGED <<now, deps>>
    BY DEF Close
  <2> HIDE DEF fs
  <2> QED BY <1>1, WrittenKeeps
<1>3. (fs # {} => hasmodified) /\ hasmodified' = hasmodified
  BY DEF Close, Unsaved
<1>4. \A g \in Files : g # f => mtime'[g] = mtime[g]
  BY <1>2
<1> HIDE DEF fs
<1>11. Unsaved' /\ LinkFiles' /\ Built' /\ WalkTimes' /\ Answers'
  BY <1>2, <1>3, <1>4
  DEF Close, Idle, TypeOK, walk, Files, Unsaved, LinkFiles, Built, WalkTimes,
      Answers, MadeIsFresh, YesIsFresh
<1>12. EditorTimes'
  <2>1. /\ open' = open \ {f} /\ changed' = changed \ {f} /\ pc = "idle"
        /\ \A g \in open' : edittime'[g] = edittime[g] /\ mtime'[g] = mtime[g]
    BY <1>4 DEF Close, Idle, TypeOK, Files
  <2>2. \A d \in Derived : mtime'[d] = mtime[d]
    BY <1>4, Project
  <2> QED BY <2>1, <2>2 DEF EditorTimes, TypeOK
<1>13. Times'
  BY <1>2, <1>3, <1>4 DEF Close, Idle, TypeOK, walk, Files, Times
<1>14. CacheTimes'
  BY <1>2, <1>3, <1>4 DEF Close, Idle, TypeOK, walk, Files, CacheTimes, Building
<1>15. ObjectTimes' /\ TargetTimes'
  BY <1>2
<1> QED BY <1>11, <1>12, <1>13, <1>14, <1>15

LEMMA ShellKeeps ==
  ASSUME TypeOK, CarefulInv, Careful, Shell
  PROVE  CarefulInv'
<1> USE FileFacts DEF CarefulInv
<1> PICK kept \in SUBSET changed :
      /\ Idle /\ SaveAll(kept)
      /\ pc' = IF Refuses(kept) THEN "idle" ELSE "shell"
      /\ UNCHANGED <<now, cache, deps, doing, walk>>
  BY DEF Shell
<1>1. /\ (changed' # {} => hasmodified') /\ (~Refuses(kept) => changed' = {} /\ ~hasmodified')
      /\ Times' /\ ObjectTimes' /\ TargetTimes'
      /\ \A f \in open' \ changed' : edittime'[f] = mtime'[f]
      /\ \A f \in changed', d \in Derived : edittime'[f] > mtime'[d]
      /\ \A f \in Files \ open : mtime'[f] = mtime[f]
      /\ open' = open /\ fresh' \subseteq fresh
      /\ already_maked' /\ ~hasmodified' =>
           already_maked /\ ~hasmodified /\ fresh' = fresh
  BY SaveAllKeeps DEF Idle
<1>2. \A f \in open' \ changed' : edittime'[f] <= mtime'[f]
  BY <1>1, SaveAllType DEF TypeOK
<1>11. Unsaved' /\ LinkFiles' /\ Built' /\ WalkTimes' /\ Answers'
  BY <1>1, <1>2
  DEF Idle, TypeOK, walk, Unsaved, LinkFiles, Built, WalkTimes, Answers,
      MadeIsFresh, YesIsFresh
<1>12. EditorTimes'
  BY <1>1, <1>2 DEF Idle, TypeOK, walk, EditorTimes, Unsaved
<1>13. Times'
  BY <1>1
<1>14. CacheTimes'
  BY <1>1, <1>2 DEF Idle, TypeOK, walk, CacheTimes, Building
<1>15. ObjectTimes' /\ TargetTimes'
  BY <1>1
<1> QED BY <1>11, <1>12, <1>13, <1>14, <1>15

LEMMA SaveFilesKeeps ==
  ASSUME TypeOK, CarefulInv, Careful, NEW kept \in SUBSET changed, SaveFiles(kept)
  PROVE  CarefulInv'
<1> USE FileFacts DEF CarefulInv
<1> Idle /\ SaveAll(kept) /\ UNCHANGED <<now, cache, deps, pc, doing, walk>>
  BY DEF SaveFiles
<1>1. /\ (changed' # {} => hasmodified') /\ (~Refuses(kept) => changed' = {} /\ ~hasmodified')
      /\ Times' /\ ObjectTimes' /\ TargetTimes'
      /\ \A f \in open' \ changed' : edittime'[f] = mtime'[f]
      /\ \A f \in changed', d \in Derived : edittime'[f] > mtime'[d]
      /\ \A f \in Files \ open : mtime'[f] = mtime[f]
      /\ open' = open /\ fresh' \subseteq fresh
      /\ already_maked' /\ ~hasmodified' =>
           already_maked /\ ~hasmodified /\ fresh' = fresh
  BY SaveAllKeeps DEF Idle
<1>2. \A f \in open' \ changed' : edittime'[f] <= mtime'[f]
  BY <1>1, SaveAllType DEF TypeOK
<1>11. Unsaved' /\ LinkFiles' /\ Built' /\ WalkTimes' /\ Answers'
  BY <1>1, <1>2
  DEF Idle, TypeOK, walk, Unsaved, LinkFiles, Built, WalkTimes, Answers,
      MadeIsFresh, YesIsFresh
<1>12. EditorTimes'
  BY <1>1, <1>2 DEF Idle, TypeOK, walk, EditorTimes, Unsaved
<1>13. Times'
  BY <1>1
<1>14. CacheTimes'
  BY <1>1, <1>2 DEF Idle, TypeOK, walk, CacheTimes, Building
<1>15. ObjectTimes' /\ TargetTimes'
  BY <1>1
<1> QED BY <1>11, <1>12, <1>13, <1>14, <1>15

LEMMA SuspendKeeps ==
  ASSUME TypeOK, CarefulInv, Careful, Suspend
  PROVE  CarefulInv'
<1> USE FileFacts DEF CarefulInv
<1>11. Unsaved' /\ LinkFiles' /\ Built' /\ WalkTimes' /\ Answers'
  BY DEF Suspend, Idle, TypeOK, editors, walk, Unsaved, LinkFiles, Built,
         WalkTimes, Answers, MadeIsFresh, YesIsFresh
<1>12. EditorTimes'
  BY DEF Suspend, Idle, TypeOK, editors, walk, EditorTimes, Unsaved
<1>13. Times'
  BY DEF Suspend, Idle, TypeOK, editors, walk, Times
<1>14. CacheTimes'
  BY DEF Suspend, Idle, TypeOK, editors, walk, CacheTimes, Building
<1>15. ObjectTimes' /\ TargetTimes'
  BY DEF Suspend, Idle, TypeOK, editors, walk, ObjectTimes, TargetTimes
<1> QED BY <1>11, <1>12, <1>13, <1>14, <1>15

LEMMA OutsideKeeps ==
  ASSUME TypeOK, CarefulInv, Careful, NEW f \in Files, Outside(f)
  PROVE  CarefulInv'
<1> USE FileFacts DEF CarefulInv
<1>1. \/ f \in Sources /\ Unhurried(now)
         /\ mtime' = [mtime EXCEPT ![f] = now] /\ fresh' = fresh \ Outdated({f})
      \/ f \in Derived
         /\ mtime' = [mtime EXCEPT ![f] = 0] /\ fresh' = fresh \ {f}
  BY DEF Outside
<1>2. f \in Sources => \A d \in Derived : now > mtime[d]
  BY <1>1, Project DEF Unhurried, Careful
<1>11. Unsaved' /\ LinkFiles' /\ Built' /\ WalkTimes' /\ Answers'
  BY <1>1, <1>2
  DEF Outside, TypeOK, editors, walk, Unsaved, LinkFiles, Built, WalkTimes,
      Answers, MadeIsFresh, YesIsFresh
<1>12. EditorTimes'
  <2>1. UNCHANGED <<open, changed, edittime, pc>> /\ pc = "shell"
    BY DEF Outside, editors
  <2>2. \A g \in open \ changed : edittime[g] <= mtime'[g]
    BY <1>1, Project DEF EditorTimes, Times, TypeOK, Files
  <2>3. ASSUME NEW g \in changed, NEW d \in Derived PROVE edittime[g] > mtime'[d]
    <3>1. edittime[g] > mtime[d] /\ edittime[g] \in Nat /\ mtime[d] \in Nat
      BY DEF EditorTimes, TypeOK
    <3>2. mtime'[d] = mtime[d] \/ mtime'[d] = 0
      BY <1>1, Project DEF TypeOK
    <3> QED BY <3>1, <3>2
  <2> QED BY <2>1, <2>2, <2>3 DEF EditorTimes
<1>13. Times'
  <2>1. UNCHANGED <<now, edittime>> /\ now \in Nat
    BY DEF Outside, editors, TypeOK
  <2>2. \A g \in Files : mtime'[g] \in {mtime[g], now, 0}
    BY <1>1 DEF TypeOK
  <2>3. \A g \in Sources : mtime'[g] \in {mtime[g], now}
    BY <1>1, Project DEF TypeOK, Files
  <2>4. \A g \in Files : mtime'[g] <= now
    BY <2>1, <2>2 DEF Times
  <2> QED BY <2>1, <2>3, <2>4 DEF Times
<1>14. CacheTimes'
  BY <1>1, <1>2 DEF Outside, TypeOK, editors, walk, CacheTimes, Building
<1>15. ObjectTimes' /\ TargetTimes'
  <2>1. UNCHANGED <<now, deps, pc>>
    BY DEF Outside
  <2>2. CASE f \in Sources
    <3>1. /\ mtime' = [mtime EXCEPT ![f] = now] /\ fresh' = fresh \ Outdated({f})
          /\ \A d \in Derived : mtime'[d] = mtime[d]
          /\ mtime'[f] = now /\ \A d \in Derived : mtime'[f] > mtime'[d]
      <4>1. f \notin Derived
        BY <2>2, Project
      <4>2. mtime' = [mtime EXCEPT ![f] = now] /\ fresh' = fresh \ Outdated({f})
        BY <1>1, <4>1
      <4>3. mtime'[f] = now /\ \A d \in Derived : mtime'[d] = mtime[d]
        BY <4>1, <4>2 DEF TypeOK
      <4> QED BY <1>2, <2>2, <4>2, <4>3
    <3>2. \A g \in Sources, d \in Derived : mtime[g] > mtime[d] => mtime'[g] > mtime'[d]
      BY <3>1 DEF TypeOK
    <3>3. ASSUME NEW s \in Items, Object[s] \notin fresh'
          PROVE  \/ mtime'[Object[s]] = 0
                 \/ mtime'[s] > mtime'[Object[s]]
                 \/ \E g \in deps'[s] : mtime'[g] > mtime'[Object[s]]
      <4>1. CASE Object[s] \in fresh
        <5>1. f = s \/ f \in Includes[s]
          BY <3>1, <3>3, <4>1, Project DEF Outdated
        <5> QED BY <2>1, <3>1, <5>1 DEF ObjectTimes
      <4>2. CASE Object[s] \notin fresh
        <5>1. \/ mtime[Object[s]] = 0 \/ mtime[s] > mtime[Object[s]]
              \/ \E g \in deps[s] : mtime[g] > mtime[Object[s]]
          BY <4>2 DEF ObjectTimes
        <5>2. deps[s] \subseteq Sources
          BY DEF TypeOK
        <5> QED BY <2>1, <3>1, <3>2, <5>1, <5>2
      <4> QED BY <4>1, <4>2
    <3>4. ObjectTimes'
      BY <2>1, <3>1, <3>3 DEF ObjectTimes
    <3>5. ASSUME Target \notin fresh', Target \in fresh
          PROVE  /\ mtime'[Target] < now
                 /\ \E s \in Items : Object[s] \notin fresh'
      <4>1. \E s \in Items : Object[s] \in Outdated({f})
        BY <3>1, <3>5 DEF Outdated
      <4> QED BY <1>2, <2>2, <3>1, <4>1 DEF TypeOK
    <3>6. ASSUME Target \notin fresh
          PROVE  /\ mtime'[Target] < now
                 /\ \/ mtime'[Target] = 0
                    \/ \E s \in Items : Object[s] \notin fresh' \/ mtime'[Object[s]] > mtime'[Target]
      BY <3>1, <3>6 DEF TargetTimes
    <3> QED BY <2>1, <3>4, <3>5, <3>6 DEF TargetTimes
  <2>3. CASE f \in Derived
    <3>1. /\ mtime' = [mtime EXCEPT ![f] = 0] /\ fresh' = fresh \ {f}
          /\ mtime'[f] = 0 /\ \A g \in Files \ {f} : mtime'[g] = mtime[g]
      BY <1>1, <2>3, Project DEF TypeOK
    <3>2. \A s \in Items : /\ mtime'[s] = mtime[s] /\ deps[s] \subseteq Sources
                           /\ \A g \in deps[s] : mtime'[g] = mtime[g]
      BY <2>3, <3>1, Project DEF TypeOK, Files
    <3>3. ObjectTimes'
      BY <2>1, <3>1, <3>2 DEF ObjectTimes
    <3>4. TargetTimes'
      BY <2>1, <3>1 DEF TargetTimes, Times
    <3> QED BY <3>3, <3>4
  <2> QED BY <2>2, <2>3 DEF Files
<1> QED BY <1>11, <1>12, <1>13, <1>14, <1>15

LEMMA ReturnsKeeps ==
  ASSUME TypeOK, CarefulInv, Careful, NEW reloaded \in SUBSET Sources, Returns(reloaded)
  PROVE  CarefulInv'
<1> USE FileFacts DEF CarefulInv
<1>11. Unsaved' /\ LinkFiles' /\ Built' /\ WalkTimes' /\ Answers'
  BY DEF Returns, Careful, TypeOK, walk, Files, Unsaved, LinkFiles, Built,
         WalkTimes, Answers, MadeIsFresh, YesIsFresh
<1>12. EditorTimes'
  BY DEF Returns, Careful, TypeOK, walk, Files, EditorTimes, Unsaved
<1>13. Times'
  BY DEF Returns, Careful, TypeOK, walk, Files, Times
<1>14. CacheTimes'
  BY DEF Returns, Careful, TypeOK, walk, Files, CacheTimes, Building
<1>15. ObjectTimes' /\ TargetTimes'
  BY DEF Returns, Careful, TypeOK, walk, Files, ObjectTimes, TargetTimes
<1> QED BY <1>11, <1>12, <1>13, <1>14, <1>15

LEMMA BuildKeeps ==
  ASSUME TypeOK, CarefulInv, Careful, Build
  PROVE  CarefulInv'
<1> USE FileFacts DEF CarefulInv
<1>1. /\ \A f \in Sources : mtime'[f] = mtime[f] /\ f \in Files
      /\ \A d \in Derived : mtime'[d] = 0 /\ mtime[d] \in Nat
  BY Project DEF Build, Cleared, TypeOK
<1>2. \A f \in Files : mtime[f] \in Nat /\ mtime'[f] \in {0, mtime[f]}
  BY DEF Build, Cleared, TypeOK
<1>11. Unsaved' /\ LinkFiles' /\ Built' /\ WalkTimes' /\ Answers'
  BY DEF Build, Cleared, Idle, TypeOK, editors, walk, Unsaved, LinkFiles, Built,
         WalkTimes, Answers, MadeIsFresh, YesIsFresh
<1>12. EditorTimes'
  BY <1>1 DEF Build, Idle, TypeOK, editors, EditorTimes
<1>13. Times'
  BY <1>1, <1>2 DEF Build, TypeOK, editors, Times
<1>14. CacheTimes'
  BY DEF Build, Cleared, Idle, TypeOK, editors, walk, CacheTimes, Building
<1>15. ObjectTimes' /\ TargetTimes'
  BY <1>1 DEF Build, Cleared, TypeOK, ObjectTimes, TargetTimes, Times
<1> QED BY <1>11, <1>12, <1>13, <1>14, <1>15

LEMMA MakeKeeps ==
  ASSUME TypeOK, CarefulInv, Careful, NEW kept \in SUBSET changed, Make(kept)
  PROVE  CarefulInv'
<1> USE FileFacts DEF CarefulInv
<1>1. pc \in {"idle", "build"} /\ UNCHANGED <<now, deps, item>> /\ Building = {}
  BY DEF Make, Building
<1>2. CASE ~Refuses(kept) /\ ~NeedMake
  <2>1. /\ already_maked /\ ~hasmodified /\ Target \in fresh
    BY <1>1, <1>2 DEF NeedMake, Answers, MadeIsFresh, TypeOK
  <2>2. /\ pc' = "idle" /\ already_maked' = TRUE
        /\ UNCHANGED <<mtime, cache, open, changed, edittime, hasmodified, fresh, doing,
                       todo, newest, target>>
    BY <1>2 DEF Make, editors
  <2>3. Unsaved' /\ LinkFiles' /\ Built' /\ WalkTimes' /\ Answers'
    BY <1>1, <2>1, <2>2
    DEF Unsaved, LinkFiles, Built, WalkTimes, Answers, MadeIsFresh, YesIsFresh
  <2>4. EditorTimes' /\ Times'
    BY <1>1, <2>2 DEF EditorTimes, Times
  <2>5. CacheTimes'
    BY <1>1, <2>2 DEF CacheTimes, Building
  <2>6. ObjectTimes' /\ TargetTimes'
    BY <1>1, <2>2 DEF ObjectTimes, TargetTimes
  <2> QED BY <2>3, <2>4, <2>5, <2>6
<1>3. CASE Refuses(kept) \/ NeedMake
  <2>1. SaveAll(kept) /\ pc # "shell"
    BY <1>1, <1>3 DEF Make
  <2>2. /\ (changed' # {} => hasmodified')
        /\ (~Refuses(kept) => changed' = {} /\ ~hasmodified')
        /\ Times' /\ ObjectTimes' /\ TargetTimes'
        /\ \A f \in open' \ changed' : edittime'[f] = mtime'[f]
        /\ \A f \in changed', d \in Derived : edittime'[f] > mtime'[d]
        /\ \A f \in Files \ open : mtime'[f] = mtime[f]
        /\ open' = open /\ fresh' \subseteq fresh
        /\ already_maked' /\ ~hasmodified' =>
             already_maked /\ ~hasmodified /\ fresh' = fresh
    BY <1>1, <2>1, SaveAllKeeps
  <2>3. EditorTimes'
    BY <2>1, <2>2, SaveAllType DEF EditorTimes, TypeOK
  <2>4. Target \notin open /\ Target \in Files \ open
    BY DEF TypeOK
  <2>5. CASE Refuses(kept)
    <3>1. /\ pc' = "idle" /\ answer' = "no"
          /\ UNCHANGED <<cache, doing, todo, newest, target>>
      BY <2>5 DEF Make
    <3>2. Unsaved' /\ LinkFiles' /\ Built' /\ WalkTimes' /\ Answers'
      BY <1>1, <2>2, <3>1
      DEF Unsaved, LinkFiles, Built, WalkTimes, Answers, MadeIsFresh, YesIsFresh
    <3>3. CacheTimes'
      BY <1>1, <2>2, <3>1 DEF CacheTimes, Building
    <3> QED BY <2>2, <2>3, <3>2, <3>3
  <2>6. CASE ~Refuses(kept) /\ NeedMake
    <3>1. /\ cache' = Looked({Target}) /\ pc' = "walk" /\ doing' = "make"
          /\ answer' = "none" /\ todo' = Items
          /\ newest' = Seen(Target) /\ target' = Seen(Target)
      BY <2>6 DEF Make
    <3>2. Seen(Target) = mtime[Target] /\ mtime'[Target] = mtime[Target]
      BY <1>1, <2>1, <2>2, <2>4 DEF Seen, CacheTimes
    <3>3. Unsaved' /\ LinkFiles' /\ Built' /\ WalkTimes'
      BY <2>2, <2>6, <3>1, <3>2 DEF Unsaved, LinkFiles, Built, WalkTimes
    <3>4. Answers'
      BY <1>1, <2>2, <3>1 DEF Answers, MadeIsFresh, YesIsFresh
    <3>5. \A f \in Files : Looked({Target})[f] = Uncached \/ Looked({Target})[f] = mtime'[f]
      BY <1>1, <2>1, <2>2, <3>2 DEF Looked, CacheTimes
    <3>6. \A f \in open : Looked({Target})[f] = Uncached
      BY <2>4 DEF Looked, CacheTimes, TypeOK, Files
    <3>7. CacheTimes'
      BY <2>2, <3>1, <3>5, <3>6 DEF CacheTimes
    <3> QED BY <2>2, <2>3, <3>3, <3>4, <3>7
  <2> QED BY <1>3, <2>5, <2>6
<1> QED BY <1>2, <1>3

LEMMA CompileKeeps ==
  ASSUME TypeOK, CarefulInv, Careful, NEW kept \in SUBSET changed, Compile(kept)
  PROVE  CarefulInv'
<1> USE FileFacts DEF CarefulInv
<1>1. /\ (changed' # {} => hasmodified') /\ (~Refuses(kept) => changed' = {} /\ ~hasmodified')
      /\ Times' /\ ObjectTimes' /\ TargetTimes'
      /\ \A f \in open' \ changed' : edittime'[f] = mtime'[f]
      /\ \A f \in changed', d \in Derived : edittime'[f] > mtime'[d]
      /\ \A f \in Files \ open : mtime'[f] = mtime[f]
      /\ open' = open /\ fresh' \subseteq fresh
      /\ already_maked' /\ ~hasmodified' =>
           already_maked /\ ~hasmodified /\ fresh' = fresh
  BY SaveAllKeeps DEF Compile, Idle
<1>2. \A f \in open' \ changed' : edittime'[f] <= mtime'[f]
  BY <1>1, SaveAllType DEF TypeOK, Compile
<1>3. Objects \subseteq fresh' \/ pc' # "link"
  BY DEF Compile, Careful, Refuses, Idle
<1>11. Unsaved' /\ LinkFiles' /\ Built' /\ WalkTimes' /\ Answers'
  BY <1>1, <1>2, <1>3
  DEF Compile, Idle, TypeOK, Unsaved, LinkFiles, Built, WalkTimes, Answers,
      MadeIsFresh, YesIsFresh
<1>12. EditorTimes'
  BY <1>1, <1>2, <1>3 DEF Compile, Idle, TypeOK, EditorTimes, Unsaved
<1>13. Times'
  BY <1>1
<1>14. CacheTimes'
  BY <1>1, <1>2, <1>3 DEF Compile, Idle, TypeOK, CacheTimes, Building
<1>15. ObjectTimes' /\ TargetTimes'
  BY <1>1
<1> QED BY <1>11, <1>12, <1>13, <1>14, <1>15

LEMMA UpToDateKeeps ==
  ASSUME TypeOK, CarefulInv, Careful, NEW s \in Items, UpToDate(s)
  PROVE  CarefulInv'
<1> USE FileFacts DEF CarefulInv
<1>1. Building = {} /\ changed = {} /\ pc # "shell"
  BY DEF UpToDate, Building, Unsaved
<1>2. Object[s] \in fresh
  BY <1>1, NeedsIsTrue DEF UpToDate
<1>3. Seen(Object[s]) = mtime[Object[s]]
  BY <1>1, SeenIsTrue
<1>4. \A f \in Files : /\ cache'[f] = Uncached \/ cache'[f] = mtime[f]
                       /\ f \in open => cache'[f] = Uncached
  BY <1>1, LookedIsTrue DEF UpToDate
<1>11. Unsaved' /\ LinkFiles' /\ Built' /\ WalkTimes' /\ Answers'
  BY <1>1, <1>2, <1>3, <1>4
  DEF UpToDate, Stays, Larger, TypeOK, editors, Unsaved, LinkFiles, Built,
      WalkTimes, Answers, MadeIsFresh, YesIsFresh
<1>12. EditorTimes'
  BY <1>1, <1>2, <1>3, <1>4
  DEF UpToDate, Stays, Larger, TypeOK, editors, EditorTimes, Unsaved
<1>13. Times'
  BY <1>1, <1>2, <1>3, <1>4 DEF UpToDate, Stays, Larger, TypeOK, editors, Times
<1>14. CacheTimes'
  <2> HIDE FileFacts DEF CarefulInv
  <2>1. Building' = {}
    BY DEF UpToDate, Building
  <2>2. open' = open /\ mtime' = mtime
    BY DEF UpToDate, Stays, editors
  <2>3. \A f \in open : f \in Files
    BY DEF TypeOK, Files
  <2>4. \A f \in open' : cache'[f] = Uncached
    <3> TAKE f \in open'
    <3>1. f \in Files /\ f \in open
      BY <2>2, <2>3
    <3> QED BY <1>4, <3>1
  <2>5. \A f \in Files : cache'[f] = Uncached \/ cache'[f] = mtime'[f]
    BY <1>4, <2>2
  <2> QED BY <2>4, <2>5 DEF CacheTimes
<1>15. ObjectTimes' /\ TargetTimes'
  BY <1>1, <1>2, <1>3, <1>4
  DEF UpToDate, Stays, Larger, TypeOK, editors, ObjectTimes, TargetTimes
<1> QED BY <1>11, <1>12, <1>13, <1>14, <1>15

LEMMA OutOfDateKeeps ==
  ASSUME TypeOK, CarefulInv, Careful, NEW s \in Items, OutOfDate(s)
  PROVE  CarefulInv'
<1> USE FileFacts DEF CarefulInv
<1>1. Building = {} /\ changed = {} /\ pc # "shell"
  BY DEF OutOfDate, Building, Unsaved
<1>2. \A f \in Files : /\ cache'[f] = Uncached \/ cache'[f] = mtime[f]
                       /\ f \in open => cache'[f] = Uncached
  BY <1>1, LookedIsTrue DEF OutOfDate
<1>11. Unsaved' /\ LinkFiles' /\ Built' /\ WalkTimes' /\ Answers'
  <2>1. /\ pc = "walk" /\ pc' = "compiling" /\ item' = s /\ todo' = todo \ {s}
        /\ already_maked' = FALSE /\ fresh' = fresh \ {Object[s]}
        /\ mtime' = [mtime EXCEPT ![Object[s]] = 0]
        /\ UNCHANGED <<changed, hasmodified, newest, target, doing, answer>>
    BY DEF OutOfDate, CompileDep, Stays, editors
  <2>2. Unsaved' /\ LinkFiles' /\ Built' /\ Answers'
    BY <2>1 DEF Unsaved, LinkFiles, Built, Answers, MadeIsFresh, YesIsFresh
  <2>3. \A t \in Items \ {s} : /\ Object[t] # Object[s]
                               /\ mtime'[Object[t]] = mtime[Object[t]]
    BY <2>1, Project DEF TypeOK
  <2>4. item = NoItem /\ mtime'[Target] = mtime[Target]
    BY <2>1 DEF TypeOK
  <2>5. WalkTimes'
    BY <2>1, <2>3, <2>4 DEF WalkTimes
  <2> QED BY <2>2, <2>5
<1>12. EditorTimes'
  BY <1>1, <1>2 DEF OutOfDate, CompileDep, Stays, TypeOK, editors, EditorTimes, Unsaved
<1>13. Times'
  BY <1>1, <1>2 DEF OutOfDate, CompileDep, Stays, TypeOK, editors, Times
<1>14. CacheTimes'
  <2> HIDE FileFacts DEF CarefulInv
  <2>1. Building' = {Object[s]}
    BY DEF OutOfDate, Building
  <2>2. open' = open /\ mtime' = [mtime EXCEPT ![Object[s]] = 0]
    BY DEF OutOfDate, CompileDep, Stays, editors
  <2>3. \A f \in Files \ {Object[s]} : mtime'[f] = mtime[f]
    BY <2>2, FileFacts DEF TypeOK
  <2>4. \A f \in open : f \in Files
    BY DEF TypeOK, Files
  <2>5. \A f \in open' : cache'[f] = Uncached
    BY <1>2, <2>2, <2>4
  <2>6. \A f \in Files \ {Object[s]} : cache'[f] = Uncached \/ cache'[f] = mtime'[f]
    BY <1>2, <2>3
  <2> QED BY <2>1, <2>5, <2>6 DEF CacheTimes
<1>15. ObjectTimes' /\ TargetTimes'
  BY <1>1, <1>2
  DEF OutOfDate, CompileDep, Stays, TypeOK, editors, ObjectTimes, TargetTimes
<1> QED BY <1>11, <1>12, <1>13, <1>14, <1>15

LEMMA CompileOneKeeps ==
  ASSUME TypeOK, CarefulInv, Careful, CompileOne
  PROVE  CarefulInv'
<1> USE FileFacts DEF CarefulInv
<1>11. Unsaved' /\ LinkFiles' /\ Built' /\ WalkTimes' /\ Answers'
  <2>1. item \in Items /\ Object[item] # Target
    BY DEF CompileOne, TypeOK
  <2>2. /\ pc = "compile" /\ pc' = "compiling" /\ already_maked' = FALSE
        /\ item' = item /\ fresh' = fresh \ {Object[item]}
        /\ UNCHANGED <<changed, hasmodified, doing, answer>>
    BY DEF CompileOne, CompileDep, Stays, editors, walk
  <2>3. doing = "once"
    BY <2>2 DEF WalkTimes
  <2> QED BY <2>2, <2>3
  DEF Unsaved, LinkFiles, Built, WalkTimes, Answers, MadeIsFresh, YesIsFresh
<1>12. EditorTimes'
  BY DEF CompileOne, CompileDep, Stays, TypeOK, editors, walk, EditorTimes, Unsaved
<1>13. Times'
  BY DEF CompileOne, CompileDep, Stays, TypeOK, editors, walk, Times
<1>14. CacheTimes'
  BY DEF CompileOne, CompileDep, Stays, TypeOK, editors, walk, CacheTimes, Building
<1>15. ObjectTimes' /\ TargetTimes'
  BY DEF CompileOne, CompileDep, Stays, TypeOK, editors, walk, ObjectTimes, TargetTimes
<1> QED BY <1>11, <1>12, <1>13, <1>14, <1>15

LEMMA LinkOrNotKeeps ==
  ASSUME TypeOK, CarefulInv, Careful, LinkOrNot
  PROVE  CarefulInv'
<1> USE FileFacts DEF CarefulInv
<1>1. pc = "walk" /\ todo = {} =>
        /\ item = NoItem
        /\ \A s \in Items : Object[s] \in fresh /\ mtime[Object[s]] <= newest
  BY DEF TypeOK, WalkTimes
<1>2. pc = "walk" /\ todo = {} => Objects \subseteq fresh
  BY <1>1 DEF Objects
<1>3. pc = "walk" /\ todo = {} /\ newest <= target => Target \in fresh
  <2> SUFFICES ASSUME pc = "walk", todo = {}, newest <= target, Target \notin fresh
               PROVE  FALSE
    OBVIOUS
  <2>1. target = mtime[Target]
    BY DEF WalkTimes
  <2>2. CASE mtime[Target] = 0
    <3>1. PICK s \in Items : mtime[Object[s]] <= 0
      BY <1>1, <2>1, <2>2, Project DEF TypeOK
    <3> QED BY <1>1, <3>1 DEF ObjectTimes, TypeOK
  <2>3. ASSUME mtime[Target] # 0
        PROVE  \E s \in Items : mtime[Object[s]] > mtime[Target]
    BY <1>1, <2>3 DEF TargetTimes
  <2>4. \A s \in Items : /\ mtime[Object[s]] <= newest /\ newest \in Nat
                         /\ mtime[Object[s]] \in Nat /\ mtime[Target] \in Nat
    BY <1>1 DEF TypeOK
  <2> QED BY <2>1, <2>2, <2>3, <2>4
<1>11. Unsaved' /\ LinkFiles' /\ Built' /\ WalkTimes' /\ Answers'
  <2>1. UNCHANGED <<changed, hasmodified>>
    BY DEF LinkOrNot, editors
  <2>2. CASE pc' = "linking"
    <3>1. /\ pc \in {"walk", "link"} /\ (pc = "walk" => todo = {}) /\ ~already_maked'
          /\ fresh' = fresh \ {Target} /\ UNCHANGED answer
      BY <2>2 DEF LinkOrNot, CompileDep, MakeEnds
    <3>2. Objects \subseteq fresh'
      BY <1>2, <3>1, Project DEF LinkFiles
    <3> QED BY <2>1, <2>2, <3>1, <3>2
            DEF Unsaved, LinkFiles, Built, WalkTimes, Answers, MadeIsFresh, YesIsFresh
  <2>3. CASE pc' # "linking"
    <3>1. pc = "walk" /\ todo = {} /\ newest <= target /\ MakeEnds(TRUE) /\ UNCHANGED fresh
      BY <2>3 DEF LinkOrNot
    <3> QED BY <1>3, <2>1, <3>1
           
            DEF MakeEnds, Unsaved, LinkFiles, Built, WalkTimes, Answers,
                MadeIsFresh, YesIsFresh
  <2> QED BY <2>2, <2>3
<1>12. EditorTimes'
  BY DEF LinkOrNot, CompileDep, MakeEnds, TypeOK, editors, walk, EditorTimes, Unsaved
<1>13. Times'
  BY DEF LinkOrNot, CompileDep, MakeEnds, TypeOK, editors, walk, Times
<1>14. CacheTimes'
  BY DEF LinkOrNot, CompileDep, MakeEnds, TypeOK, editors, walk, CacheTimes, Building
<1>15. ObjectTimes' /\ TargetTimes'
  <2>1. UNCHANGED <<now, deps>>
    BY DEF LinkOrNot
  <2>2. \/ UNCHANGED <<mtime, fresh>>
        \/ mtime' = [mtime EXCEPT ![Target] = 0] /\ fresh' = fresh \ {Target}
    BY DEF LinkOrNot, CompileDep
  <2>3. ObjectTimes'
    <3>1. \A f \in Sources \cup Objects : mtime'[f] = mtime[f]
      BY <2>2, Project DEF TypeOK, Derived, Files
    <3>2. \A s \in Items : deps[s] \subseteq Sources
      BY DEF TypeOK
    <3>3. \A s \in Items : Object[s] \in fresh' <=> Object[s] \in fresh
      BY <2>2
    <3> QED BY <2>1, <3>1, <3>2, <3>3 DEF ObjectTimes
  <2>4. TargetTimes'
    BY <2>1, <2>2 DEF TargetTimes, Times, TypeOK
  <2> QED BY <2>3, <2>4
<1> QED BY <1>11, <1>12, <1>13, <1>14, <1>15

LEMMA CompilerEndsKeeps ==
  ASSUME TypeOK, CarefulInv, Careful, NEW how \in {"ok", "fails", "mute"}, CompilerEnds(how)
  PROVE  CarefulInv'
<1> USE FileFacts DEF CarefulInv
<1>1. item \in Items /\ pc = "compiling"
  BY DEF CompilerEnds, TypeOK
<1>2. /\ mtime' = [mtime EXCEPT ![Object[item]] = IF how = "ok" THEN now ELSE 0]
      /\ how # "mute" /\ UNCHANGED <<now, changed>>
  BY DEF CompilerEnds, Ran, Careful, editors
<1>11. Unsaved' /\ LinkFiles' /\ Built' /\ WalkTimes' /\ Answers'
  BY DEF CompilerEnds, Ran, Fails, MakeEnds, Larger, Careful, TypeOK, editors,
         Unsaved, LinkFiles, Built, WalkTimes, Answers, MadeIsFresh, YesIsFresh
<1>12. EditorTimes'
  BY DEF CompilerEnds, Ran, Fails, MakeEnds, Larger, Careful, TypeOK, editors,
         EditorTimes, Unsaved
<1>13. Times'
  BY DEF CompilerEnds, Ran, Fails, MakeEnds, Larger, Careful, TypeOK, editors, Times
<1>14. CacheTimes'
  BY DEF CompilerEnds, Ran, Fails, MakeEnds, Larger, Careful, TypeOK, editors,
         CacheTimes, Building
<1>15. ObjectTimes' /\ TargetTimes'
  <2>1. /\ \A f \in Files \ {Object[item]} : mtime'[f] = mtime[f]
        /\ mtime'[Object[item]] = IF how = "ok" THEN now ELSE 0
    BY <1>1, <1>2 DEF TypeOK
  <2>2. /\ \A s \in Items \ {item} : Object[s] # Object[item] /\ deps'[s] = deps[s]
        /\ how = "ok" => deps'[item] = Includes[item]
        /\ fresh' = (IF how = "ok" THEN fresh \cup {Object[item]} ELSE fresh)
    BY <1>1, Project DEF CompilerEnds, TypeOK
  <2>3. \A s \in Items \ {item} :
          /\ mtime'[s] = mtime[s] /\ mtime'[Object[s]] = mtime[Object[s]]
          /\ \A f \in deps[s] : mtime'[f] = mtime[f]
    BY <1>1, <2>1, <2>2, Project DEF TypeOK, Files
  <2>4. how # "ok" => Object[item] \notin fresh
    BY <1>1 DEF Built
  <2>5. ObjectTimes'
    BY <1>1, <2>1, <2>2, <2>3, <2>4 DEF ObjectTimes, Times, TypeOK
  <2>6. mtime'[Target] = mtime[Target] /\ Target \in fresh' <=> Target \in fresh
    BY <1>1, <2>1, <2>2
  <2>7. TargetTimes'
    <3>1. CASE how = "ok"
      BY <1>1, <1>2, <2>1, <2>2, <2>3, <2>6, <3>1 DEF TargetTimes, TypeOK
    <3>2. CASE how # "ok"
      BY <1>1, <1>2, <2>1, <2>2, <2>3, <2>4, <2>6, <3>2 DEF TargetTimes, TypeOK
    <3> QED BY <3>1, <3>2
  <2> QED BY <2>5, <2>7
<1> QED BY <1>11, <1>12, <1>13, <1>14, <1>15

LEMMA LinkerEndsKeeps ==
  ASSUME TypeOK, CarefulInv, Careful, NEW how \in {"ok", "fails", "mute"}, LinkerEnds(how)
  PROVE  CarefulInv'
<1> USE FileFacts DEF CarefulInv
<1>11. Unsaved' /\ LinkFiles' /\ Built' /\ WalkTimes' /\ Answers'
  BY DEF LinkerEnds, Ran, Fails, MakeEnds, Careful, TypeOK, editors, walk, Unsaved,
         LinkFiles, Built, WalkTimes, Answers, MadeIsFresh, YesIsFresh
<1>12. EditorTimes'
  BY DEF LinkerEnds, Ran, Fails, MakeEnds, Careful, TypeOK, editors, walk,
         EditorTimes, Unsaved
<1>13. Times'
  BY DEF LinkerEnds, Ran, Fails, MakeEnds, Careful, TypeOK, editors, walk, Times
<1>14. CacheTimes'
  BY DEF LinkerEnds, Ran, Fails, MakeEnds, Careful, TypeOK, editors, walk,
         CacheTimes, Building
<1>15. ObjectTimes' /\ TargetTimes'
  <2>1. /\ \A f \in Files \ {Target} : mtime'[f] = mtime[f]
        /\ mtime'[Target] \in {0, now} /\ (how # "ok" => mtime'[Target] = 0)
        /\ UNCHANGED <<now, deps>>
    BY DEF LinkerEnds, Ran, TypeOK
  <2>2. /\ Objects \subseteq fresh
        /\ fresh' = (IF how = "ok" THEN fresh \cup {Target} ELSE fresh)
    BY DEF LinkerEnds, LinkFiles
  <2>3. \A s \in Items : /\ mtime'[s] = mtime[s] /\ mtime'[Object[s]] = mtime[Object[s]]
                         /\ \A f \in deps[s] : mtime'[f] = mtime[f]
    BY <2>1, Project DEF TypeOK, Files
  <2>4. ObjectTimes'
    BY <2>1, <2>2, <2>3 DEF ObjectTimes
  <2>5. TargetTimes'
    BY <2>1, <2>2 DEF TargetTimes, Times
  <2> QED BY <2>4, <2>5
<1> QED BY <1>11, <1>12, <1>13, <1>14, <1>15

----------------------------------------------------------------------------
(* The theorems *)

LEMMA CarefulStep == Careful /\ TypeOK /\ CarefulInv /\ [Next]_vars => CarefulInv'
<1> SUFFICES ASSUME Careful, TypeOK, CarefulInv, [Next]_vars PROVE CarefulInv'
  OBVIOUS
<1>1. CASE UNCHANGED vars
  <2>1. Unsaved' /\ EditorTimes' /\ Times' /\ CacheTimes'
    BY <1>1 DEF CarefulInv, Unsaved, EditorTimes, Times, CacheTimes, Building,
                vars, editors, walk
  <2>2. ObjectTimes' /\ TargetTimes' /\ LinkFiles' /\ Built'
    BY <1>1 DEF CarefulInv, ObjectTimes, TargetTimes, LinkFiles, Built, vars, walk
  <2>3. WalkTimes' /\ Answers'
    BY <1>1 DEF CarefulInv, WalkTimes, Answers, MadeIsFresh, YesIsFresh, vars,
                editors, walk
  <2> QED BY <2>1, <2>2, <2>3 DEF CarefulInv
<1>2. ASSUME MakeClear \/ ClearDependencies PROVE FALSE
  BY <1>2 DEF MakeClear, ClearDependencies, Careful
<1> QED
  BY <1>1, <1>2, TickKeeps, OpenKeeps, EditKeeps, SaveKeeps, CloseKeeps,
     SaveFilesKeeps, ShellKeeps, SuspendKeeps, OutsideKeeps, ReturnsKeeps, BuildKeeps, MakeKeeps,
     CompileKeeps, UpToDateKeeps, OutOfDateKeeps, CompileOneKeeps,
     LinkOrNotKeeps, CompilerEndsKeeps, LinkerEndsKeeps
  DEF Next

LEMMA CarefulAlways == ASSUME Careful PROVE Spec => [](TypeOK /\ CarefulInv)
<1>1. Init => CarefulInv
  BY CarefulInit
<1>2. TypeOK /\ CarefulInv /\ [Next]_vars => CarefulInv'
  BY CarefulStep
<1> QED BY <1>1, <1>2, TypeCorrect, PTL DEF Spec

\* A make that returns True in a careful use leaves a target built from what
\* the sources hold (Make, time_of_dep).
THEOREM MakeTellsTheTruth == ASSUME Careful PROVE Spec => []YesIsFresh
<1>1. CarefulInv => YesIsFresh
  BY DEF CarefulInv, Answers
<1>2. Spec => []CarefulInv
  BY CarefulAlways, PTL
<1> QED BY <1>1, <1>2, PTL

\* The flags by which Make and Run skip everything (already_maked,
\* hasmodified) are right.
THEOREM SkippingIsSafe == ASSUME Careful PROVE Spec => []MadeIsFresh
<1>1. CarefulInv => MadeIsFresh
  BY DEF CarefulInv, Answers
<1>2. Spec => []CarefulInv
  BY CarefulAlways, PTL
<1> QED BY <1>1, <1>2, PTL

\* The time cache never answers wrongly for a file that is not being rebuilt
\* and never for one that is open (TimeOfFile, cmWindowOpened, RunCompiler).
THEOREM CacheAgreesWithDisk == ASSUME Careful PROVE Spec => []CacheIsTrue
<1>1. CarefulInv => CacheIsTrue
  BY DEF CarefulInv, CacheTimes, CacheIsTrue
<1>2. Spec => []CarefulInv
  BY CarefulAlways, PTL
<1> QED BY <1>1, <1>2, PTL

\* What is out of date is never hidden from the next make by a failed
\* compilation, an unsaved editor, a reload or a cached time.
THEOREM NextMakeSeesIt == ASSUME Careful PROVE Spec => []StaleIsSeen
<1>1. TypeOK /\ CarefulInv => StaleIsSeen
  <2> SUFFICES ASSUME TypeOK, CarefulInv, pc = "idle", changed = {}
               PROVE  /\ \A s \in Items : Object[s] \notin fresh => Needs(s)
                      /\ Target \notin fresh =>
                           \E s \in Items : Needs(s) \/ Seen(Object[s]) > Seen(Target)
    BY DEF StaleIsSeen
  <2>1. Building = {}
    BY DEF Building
  <2>2. \A s \in Items : Object[s] \notin fresh => Needs(s)
    BY <2>1, NeedsIsTrue DEF CarefulInv
  <2>3. \A f \in Files : Seen(f) = mtime[f]
    BY <2>1, SeenIsTrue DEF CarefulInv
  <2>4. ASSUME Target \notin fresh, \A s \in Items : ~Needs(s)
        PROVE  \E s \in Items : Seen(Object[s]) > Seen(Target)
    <3>1. CASE mtime[Target] = 0
      <4>1. \A s \in Items : mtime[Object[s]] # 0 /\ mtime[Object[s]] \in Nat
        BY <2>2, <2>4, FileFacts DEF CarefulInv, ObjectTimes, TypeOK
      <4> QED BY <2>3, <3>1, <4>1, Project, FileFacts
    <3>2. CASE mtime[Target] # 0
      BY <2>2, <2>3, <2>4, <3>2, FileFacts DEF CarefulInv, TargetTimes
    <3> QED BY <3>1, <3>2
  <2> QED BY <2>2, <2>4
<1>2. Spec => [](TypeOK /\ CarefulInv)
  BY CarefulAlways, PTL
<1> QED BY <1>1, <1>2, PTL

\* With every surprise: a text that is not saved is never forgotten, and a
\* make that failed is tried again (hasmodified, already_maked).
THEOREM ForgetsNothing == Spec => [](UnsavedIsRemembered /\ FailureLooksAgain)
<1> DEFINE Settled == answer # "none" => pc = "idle"
           Forgets == UnsavedIsRemembered /\ FailureLooksAgain /\ Settled
<1>1. Init => Forgets
  BY DEF Init, UnsavedIsRemembered, FailureLooksAgain
<1>2. TypeOK /\ Forgets /\ [Next]_vars => Forgets'
  <2> SUFFICES ASSUME TypeOK, UnsavedIsRemembered, FailureLooksAgain, Settled,
                      [Next]_vars
               PROVE  Forgets'
    OBVIOUS
  <2> USE DEF UnsavedIsRemembered, FailureLooksAgain, NeedMake
  <2>1. ASSUME NEW kept \in SUBSET changed, SaveAll(kept)
        PROVE  /\ UnsavedIsRemembered'
               /\ Refuses(kept) => hasmodified'
    BY <2>1 DEF SaveAll, Refuses, editors
  <2>2. CASE UNCHANGED vars
    BY <2>2 DEF vars, editors
  <2>3. ASSUME NEW kept \in SUBSET changed, Make(kept) PROVE Forgets'
    BY <2>1, <2>3 DEF Make, editors
  <2>4. ASSUME NEW kept \in SUBSET changed, Compile(kept) PROVE Forgets'
    BY <2>1, <2>4 DEF Compile, Idle
  <2>5. CASE Shell \/ \E kept \in SUBSET changed : SaveFiles(kept)
    BY <2>1, <2>5 DEF Shell, SaveFiles, Idle
  <2>6. CASE Tick \/ Suspend \/ MakeClear \/ ClearDependencies \/ Build
    BY <2>6 DEF Tick, Suspend, MakeClear, ClearDependencies, Build, Idle, editors
  <2>7. ASSUME NEW f \in Sources, Open(f) \/ Edit(f) \/ Save(f) PROVE Forgets'
    BY <2>7 DEF Open, Edit, Save, Idle, TypeOK
  <2>8. ASSUME NEW f \in Sources, NEW save \in BOOLEAN, Close(f, save) PROVE Forgets'
    BY <2>8 DEF Close, Idle
  <2>9. ASSUME NEW f \in Files, Outside(f) PROVE Forgets'
    BY <2>9 DEF Outside, editors
  <2>10. ASSUME NEW reloaded \in SUBSET Sources, Returns(reloaded) PROVE Forgets'
    BY <2>10 DEF Returns
  <2>11. ASSUME NEW s \in Items, UpToDate(s) \/ OutOfDate(s) PROVE Forgets'
    BY <2>11 DEF UpToDate, OutOfDate, CompileDep, Stays, editors
  <2>12. CASE CompileOne \/ LinkOrNot
    BY <2>12 DEF CompileOne, LinkOrNot, CompileDep, MakeEnds, Stays, editors
  <2>13. ASSUME NEW how \in {"ok", "fails", "mute"}, CompilerEnds(how) PROVE Forgets'
    <3>1. UNCHANGED <<changed, hasmodified>> /\ answer = "none"
      BY <2>13 DEF CompilerEnds, editors
    <3>2. FailureLooksAgain' /\ Settled'
      BY <2>13, <3>1 DEF CompilerEnds, Fails, MakeEnds
    <3> QED BY <3>1, <3>2
  <2>14. ASSUME NEW how \in {"ok", "fails", "mute"}, LinkerEnds(how) PROVE Forgets'
    <3>1. UNCHANGED <<changed, hasmodified>> /\ answer = "none"
      BY <2>14 DEF LinkerEnds, editors
    <3>2. FailureLooksAgain' /\ Settled'
      BY <2>14, <3>1 DEF LinkerEnds, Fails, MakeEnds
    <3> QED BY <3>1, <3>2
  <2> QED BY <2>2, <2>3, <2>4, <2>5, <2>6, <2>7, <2>8, <2>9, <2>10, <2>11, <2>12, <2>13, <2>14
          DEF Next
<1> QED BY <1>1, <1>2, TypeCorrect, PTL DEF Spec

\* The same as the runs state it (SaveAll, Make: hasmodified, already_maked).
THEOREM NothingIsForgotten == Spec => []NothingForgotten
BY ForgetsNothing, PTL DEF NothingForgotten

----------------------------------------------------------------------------
(* Only what is stale is compiled, whatever the user does *)

\* no file is from the future, and an editor that is saved is not younger
\* than its file; a declined reload leaves it older
NotFuture ==
  /\ \A f \in Files : mtime[f] <= now
  /\ \A f \in open : /\ edittime[f] <= now
                     /\ f \notin changed => edittime[f] <= mtime[f]

\* the time table knows no source that is open or has changed on the disk
SourceCached ==
  pc # "shell" => \A f \in Sources :
    cache[f] # Uncached => cache[f] = mtime[f] /\ f \notin open

\* an object that is fresh is not older than what it is made from
FreshIsNewest == \A s \in Items : Object[s] \in fresh =>
  /\ cache[Object[s]] \in {Uncached, mtime[Object[s]]}
  /\ \A f \in {s} \cup Includes[s] : mtime[f] <= mtime[Object[s]]

DepsFound == \A s \in Items : deps[s] \subseteq Includes[s]

StaleInv == Unsaved /\ NotFuture /\ SourceCached /\ FreshIsNewest /\ DepsFound

\* A step that does not touch a fresh object, nor what it is made from,
\* leaves it the newest.
LEMMA NewestStays ==
  ASSUME TypeOK, FreshIsNewest,
         \A s \in Items : Object[s] \in fresh' =>
           /\ Object[s] \in fresh /\ mtime'[Object[s]] = mtime[Object[s]]
           /\ cache'[Object[s]] \in {Uncached, cache[Object[s]], mtime[Object[s]]}
           /\ \A f \in {s} \cup Includes[s] : mtime'[f] = mtime[f]
  PROVE  FreshIsNewest'
BY DEF FreshIsNewest

\* what does not touch the disk, and keeps or clears the time table
LEMMA NewestFrame ==
  ASSUME TypeOK, FreshIsNewest, mtime' = mtime, fresh' \subseteq fresh,
         \/ \A f \in Files \ {Target} : cache'[f] = cache[f]
         \/ \A f \in Files : cache'[f] = Uncached
         \/ \E fs : cache' = Looked(fs)
  PROVE  FreshIsNewest'
<1> SUFFICES ASSUME NEW s \in Items, Object[s] \in fresh'
             PROVE  cache'[Object[s]] \in {Uncached, cache[Object[s]], mtime[Object[s]]}
  BY NewestStays
<1>1. Object[s] \in Files /\ Object[s] \notin open /\ Object[s] # Target
  BY FileFacts DEF TypeOK
<1>2. ASSUME NEW fs, cache' = Looked(fs)
      PROVE  cache'[Object[s]] \in {Uncached, cache[Object[s]], mtime[Object[s]]}
  BY <1>1, <1>2 DEF Looked, Seen
<1> QED BY <1>1, <1>2

\* saving: what is made from a saved text is not fresh any more
LEMMA WrittenNewest ==
  ASSUME TypeOK, StaleInv, NEW fs \in SUBSET changed, Written(fs)
  PROVE  /\ \A f \in Files \ fs : mtime'[f] = mtime[f]
         /\ \A f \in fs : f \in Sources /\ f \in Files /\ f \in open /\ mtime'[f] = edittime[f]
         /\ \A f \in Files : mtime'[f] <= now
         /\ (\A f \in Files \ {Target} : cache'[f] = cache[f]) => FreshIsNewest'
<1> USE FileFacts
<1>1. fs \subseteq Sources /\ fs \cap Derived = {} /\ fs \subseteq open
  BY Project DEF TypeOK
<1>2. /\ \A f \in Files \ fs : mtime'[f] = mtime[f]
      /\ \A f \in fs : f \in Sources /\ f \in Files /\ f \in open /\ mtime'[f] = edittime[f]
  BY <1>1 DEF Written
<1>3. \A f \in Files : mtime'[f] <= now
  BY <1>2 DEF StaleInv, NotFuture
<1>4. ASSUME \A f \in Files \ {Target} : cache'[f] = cache[f] PROVE FreshIsNewest'
  <2> SUFFICES ASSUME NEW s \in Items, Object[s] \in fresh'
               PROVE  /\ Object[s] \in fresh /\ mtime'[Object[s]] = mtime[Object[s]]
                      /\ \A f \in {s} \cup Includes[s] : mtime'[f] = mtime[f]
    BY <1>4, NewestStays DEF StaleInv
  <2>1. Object[s] \in fresh /\ Object[s] \notin Outdated(fs)
    BY DEF Written
  <2>2. ({s} \cup Includes[s]) \cap fs = {}
    <3>1. ASSUME ({s} \cup Includes[s]) \cap fs # {} PROVE FALSE
      <4>1. Object[s] \in {Object[u] : u \in {t \in Items : ({t} \cup Includes[t]) \cap fs # {}}}
        BY <3>1
      <4> QED BY <4>1, <2>1 DEF Outdated
    <3> QED BY <3>1
  <2>3. Object[s] \in Files \ fs /\ \A f \in {s} \cup Includes[s] : f \in Files \ fs
    BY <1>1, <2>2
  <2> QED BY <1>2, <2>1, <2>3
<1> QED BY <1>2, <1>3, <1>4

\* every command that saves first
LEMMA SaveAllNewest ==
  ASSUME TypeOK, StaleInv, NEW kept \in SUBSET changed, SaveAll(kept),
         now' = now, \A f \in Files \ {Target} : cache'[f] = cache[f]
  PROVE  NotFuture' /\ FreshIsNewest' /\ (pc # "shell" => SourceCached')
<1> USE FileFacts
<1>1. CASE hasmodified
  <2>1. /\ Written(changed \ kept) /\ changed' = kept
        /\ UNCHANGED <<open, edittime>>
    BY <1>1 DEF SaveAll
  <2>2. /\ \A f \in Files \ (changed \ kept) : mtime'[f] = mtime[f]
        /\ \A f \in changed \ kept : f \in Sources /\ f \in Files /\ f \in open /\ mtime'[f] = edittime[f]
        /\ \A f \in Files : mtime'[f] <= now
        /\ FreshIsNewest'
    BY <2>1, WrittenNewest
  <2>3. NotFuture'
    <3>1. ASSUME NEW f \in open, f \notin kept PROVE edittime[f] <= mtime'[f]
      <4>1. edittime[f] \in Nat /\ f \in Files
        BY DEF TypeOK
      <4>2. CASE f \in changed
        BY <2>2, <3>1, <4>1, <4>2
      <4>3. CASE f \notin changed
        BY <2>2, <3>1, <4>1, <4>3 DEF StaleInv, NotFuture
      <4> QED BY <4>2, <4>3
    <3> QED BY <2>1, <2>2, <3>1 DEF StaleInv, NotFuture
  <2>4. ASSUME pc # "shell" PROVE SourceCached'
    <3> SUFFICES ASSUME NEW f \in Sources, cache[f] # Uncached
                 PROVE  cache[f] = mtime'[f] /\ f \notin open
      BY <2>1 DEF SourceCached
    <3>1. cache[f] = mtime[f] /\ f \notin open
      BY <2>4 DEF StaleInv, SourceCached
    <3> QED BY <2>2, <3>1 DEF TypeOK
  <2> QED BY <2>2, <2>3, <2>4
<1>2. CASE ~hasmodified
  <2>1. UNCHANGED <<mtime, fresh, open, changed, edittime>>
    BY <1>2 DEF SaveAll, editors
  <2>2. FreshIsNewest'
    BY <2>1, NewestFrame DEF StaleInv
  <2> QED BY <2>1, <2>2 DEF StaleInv, NotFuture, SourceCached
<1> QED BY <1>1, <1>2 DEF TypeOK

\* what the table answers is what it held or the time on the disk
LEMMA LookedSource ==
  ASSUME TypeOK, SourceCached, pc # "shell", NEW fs
  PROVE  \A f \in Sources : Looked(fs)[f] # Uncached =>
                              Looked(fs)[f] = mtime[f] /\ f \notin open
BY FileFacts DEF SourceCached, Looked, Seen

\* a fresh object needs no compilation
LEMMA FreshNeedsNothing ==
  ASSUME TypeOK, StaleInv, pc = "walk", NEW s \in Items, Object[s] \in fresh
  PROVE  ~Needs(s)
<1> USE FileFacts
<1>1. changed = {}
  BY DEF StaleInv, Unsaved
<1>2. ASSUME NEW f \in {s} \cup Includes[s] PROVE Seen(f) \in Nat /\ Seen(f) <= mtime[f]
  <2>1. f \in Sources /\ f \in Files /\ mtime[f] \in Nat /\ Seen(f) \in Nat
    BY SeenType DEF TypeOK
  <2> QED BY <2>1, <1>1 DEF Seen, StaleInv, NotFuture, SourceCached
<1>3. Seen(Object[s]) = mtime[Object[s]]
  BY DEF Seen, StaleInv, FreshIsNewest, TypeOK
<1>4. ASSUME NEW f \in {s} \cup Includes[s] PROVE ~(Seen(f) > Seen(Object[s]))
  <2>1. mtime[f] \in Nat /\ mtime[Object[s]] \in Nat /\ mtime[f] <= mtime[Object[s]]
    BY DEF TypeOK, StaleInv, FreshIsNewest
  <2> QED BY <1>2, <1>3, <2>1
<1>5. deps[s] \subseteq Includes[s]
  BY DEF StaleInv, DepsFound
<1> QED BY <1>4, <1>5 DEF Needs, HeaderNewer

\* It holds at the start.
LEMMA StaleInit == Init => StaleInv
<1> SUFFICES ASSUME Init PROVE StaleInv
  OBVIOUS
<1>1. Unsaved /\ DepsFound
  BY DEF Init, Unsaved, DepsFound
<1>2. NotFuture
  BY DEF Init, NotFuture
<1>3. SourceCached /\ FreshIsNewest
  BY FileFacts DEF Init, SourceCached, FreshIsNewest, Files
<1> QED BY <1>1, <1>2, <1>3 DEF StaleInv

\* Editors: the steps on one file.
LEMMA EditorStale ==
  ASSUME TypeOK, StaleInv, NEW f \in Sources, NEW save \in BOOLEAN,
         Open(f) \/ Edit(f) \/ Save(f) \/ Close(f, save)
  PROVE  StaleInv'
<1> USE FileFacts
<1>0. f \in Files /\ mtime[f] \in Nat
  BY DEF TypeOK
<1>1. CASE Open(f)
  <2>1. Unsaved' /\ DepsFound'
    BY <1>1 DEF Open, Idle, StaleInv, Unsaved, DepsFound
  <2>2. NotFuture'
    BY <1>0, <1>1 DEF Open, StaleInv, NotFuture, TypeOK
  <2>3. SourceCached'
    BY <1>0, <1>1 DEF Open, Idle, StaleInv, SourceCached, TypeOK
  <2>4. FreshIsNewest'
    <3>1. \A s \in Items : cache'[Object[s]] = cache[Object[s]]
      BY <1>1 DEF Open, TypeOK
    <3> QED BY <1>1, <3>1, NewestStays DEF Open, StaleInv
  <2> QED BY <2>1, <2>2, <2>3, <2>4 DEF StaleInv
<1>2. CASE Edit(f)
  <2>1. Unsaved' /\ DepsFound'
    BY <1>2 DEF Edit, Idle, StaleInv, Unsaved, DepsFound
  <2>2. NotFuture'
    <3>1. Round(now) \in Nat /\ Round(now) <= now
      BY DEF TypeOK, Round
    <3> QED BY <1>2, <3>1 DEF Edit, StaleInv, NotFuture, TypeOK
  <2>3. SourceCached'
    BY <1>2 DEF Edit, Idle, StaleInv, SourceCached
  <2>4. FreshIsNewest'
    BY <1>2, NewestFrame DEF Edit, StaleInv
  <2> QED BY <2>1, <2>2, <2>3, <2>4 DEF StaleInv
<1>3. ASSUME NEW fs \in SUBSET {f}, fs \subseteq changed, Written(fs), pc = "idle", pc' = pc,
             UNCHANGED <<now, cache, hasmodified, deps>>,
             \/ fs = {f} /\ changed' = changed \ {f} /\ UNCHANGED <<open, edittime>>
             \/ /\ open' = open \ {f} /\ changed' = changed \ {f}
                /\ edittime' = [edittime EXCEPT ![f] = 0]
      PROVE  StaleInv'
  <2>1. Unsaved' /\ DepsFound'
    BY <1>3 DEF StaleInv, Unsaved, DepsFound
  <2>2. /\ \A g \in Files \ fs : mtime'[g] = mtime[g]
        /\ \A g \in fs : g \in Sources /\ g \in Files /\ g \in open /\ mtime'[g] = edittime[g]
        /\ \A g \in Files : mtime'[g] <= now
        /\ FreshIsNewest'
    BY <1>3, WrittenNewest
  <2>3. NotFuture'
    <3> SUFFICES ASSUME NEW g \in open'
                 PROVE  /\ edittime'[g] <= now
                        /\ g \notin changed' => edittime'[g] <= mtime'[g]
      BY <1>3, <2>2 DEF NotFuture
    <3>1. g \in open /\ g \in Files /\ edittime'[g] = edittime[g] /\ edittime[g] \in Nat
      BY <1>3 DEF TypeOK
    <3>2. edittime[g] <= now /\ (g \notin changed => edittime[g] <= mtime[g])
      BY <3>1 DEF StaleInv, NotFuture
    <3>3. CASE g \in fs
      BY <2>2, <3>1, <3>2, <3>3
    <3>4. CASE g \notin fs
      BY <1>3, <2>2, <3>1, <3>2, <3>4
    <3> QED BY <3>3, <3>4
  <2>4. SourceCached'
    <3> SUFFICES ASSUME NEW g \in Sources, cache[g] # Uncached
                 PROVE  cache[g] = mtime'[g] /\ g \notin open'
      BY <1>3 DEF SourceCached
    <3>1. cache[g] = mtime[g] /\ g \notin open
      BY <1>3 DEF StaleInv, SourceCached
    <3> QED BY <1>3, <2>2, <3>1
  <2> QED BY <2>1, <2>2, <2>3, <2>4 DEF StaleInv
<1>4. CASE Save(f)
  <2>1. Written({f}) /\ {f} \subseteq changed
    BY <1>4 DEF Save
  <2> QED BY <1>3, <1>4, <2>1 DEF Save, Idle
<1>5. CASE Close(f, save)
  <2> DEFINE fs == IF save THEN {f} \cap changed ELSE {}
  <2>1. Written(fs) /\ fs \subseteq changed /\ fs \in SUBSET {f}
    BY <1>5 DEF Close
  <2> QED BY <1>3, <1>5, <2>1 DEF Close, Idle
<1> QED BY <1>1, <1>2, <1>4, <1>5

\* The commands that save before anything else.
LEMMA CommandStale ==
  ASSUME TypeOK, StaleInv, NEW kept \in SUBSET changed,
         Make(kept) \/ Compile(kept) \/ SaveFiles(kept)
  PROVE  StaleInv'
<1> USE FileFacts
<1>0. ASSUME SaveAll(kept)
      PROVE  /\ changed' # {} => hasmodified'
             /\ ~Refuses(kept) => changed' = {}
  BY <1>0 DEF SaveAll, Refuses, StaleInv, Unsaved, editors
<1>1. CASE SaveFiles(kept)
  BY <1>0, <1>1, SaveAllNewest DEF SaveFiles, Idle, StaleInv, Unsaved, DepsFound
<1>2. CASE Compile(kept)
  <2>1. SaveAll(kept) /\ UNCHANGED <<now, cache, deps>> /\ pc = "idle"
    BY <1>2 DEF Compile, Idle
  <2>2. Unsaved'
    BY <1>0, <1>2, <2>1 DEF Compile, Idle, Unsaved
  <2> QED BY <2>1, <2>2, SaveAllNewest DEF StaleInv, DepsFound
<1>3. CASE Make(kept)
  <2>0. pc \in {"idle", "build"} /\ UNCHANGED <<now, deps>>
    BY <1>3 DEF Make
  <2>1. CASE Refuses(kept)
    <3>1. SaveAll(kept) /\ cache' = cache /\ pc' = "idle"
      BY <1>3, <2>1 DEF Make
    <3> QED BY <1>0, <2>0, <3>1, SaveAllNewest DEF StaleInv, Unsaved, DepsFound
  <2>2. CASE ~Refuses(kept) /\ ~NeedMake
    <3>1. UNCHANGED <<mtime, cache, open, changed, edittime, hasmodified, fresh>> /\ pc' = "idle"
      BY <1>3, <2>2 DEF Make, editors
    <3> QED BY <2>0, <3>1, NewestFrame
            DEF StaleInv, Unsaved, DepsFound, NotFuture, SourceCached
  <2>3. CASE ~Refuses(kept) /\ NeedMake
    <3>1. SaveAll(kept) /\ cache' = Looked({Target}) /\ pc' = "walk"
      BY <1>3, <2>3 DEF Make
    <3>2. \A f \in Files \ {Target} : cache'[f] = cache[f]
      BY <3>1 DEF Looked
    <3> QED BY <1>0, <2>0, <2>3, <3>1, <3>2, SaveAllNewest DEF StaleInv, Unsaved, DepsFound
  <2> QED BY <2>1, <2>2, <2>3
<1> QED BY <1>1, <1>2, <1>3

\* Away from the IDE, and back.
LEMMA ShellStale ==
  ASSUME TypeOK, StaleInv,
         \/ Shell \/ Suspend \/ \E f \in Files : Outside(f)
         \/ \E reloaded \in SUBSET Sources : Returns(reloaded)
  PROVE  StaleInv'
<1> USE FileFacts
<1>1. CASE Shell
  <2>1. PICK kept \in SUBSET changed :
          /\ pc = "idle" /\ SaveAll(kept)
          /\ pc' = IF Refuses(kept) THEN "idle" ELSE "shell"
          /\ UNCHANGED <<now, cache, deps>>
    BY <1>1 DEF Shell, Idle
  <2>2. Unsaved' /\ DepsFound'
    BY <2>1 DEF SaveAll, Refuses, StaleInv, Unsaved, DepsFound, editors
  <2> QED BY <2>1, <2>2, SaveAllNewest DEF StaleInv
<1>2. CASE Suspend
  <2>1. UNCHANGED <<mtime, cache, open, changed, edittime, hasmodified, fresh, now, deps>>
        /\ pc' = "shell"
    BY <1>2 DEF Suspend, editors
  <2> QED BY <2>1, NewestFrame
          DEF StaleInv, Unsaved, DepsFound, NotFuture, SourceCached
<1>3. ASSUME NEW f \in Files, Outside(f) PROVE StaleInv'
  <2>1. UNCHANGED <<now, cache, open, changed, edittime, hasmodified, deps, pc>> /\ pc = "shell"
    BY <1>3 DEF Outside, editors
  <2>2. Unsaved' /\ DepsFound' /\ SourceCached'
    BY <2>1 DEF StaleInv, Unsaved, DepsFound, SourceCached
  <2>3. now \in Nat /\ mtime[f] \in Nat
    BY DEF TypeOK
  <2>4. CASE f \in Sources /\ mtime' = [mtime EXCEPT ![f] = now] /\ fresh' = fresh \ Outdated({f})
    <3>1. NotFuture'
      BY <2>1, <2>3, <2>4 DEF StaleInv, NotFuture, TypeOK
    <3>2. FreshIsNewest'
      <4> SUFFICES ASSUME NEW s \in Items, Object[s] \in fresh'
                   PROVE  /\ Object[s] \in fresh /\ mtime'[Object[s]] = mtime[Object[s]]
                          /\ \A g \in {s} \cup Includes[s] : mtime'[g] = mtime[g]
        BY <2>1, NewestStays DEF StaleInv
      <4>1. f \notin {s} \cup Includes[s]
        <5>1. ASSUME f \in {s} \cup Includes[s] PROVE FALSE
          <6>1. Object[s] \in {Object[u] : u \in {t \in Items : ({t} \cup Includes[t]) \cap {f} # {}}}
            BY <5>1
          <6> QED BY <6>1, <2>4 DEF Outdated
        <5> QED BY <5>1
      <4> QED BY <2>4, <4>1 DEF TypeOK
    <3> QED BY <2>2, <3>1, <3>2 DEF StaleInv
  <2>5. CASE f \in Derived /\ mtime' = [mtime EXCEPT ![f] = 0] /\ fresh' = fresh \ {f}
    <3>1. f \notin Sources
      BY <2>5, Project
    <3>2. NotFuture'
      BY <2>1, <2>3, <2>5, <3>1 DEF StaleInv, NotFuture, TypeOK
    <3>3. FreshIsNewest'
      <4> SUFFICES ASSUME NEW s \in Items, Object[s] \in fresh'
                   PROVE  /\ Object[s] \in fresh /\ mtime'[Object[s]] = mtime[Object[s]]
                          /\ \A g \in {s} \cup Includes[s] : mtime'[g] = mtime[g]
        BY <2>1, NewestStays DEF StaleInv
      <4> QED BY <2>5, <3>1 DEF TypeOK
    <3> QED BY <2>2, <3>2, <3>3 DEF StaleInv
  <2> QED BY <1>3, <2>4, <2>5 DEF Outside
<1>4. ASSUME NEW reloaded \in SUBSET Sources, Returns(reloaded) PROVE StaleInv'
  <2>1. /\ UNCHANGED <<now, mtime, open, hasmodified, deps, fresh>> /\ pc' = "idle"
        /\ changed' = changed \ reloaded /\ cache' = [f \in Files |-> Uncached]
        /\ edittime' = [f \in Sources |-> IF f \in reloaded THEN mtime[f] ELSE edittime[f]]
    BY <1>4 DEF Returns
  <2>2. Unsaved' /\ DepsFound' /\ SourceCached'
    BY <2>1 DEF StaleInv, Unsaved, DepsFound, SourceCached
  <2>3. \A f \in Sources : mtime[f] \in Nat /\ mtime[f] <= now
    BY DEF TypeOK, StaleInv, NotFuture
  <2>4. NotFuture'
    BY <2>1, <2>3 DEF StaleInv, NotFuture, TypeOK
  <2> QED BY <2>1, <2>2, <2>4, NewestFrame DEF StaleInv
<1> QED BY <1>1, <1>2, <1>3, <1>4

\* The clock, and the commands that clear.
LEMMA ClearStale ==
  ASSUME TypeOK, StaleInv, Tick \/ MakeClear \/ ClearDependencies \/ Build
  PROVE  StaleInv'
<1> USE FileFacts
<1>1. CASE Tick
  <2>1. UNCHANGED <<mtime, cache, open, changed, edittime, hasmodified, fresh, deps, pc>>
        /\ now' = now + 1 /\ now \in Nat
    BY <1>1 DEF Tick, editors, TypeOK
  <2>2. NotFuture'
    BY <2>1 DEF StaleInv, NotFuture, TypeOK
  <2> QED BY <2>1, <2>2, NewestFrame DEF StaleInv, Unsaved, DepsFound, SourceCached
<1>2. CASE ClearDependencies
  <2>1. UNCHANGED <<now, mtime, open, changed, edittime, hasmodified, fresh, pc>>
        /\ deps' = [s \in Items |-> {}] /\ cache' = [f \in Files |-> Uncached]
    BY <1>2 DEF ClearDependencies, editors
  <2> QED BY <2>1, NewestFrame
          DEF StaleInv, Unsaved, DepsFound, NotFuture, SourceCached
<1>3. CASE MakeClear \/ Build
  <2>1. Cleared /\ UNCHANGED <<now, open, changed, edittime, hasmodified>>
        /\ pc = "idle" /\ pc' \in {"idle", "build"}
    BY <1>3 DEF MakeClear, Build, Idle, editors
  <2>2. \A f \in Files : /\ mtime'[f] \in {0, mtime[f]} /\ cache'[f] = Uncached
                         /\ f \in Sources => mtime'[f] = mtime[f]
    BY <2>1, Project DEF Cleared
  <2>3. NotFuture'
    BY <2>1, <2>2 DEF StaleInv, NotFuture, TypeOK
  <2>4. Unsaved' /\ DepsFound' /\ SourceCached' /\ FreshIsNewest'
    BY <2>1, <2>2 DEF Cleared, StaleInv, Unsaved, DepsFound, SourceCached, FreshIsNewest
  <2> QED BY <2>3, <2>4 DEF StaleInv
<1> QED BY <1>1, <1>2, <1>3

\* Removing a derived file that is not fresh any more.
LEMMA RemovedNewest ==
  ASSUME TypeOK, StaleInv, NEW f \in Derived, CompileDep(f), now' = now,
         UNCHANGED <<open, changed, edittime>>,
         \/ cache' = cache
         \/ \E fs : cache' = Looked(fs)
  PROVE  NotFuture' /\ FreshIsNewest' /\ \A g \in Sources : mtime'[g] = mtime[g]
<1> USE FileFacts
<1>1. f \notin Sources /\ f \in Files
  BY Project
<1>2. \A g \in Files : mtime'[g] = IF g = f THEN 0 ELSE mtime[g]
  BY <1>1 DEF CompileDep, TypeOK
<1>3. NotFuture'
  BY <1>1, <1>2 DEF StaleInv, NotFuture, TypeOK
<1>4. FreshIsNewest'
  <2> SUFFICES ASSUME NEW s \in Items, Object[s] \in fresh'
               PROVE  /\ Object[s] \in fresh /\ mtime'[Object[s]] = mtime[Object[s]]
                      /\ cache'[Object[s]] \in {Uncached, cache[Object[s]], mtime[Object[s]]}
                      /\ \A g \in {s} \cup Includes[s] : mtime'[g] = mtime[g]
    BY NewestStays DEF StaleInv
  <2>1. Object[s] \in fresh /\ Object[s] # f
    BY DEF CompileDep
  <2>2. ASSUME NEW fs, cache' = Looked(fs)
        PROVE  cache'[Object[s]] \in {Uncached, cache[Object[s]], mtime[Object[s]]}
    <3>1. Object[s] \in Files /\ Object[s] \notin open
      BY DEF TypeOK
    <3> QED BY <2>2, <3>1 DEF Looked, Seen
  <2> QED BY <1>1, <1>2, <2>1, <2>2
<1> QED BY <1>1, <1>2, <1>3, <1>4

\* The walk: an item is passed, or its compilation or the link begins.
LEMMA WalkStale ==
  ASSUME TypeOK, StaleInv,
         (\E s \in Items : UpToDate(s) \/ OutOfDate(s)) \/ CompileOne \/ LinkOrNot
  PROVE  StaleInv'
<1> USE FileFacts
<1>1. ASSUME NEW s \in Items, UpToDate(s) PROVE StaleInv'
  <2>1. /\ UNCHANGED <<now, mtime, open, changed, edittime, hasmodified, fresh, deps, pc>>
        /\ pc = "walk" /\ cache' = Looked(Consulted(s))
    BY <1>1 DEF UpToDate, Stays, editors
  <2>2. SourceCached'
    BY <2>1, LookedSource DEF StaleInv, SourceCached
  <2> QED BY <2>1, <2>2, NewestFrame DEF StaleInv, Unsaved, DepsFound, NotFuture
<1>2. ASSUME NEW f \in Derived, CompileDep(f),
             UNCHANGED <<now, open, changed, edittime, hasmodified, deps>>,
             pc \in {"walk", "compile", "link"}, pc' \in {"compiling", "linking"},
             cache' = cache \/ \E fs : cache' = Looked(fs)
      PROVE  StaleInv'
  <2>1. NotFuture' /\ FreshIsNewest' /\ \A g \in Sources : mtime'[g] = mtime[g]
    BY <1>2, RemovedNewest
  <2>2. SourceCached'
    BY <1>2, <2>1, LookedSource DEF StaleInv, SourceCached
  <2> QED BY <1>2, <2>1, <2>2 DEF StaleInv, Unsaved, DepsFound
<1>3. ASSUME NEW s \in Items, OutOfDate(s) PROVE StaleInv'
  BY <1>2, <1>3 DEF OutOfDate, Stays, editors
<1>4. CASE CompileOne
  BY <1>2, <1>4 DEF CompileOne, Stays, editors, TypeOK
<1>5. CASE LinkOrNot
  <2>1. UNCHANGED <<now, cache, open, changed, edittime, hasmodified, deps>>
    BY <1>5 DEF LinkOrNot, editors
  <2>2. CASE pc \in {"walk", "link"} /\ CompileDep(Target) /\ pc' = "linking"
    BY <1>2, <2>1, <2>2
  <2>3. CASE pc = "walk" /\ pc' = "idle" /\ UNCHANGED <<mtime, fresh>>
    BY <2>1, <2>3, NewestFrame
    DEF StaleInv, Unsaved, DepsFound, NotFuture, SourceCached
  <2> QED BY <1>5, <2>2, <2>3 DEF LinkOrNot, MakeEnds
<1> QED BY <1>1, <1>3, <1>4, <1>5

\* The compiler or the linker ends: an object it wrote is the newest file.
LEMMA RanStale ==
  ASSUME TypeOK, StaleInv, Built, NEW how \in {"ok", "fails", "mute"},
         CompilerEnds(how) \/ LinkerEnds(how)
  PROVE  StaleInv'
<1> USE FileFacts
<1> DEFINE f == IF pc = "compiling" THEN Object[item] ELSE Target
<1>1. /\ UNCHANGED <<now, open, changed, edittime, hasmodified>> /\ now \in Nat
      /\ pc \in {"compiling", "linking"} /\ pc' \in {"walk", "idle"}
      /\ f \in Derived /\ f \in Files /\ f \notin Sources
      /\ mtime' = [mtime EXCEPT ![f] = IF how = "ok" THEN now ELSE 0]
      /\ cache' = [cache EXCEPT ![f] = IF how = "fails" THEN 0 ELSE now]
  <2>1. CASE CompilerEnds(how)
    <3>1. item \in Items
      BY <2>1 DEF CompilerEnds, TypeOK
    <3>2. pc' \in {"walk", "idle"}
      BY <2>1 DEF CompilerEnds, Fails, MakeEnds
    <3> QED BY <2>1, <3>1, <3>2, Project DEF CompilerEnds, Ran, editors, TypeOK
  <2>2. CASE LinkerEnds(how)
    <3>1. pc' = "idle"
      BY <2>2 DEF LinkerEnds, Fails, MakeEnds
    <3> QED BY <2>2, <3>1, Project DEF LinkerEnds, Ran, editors, TypeOK
  <2> QED BY <2>1, <2>2
<1>2. Unsaved' /\ changed = {}
  BY <1>1 DEF StaleInv, Unsaved
<1>3. DepsFound'
  <2>1. ASSUME NEW s \in Items PROVE deps'[s] \subseteq Includes[s]
    <3>1. deps[s] \subseteq Includes[s] /\ deps \in [Items -> SUBSET Headers]
      BY DEF StaleInv, DepsFound, TypeOK
    <3>2. CASE CompilerEnds(how)
      <4>1. \E found \in {{}, Includes[item]} : deps' = [deps EXCEPT ![item] = found]
        BY <3>2 DEF CompilerEnds
      <4> QED BY <3>1, <4>1
    <3> QED BY <3>1, <3>2 DEF LinkerEnds
  <2> QED BY <2>1 DEF DepsFound
<1>4. \A g \in Files : /\ g # f => mtime'[g] = mtime[g] /\ cache'[g] = cache[g]
                       /\ mtime[g] \in Nat /\ mtime[g] <= now
                       /\ g = f => mtime'[g] \in {0, now}
  BY <1>1 DEF TypeOK, StaleInv, NotFuture
<1>5. \A g \in Sources : g \in Files /\ g # f
  BY <1>1
<1> HIDE DEF f
<1>6. NotFuture' /\ SourceCached'
  <2>1. \A g \in Files : mtime'[g] <= now
    BY <1>1, <1>4
  <2>2. \A g \in open : g \in Files /\ mtime'[g] = mtime[g]
    BY <1>4, <1>5 DEF TypeOK
  <2>3. SourceCached'
    BY <1>1, <1>4, <1>5 DEF StaleInv, SourceCached
  <2> QED BY <1>1, <2>1, <2>2, <2>3 DEF StaleInv, NotFuture
<1>7. FreshIsNewest'
  <2> SUFFICES ASSUME NEW s \in Items, Object[s] \in fresh'
               PROVE  /\ cache'[Object[s]] \in {Uncached, mtime'[Object[s]]}
                      /\ \A g \in {s} \cup Includes[s] : mtime'[g] <= mtime'[Object[s]]
    BY DEF FreshIsNewest
  <2>1. \A g \in {s} \cup Includes[s] : g \in Files /\ mtime'[g] = mtime[g] /\ mtime[g] <= now
    BY <1>4, <1>5
  <2>2. CASE Object[s] = f
    <3>1. how = "ok"
      <4>1. pc = "compiling"
        BY <2>2 DEF f
      <4>2. f \notin fresh
        BY <4>1 DEF f, Built
      <4> QED BY <2>2, <4>1, <4>2 DEF CompilerEnds, LinkerEnds
    <3>2. mtime'[f] = now /\ cache'[f] = now
      BY <1>1, <3>1 DEF TypeOK
    <3> QED BY <2>1, <2>2, <3>2
  <2>3. CASE Object[s] # f
    <3>1. Object[s] \in fresh
      BY <2>3 DEF f, CompilerEnds, LinkerEnds
    <3>2. Object[s] \in Files /\ mtime'[Object[s]] = mtime[Object[s]]
          /\ cache'[Object[s]] = cache[Object[s]]
      BY <1>4, <2>3
    <3> QED BY <2>1, <3>1, <3>2 DEF StaleInv, FreshIsNewest
  <2> QED BY <2>2, <2>3
<1> QED BY <1>2, <1>3, <1>6, <1>7 DEF StaleInv

\* While the compiler runs its old object is gone.
LEMMA BuiltNext == TypeOK /\ Built /\ [Next]_vars => Built'
<1> SUFFICES ASSUME TypeOK, Built, [Next]_vars, pc' = "compiling"
             PROVE  Object[item'] \notin fresh'
  BY DEF Built
<1> USE DEF Stays, editors, walk
<1>1. CASE pc = "compiling"
  <2>1. item' = item /\ fresh' \subseteq fresh
    BY <1>1 DEF Next, Tick, Open, Edit, Save, Close, Shell, Suspend, Outside, Returns, MakeClear,
           ClearDependencies, Build, SaveFiles, Make, Compile, UpToDate, OutOfDate, CompileOne,
           LinkOrNot, CompilerEnds, LinkerEnds, Fails, MakeEnds, Idle, vars
  <2> QED BY <1>1, <2>1 DEF Built
<1>2. CASE pc # "compiling"
  <2>1. CompileDep(Object[item'])
    BY <1>2 DEF Next, Tick, Open, Edit, Save, Close, Shell, Suspend, Outside, Returns, MakeClear,
           ClearDependencies, Build, SaveFiles, Make, Compile, UpToDate, OutOfDate, CompileOne,
           LinkOrNot, CompilerEnds, LinkerEnds, Fails, MakeEnds, Idle, vars
  <2> QED BY <2>1 DEF CompileDep
<1> QED BY <1>1, <1>2

\* Every step keeps it.
LEMMA StaleNext == TypeOK /\ Built /\ StaleInv /\ [Next]_vars => StaleInv'
<1> SUFFICES ASSUME TypeOK, Built, StaleInv, [Next]_vars PROVE StaleInv'
  OBVIOUS
<1>1. CASE UNCHANGED vars
  <2>1. UNCHANGED <<now, mtime, cache, open, changed, edittime, hasmodified, fresh, deps, pc>>
    BY <1>1 DEF vars, editors
  <2> QED BY <2>1, NewestFrame DEF StaleInv, Unsaved, DepsFound, NotFuture, SourceCached
<1> QED BY <1>1, EditorStale, CommandStale, ShellStale, ClearStale, WalkStale, RanStale DEF Next

\* Whatever the user does and the tools answer, the walk of a make compiles no
\* item whose object is made from what its source and headers hold now
\* (time_of_dep, TimeOfFile, RunCompiler).
THEOREM CompilesOnlyStale == Spec => RebuildsOnlyStale
<1> DEFINE Inv == TypeOK /\ Built /\ StaleInv
<1>1. Init => Built /\ StaleInv
  BY StaleInit DEF Init, Built
<1>2. TypeOK /\ Built /\ StaleInv /\ [Next]_vars => Built' /\ StaleInv'
  BY BuiltNext, StaleNext
<1>3. Spec => []Inv
  BY <1>1, <1>2, TypeCorrect, PTL DEF Spec
<1>4. Inv /\ [Next]_vars => [pc = "walk" /\ pc' = "compiling" => Object[item'] \notin fresh]_vars
  <2> SUFFICES ASSUME Inv, [Next]_vars, pc = "walk", pc' = "compiling"
               PROVE  Object[item'] \notin fresh
    OBVIOUS
  <2>1. PICK s \in Items : OutOfDate(s)
    BY DEF Next, Tick, Open, Edit, Save, Close, Shell, Suspend, Outside, Returns, MakeClear,
           ClearDependencies, Build, SaveFiles, Make, Compile, UpToDate, CompileOne, LinkOrNot,
           CompilerEnds, LinkerEnds, Idle, MakeEnds, vars
  <2> QED BY <2>1, FreshNeedsNothing DEF OutOfDate
<1> QED BY <1>3, <1>4, PTL DEF Spec, RebuildsOnlyStale
=============================================================================
