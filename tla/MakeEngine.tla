----------------------------- MODULE MakeEngine -----------------------------
(***************************************************************************)
(* Make, Build, Compile and Link of the IDE: idegcc.cc (TimeOfFile,        *)
(* time_of_dep, Make), idecomp.cc (RunCompiler, compile_dep), with what    *)
(* idemain.cc, ideapp.cc, ideprj.cc and libide/tidefile.cc do to the times *)
(* and flags they decide by.  One project: items compiled each to an       *)
(* object, the objects linked to the target, headers found by the compiler.*)
(* A file's contents are left out; "fresh" remembers which derived files   *)
(* were made from the contents the sources have now.                       *)
(***************************************************************************)
EXTENDS Integers, FiniteSets

CONSTANTS Items,      \* the sources of the project's items
          Headers,
          Object,       \* Object[s]: the object file of item s
          Target,       \* the main target
          Includes,     \* Includes[s]: the headers the compiler finds for s
          NoItem,
          Surprises,    \* what the user and the tools may do besides, below
          MaxNow,       \* bound on the clock
          MaxOpen       \* bound on the editors open at once

Sources == Items \cup Headers
Objects == {Object[s] : s \in Items}
Derived == Objects \cup {Target}
Files == Sources \cup Derived

(* "hasty": a source changes in the two seconds in which something was     *)
(* built; "declined": the user does not reload a file changed outside;     *)
(* "mute": a tool reports errors and still exits with 0; "link": Link is   *)
(* chosen with objects that are out of date; "clear", "forget": the        *)
(* rebuildable files, or only the dependencies, are cleared by menu.       *)
AllSurprises == {"hasty", "declined", "mute", "link", "clear", "forget"}

ASSUME Project ==
  /\ Items # {} /\ Object \in [Items -> Objects]
  /\ \A s, t \in Items : Object[s] = Object[t] => s = t
  /\ Items \cap Headers = {} /\ Sources \cap Derived = {}
  /\ Target \notin Objects /\ NoItem \notin Items
  /\ Includes \in [Items -> SUBSET Headers]
  /\ Surprises \subseteq AllSurprises
  /\ MaxNow \in Nat /\ MaxOpen \in Nat

VARIABLES
  now,            \* seconds; the tick of a two second clock is even
  mtime,          \* the time of a file on disk, 0 when it does not exist
  cache,          \* file_times
  open, changed,  \* sources with an editor, and those modified in it
  edittime,
  hasmodified, already_maked,
  deps,           \* dep->dependencies of an item: the headers it knows
  pc, doing,      \* where the command is; "make", or "once" for one file
  item, todo, newest, target,  \* time_of_dep: the item, the rest, times
  fresh, answer   \* what Make returned last

editors == <<open, changed, edittime, hasmodified>>
walk == <<item, todo, newest, target>>
vars == <<now, mtime, cache, editors, already_maked, deps, pc, doing, walk,
          fresh, answer>>

Uncached == -1
Round(t) == t - (t % 2)
Larger(a, b) == IF a > b THEN a ELSE b
Building == CASE pc = "compiling" -> {Object[item]}
              [] pc = "linking" -> {Target}
              [] OTHER -> {}

----------------------------------------------------------------------------
(* The times make decides by *)

Seen(f) == IF f \in open THEN edittime[f]
           ELSE IF cache[f] = Uncached THEN mtime[f] ELSE cache[f]

\* TimeOfFile(f, False) of every f in fs: answers are kept, but not for
\* files on the desktop
Looked(fs) == [f \in Files |-> IF f \notin fs THEN cache[f]
                               ELSE IF f \in open THEN Uncached ELSE Seen(f)]

HeaderNewer(s) == \E h \in deps[s] : Seen(h) > Seen(Object[s])
NeedsNoHeaders(s) == Seen(s) > Seen(Object[s])  \* mutant: headers left out
Needs(s) == Seen(s) > Seen(Object[s]) \/ HeaderNewer(s)

Consulted(s) == {s, Object[s]}
                \cup (IF Seen(s) > Seen(Object[s]) THEN {} ELSE deps[s])

\* what is out of date once the contents of the files fs changed
Outdated(fs) ==
  LET objects == {Object[s] : s \in {t \in Items : ({t} \cup Includes[t]) \cap fs # {}}}
  IN objects \cup (IF objects = {} THEN {} ELSE {Target})

----------------------------------------------------------------------------
Init == /\ now = 2
        /\ mtime = [f \in Files |-> IF f \in Sources THEN 2 ELSE 0]
        /\ cache = [f \in Files |-> Uncached]
        /\ open = {} /\ changed = {} /\ edittime = [f \in Sources |-> 0]
        /\ hasmodified = FALSE /\ already_maked = FALSE
        /\ deps = [s \in Items |-> {}]
        /\ pc = "idle" /\ doing = "once"
        /\ item = NoItem /\ todo = {} /\ newest = 0 /\ target = 0
        /\ fresh = {} /\ answer = "none"

Tick == /\ now < MaxNow
        /\ now' = now + 1
        /\ UNCHANGED <<mtime, cache, editors, already_maked, deps, pc, doing,
                       walk, fresh, answer>>

Idle == pc = "idle" /\ answer' = "none"
Unhurried(t) == "hasty" \in Surprises \/ \A f \in Derived : t > mtime[f]

----------------------------------------------------------------------------
(* Editors *)

OpenKept(f) ==  \* mutant: the cached time survives the opening
  /\ Idle /\ f \notin open /\ Cardinality(open) < MaxOpen
  /\ open' = open \cup {f}
  /\ edittime' = [edittime EXCEPT ![f] = mtime[f]]
  /\ UNCHANGED <<now, mtime, cache, changed, hasmodified, already_maked, deps,
                 pc, doing, walk, fresh>>

\* the constructor of the editor, then cmWindowOpened
Open(f) ==
  /\ Idle /\ f \notin open /\ Cardinality(open) < MaxOpen
  /\ open' = open \cup {f}
  /\ edittime' = [edittime EXCEPT ![f] = mtime[f]]
  /\ cache' = [cache EXCEPT ![f] = Uncached]
  /\ UNCHANGED <<now, mtime, changed, hasmodified, already_maked, deps, pc,
                 doing, walk, fresh>>

Edit(f) ==
  /\ Idle /\ f \in open /\ Unhurried(Round(now))
  /\ edittime' = [edittime EXCEPT ![f] = Round(now)]
  /\ changed' = changed \cup {f}
  /\ hasmodified' = TRUE
  /\ UNCHANGED <<now, mtime, cache, open, already_maked, deps, pc, doing, walk,
                 fresh>>

\* what saving the editors of fs does to the disk: utime gives a file the
\* time of its last modification
Written(fs) ==
  /\ mtime' = [f \in Files |-> IF f \in fs THEN edittime[f] ELSE mtime[f]]
  /\ fresh' = fresh \ Outdated(fs)

Save(f) ==
  /\ Idle /\ f \in changed
  /\ Written({f})
  /\ changed' = changed \ {f}
  /\ UNCHANGED <<now, cache, open, edittime, hasmodified, already_maked, deps,
                 pc, doing, walk>>

\* valid(cmClose): an unsaved text is saved or given up
Close(f, save) ==
  /\ Idle /\ f \in open
  /\ Written(IF save THEN {f} \cap changed ELSE {})
  /\ open' = open \ {f} /\ changed' = changed \ {f}
  /\ edittime' = [edittime EXCEPT ![f] = 0]
  /\ UNCHANGED <<now, cache, hasmodified, already_maked, deps, pc, doing, walk>>

SaveAllForgets(kept) ==  \* mutant: the failures are not counted
  IF hasmodified
  THEN /\ Written(changed \ kept)
       /\ changed' = kept /\ hasmodified' = FALSE /\ already_maked' = FALSE
       /\ UNCHANGED <<open, edittime>>
  ELSE UNCHANGED <<mtime, fresh, editors, already_maked>>

\* kept: editors that did not save, by a failure or because the user cancels
SaveAll(kept) ==
  IF hasmodified
  THEN /\ Written(changed \ kept)
       /\ changed' = kept
       /\ hasmodified' = (kept # {})
       /\ already_maked' = (already_maked /\ kept # {})
       /\ UNCHANGED <<open, edittime>>
  ELSE UNCHANGED <<mtime, fresh, editors, already_maked>>

Refuses(kept) == hasmodified /\ kept # {}

\* the command of the File menu
SaveFiles(kept) == /\ Idle /\ SaveAll(kept)
                   /\ UNCHANGED <<now, cache, deps, pc, doing, walk>>

----------------------------------------------------------------------------
(* Away from the IDE: DosShell, or SIGTSTP until SIGCONT *)

Shell == \E kept \in SUBSET changed :
  /\ Idle /\ SaveAll(kept)
  /\ pc' = IF Refuses(kept) THEN "idle" ELSE "shell"
  /\ UNCHANGED <<now, cache, deps, doing, walk>>

Suspend ==
  /\ Idle /\ pc' = "shell"
  /\ UNCHANGED <<now, mtime, cache, editors, already_maked, deps, doing, walk,
                 fresh>>

Outside(f) ==
  /\ pc = "shell"
  /\ \/ f \in Sources /\ Unhurried(now)
        /\ mtime' = [mtime EXCEPT ![f] = now] /\ fresh' = fresh \ Outdated({f})
     \/ f \in Derived
        /\ mtime' = [mtime EXCEPT ![f] = 0] /\ fresh' = fresh \ {f}
  /\ UNCHANGED <<now, cache, editors, already_maked, deps, pc, doing, walk,
                 answer>>

\* check_for_external_modifications, the caches and the flag
ReturnsMade(reloaded) ==  \* mutant: the flag is left alone
  LET newer == {f \in open : mtime[f] > edittime[f]} IN
  /\ pc = "shell" /\ pc' = "idle"
  /\ reloaded \subseteq newer
  /\ "declined" \in Surprises \/ reloaded = newer
  /\ edittime' = [f \in Sources |-> IF f \in reloaded THEN mtime[f] ELSE edittime[f]]
  /\ changed' = changed \ reloaded
  /\ cache' = [f \in Files |-> Uncached]
  /\ UNCHANGED <<now, mtime, open, hasmodified, already_maked, deps, doing,
                 walk, fresh, answer>>

Returns(reloaded) ==
  LET newer == {f \in open : mtime[f] > edittime[f]} IN
  /\ pc = "shell" /\ pc' = "idle"
  /\ reloaded \subseteq newer
  /\ "declined" \in Surprises \/ reloaded = newer
  /\ edittime' = [f \in Sources |-> IF f \in reloaded THEN mtime[f] ELSE edittime[f]]
  /\ changed' = changed \ reloaded
  /\ cache' = [f \in Files |-> Uncached]
  /\ already_maked' = FALSE
  /\ UNCHANGED <<now, mtime, open, hasmodified, deps, doing, walk, fresh, answer>>

----------------------------------------------------------------------------
(* The commands of the Compile menu *)

Cleared ==
  /\ deps' = [s \in Items |-> {}]
  /\ mtime' = [f \in Files |-> IF f \in Derived THEN 0 ELSE mtime[f]]
  /\ fresh' = {}
  /\ cache' = [f \in Files |-> Uncached]

MakeClear ==
  /\ "clear" \in Surprises /\ Idle /\ Cleared
  /\ UNCHANGED <<now, editors, already_maked, pc, doing, walk>>

ClearDependencies ==
  /\ "forget" \in Surprises /\ Idle
  /\ deps' = [s \in Items |-> {}]
  /\ cache' = [f \in Files |-> Uncached]
  /\ UNCHANGED <<now, mtime, editors, already_maked, pc, doing, walk, fresh>>

Build == /\ Idle /\ Cleared
         /\ already_maked' = FALSE
         /\ pc' = "build"
         /\ UNCHANGED <<now, editors, doing, walk>>

NeedMakeUnsaved == ~already_maked  \* mutant: unsaved editors do not count
NeedMake == hasmodified \/ ~already_maked

\* Make up to the walk: what SaveAll does comes after need_make was taken.
\* The walk starts at the project, whose target it looks at first.
Make(kept) ==
  /\ pc \in {"idle", "build"}
  /\ UNCHANGED <<now, deps, item>>
  /\ IF Refuses(kept)
     THEN /\ SaveAll(kept)
          /\ answer' = "no" /\ pc' = "idle"
          /\ UNCHANGED <<cache, doing, todo, newest, target>>
     ELSE IF NeedMake
     THEN /\ SaveAll(kept)
          /\ cache' = Looked({Target})
          /\ pc' = "walk" /\ doing' = "make" /\ answer' = "none"
          /\ todo' = Items /\ newest' = Seen(Target) /\ target' = Seen(Target)
     ELSE /\ already_maked' = TRUE
          /\ answer' = "yes" /\ pc' = "idle"
          /\ UNCHANGED <<mtime, cache, editors, fresh, doing, todo, newest, target>>

\* Compile(dep), the dialogs before it left out
Compile(kept) ==
  /\ Idle /\ SaveAll(kept)
  /\ UNCHANGED <<now, cache, deps, todo, newest, target>>
  /\ IF Refuses(kept)
     THEN UNCHANGED <<pc, doing, item>>
     ELSE /\ doing' = "once"
          /\ \/ pc' = "compile" /\ item' \in Items
             \/ /\ "link" \in Surprises \/ (kept = {} /\ Objects \subseteq fresh')
                /\ pc' = "link" /\ item' = item

----------------------------------------------------------------------------
(* time_of_dep for an item, and compile_dep *)

\* compile_dep up to the run of the tool, which finds the old file removed
CompileDep(f) == /\ already_maked' = FALSE
                 /\ mtime' = [mtime EXCEPT ![f] = 0]
                 /\ fresh' = fresh \ {f}

Stays == UNCHANGED <<now, editors, deps, doing, answer>>

UpToDate(s) ==
  /\ pc = "walk" /\ s \in todo /\ ~Needs(s)
  /\ cache' = Looked(Consulted(s))
  /\ todo' = todo \ {s}
  /\ newest' = Larger(newest, Seen(Object[s]))
  /\ Stays /\ UNCHANGED <<mtime, already_maked, pc, item, target, fresh>>

OutOfDate(s) ==
  /\ pc = "walk" /\ s \in todo /\ Needs(s)
  /\ cache' = Looked(Consulted(s))
  /\ CompileDep(Object[s])
  /\ pc' = "compiling" /\ item' = s /\ todo' = todo \ {s}
  /\ Stays /\ UNCHANGED <<newest, target>>

CompileOne == /\ pc = "compile"
              /\ CompileDep(Object[item])
              /\ pc' = "compiling"
              /\ Stays /\ UNCHANGED <<cache, walk>>

MakeEndsMade(ok) ==  \* mutant: a failed make counts as made
  /\ pc' = "idle" /\ answer' = (IF ok THEN "yes" ELSE "no")
  /\ already_maked' = TRUE /\ doing' = "once"
  /\ item' = NoItem /\ todo' = {} /\ newest' = 0 /\ target' = 0

MakeEnds(ok) ==
  /\ pc' = "idle" /\ answer' = (IF ok THEN "yes" ELSE "no")
  /\ already_maked' = ok /\ doing' = "once"
  /\ item' = NoItem /\ todo' = {} /\ newest' = 0 /\ target' = 0

LinkOrNot ==
  /\ \/ /\ pc = "walk" /\ todo = {} /\ newest > target
        /\ CompileDep(Target)
        /\ pc' = "linking"
        /\ UNCHANGED <<walk, doing, answer>>
     \/ /\ pc = "walk" /\ todo = {} /\ newest <= target
        /\ MakeEnds(TRUE)
        /\ UNCHANGED <<mtime, fresh>>
     \/ /\ pc = "link"
        /\ CompileDep(Target)
        /\ pc' = "linking"
        /\ UNCHANGED <<walk, doing, answer>>
  /\ UNCHANGED <<now, cache, editors, deps>>

----------------------------------------------------------------------------
(* The end of a compiler or linker run *)

RanUncached(f, how) ==  \* mutant: the time table is not brought up to date
  /\ how = "mute" => "mute" \in Surprises
  /\ mtime' = [mtime EXCEPT ![f] = IF how = "ok" THEN now ELSE 0]
  /\ UNCHANGED cache

RanLeaves(f, how) ==  \* mutant: what a failed tool wrote stays
  /\ how = "mute" => "mute" \in Surprises
  /\ mtime' = [mtime EXCEPT ![f] = now]
  /\ cache' = [cache EXCEPT ![f] = now]

\* RunCompiler after the tool, and the remove of compile_dep: a tool that
\* fails by its exit code leaves no file and a time of 0; one that only
\* prints errors leaves no file either, but the time it had until then
Ran(f, how) ==
  /\ how = "mute" => "mute" \in Surprises
  /\ mtime' = [mtime EXCEPT ![f] = IF how = "ok" THEN now ELSE 0]
  /\ cache' = [cache EXCEPT ![f] = IF how = "fails" THEN 0 ELSE now]

FailsOpen ==  \* mutant: a failed single compilation does not return
  IF doing = "make" THEN MakeEnds(FALSE)
  ELSE pc' = "idle" /\ UNCHANGED <<already_maked, answer, doing, walk>>

Fails == IF doing = "make" THEN MakeEnds(FALSE)
         ELSE /\ pc' = "idle" /\ item' = NoItem
              /\ UNCHANGED <<already_maked, answer, doing, todo, newest, target>>

CompilerEnds(how) ==
  /\ pc = "compiling"
  /\ Ran(Object[item], how)
  /\ \/ /\ how = "ok"
        /\ deps' = [deps EXCEPT ![item] = Includes[item]]
        /\ fresh' = fresh \cup {Object[item]}
        /\ pc' = IF doing = "make" THEN "walk" ELSE "idle"
        /\ newest' = IF doing = "make" THEN Larger(newest, now) ELSE newest
        /\ item' = NoItem
        /\ UNCHANGED <<already_maked, doing, todo, target, answer>>
     \/ /\ how # "ok"
        /\ \E found \in {{}, Includes[item]} : deps' = [deps EXCEPT ![item] = found]
        /\ Fails
        /\ UNCHANGED fresh
  /\ UNCHANGED <<now, editors>>

LinkerEnds(how) ==
  /\ pc = "linking"
  /\ how = "ok" => \A s \in Items : mtime[Object[s]] # 0
  /\ Ran(Target, how)
  /\ \/ /\ how = "ok"
        /\ fresh' = fresh \cup (IF Objects \subseteq fresh THEN {Target} ELSE {})
        /\ IF doing = "make" THEN MakeEnds(TRUE)
           ELSE /\ pc' = "idle" /\ already_maked' = TRUE
                /\ UNCHANGED <<walk, doing, answer>>
     \/ how # "ok" /\ Fails /\ UNCHANGED fresh
  /\ UNCHANGED <<now, editors, deps>>

----------------------------------------------------------------------------
Next == \/ Tick
        \/ \E f \in Sources : Open(f) \/ Edit(f) \/ Save(f)
        \/ \E f \in Sources, save \in BOOLEAN : Close(f, save)
        \/ Shell \/ Suspend
        \/ \E f \in Files : Outside(f)
        \/ \E reloaded \in SUBSET Sources : Returns(reloaded)
        \/ MakeClear \/ ClearDependencies \/ Build
        \/ \E kept \in SUBSET changed : SaveFiles(kept) \/ Make(kept) \/ Compile(kept)
        \/ \E s \in Items : UpToDate(s) \/ OutOfDate(s)
        \/ CompileOne \/ LinkOrNot
        \/ \E how \in {"ok", "fails", "mute"} : CompilerEnds(how) \/ LinkerEnds(how)

Spec == Init /\ [][Next]_vars

Pcs == {"idle", "shell", "build", "walk", "compile", "compiling", "link", "linking"}

\* Types; between commands nothing of a walk is left (the locals of
\* time_of_dep are gone).
TypeOK ==
  /\ now \in Nat /\ mtime \in [Files -> Nat]
  /\ cache \in [Files -> Nat \cup {Uncached}]
  /\ open \subseteq Sources /\ changed \subseteq open
  /\ edittime \in [Sources -> Nat]
  /\ hasmodified \in BOOLEAN /\ already_maked \in BOOLEAN
  /\ deps \in [Items -> SUBSET Headers]
  /\ pc \in Pcs /\ doing \in {"make", "once"}
  /\ item \in (IF pc \in {"compile", "compiling"} THEN Items ELSE {NoItem})
  /\ todo \subseteq Items /\ newest \in Nat /\ target \in Nat
  /\ fresh \subseteq Derived /\ answer \in {"none", "yes", "no"}

\* A make that answers True leaves a target built from what the sources hold
\* (Make, time_of_dep): Run starts the program on this answer alone.
YesIsFresh == answer = "yes" => Target \in fresh

\* While the IDE runs and counts the project as made and no editor was modified since
\* (already_maked, hasmodified), a make may be skipped, because the target
\* exists and is built from the present sources.
MadeIsFresh ==
  already_maked /\ ~hasmodified /\ pc # "shell" => Target \in fresh

\* Between commands, a make would notice all that is out of date: the times
\* it would see make it compile every object that is missing or was built
\* from older contents, and link a target that was.  No failure, unsaved
\* editor, reload or cached time hides one.
StaleIsSeen ==
  pc = "idle" /\ changed = {} =>
    /\ \A s \in Items : Object[s] \notin fresh => Needs(s)
    /\ Target \notin fresh =>
         \E s \in Items : Needs(s) \/ Seen(Object[s]) > Seen(Target)

\* As long as the IDE runs, the time cache agrees with the disk on every file
\* that is not being rebuilt, however files were opened, saved, closed and
\* built, and holds none that is open (TimeOfFile, cmWindowOpened,
\* RunCompiler).
CacheIsTrue ==
  pc # "shell" => \A f \in Files \ Building :
                    cache[f] # Uncached => cache[f] = mtime[f] /\ f \notin open

\* A text that is not saved is never forgotten: as long as an editor is
\* modified, the next make or run will save first (hasmodified, SaveAll).
UnsavedIsRemembered == changed # {} => hasmodified

\* After a make that failed, the next one looks again (Make: already_maked
\* is reset, or the editor that was not saved still counts).
FailureLooksAgain == answer = "no" => NeedMake

\* No surprise makes the flags forget work that is still to do.
NothingForgotten == UnsavedIsRemembered /\ FailureLooksAgain

\* Make compiles only what is missing or out of date: an object made from
\* the present contents is not compiled again by the walk (time_of_dep),
\* whatever the user did before.
RebuildsOnlyStale ==
  [][pc = "walk" /\ pc' = "compiling" => Object[item'] \notin fresh]_vars
=============================================================================
