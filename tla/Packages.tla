------------------------------ MODULE Packages ------------------------------
(***************************************************************************)
(* The package manager (`nvs pkg`): install with its recursion over the    *)
(* dependencies, install from the lock file, remove, and the choice of a   *)
(* cached directory for `import "name"`.  One command runs at a time, in   *)
(* one project; it may fail or be killed at any step.  What it leaves on   *)
(* disk is what the next command and the next import find.                 *)
(*                                                                         *)
(* A source is a GitHub repository or a local directory.  Its successive   *)
(* contents are its revisions, of which upstream holds the latest; a tag   *)
(* is the number of a revision.                                            *)
(***************************************************************************)
EXTENDS Naturals, Sequences, FiniteSets

CONSTANTS
  Sources,      \* repositories and directories
  Local,        \* those that are directories: they have no commits
  Name,         \* the name in the manifest of each source
  Version,      \* Version[s][r]: the version in the manifest of revision r
  Deps,         \* Deps[s][r]: the dependencies in the manifest of revision r
  MaxRev,       \* bound: revisions of a source
  MaxDepth,     \* bound: nested installs (never reached: see OnStack)
  MaxCommands,  \* bound: commands, deletions by hand included
  MaxCrashes,   \* bound: commands that are killed
  None          \* no directory, no entry, no name

Revs == 1..MaxRev
Names == {Name[s] : s \in Sources}
Versions == {Version[s][r] : s \in Sources, r \in Revs}

(* A dependency, or the argument of `nvs pkg install`: revision 0 is the   *)
(* latest one, the only one a directory has; name is what the manifest has *)
(* to say, None anything.                                                  *)
Specs == {spec \in [name : Names \cup {None}, src : Sources, rev : 0..MaxRev] :
            spec.src \in Local => spec.rev = 0}

(* main is the package's entry file, rest any other file of it. *)
Files == {"main", "rest"}

Pin(s, r) == IF s \in Local THEN None ELSE <<s, r>>

(* A directory of the cache: name@version, with the commit of a repository.*)
Key(s, r) == [name |-> Name[s], version |-> Version[s][r], pin |-> Pin(s, r)]
Keys == {Key(s, r) : s \in Sources, r \in Revs}

(* LockEntry, and the directory it stands for. *)
Entry(s, r) == [src |-> s, version |-> Version[s][r], pin |-> Pin(s, r)]
Entries == {Entry(s, r) : s \in Sources, r \in Revs}
Pinned(n, e) == [name |-> n, version |-> e.version, pin |-> e.pin]

(* A directory of the cache holds files of a tree; a call of installTree.  *)
Trees == [of : Sources \X Revs, files : SUBSET Files]
Calls == [src : Sources, rev : Revs, name : Names \cup {None}, deps : SUBSET Specs]

(* A manifest maps the name of each dependency to its source.  None is     *)
(* none of the things it stands for the absence of.                        *)
ASSUME PackagesAssumption ==
  /\ Local \subseteq Sources
  /\ MaxRev \in Nat \ {0} /\ MaxDepth \in Nat /\ MaxCommands \in Nat /\ MaxCrashes \in Nat
  /\ \A s \in Sources, r \in Revs :
       Deps[s][r] \subseteq {d \in Specs : d.name # None}
  /\ None \notin Names /\ None \notin Entries /\ None \notin Specs /\ None \notin Trees
  /\ None \notin Sources \X Revs

VARIABLES
  upstream,   \* the latest revision of each source
  cache,      \* the package directories: the tree copied there, its files
  lock,       \* nvs.lock, by name
  lockOk,     \* nvs.lock is absent or can be read
  op,         \* the running command
  pc,         \* where it is
  stack,      \* installTree calls in progress, outermost first
  want,       \* the spec installOne is called with
  added,      \* lock entries of the running command
  todo,       \* names: those InstallFromLock has still to install, or the one
              \* to remove
  torn,       \* history: names of directories a killed command was working on
  vouched,    \* history: names whose entry a completed command installed, and
              \* that nothing but completed commands has touched since
  commands, crashes   \* what is left of the two bounds

disk == <<cache, lock, lockOk>>
run == <<op, pc, stack, want, added, todo>>
hist == <<torn, vouched>>
bounds == <<commands, crashes>>
vars == <<upstream, disk, run, hist, bounds>>

NoEntries == [n \in Names |-> None]
Locked == {n \in Names : lock[n] # None}
Added == {n \in Names : added[n] # None}
DirsOf(n) == {k \in Keys : k.name = n /\ cache[k] # None}
Tree(s, r) == [of |-> <<s, r>>, files |-> Files]

Top == stack[Len(stack)]
TopKey == Key(Top.src, Top.rev)

Idle == op = "none"

Init ==
  /\ upstream = [s \in Sources |-> 1]
  /\ cache = [k \in Keys |-> None]
  /\ lock = NoEntries /\ lockOk = TRUE
  /\ op = "none" /\ pc = "idle" /\ stack = <<>> /\ todo = {}
  /\ want = None /\ added = NoEntries
  /\ torn = {} /\ vouched = {}
  /\ commands = MaxCommands /\ crashes = MaxCrashes

-----------------------------------------------------------------------------
Start(command, at) ==
  /\ Idle /\ commands > 0
  /\ commands' = commands - 1
  /\ op' = command /\ pc' = at

End ==
  /\ op' = "none" /\ pc' = "idle" /\ stack' = <<>> /\ todo' = {}
  /\ want' = None /\ added' = NoEntries

(* Install returns an error: what it has cached stays, the lock is as it was. *)
Fail ==
  /\ End
  /\ UNCHANGED <<upstream, lock, lockOk, hist, bounds>>

(* nvs pkg install <spec> *)
Install(spec) ==
  /\ spec.name = None
  /\ Start("install", "fetch")
  /\ want' = spec
  /\ UNCHANGED <<upstream, disk, stack, added, todo, hist, crashes>>

(* Faulty variant: only a package that depends on itself is a cycle. *)
OnStackDirect(s) == stack # <<>> /\ Name[Top.src] = Name[s]

(* The cycle check of installOne: by name, whatever the revision. *)
OnStack(s) == \E i \in DOMAIN stack : Name[stack[i].src] = Name[s]

Revision(spec) == IF spec.rev = 0 THEN upstream[spec.src] ELSE spec.rev

(* Faulty variant: a package found in the cache has had its dependencies   *)
(* installed before.                                                       *)
FetchTrustsCache ==
  /\ pc = "fetch"
  /\ Revision(want) <= upstream[want.src] /\ ~OnStack(want.src) /\ Len(stack) < MaxDepth
  /\ LET s == want.src
         r == Revision(want)
         cached == cache[Key(s, r)] # None
     IN /\ stack' = Append(stack, [src |-> s, rev |-> r, name |-> want.name,
                                   deps |-> IF cached THEN {} ELSE Deps[s][r]])
        /\ pc' = IF cached THEN "record" ELSE "copy"
  /\ UNCHANGED <<upstream, disk, op, want, added, todo, hist, bounds>>

(* installOne: the tree is found or cloned, its manifest read; installTree *)
(* copies it only if its directory does not exist yet.                     *)
Fetch ==
  /\ pc = "fetch"
  /\ Revision(want) <= upstream[want.src] /\ ~OnStack(want.src) /\ Len(stack) < MaxDepth
  /\ LET s == want.src
         r == Revision(want)
     IN /\ stack' = Append(stack, [src |-> s, rev |-> r, name |-> want.name,
                                   deps |-> Deps[s][r]])
        /\ pc' = IF cache[Key(s, r)] = None THEN "copy" ELSE "record"
  /\ UNCHANGED <<upstream, disk, op, want, added, todo, hist, bounds>>

(* No such tag, or a dependency cycle. *)
FetchRefused ==
  /\ pc = "fetch"
  /\ Revision(want) > upstream[want.src] \/ OnStack(want.src)
  /\ Fail /\ UNCHANGED cache

(* git, the network, or the manifest. *)
FetchFails == pc = "fetch" /\ Fail /\ UNCHANGED cache

Copy ==
  /\ pc = "copy"
  /\ cache' = [cache EXCEPT ![TopKey] = Tree(Top.src, Top.rev)]
  /\ pc' = "record"
  /\ UNCHANGED <<upstream, lock, lockOk, op, stack, want, added, todo, hist, bounds>>

(* Faulty variant: what was copied before the error stays. *)
CopyFailsHalfway ==
  /\ pc = "copy"
  /\ \E fs \in SUBSET Files :
       cache' = [cache EXCEPT ![TopKey] = [of |-> <<Top.src, Top.rev>>, files |-> fs]]
  /\ Fail

(* copyDir fails; the directory is removed. *)
CopyFails == pc = "copy" /\ Fail /\ UNCHANGED cache

(* installTree goes on: the lock entry. *)
Record ==
  /\ pc = "record"
  /\ added' = [added EXCEPT ![Name[Top.src]] = Entry(Top.src, Top.rev)]
  /\ pc' = "deps"
  /\ UNCHANGED <<upstream, disk, op, stack, want, todo, hist, bounds>>

(* The dependencies, in the order in which Go ranges over the map. *)
Dependency(d) ==
  /\ pc = "deps" /\ d \in Top.deps
  /\ stack' = [stack EXCEPT ![Len(stack)].deps = @ \ {d}]
  /\ want' = d
  /\ pc' = "fetch"
  /\ UNCHANGED <<upstream, disk, op, added, todo, hist, bounds>>

(* The end of installTree, and the caller's check of the name. *)
Sound == "main" \in cache[TopKey].files /\ Top.name \in {None, Name[Top.src]}

Return ==
  /\ pc = "deps" /\ Top.deps = {} /\ Sound
  /\ stack' = SubSeq(stack, 1, Len(stack) - 1)
  /\ pc' = IF Len(stack) > 1 THEN "deps" ELSE IF op = "install" THEN "merge" ELSE "next"
  /\ UNCHANGED <<upstream, disk, op, want, added, todo, hist, bounds>>

ReturnFails == pc = "deps" /\ Top.deps = {} /\ ~Sound /\ Fail /\ UNCHANGED cache

(* mergeLock; a lock that cannot be read is an error. *)
Merge ==
  /\ pc = "merge"
  /\ IF lockOk
     THEN /\ lock' = [n \in Names |-> IF n \in Added THEN added[n] ELSE lock[n]]
          /\ vouched' = (vouched \cup Added) \ torn
     ELSE UNCHANGED <<lock, vouched>>
  /\ End
  /\ UNCHANGED <<upstream, cache, lockOk, torn, bounds>>

-----------------------------------------------------------------------------
(* nvs pkg install: InstallFromLock, at the pinned commits.  The entries   *)
(* it collects are dropped.                                                *)
Replay ==
  /\ lockOk /\ Locked # {}
  /\ Start("replay", "next")
  /\ todo' = Locked
  /\ UNCHANGED <<upstream, disk, stack, want, added, hist, crashes>>

NextEntry(n) ==
  /\ pc = "next" /\ n \in todo
  /\ todo' = todo \ {n}
  /\ want' = [name |-> n, src |-> lock[n].src,
              rev |-> IF lock[n].pin = None THEN 0 ELSE lock[n].pin[2]]
  /\ pc' = "fetch"
  /\ UNCHANGED <<upstream, disk, op, stack, added, hist, bounds>>

Replayed ==
  /\ pc = "next" /\ todo = {}
  /\ vouched' = (vouched \cup {n \in Locked : lock[n].pin # None}) \ torn
  /\ End
  /\ UNCHANGED <<upstream, disk, torn, bounds>>

-----------------------------------------------------------------------------
(* nvs pkg remove: every directory of the name, then its entry; refused if *)
(* there is no directory.                                                  *)
Remove(n) ==
  /\ DirsOf(n) # {}
  /\ Start("remove", "remove")
  /\ todo' = {n}
  /\ vouched' = vouched \ {n}
  /\ UNCHANGED <<upstream, disk, stack, want, added, torn, crashes>>

RemoveDirs ==
  /\ pc = "remove"
  /\ cache' = [k \in Keys |-> IF k.name \in todo THEN None ELSE cache[k]]
  /\ torn' = torn \ todo
  /\ pc' = "unlock"
  /\ UNCHANGED <<upstream, lock, lockOk, op, stack, want, added, todo, vouched, bounds>>

Unlock ==
  /\ pc = "unlock"
  /\ lock' = IF lockOk THEN [n \in Names |-> IF n \in todo THEN None ELSE lock[n]] ELSE lock
  /\ End
  /\ UNCHANGED <<upstream, cache, lockOk, hist, bounds>>

-----------------------------------------------------------------------------
(* The process is killed.  A directory it was copying or deleting is left  *)
(* with any part of its files, the lock it was writing is left truncated.  *)
(* (RemoveAll reporting an error leaves the same.)                         *)
Killed ==
  /\ ~Idle /\ crashes > 0
  /\ crashes' = crashes - 1
  /\ End
  /\ UNCHANGED <<upstream, commands>>

KilledInCopy ==
  /\ pc = "copy" /\ Killed
  /\ \E fs \in SUBSET Files :
       cache' = [cache EXCEPT ![TopKey] = [of |-> <<Top.src, Top.rev>>, files |-> fs]]
  /\ torn' = torn \cup {Name[Top.src]}
  /\ vouched' = vouched \ {Name[Top.src]}
  /\ UNCHANGED <<lock, lockOk>>

KilledInRemove ==
  /\ pc = "remove" /\ Killed
  /\ \E gone \in SUBSET Keys, fs \in SUBSET Files :
       cache' = [k \in Keys |->
                   IF k.name \notin todo \/ cache[k] = None THEN cache[k]
                   ELSE IF k \in gone THEN None
                   ELSE [cache[k] EXCEPT !.files = @ \cap fs]]
  /\ torn' = torn \cup todo
  /\ UNCHANGED <<lock, lockOk, vouched>>

KilledInWrite ==
  /\ pc = "merge" \/ (pc = "unlock" /\ todo \cap Locked # {})
  /\ lockOk /\ Killed
  /\ lock' = NoEntries /\ lockOk' = FALSE
  /\ vouched' = {}
  /\ UNCHANGED <<cache, torn>>

KilledElsewhere ==
  /\ Killed
  /\ UNCHANGED <<disk, hist>>

Crash == KilledInCopy \/ KilledInRemove \/ KilledInWrite \/ KilledElsewhere

-----------------------------------------------------------------------------
(* The world around: releases, edits of a local package, files deleted by  *)
(* hand, a checkout of the project on another machine.                     *)
Release(s) ==
  /\ upstream[s] < MaxRev
  /\ upstream' = [upstream EXCEPT ![s] = @ + 1]
  /\ UNCHANGED <<disk, run, hist, bounds>>

ByHand == Idle /\ commands > 0 /\ commands' = commands - 1

EmptyCache ==
  /\ ByHand
  /\ cache' = [k \in Keys |-> None]
  /\ torn' = {} /\ vouched' = {}
  /\ UNCHANGED <<upstream, lock, lockOk, run, crashes>>

DeleteLock ==
  /\ ByHand
  /\ lock' = NoEntries /\ lockOk' = TRUE
  /\ vouched' = {}
  /\ UNCHANGED <<upstream, cache, run, torn, crashes>>

-----------------------------------------------------------------------------
(* The steps a running command takes unless something goes wrong. *)
Progress ==
  \/ Fetch \/ FetchRefused \/ Copy \/ Record \/ Return \/ ReturnFails \/ Merge
  \/ \E d \in Specs : Dependency(d)
  \/ \E n \in Names : NextEntry(n)
  \/ Replayed \/ RemoveDirs \/ Unlock

Next ==
  \/ \E spec \in Specs : Install(spec)
  \/ Replay
  \/ \E n \in Names : Remove(n)
  \/ Progress \/ FetchFails \/ CopyFails \/ Crash
  \/ \E s \in Sources : Release(s)
  \/ EmptyCache \/ DeleteLock

(* The process runs on until it is done. *)
Spec == Init /\ [][Next]_vars /\ WF_vars(Progress)

-----------------------------------------------------------------------------
(* import "name": the directory of the lock entry, else the one there is,  *)
(* else the highest version, a commit before a local build of it.  Commits *)
(* of one version are in the order of their hashes, any order here.  A     *)
(* local build of the locked version sorts before the locked commit, and   *)
(* both match the entry.                                                   *)
Matches(n) ==
  IF ~lockOk \/ lock[n] = None THEN {}
  ELSE LET same == {k \in DirsOf(n) : k.version = lock[n].version}
           local == {k \in same : k.pin = None}
       IN IF local # {} THEN local ELSE {k \in same : k = Pinned(n, lock[n])}

Highest(ks) ==
  LET top == {k \in ks : \A l \in ks : l.version <= k.version}
      commits == {k \in top : k.pin # None}
  IN IF commits # {} THEN commits ELSE top

(* Faulty variant: the highest version, whatever is locked. *)
ResolveHighest(n) == Highest(DirsOf(n))

Resolve(n) == IF Matches(n) # {} THEN Matches(n) ELSE Highest(DirsOf(n))

-----------------------------------------------------------------------------
(* Every variable holds a value the program can give it. *)
TypeOK ==
  /\ upstream \in [Sources -> Revs]
  /\ cache \in [Keys -> Trees \cup {None}]
  /\ \A k \in Keys : cache[k] # None => k = Key(cache[k].of[1], cache[k].of[2])
  /\ lock \in [Names -> Entries \cup {None}] /\ lockOk \in BOOLEAN
  /\ added \in [Names -> Entries \cup {None}]
  /\ op \in {"none", "install", "replay", "remove"}
  /\ pc \in {"idle", "fetch", "copy", "record", "deps", "merge", "next", "remove", "unlock"}
  /\ want \in Specs \cup {None}
  /\ stack \in Seq(Calls)
  /\ todo \subseteq Names /\ torn \subseteq Names /\ vouched \subseteq Names
  /\ commands \in 0..MaxCommands /\ crashes \in 0..MaxCrashes

(* The locked directory of n is there, with the locked commit and all its  *)
(* files, and import finds a whole directory of the locked version.        *)
Importable(n) ==
  /\ lockOk /\ lock[n] # None
  /\ LET e == lock[n]
         d == cache[Pinned(n, e)]
     IN /\ d # None /\ d.files = Files
        /\ e.pin # None => d.of = e.pin
        /\ Resolve(n) # {}
        /\ \A k \in Resolve(n) : k.version = e.version /\ cache[k].files = Files

(* What a completed install or replay has left in the lock can be          *)
(* imported.  Failed commands, releases, and commands killed while they    *)
(* were busy with other packages do not change that.                       *)
LockedImports == \A n \in vouched : Importable(n)

(* An install that writes the lock writes a closed one: it has an entry    *)
(* for every dependency of every package it added.                         *)
LockIsClosed ==
  [][Merge /\ lockOk => \A n \in Added : \A r \in Revs :
        Entry(added[n].src, r) = added[n] /\ added[n].pin # None =>
          \A d \in Deps[added[n].src][r] : lock'[d.name] # None]_vars

(* The calls of installTree nest no deeper than there are package names,   *)
(* whatever the manifests say and however they change.                     *)
NestingBounded == Len(stack) <= Cardinality(Names)

(* The names that can be imported now, whoever vouches for them, and the   *)
(* names of the dependencies that an entry with a commit fixes.            *)
Good == {n \in Names : Importable(n)}
Needs ==
  [e \in Entries |->
     IF e.pin = None THEN {} ELSE {d.name : d \in Deps[e.src][e.pin[2]]}]

(* Commands of many steps over cache and lock are the atomic ones of       *)
(* PackageStore: whatever can be imported stays so but for a removal, a    *)
(* kill at work on its directories, a loss of the files, or an install     *)
(* over a kill's leavings; and what is locked together is closed.          *)
Store == INSTANCE PackageStore WITH good <- Good, suspect <- torn
ImplementsStore == Store!Spec

(* A command ends, whatever the manifests it meets: a cycle of             *)
(* dependencies is an error and not a hang.                                *)
CommandsEnd == ~Idle ~> Idle

-----------------------------------------------------------------------------
(* Resolve: "the nvs.lock in the current directory wins (reproducible)":   *)
(* between commands, what is imported is the commit the lock records.      *)
LockWins ==
  Idle => \A n \in vouched : lock[n].pin # None => Resolve(n) = {Pinned(n, lock[n])}

=============================================================================
