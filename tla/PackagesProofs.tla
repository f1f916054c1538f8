--------------------------- MODULE PackagesProofs ---------------------------
(***************************************************************************)
(* Theorems about the package manager, for every set of sources, every     *)
(* manifest they may have, and every number of revisions, commands and     *)
(* crashes: what completed commands have locked can be imported, the lock  *)
(* they write is closed under dependencies, no command goes on for ever,   *)
(* and the package manager implements PackageStore.                        *)
(***************************************************************************)
EXTENDS Packages, FiniteSetTheorems, FunctionTheorems, SequenceTheorems,
        TLAPS

(* The types, by what they are of: the disk, the running command, the rest. *)
DiskTypes ==
  /\ cache \in [Keys -> Trees \cup {None}]
  /\ \A k \in Keys : cache[k] # None => k = Key(cache[k].of[1], cache[k].of[2])
  /\ lock \in [Names -> Entries \cup {None}] /\ lockOk \in BOOLEAN

RunTypes ==
  /\ op \in {"none", "install", "replay", "remove"}
  /\ pc \in {"idle", "fetch", "copy", "record", "deps", "merge", "next", "remove", "unlock"}
  /\ stack \in Seq(Calls) /\ want \in Specs \cup {None}
  /\ added \in [Names -> Entries \cup {None}] /\ todo \subseteq Names

OtherTypes ==
  /\ upstream \in [Sources -> Revs]
  /\ torn \subseteq Names /\ vouched \subseteq Names
  /\ commands \in 0..MaxCommands /\ crashes \in 0..MaxCrashes

(* Where a command can be: nothing is left over between commands, install  *)
(* and replay share the calls of installTree, and remove makes none.       *)
Phases ==
  /\ pc = "idle" <=> op = "none"
  /\ pc \in {"remove", "unlock"} <=> op = "remove"
  /\ pc = "merge" => op = "install"
  /\ pc = "next" => op = "replay"
  /\ pc = "fetch" => want # None
  /\ pc \in {"copy", "record", "deps"} => stack # <<>>
  /\ pc \in {"idle", "merge", "next", "remove", "unlock"} => stack = <<>>
  /\ op \in {"none", "remove"} => added = NoEntries
  /\ op = "replay" => lockOk /\ todo \subseteq Locked

(* An entry is filed under the name its source gives itself. *)
Named ==
  /\ \A n \in Locked : Name[lock[n].src] = n
  /\ \A n \in Added : Name[added[n].src] = n

(* Only a killed command leaves a directory without some of its files. *)
Whole == \A k \in Keys : cache[k] # None /\ k.name \notin torn => cache[k].files = Files

(* What is vouched for is locked, in a lock that can be read, its          *)
(* directory is there and untorn, and it is not being removed.             *)
Vouched ==
  /\ vouched \cap torn = {}
  /\ vouched # {} => lockOk
  /\ \A n \in vouched : lock[n] # None /\ cache[Pinned(n, lock[n])] # None
  /\ op = "remove" => todo \cap vouched = {}

(* The directory of a call of installTree is there once it is copied, that *)
(* of an entry when it is recorded.                                        *)
Cached ==
  /\ \A i \in DOMAIN stack :
       i < Len(stack) \/ pc # "copy" => cache[Key(stack[i].src, stack[i].rev)] # None
  /\ \A n \in Added : cache[Pinned(n, added[n])] # None

(* A call that has come to its dependencies has its entry; one that has    *)
(* not still has all of them before it.                                    *)
Recorded ==
  \A i \in DOMAIN stack : LET c == stack[i] IN
    /\ i < Len(stack) \/ pc \in {"deps", "fetch"} => Name[c.src] \in Added
    /\ i = Len(stack) /\ pc \in {"copy", "record"} => c.deps = Deps[c.src][c.rev]

(* Dependency d of revision r of s is being installed: a call of it has d  *)
(* before it, or has called for d's name.                                  *)
Coming(s, r, d) ==
  \E i \in DOMAIN stack :
    /\ stack[i].src = s /\ stack[i].rev = r
    /\ \/ d \in stack[i].deps
       \/ i < Len(stack) /\ stack[i + 1].name = d.name
       \/ i = Len(stack) /\ pc = "fetch" /\ want.name = d.name

(* A recorded commit has its dependencies recorded, or coming. *)
Closed ==
  \A n \in Added : \A r \in Revs :
    Entry(added[n].src, r) = added[n] /\ added[n].pin # None =>
      \A d \in Deps[added[n].src][r] : d.name \in Added \/ Coming(added[n].src, r, d)

(* The replay is working on entry e: it has called for it, or copies it. *)
Working(e) ==
  \/ pc = "fetch" /\ stack = <<>> /\ want.src = e.src /\ want.rev = e.pin[2]
  \/ pc = "copy" /\ Len(stack) = 1 /\ Top.src = e.src /\ Top.rev = e.pin[2]

(* A replay has the directories of the commits it is past. *)
Replaying ==
  op = "replay" => \A n \in Locked \ todo :
    lock[n].pin # None => cache[Pinned(n, lock[n])] # None \/ Working(lock[n])

(* The calls in progress have different names. *)
Distinct ==
  \A i, j \in DOMAIN stack : Name[stack[i].src] = Name[stack[j].src] => i = j

(* The inductive invariant: what the steps preserve together. *)
IInv ==
  /\ DiskTypes /\ RunTypes /\ OtherTypes
  /\ Phases /\ Named /\ Whole /\ Vouched
  /\ Cached /\ Recorded /\ Closed /\ Replaying /\ Distinct

-----------------------------------------------------------------------------
(* A lock entry is that of a revision of its source. *)
LEMMA EntryType ==
  ASSUME NEW e \in Entries
  PROVE  /\ e # None /\ e.src \in Sources
         /\ \E r \in Revs : e = Entry(e.src, r)
BY PackagesAssumption DEF Entries, Entry

(* The directory an entry stands for is the one installTree copies the     *)
(* revision to.                                                            *)
LEMMA EntryDirectory ==
  ASSUME NEW e \in Entries, NEW n, Name[e.src] = n
  PROVE  /\ Pinned(n, e) \in Keys /\ Pinned(n, e).name = n
         /\ \A r \in Revs : e = Entry(e.src, r) => Pinned(n, e) = Key(e.src, r)
<1>1. \A r \in Revs : e = Entry(e.src, r) => Pinned(n, e) = Key(e.src, r)
  BY DEF Pinned, Key, Entry
<1> QED
  BY <1>1, EntryType DEF Keys, Pinned

(* An entry with a commit is that of the revision its commit names, and of *)
(* no other.                                                               *)
LEMMA CommitRevision ==
  ASSUME NEW e \in Entries, e.pin # None
  PROVE  /\ e.src \in Sources \ Local /\ e.pin[2] \in Revs
         /\ e.pin = <<e.src, e.pin[2]>>
         /\ \A r \in Revs : e = Entry(e.src, r) <=> r = e.pin[2]
<1>1. PICK r \in Revs : e = Entry(e.src, r)
  BY EntryType
<1>2. e.src \in Sources \ Local /\ e.pin = <<e.src, r>>
  BY <1>1, EntryType DEF Entry, Pin
<1>3. \A q \in Revs : e = Entry(e.src, q) => q = r
  BY <1>2 DEF Entry, Pin
<1> QED
  BY <1>1, <1>2, <1>3

(* While a call of installTree is being worked on, it is the last of the   *)
(* stack, and its directory is one of the cache.                           *)
LEMMA TopType ==
  ASSUME RunTypes, stack # <<>>
  PROVE  /\ Len(stack) \in Nat \ {0} /\ Len(stack) \in DOMAIN stack
         /\ Top \in Calls /\ Top.src \in Sources /\ Top.rev \in Revs
         /\ Top.deps \subseteq Specs /\ TopKey \in Keys
<1>1. stack \in Seq(Calls) /\ Len(stack) \in Nat \ {0} /\ Len(stack) \in DOMAIN stack
  BY DEF RunTypes
<1>2. Top \in Calls
  BY <1>1 DEF Top
<1> QED
  BY <1>1, <1>2 DEF Calls, TopKey, Keys

(* A prefix of the stack: its type, its length, its elements. *)
LEMMA PrefixOfStack ==
  ASSUME NEW calls \in Seq(Calls), NEW n \in Nat, n <= Len(calls)
  PROVE  /\ SubSeq(calls, 1, n) \in Seq(Calls) /\ Len(SubSeq(calls, 1, n)) = n
         /\ \A i \in 1..n : SubSeq(calls, 1, n)[i] = calls[i]
<1>1. SubSeq(calls, 1, n) \in Seq(Calls)
  OBVIOUS
<1>2. Len(SubSeq(calls, 1, n)) = n
  OBVIOUS
<1>3. \A i \in 1..n : SubSeq(calls, 1, n)[i] = calls[i]
  OBVIOUS
<1> QED
  BY <1>1, <1>2, <1>3

(* A directory that is copied whole, or in part, is typed and is that of   *)
(* its key.                                                                *)
LEMMA CopiedTypes ==
  ASSUME DiskTypes, NEW s \in Sources, NEW r \in Revs, NEW fs \in SUBSET Files,
         cache' = [cache EXCEPT ![Key(s, r)] = [of |-> <<s, r>>, files |-> fs]],
         UNCHANGED <<lock, lockOk>>
  PROVE  DiskTypes'
<1> DEFINE tree == [of |-> <<s, r>>, files |-> fs]
<1>1. tree \in Trees /\ tree.of[1] = s /\ tree.of[2] = r
  BY DEF Trees
<1>2. cache' \in [Keys -> Trees \cup {None}]
  BY <1>1 DEF DiskTypes
<1>3. ASSUME NEW k \in Keys, cache'[k] # None
      PROVE  k = Key(cache'[k].of[1], cache'[k].of[2])
  <2>1. CASE k = Key(s, r)
    BY <1>1, <2>1 DEF DiskTypes
  <2>2. CASE k # Key(s, r)
    BY <1>3, <2>2 DEF DiskTypes
  <2> QED
    BY <2>1, <2>2
<1> QED
  BY <1>2, <1>3 DEF DiskTypes

(* The end of a command leaves nothing of it behind. *)
LEMMA Ended ==
  ASSUME End
  PROVE  /\ RunTypes' /\ Phases' /\ Cached' /\ Recorded'
         /\ Closed' /\ Replaying' /\ Distinct'
<1> USE PackagesAssumption DEF End
<1>1. RunTypes'
  BY DEF RunTypes, NoEntries
<1>2. Phases'
  BY DEF Phases
<1>3. Added' = {}
  BY DEF Added, NoEntries
<1> QED
  BY <1>1, <1>2, <1>3 DEF Cached, Recorded, Closed, Replaying, Distinct

-----------------------------------------------------------------------------
(* The initial state satisfies the invariant: an empty cache, an empty     *)
(* lock, and no command.                                                   *)
LEMMA Initialization == Init => IInv
<1> SUFFICES ASSUME Init PROVE IInv
  OBVIOUS
<1> USE PackagesAssumption DEF Init, NoEntries
<1>1. DiskTypes
  BY DEF DiskTypes
<1>2. RunTypes
  BY DEF RunTypes
<1>3. OtherTypes
  BY DEF OtherTypes, Revs
<1>4. Locked = {} /\ Added = {}
  BY DEF Locked, Added
<1>5. Phases /\ Named /\ Whole /\ Vouched
  BY <1>4 DEF Phases, Named, Whole, Vouched
<1>6. Cached /\ Recorded /\ Closed /\ Replaying /\ Distinct
  BY <1>4 DEF Cached, Recorded, Closed, Replaying, Distinct
<1> QED
  BY <1>1, <1>2, <1>3, <1>5, <1>6 DEF IInv

(* nvs pkg install with an argument: the spec is to be fetched. *)
LEMMA InstallStep ==
  ASSUME IInv, NEW spec \in Specs, Install(spec)
  PROVE  IInv'
<1> USE PackagesAssumption DEF disk, run, hist, bounds
<1>1. DiskTypes' /\ OtherTypes' /\ RunTypes'
  BY DEF IInv, Install, Start, Idle, DiskTypes, OtherTypes, RunTypes
<1>2. Phases' /\ Named' /\ Whole' /\ Vouched'
  BY DEF IInv, Install, Start, Idle, RunTypes, DiskTypes, Phases, Locked, NoEntries,
         Named, Added, Whole, Tree, Vouched
<1>3. Cached' /\ Recorded' /\ Closed' /\ Replaying' /\ Distinct'
  BY DEF IInv, Install, Start, Idle, Cached, Phases, Added, NoEntries, TopKey, Top,
         Recorded, Closed, Coming, Replaying, Working, Locked, Distinct
<1> QED
  BY <1>1, <1>2, <1>3 DEF IInv

(* installOne that finds its tree: a call with every dependency before it  *)
(* goes on the stack, under a name that is not there yet; it copies the    *)
(* tree unless the directory exists, and the replay's commit is then in    *)
(* the cache or being copied.                                              *)
LEMMA FetchStep ==
  ASSUME IInv, Fetch
  PROVE  IInv'
<1> USE PackagesAssumption DEF disk, run, hist, bounds
<1>1. DiskTypes' /\ OtherTypes'
  BY DEF IInv, Fetch, DiskTypes, OtherTypes
<1>2. RunTypes'
  <2>1. want \in Specs
    BY DEF IInv, Fetch, RunTypes, Phases
  <2>2. want.src \in Sources /\ want.name \in Names \cup {None} /\ Revision(want) \in Revs
    BY <2>1 DEF IInv, OtherTypes, Specs, Revision, Revs
  <2>3. Deps[want.src][Revision(want)] \subseteq Specs
    BY <2>2
  <2>4. [src |-> want.src, rev |-> Revision(want), name |-> want.name,
         deps |-> Deps[want.src][Revision(want)]] \in Calls
    BY <2>2, <2>3 DEF Calls
  <2> QED
    BY <2>4 DEF IInv, Fetch, RunTypes
<1>3. Phases' /\ Named' /\ Whole' /\ Vouched'
  BY DEF IInv, Fetch, RunTypes, DiskTypes, Phases, Locked, NoEntries, Named, Added,
         Whole, Tree, Vouched
<1>4. Cached' /\ Recorded' /\ Closed'
  BY DEF IInv, Fetch, Cached, Phases, Added, NoEntries, TopKey, Top, Recorded, Closed,
         Coming
<1>5. Replaying'
  <2> SUFFICES ASSUME op = "replay", NEW n \in Locked \ todo, lock[n].pin # None,
                      cache[Pinned(n, lock[n])] = None
               PROVE  Working(lock[n])'
    BY DEF Fetch, Replaying, Locked
  <2>1. pc = "fetch" /\ stack = <<>> /\ want.src = lock[n].src /\ want.rev = lock[n].pin[2]
    BY DEF IInv, Fetch, Replaying, Working
  <2>2. lock[n] \in Entries /\ Name[lock[n].src] = n
    BY DEF IInv, DiskTypes, Locked, Named
  <2>3. want.rev \in Revs /\ lock[n] = Entry(want.src, want.rev)
    BY <2>1, <2>2, CommitRevision
  <2>4. Revision(want) = want.rev
    BY <2>3 DEF Revision, Revs
  <2>5. Key(want.src, want.rev) = Pinned(n, lock[n])
    BY <2>1, <2>2, <2>3, EntryDirectory
  <2>6. pc' = "copy"
    BY <2>4, <2>5 DEF Fetch
  <2>7. Len(stack') = 1 /\ Top'.src = want.src /\ Top'.rev = want.rev
    BY <2>1, <2>4 DEF Fetch, Top
  <2> QED
    BY <2>1, <2>6, <2>7 DEF Working, Fetch
<1>6. Distinct'
  <2>1. \A i \in DOMAIN stack : Name[stack[i].src] # Name[want.src]
    BY DEF Fetch, OnStack
  <2>2. stack \in Seq(Calls) /\ Len(stack') = Len(stack) + 1
        /\ (\A i \in 1..Len(stack) : stack'[i] = stack[i])
        /\ stack'[Len(stack) + 1].src = want.src
    BY DEF IInv, Fetch, RunTypes
  <2> QED
    BY <2>1, <2>2 DEF IInv, Distinct
<1> QED
  BY <1>1, <1>2, <1>3, <1>4, <1>5, <1>6 DEF IInv

(* A command that fails keeps the disk as it is and drops its entries. *)
LEMMA FailingStep ==
  ASSUME IInv, Fail, UNCHANGED cache
  PROVE  IInv'
<1> USE PackagesAssumption DEF disk, run, hist, bounds
<1>1. /\ RunTypes' /\ Phases' /\ Cached' /\ Recorded'
      /\ Closed' /\ Replaying' /\ Distinct'
  BY Ended DEF Fail
<1>2. DiskTypes' /\ OtherTypes'
  BY DEF IInv, Fail, End, DiskTypes, OtherTypes
<1>3. Named' /\ Whole' /\ Vouched'
  BY DEF IInv, Fail, End, Named, Locked, Added, Phases, NoEntries, Whole, DiskTypes,
         Tree, Vouched
<1> QED
  BY <1>1, <1>2, <1>3 DEF IInv

(* copyDir that completes: the directory of the call is there and whole,   *)
(* and no other one goes.                                                  *)
LEMMA CopyStep ==
  ASSUME IInv, Copy
  PROVE  IInv'
<1> USE PackagesAssumption DEF disk, run, hist, bounds
<1>a. cache'[TopKey] # None /\ \A k \in Keys : cache[k] # None => cache'[k] # None
  <2>1. TopKey \in Keys /\ Tree(Top.src, Top.rev) \in Trees
    BY TopType DEF IInv, Copy, Phases, Tree, Trees
  <2> QED
    BY <2>1 DEF IInv, Copy, DiskTypes
<1>1. OtherTypes' /\ RunTypes'
  BY DEF IInv, Copy, OtherTypes, RunTypes
<1>2. DiskTypes'
  <2>1. Top.src \in Sources /\ Top.rev \in Revs
    BY TopType DEF IInv, Copy, Phases
  <2> QED
    BY <2>1, CopiedTypes DEF IInv, Copy, TopKey, Tree
<1>3. Phases' /\ Named' /\ Whole'
  BY DEF IInv, Copy, RunTypes, DiskTypes, Phases, Locked, NoEntries, Named, Added, Whole,
         Tree
<1>4. Vouched'
  <2>1. \A n \in vouched : Pinned(n, lock[n]) \in Keys
    BY EntryDirectory DEF IInv, Vouched, OtherTypes, DiskTypes, Named, Locked
  <2> QED
    BY <1>a, <2>1 DEF IInv, Copy, Vouched
<1>5. Recorded' /\ Closed' /\ Distinct'
  BY DEF IInv, Copy, Recorded, Phases, Added, Closed, Coming, NoEntries, Distinct
<1>6. Cached'
  <2>1. \A i \in DOMAIN stack : Key(stack[i].src, stack[i].rev) \in Keys
    <3>1. \A i \in DOMAIN stack : stack[i] \in Calls
      BY DEF IInv, RunTypes
    <3> QED
      BY <3>1 DEF Calls, Keys
  <2>2. \A n \in Added : Pinned(n, added[n]) \in Keys
    BY EntryDirectory DEF IInv, RunTypes, Named, Added
  <2>3. \A i \in DOMAIN stack : i = Len(stack) \/ i < Len(stack)
    BY DEF IInv, RunTypes
  <2>4. ASSUME NEW i \in DOMAIN stack
        PROVE  cache'[Key(stack[i].src, stack[i].rev)] # None
    BY <1>a, <2>1, <2>3 DEF IInv, Copy, Cached, Top, TopKey
  <2>5. ASSUME NEW n \in Added
        PROVE  cache'[Pinned(n, added[n])] # None
    BY <1>a, <2>2 DEF IInv, Cached
  <2> QED
    BY <2>4, <2>5 DEF Copy, Cached, Added
<1>7. Replaying'
  <2> SUFFICES ASSUME op = "replay", NEW n \in Locked \ todo, lock[n].pin # None
               PROVE  cache'[Pinned(n, lock[n])] # None
    BY DEF Copy, Replaying, Locked
  <2>1. lock[n] \in Entries /\ Name[lock[n].src] = n
    BY DEF IInv, DiskTypes, Locked, Named
  <2>2. Pinned(n, lock[n]) \in Keys
    BY <2>1, EntryDirectory
  <2>3. CASE Working(lock[n])
    <3>1. Top.src = lock[n].src /\ Top.rev = lock[n].pin[2]
      BY <2>3 DEF Copy, Working
    <3>2. Top.rev \in Revs /\ lock[n] = Entry(Top.src, Top.rev)
      BY <2>1, <3>1, CommitRevision
    <3>3. TopKey = Pinned(n, lock[n])
      BY <2>1, <3>1, <3>2, EntryDirectory DEF TopKey
    <3> QED
      BY <1>a, <3>3
  <2>4. CASE ~Working(lock[n])
    BY <1>a, <2>2, <2>4 DEF IInv, Replaying
  <2> QED
    BY <2>3, <2>4
<1> QED
  BY <1>1, <1>2, <1>3, <1>4, <1>5, <1>6, <1>7 DEF IInv

(* installTree adds its entry: the directory is there, and every           *)
(* dependency of the recorded revision is still before the call.           *)
LEMMA RecordStep ==
  ASSUME IInv, Record
  PROVE  IInv'
<1> USE PackagesAssumption DEF disk, run, hist, bounds
<1>a. /\ Top.src \in Sources /\ Top.rev \in Revs /\ Name[Top.src] \in Names
      /\ Len(stack) \in DOMAIN stack
  BY TopType DEF IInv, Record, Phases, Names
<1>b. /\ added'[Name[Top.src]] = Entry(Top.src, Top.rev)
      /\ Entry(Top.src, Top.rev) \in Entries /\ Entry(Top.src, Top.rev).src = Top.src
      /\ \A n \in Names : n # Name[Top.src] => added'[n] = added[n]
  BY <1>a DEF IInv, Record, RunTypes, Entries, Entry
<1>c. Added' = Added \cup {Name[Top.src]}
  BY <1>a, <1>b DEF Added
<1>1. DiskTypes' /\ OtherTypes'
  BY DEF IInv, Record, DiskTypes, OtherTypes
<1>2. RunTypes'
  <2>1. added' \in [Names -> Entries \cup {None}]
    BY <1>a, <1>b DEF IInv, Record, RunTypes
  <2> QED
    BY <2>1 DEF IInv, Record, RunTypes
<1>3. Phases' /\ Whole' /\ Vouched'
  BY DEF IInv, Record, RunTypes, DiskTypes, Phases, Locked, NoEntries, Whole, Tree,
         Vouched
<1>4. Named'
  BY <1>a, <1>b, <1>c DEF IInv, Record, Named, Locked, Added
<1>5. Replaying' /\ Distinct'
  BY DEF IInv, Record, Replaying, Phases, Working, Locked, Top, Distinct
<1>6. Cached'
  <2>1. Pinned(Name[Top.src], Entry(Top.src, Top.rev)) = TopKey
    BY DEF Pinned, Entry, Key, TopKey
  <2>2. \A i \in DOMAIN stack : cache[Key(stack[i].src, stack[i].rev)] # None
    BY DEF IInv, Record, Cached
  <2>3. cache[TopKey] # None
    BY <1>a, <2>2 DEF Top, TopKey
  <2>4. \A n \in Added' : cache[Pinned(n, added'[n])] # None
    BY <1>b, <1>c, <2>1, <2>3 DEF IInv, Cached, Added
  <2> QED
    BY <2>2, <2>4 DEF Record, Cached
<1>7. Recorded'
  <2>1. \A i \in DOMAIN stack : i = Len(stack) \/ i < Len(stack)
    BY DEF IInv, RunTypes
  <2>2. \A i \in DOMAIN stack : Name[stack[i].src] \in Added'
    BY <1>c, <2>1 DEF IInv, Recorded, Top
  <2> QED
    BY <2>2 DEF Record, Recorded
<1>8. Closed'
  <2> SUFFICES ASSUME NEW n \in Added', NEW r \in Revs, NEW s, s = added'[n].src,
                      Entry(s, r) = added'[n], added'[n].pin # None,
                      NEW d \in Deps[s][r]
               PROVE  d.name \in Added' \/ Coming(s, r, d)'
    BY DEF Closed
  <2>1. CASE n = Name[Top.src]
    <3>1. added'[n] = Entry(Top.src, Top.rev) /\ added'[n] \in Entries /\ s = Top.src
      BY <1>b, <2>1
    <3>2. r = Top.rev
      BY <1>a, <3>1, CommitRevision
    <3>3. d \in Top.deps
      BY <1>a, <3>1, <3>2 DEF IInv, Record, Recorded, Top
    <3> QED
      BY <1>a, <3>1, <3>2, <3>3 DEF Coming, Record, Top
  <2>2. CASE n # Name[Top.src]
    <3>1. n \in Added /\ added'[n] = added[n]
      BY <1>b, <1>c, <2>2 DEF Added
    <3>2. d.name \in Added \/ Coming(s, r, d)
      BY <3>1 DEF IInv, Closed
    <3>3. Coming(s, r, d) => Coming(s, r, d)'
      BY DEF Coming, Record
    <3> QED
      BY <1>c, <3>2, <3>3
  <2> QED
    BY <2>1, <2>2
<1> QED
  BY <1>1, <1>2, <1>3, <1>4, <1>5, <1>6, <1>7, <1>8 DEF IInv

(* A dependency is taken from before the call that is being worked on.    *)
LEMMA DependencyStack ==
  ASSUME IInv, NEW d \in Specs, Dependency(d)
  PROVE  /\ DOMAIN stack' = DOMAIN stack /\ Len(stack') = Len(stack)
         /\ Len(stack) \in DOMAIN stack /\ DOMAIN stack = 1..Len(stack) /\ Len(stack) \in Nat
         /\ \A i \in DOMAIN stack :
              /\ stack'[i].src = stack[i].src /\ stack'[i].rev = stack[i].rev
              /\ stack'[i].name = stack[i].name
              /\ stack'[i].deps = IF i = Len(stack) THEN stack[i].deps \ {d} ELSE stack[i].deps
<1>1. stack \in Seq(Calls) /\ Len(stack) \in DOMAIN stack
  BY TopType DEF IInv, Dependency, Phases, RunTypes
<1>2. stack' = [stack EXCEPT ![Len(stack)] = [Top EXCEPT !.deps = @ \ {d}]]
  BY <1>1 DEF Dependency, Top
<1>3. /\ DOMAIN stack' = DOMAIN stack /\ Len(stack') = Len(stack)
      /\ DOMAIN stack = 1..Len(stack) /\ Len(stack) \in Nat
  BY <1>1, <1>2
<1>4. ASSUME NEW i \in DOMAIN stack
      PROVE  /\ stack'[i].src = stack[i].src /\ stack'[i].rev = stack[i].rev
             /\ stack'[i].name = stack[i].name
             /\ stack'[i].deps = IF i = Len(stack) THEN stack[i].deps \ {d}
                                 ELSE stack[i].deps
  <2>1. stack[i] \in Calls
    BY <1>1
  <2>2. CASE i = Len(stack)
    BY <1>1, <1>2, <2>1, <2>2 DEF Calls, Top
  <2>3. CASE i # Len(stack)
    BY <1>1, <1>2, <2>3
  <2> QED
    BY <2>2, <2>3
<1> QED
  BY <1>1, <1>3, <1>4

(* installTree calls for a dependency: from before the call it goes to     *)
(* being called for.                                                       *)
LEMMA DependencyStep ==
  ASSUME IInv, NEW d \in Specs, Dependency(d)
  PROVE  IInv'
<1> USE PackagesAssumption DEF disk, run, hist, bounds
<1>a. /\ DOMAIN stack' = DOMAIN stack /\ Len(stack') = Len(stack)
      /\ Len(stack) \in DOMAIN stack /\ DOMAIN stack = 1..Len(stack) /\ Len(stack) \in Nat
      /\ \A i \in DOMAIN stack :
           /\ stack'[i].src = stack[i].src /\ stack'[i].rev = stack[i].rev
           /\ stack'[i].name = stack[i].name
           /\ stack'[i].deps = IF i = Len(stack) THEN stack[i].deps \ {d} ELSE stack[i].deps
  BY DependencyStack
<1>1. DiskTypes' /\ OtherTypes'
  BY DEF IInv, Dependency, DiskTypes, OtherTypes
<1>2. RunTypes'
  <2>1. Len(stack) \in DOMAIN stack /\ Top \in Calls /\ d \in Specs
    BY TopType DEF IInv, Dependency, Phases
  <2>2. [Top EXCEPT !.deps = @ \ {d}] \in Calls
    BY <2>1 DEF Calls
  <2>3. stack' = [stack EXCEPT ![Len(stack)] = [Top EXCEPT !.deps = @ \ {d}]]
    BY <2>1 DEF Dependency, Top
  <2>4. stack' \in Seq(Calls)
    BY <2>1, <2>2, <2>3 DEF IInv, RunTypes
  <2> QED
    BY <2>1, <2>4 DEF IInv, Dependency, RunTypes
<1>3. Phases' /\ Named' /\ Whole' /\ Vouched'
  BY DEF IInv, Dependency, RunTypes, DiskTypes, Phases, Locked, NoEntries, Named, Added,
         Whole, Tree, Vouched
<1>4. Cached' /\ Recorded'
  BY DEF IInv, Dependency, Cached, Phases, Added, NoEntries, TopKey, Top, Recorded
<1>5. Closed'
  <2> SUFFICES ASSUME NEW n \in Added, NEW r \in Revs, NEW s, s = added[n].src,
                      Entry(s, r) = added[n], added[n].pin # None,
                      NEW e \in Deps[s][r], e.name \notin Added
               PROVE  Coming(s, r, e)'
    BY DEF Dependency, Closed, Added
  <2>1. PICK i \in DOMAIN stack :
          /\ stack[i].src = s /\ stack[i].rev = r
          /\ e \in stack[i].deps \/ (i < Len(stack) /\ stack[i + 1].name = e.name)
    BY DEF IInv, Dependency, Closed, Coming
  <2>2. CASE i = Len(stack) /\ e = d
    BY <1>a, <2>1, <2>2 DEF Coming, Dependency
  <2>3. CASE e \in stack[i].deps /\ ~(i = Len(stack) /\ e = d)
    BY <1>a, <2>1, <2>3 DEF Coming
  <2>4. CASE i < Len(stack) /\ stack[i + 1].name = e.name
    <3>1. i + 1 \in DOMAIN stack
      BY <1>a, <2>4
    <3> QED
      BY <1>a, <2>1, <2>4, <3>1 DEF Coming
  <2> QED
    BY <1>a, <2>1, <2>2, <2>3, <2>4
<1>6. Replaying'
  BY DEF IInv, Dependency, Replaying, Phases, Working, Locked, Top
<1>7. Distinct'
  BY <1>a DEF IInv, Distinct
<1> QED
  BY <1>1, <1>2, <1>3, <1>4, <1>5, <1>6, <1>7 DEF IInv

(* The call that is over leaves the others as they are.                   *)
LEMMA ReturnStack ==
  ASSUME IInv, Return
  PROVE  /\ Len(stack) \in Nat \ {0} /\ stack' \in Seq(Calls) /\ Len(stack') = Len(stack) - 1
         /\ \A i \in 1..(Len(stack) - 1) : stack'[i] = stack[i]
<1>1. Len(stack) \in Nat \ {0} /\ Len(stack) - 1 \in Nat /\ Len(stack) - 1 <= Len(stack)
  BY TopType DEF IInv, Return, Phases
<1>2. stack \in Seq(Calls)
  BY DEF IInv, RunTypes
<1> QED
  BY <1>1, <1>2, PrefixOfStack, Zenon DEF Return

(* The end of a call.  It had nothing before it, and the dependency its    *)
(* caller called for has the name the manifest said, so it has an entry.   *)
LEMMA ReturnStep ==
  ASSUME IInv, Return
  PROVE  IInv'
<1> USE PackagesAssumption DEF disk, run, hist, bounds
<1>a. /\ Len(stack) \in Nat \ {0} /\ stack' \in Seq(Calls) /\ Len(stack') = Len(stack) - 1
      /\ \A i \in 1..(Len(stack) - 1) : stack'[i] = stack[i]
  BY ReturnStack
<1>1. DiskTypes' /\ OtherTypes' /\ RunTypes'
  BY DEF IInv, Return, DiskTypes, OtherTypes, RunTypes
<1>2. Named' /\ Whole' /\ Vouched'
  BY DEF IInv, Return, Named, Locked, Added, Phases, NoEntries, Whole, DiskTypes, Tree,
         Vouched
<1>3. Phases'
  <2>1. Len(stack) > 1 => stack' # <<>>
    BY <1>a
  <2>2. Len(stack) <= 1 => stack' = <<>>
    BY <1>a
  <2>3. op \in {"install", "replay"}
    BY DEF IInv, Return, Phases, RunTypes
  <2> QED
    BY <1>a, <2>1, <2>2, <2>3 DEF IInv, Return, Phases, RunTypes, Locked, NoEntries
<1>4. Cached' /\ Recorded' /\ Replaying'
  BY DEF IInv, Return, Cached, Phases, Added, NoEntries, TopKey, Top, Recorded,
         Replaying, Working, Locked
<1>5. Closed'
  <2> SUFFICES ASSUME NEW n \in Added, NEW r \in Revs, NEW s, s = added[n].src,
                      Entry(s, r) = added[n], added[n].pin # None,
                      NEW d \in Deps[s][r], d.name \notin Added
               PROVE  Coming(s, r, d)'
    BY DEF Return, Closed, Added
  <2>1. PICK i \in DOMAIN stack :
          /\ stack[i].src = s /\ stack[i].rev = r
          /\ d \in stack[i].deps \/ (i < Len(stack) /\ stack[i + 1].name = d.name)
    BY DEF IInv, Return, Closed, Coming
  <2>2. i \in 1..Len(stack) /\ i < Len(stack)
    BY <1>a, <2>1 DEF IInv, RunTypes, Return, Top
  <2>3. ASSUME i + 1 = Len(stack), stack[i + 1].name = d.name
        PROVE  FALSE
    <3>1. s \in Sources
      BY EntryType DEF IInv, RunTypes, Added
    <3>2. d.name # None
      BY <3>1
    <3>3. Name[Top.src] = d.name
      BY <2>3, <3>2 DEF Return, Sound, Top
    <3>4. Name[Top.src] \in Added
      BY <1>a DEF IInv, Return, Recorded, Top, RunTypes
    <3> QED
      BY <3>3, <3>4
  <2>4. i \in DOMAIN stack' /\ stack'[i] = stack[i]
    BY <1>a, <2>2
  <2>5. ASSUME i + 1 # Len(stack)
        PROVE  i < Len(stack') /\ stack'[i + 1] = stack[i + 1]
    <3>1. i + 1 \in 1..(Len(stack) - 1)
      BY <1>a, <2>2, <2>5
    <3> QED
      BY <1>a, <2>2, <3>1
  <2> QED
    BY <2>1, <2>3, <2>4, <2>5 DEF Coming
<1>6. Distinct'
  <2>1. \A i \in DOMAIN stack' : i \in DOMAIN stack /\ stack'[i] = stack[i]
    BY <1>a
  <2> QED
    BY <2>1 DEF IInv, Distinct
<1> QED
  BY <1>1, <1>2, <1>3, <1>4, <1>5, <1>6 DEF IInv

(* mergeLock: an entry of the command has its directory, any other is as   *)
(* it was.                                                                 *)
LEMMA MergeStep ==
  ASSUME IInv, Merge
  PROVE  IInv'
<1> USE PackagesAssumption DEF disk, run, hist, bounds
<1>1. /\ RunTypes' /\ Phases' /\ Cached' /\ Recorded'
      /\ Closed' /\ Replaying' /\ Distinct'
  BY Ended DEF Merge
<1>2. DiskTypes'
  <2>1. lock' \in [Names -> Entries \cup {None}]
    BY DEF IInv, Merge, DiskTypes, RunTypes
  <2> QED
    BY <2>1 DEF IInv, Merge, DiskTypes
<1>3. OtherTypes'
  BY DEF IInv, Merge, OtherTypes, Added
<1>4. Named' /\ Whole'
  BY DEF IInv, Merge, End, Named, Locked, Added, Phases, NoEntries, Whole, DiskTypes,
         Tree
<1>5. Vouched'
  <2>1. CASE ~lockOk
    BY <2>1 DEF IInv, Merge, End, Vouched
  <2>2. CASE lockOk
    <3> SUFFICES ASSUME NEW n \in vouched'
                 PROVE  lock'[n] # None /\ cache[Pinned(n, lock'[n])] # None
      BY <2>2 DEF IInv, Merge, End, Vouched
    <3>1. n \in Names /\ lock'[n] = IF n \in Added THEN added[n] ELSE lock[n]
      BY <2>2 DEF IInv, Merge, OtherTypes, Added
    <3>2. CASE n \in Added
      BY <3>1, <3>2 DEF IInv, Cached, Added
    <3>3. CASE n \notin Added
      BY <2>2, <3>1, <3>3 DEF IInv, Merge, Vouched
    <3> QED
      BY <3>2, <3>3
  <2> QED
    BY <2>1, <2>2
<1> QED
  BY <1>1, <1>2, <1>3, <1>4, <1>5 DEF IInv

(* nvs pkg install without an argument: every entry is to be installed. *)
LEMMA ReplayStep ==
  ASSUME IInv, Replay
  PROVE  IInv'
<1> USE PackagesAssumption DEF disk, run, hist, bounds
<1>1. DiskTypes' /\ OtherTypes'
  BY DEF IInv, Replay, Start, Idle, DiskTypes, OtherTypes
<1>2. RunTypes'
  BY DEF IInv, Replay, Start, Idle, RunTypes, Locked
<1>3. Phases' /\ Named' /\ Whole' /\ Vouched'
  BY DEF IInv, Replay, Start, Idle, RunTypes, DiskTypes, Phases, Locked, NoEntries,
         Named, Added, Whole, Tree, Vouched
<1>4. Cached' /\ Recorded' /\ Closed' /\ Replaying' /\ Distinct'
  BY DEF IInv, Replay, Start, Idle, Cached, Phases, Added, NoEntries, TopKey, Top,
         Recorded, Closed, Coming, Replaying, Working, Locked, Distinct
<1> QED
  BY <1>1, <1>2, <1>3, <1>4 DEF IInv

(* InstallFromLock takes the next entry, at its commit if it has one. *)
LEMMA NextEntryStep ==
  ASSUME IInv, NEW n \in Names, NextEntry(n)
  PROVE  IInv'
<1> USE PackagesAssumption DEF disk, run, hist, bounds
<1>a. /\ lock[n] \in Entries /\ lock[n].src \in Sources
      /\ want'.src = lock[n].src /\ want'.rev \in 0..MaxRev
      /\ want'.src \in Local => want'.rev = 0
      /\ lock[n].pin # None => want'.rev = lock[n].pin[2]
  <2>1. lock[n] \in Entries
    BY DEF IInv, NextEntry, Phases, Locked, DiskTypes
  <2> QED
    BY <2>1, EntryType, CommitRevision DEF NextEntry, Revs
<1>1. DiskTypes' /\ OtherTypes'
  BY DEF IInv, NextEntry, DiskTypes, OtherTypes
<1>2. RunTypes'
  <2>1. want' \in Specs
    BY <1>a DEF NextEntry, Specs
  <2> QED
    BY <2>1 DEF IInv, NextEntry, RunTypes
<1>3. Named' /\ Whole' /\ Vouched'
  BY DEF IInv, NextEntry, Named, Locked, Added, Phases, NoEntries, Whole, DiskTypes,
         Tree, Vouched
<1>4. Phases'
  <2>1. want' # None
    BY <1>a DEF NextEntry, Specs
  <2> QED
    BY <2>1 DEF IInv, NextEntry, RunTypes, Phases, Locked, NoEntries
<1>5. Cached' /\ Recorded' /\ Closed' /\ Distinct'
  BY DEF IInv, NextEntry, Cached, Phases, Added, NoEntries, TopKey, Top, Recorded,
         Closed, Coming, Distinct
<1>6. Replaying'
  <2> SUFFICES ASSUME NEW m \in Locked \ todo', lock[m].pin # None
               PROVE  cache[Pinned(m, lock[m])] # None \/ Working(lock[m])'
    BY DEF NextEntry, Replaying, Locked
  <2>1. CASE m = n
    BY <1>a, <2>1 DEF IInv, NextEntry, Phases, Working
  <2>2. CASE m # n
    BY <2>2 DEF IInv, NextEntry, Phases, Replaying, Working
  <2> QED
    BY <2>1, <2>2
<1> QED
  BY <1>1, <1>2, <1>3, <1>4, <1>5, <1>6 DEF IInv

(* InstallFromLock is through: every entry with a commit has its           *)
(* directory.                                                              *)
LEMMA ReplayedStep ==
  ASSUME IInv, Replayed
  PROVE  IInv'
<1> USE PackagesAssumption DEF disk, run, hist, bounds
<1>1. /\ RunTypes' /\ Phases' /\ Cached' /\ Recorded'
      /\ Closed' /\ Replaying' /\ Distinct'
  BY Ended DEF Replayed
<1>2. DiskTypes'
  BY DEF IInv, Replayed, End, DiskTypes
<1>3. OtherTypes'
  BY DEF IInv, Replayed, OtherTypes, Locked
<1>4. Named' /\ Whole'
  BY DEF IInv, Replayed, End, Named, Locked, Added, Phases, NoEntries, Whole, DiskTypes,
         Tree
<1>5. Vouched'
  <2>1. \A n \in Locked : lock[n].pin # None => cache[Pinned(n, lock[n])] # None
    BY DEF IInv, Replayed, Phases, Replaying, Working
  <2>2. lockOk
    BY DEF IInv, Replayed, Phases
  <2> QED
    BY <2>1, <2>2 DEF IInv, Replayed, End, Vouched, Locked
<1> QED
  BY <1>1, <1>2, <1>3, <1>4, <1>5 DEF IInv

(* nvs pkg remove: nothing vouches for the name any more. *)
LEMMA RemoveStep ==
  ASSUME IInv, NEW n \in Names, Remove(n)
  PROVE  IInv'
<1> USE PackagesAssumption DEF disk, run, hist, bounds
<1>1. DiskTypes' /\ OtherTypes' /\ RunTypes'
  BY DEF IInv, Remove, Start, Idle, DiskTypes, OtherTypes, RunTypes
<1>2. Phases' /\ Named' /\ Whole' /\ Vouched'
  BY DEF IInv, Remove, Start, Idle, RunTypes, DiskTypes, Phases, Locked, NoEntries,
         Named, Added, Whole, Tree, Vouched
<1>3. Cached' /\ Recorded' /\ Closed' /\ Replaying' /\ Distinct'
  BY DEF IInv, Remove, Start, Idle, Cached, Phases, Added, NoEntries, TopKey, Top,
         Recorded, Closed, Coming, Replaying, Working, Locked, Distinct
<1> QED
  BY <1>1, <1>2, <1>3 DEF IInv

(* Every directory of the removed name goes, and nothing vouched for has   *)
(* that name.                                                              *)
LEMMA RemoveDirsStep ==
  ASSUME IInv, RemoveDirs
  PROVE  IInv'
<1> USE PackagesAssumption DEF disk, run, hist, bounds
<1>1. DiskTypes' /\ OtherTypes' /\ RunTypes'
  BY DEF IInv, RemoveDirs, DiskTypes, OtherTypes, RunTypes
<1>2. Phases' /\ Named' /\ Whole'
  BY DEF IInv, RemoveDirs, RunTypes, DiskTypes, Phases, Locked, NoEntries, Named, Added,
         Whole, Tree
<1>3. Vouched'
  <2>1. todo \cap vouched = {}
    BY DEF IInv, RemoveDirs, Phases, Vouched
  <2>2. ASSUME NEW n \in vouched
        PROVE  cache'[Pinned(n, lock[n])] = cache[Pinned(n, lock[n])]
    <3>1. Pinned(n, lock[n]) \in Keys /\ Pinned(n, lock[n]).name = n
      BY <2>2, EntryDirectory DEF IInv, Vouched, OtherTypes, DiskTypes, Named, Locked
    <3> QED
      BY <2>1, <2>2, <3>1 DEF RemoveDirs
  <2> QED
    BY <2>1, <2>2 DEF IInv, RemoveDirs, Vouched
<1>4. Cached' /\ Recorded' /\ Closed' /\ Replaying' /\ Distinct'
  BY DEF IInv, RemoveDirs, Cached, Phases, Added, NoEntries, TopKey, Top, Recorded,
         Closed, Coming, Replaying, Working, Locked, Distinct
<1> QED
  BY <1>1, <1>2, <1>3, <1>4 DEF IInv

(* The entry of the removed name goes. *)
LEMMA UnlockStep ==
  ASSUME IInv, Unlock
  PROVE  IInv'
<1> USE PackagesAssumption DEF disk, run, hist, bounds
<1>1. /\ RunTypes' /\ Phases' /\ Cached' /\ Recorded'
      /\ Closed' /\ Replaying' /\ Distinct'
  BY Ended DEF Unlock
<1>2. DiskTypes' /\ OtherTypes'
  BY DEF IInv, Unlock, End, DiskTypes, OtherTypes
<1>3. Named' /\ Whole'
  BY DEF IInv, Unlock, End, Named, Locked, Added, Phases, NoEntries, Whole, DiskTypes,
         Tree
<1>4. Vouched'
  <2>1. todo \cap vouched = {} /\ vouched \subseteq Names
    BY DEF IInv, Unlock, Phases, Vouched, OtherTypes
  <2>2. \A n \in vouched : lock'[n] = lock[n]
    BY <2>1 DEF Unlock
  <2> QED
    BY <2>2 DEF IInv, Unlock, End, Vouched
<1> QED
  BY <1>1, <1>2, <1>3, <1>4 DEF IInv

(* A command killed while it copies leaves a torn directory of the name it *)
(* copies, for which nothing vouches then.                                 *)
LEMMA KilledInCopyStep ==
  ASSUME IInv, KilledInCopy
  PROVE  IInv'
<1> USE PackagesAssumption DEF disk, run, hist, bounds
<1>a. PICK fs \in SUBSET Files :
        cache' = [cache EXCEPT ![TopKey] = [of |-> <<Top.src, Top.rev>>, files |-> fs]]
  BY DEF KilledInCopy
<1>b. Top.src \in Sources /\ Top.rev \in Revs /\ TopKey \in Keys
  BY TopType DEF IInv, KilledInCopy, Phases
<1>c. /\ \A k \in Keys : k # TopKey => cache'[k] = cache[k]
      /\ cache'[TopKey] # None /\ TopKey.name = Name[Top.src]
  <2>1. [of |-> <<Top.src, Top.rev>>, files |-> fs] \in Trees
    BY <1>b DEF Trees
  <2> QED
    BY <1>a, <1>b, <2>1 DEF IInv, DiskTypes, TopKey, Key
<1>1. /\ RunTypes' /\ Phases' /\ Cached' /\ Recorded'
      /\ Closed' /\ Replaying' /\ Distinct'
  BY Ended DEF KilledInCopy, Killed
<1>2. DiskTypes'
  BY <1>a, <1>b, CopiedTypes DEF IInv, KilledInCopy, TopKey
<1>3. OtherTypes'
  BY <1>b DEF IInv, KilledInCopy, Killed, OtherTypes, Names
<1>4. Named'
  BY DEF IInv, KilledInCopy, Killed, End, Named, Locked, Added, Phases, NoEntries
<1>5. Whole'
  BY <1>c DEF IInv, KilledInCopy, Whole
<1>6. Vouched'
  <2>1. \A n \in vouched : Pinned(n, lock[n]) \in Keys
    BY EntryDirectory DEF IInv, Vouched, OtherTypes, DiskTypes, Named, Locked
  <2>2. \A n \in vouched : cache'[Pinned(n, lock[n])] # None
    BY <1>c, <2>1 DEF IInv, Vouched
  <2> QED
    BY <2>2 DEF IInv, KilledInCopy, Killed, End, Vouched
<1> QED
  BY <1>1, <1>2, <1>3, <1>4, <1>5, <1>6 DEF IInv

(* A command killed while it deletes leaves torn directories of a name for *)
(* which nothing vouches.                                                  *)
LEMMA KilledInRemoveStep ==
  ASSUME IInv, KilledInRemove
  PROVE  IInv'
<1> USE PackagesAssumption DEF disk, run, hist, bounds
<1>a. PICK gone \in SUBSET Keys, fs \in SUBSET Files :
        cache' = [k \in Keys |->
                    IF k.name \notin todo \/ cache[k] = None THEN cache[k]
                    ELSE IF k \in gone THEN None
                    ELSE [cache[k] EXCEPT !.files = @ \cap fs]]
  BY DEF KilledInRemove
<1>b. todo \cap vouched = {} /\ todo \subseteq Names
  BY DEF IInv, KilledInRemove, Phases, Vouched, RunTypes
<1>1. /\ RunTypes' /\ Phases' /\ Cached' /\ Recorded'
      /\ Closed' /\ Replaying' /\ Distinct'
  BY Ended DEF KilledInRemove, Killed
<1>2. DiskTypes'
  <2>1. ASSUME NEW k \in Keys
        PROVE  /\ cache'[k] \in Trees \cup {None}
               /\ cache'[k] # None => cache'[k].of = cache[k].of /\ cache[k] # None
    <3>1. cache[k] \in Trees \cup {None}
      BY DEF IInv, DiskTypes
    <3>2. cache[k] # None => /\ [cache[k] EXCEPT !.files = @ \cap fs] \in Trees
                             /\ [cache[k] EXCEPT !.files = @ \cap fs].of = cache[k].of
      BY <3>1 DEF Trees
    <3>3. cache'[k] = IF k.name \notin todo \/ cache[k] = None THEN cache[k]
                      ELSE IF k \in gone THEN None
                      ELSE [cache[k] EXCEPT !.files = @ \cap fs]
      BY <1>a
    <3> QED
      BY <3>1, <3>2, <3>3
  <2>2. cache' \in [Keys -> Trees \cup {None}]
    BY <1>a, <2>1
  <2> QED
    BY <2>1, <2>2 DEF IInv, KilledInRemove, DiskTypes
<1>3. OtherTypes'
  BY <1>b DEF IInv, KilledInRemove, Killed, OtherTypes
<1>4. Named' /\ Whole'
  BY DEF IInv, KilledInRemove, Killed, End, Named, Locked, Added, Phases, NoEntries,
         Whole, DiskTypes, Tree
<1>5. Vouched'
  <2>1. ASSUME NEW n \in vouched
        PROVE  cache'[Pinned(n, lock[n])] = cache[Pinned(n, lock[n])]
    <3>1. Pinned(n, lock[n]) \in Keys /\ Pinned(n, lock[n]).name = n
      BY <2>1, EntryDirectory DEF IInv, Vouched, OtherTypes, DiskTypes, Named, Locked
    <3> QED
      BY <1>a, <1>b, <2>1, <3>1
  <2> QED
    BY <1>b, <2>1 DEF IInv, KilledInRemove, Killed, End, Vouched
<1> QED
  BY <1>1, <1>2, <1>3, <1>4, <1>5 DEF IInv

(* A command killed while it writes the lock leaves one that cannot be     *)
(* read.                                                                   *)
LEMMA KilledInWriteStep ==
  ASSUME IInv, KilledInWrite
  PROVE  IInv'
<1> USE PackagesAssumption DEF disk, run, hist, bounds
<1>1. /\ RunTypes' /\ Phases' /\ Cached' /\ Recorded'
      /\ Closed' /\ Replaying' /\ Distinct'
  BY Ended DEF KilledInWrite, Killed
<1>2. OtherTypes'
  BY DEF IInv, KilledInWrite, Killed, End, OtherTypes
<1>3. DiskTypes'
  <2>1. lock' \in [Names -> Entries \cup {None}]
    BY DEF KilledInWrite, NoEntries
  <2> QED
    BY <2>1 DEF IInv, KilledInWrite, DiskTypes
<1>4. Named' /\ Whole' /\ Vouched'
  BY DEF IInv, KilledInWrite, Killed, End, Named, Locked, Added, Phases, NoEntries,
         Whole, DiskTypes, Tree, Vouched
<1> QED
  BY <1>1, <1>2, <1>3, <1>4 DEF IInv

(* A command killed elsewhere leaves the disk as it is. *)
LEMMA KilledElsewhereStep ==
  ASSUME IInv, KilledElsewhere
  PROVE  IInv'
<1> USE PackagesAssumption DEF disk, run, hist, bounds
<1>1. /\ RunTypes' /\ Phases' /\ Cached' /\ Recorded'
      /\ Closed' /\ Replaying' /\ Distinct'
  BY Ended DEF KilledElsewhere, Killed
<1>2. DiskTypes' /\ OtherTypes'
  BY DEF IInv, KilledElsewhere, Killed, End, DiskTypes, OtherTypes
<1>3. Named' /\ Whole' /\ Vouched'
  BY DEF IInv, KilledElsewhere, Killed, End, Named, Locked, Added, Phases, NoEntries,
         Whole, DiskTypes, Tree, Vouched
<1> QED
  BY <1>1, <1>2, <1>3 DEF IInv

(* A release changes what is upstream. *)
LEMMA ReleaseStep ==
  ASSUME IInv, NEW s \in Sources, Release(s)
  PROVE  IInv'
<1> USE PackagesAssumption DEF disk, run, hist, bounds
<1>1. DiskTypes' /\ RunTypes'
  BY DEF IInv, Release, DiskTypes, RunTypes
<1>2. OtherTypes'
  <2>1. upstream' \in [Sources -> Revs]
    BY DEF IInv, Release, OtherTypes, Revs
  <2> QED
    BY <2>1 DEF IInv, Release, OtherTypes
<1>3. Phases' /\ Named' /\ Whole' /\ Vouched'
  BY DEF IInv, Release, RunTypes, DiskTypes, Phases, Locked, NoEntries, Named, Added,
         Whole, Tree, Vouched
<1>4. Cached' /\ Recorded' /\ Closed' /\ Replaying' /\ Distinct'
  BY DEF IInv, Release, Cached, Phases, Added, NoEntries, TopKey, Top, Recorded, Closed,
         Coming, Replaying, Working, Locked, Distinct
<1> QED
  BY <1>1, <1>2, <1>3, <1>4 DEF IInv

(* The cache is deleted by hand. *)
LEMMA EmptyCacheStep ==
  ASSUME IInv, EmptyCache
  PROVE  IInv'
<1> USE PackagesAssumption DEF disk, run, hist, bounds
<1>1. DiskTypes' /\ OtherTypes' /\ RunTypes'
  BY DEF IInv, EmptyCache, ByHand, Idle, DiskTypes, OtherTypes, RunTypes
<1>2. Phases' /\ Named' /\ Whole' /\ Vouched'
  BY DEF IInv, EmptyCache, ByHand, Idle, RunTypes, DiskTypes, Phases, Locked, NoEntries,
         Named, Added, Whole, Tree, Vouched
<1>3. Cached' /\ Recorded' /\ Closed' /\ Replaying' /\ Distinct'
  BY DEF IInv, EmptyCache, ByHand, Idle, Cached, Phases, Added, NoEntries, TopKey, Top,
         Recorded, Closed, Coming, Replaying, Working, Locked, Distinct
<1> QED
  BY <1>1, <1>2, <1>3 DEF IInv

(* The lock is deleted by hand. *)
LEMMA DeleteLockStep ==
  ASSUME IInv, DeleteLock
  PROVE  IInv'
<1> USE PackagesAssumption DEF disk, run, hist, bounds
<1>1. OtherTypes' /\ RunTypes'
  BY DEF IInv, DeleteLock, ByHand, Idle, OtherTypes, RunTypes
<1>2. DiskTypes'
  <2>1. lock' \in [Names -> Entries \cup {None}]
    BY DEF DeleteLock, NoEntries
  <2> QED
    BY <2>1 DEF IInv, DeleteLock, DiskTypes
<1>3. Phases' /\ Named' /\ Whole' /\ Vouched'
  BY DEF IInv, DeleteLock, ByHand, Idle, RunTypes, DiskTypes, Phases, Locked, NoEntries,
         Named, Added, Whole, Tree, Vouched
<1>4. Cached' /\ Recorded' /\ Closed' /\ Replaying' /\ Distinct'
  BY DEF IInv, DeleteLock, ByHand, Idle, Cached, Phases, Added, NoEntries, TopKey, Top,
         Recorded, Closed, Coming, Replaying, Working, Locked, Distinct
<1> QED
  BY <1>1, <1>2, <1>3, <1>4 DEF IInv

(* A stuttering step. *)
LEMMA StutterStep ==
  ASSUME IInv, UNCHANGED vars
  PROVE  IInv'
<1> USE PackagesAssumption DEF disk, run, hist, bounds
<1>1. DiskTypes' /\ OtherTypes' /\ RunTypes'
  BY DEF IInv, vars, DiskTypes, OtherTypes, RunTypes
<1>2. Phases' /\ Named' /\ Whole' /\ Vouched'
  BY DEF IInv, vars, RunTypes, DiskTypes, Phases, Locked, NoEntries, Named, Added, Whole,
         Tree, Vouched
<1>3. Cached' /\ Recorded' /\ Closed' /\ Replaying' /\ Distinct'
  BY DEF IInv, vars, Cached, Phases, Added, NoEntries, TopKey, Top, Recorded, Closed,
         Coming, Replaying, Working, Locked, Distinct
<1> QED
  BY <1>1, <1>2, <1>3 DEF IInv

-----------------------------------------------------------------------------
(* Every step of a command, of a crash and of the world around preserves   *)
(* the invariant.                                                          *)
LEMMA Step == IInv /\ [Next]_vars => IInv'
<1> SUFFICES ASSUME IInv, [Next]_vars PROVE IInv'
  OBVIOUS
<1>1. CASE \E spec \in Specs : Install(spec)
  BY <1>1, InstallStep
<1>2. CASE Replay \/ \E n \in Names : Remove(n)
  BY <1>2, ReplayStep, RemoveStep
<1>3. CASE Progress
  <2>1. CASE Fetch \/ Copy \/ Record \/ Return \/ Merge
    BY <2>1, FetchStep, CopyStep, RecordStep, ReturnStep, MergeStep
  <2>2. CASE FetchRefused \/ ReturnFails
    BY <2>2, FailingStep DEF FetchRefused, ReturnFails
  <2>3. CASE (\E d \in Specs : Dependency(d)) \/ (\E n \in Names : NextEntry(n))
    BY <2>3, DependencyStep, NextEntryStep
  <2>4. CASE Replayed \/ RemoveDirs \/ Unlock
    BY <2>4, ReplayedStep, RemoveDirsStep, UnlockStep
  <2> QED
    BY <1>3, <2>1, <2>2, <2>3, <2>4 DEF Progress
<1>4. CASE FetchFails \/ CopyFails
  BY <1>4, FailingStep DEF FetchFails, CopyFails
<1>5. CASE Crash
  BY <1>5, KilledInCopyStep, KilledInRemoveStep, KilledInWriteStep, KilledElsewhereStep
     DEF Crash
<1>6. CASE (\E s \in Sources : Release(s)) \/ EmptyCache \/ DeleteLock
  BY <1>6, ReleaseStep, EmptyCacheStep, DeleteLockStep
<1>7. CASE UNCHANGED vars
  BY <1>7, StutterStep
<1> QED
  BY <1>1, <1>2, <1>3, <1>4, <1>5, <1>6, <1>7 DEF Next

(* Every state the package manager can be in satisfies the invariant. *)
LEMMA Invariance == Spec => []IInv
BY Initialization, Step, PTL DEF Spec

(* Every variable always holds a value of its type: a directory holds a    *)
(* tree of the name, version and commit it is called after, and a lock     *)
(* entry is one a revision of its source can have.                         *)
THEOREM TypeCorrect == Spec => []TypeOK
<1>1. IInv => TypeOK
  BY DEF IInv, DiskTypes, RunTypes, OtherTypes, TypeOK
<1> QED
  BY <1>1, Invariance, PTL

(* The local builds that import finds for a locked name and version. *)
LocalBuilds(n) == {k \in DirsOf(n) : k.version = lock[n].version /\ k.pin = None}

(* matchCandidate: with the locked directory there, import takes a local   *)
(* build of its version if there is one, and else the locked commit.       *)
LEMMA LocalOrLocked ==
  ASSUME IInv, NEW n \in Names, lockOk, lock[n] # None,
         cache[Pinned(n, lock[n])] # None
  PROVE  /\ Pinned(n, lock[n]) \in DirsOf(n)
         /\ lock[n].pin # None => cache[Pinned(n, lock[n])].of = lock[n].pin
         /\ Resolve(n) = IF LocalBuilds(n) # {} THEN LocalBuilds(n)
                         ELSE {Pinned(n, lock[n])}
<1> DEFINE e == lock[n]
           p == Pinned(n, e)
<1>1. e \in Entries /\ Name[e.src] = n
  BY DEF IInv, DiskTypes, Named, Locked
<1>2. p \in Keys /\ p.name = n /\ p.version = e.version /\ p.pin = e.pin
  BY <1>1, EntryDirectory DEF Pinned
<1>3. p \in DirsOf(n)
  BY <1>2 DEF DirsOf
<1>4. e.pin # None => cache[p].of = e.pin
  <2>1. cache[p] \in Trees /\ p = Key(cache[p].of[1], cache[p].of[2])
    BY <1>2 DEF IInv, DiskTypes
  <2>2. cache[p].of = <<cache[p].of[1], cache[p].of[2]>>
    BY <2>1 DEF Trees
  <2> QED
    BY <1>2, <2>1, <2>2 DEF Key, Pin
<1>5. Matches(n) = IF LocalBuilds(n) # {} THEN LocalBuilds(n) ELSE {p}
  BY <1>2, <1>3 DEF Matches, LocalBuilds
<1> QED
  BY <1>3, <1>4, <1>5 DEF Resolve

(* mergeLock, InstallFromLock and ResolveImport: what a completed command  *)
(* has locked is imported whole and at the locked version, whatever fails, *)
(* is killed or is released afterwards.                                    *)
THEOREM LockedCanBeImported == Spec => []LockedImports
<1>1. ASSUME IInv
      PROVE  LockedImports
  <2> SUFFICES ASSUME NEW n \in vouched
               PROVE  Importable(n)
    BY DEF LockedImports
  <2> DEFINE e == lock[n]
             p == Pinned(n, e)
  <2>1. /\ n \in Names /\ n \notin torn /\ lockOk /\ e # None /\ e \in Entries
        /\ cache[p] # None /\ Name[e.src] = n
    BY <1>1 DEF IInv, Vouched, OtherTypes, DiskTypes, Named, Locked
  <2>2. cache[p].files = Files
    BY <1>1, <2>1, EntryDirectory DEF IInv, Whole
  <2>3. \A k \in Resolve(n) : k \in DirsOf(n) /\ k.version = e.version
    BY <1>1, <2>1, LocalOrLocked DEF LocalBuilds, Pinned
  <2>4. Resolve(n) # {} /\ (e.pin # None => cache[p].of = e.pin)
    BY <1>1, <2>1, LocalOrLocked
  <2>5. \A k \in DirsOf(n) : cache[k].files = Files
    BY <1>1, <2>1 DEF IInv, Whole, DirsOf
  <2> QED
    BY <2>1, <2>2, <2>3, <2>4, <2>5 DEF Importable
<1> QED
  BY <1>1, Invariance, PTL

(* findCachedDir: for what a completed command has locked, a local build   *)
(* of the locked version is the only thing that import prefers to the      *)
(* commit in the lock.                                                     *)
LockWinsOrLocal ==
  \A n \in vouched : Resolve(n) = IF LocalBuilds(n) # {} THEN LocalBuilds(n)
                                  ELSE {Pinned(n, lock[n])}

THEOREM OnlyLocalBuildsBeatTheLock == Spec => []LockWinsOrLocal
<1>1. IInv => LockWinsOrLocal
  <2> SUFFICES ASSUME IInv, NEW n \in vouched
               PROVE  Resolve(n) = IF LocalBuilds(n) # {} THEN LocalBuilds(n)
                                   ELSE {Pinned(n, lock[n])}
    BY DEF LockWinsOrLocal
  <2>1. n \in Names /\ lockOk /\ lock[n] # None /\ cache[Pinned(n, lock[n])] # None
    BY DEF IInv, OtherTypes, Vouched
  <2> QED
    BY <2>1, LocalOrLocked
<1> QED
  BY <1>1, Invariance, PTL

(* installTree and mergeLock: a lock that is written has an entry for      *)
(* every dependency of every commit that was added to it.                  *)
THEOREM LocksAreClosed == Spec => LockIsClosed
<1>1. ASSUME IInv, Merge, lockOk,
             NEW n \in Added, NEW r \in Revs,
             Entry(added[n].src, r) = added[n], added[n].pin # None,
             NEW d \in Deps[added[n].src][r]
      PROVE  lock'[d.name] # None
  <2>1. stack = <<>>
    BY <1>1 DEF IInv, Phases, Merge
  <2>2. d.name \in Added
    BY <1>1, <2>1 DEF IInv, Closed, Coming
  <2> QED
    BY <1>1, <2>2 DEF Merge, Added
<1>2. IInv => (Merge /\ lockOk => \A n \in Added : \A r \in Revs :
        Entry(added[n].src, r) = added[n] /\ added[n].pin # None =>
          \A d \in Deps[added[n].src][r] : lock'[d.name] # None)
  BY <1>1
<1> QED
  BY <1>2, Invariance, PTL DEF LockIsClosed

(* The names of the calls in progress are as many as the calls. *)
LEMMA NamesOfCalls ==
  ASSUME IInv
  PROVE  /\ [i \in DOMAIN stack |-> Name[stack[i].src]] \in Injection(DOMAIN stack, Names)
         /\ IsFiniteSet(DOMAIN stack) /\ Cardinality(DOMAIN stack) = Len(stack)
         /\ Len(stack) \in Nat
<1> DEFINE f == [i \in DOMAIN stack |-> Name[stack[i].src]]
<1>1. DOMAIN stack = 1..Len(stack) /\ Len(stack) \in Nat
  BY DEF IInv, RunTypes
<1>2. f \in [DOMAIN stack -> Names]
  <2>1. \A i \in DOMAIN stack : stack[i] \in Calls
    BY DEF IInv, RunTypes
  <2> QED
    BY <2>1 DEF Calls, Names
<1>3. \A i, j \in DOMAIN stack : f[i] = f[j] => i = j
  BY DEF IInv, Distinct
<1>4. IsFiniteSet(1..Len(stack))
      /\ Cardinality(1..Len(stack)) = IF 1 > Len(stack) THEN 0 ELSE Len(stack) - 1 + 1
  BY <1>1, FS_Interval
<1>5. f \in Injection(DOMAIN stack, Names)
  BY <1>2, <1>3, Fun_IsInj
<1> QED
  BY <1>1, <1>4, <1>5

(* ... and no more than there are names. *)
LEMMA CallsAreBounded ==
  ASSUME IsFiniteSet(Names)
  PROVE  IInv => NestingBounded
<1> SUFFICES ASSUME IInv PROVE NestingBounded
  OBVIOUS
<1>1. Cardinality(DOMAIN stack) <= Cardinality(Names)
  BY NamesOfCalls, FS_Injection
<1> QED
  BY <1>1, NamesOfCalls DEF NestingBounded

(* ... in the next state as well. *)
LEMMA CallsAreBoundedNext ==
  ASSUME IsFiniteSet(Names)
  PROVE  IInv' => NestingBounded'
<1>1. (IInv => NestingBounded)'
  BY CallsAreBounded, PTL
<1> QED
  BY <1>1

(* The cycle check of installOne: the calls in progress have different     *)
(* names, so that no manifests make the recursion go deeper than there are *)
(* names.                                                                  *)
THEOREM NestingIsBounded ==
  ASSUME IsFiniteSet(Names)
  PROVE  Spec => []NestingBounded
BY CallsAreBounded, Invariance, PTL

(* A package that is not on the stack has room on it: the bound on the     *)
(* depth, that of the model, refuses nothing that installOne does not.     *)
THEOREM NestingCutsNothing ==
  ASSUME IsFiniteSet(Names), Cardinality(Names) <= MaxDepth
  PROVE  Spec => [](pc = "fetch" /\ ~OnStack(want.src) => Len(stack) < MaxDepth)
<1>1. ASSUME IInv, pc = "fetch", ~OnStack(want.src)
      PROVE  Len(stack) < MaxDepth
  <2> DEFINE f == [i \in DOMAIN stack |-> Name[stack[i].src]]
  <2>1. f \in Injection(DOMAIN stack, Names)
    BY <1>1, NamesOfCalls
  <2>2. Name[want.src] \in Names
    BY <1>1 DEF IInv, RunTypes, Phases, Specs, Names
  <2>3. \A i \in DOMAIN f : f[i] # Name[want.src]
    BY <1>1 DEF OnStack
  <2>4. f \notin Surjection(DOMAIN stack, Names)
    BY <2>2, <2>3 DEF Surjection
  <2>5. /\ Cardinality(DOMAIN stack) <= Cardinality(Names)
        /\ Cardinality(DOMAIN stack) # Cardinality(Names)
    BY <2>1, <2>4, FS_Injection
  <2>6. Cardinality(Names) \in Nat
    BY FS_CardinalityType
  <2> QED
    BY <1>1, <2>5, <2>6, NamesOfCalls, PackagesAssumption
<1> QED
  BY <1>1, Invariance, PTL

-----------------------------------------------------------------------------
(* A command ends: what is left of it. *)

(* What is still to be done at one level of a command: 0 is the list of    *)
(* InstallFromLock, or the directories to remove; i the i-th nested call   *)
(* of installOne, which is to come, at work, or over.                      *)
Stage == IF pc = "copy" THEN 2 ELSE IF pc = "record" THEN 1 ELSE 0
Work(i) ==
  IF i = 0 THEN <<0, Cardinality(todo) + (IF pc = "remove" THEN 1 ELSE 0)>>
  ELSE IF i <= Len(stack)
       THEN <<1, Cardinality(stack[i].deps) + (IF i = Len(stack) THEN Stage ELSE 0)>>
  ELSE IF i = Len(stack) + 1 /\ pc = "fetch" THEN <<2, 0>> ELSE <<0, 0>>

Before(a, b) == a[1] < b[1] \/ (a[1] = b[1] /\ a[2] < b[2])

(* There is less to do at some level, and as much as before at those       *)
(* outside it.  The levels are as many as the names and one, and what is   *)
(* to do at each is a pair of numbers: this cannot go on for ever.         *)
Nearer ==
  \E i \in 0..Cardinality(Names) :
    /\ Before(Work(i)', Work(i))
    /\ \A j \in 0..(i - 1) : Work(j)' = Work(j)

RunsDown ==
  [][~Idle /\ ~(\E s \in Sources : Release(s)) => Idle' \/ Nearer]_vars

(* Every manifest lists finitely many dependencies, and so does every call *)
(* of installTree that has read one.                                       *)
FiniteManifests == \A s \in Sources, r \in Revs : IsFiniteSet(Deps[s][r])
FiniteCalls == \A i \in DOMAIN stack : IsFiniteSet(stack[i].deps)

LEMMA FiniteCallsStep ==
  ASSUME FiniteManifests, IInv, FiniteCalls, [Next]_vars
  PROVE  FiniteCalls'
<1>1. CASE UNCHANGED stack
  BY <1>1 DEF FiniteCalls
<1>2. CASE stack' = <<>>
  BY <1>2 DEF FiniteCalls
<1>3. CASE Fetch
  <2>1. want.src \in Sources /\ Revision(want) \in Revs /\ stack \in Seq(Calls)
    BY <1>3, PackagesAssumption
       DEF IInv, Fetch, RunTypes, OtherTypes, Phases, Specs, Revision, Revs
  <2>2. \A i \in DOMAIN stack' :
          \/ i \in DOMAIN stack /\ stack'[i] = stack[i]
          \/ stack'[i].deps = Deps[want.src][Revision(want)]
    BY <1>3, <2>1 DEF Fetch
  <2> QED
    BY <2>1, <2>2 DEF FiniteCalls, FiniteManifests
<1>4. ASSUME NEW d \in Specs, Dependency(d) PROVE FiniteCalls'
  <2>1. ASSUME NEW i \in DOMAIN stack PROVE IsFiniteSet(stack'[i].deps)
    <3>1. IsFiniteSet(stack[i].deps) /\ IsFiniteSet(stack[i].deps \ {d})
      BY FS_RemoveElement DEF FiniteCalls
    <3> QED
      BY <1>4, <3>1, DependencyStack
  <2> QED
    BY <1>4, <2>1, DependencyStack DEF FiniteCalls
<1>5. CASE Return
  BY <1>5, ReturnStack DEF FiniteCalls, IInv, RunTypes
<1>6. CASE UNCHANGED vars \/ Copy \/ Record \/ RemoveDirs \/ EmptyCache \/ DeleteLock
           \/ \E s \in Sources : Release(s)
  BY <1>1, <1>6 DEF vars, run, Copy, Record, RemoveDirs, EmptyCache, DeleteLock, Release
<1>7. CASE Replay \/ (\E spec \in Specs : Install(spec))
           \/ \E n \in Names : NextEntry(n) \/ Remove(n)
  BY <1>1, <1>7 DEF Replay, Install, NextEntry, Remove
<1>8. CASE FetchRefused \/ ReturnFails \/ FetchFails \/ CopyFails
  BY <1>2, <1>8 DEF FetchRefused, ReturnFails, FetchFails, CopyFails, Fail, End
<1>9. CASE Merge \/ Replayed \/ Unlock \/ Crash
  BY <1>2, <1>9 DEF Merge, Replayed, Unlock, Crash, KilledInCopy, KilledInRemove,
                    KilledInWrite, KilledElsewhere, Killed, End
<1> QED
  BY <1>3, <1>4, <1>5, <1>6, <1>7, <1>8, <1>9 DEF Next, Progress

(* What is left at a level is a pair of numbers. *)
LEMMA WorkType ==
  ASSUME IsFiniteSet(Names), IInv, FiniteCalls, NEW i \in Nat
  PROVE  /\ i = 0 => Cardinality(todo) \in Nat
         /\ i \in DOMAIN stack => Cardinality(stack[i].deps) \in Nat
<1>1. IsFiniteSet(todo)
  BY FS_Subset DEF IInv, RunTypes
<1> QED
  BY <1>1, FS_CardinalityType DEF FiniteCalls

(* A call of installOne begins: the level it is to come at is at work.     *)
LEMMA FetchIsNearer ==
  ASSUME IsFiniteSet(Names), IInv, IInv', Fetch
  PROVE  Nearer
<1>1. /\ stack \in Seq(Calls) /\ Len(stack) \in Nat
      /\ stack' \in Seq(Calls) /\ Len(stack') = Len(stack) + 1
  BY DEF IInv, RunTypes, Fetch
<1> SUFFICES ASSUME NEW n \in Nat \ {0}, n = Len(stack) + 1 PROVE Nearer
  BY <1>1
<1>2. n \in 0..Cardinality(Names)
  <2>1. NestingBounded'
    BY CallsAreBoundedNext
  <2> QED
    BY <1>1, <2>1, FS_CardinalityType DEF NestingBounded
<1>3. Before(Work(n)', Work(n))
  BY <1>1 DEF Before, Work, Fetch
<1>4. ASSUME NEW j \in 0..(n - 1) PROVE Work(j)' = Work(j)
  <2>1. CASE j = 0
    BY <2>1 DEF Work, Fetch
  <2>2. CASE j # 0
    <3>1. j \in DOMAIN stack /\ stack'[j] = stack[j] /\ j # n
      BY <1>1, <2>2 DEF Fetch
    <3>2. Work(j) = <<1, Cardinality(stack[j].deps) + 0>>
      BY <1>1, <2>2, <3>1 DEF Work, Stage, Fetch
    <3>3. Work(j)' = <<1, Cardinality(stack'[j].deps) + 0>>
      BY <1>1, <2>2, <3>1 DEF Work
    <3> QED
      BY <3>1, <3>2, <3>3
  <2> QED
    BY <2>1, <2>2
<1> QED
  BY <1>2, <1>3, <1>4 DEF Nearer

(* The call that is being worked on is one of the levels. *)
LEMMA TopLevel ==
  ASSUME IsFiniteSet(Names), IInv, stack # <<>>
  PROVE  /\ Len(stack) \in Nat \ {0} /\ Len(stack) \in 0..Cardinality(Names)
         /\ Len(stack) \in DOMAIN stack /\ DOMAIN stack = 1..Len(stack)
<1>1. stack \in Seq(Calls) /\ Len(stack) \in Nat \ {0} /\ NestingBounded
  BY CallsAreBounded, TopType DEF IInv, RunTypes
<1> QED
  BY <1>1, FS_CardinalityType DEF NestingBounded

(* It has its tree copied, and then its entry recorded. *)
LEMMA StageIsNearer ==
  ASSUME IsFiniteSet(Names), IInv, FiniteCalls, Copy \/ Record
  PROVE  Nearer
<1>1. stack # <<>> /\ UNCHANGED <<stack, todo>>
  BY DEF IInv, Phases, Copy, Record
<1> SUFFICES ASSUME NEW n \in Nat \ {0}, n = Len(stack) PROVE Nearer
  BY <1>1, TopLevel
<1>2. n \in 0..Cardinality(Names) /\ Cardinality(stack[n].deps) \in Nat
  BY <1>1, TopLevel, WorkType
<1>3. Before(Work(n)', Work(n))
  BY <1>1, <1>2 DEF Before, Work, Stage, Copy, Record
<1>4. ASSUME NEW j \in 0..(n - 1) PROVE Work(j)' = Work(j)
  BY <1>1 DEF Work, Copy, Record
<1> QED
  BY <1>2, <1>3, <1>4 DEF Nearer

(* It calls for one of its dependencies. *)
LEMMA DependencyIsNearer ==
  ASSUME IsFiniteSet(Names), IInv, FiniteCalls, NEW d \in Specs, Dependency(d)
  PROVE  Nearer
<1>1. stack # <<>> /\ UNCHANGED todo /\ pc = "deps" /\ pc' = "fetch"
  BY DEF IInv, Phases, Dependency
<1> SUFFICES ASSUME NEW n \in Nat \ {0}, n = Len(stack) PROVE Nearer
  BY <1>1, TopLevel
<1>2. n \in 0..Cardinality(Names) /\ Cardinality(stack[n].deps) \in Nat
  BY <1>1, TopLevel, WorkType
<1>3. /\ Len(stack') = n /\ stack'[n].deps = stack[n].deps \ {d}
      /\ \A j \in 1..(n - 1) : stack'[j].deps = stack[j].deps
  <2>1. n \in DOMAIN stack /\ \A j \in 1..(n - 1) : j \in DOMAIN stack /\ j # n
    BY <1>1, TopLevel
  <2>2. /\ Len(stack') = Len(stack)
        /\ \A i \in DOMAIN stack : stack'[i].deps =
             IF i = Len(stack) THEN stack[i].deps \ {d} ELSE stack[i].deps
    BY DependencyStack
  <2> QED
    BY <2>1, <2>2
<1>4. Cardinality(stack'[n].deps) = Cardinality(stack[n].deps) - 1
  <2>1. IsFiniteSet(stack[n].deps) /\ d \in stack[n].deps
    BY <1>1, TopLevel DEF FiniteCalls, Dependency, Top
  <2>2. Cardinality(stack[n].deps \ {d}) = Cardinality(stack[n].deps) - 1
    BY <2>1, FS_RemoveElement
  <2> QED
    BY <1>3, <2>2
<1>5. Before(Work(n)', Work(n))
  BY <1>1, <1>2, <1>3, <1>4 DEF Before, Work, Stage
<1>6. ASSUME NEW j \in 0..(n - 1) PROVE Work(j)' = Work(j)
  BY <1>1, <1>3 DEF Work
<1> QED
  BY <1>2, <1>5, <1>6 DEF Nearer

(* It is over, and its caller goes on where it was. *)
LEMMA ReturnIsNearer ==
  ASSUME IsFiniteSet(Names), IInv, FiniteCalls, Return
  PROVE  Nearer
<1>1. /\ stack # <<>> /\ UNCHANGED todo
      /\ pc = "deps" /\ pc' \in {"deps", "merge", "next"}
  BY DEF IInv, Phases, Return
<1> SUFFICES ASSUME NEW n \in Nat \ {0}, n = Len(stack) PROVE Nearer
  BY <1>1, TopLevel
<1>2. n \in 0..Cardinality(Names) /\ Cardinality(stack[n].deps) \in Nat
  BY <1>1, TopLevel, WorkType
<1>3. Len(stack') = n - 1 /\ \A j \in 1..(n - 1) : stack'[j] = stack[j]
  BY ReturnStack
<1>4. Before(Work(n)', Work(n))
  BY <1>1, <1>2, <1>3 DEF Before, Work, Stage
<1>5. ASSUME NEW j \in 0..(n - 1) PROVE Work(j)' = Work(j)
  <2>1. CASE j = 0
    BY <1>1, <2>1 DEF Work
  <2>2. CASE j # 0
    <3>1. Work(j) = <<1, Cardinality(stack[j].deps) + 0>>
      BY <1>1, <2>2 DEF Work
    <3>2. Work(j)' = <<1, Cardinality(stack'[j].deps) + 0>>
      BY <1>1, <1>3, <2>2 DEF Work, Stage
    <3> QED
      BY <1>3, <2>2, <3>1, <3>2
  <2> QED
    BY <2>1, <2>2
<1> QED
  BY <1>2, <1>4, <1>5 DEF Nearer

(* InstallFromLock takes a name off its list; remove has its directories   *)
(* deleted.                                                                *)
LEMMA ListIsNearer ==
  ASSUME IsFiniteSet(Names), IInv, RemoveDirs \/ \E n \in Names : NextEntry(n)
  PROVE  Nearer
<1>1. IsFiniteSet(todo) /\ Cardinality(todo) \in Nat /\ 0 \in 0..Cardinality(Names)
  BY FS_Subset, FS_CardinalityType DEF IInv, RunTypes
<1>2. Before(Work(0)', Work(0))
  <2>1. CASE RemoveDirs
    BY <1>1, <2>1 DEF Before, Work, RemoveDirs
  <2>2. CASE \E n \in Names : NextEntry(n)
    <3>1. PICK n \in Names : NextEntry(n)
      BY <2>2
    <3>2. Cardinality(todo') = Cardinality(todo) - 1
      BY <1>1, <3>1, FS_RemoveElement DEF NextEntry
    <3> QED
      BY <1>1, <3>1, <3>2 DEF Before, Work, NextEntry
  <2> QED
    BY <2>1, <2>2
<1> QED
  BY <1>1, <1>2 DEF Nearer

(* The safety half of CommandsEnd, for finite manifests of finitely many   *)
(* names: every step that a running command takes, whatever fails and      *)
(* whatever is released meanwhile, ends it or leaves it less to do.        *)
THEOREM CommandsRunDown ==
  ASSUME IsFiniteSet(Names), FiniteManifests
  PROVE  Spec => RunsDown
<1>1. Init => FiniteCalls
  BY DEF Init, FiniteCalls
<1>2. IInv /\ FiniteCalls /\ [Next]_vars => FiniteCalls'
  BY FiniteCallsStep
<1>3. ASSUME IInv, IInv', FiniteCalls, Next, ~Idle, ~(\E s \in Sources : Release(s))
      PROVE  Idle' \/ Nearer
  <2>1. CASE Fetch \/ Copy \/ Record \/ Return
    BY <1>3, <2>1, FetchIsNearer, StageIsNearer, ReturnIsNearer
  <2>2. CASE \E d \in Specs : Dependency(d)
    BY <1>3, <2>2, DependencyIsNearer
  <2>3. CASE RemoveDirs \/ \E n \in Names : NextEntry(n)
    BY <1>3, <2>3, ListIsNearer
  <2>4. CASE FetchRefused \/ ReturnFails \/ FetchFails \/ CopyFails
    BY <2>4 DEF FetchRefused, ReturnFails, FetchFails, CopyFails, Fail, End, Idle
  <2>5. CASE Merge \/ Replayed \/ Unlock \/ Crash
    BY <2>5 DEF Merge, Replayed, Unlock, Crash, KilledInCopy, KilledInRemove,
                KilledInWrite, KilledElsewhere, Killed, End, Idle
  <2>6. ~((\E spec \in Specs : Install(spec)) \/ Replay \/ (\E n \in Names : Remove(n))
          \/ EmptyCache \/ DeleteLock)
    BY <1>3 DEF Install, Replay, Remove, Start, EmptyCache, DeleteLock, ByHand
  <2> QED
    BY <1>3, <2>1, <2>2, <2>3, <2>4, <2>5, <2>6 DEF Next, Progress
<1>4. IInv /\ IInv' /\ FiniteCalls /\ [Next]_vars =>
        [~Idle /\ ~(\E s \in Sources : Release(s)) => Idle' \/ Nearer]_vars
  BY <1>3
<1> QED
  BY <1>1, <1>2, <1>4, Invariance, PTL DEF Spec, RunsDown

-----------------------------------------------------------------------------
(* The package manager implements PackageStore. *)

(* What can be imported, said without the choice that Resolve makes: the   *)
(* locked directory is whole, and so is any local build that import would  *)
(* find before it.                                                         *)
Intact(n) ==
  /\ lockOk /\ lock[n] # None
  /\ cache[Pinned(n, lock[n])] # None /\ cache[Pinned(n, lock[n])].files = Files
  /\ \A k \in DirsOf(n) :
       k.version = lock[n].version /\ k.pin = None => cache[k].files = Files

(* nvs pkg remove is at work on one name. *)
OneName == op = "remove" => \E n \in Names : todo = {n}

-----------------------------------------------------------------------------
(* The files that import reads are those of the locked directory, and of   *)
(* the local builds that it finds before it.                               *)
LEMMA GoodIsIntact == IInv => \A n \in Names : Importable(n) <=> Intact(n)
<1> SUFFICES ASSUME IInv, NEW n \in Names, lockOk, lock[n] # None,
                    cache[Pinned(n, lock[n])] # None
             PROVE  Importable(n) <=> Intact(n)
  BY DEF Importable, Intact
<1>1. CASE LocalBuilds(n) # {}
  BY <1>1, LocalOrLocked DEF LocalBuilds, Importable, Intact
<1>2. CASE LocalBuilds(n) = {}
  BY <1>2, LocalOrLocked DEF LocalBuilds, Importable, Intact, Pinned
<1> QED
  BY <1>1, <1>2

(* ... in the next state as well. *)
LEMMA GoodIsIntactNext == IInv' => \A n \in Names : Importable(n)' <=> Intact(n)'
<1>1. (IInv => \A n \in Names : Importable(n) <=> Intact(n))'
  BY GoodIsIntact, PTL
<1> QED
  BY <1>1

(* A name keeps what can be imported of it while its entry and its         *)
(* directories are let be.                                                 *)
LEMMA LetBe ==
  ASSUME IInv, IInv', NEW n \in Names,
         lock'[n] = lock[n], lockOk' = lockOk,
         \A k \in Keys : k.name = n => cache'[k] = cache[k]
  PROVE  Importable(n)' <=> Importable(n)
<1>1. DirsOf(n)' = DirsOf(n) /\ \A k \in DirsOf(n) : cache'[k] = cache[k]
  BY DEF DirsOf
<1>2. lock[n] # None => cache'[Pinned(n, lock[n])] = cache[Pinned(n, lock[n])]
  <2>1. lock[n] # None => lock[n] \in Entries /\ Name[lock[n].src] = n
    BY DEF IInv, DiskTypes, Named, Locked
  <2> QED
    BY <2>1, EntryDirectory
<1>3. Pinned(n, lock[n])' = Pinned(n, lock[n])
  BY DEF Pinned
<1>4. Intact(n)' <=> Intact(n)
  BY <1>1, <1>2, <1>3 DEF Intact
<1> QED
  BY <1>4, GoodIsIntact, GoodIsIntactNext

(* Most steps touch neither the lock nor the cache. *)
LEMMA DiskLetBe ==
  ASSUME UNCHANGED <<lock, lockOk, cache, torn>>
  PROVE  UNCHANGED Store!vars
<1>1. Good' = Good
  BY DEF Good, Importable, Resolve, Matches, Highest, DirsOf, Pinned
<1> QED
  BY <1>1 DEF Store!vars

(* Whatever can be imported is locked. *)
LEMMA GoodIsLocked == Good' \subseteq {n \in Names : lock'[n] # None}
BY DEF Good, Importable

-----------------------------------------------------------------------------
(* installTree copies a tree into a directory that is not there: whole,    *)
(* and if it is a local build of a locked version, import may find it.     *)
LEMMA CopyRestores ==
  ASSUME IInv, IInv', Copy
  PROVE  Store!Next
<1>1. /\ TopKey \in Keys /\ cache' = [cache EXCEPT ![TopKey] = Tree(Top.src, Top.rev)]
      /\ UNCHANGED <<lock, lockOk, torn>>
  BY TopType DEF IInv, Phases, Copy, hist
<1>2. \A k \in Keys : cache'[k] = IF k = TopKey THEN Tree(Top.src, Top.rev) ELSE cache[k]
  BY <1>1 DEF IInv, DiskTypes
<1>3. Tree(Top.src, Top.rev).files = Files /\ Tree(Top.src, Top.rev) # None
  <2>1. Top.src \in Sources /\ Top.rev \in Revs
    BY TopType DEF IInv, Phases, Copy
  <2>2. Tree(Top.src, Top.rev) \in Trees
    BY <2>1 DEF Tree, Trees
  <2> QED
    BY <2>2, PackagesAssumption DEF Tree
<1>4. ASSUME NEW n \in Names, Intact(n)
      PROVE  Intact(n)'
  <2>1. lock[n] \in Entries /\ Name[lock[n].src] = n
    BY <1>4 DEF IInv, DiskTypes, Named, Locked, Intact
  <2>2. Pinned(n, lock[n]) \in Keys /\ Pinned(n, lock[n])' = Pinned(n, lock[n])
    BY <1>1, <2>1, EntryDirectory DEF Pinned
  <2>3. /\ cache'[Pinned(n, lock[n])] # None
        /\ cache'[Pinned(n, lock[n])].files = Files
    BY <1>2, <1>3, <1>4, <2>2 DEF Intact
  <2>4. \A k \in DirsOf(n)' :
          k.version = lock[n].version /\ k.pin = None => cache'[k].files = Files
    BY <1>2, <1>3, <1>4 DEF DirsOf, Intact
  <2> QED
    BY <1>1, <1>4, <2>2, <2>3, <2>4 DEF Intact
<1>5. Good \subseteq Good'
  BY <1>4, GoodIsIntact, GoodIsIntactNext DEF Good
<1>6. Store!Restored
  BY <1>1, <1>5, GoodIsLocked DEF Store!Restored, Store!Importing
<1> QED
  BY <1>6 DEF Store!Next

(* mergeLock: the entries that are written are closed under dependencies,  *)
(* their directories are there, and whole unless a kill has torn them.     *)
LEMMA MergeInstalls ==
  ASSUME IInv, IInv', Merge, lockOk
  PROVE  Store!Next
<1> DEFINE new == [n \in Added |-> added[n]]
<1>1. /\ lock' = [n \in Names |-> IF n \in Added THEN added[n] ELSE lock[n]]
      /\ UNCHANGED <<lockOk, cache, torn>>
  BY DEF Merge
<1>2. Added \in SUBSET Names /\ new \in [Added -> Entries]
  BY DEF IInv, RunTypes, Added
<1>3. ASSUME NEW n \in Added
      PROVE  Needs[new[n]] \subseteq Added
  <2>1. added[n] \in Entries /\ stack = <<>>
    BY <1>2 DEF IInv, Phases, Merge
  <2>2. CASE added[n].pin = None
    BY <2>1, <2>2 DEF Needs
  <2>3. CASE added[n].pin # None
    <3> DEFINE r == added[n].pin[2]
    <3>1. r \in Revs /\ Entry(added[n].src, r) = added[n]
      BY <2>1, <2>3, CommitRevision
    <3>2. \A d \in Deps[added[n].src][r] : d.name \in Added
      BY <2>1, <2>3, <3>1 DEF IInv, Closed, Coming
    <3> QED
      BY <2>1, <2>3, <3>2 DEF Needs
  <2> QED
    BY <2>2, <2>3
<1>4. ASSUME NEW n \in Good, n \notin Added
      PROVE  n \in Good'
  <2>1. n \in Names /\ lock'[n] = lock[n] /\ \A k \in Keys : cache'[k] = cache[k]
    BY <1>1, <1>4 DEF Good
  <2> QED
    BY <1>1, <1>4, <2>1, LetBe DEF Good
<1>5. ASSUME NEW n \in Added, n \notin torn
      PROVE  n \in Good'
  <2>1. n \in Names /\ lock'[n] = added[n] /\ added[n] # None /\ added[n] \in Entries
    BY <1>1, <1>2 DEF Added
  <2>2. Name[added[n].src] = n /\ cache[Pinned(n, added[n])] # None
    BY DEF IInv, Named, Cached
  <2>3. Pinned(n, added[n]) \in Keys /\ Pinned(n, added[n]).name = n
    BY <2>1, <2>2, EntryDirectory
  <2>4. \A k \in Keys : k.name = n /\ cache[k] # None => cache[k].files = Files
    BY <1>5 DEF IInv, Whole
  <2>5. Pinned(n, lock[n])' = Pinned(n, added[n])
    BY <2>1 DEF Pinned
  <2>6. Intact(n)'
    BY <1>1, <2>1, <2>2, <2>3, <2>4, <2>5 DEF Intact, DirsOf
  <2> QED
    BY <2>1, <2>6, GoodIsIntactNext DEF Good
<1>6. Store!Installed(Added, new)
  BY <1>1, <1>3, <1>4, <1>5, GoodIsLocked DEF Store!Installed, Store!Importing
<1> QED
  BY <1>2, <1>6 DEF Store!Next

-----------------------------------------------------------------------------
(* Remove: the directories of the one name go ...                          *)
LEMMA RemoveDirsRemoves ==
  ASSUME IInv, IInv', RemoveDirs, NEW n \in Names, todo = {n}
  PROVE  Store!Next
<1>1. /\ cache' = [k \in Keys |-> IF k.name = n THEN None ELSE cache[k]]
      /\ torn' = torn \ {n} /\ UNCHANGED <<lock, lockOk>>
  BY DEF RemoveDirs
<1>2. n \notin Good'
  <2>1. ~Intact(n)'
    <3>1. SUFFICES ASSUME lock[n] # None
                   PROVE  cache'[Pinned(n, lock[n])] = None
      BY <1>1 DEF Intact, Pinned
    <3>2. lock[n] \in Entries /\ Name[lock[n].src] = n
      BY <3>1 DEF IInv, DiskTypes, Named, Locked
    <3> QED
      BY <1>1, <3>2, EntryDirectory
  <2> QED
    BY <2>1, GoodIsIntactNext DEF Good
<1>3. ASSUME NEW m \in Names, m # n
      PROVE  m \in Good' <=> m \in Good
  BY <1>1, <1>3, LetBe DEF Good
<1>4. Good' = Good \ {n}
  BY <1>2, <1>3 DEF Good
<1>5. Store!Removed(n)
  BY <1>1, <1>4 DEF Store!Removed
<1> QED
  BY <1>5 DEF Store!Next

(* ... and then its entry, if the lock can be read.                        *)
LEMMA UnlockUnlocks ==
  ASSUME IInv, IInv', Unlock, NEW n \in Names, todo = {n}
  PROVE  Store!Next \/ UNCHANGED Store!vars
<1>1. UNCHANGED <<lockOk, cache, torn>>
  BY DEF Unlock, hist
<1>2. CASE lockOk
  <2>1. /\ lock' = [m \in Names |-> IF m = n THEN None ELSE lock[m]]
        /\ lock \in [Names -> Entries \cup {None}]
    BY <1>2 DEF Unlock, IInv, DiskTypes
  <2>2. lock' = [lock EXCEPT ![n] = None]
    BY <2>1
  <2>3. n \notin Good'
    BY <2>1 DEF Good, Importable
  <2>4. ASSUME NEW m \in Names, m # n
        PROVE  m \in Good' <=> m \in Good
    BY <1>1, <2>1, <2>4, LetBe DEF Good
  <2>5. Good' = Good \ {n}
    BY <2>3, <2>4 DEF Good
  <2>6. Store!Unlocked(n)
    BY <1>1, <2>2, <2>5 DEF Store!Unlocked
  <2> QED
    BY <2>6 DEF Store!Next
<1>3. CASE ~lockOk
  BY <1>1, <1>3, DiskLetBe DEF Unlock
<1> QED
  BY <1>2, <1>3

(* A command is killed while it fills or empties directories of one name.  *)
LEMMA KillDamages ==
  ASSUME IInv, IInv', NEW n \in Names,
         UNCHANGED <<lock, lockOk>>, torn' = torn \cup {n},
         \A k \in Keys : k.name # n => cache'[k] = cache[k]
  PROVE  Store!Next
<1>1. ASSUME NEW m \in Good, m # n
      PROVE  m \in Good'
  BY <1>1, LetBe DEF Good
<1>2. Store!Damaged(n)
  BY <1>1, GoodIsLocked DEF Store!Damaged, Store!Importing
<1> QED
  BY <1>2 DEF Store!Next

(* copyDir.                                                                *)
LEMMA KilledInCopyDamages ==
  ASSUME IInv, IInv', KilledInCopy
  PROVE  Store!Next
<1> DEFINE n == Name[Top.src]
<1>1. Top.src \in Sources /\ n \in Names /\ TopKey.name = n
  BY TopType DEF IInv, Phases, KilledInCopy, Names, TopKey, Key
<1>2. /\ UNCHANGED <<lock, lockOk>> /\ torn' = torn \cup {n}
      /\ \E tree : cache' = [cache EXCEPT ![TopKey] = tree]
  BY DEF KilledInCopy
<1>3. \A k \in Keys : k.name # n => cache'[k] = cache[k]
  BY <1>1, <1>2 DEF IInv, DiskTypes
<1> QED
  BY <1>1, <1>2, <1>3, KillDamages

(* RemoveAll.                                                              *)
LEMMA KilledInRemoveDamages ==
  ASSUME IInv, IInv', KilledInRemove, NEW n \in Names, todo = {n}
  PROVE  Store!Next
<1>1. UNCHANGED <<lock, lockOk>> /\ torn' = torn \cup {n}
  BY DEF KilledInRemove
<1>2. \A k \in Keys : k.name # n => cache'[k] = cache[k]
  BY DEF KilledInRemove
<1> QED
  BY <1>1, <1>2, KillDamages

(* A killed writeLock leaves a lock that cannot be read, a deleted one is  *)
(* empty: nothing is locked any more, so nothing is imported as locked.    *)
LEMMA LockIsLost ==
  ASSUME KilledInWrite \/ DeleteLock
  PROVE  Store!Next
<1>1. lock' = [n \in Names |-> None] /\ torn' = torn
  BY DEF KilledInWrite, DeleteLock, NoEntries
<1>2. Good' = {}
  BY <1>1 DEF Good, Importable
<1>3. Store!LockLost
  BY <1>1, <1>2 DEF Store!LockLost, Store!NoEntries
<1> QED
  BY <1>3 DEF Store!Next

(* The cache is emptied. *)
LEMMA CacheIsLost ==
  ASSUME IInv, IInv', EmptyCache
  PROVE  Store!Next
<1>1. /\ cache' = [k \in Keys |-> None] /\ torn' = {} /\ UNCHANGED <<lock, lockOk>>
  BY DEF EmptyCache
<1>2. ASSUME NEW n \in Names PROVE ~Intact(n)'
  <2>1. SUFFICES ASSUME lock[n] # None
                 PROVE  cache'[Pinned(n, lock[n])] = None
    BY <1>1 DEF Intact, Pinned
  <2>2. lock[n] \in Entries /\ Name[lock[n].src] = n
    BY <2>1 DEF IInv, DiskTypes, Named, Locked
  <2> QED
    BY <1>1, <2>2, EntryDirectory
<1>3. Good' = {}
  BY <1>2, GoodIsIntactNext DEF Good
<1>4. Store!CacheLost
  BY <1>1, <1>3 DEF Store!CacheLost
<1> QED
  BY <1>4 DEF Store!Next

-----------------------------------------------------------------------------
(* remove has one argument, and keeps to it.                               *)
LEMMA OneNameStep == IInv /\ OneName /\ [Next]_vars => OneName'
<1> SUFFICES ASSUME IInv, OneName, [Next]_vars, op' = "remove"
             PROVE  \E n \in Names : todo' = {n}
  BY DEF OneName
<1>1. ASSUME NEW n \in Names, Remove(n) PROVE todo' = {n}
  BY <1>1 DEF Remove
<1>2. CASE UNCHANGED <<op, todo>>
  BY <1>2 DEF OneName
<1>3. CASE UNCHANGED vars \/ RemoveDirs \/ Fetch \/ Copy \/ Record \/ Return
  BY <1>2, <1>3 DEF vars, run, RemoveDirs, Fetch, Copy, Record, Return
<1>4. CASE (\E d \in Specs : Dependency(d)) \/ \E s \in Sources : Release(s)
  BY <1>2, <1>4 DEF Dependency, Release, run
<1>5. CASE EmptyCache \/ DeleteLock
  BY <1>2, <1>5 DEF EmptyCache, DeleteLock, run
<1>6. CASE \E n \in Names : NextEntry(n)
  BY <1>6 DEF IInv, Phases, NextEntry
<1>7. CASE (\E spec \in Specs : Install(spec)) \/ Replay
  BY <1>7 DEF Install, Replay, Start
<1>8. CASE FetchRefused \/ ReturnFails \/ FetchFails \/ CopyFails
  BY <1>8 DEF FetchRefused, ReturnFails, FetchFails, CopyFails, Fail, End
<1>9. CASE Merge \/ Replayed \/ Unlock \/ Crash
  BY <1>9 DEF Merge, Replayed, Unlock, Crash, KilledInCopy, KilledInRemove,
              KilledInWrite, KilledElsewhere, Killed, End
<1> QED
  BY <1>1, <1>3, <1>4, <1>5, <1>6, <1>7, <1>8, <1>9 DEF Next, Progress

(* Every step of the package manager is one of the store, or leaves it be. *)
LEMMA StepRefines ==
  ASSUME IInv, IInv', OneName, [Next]_vars
  PROVE  Store!Next \/ UNCHANGED Store!vars
<1>1. CASE UNCHANGED <<lock, lockOk, cache, torn>>
  BY <1>1, DiskLetBe
<1>2. CASE Copy
  BY <1>2, CopyRestores
<1>3. CASE Merge
  <2>1. CASE lockOk
    BY <1>3, <2>1, MergeInstalls
  <2>2. CASE ~lockOk
    BY <1>1, <1>3, <2>2 DEF Merge
  <2> QED
    BY <2>1, <2>2
<1>4. CASE RemoveDirs \/ Unlock \/ KilledInRemove
  <2>1. op = "remove"
    BY <1>4 DEF IInv, Phases, RemoveDirs, Unlock, KilledInRemove
  <2>2. PICK n \in Names : todo = {n}
    BY <2>1 DEF OneName
  <2> QED
    BY <1>4, <2>2, RemoveDirsRemoves, UnlockUnlocks, KilledInRemoveDamages
<1>5. CASE KilledInCopy
  BY <1>5, KilledInCopyDamages
<1>6. CASE KilledInWrite \/ DeleteLock
  BY <1>6, LockIsLost
<1>7. CASE EmptyCache
  BY <1>7, CacheIsLost
<1>8. CASE UNCHANGED vars \/ Fetch \/ Record \/ Return \/ Replayed \/ KilledElsewhere
  BY <1>1, <1>8 DEF vars, disk, hist, Fetch, Record, Return, Replayed, KilledElsewhere
<1>9. CASE FetchRefused \/ ReturnFails \/ FetchFails \/ CopyFails
  BY <1>1, <1>9 DEF hist, FetchRefused, ReturnFails, FetchFails, CopyFails, Fail
<1>10. CASE (\E d \in Specs : Dependency(d)) \/ \E s \in Sources : Release(s)
  BY <1>1, <1>10 DEF disk, hist, Dependency, Release
<1>11. CASE (\E spec \in Specs : Install(spec)) \/ Replay
  BY <1>1, <1>11 DEF disk, hist, Install, Replay
<1>12. CASE \E n \in Names : NextEntry(n) \/ Remove(n)
  BY <1>1, <1>12 DEF disk, hist, NextEntry, Remove
<1> QED
  BY <1>2, <1>3, <1>4, <1>5, <1>6, <1>7, <1>8, <1>9, <1>10, <1>11, <1>12
     DEF Next, Progress, Crash

(* The commands of `nvs pkg`, with all their steps, failures and kills,    *)
(* keep the promises of PackageStore.                                      *)
THEOREM PackagesImplementStore == Spec => ImplementsStore
<1>1. Init => Store!Init /\ OneName
  BY DEF Init, Store!Init, Store!NoEntries, NoEntries, Good, Importable, OneName
<1>2. IInv /\ OneName /\ [Next]_vars => OneName'
  BY OneNameStep
<1>3. IInv /\ IInv' /\ OneName /\ [Next]_vars => [Store!Next]_(Store!vars)
  BY StepRefines
<1> QED
  BY <1>1, <1>2, <1>3, Invariance, PTL DEF Spec, ImplementsStore, Store!Spec

=============================================================================
