---------------------------- MODULE PackageStore ----------------------------
(***************************************************************************)
(* What the package manager promises a project, without saying how: a lock *)
(* file, and the names whose locked package can be imported as it was      *)
(* locked.  An install enters a set of packages that is closed under their *)
(* dependencies, at once, and then they can be imported; nothing but the   *)
(* removal of a name, a kill in the middle of it, or a loss of the files   *)
(* takes that away from a name.  What an install after a kill finds of the *)
(* name that the killed one was working on, it cannot vouch for.           *)
(* Packages.tla is shown to implement this specification.                  *)
(***************************************************************************)
CONSTANTS
  Names,     \* package names
  Entries,   \* what the lock says of a name
  Needs,     \* Needs[e]: the names of the dependencies that entry e fixes
  None

VARIABLES
  lock,      \* the entry of each name, or None
  good,      \* the names whose entry can be imported
  suspect    \* the names a killed command was working on

vars == <<lock, good, suspect>>

NoEntries == [n \in Names |-> None]

Init == lock = NoEntries /\ good = {} /\ suspect = {}

(* At least the names ns can be imported, and none that is not locked. *)
Importing(ns) == ns \subseteq good' /\ good' \subseteq {n \in Names : lock'[n] # None}

(* An install, all of it: what it made replaces what was locked. *)
Installed(made, new) ==
  /\ \A n \in made : Needs[new[n]] \subseteq made
  /\ lock' = [n \in Names |-> IF n \in made THEN new[n] ELSE lock[n]]
  /\ Importing((good \ made) \cup (made \ suspect))
  /\ UNCHANGED suspect

(* A directory that was missing is there again. *)
Restored == Importing(good) /\ UNCHANGED <<lock, suspect>>

(* A removal takes the directories away, and then the entry. *)
Removed(n) ==
  /\ good' = good \ {n} /\ suspect' = suspect \ {n}
  /\ UNCHANGED lock

Unlocked(n) ==
  /\ lock' = [lock EXCEPT ![n] = None]
  /\ good' = good \ {n}
  /\ UNCHANGED suspect

(* A kill while the directories of one name are being filled or deleted. *)
Damaged(n) ==
  /\ Importing(good \ {n}) /\ suspect' = suspect \cup {n}
  /\ UNCHANGED lock

(* The lock file is deleted or truncated, the cache emptied. *)
LockLost == lock' = NoEntries /\ good' = {} /\ UNCHANGED suspect
CacheLost == good' = {} /\ suspect' = {} /\ UNCHANGED lock

Next ==
  \/ \E made \in SUBSET Names : \E new \in [made -> Entries] : Installed(made, new)
  \/ Restored
  \/ \E n \in Names : Removed(n) \/ Unlocked(n) \/ Damaged(n)
  \/ LockLost \/ CacheLost

Spec == Init /\ [][Next]_vars

=============================================================================
