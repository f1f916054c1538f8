----------------------------- MODULE MCPackages -----------------------------
(* Three sources of two packages: app and lib on GitHub, and dev, a local  *)
(* directory with lib's next version in it.  lib's first revision and dev  *)
(* have the same version.  app depends on lib; lib's second revision on    *)
(* app, which makes a cycle; app's second revision takes dev for its lib.  *)
EXTENDS Packages

CONSTANTS app, lib, dev, App, Lib

MCName == [s \in Sources |-> IF s = app THEN App ELSE Lib]
MCVersion == [s \in Sources |-> [r \in Revs |-> IF s = dev THEN 1 ELSE r]]
Dep(n, s, r) == [name |-> n, src |-> s, rev |-> r]
MCDeps ==
  [s \in Sources |-> [r \in Revs |->
     CASE s = app /\ r = 1 -> {Dep(Lib, lib, 0)}
       [] s = app /\ r = 2 -> {Dep(Lib, dev, 0)}
       [] s = lib /\ r = 2 -> {Dep(App, app, 1)}
       [] OTHER -> {}]]

=============================================================================
