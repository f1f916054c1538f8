---------------------------- MODULE MCDapSession ----------------------------
(* A two-line program that imports a file, with calls two deep, four steps  *)
(* long, debugged by a client that sends four requests.                     *)
EXTENDS DapSession
=============================================================================
