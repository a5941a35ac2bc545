------------------------------- MODULE MCChat -------------------------------
(* ChatMessages on small sets of connections, users and messages.  The users *)
(* are interchangeable where all of them are Insiders and no liveness is     *)
(* checked.                                                                  *)
EXTENDS ChatMessages, TLC

Symmetry == Permutations(User)
=============================================================================
