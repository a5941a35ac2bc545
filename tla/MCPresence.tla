------------------------------ MODULE MCPresence ------------------------------
(* Presence on small sets of connections and users.                          *)
EXTENDS Presence, TLC

Symmetry == Permutations(User)
=============================================================================
