------------------------------ MODULE MCClient -------------------------------
(* ClientState on small sets of connections and users.                       *)
EXTENDS ClientState, TLC

Symmetry == Permutations(Connection) \union Permutations(User)
=============================================================================
