------------------------------ MODULE MCRegistry ------------------------------
(* SessionRegistry on small sets of connections and users.                   *)
EXTENDS SessionRegistry, TLC

Symmetry == Permutations(Session) \union Permutations(User)
=============================================================================
