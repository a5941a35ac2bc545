------------------------------- MODULE MCRelay -------------------------------
(* RelayLifecycle on small sets of connections, users and prompts.           *)
EXTENDS RelayLifecycle, TLC

Symmetry == Permutations(User) \union Permutations(Prompt)
=============================================================================
