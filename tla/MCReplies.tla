----------------------------- MODULE MCReplies -------------------------------
(* AIReplies on small sets of connections, users and prompts.                *)
EXTENDS AIReplies, TLC

Symmetry ==
  Permutations(Session) \union Permutations(User) \union Permutations(Prompt)
=============================================================================
