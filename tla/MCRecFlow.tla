----------------------------- MODULE MCRecFlow ------------------------------
(***************************************************************************)
(* RecFlow on small instances.                                             *)
(***************************************************************************)
EXTENDS RecFlow, TLC

MCSymmetry ==
  Permutations(Agent) \union Permutations(Job) \union Permutations(File)
=============================================================================
