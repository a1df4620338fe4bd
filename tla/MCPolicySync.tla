---------------------------- MODULE MCPolicySync ----------------------------
(***************************************************************************)
(* Policy distribution on small instances.                                 *)
(***************************************************************************)
EXTENDS PolicySync, TLC

Symmetry == Permutations(Pushers)
=============================================================================
