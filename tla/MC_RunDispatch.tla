---------------------------- MODULE MC_RunDispatch ----------------------------
(* Instances of RunDispatch: two workflows that both target the repository. *)
EXTENDS RunDispatch, TLC

WorkflowSymmetry == Permutations(Workflows)
=============================================================================
