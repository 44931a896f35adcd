---------------------------- MODULE MCCancelFlow ----------------------------
(* CancelFlow on a small instance. *)
EXTENDS CancelFlow, TLC

Symmetry == Permutations(Callers) \cup Permutations(Approvers)
                \cup Permutations(ExecIds) \cup Permutations(Intents)

=============================================================================
