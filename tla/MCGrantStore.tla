---------------------------- MODULE MCGrantStore ----------------------------
(* GrantStore on a small instance, with the symmetry its threads and ids have. *)
EXTENDS GrantStore, TLC

Symmetry == Permutations(Callers) \cup Permutations(Approvers)
                \cup Permutations(ExecIds) \cup Permutations(Intents)

=============================================================================
