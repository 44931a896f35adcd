------------------------------ MODULE MCSeedSync ------------------------------
(* SeedSync on a small instance. *)
EXTENDS SeedSync, TLC

\* A file, the same with one answer corrected, and one with a case twice.
MCFiles ==
    {<<[case |-> "a", inputs |-> 1, outputs |-> 1], [case |-> "b", inputs |-> 1, outputs |-> 1]>>,
     <<[case |-> "a", inputs |-> 1, outputs |-> 2], [case |-> "b", inputs |-> 2, outputs |-> 2]>>,
     <<[case |-> "a", inputs |-> 1, outputs |-> 1], [case |-> "a", inputs |-> 2, outputs |-> 1]>>}

Symmetry == Permutations(Examples)

=============================================================================
