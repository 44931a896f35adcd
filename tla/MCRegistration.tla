--------------------------- MODULE MCRegistration ---------------------------
(* Registration on a small instance. *)
EXTENDS Registration, TLC

Symmetry == Permutations(Keys) \cup Permutations(Threads)

=============================================================================
