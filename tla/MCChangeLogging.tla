------------------------- MODULE MCChangeLogging -------------------------
(* ChangeLogging on small instances. *)
EXTENDS ChangeLogging, TLC

ChangeSymmetry == Permutations(Objects) \cup Permutations(Requests)

=============================================================================
