--------------------------- MODULE MCSecondFactor ---------------------------
(* Small instances of SecondFactor. *)
EXTENDS SecondFactor, TLC

Symm == Permutations(Requests)

=============================================================================
