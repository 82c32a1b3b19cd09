--------------------------- MODULE MCUserAccount ----------------------------
(* Small instances of UserAccount. *)
EXTENDS UserAccount, TLC

Symm == Permutations(Requests) \cup Permutations(Passwords)

=============================================================================
