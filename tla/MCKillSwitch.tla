---------------------------- MODULE MCKillSwitch ----------------------------
(* Small instances of KillSwitch. *)
EXTENDS KillSwitch, TLC

Symm == Permutations(Streams)

=============================================================================
