------------------------------ MODULE MCLogin -------------------------------
(* Small instances of SecondFactor, Verifier and Policy.  They share no     *)
(* variable, so one runs while the others are in their initial states.      *)
EXTENDS SecondFactor, Verifier, Policy, TLC

Symm == Permutations(Requests)

LoginInit == Init /\ VerifierInit /\ PolicyInit

LoginNext ==
    \/ VerifierInit /\ PolicyInit /\ Next /\ UNCHANGED <<verifierVars, policyVars>>
    \/ Init /\ PolicyInit /\ VerifierNext /\ UNCHANGED <<vars, policyVars>>
    \/ Init /\ VerifierInit /\ PolicyNext /\ UNCHANGED <<vars, verifierVars>>

LoginSpec == LoginInit /\ [][LoginNext]_<<vars, verifierVars, policyVars>>

=============================================================================
