----------------------------- MODULE MCAccounts -----------------------------
(* Small instances of UserAccount and Session: what overlapping requests do *)
(* to one user's row and login sessions.  They share no variable, so one    *)
(* runs while the other is in an initial state.                             *)
EXTENDS UserAccount, Session, TLC

Symm == Permutations(Requests) \cup Permutations(Passwords)
        \cup Permutations(Sessions)

accountsVars == <<vars, sessionVars>>

AccountsInit == Init /\ SessionInit

AccountsNext ==
    \/ SessionInit /\ Next /\ UNCHANGED sessionVars
    \/ Init /\ mail = {} /\ SessionNext /\ UNCHANGED vars

AccountsSpec == AccountsInit /\ [][AccountsNext]_accountsVars

=============================================================================
