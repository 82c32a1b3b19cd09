----------------------------- MODULE MCCompany ------------------------------
(* Small instances of what a company creation starts: the outbox that its   *)
(* events, and those of a registration, are written to (Outbox), and the    *)
(* members of the company (Membership).  They share no variable, so one     *)
(* runs while the other is in its initial state.                            *)
EXTENDS MCOutbox, Membership

Symm == Permutations(Reqs)

companyVars == <<vars, memberVars>>

CompanyInit == Init /\ MembershipInit

CompanyNext ==
    \/ MembershipInit /\ Next /\ UNCHANGED memberVars
    \/ Init /\ MembershipNext /\ UNCHANGED vars

CompanySpec == CompanyInit /\ [][CompanyNext]_companyVars

=============================================================================
