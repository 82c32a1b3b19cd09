------------------------------ MODULE MCOutbox ------------------------------
(* Small instances of Outbox: a registration that writes two events and a  *)
(* company creation that writes one.                                       *)
EXTENDS Outbox, TLC

CONSTANTS register, company, tenantProvisioned, userCreated, companyCreated

MCTxns == {register, company}
MCEvents == {tenantProvisioned, userCreated, companyCreated}
MCWrites == register :> <<tenantProvisioned, userCreated>>
            @@ company :> <<companyCreated>>

=============================================================================
