----------------------------- MODULE MCPlatform -----------------------------
(* Small instances of Tenancy, Passkeys and Migrations.  They share no      *)
(* variable, so one runs while the others are in their initial states.      *)
EXTENDS Tenancy, Passkeys, Migrations, TLC

vars == <<tenancyVars, passkeyVars, migrationVars>>

Init == TenancyInit /\ PasskeyInit /\ MigrationInit

Migration(A) ==
    /\ TenancyInit /\ PasskeyInit /\ A
    /\ UNCHANGED <<tenancyVars, passkeyVars>>

Next ==
    \/ /\ PasskeyInit /\ MigrationInit /\ TenancyNext
       /\ UNCHANGED <<passkeyVars, migrationVars>>
    \/ /\ TenancyInit /\ MigrationInit /\ PasskeyNext
       /\ UNCHANGED <<tenancyVars, migrationVars>>
    \/ Migration(MigrationNext)

\* The last migration leaves a type behind that makes it fail when it is run
\* again, as invitation_status does.
MCBlocks == {<<LastVersion, LastVersion>>}

\* A process that exits is started again and goes on.
Spec ==
    /\ Init /\ [][Next]_vars
    /\ \A p \in Instances : WF_vars(Migration(InstanceStep(p)))

=============================================================================
