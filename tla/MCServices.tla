----------------------------- MODULE MCServices -----------------------------
(* Small instances of the services around the core: CompanyLookup,          *)
(* CompanySync, Documents, CheckDigits, RiskSentinel, EventFanout and       *)
(* SdkClient.  They share no variable, so one runs while the others are in  *)
(* their initial states.                                                    *)
EXTENDS CompanyLookup, CompanySync, Documents, CheckDigits, RiskSentinel,
        EventFanout, SdkClient, TLC

CONSTANTS l1, l2

MCIp == (l1 :> "here") @@ (l2 :> "there")

providerVars == <<lookupVars, syncVars, documentVars, digitVars>>
platformVars == <<riskVars, fanoutVars, sdkVars>>
vars == <<providerVars, platformVars>>

ProviderInit == LookupInit /\ SyncInit /\ DocumentInit /\ DigitInit
PlatformInit == RiskInit /\ FanoutInit /\ SdkInit

Init == ProviderInit /\ PlatformInit

Lookups(A) ==
    SyncInit /\ DocumentInit /\ DigitInit /\ PlatformInit /\ A
    /\ UNCHANGED <<syncVars, documentVars, digitVars, platformVars>>

Sync(A) ==
    LookupInit /\ DocumentInit /\ DigitInit /\ PlatformInit /\ A
    /\ UNCHANGED <<lookupVars, documentVars, digitVars, platformVars>>

Document(A) ==
    LookupInit /\ SyncInit /\ DigitInit /\ PlatformInit /\ A
    /\ UNCHANGED <<lookupVars, syncVars, digitVars, platformVars>>

Digit(A) ==
    LookupInit /\ SyncInit /\ DocumentInit /\ PlatformInit /\ A
    /\ UNCHANGED <<lookupVars, syncVars, documentVars, platformVars>>

Risk(A) ==
    ProviderInit /\ FanoutInit /\ SdkInit /\ A
    /\ UNCHANGED <<providerVars, fanoutVars, sdkVars>>

Fanout(A) ==
    ProviderInit /\ RiskInit /\ SdkInit /\ A
    /\ UNCHANGED <<providerVars, riskVars, sdkVars>>

Sdk(A) ==
    ProviderInit /\ RiskInit /\ FanoutInit /\ A
    /\ UNCHANGED <<providerVars, riskVars, fanoutVars>>

Next ==
    \/ Lookups(LookupNext) \/ Sync(SyncNext) \/ Document(DocumentNext)
    \/ Digit(DigitNext) \/ Risk(RiskNext) \/ Fanout(FanoutNext) \/ Sdk(SdkNext)

Spec ==
    /\ Init /\ [][Next]_vars
    /\ \A j \in Jobs : WF_vars(Sync(SyncStep(j)))
    /\ \A p \in Verifiers : WF_vars(Document(VerifyStep(p)))
    /\ WF_vars(Document(DocumentTick)) /\ WF_vars(Document(AnswerExpires))

=============================================================================
