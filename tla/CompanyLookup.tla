--------------------------- MODULE CompanyLookup ----------------------------
(***************************************************************************)
(* Company information of one CNPJ: the lookup through the cache table     *)
(* company_info_cache and the provider (company_lookup_service.go,         *)
(* company_info_repository.go, cnpj_adapter.go), as its callers use it:    *)
(* the lookup handler, the creation of a company and the sync job.  Both   *)
(* programs construct the service without rate limiter.                    *)
(***************************************************************************)
EXTENDS Naturals

CONSTANTS
    Callers,        \* lookups that can be in progress together
    FreshFor,       \* age up to which a cached row is used (7 days)
    ReadTimeout     \* the client's limit for an answer and its body (10 s)

ASSUME LookupAssumption == FreshFor \in Nat /\ ReadTimeout \in 0 .. FreshFor

VARIABLES
    registered,     \* what the provider says of the CNPJ now
    since,          \* history: since[s]: time since it said s
    cached,         \* the row of company_info_cache
    call            \* call[p]: lookup p

lookupVars == <<registered, since, cached, call>>

\* Cadastral situations, as far as the callers tell them apart: BAIXADA
\* stands for INAPTA and NULA too.
Situations == {"ATIVA", "SUSPENSA", "BAIXADA"}

\* What the provider may say.
Descriptions == Situations \cup {"OUTRA"}

\* Every description of the provider becomes a known situation; one that is
\* not known becomes SUSPENSA.
mapCadastralSituation(d) == IF d \in Situations THEN d ELSE "SUSPENSA"

\* One more than what is fresh stands for every greater age.
Ages == 0 .. FreshFor + 1

\* A company info: its situation and the time since LastFetchedAt; while the
\* adapter still reads it, the time since the provider took it from the registry.
Infos == [situacao : Situations, age : Ages]

NoInfo == [situacao |-> "none", age |-> 0]

\* What since can say: beyond LongAgo no age can tell.
LongAgo == FreshFor + ReadTimeout + 1

\* History: the situation that description stands for.
Situacao == IF registered = "OUTRA" THEN "SUSPENSA" ELSE registered

LookupTypeOK ==
    /\ registered \in Descriptions
    /\ since \in [Situations -> 0 .. LongAgo]
    /\ cached \in Infos \cup {NoInfo}
    /\ call \in [Callers -> [step : {"idle", "fetch", "read", "save", "answer", "error"},
                             info : Infos \cup {NoInfo}]]

LookupInit ==
    /\ registered = "ATIVA"
    /\ since = [s \in Situations |-> IF s = Situacao THEN 0 ELSE LongAgo]
    /\ cached = NoInfo
    /\ call = [p \in Callers |-> [step |-> "idle", info |-> NoInfo]]

Go(p, step, info) ==
    call' = [call EXCEPT ![p] = [step |-> step, info |-> info]]

-----------------------------------------------------------------------------

\* A cached row that is not older than FreshFor.
Fresh(info) == info # NoInfo /\ info.age <= FreshFor

\* GetByCNPJ of a valid CNPJ reads the cache; a row that is missing, expired
\* or cannot be read sends it to the provider.
GetByCNPJ(p) ==
    /\ call[p].step = "idle"
    /\ \/ Fresh(cached) /\ Go(p, "answer", cached)
       \/ ~Fresh(cached) /\ Go(p, "fetch", NoInfo)
    /\ UNCHANGED <<registered, since, cached>>

ReadFails(p) ==
    /\ call[p].step = "idle"
    /\ Go(p, "fetch", NoInfo)
    /\ UNCHANGED <<registered, since, cached>>

\* The provider makes its answer, which the adapter has yet to read.
ProviderAnswers(p) ==
    /\ call[p].step = "fetch"
    /\ Go(p, "read", [situacao |-> mapCadastralSituation(registered), age |-> 0])
    /\ UNCHANGED <<registered, since, cached>>

\* The body is decoded within the client's limit; only now does the adapter
\* stamp the info with the time.
FetchCompanyInfo(p) ==
    /\ call[p].step = "read" /\ call[p].info.age <= ReadTimeout
    /\ Go(p, "save", [call[p].info EXCEPT !.age = 0])
    /\ UNCHANGED <<registered, since, cached>>

\* Not found, a bad status, a body that cannot be decoded, or no answer in time.
ProviderFails(p) ==
    /\ call[p].step \in {"fetch", "read"}
    /\ Go(p, "error", NoInfo)
    /\ UNCHANGED <<registered, since, cached>>

\* Mutant of SaveInfo: last_fetched_at is the time of the INSERT.
SaveInfo_Restamps(p) ==
    /\ call[p].step = "save"
    /\ cached' = [call[p].info EXCEPT !.age = 0]
    /\ Go(p, "answer", call[p].info)
    /\ UNCHANGED <<registered, since>>

\* INSERT ... ON CONFLICT DO UPDATE, with the stamp of the adapter.
SaveInfo(p) ==
    /\ call[p].step = "save"
    /\ cached' = call[p].info
    /\ Go(p, "answer", call[p].info)
    /\ UNCHANGED <<registered, since>>

\* A failure to save is logged only.
SaveInfoFails(p) ==
    /\ call[p].step = "save"
    /\ Go(p, "answer", call[p].info)
    /\ UNCHANGED <<registered, since, cached>>

\* Cached rows whose name matches, whatever their age.
FindByName == {cached} \ {NoInfo}

\* A search by name answers from the cached rows; no provider supports it, so
\* without a row it is an error.
SearchByName(p) ==
    /\ call[p].step = "idle"
    /\ \/ \E info \in FindByName : Go(p, "answer", info)
       \/ FindByName = {} /\ Go(p, "error", NoInfo)
    /\ UNCHANGED <<registered, since, cached>>

\* Lookup takes a query for a CNPJ or for a name.
Lookup(p) == GetByCNPJ(p) \/ SearchByName(p)

\* The caller goes on with the answer or the error.
LookupReturns(p) ==
    /\ call[p].step \in {"answer", "error"}
    /\ Go(p, "idle", NoInfo)
    /\ UNCHANGED <<registered, since, cached>>

-----------------------------------------------------------------------------

Older(info) ==
    IF info = NoInfo THEN info
    ELSE [info EXCEPT !.age = IF @ > FreshFor THEN @ ELSE @ + 1]

LookupTick ==
    /\ since' = [s \in Situations |->
                    IF s = Situacao THEN 0
                    ELSE IF since[s] = LongAgo THEN LongAgo ELSE since[s] + 1]
    /\ cached' = Older(cached)
    /\ call' = [p \in Callers |-> [call[p] EXCEPT !.info = Older(@)]]
    /\ UNCHANGED registered

\* The registry changes the situation of the company.
RegistryChanges(s) ==
    /\ s # registered
    /\ registered' = s
    /\ since' = [since EXCEPT ![Situacao'] = 0]
    /\ UNCHANGED <<cached, call>>

LookupNext ==
    \/ \E p \in Callers :
          \/ Lookup(p) \/ ReadFails(p) \/ ProviderAnswers(p)
          \/ FetchCompanyInfo(p) \/ ProviderFails(p) \/ SaveInfo(p)
          \/ SaveInfoFails(p) \/ LookupReturns(p)
    \/ LookupTick
    \/ \E s \in Descriptions : RegistryChanges(s)

LookupSpec == LookupInit /\ [][LookupNext]_lookupVars

-----------------------------------------------------------------------------
(* Properties.                                                             *)

\* An older answer may look fresher than a younger one, because it is stamped
\* when it has been read, but only by the client's limit: what the cache or a
\* caller holds with age a was registered a + ReadTimeout ago or later, however
\* late it is saved and whatever it overwrites.
AgeHonest ==
    \A info \in {cached} \cup {call[p].info : p \in Callers} :
        info # NoInfo => since[info.situacao] <= info.age + ReadTimeout

\* Cached rows are well formed and look younger than what they say by the time
\* of one answer at most.
InfoSound == LookupTypeOK /\ AgeHonest

=============================================================================
