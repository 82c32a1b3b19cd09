---------------------------- MODULE CompanySync -----------------------------
(***************************************************************************)
(* The companies table and the job that synchronises it with the registry  *)
(* (company_sync_service.go, job-sync-companies/main.go), with the other   *)
(* writers of the table in company_service.go.  A lookup is what           *)
(* CompanyLookup lets its callers see: some situation, or an error.        *)
(***************************************************************************)
EXTENDS Integers, Sequences, FiniteSets

CONSTANTS
    N,              \* companies that can be created
    Jobs,           \* runs of the job that can overlap
    Limit           \* companies per page (50)

ASSUME SyncAssumption == N \in Nat /\ Limit \in Nat \ {0}

VARIABLES
    status,         \* status[n]: status column of company n
    sync,           \* sync[j]: the run of SyncAll in job j
    past            \* past[j]: history of that run

syncVars == <<status, sync, past>>

\* Companies, numbered in the order of created_at.
CompanyIds == 1 .. N

Answers == {"ATIVA", "SUSPENSA", "BAIXADA"}

\* A row a page holds: the copy SyncAll works with.
Copies == [id : CompanyIds, status : {"active", "pending"}]

NoRun == [step |-> "idle", offset |-> 0, page |-> <<>>, full |-> FALSE]

\* Run j has seen these companies, these were listed all along, and at most N
\* suspensions happened.
NoPast == [seen |-> {}, steady |-> {}, suspensions |-> 0]

SyncTypeOK ==
    /\ status \in [CompanyIds -> {"absent", "active", "pending", "suspended"}]
    /\ sync \in [Jobs -> [step : {"idle", "list", "item", "done"},
                          offset : 0 .. N + Limit, page : Seq(Copies),
                          full : BOOLEAN]]
    /\ past \in [Jobs -> [seen : SUBSET CompanyIds, steady : SUBSET CompanyIds,
                          suspensions : 0 .. N]]

SyncInit ==
    /\ status = [n \in CompanyIds |-> "absent"]
    /\ sync = [j \in Jobs |-> NoRun]
    /\ past = [j \in Jobs |-> NoPast]

\* UPDATE companies SET ... status WHERE id.
UpdateCompany(n, s) == status' = [status EXCEPT ![n] = s]

\* History: company n becomes s in every run.
Record(n, s) ==
    [j \in Jobs |->
        IF s = "suspended"
        THEN [past[j] EXCEPT !.steady = @ \ {n},
                             !.suspensions = IF @ < N THEN @ + 1 ELSE @]
        ELSE past[j]]

-----------------------------------------------------------------------------
(* Writers of the companies table.                                         *)

\* validateExternalCNPJStatus: what is not closed may be created.
Eligible(answer) == answer # "BAIXADA"

\* Validated before; the row, the membership of its creator and the outbox
\* event are one transaction, and unique_cnpj refuses a CNPJ that is taken.
CreateCompany(n, answer) ==
    /\ Eligible(answer)
    /\ status[n] = "absent"
    /\ UpdateCompany(n, "active")
    /\ UNCHANGED <<sync, past>>

\* SuspendCompany and ActivateCompany write the row back with a new status
\* whatever it was; no other field of it ever changes.
SuspendCompany(n) ==
    /\ status[n] # "absent"
    /\ UpdateCompany(n, "suspended")
    /\ past' = Record(n, "suspended")
    /\ UNCHANGED sync

ActivateCompany(n) ==
    /\ status[n] # "absent"
    /\ UpdateCompany(n, "active")
    /\ UNCHANGED <<sync, past>>

\* The updateCompanyStatus mutation of the GraphQL interface: any valid status.
UpdateCompanyStatus(n, s) ==
    /\ status[n] # "absent"
    /\ UpdateCompany(n, s)
    /\ past' = Record(n, s)
    /\ UNCHANGED sync

-----------------------------------------------------------------------------
(* SyncAll.                                                                *)

\* WHERE status != 'suspended'.
Listed == {n \in CompanyIds : status[n] \in {"active", "pending"}}

\* ORDER BY created_at: the rows before company n.
Ahead(n) == Cardinality({m \in Listed : m < n})

\* LIMIT and OFFSET: the one sequence of rows that is the page.
ListAllActive(offset) ==
    {page \in UNION {[1 .. k -> Copies] : k \in 0 .. Limit} :
        /\ {page[i].id : i \in DOMAIN page} =
               {n \in Listed : Ahead(n) \in offset .. offset + Limit - 1}
        /\ \A i \in DOMAIN page : page[i].status = status[page[i].id]
        /\ \A i, k \in DOMAIN page : i < k => page[i].id < page[k].id}

SyncAll(j) ==
    /\ sync[j].step \in {"idle", "done"}
    /\ sync' = [sync EXCEPT ![j] = [NoRun EXCEPT !.step = "list"]]
    /\ past' = [past EXCEPT ![j] = [NoPast EXCEPT !.steady = Listed]]
    /\ UNCHANGED status

\* An empty page ends the run.
ReadPage(j) ==
    /\ sync[j].step = "list"
    /\ \E page \in ListAllActive(sync[j].offset) :
          /\ sync' = [sync EXCEPT ![j].step = IF page = <<>> THEN "done" ELSE "item",
                                  ![j].page = page,
                                  ![j].full = Len(page) = Limit]
          /\ past' = [past EXCEPT ![j].seen = @ \cup {page[i].id : i \in DOMAIN page}]
    /\ UNCHANGED status

\* The query fails, or the job dies or runs out of its ten minutes.
JobFails(j) ==
    /\ sync[j].step \in {"list", "item"}
    /\ sync' = [sync EXCEPT ![j] = NoRun]
    /\ past' = [past EXCEPT ![j] = NoPast]
    /\ UNCHANGED status

\* Mutant of NextCompany: the offset advances by one too many.
NextCompany_SkipsOne(j) ==
    IF Len(sync[j].page) > 1
    THEN sync' = [sync EXCEPT ![j].page = Tail(@)]
    ELSE sync' = [sync EXCEPT ![j].page = <<>>, ![j].offset = @ + Limit + 1,
                              ![j].step = IF sync[j].full THEN "list" ELSE "done"]

\* Mutant of NextCompany: the offset stays.
NextCompany_SamePage(j) ==
    IF Len(sync[j].page) > 1
    THEN sync' = [sync EXCEPT ![j].page = Tail(@)]
    ELSE sync' = [sync EXCEPT ![j].page = <<>>,
                              ![j].step = IF sync[j].full THEN "list" ELSE "done"]

\* On to the next company of the page; after the last one the offset advances
\* by Limit, and a page that was not full ends the run.
NextCompany(j) ==
    IF Len(sync[j].page) > 1
    THEN sync' = [sync EXCEPT ![j].page = Tail(@)]
    ELSE sync' = [sync EXCEPT ![j].page = <<>>, ![j].offset = @ + Limit,
                              ![j].step = IF sync[j].full THEN "list" ELSE "done"]

\* The status a situation stands for.
MapStatus(answer) == IF answer = "ATIVA" THEN "active" ELSE "suspended"

\* Mutant of SyncCompany: the row is written back whether it changed or not.
SyncCompany_Always(j, answer) ==
    /\ sync[j].step = "item"
    /\ LET comp == Head(sync[j].page)
           new  == MapStatus(answer)
       IN  UpdateCompany(comp.id, new) /\ past' = Record(comp.id, new)
    /\ NextCompany(j)

\* syncCompany: the row is written if the copy has another status.
SyncCompany(j, answer) ==
    /\ sync[j].step = "item"
    /\ LET comp == Head(sync[j].page)
           new  == MapStatus(answer)
       IN  IF comp.status = new THEN UNCHANGED <<status, past>>
           ELSE UpdateCompany(comp.id, new) /\ past' = Record(comp.id, new)
    /\ NextCompany(j)

\* The lookup or the UPDATE fails: counted, and on to the next company.
SyncCompanyFails(j) ==
    /\ sync[j].step = "item"
    /\ NextCompany(j)
    /\ UNCHANGED <<status, past>>

SyncStep(j) ==
    \/ ReadPage(j) \/ SyncCompanyFails(j)
    \/ \E answer \in Answers : SyncCompany(j, answer)

SyncNext ==
    \/ \E n \in CompanyIds, answer \in Answers : CreateCompany(n, answer)
    \/ \E n \in CompanyIds : SuspendCompany(n) \/ ActivateCompany(n)
    \/ \E n \in CompanyIds, s \in {"active", "suspended", "pending"} :
          UpdateCompanyStatus(n, s)
    \/ \E j \in Jobs : SyncAll(j) \/ JobFails(j) \/ SyncStep(j)

\* A run that is not interrupted takes its next step.
SyncSpec ==
    /\ SyncInit /\ [][SyncNext]_syncVars
    /\ \A j \in Jobs : WF_syncVars(SyncStep(j))

-----------------------------------------------------------------------------
(* Properties.                                                             *)

\* A company that a finished run of SyncAll missed although it was listed from
\* the beginning to the end slid past the offset: there are never more of them
\* than suspensions during the run, so a run without suspensions sees all.
SkipsExplained ==
    \A j \in Jobs :
        sync[j].step = "done" =>
            Cardinality(past[j].steady \ past[j].seen) <= past[j].suspensions

\* Somebody who activates the company ends its suspension.  The job does so
\* only by writing back a copy that was pending when it was read, before the
\* company was suspended; a copy that was active never does.
SuspensionSticks ==
    [][\A n \in CompanyIds :
          status[n] = "suspended" /\ status'[n] # "suspended" =>
              \/ ActivateCompany(n)
              \/ \E s \in {"active", "pending"} : UpdateCompanyStatus(n, s)
              \/ \E j \in Jobs : /\ sync[j].step = "item"
                                 /\ Head(sync[j].page) = [id |-> n, status |-> "pending"]
                                 /\ sync'[j] # sync[j]]_syncVars

\* Every run of SyncAll ends, although companies come and go while it pages.
SyncEnds ==
    \A j \in Jobs : sync[j].step \in {"list", "item"} ~> sync[j].step \in {"idle", "done"}

\* A job pages over well-formed rows and misses a company only if others were
\* suspended while it ran.
SyncSound == SyncTypeOK /\ SkipsExplained

=============================================================================
