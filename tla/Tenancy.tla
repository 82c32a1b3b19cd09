------------------------------ MODULE Tenancy -------------------------------
(***************************************************************************)
(* Tenants and roles: creation of a tenant with its owner tuple            *)
(* (tenant_service.go, tenant_repo.go), suspension, and the roles of a     *)
(* tenant (policy_service.go, role_repo.go), with their handlers.  Every   *)
(* statement is a transaction of its own.                                  *)
(***************************************************************************)
EXTENDS Naturals

CONSTANTS
    Tenants,        \* tenant ids, each generated once
    RoleIds,        \* role ids, each generated once
    Texts,          \* what a request gives as name and as permissions
    Jobs            \* requests that can be in progress together

VARIABLES
    tenant,         \* tenant[t]: status of the tenants row
    owned,          \* tenants with an owner tuple
    role,           \* role[r]: the roles row
    job,            \* job[p]: request p between two statements
    abandoned,      \* history: tenants whose creation ended half way
    removed         \* history: deleted roles

tenancyVars == <<tenant, owned, role, job, abandoned, removed>>

NoRole == [name |-> "", permissions |-> ""]

NoJob == [step |-> "idle", id |-> "", text |-> ""]

TenancyTypeOK ==
    /\ tenant \in [Tenants -> {"absent", "active", "suspended"}]
    /\ owned \subseteq Tenants /\ abandoned \subseteq Tenants
    /\ role \in [RoleIds -> [name : Texts, permissions : Texts] \cup {NoRole}]
    /\ job \in [Jobs -> [step : {"idle", "tuple", "suspend", "update"},
                         id : Tenants \cup RoleIds \cup {""}, text : Texts \cup {""}]]
    /\ removed \subseteq RoleIds

TenancyInit ==
    /\ tenant = [t \in Tenants |-> "absent"]
    /\ owned = {} /\ abandoned = {}
    /\ role = [r \in RoleIds |-> NoRole]
    /\ job = [p \in Jobs |-> NoJob]
    /\ removed = {}

Begin(p, step, id, text) ==
    /\ job[p] = NoJob
    /\ job' = [job EXCEPT ![p] = [step |-> step, id |-> id, text |-> text]]

Done(p) == job' = [job EXCEPT ![p] = NoJob]

-----------------------------------------------------------------------------
(* TenantService.                                                          *)

\* SELECT ... WHERE id.
TenantFound(t) == tenant[t] # "absent"

\* INSERT of a tenant that is active, or UPDATE of its name and status.
SaveTenant(t, status) == tenant' = [tenant EXCEPT ![t] = status]

\* CreateTenant by an authenticated user: the first statement.
CreateTenant(p, t) ==
    /\ ~TenantFound(t)
    /\ Begin(p, "tuple", t, "")
    /\ SaveTenant(t, "active")
    /\ UNCHANGED <<owned, role, abandoned, removed>>

\* Mutant of AssignOwner: the tuple is kept for active tenants only.
AssignOwner_ActiveOnly(p) ==
    /\ job[p].step = "tuple"
    /\ owned' = IF tenant[job[p].id] = "active" THEN owned \cup {job[p].id} ELSE owned
    /\ Done(p)
    /\ UNCHANGED <<tenant, role, abandoned, removed>>

\* WriteTuple of the owner, the second statement.
AssignOwner(p) ==
    /\ job[p].step = "tuple"
    /\ owned' = owned \cup {job[p].id}
    /\ Done(p)
    /\ UNCHANGED <<tenant, role, abandoned, removed>>

\* SuspendTenant reads the row; the caller need not be a super admin.
ReadTenant(p, t) ==
    /\ TenantFound(t)
    /\ Begin(p, "suspend", t, "")
    /\ UNCHANGED <<tenant, owned, role, abandoned, removed>>

\* The copy is written back with its new status.
SuspendTenant(p) ==
    /\ job[p].step = "suspend"
    /\ SaveTenant(job[p].id, "suspended")
    /\ Done(p)
    /\ UNCHANGED <<owned, role, abandoned, removed>>

-----------------------------------------------------------------------------
(* Roles.                                                                  *)

\* The role a request describes.
RoleOf(x) == [name |-> x, permissions |-> x]

RoleFound(r) == role[r] # NoRole

\* CreateRole generates an id that no role has or had.
CreateRole(r, x) ==
    /\ ~RoleFound(r)
    /\ r \notin removed
    /\ role' = [role EXCEPT ![r] = RoleOf(x)]
    /\ UNCHANGED <<tenant, owned, job, abandoned, removed>>

\* UpdateRole: GetByID, and the values of the request in the copy.
ReadRole(p, r, x) ==
    /\ RoleFound(r)
    /\ Begin(p, "update", r, x)
    /\ UNCHANGED <<tenant, owned, role, abandoned, removed>>

\* UPDATE ... WHERE id of name, description and permissions; no row, no change.
UpdateRole(p) ==
    /\ job[p].step = "update"
    /\ role' = IF ~RoleFound(job[p].id) THEN role
               ELSE [role EXCEPT ![job[p].id] = RoleOf(job[p].text)]
    /\ Done(p)
    /\ UNCHANGED <<tenant, owned, abandoned, removed>>

DeleteRole(r) ==
    /\ RoleFound(r)
    /\ role' = [role EXCEPT ![r] = NoRole]
    /\ removed' = removed \cup {r}
    /\ UNCHANGED <<tenant, owned, job, abandoned>>

\* The second statement fails or the process dies: "we assume eventual
\* consistency or manual cleanup on failure".
AbandonJob(p) ==
    /\ job[p] # NoJob
    /\ abandoned' = IF job[p].step = "tuple" THEN abandoned \cup {job[p].id}
                    ELSE abandoned
    /\ Done(p)
    /\ UNCHANGED <<tenant, owned, role, removed>>

TenancyNext ==
    \/ \E p \in Jobs, t \in Tenants : CreateTenant(p, t) \/ ReadTenant(p, t)
    \/ \E p \in Jobs, r \in RoleIds, x \in Texts : ReadRole(p, r, x)
    \/ \E r \in RoleIds, x \in Texts : CreateRole(r, x)
    \/ \E r \in RoleIds : DeleteRole(r)
    \/ \E p \in Jobs : AssignOwner(p) \/ SuspendTenant(p) \/ UpdateRole(p)
                       \/ AbandonJob(p)

TenancySpec == TenancyInit /\ [][TenancyNext]_tenancyVars

-----------------------------------------------------------------------------
(* Properties.                                                             *)

\* A tenant without an owner is being created or was abandoned between its two
\* statements, and no owner tuple is left without its tenant.
OwnerlessExplained ==
    \A t \in Tenants :
        /\ t \in owned => tenant[t] # "absent"
        /\ tenant[t] # "absent" =>
              t \in owned \/ t \in abandoned
              \/ \E p \in Jobs : job[p].step = "tuple" /\ job[p].id = t

\* Name and permissions of a role are those of one request, and an update that
\* read a role before it was deleted does not bring it back.
RolesWhole ==
    \A r \in RoleIds :
        /\ role[r].name = role[r].permissions
        /\ r \in removed => role[r] = NoRole

\* Half-done requests leave explained states only: a tenant without owner was
\* abandoned between its two statements, and a role is the work of one request.
TenantsSound == TenancyTypeOK /\ OwnerlessExplained /\ RolesWhole

=============================================================================
