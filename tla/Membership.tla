----------------------------- MODULE Membership -----------------------------
(***************************************************************************)
(* The members of one company: the company_users rows, the cached role of  *)
(* each user in Redis (redis/cached_company_user_repository.go), the       *)
(* invitations, and the requests that read and write them                  *)
(* (company_service.go, invitation_service.go and their handlers).         *)
(*                                                                         *)
(* A request is a sequence of separate commands: look up a role (cache,    *)
(* then database, then fill the cache), write one row, delete the cached   *)
(* role.  Nothing locks the row or the key between them, and every Redis   *)
(* error is logged and ignored.                                            *)
(*                                                                         *)
(* The viewer role passes the same checks as member here.  The cached list *)
(* of a user's companies follows the same protocol and is left out.        *)
(***************************************************************************)
EXTENDS Naturals

CONSTANTS
    People,         \* registered users, each with its email address
    Creator,        \* the user who created the company
    Reqs,           \* requests that can be in progress together
    Targets,        \* bound: the users the requests are about
    Invitations,    \* invitations, each created once
    InvitedRoles    \* bound: the roles invitations are made for

ASSUME MembershipAssumption ==
    /\ Creator \in People
    /\ Targets \subseteq People
    /\ InvitedRoles \subseteq {"admin", "member"}
    /\ "" \notin Invitations

VARIABLES
    member,         \* member[u]: the company_users row of u
    cache,          \* cache[u]: company:user_role:<company>:<u>
    inv,            \* inv[i]: the invitations row i
    lapsed,         \* invitations whose expires_at has passed
    req,            \* req[p]: request p
    granted,        \* history: users an admin has added, approved or invited
    excused,        \* history: users whose key was filled late or not deleted
    use             \* history: use[i]: how often i put its user in the company

invVars == <<inv, use>>
memberVars == <<member, cache, invVars, lapsed, req, granted, excused>>

Roles == {"admin", "member"}

NoRow == [role |-> "", status |-> ""]

Rows == [role : Roles, status : {"pending", "active"}]

NoInvitation == [email |-> Creator, role |-> "", status |-> ""]

Operations == {"access", "add", "remove", "join", "approve", "reject", "role",
               "invite"}

\* The operations that ask for the role of the caller first.
AdminOperations == {"add", "remove", "approve", "reject", "invite"}

\* The operations that ask for the role of the user they are about.
TargetOperations == Operations \ {"approve", "reject"}

\* vetted is history: the request found its caller to be an admin.
Idle == [op |-> "none", step |-> "idle", actor |-> Creator, target |-> Creator,
         role |-> "member", found |-> "", inv |-> "", vetted |-> FALSE]

Steps == {"idle", "actor", "fillActor", "target", "fillTarget", "write",
          "invalidate", "create", "redeem", "save"}

MembershipTypeOK ==
    /\ member \in [People -> Rows \cup {NoRow}]
    /\ cache \in [People -> Roles \cup {"absent", "NOT_FOUND"}]
    /\ inv \in [Invitations ->
                   [email : People, role : Roles, status : {"pending", "accepted"}]
                   \cup {NoInvitation}]
    /\ lapsed \subseteq Invitations
    /\ req \in [Reqs ->
                   [op : Operations \cup {"none", "accept"}, step : Steps,
                    actor : People, target : People, role : Roles,
                    found : Roles \cup {"", "NOT_FOUND"},
                    inv : Invitations \cup {""}, vetted : BOOLEAN]]
    /\ granted \subseteq People
    /\ excused \subseteq People
    /\ use \in [Invitations -> {"never", "once", "again", "excused"}]

\* CreateCompany has committed.
MembershipInit ==
    /\ member = [u \in People |-> IF u = Creator
                              THEN [role |-> "admin", status |-> "active"]
                              ELSE NoRow]
    /\ cache = [u \in People |-> "absent"]
    /\ inv = [i \in Invitations |-> NoInvitation]
    /\ lapsed = {}
    /\ req = [p \in Reqs |-> Idle]
    /\ granted = {Creator}
    /\ excused = {}
    /\ use = [i \in Invitations |-> "never"]

-----------------------------------------------------------------------------
(* CachedCompanyUserRepository.GetUserRole.                                *)

\* SELECT role ... AND status = 'active'.
ActiveRole(u) == IF member[u].status = "active" THEN member[u].role ELSE "NOT_FOUND"

Respond(p) == req' = [req EXCEPT ![p] = Idle]

Goto(p, step) ==
    req' = [req EXCEPT ![p].step = step, ![p].found = "", ![p].actor = Creator]

\* The caller, whose role is v, is not looked at again.
Admit(p, step, v) ==
    req' = [req EXCEPT ![p].step = step, ![p].found = "", ![p].actor = Creator,
                       ![p].vetted = v = "admin"]

\* The user a request is about has been let in by its caller, an admin.
Grant(p) == granted' = IF req[p].vetted THEN granted \cup {req[p].target} ELSE granted

\* Whose role the request looks up.
Subject(p) ==
    IF req[p].step \in {"actor", "fillActor"} THEN req[p].actor
    ELSE req[p].target

\* invokerRole != company.RoleAdmin is refused.
CallerAllowed(v) == v = "admin"

\* What the request does with the role v it has found, or with the error it
\* got (then v is NOT_FOUND: adding treats any error as "not a member", the
\* others refuse).
Decide(p, v) ==
    LET r == req[p]
    IN  IF r.step \in {"actor", "fillActor"}
        THEN IF CallerAllowed(v)
             THEN Admit(p, IF r.op \in TargetOperations THEN "target" ELSE "write", v)
             ELSE Respond(p)
        ELSE CASE r.op \in {"add", "join"} /\ v = "NOT_FOUND" -> Goto(p, "write")
               [] r.op = "invite" /\ v = "NOT_FOUND" -> Goto(p, "create")
               [] r.op = "remove" /\ v # "NOT_FOUND" -> Goto(p, "write")
               [] r.op = "role" /\ v \notin {"NOT_FOUND", r.role} -> Goto(p, "write")
               [] OTHER -> Respond(p)

\* GET finds the key.
RoleCached(p) ==
    /\ req[p].step \in {"actor", "target"}
    /\ cache[Subject(p)] # "absent"
    /\ Decide(p, cache[Subject(p)])
    /\ UNCHANGED <<member, cache, invVars, lapsed, granted, excused>>

\* GET finds nothing or fails, and the database answers.
RoleFromDatabase(p) ==
    /\ req[p].step \in {"actor", "target"}
    /\ req' = [req EXCEPT ![p].step = IF @ = "actor" THEN "fillActor"
                                      ELSE "fillTarget",
                          ![p].found = ActiveRole(Subject(p))]
    /\ UNCHANGED <<member, cache, invVars, lapsed, granted, excused>>

\* The database fails as well.
RoleUnknown(p) ==
    /\ req[p].step \in {"actor", "target"}
    /\ Decide(p, "NOT_FOUND")
    /\ UNCHANGED <<member, cache, invVars, lapsed, granted, excused>>

\* SET with the role that was read, or NOT_FOUND.
FillRole(p) ==
    /\ req[p].step \in {"fillActor", "fillTarget"}
    /\ cache' = [cache EXCEPT ![Subject(p)] = req[p].found]
    /\ excused' = IF req[p].found \in {"NOT_FOUND", ActiveRole(Subject(p))}
                  THEN excused \ {Subject(p)} ELSE excused \cup {Subject(p)}
    /\ Decide(p, req[p].found)
    /\ UNCHANGED <<member, invVars, lapsed, granted>>

\* SET fails, which is ignored.
FillFails(p) ==
    /\ req[p].step \in {"fillActor", "fillTarget"}
    /\ Decide(p, req[p].found)
    /\ UNCHANGED <<member, cache, invVars, lapsed, granted, excused>>

\* Five minutes, or one minute for NOT_FOUND, are over.
RoleKeyExpires(u) ==
    /\ cache[u] # "absent"
    /\ cache' = [cache EXCEPT ![u] = "absent"]
    /\ excused' = excused \ {u}
    /\ UNCHANGED <<member, invVars, lapsed, req, granted>>

-----------------------------------------------------------------------------
(* Requests of the company handlers.                                       *)

\* A handler is called: GetCompany or ValidateCompanyAccess ("access"),
\* AddUserToCompany, RemoveUserFromCompany, RequestJoin ("join"),
\* ApproveMember, RejectMember, InviteUser, or the service's UpdateUserRole.
Call(p, op, a, u, r) ==
    /\ req[p].step = "idle"
    /\ op \in {"access", "join", "role"} => a = u
    /\ op \notin {"add", "role", "invite"} => r = "member"
    /\ op = "invite" => r \in InvitedRoles
    /\ req' = [req EXCEPT ![p] =
                  [op |-> op, actor |-> a, target |-> u, role |-> r,
                   step |-> IF op \in AdminOperations THEN "actor" ELSE "target",
                   found |-> "", inv |-> "", vetted |-> FALSE]]
    /\ UNCHANGED <<member, cache, invVars, lapsed, granted, excused>>

\* The row is written: what is left to do needs the target, or the invitation.
Written(p, step) ==
    req' = [req EXCEPT ![p] = [Idle EXCEPT !.step = step, !.inv = req[p].inv,
                                           !.target = req[p].target]]

\* The row of u becomes r.
SetRow(u, r) == member' = [member EXCEPT ![u] = r]

\* Mutant of AddUser: RequestJoin keeps the status of NewCompanyUser.
AddUser_JoinActive(p) ==
    /\ req[p].step = "write"
    /\ req[p].op \in {"add", "join"}
    /\ member[req[p].target] = NoRow
    /\ SetRow(req[p].target, [role |-> req[p].role, status |-> "active"])
    /\ Grant(p)
    /\ Respond(p)
    /\ UNCHANGED <<cache, invVars, lapsed, excused>>

\* INSERT for AddUserToCompany (active) or RequestJoin (a pending member); a
\* row that is there already is a conflict and ends the request.  The role
\* key is not deleted.
AddUser(p) ==
    /\ req[p].step = "write"
    /\ req[p].op \in {"add", "join"}
    /\ member[req[p].target] = NoRow
    /\ IF req[p].op = "add"
       THEN /\ SetRow(req[p].target, [role |-> req[p].role, status |-> "active"])
            /\ Grant(p)
       ELSE /\ SetRow(req[p].target, [role |-> "member", status |-> "pending"])
            /\ UNCHANGED granted
    /\ Respond(p)
    /\ UNCHANGED <<cache, invVars, lapsed, excused>>

\* Mutant of RemoveUser: the cached role is forgotten.
RemoveUser_KeepsKey(p) ==
    /\ req[p].step = "write"
    /\ req[p].op \in {"remove", "reject"}
    /\ member[req[p].target] # NoRow
    /\ SetRow(req[p].target, NoRow)
    /\ Respond(p)
    /\ UNCHANGED <<cache, invVars, lapsed, granted, excused>>

\* DELETE for RemoveUserFromCompany and RejectMember, whatever the status.
RemoveUser(p) ==
    /\ req[p].step = "write"
    /\ req[p].op \in {"remove", "reject"}
    /\ member[req[p].target] # NoRow
    /\ SetRow(req[p].target, NoRow)
    /\ Written(p, "invalidate")
    /\ UNCHANGED <<cache, invVars, lapsed, granted, excused>>

\* UPDATE status = 'active' for ApproveMember, whatever the status.
UpdateUserStatus(p) ==
    /\ req[p].step = "write"
    /\ req[p].op = "approve"
    /\ member[req[p].target] # NoRow
    /\ SetRow(req[p].target, [member[req[p].target] EXCEPT !.status = "active"])
    /\ Grant(p)
    /\ Written(p, "invalidate")
    /\ UNCHANGED <<cache, invVars, lapsed, excused>>

UpdateUserRole(p) ==
    /\ req[p].step = "write"
    /\ req[p].op = "role"
    /\ member[req[p].target] # NoRow
    /\ SetRow(req[p].target, [member[req[p].target] EXCEPT !.role = req[p].role])
    /\ Written(p, "invalidate")
    /\ UNCHANGED <<cache, invVars, lapsed, granted, excused>>

\* DEL of the role key.
InvalidateRole(p) ==
    /\ req[p].step = "invalidate"
    /\ cache' = [cache EXCEPT ![req[p].target] = "absent"]
    /\ excused' = excused \ {req[p].target}
    /\ Respond(p)
    /\ UNCHANGED <<member, invVars, lapsed, granted>>

-----------------------------------------------------------------------------
(* InvitationService.                                                      *)

\* GetByEmailAndCompany returns any one pending invitation; an unexpired one
\* ends the request.
NoBlockingInvitation(u) ==
    LET pending == {i \in Invitations :
                       inv[i].status = "pending" /\ inv[i].email = u}
    IN  pending = {} \/ pending \cap lapsed # {}

\* The check and the INSERT of InviteUser; the email is sent to the address.
\* A lookup that fails counts as none found.
CreateInvitation(p, i, lookupWorks) ==
    /\ req[p].step = "create"
    /\ inv[i] = NoInvitation
    /\ lookupWorks => NoBlockingInvitation(req[p].target)
    /\ inv' = [inv EXCEPT ![i] = [email |-> req[p].target, role |-> req[p].role,
                                  status |-> "pending"]]
    /\ Grant(p)
    /\ Respond(p)
    /\ UNCHANGED <<member, cache, lapsed, excused, use>>

\* Mutant of AcceptInvitation: Accept does not look at the status.
AcceptInvitation_AnyStatus(p, i) ==
    /\ req[p].step = "idle"
    /\ inv[i] # NoInvitation
    /\ i \notin lapsed
    /\ req' = [req EXCEPT ![p] =
                  [Idle EXCEPT !.op = "accept", !.step = "redeem", !.inv = i,
                               !.actor = inv[i].email, !.target = inv[i].email,
                               !.role = inv[i].role]]
    /\ use' = [use EXCEPT ![i] = IF \E q \in Reqs : req[q].inv = i
                                 THEN "excused" ELSE @]
    /\ UNCHANGED <<member, cache, lapsed, granted, excused, inv>>

\* AcceptInvitation by the user it was sent to: GetByToken and Accept, which
\* changes the copy in memory only.
AcceptInvitation(p, i) ==
    /\ req[p].step = "idle"
    /\ inv[i].status = "pending"
    /\ i \notin lapsed
    /\ req' = [req EXCEPT ![p] =
                  [Idle EXCEPT !.op = "accept", !.step = "redeem", !.inv = i,
                               !.actor = inv[i].email, !.target = inv[i].email,
                               !.role = inv[i].role]]
    /\ use' = [use EXCEPT ![i] = IF \E q \in Reqs : req[q].inv = i
                                 THEN "excused" ELSE @]
    /\ UNCHANGED <<member, cache, lapsed, granted, excused, inv>>

\* One use more, unless the uses are not counted any more.
UsedAgain(n) ==
    CASE n = "never" -> "once" [] n = "excused" -> "excused" [] OTHER -> "again"

\* companyUserRepo.AddUser.
RedeemInvitation(p) ==
    /\ req[p].step = "redeem"
    /\ member[req[p].target] = NoRow
    /\ SetRow(req[p].target, [role |-> req[p].role, status |-> "active"])
    /\ use' = [use EXCEPT ![req[p].inv] = UsedAgain(@)]
    /\ Written(p, "save")
    /\ UNCHANGED <<cache, lapsed, granted, excused, inv>>

\* invRepo.Update: "This is bad if step 4 succeeded. Should be in transaction."
SaveInvitation(p) ==
    /\ req[p].step = "save"
    /\ inv' = [inv EXCEPT ![req[p].inv].status = "accepted"]
    /\ Respond(p)
    /\ UNCHANGED <<member, cache, lapsed, granted, excused, use>>

\* Seven days are over; only a pending invitation is ever looked at again.
ExpireInvitation(i) ==
    /\ inv[i].status = "pending"
    /\ i \notin lapsed
    /\ lapsed' = lapsed \cup {i}
    /\ UNCHANGED <<member, cache, invVars, req, granted, excused>>

-----------------------------------------------------------------------------

\* A command fails, a row is missing or there already, or the process dies:
\* the request ends with what it has done so far.  A failing DEL is ignored.
Abort(p) ==
    /\ req[p].step # "idle"
    /\ use' = IF req[p].step = "save"
              THEN [use EXCEPT ![req[p].inv] = "excused"] ELSE use
    /\ excused' = IF req[p].step = "invalidate" /\ cache[req[p].target] \in Roles
                  THEN excused \cup {req[p].target} ELSE excused
    /\ Respond(p)
    /\ UNCHANGED <<member, cache, lapsed, granted, inv>>

\* One more step of a running request.
MemberStep(p) ==
    \/ RoleCached(p)
    \/ RoleFromDatabase(p)
    \/ RoleUnknown(p)
    \/ FillRole(p)
    \/ FillFails(p)
    \/ AddUser(p)
    \/ RemoveUser(p)
    \/ UpdateUserStatus(p)
    \/ UpdateUserRole(p)
    \/ InvalidateRole(p)
    \/ \E i \in Invitations, works \in BOOLEAN : CreateInvitation(p, i, works)
    \/ RedeemInvitation(p)
    \/ SaveInvitation(p)
    \/ Abort(p)

MembershipNext ==
    \/ \E p \in Reqs, op \in Operations, a \in People, u \in Targets, r \in Roles :
          Call(p, op, a, u, r)
    \/ \E p \in Reqs, i \in Invitations : AcceptInvitation(p, i)
    \/ \E p \in Reqs : MemberStep(p)
    \/ \E u \in People : RoleKeyExpires(u)
    \/ \E i \in Invitations : ExpireInvitation(i)

MembershipSpec == MembershipInit /\ [][MembershipNext]_memberVars

-----------------------------------------------------------------------------
(* Properties.                                                             *)

\* Nobody is an active member without the act of an admin: every active row
\* but the creator's was added, approved or invited by a request that had
\* found its caller to be an admin, in whatever order join requests,
\* invitations, approvals and removals overlap.
ActiveWereGranted ==
    \A u \in People : member[u].status = "active" => u \in granted

\* A cached role that differs from the row has one of three causes: the write
\* has still to delete the key, the deletion failed, or a read that began
\* before the write filled the key after it.
StaleRoleExplained ==
    \A u \in People :
        (cache[u] \in Roles /\ cache[u] # ActiveRole(u)) =>
            \/ u \in excused
            \/ \E p \in Reqs :
                  req[p].step = "invalidate" /\ req[p].target = u

\* An invitation lets its user in once, unless an earlier redemption could not
\* be recorded or two requests redeemed it together: a removed member does
\* not come back with a used invitation.
InvitationUsedOnce == \A i \in Invitations : use[i] # "again"

\* The rows are rows the code can write, and nobody is an active member
\* without the act of an admin.
MembersWereGranted == MembershipTypeOK /\ ActiveWereGranted

=============================================================================
