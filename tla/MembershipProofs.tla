-------------------------- MODULE MembershipProofs --------------------------
(***************************************************************************)
(* Proofs about Membership for any people, overlapping requests and        *)
(* invitations.                                                            *)
(***************************************************************************)
EXTENDS Membership, TLAPS

(* A request that may write for its caller has found it to be an admin,    *)
(* and an invitation is for a user an admin invited.                       *)
GrantInv ==
    /\ \A p \in Reqs :
          /\ req[p].op \in AdminOperations /\ req[p].step \in {"target", "fillTarget", "write"}
                => req[p].vetted
          /\ req[p].step = "create" => req[p].vetted
          /\ req[p].step = "redeem" => req[p].target \in granted
    /\ \A i \in Invitations : inv[i].status # "" => inv[i].email \in granted
    /\ ActiveWereGranted

(* A request that redeems an invitation holds one that exists.             *)
HeldInv ==
    \A p \in Reqs : req[p].step \in {"redeem", "save"} =>
        req[p].inv \in Invitations /\ inv[req[p].inv].status # ""

(* As long as the uses of an invitation are counted and there is none, it  *)
(* is in the hands of one request at most.                                 *)
SoleInv ==
    \A i \in Invitations : use[i] = "never" =>
        \A p, q \in Reqs : req[p].inv = i /\ req[q].inv = i => p = q

(* An invitation that was used once is in nobody's hands to use again, and *)
(* is accepted or about to be.                                             *)
SpentInv ==
    \A i \in Invitations : use[i] = "once" =>
        \A p \in Reqs : req[p].step = "redeem" => req[p].inv # i

RecordInv ==
    \A i \in Invitations : use[i] = "once" =>
        \/ inv[i].status = "accepted"
        \/ \E p \in Reqs : req[p].step = "save" /\ req[p].inv = i

UseInv == HeldInv /\ SoleInv /\ SpentInv /\ RecordInv /\ InvitationUsedOnce

\* What is about to be stored in the cache was found in the database.
FoundInv ==
    \A p \in Reqs : req[p].step \in {"fillActor", "fillTarget"} =>
                      req[p].found \in Roles \cup {"NOT_FOUND"}

MemberInv ==
    MembershipTypeOK /\ GrantInv /\ UseInv /\ FoundInv /\ StaleRoleExplained

USE MembershipAssumption

\* The shape of a request.
Request == [op : Operations \cup {"none", "accept"}, step : Steps,
            actor : People, target : People, role : Roles,
            found : Roles \cup {"", "NOT_FOUND"},
            inv : Invitations \cup {""}, vetted : BOOLEAN]

LEMMA NoRowFields == NoRow.status = "" /\ NoRow.role = ""
  BY DEF NoRow

LEMMA NoInvitationFields == NoInvitation.status = ""
  BY DEF NoInvitation

LEMMA IdleRequest ==
    /\ Idle \in Request /\ Idle.step = "idle" /\ Idle.op = "none"
    /\ Idle.inv = "" /\ ~Idle.vetted
  BY DEF Idle, Request, Steps, Roles

LEMMA MemberInitInv == MembershipInit => MemberInv
<1> SUFFICES ASSUME MembershipInit PROVE MemberInv
  OBVIOUS
<1>1. MembershipTypeOK
  <2>1. req \in [Reqs -> Request]
    BY IdleRequest DEF MembershipInit
  <2> QED
    BY <2>1 DEF MembershipInit, MembershipTypeOK, Request, Rows, NoRow, Roles
<1>2. GrantInv
  BY IdleRequest DEF MembershipInit, GrantInv, ActiveWereGranted, NoRow, NoInvitation, AdminOperations
<1>3. UseInv
  BY IdleRequest DEF MembershipInit, UseInv, HeldInv, SoleInv, SpentInv, RecordInv,
                     InvitationUsedOnce
<1>4. StaleRoleExplained
  BY DEF MembershipInit, StaleRoleExplained, Roles
<1>5. FoundInv
  BY IdleRequest DEF MembershipInit, FoundInv
<1> QED
  BY <1>1, <1>2, <1>3, <1>4, <1>5 DEF MemberInv

\* What Decide makes of a request that has looked up a role.
LEMMA Decided ==
    ASSUME MembershipTypeOK, GrantInv, NEW p \in Reqs, NEW v, Decide(p, v),
           req[p].step \in {"actor", "fillActor", "target", "fillTarget"}
    PROVE  \E n \in Request :
              /\ req' = [req EXCEPT ![p] = n]
              /\ n.step \in {"idle", "target", "write", "create"}
              /\ n.inv \in {"", req[p].inv}
              /\ n.op \in AdminOperations /\ n.step \in {"target", "write"} => n.vetted
              /\ n.step = "create" => n.vetted
<1> DEFINE r == req[p]
<1>0. r \in Request /\ req \in [Reqs -> Request]
  BY DEF MembershipTypeOK, Request
<1>1. CASE Respond(p)
  <2>1. req' = [req EXCEPT ![p] = Idle]
    BY <1>1 DEF Respond
  <2> QED
    BY <2>1, IdleRequest
<1>2. CASE r.step \in {"actor", "fillActor"} /\ v = "admin"
            /\ Admit(p, IF r.op \in TargetOperations THEN "target" ELSE "write", v)
  <2> DEFINE n == [r EXCEPT !.step = IF r.op \in TargetOperations THEN "target" ELSE "write",
                            !.found = "", !.actor = Creator, !.vetted = TRUE]
  <2>1. n \in Request /\ n.step \in {"target", "write"} /\ n.inv = r.inv /\ n.vetted
    BY <1>0 DEF Request, Steps
  <2>2. req' = [req EXCEPT ![p] = n]
    BY <1>2, <1>0 DEF Admit, Request
  <2> QED
    BY <2>1, <2>2
<1>3. CASE r.step \in {"target", "fillTarget"}
            /\ \E s \in {"write", "create"} : Goto(p, s) /\ (s = "create" => r.op = "invite")
  <2>1. PICK s \in {"write", "create"} : Goto(p, s) /\ (s = "create" => r.op = "invite")
    BY <1>3
  <2> DEFINE n == [r EXCEPT !.step = s, !.found = "", !.actor = Creator]
  <2>2. n \in Request /\ n.step = s /\ n.inv = r.inv /\ n.op = r.op /\ n.vetted = r.vetted
    BY <1>0 DEF Request, Steps
  <2>3. req' = [req EXCEPT ![p] = n]
    BY <2>1, <1>0 DEF Goto, Request
  <2>4. r.op \in AdminOperations => r.vetted
    BY <1>3 DEF GrantInv
  <2>5. s = "create" => r.vetted
    BY <2>1, <2>4 DEF AdminOperations
  <2> QED
    BY <2>1, <2>2, <2>3, <2>4, <2>5
<1>4. CASE r.step \in {"actor", "fillActor"}
  BY <1>4, <1>1, <1>2 DEF Decide, CallerAllowed
<1>5. CASE r.step \in {"target", "fillTarget"}
  <2>1. Respond(p) \/ Goto(p, "write") \/ (Goto(p, "create") /\ r.op = "invite")
    BY <1>5 DEF Decide
  <2> QED
    BY <2>1, <1>1, <1>3, <1>5
<1> QED
  BY <1>4, <1>5

-----------------------------------------------------------------------------
(* Request p becomes n: what each part of the invariant asks of n.         *)

LEMMA GrantWrite ==
    ASSUME MembershipTypeOK, GrantInv, NEW p \in Reqs, NEW n \in Request,
           req' = [req EXCEPT ![p] = n],
           granted \subseteq granted',
           n.op \in AdminOperations /\ n.step \in {"target", "fillTarget", "write"} => n.vetted,
           n.step = "create" => n.vetted,
           n.step = "redeem" => n.target \in granted',
           \A u \in People : member'[u].status = "active" =>
              member[u].status = "active" \/ u \in granted',
           \A i \in Invitations : inv'[i].status # "" =>
              inv'[i].email \in granted'
              \/ (inv[i].status # "" /\ inv'[i].email = inv[i].email)
    PROVE  GrantInv'
<1>1. \A q \in Reqs : req'[q] = IF q = p THEN n ELSE req[q]
  BY DEF MembershipTypeOK
<1>2. \A q \in Reqs :
         /\ req'[q].op \in AdminOperations /\ req'[q].step \in {"target", "fillTarget", "write"}
               => req'[q].vetted
         /\ req'[q].step = "create" => req'[q].vetted
         /\ req'[q].step = "redeem" => req'[q].target \in granted'
  <2> SUFFICES ASSUME NEW q \in Reqs
               PROVE  /\ req'[q].op \in AdminOperations
                         /\ req'[q].step \in {"target", "fillTarget", "write"}
                            => req'[q].vetted
                      /\ req'[q].step = "create" => req'[q].vetted
                      /\ req'[q].step = "redeem" => req'[q].target \in granted'
    OBVIOUS
  <2>1. CASE q = p
    BY <2>1, <1>1
  <2>2. CASE q # p
    <3>1. req'[q] = req[q]
      BY <2>2, <1>1
    <3> QED
      BY <3>1 DEF GrantInv
  <2> QED
    BY <2>1, <2>2
<1>3. \A i \in Invitations : inv'[i].status # "" => inv'[i].email \in granted'
  BY DEF GrantInv
<1>4. ActiveWereGranted'
  BY DEF GrantInv, ActiveWereGranted
<1> QED
  BY <1>2, <1>3, <1>4 DEF GrantInv, AdminOperations

LEMMA GrantStep ==
    ASSUME MembershipTypeOK, GrantInv, NEW p \in Reqs, NEW n \in Request,
           req' = [req EXCEPT ![p] = n], member' = member, inv' = inv,
           granted \subseteq granted',
           n.op \in AdminOperations /\ n.step \in {"target", "fillTarget", "write"} => n.vetted,
           n.step = "create" => n.vetted,
           n.step = "redeem" => n.target \in granted'
    PROVE  GrantInv'
  BY ZenonT(30) DEF GrantInv, ActiveWereGranted, MembershipTypeOK, Request

\* A request that is not about to record a use moves on, and no invitation is
\* taken back.
LEMMA UseStep ==
    ASSUME MembershipTypeOK, UseInv, NEW p \in Reqs, NEW n \in Request,
           req' = [req EXCEPT ![p] = n], use' = use,
           \A i \in Invitations : inv[i].status # "" => inv'[i] = inv[i],
           req[p].step # "save", n.step \notin {"redeem", "save"},
           n.inv \in {"", req[p].inv}
    PROVE  UseInv'
<1>1. \A q \in Reqs : req'[q] = IF q = p THEN n ELSE req[q]
  BY DEF MembershipTypeOK
<1>2. HeldInv'
  <2> SUFFICES ASSUME NEW q \in Reqs, req'[q].step \in {"redeem", "save"}
               PROVE  req'[q].inv \in Invitations /\ inv'[req'[q].inv].status # ""
    BY DEF HeldInv
  <2>1. req'[q] = req[q]
    BY <1>1
  <2>2. req[q].inv \in Invitations /\ inv[req[q].inv].status # ""
    BY <2>1 DEF UseInv, HeldInv
  <2> QED
    BY <2>1, <2>2
<1>3. /\ SoleInv' /\ SpentInv'
      /\ InvitationUsedOnce'
  <2>1. \A q \in Reqs : req'[q].inv \in Invitations => req'[q].inv = req[q].inv
    BY <1>1
  <2>2. \A q \in Reqs : req'[q].step = "redeem" => req[q].step = "redeem"
    BY <1>1
  <2>3. SoleInv'
    <3> SUFFICES ASSUME NEW i \in Invitations, use'[i] = "never", NEW q1 \in Reqs,
                        NEW q2 \in Reqs, req'[q1].inv = i, req'[q2].inv = i
                 PROVE  q1 = q2
      BY DEF SoleInv
    <3>1. req[q1].inv = i /\ req[q2].inv = i /\ use[i] = "never"
      BY <2>1
    <3> QED
      BY <3>1 DEF UseInv, SoleInv
  <2>4. SpentInv'
    <3> SUFFICES ASSUME NEW i \in Invitations, use'[i] = "once", NEW q \in Reqs,
                        req'[q].step = "redeem", req'[q].inv = i
                 PROVE  FALSE
      BY DEF SpentInv
    <3>1. req[q].inv = i /\ req[q].step = "redeem" /\ use[i] = "once"
      BY <2>1, <2>2
    <3> QED
      BY <3>1 DEF UseInv, SpentInv
  <2>5. InvitationUsedOnce'
    BY DEF UseInv, InvitationUsedOnce
  <2> QED
    BY <2>3, <2>4, <2>5
<1>4. ASSUME NEW i \in Invitations, use'[i] = "once"
      PROVE  \/ inv'[i].status = "accepted"
             \/ \E q \in Reqs : req'[q].step = "save" /\ req'[q].inv = i
  <2>1. CASE inv[i].status = "accepted"
    <3>1. inv'[i] = inv[i]
      BY <2>1
    <3> QED
      BY <2>1, <3>1
  <2>2. CASE \E q \in Reqs : req[q].step = "save" /\ req[q].inv = i
    <3>1. PICK q \in Reqs : req[q].step = "save" /\ req[q].inv = i
      BY <2>2
    <3>2. req'[q].step = "save" /\ req'[q].inv = i
      BY <3>1, <1>1
    <3> QED
      BY <3>2
  <2> QED
    BY <1>4, <2>1, <2>2 DEF UseInv, RecordInv
<1> QED
  BY <1>2, <1>3, <1>4 DEF UseInv, RecordInv

\* A key is not stale after the step, or excused, or about to be deleted, or
\* it was stale before and is explained as it was.
LEMMA StaleStep ==
    ASSUME MembershipTypeOK, StaleRoleExplained, NEW p \in Reqs, NEW n \in Request,
           req' = [req EXCEPT ![p] = n],
           \A u \in People :
              \/ cache'[u] \notin Roles
              \/ cache'[u] = ActiveRole(u)'
              \/ u \in excused'
              \/ n.step = "invalidate" /\ n.target = u
              \/ /\ cache'[u] = cache[u] /\ cache[u] # ActiveRole(u)
                 /\ u \in excused => u \in excused'
                 /\ ~(req[p].step = "invalidate" /\ req[p].target = u)
    PROVE  StaleRoleExplained'
<1>1. \A q \in Reqs : req'[q] = IF q = p THEN n ELSE req[q]
  BY DEF MembershipTypeOK
<1> SUFFICES ASSUME NEW u \in People, cache'[u] \in Roles, cache'[u] # ActiveRole(u)',
                    u \notin excused'
             PROVE  \E q \in Reqs : req'[q].step = "invalidate" /\ req'[q].target = u
  BY DEF StaleRoleExplained
<1>2. CASE n.step = "invalidate" /\ n.target = u
  <2>1. req'[p].step = "invalidate" /\ req'[p].target = u
    BY <1>1, <1>2
  <2> QED
    BY <2>1
<1>3. CASE /\ cache'[u] = cache[u] /\ cache[u] # ActiveRole(u)
           /\ u \in excused => u \in excused'
           /\ ~(req[p].step = "invalidate" /\ req[p].target = u)
  <2>1. PICK q \in Reqs : req[q].step = "invalidate" /\ req[q].target = u
    BY <1>3 DEF StaleRoleExplained
  <2>2. q # p /\ req'[q] = req[q]
    BY <2>1, <1>1, <1>3
  <2> QED
    BY <2>1, <2>2
<1> QED
  BY <1>2, <1>3

\* The rows and the keys stay, and the request was not about to delete one.
LEMMA StaleSame ==
    ASSUME MembershipTypeOK, StaleRoleExplained, NEW p \in Reqs, NEW n \in Request,
           req' = [req EXCEPT ![p] = n], UNCHANGED <<member, cache, excused>>,
           req[p].step # "invalidate"
    PROVE  StaleRoleExplained'
<1>1. \A u \in People : ActiveRole(u)' = ActiveRole(u)
  BY DEF ActiveRole
<1> QED
  BY <1>1, StaleStep

LEMMA FoundStep ==
    ASSUME MembershipTypeOK, FoundInv, NEW p \in Reqs, NEW n \in Request,
           req' = [req EXCEPT ![p] = n],
           n.step \in {"fillActor", "fillTarget"} => n.found \in Roles \cup {"NOT_FOUND"}
    PROVE  FoundInv'
<1>1. \A q \in Reqs : req'[q] = IF q = p THEN n ELSE req[q]
  BY DEF MembershipTypeOK
<1> QED
  BY <1>1 DEF FoundInv

LEMMA TypeStep ==
    ASSUME MembershipTypeOK, NEW p \in Reqs, NEW n \in Request,
           req' = [req EXCEPT ![p] = n]
    PROVE  req' \in [Reqs -> Request]
  BY DEF MembershipTypeOK, Request

LEMMA ReqType == MembershipTypeOK => req \in [Reqs -> Request]
  BY DEF MembershipTypeOK, Request

LEMMA SameRole ==
    ASSUME NEW u \in People, member'[u] = member[u] PROVE ActiveRole(u)' = ActiveRole(u)
<1>1. member'[u].status = member[u].status /\ member'[u].role = member[u].role
  OBVIOUS
<1> QED
  BY <1>1 DEF ActiveRole

\* The row of t becomes row, and request p has then answered, or has to delete
\* the key or to record the invitation.
LEMMA RowStep ==
    ASSUME MemberInv, NEW p \in Reqs, NEW n \in Request, NEW t \in People,
           NEW row \in Rows \cup {NoRow},
           req' = [req EXCEPT ![p] = n], member' = [member EXCEPT ![t] = row],
           UNCHANGED <<cache, inv, lapsed, excused>>,
           use' \in [Invitations -> {"never", "once", "again", "excused"}],
           granted \subseteq granted', granted' \subseteq People,
           row.status = "active" => t \in granted',
           req[p].step # "invalidate",
           n.op = "none", n.step \in {"idle", "invalidate", "save"},
           member[t] = NoRow \/ (n.step = "invalidate" /\ n.target = t)
    PROVE  MembershipTypeOK' /\ GrantInv' /\ FoundInv' /\ StaleRoleExplained'
<1> USE DEF MemberInv
<1>1. req' \in [Reqs -> Request]
  BY TypeStep
<1>2. MembershipTypeOK'
  BY <1>1 DEF MembershipTypeOK, Request
<1>3. \A u \in People : member'[u] = IF u = t THEN row ELSE member[u]
  BY DEF MembershipTypeOK
<1>4. n.op \notin AdminOperations
  BY DEF AdminOperations
<1>5. GrantInv'
  <2>1. \A u \in People : member'[u].status = "active" =>
           member[u].status = "active" \/ u \in granted'
    BY <1>3
  <2>2. \A i \in Invitations : inv'[i].status # "" =>
           inv'[i].email \in granted' \/ (inv[i].status # "" /\ inv'[i].email = inv[i].email)
    OBVIOUS
  <2> QED
    BY <1>4, <2>1, <2>2, GrantWrite
<1>6. FoundInv'
  BY FoundStep
<1>7. ASSUME NEW u \in People
      PROVE  \/ cache'[u] \notin Roles
             \/ cache'[u] = ActiveRole(u)'
             \/ n.step = "invalidate" /\ n.target = u
             \/ cache'[u] = cache[u] /\ cache[u] # ActiveRole(u)
                /\ (u \in excused => u \in excused')
  <2>1. CASE u # t
    <3>1. member'[u] = member[u]
      BY <2>1, <1>3
    <3>2. ActiveRole(u)' = ActiveRole(u)
      BY <3>1, SameRole
    <3> QED
      BY <3>2
  <2>2. CASE u = t /\ member[t] = NoRow
    <3>1. ActiveRole(u) = "NOT_FOUND"
      BY <2>2, NoRowFields DEF ActiveRole
    <3> QED
      BY <3>1 DEF Roles
  <2> QED
    BY <2>1, <2>2
<1>8. StaleRoleExplained'
  BY <1>7, StaleStep
<1> QED
  BY <1>2, <1>5, <1>6, <1>8

\* What Written leaves of a request.
LEMMA WrittenRequest ==
    ASSUME MembershipTypeOK, NEW p \in Reqs, NEW step \in Steps, Written(p, step)
    PROVE  \E n \in Request :
              /\ req' = [req EXCEPT ![p] = n]
              /\ n.op = "none" /\ n.step = step
              /\ n.inv = req[p].inv /\ n.target = req[p].target
<1> DEFINE n == [Idle EXCEPT !.step = step, !.inv = req[p].inv, !.target = req[p].target]
<1>1. req[p] \in Request
  BY ReqType
<1>2. n \in Request /\ n.op = "none" /\ n.step = step /\ n.inv = req[p].inv
      /\ n.target = req[p].target
  BY <1>1 DEF Idle, Request, Roles
<1>3. req' = [req EXCEPT ![p] = n]
  BY DEF Written
<1> QED
  BY <1>2, <1>3

\* A lookup ends in Decide, and the cache of its subject may be filled.
LEMMA LookupKeeps ==
    ASSUME MemberInv, NEW p \in Reqs, NEW v, Decide(p, v),
           req[p].step \in {"actor", "fillActor", "target", "fillTarget"},
           UNCHANGED <<member, cache, invVars, lapsed, granted, excused>>
    PROVE  MemberInv'
<1> USE DEF MemberInv
<1>1. PICK n \in Request :
         /\ req' = [req EXCEPT ![p] = n]
         /\ n.step \in {"idle", "target", "write", "create"}
         /\ n.inv \in {"", req[p].inv}
         /\ n.op \in AdminOperations /\ n.step \in {"target", "write"} => n.vetted
         /\ n.step = "create" => n.vetted
  BY Decided
<1>2. MembershipTypeOK'
  BY <1>1, TypeStep DEF MembershipTypeOK, Request, invVars
<1>3. GrantInv'
  BY <1>1, GrantStep DEF invVars
<1>4. UseInv'
  BY <1>1, UseStep DEF invVars
<1>5. StaleRoleExplained'
  BY <1>1, StaleSame
<1>6. FoundInv'
  BY <1>1, FoundStep
<1> QED
  BY <1>2, <1>3, <1>4, <1>5, <1>6

\* A request that ends holds no invitation, and no use is counted for it.
LEMMA EndedKeeps ==
    ASSUME MembershipTypeOK, UseInv, NEW p \in Reqs, req' = [req EXCEPT ![p] = Idle],
           \A i \in Invitations : use'[i] \in {"excused", use[i]},
           \A i \in Invitations : inv[i].status # "" => inv'[i].status # ""
    PROVE  HeldInv' /\ SoleInv' /\ SpentInv' /\ InvitationUsedOnce'
<1>1. \A q \in Reqs : req'[q] = IF q = p THEN Idle ELSE req[q]
  BY DEF MembershipTypeOK
<1>2. \A q \in Reqs :
         /\ req'[q].inv \in Invitations => req'[q] = req[q]
         /\ req'[q].step \in {"redeem", "save"} => req'[q] = req[q]
  BY <1>1, IdleRequest
<1>3. HeldInv'
  <2> SUFFICES ASSUME NEW q \in Reqs, req'[q].step \in {"redeem", "save"}
               PROVE  req'[q].inv \in Invitations /\ inv'[req'[q].inv].status # ""
    BY DEF HeldInv
  <2>1. req'[q] = req[q]
    BY <1>2
  <2> QED
    BY <2>1 DEF UseInv, HeldInv
<1>4. SoleInv'
  <2> SUFFICES ASSUME NEW i \in Invitations, use'[i] = "never", NEW q1 \in Reqs,
                      NEW q2 \in Reqs, req'[q1].inv = i, req'[q2].inv = i
               PROVE  q1 = q2
    BY DEF SoleInv
  <2>1. use[i] = "never" /\ req[q1].inv = i /\ req[q2].inv = i
    BY <1>2
  <2> QED
    BY <2>1 DEF UseInv, SoleInv
<1>5. SpentInv'
  <2> SUFFICES ASSUME NEW i \in Invitations, use'[i] = "once", NEW q \in Reqs,
                      req'[q].step = "redeem", req'[q].inv = i
               PROVE  FALSE
    BY DEF SpentInv
  <2>1. use[i] = "once" /\ req[q].step = "redeem" /\ req[q].inv = i
    BY <1>2
  <2> QED
    BY <2>1 DEF UseInv, SpentInv
<1>6. InvitationUsedOnce'
  BY DEF UseInv, InvitationUsedOnce
<1> QED
  BY <1>3, <1>4, <1>5, <1>6

\* What does not speak of the keys or of the time.
LEMMA RestKeeps ==
    ASSUME GrantInv, UseInv, FoundInv, UNCHANGED <<member, inv, use, req, granted>>
    PROVE  GrantInv' /\ UseInv' /\ FoundInv'
<1>1. GrantInv'
  BY DEF GrantInv, ActiveWereGranted
<1>2. FoundInv'
  BY DEF FoundInv
<1>3. HeldInv' /\ SoleInv'
  BY DEF UseInv, HeldInv, SoleInv
<1>4. SpentInv'
  BY DEF UseInv, SpentInv
<1>5. RecordInv'
  BY DEF UseInv, RecordInv
<1>6. InvitationUsedOnce'
  BY DEF UseInv, InvitationUsedOnce
<1> QED
  BY <1>1, <1>2, <1>3, <1>4, <1>5, <1>6 DEF UseInv

LEMMA MemberNextInv == MemberInv /\ [MembershipNext]_memberVars => MemberInv'
<1> SUFFICES ASSUME MemberInv, [MembershipNext]_memberVars PROVE MemberInv'
  OBVIOUS
<1> USE DEF MemberInv
<1>t. req \in [Reqs -> Request]
  BY ReqType
<1>1. ASSUME NEW p \in Reqs, NEW op \in Operations, NEW a \in People, NEW u \in Targets,
             NEW r \in Roles, Call(p, op, a, u, r)
      PROVE  MemberInv'
  <2> DEFINE n == [op |-> op, actor |-> a, target |-> u, role |-> r,
                   step |-> IF op \in AdminOperations THEN "actor" ELSE "target",
                   found |-> "", inv |-> "", vetted |-> FALSE]
  <2>1. /\ n \in Request /\ n.inv = "" /\ n.step \in {"actor", "target"} /\ n.op = op
        /\ op \in AdminOperations => n.step = "actor"
    BY DEF Request, Steps
  <2>2. /\ req' = [req EXCEPT ![p] = n] /\ req[p].step = "idle"
        /\ UNCHANGED <<member, cache, invVars, lapsed, granted, excused>>
    BY <1>1 DEF Call
  <2> HIDE DEF n
  <2>3. MembershipTypeOK'
    BY <2>1, <2>2, TypeStep DEF MembershipTypeOK, Request, invVars
  <2>4. GrantInv'
    BY <2>1, <2>2, GrantStep DEF invVars
  <2>5. UseInv'
    BY <2>1, <2>2, UseStep DEF invVars
  <2>6. StaleRoleExplained'
    BY <2>1, <2>2, StaleSame
  <2>7. FoundInv'
    BY <2>1, <2>2, FoundStep
  <2> QED
    BY <2>3, <2>4, <2>5, <2>6, <2>7
<1>2. ASSUME NEW p \in Reqs, RoleCached(p) \/ RoleUnknown(p) \/ FillFails(p)
      PROVE  MemberInv'
  BY <1>2, LookupKeeps DEF RoleCached, RoleUnknown, FillFails
<1>3. ASSUME NEW p \in Reqs, RoleFromDatabase(p) PROVE MemberInv'
  <2> DEFINE n == [req[p] EXCEPT !.step = IF @ = "actor" THEN "fillActor" ELSE "fillTarget",
                                 !.found = ActiveRole(Subject(p))]
  <2>1. req[p].step \in {"actor", "target"}
        /\ UNCHANGED <<member, cache, invVars, lapsed, granted, excused>>
    BY <1>3 DEF RoleFromDatabase
  <2>2. Subject(p) \in People
    BY <1>t DEF Subject, Request
  <2>3. ActiveRole(Subject(p)) \in Roles \cup {"NOT_FOUND"}
    <3>1. member[Subject(p)] \in Rows \/ member[Subject(p)] = NoRow
      BY <2>2 DEF MembershipTypeOK
    <3>2. CASE member[Subject(p)] \in Rows
      BY <3>2 DEF ActiveRole, Rows
    <3>3. CASE member[Subject(p)] = NoRow
      <4>1. member[Subject(p)].status = ""
        BY <3>3, NoRowFields
      <4> QED
        BY <4>1 DEF ActiveRole
    <3> QED
      BY <3>1, <3>2, <3>3
  <2>4. /\ n \in Request /\ n.inv = req[p].inv /\ n.op = req[p].op
        /\ n.vetted = req[p].vetted /\ n.found \in Roles \cup {"NOT_FOUND"}
        /\ n.step = IF req[p].step = "actor" THEN "fillActor" ELSE "fillTarget"
    BY <1>t, <2>1, <2>3 DEF Request, Steps
  <2>5. req' = [req EXCEPT ![p] = n]
    BY <1>3, <1>t DEF RoleFromDatabase, Request
  <2> HIDE DEF n
  <2>6. MembershipTypeOK'
    BY <2>1, <2>4, <2>5, TypeStep DEF MembershipTypeOK, Request, invVars
  <2>7. n.op \in AdminOperations /\ n.step \in {"target", "fillTarget", "write"} => n.vetted
    BY <2>1, <2>4 DEF GrantInv
  <2>8. GrantInv'
    BY <2>1, <2>4, <2>5, <2>7, GrantStep DEF invVars
  <2>9. UseInv'
    BY <2>1, <2>4, <2>5, UseStep DEF invVars
  <2>10. StaleRoleExplained'
    BY <2>1, <2>4, <2>5, StaleSame
  <2>11. FoundInv'
    BY <2>4, <2>5, FoundStep
  <2> QED
    BY <2>6, <2>8, <2>9, <2>10, <2>11
<1>4. ASSUME NEW p \in Reqs, FillRole(p) PROVE MemberInv'
  <2> DEFINE s == Subject(p)
             f == req[p].found
  <2>1. /\ req[p].step \in {"fillActor", "fillTarget"} /\ Decide(p, f)
        /\ cache' = [cache EXCEPT ![s] = f]
        /\ excused' = IF f \in {"NOT_FOUND", ActiveRole(s)}
                      THEN excused \ {s} ELSE excused \cup {s}
        /\ UNCHANGED <<member, invVars, lapsed, granted>>
    BY <1>4 DEF FillRole
  <2>2. s \in People
    BY <1>t DEF Subject, Request
  <2>3. f \in Roles \cup {"NOT_FOUND"}
    BY <2>1 DEF FoundInv
  <2>4. PICK n \in Request :
           /\ req' = [req EXCEPT ![p] = n]
           /\ n.step \in {"idle", "target", "write", "create"}
           /\ n.inv \in {"", req[p].inv}
           /\ n.op \in AdminOperations /\ n.step \in {"target", "write"} => n.vetted
           /\ n.step = "create" => n.vetted
    BY <2>1, Decided
  <2> HIDE DEF s, f
  <2>5. MembershipTypeOK'
    BY <2>1, <2>2, <2>3, <2>4, TypeStep DEF MembershipTypeOK, Request, invVars
  <2>6. GrantInv'
    BY <2>1, <2>4, GrantStep DEF invVars
  <2>7. UseInv'
    BY <2>1, <2>4, UseStep DEF invVars
  <2>8. FoundInv'
    BY <2>4, FoundStep
  <2>9. \A u \in People :
           /\ ActiveRole(u)' = ActiveRole(u)
           /\ u # s => cache'[u] = cache[u] /\ (u \in excused <=> u \in excused')
           /\ u = s => cache'[u] = f
    BY <2>1, <2>2 DEF ActiveRole, MembershipTypeOK
  <2>10. f = "NOT_FOUND" \/ f = ActiveRole(s) \/ s \in excused'
    BY <2>1
  <2>11. "NOT_FOUND" \notin Roles
    BY DEF Roles
  <2>12. \A u \in People :
            \/ cache'[u] \notin Roles
            \/ cache'[u] = ActiveRole(u)'
            \/ u \in excused'
            \/ cache'[u] = cache[u] /\ cache[u] # ActiveRole(u)
               /\ (u \in excused => u \in excused')
    BY <2>9, <2>10, <2>11
  <2>13. StaleRoleExplained'
    BY <2>1, <2>4, <2>12, StaleStep
  <2> QED
    BY <2>5, <2>6, <2>7, <2>8, <2>13
<1>5. ASSUME NEW p \in Reqs, AddUser(p) PROVE MemberInv'
  <2> DEFINE t == req[p].target
             row == IF req[p].op = "add" THEN [role |-> req[p].role, status |-> "active"]
                    ELSE [role |-> "member", status |-> "pending"]
  <2>1. /\ req[p].step = "write" /\ req[p].op \in {"add", "join"} /\ member[t] = NoRow
        /\ req' = [req EXCEPT ![p] = Idle] /\ member' = [member EXCEPT ![t] = row]
        /\ UNCHANGED <<cache, invVars, lapsed, excused>>
    BY <1>5 DEF AddUser, SetRow, Respond
  <2>2. t \in People /\ row \in Rows /\ (row.status = "active" => req[p].op = "add")
    BY <1>t DEF Request, Rows, Roles
  <2>3. req[p].op = "add" => granted' = granted \cup {t}
    <3>1. req[p].op = "add" => req[p].vetted
      BY <2>1 DEF GrantInv, AdminOperations
    <3> QED
      BY <1>5, <3>1 DEF AddUser, Grant
  <2>4. req[p].op # "add" => granted' = granted
    BY <1>5 DEF AddUser
  <2>5. granted \subseteq granted' /\ granted' \subseteq People
        /\ (row.status = "active" => t \in granted')
    BY <2>2, <2>3, <2>4 DEF MembershipTypeOK
  <2> HIDE DEF t, row
  <2>6. UseInv'
    BY <2>1, IdleRequest, UseStep DEF invVars
  <2>7. inv' = inv /\ use' \in [Invitations -> {"never", "once", "again", "excused"}]
    BY <2>1 DEF invVars, MembershipTypeOK
  <2>8. MembershipTypeOK' /\ GrantInv' /\ FoundInv' /\ StaleRoleExplained'
    BY <2>1, <2>2, <2>5, <2>7, IdleRequest, RowStep
  <2> QED
    BY <2>6, <2>8
<1>6. ASSUME NEW p \in Reqs, RemoveUser(p) \/ UpdateUserStatus(p) \/ UpdateUserRole(p)
      PROVE  MemberInv'
  <2> DEFINE t == req[p].target
  <2>1. /\ req[p].step = "write" /\ member[t] # NoRow /\ Written(p, "invalidate")
        /\ UNCHANGED <<cache, invVars, lapsed, excused>>
    BY <1>6 DEF RemoveUser, UpdateUserStatus, UpdateUserRole
  <2>2. t \in People /\ req[p].role \in Roles
    BY <1>t DEF Request
  <2>3. member[t] \in Rows
    BY <2>1, <2>2 DEF MembershipTypeOK
  <2>4. \E row \in Rows \cup {NoRow} :
           /\ member' = [member EXCEPT ![t] = row]
           /\ granted \subseteq granted' /\ granted' \subseteq People
           /\ row.status = "active" => t \in granted'
    <3>1. CASE RemoveUser(p)
      BY <3>1, NoRowFields DEF RemoveUser, SetRow, MembershipTypeOK
    <3>2. CASE UpdateUserStatus(p)
      <4> DEFINE row == [member[t] EXCEPT !.status = "active"]
      <4>1. row \in Rows
        BY <2>3 DEF Rows
      <4>2. req[p].vetted
        BY <2>1, <3>2 DEF UpdateUserStatus, GrantInv, AdminOperations
      <4>3. member' = [member EXCEPT ![t] = row] /\ granted' = granted \cup {t}
        BY <3>2, <4>2 DEF UpdateUserStatus, SetRow, Grant
      <4> QED
        BY <2>2, <4>1, <4>3 DEF MembershipTypeOK
    <3>3. CASE UpdateUserRole(p)
      <4> DEFINE row == [member[t] EXCEPT !.role = req[p].role]
      <4>1. row \in Rows /\ row.status = member[t].status
        BY <2>2, <2>3 DEF Rows
      <4>2. member' = [member EXCEPT ![t] = row] /\ granted' = granted
        BY <3>3 DEF UpdateUserRole, SetRow
      <4>3. row.status = "active" => t \in granted
        BY <2>2, <4>1 DEF GrantInv, ActiveWereGranted
      <4> QED
        BY <4>1, <4>2, <4>3 DEF MembershipTypeOK
    <3> QED
      BY <1>6, <3>1, <3>2, <3>3
  <2>5. PICK row \in Rows \cup {NoRow} :
           /\ member' = [member EXCEPT ![t] = row]
           /\ granted \subseteq granted' /\ granted' \subseteq People
           /\ row.status = "active" => t \in granted'
    BY <2>4
  <2>6. PICK n \in Request :
           /\ req' = [req EXCEPT ![p] = n]
           /\ n.op = "none" /\ n.step = "invalidate"
           /\ n.inv = req[p].inv /\ n.target = t
    BY <2>1, WrittenRequest DEF Steps
  <2> HIDE DEF t
  <2>7. UseInv'
    BY <2>1, <2>6, UseStep DEF invVars
  <2>8. inv' = inv /\ use' \in [Invitations -> {"never", "once", "again", "excused"}]
    BY <2>1 DEF invVars, MembershipTypeOK
  <2>9. MembershipTypeOK' /\ GrantInv' /\ FoundInv' /\ StaleRoleExplained'
    BY <2>1, <2>2, <2>5, <2>6, <2>8, RowStep
  <2> QED
    BY <2>7, <2>9
<1>7. ASSUME NEW p \in Reqs, InvalidateRole(p) PROVE MemberInv'
  <2> DEFINE t == req[p].target
  <2>1. /\ req[p].step = "invalidate" /\ req' = [req EXCEPT ![p] = Idle]
        /\ cache' = [cache EXCEPT ![t] = "absent"] /\ excused' = excused \ {t}
        /\ UNCHANGED <<member, invVars, lapsed, granted>>
    BY <1>7 DEF InvalidateRole, Respond
  <2>2. t \in People
    BY <1>t DEF Request
  <2> HIDE DEF t
  <2>3. MembershipTypeOK'
    BY <2>1, <2>2, IdleRequest, TypeStep DEF MembershipTypeOK, Request, invVars
  <2>4. GrantInv'
    BY <2>1, IdleRequest, GrantStep DEF invVars
  <2>5. UseInv'
    BY <2>1, IdleRequest, UseStep DEF invVars
  <2>6. FoundInv'
    BY <2>1, IdleRequest, FoundStep
  <2>7. \A u \in People :
           \/ cache'[u] \notin Roles
           \/ cache'[u] = ActiveRole(u)'
           \/ /\ cache'[u] = cache[u] /\ cache[u] # ActiveRole(u)
              /\ u \in excused => u \in excused'
              /\ u # t
    BY <2>1, <2>2 DEF MembershipTypeOK, ActiveRole, Roles
  <2>8. StaleRoleExplained'
    BY <2>1, <2>7, IdleRequest, StaleStep DEF t
  <2> QED
    BY <2>3, <2>4, <2>5, <2>6, <2>8
<1>8. ASSUME NEW p \in Reqs, NEW i \in Invitations, NEW works \in BOOLEAN,
             CreateInvitation(p, i, works)
      PROVE  MemberInv'
  <2> DEFINE t == req[p].target
             new == [email |-> t, role |-> req[p].role, status |-> "pending"]
  <2>1. /\ req[p].step = "create" /\ inv[i] = NoInvitation
        /\ inv' = [inv EXCEPT ![i] = new] /\ req' = [req EXCEPT ![p] = Idle]
        /\ UNCHANGED <<member, cache, lapsed, excused, use>>
    BY <1>8 DEF CreateInvitation, Respond
  <2>2. t \in People /\ req[p].role \in Roles
    BY <1>t DEF Request
  <2>3. granted' = granted \cup {t}
    <3>1. req[p].vetted
      BY <2>1 DEF GrantInv
    <3> QED
      BY <1>8, <3>1 DEF CreateInvitation, Grant
  <2>4. new \in [email : People, role : Roles, status : {"pending", "accepted"}]
        /\ new.email = t
    BY <2>2
  <2>5. inv[i].status = ""
    BY <2>1, NoInvitationFields
  <2> HIDE DEF t, new
  <2>6. \A j \in Invitations : inv'[j] = IF j = i THEN new ELSE inv[j]
    BY <2>1 DEF MembershipTypeOK
  <2>7. MembershipTypeOK'
    <3>1. req' \in [Reqs -> Request]
      BY <2>1, IdleRequest, TypeStep
    <3>2. granted' \subseteq People
      BY <2>2, <2>3 DEF MembershipTypeOK
    <3> QED
      BY <2>1, <2>4, <3>1, <3>2 DEF MembershipTypeOK, Request
  <2>8. GrantInv'
    <3>1. \A j \in Invitations : inv'[j].status # "" =>
             inv'[j].email \in granted'
             \/ (inv[j].status # "" /\ inv'[j].email = inv[j].email)
      BY <2>3, <2>4, <2>6
    <3>2. granted \subseteq granted'
      BY <2>3
    <3> QED
      BY <2>1, <3>1, <3>2, IdleRequest, GrantWrite DEF AdminOperations
  <2>9. UseInv'
    <3>1. \A j \in Invitations : inv[j].status # "" => inv'[j] = inv[j]
      BY <2>5, <2>6
    <3> QED
      BY <2>1, <3>1, IdleRequest, UseStep
  <2>10. FoundInv' /\ StaleRoleExplained'
    BY <2>1, IdleRequest, FoundStep, StaleSame
  <2> QED
    BY <2>7, <2>8, <2>9, <2>10
<1>9. ASSUME NEW p \in Reqs, RedeemInvitation(p) PROVE MemberInv'
  <2> DEFINE t == req[p].target
             i == req[p].inv
             row == [role |-> req[p].role, status |-> "active"]
  <2>1. /\ req[p].step = "redeem" /\ member[t] = NoRow
        /\ member' = [member EXCEPT ![t] = row]
        /\ use' = [use EXCEPT ![i] = UsedAgain(@)]
        /\ Written(p, "save")
        /\ UNCHANGED <<cache, lapsed, granted, excused, inv>>
    BY <1>9 DEF RedeemInvitation, SetRow
  <2>2. t \in People /\ row \in Rows /\ row.status = "active"
    BY <1>t DEF Request, Rows
  <2>3. t \in granted /\ granted \subseteq People
    BY <2>1 DEF GrantInv, MembershipTypeOK
  <2>4. i \in Invitations /\ inv[i].status # ""
    BY <2>1 DEF UseInv, HeldInv
  <2>5. PICK n \in Request :
           /\ req' = [req EXCEPT ![p] = n]
           /\ n.op = "none" /\ n.step = "save"
           /\ n.inv = i /\ n.target = t
    BY <2>1, WrittenRequest DEF Steps
  <2>6. use[i] \in {"never", "excused"}
    <3>1. use[i] \in {"never", "once", "again", "excused"}
      BY <2>4 DEF MembershipTypeOK
    <3>2. use[i] # "once"
      BY <2>1, <2>4 DEF UseInv, SpentInv
    <3>3. use[i] # "again"
      BY <2>4 DEF UseInv, InvitationUsedOnce
    <3> QED
      BY <3>1, <3>2, <3>3
  <2> HIDE DEF t, i, row
  <2>7. \A j \in Invitations : use'[j] = IF j # i THEN use[j]
                                          ELSE IF use[i] = "never" THEN "once" ELSE "excused"
    BY <2>1, <2>4, <2>6 DEF MembershipTypeOK, UsedAgain
  <2>8. use' \in [Invitations -> {"never", "once", "again", "excused"}]
    <3>1. UsedAgain(use[i]) \in {"once", "excused"}
      BY <2>6 DEF UsedAgain
    <3> QED
      BY <2>1, <2>4, <3>1 DEF MembershipTypeOK
  <2>9. MembershipTypeOK' /\ GrantInv' /\ FoundInv' /\ StaleRoleExplained'
    BY <2>1, <2>2, <2>3, <2>5, <2>8, RowStep
  <2>10. \A q \in Reqs : /\ req'[q] = IF q = p THEN n ELSE req[q]
                         /\ req'[q].inv = req[q].inv
    BY <2>5, <1>t DEF i
  <2>11. HeldInv'
    <3> SUFFICES ASSUME NEW q \in Reqs, req'[q].step \in {"redeem", "save"}
                 PROVE  req'[q].inv \in Invitations /\ inv'[req'[q].inv].status # ""
      BY DEF HeldInv
    <3>1. CASE q = p
      BY <3>1, <2>1, <2>4, <2>5, <2>10
    <3>2. CASE q # p
      <4>1. req'[q] = req[q]
        BY <3>2, <2>10
      <4> QED
        BY <2>1, <4>1 DEF UseInv, HeldInv
    <3> QED
      BY <3>1, <3>2
  <2>12. SoleInv'
    <3> SUFFICES ASSUME NEW j \in Invitations, use'[j] = "never", NEW q1 \in Reqs,
                        NEW q2 \in Reqs, req'[q1].inv = j, req'[q2].inv = j
                 PROVE  q1 = q2
      BY DEF SoleInv
    <3>1. use[j] = "never" /\ req[q1].inv = j /\ req[q2].inv = j
      BY <2>7, <2>10
    <3> QED
      BY <3>1 DEF UseInv, SoleInv
  <2>13. SpentInv'
    <3> SUFFICES ASSUME NEW j \in Invitations, use'[j] = "once", NEW q \in Reqs,
                        req'[q].step = "redeem", req'[q].inv = j
                 PROVE  FALSE
      BY DEF SpentInv
    <3>1. q # p /\ req[q].step = "redeem" /\ req[q].inv = j
      BY <2>5, <2>10
    <3>2. CASE j = i
      <4>1. use[i] = "never" /\ req[p].inv = i
        BY <2>7, <3>2 DEF i
      <4> QED
        BY <2>4, <3>1, <3>2, <4>1 DEF UseInv, SoleInv
    <3>3. CASE j # i
      BY <2>7, <3>1, <3>3 DEF UseInv, SpentInv
    <3> QED
      BY <3>2, <3>3
  <2>14. RecordInv'
    <3> SUFFICES ASSUME NEW j \in Invitations, use'[j] = "once", inv'[j].status # "accepted"
                 PROVE  \E q \in Reqs : req'[q].step = "save" /\ req'[q].inv = j
      BY DEF RecordInv
    <3>1. CASE j = i
      <4>1. req'[p].step = "save" /\ req'[p].inv = j
        BY <3>1, <2>5, <2>10
      <4> QED
        BY <4>1
    <3>2. CASE j # i
      <4>1. use[j] = "once" /\ inv[j].status # "accepted"
        BY <3>2, <2>1, <2>7
      <4>2. PICK q \in Reqs : req[q].step = "save" /\ req[q].inv = j
        BY <4>1 DEF UseInv, RecordInv
      <4>3. req'[q] = req[q]
        BY <4>2, <2>1, <2>10
      <4> QED
        BY <4>2, <4>3
    <3> QED
      BY <3>1, <3>2
  <2>15. InvitationUsedOnce'
    BY <2>7 DEF UseInv, InvitationUsedOnce
  <2> QED
    BY <2>9, <2>11, <2>12, <2>13, <2>14, <2>15 DEF UseInv
<1>10. ASSUME NEW p \in Reqs, SaveInvitation(p) PROVE MemberInv'
  <2> DEFINE i == req[p].inv
             new == [inv[i] EXCEPT !.status = "accepted"]
  <2>1. /\ req[p].step = "save" /\ req' = [req EXCEPT ![p] = Idle]
        /\ inv' = [inv EXCEPT ![i] = new]
        /\ UNCHANGED <<member, cache, lapsed, granted, excused, use>>
    BY <1>10 DEF SaveInvitation, Respond
  <2>2. i \in Invitations /\ inv[i].status # ""
    BY <2>1 DEF UseInv, HeldInv
  <2>3. inv[i] \in [email : People, role : Roles, status : {"pending", "accepted"}]
    BY <2>2, NoInvitationFields DEF MembershipTypeOK
  <2>4. /\ new \in [email : People, role : Roles, status : {"pending", "accepted"}]
        /\ new.email = inv[i].email /\ new.status = "accepted"
    BY <2>3
  <2> HIDE DEF i, new
  <2>5. \A j \in Invitations : inv'[j] = IF j = i THEN new ELSE inv[j]
    BY <2>1 DEF MembershipTypeOK
  <2>6. MembershipTypeOK'
    <3>1. req' \in [Reqs -> Request]
      BY <2>1, IdleRequest, TypeStep
    <3> QED
      BY <2>1, <2>4, <3>1 DEF MembershipTypeOK, Request
  <2>7. GrantInv'
    <3>1. \A j \in Invitations : inv'[j].status # "" =>
             inv'[j].email \in granted'
             \/ (inv[j].status # "" /\ inv'[j].email = inv[j].email)
      BY <2>2, <2>4, <2>5
    <3> QED
      BY <2>1, <3>1, IdleRequest, GrantWrite DEF AdminOperations
  <2>8. FoundInv' /\ StaleRoleExplained'
    BY <2>1, IdleRequest, FoundStep, StaleSame
  <2>9. \A j \in Invitations : inv[j].status # "" => inv'[j].status # ""
    BY <2>4, <2>5
  <2>10. RecordInv'
    <3> SUFFICES ASSUME NEW j \in Invitations, use'[j] = "once", inv'[j].status # "accepted"
                 PROVE  \E q \in Reqs : req'[q].step = "save" /\ req'[q].inv = j
      BY DEF RecordInv
    <3>1. j # i /\ use[j] = "once" /\ inv[j].status # "accepted"
      BY <2>1, <2>4, <2>5
    <3>2. PICK q \in Reqs : req[q].step = "save" /\ req[q].inv = j
      BY <3>1 DEF UseInv, RecordInv
    <3>3. q # p
      BY <3>1, <3>2 DEF i
    <3>4. req'[q] = req[q]
      BY <3>3, <2>1, <1>t
    <3> QED
      BY <3>2, <3>4
  <2>11. HeldInv' /\ SoleInv' /\ SpentInv' /\ InvitationUsedOnce'
    <3>1. \A j \in Invitations : use'[j] = use[j]
      BY <2>1
    <3> QED
      BY <2>1, <2>9, <3>1, EndedKeeps
  <2> QED
    BY <2>6, <2>7, <2>8, <2>10, <2>11 DEF UseInv
<1>11. ASSUME NEW p \in Reqs, Abort(p) PROVE MemberInv'
  <2> DEFINE i == req[p].inv
             t == req[p].target
  <2>1. /\ req[p].step # "idle" /\ req' = [req EXCEPT ![p] = Idle]
        /\ use' = IF req[p].step = "save" THEN [use EXCEPT ![i] = "excused"] ELSE use
        /\ excused' = IF req[p].step = "invalidate" /\ cache[t] \in Roles
                      THEN excused \cup {t} ELSE excused
        /\ UNCHANGED <<member, cache, lapsed, granted, inv>>
    BY <1>11 DEF Abort, Respond
  <2>2. t \in People
    BY <1>t DEF Request
  <2>3. MembershipTypeOK'
    <3>1. req' \in [Reqs -> Request]
      BY <2>1, IdleRequest, TypeStep
    <3>2. use' \in [Invitations -> {"never", "once", "again", "excused"}]
      BY <2>1 DEF MembershipTypeOK
    <3>3. excused' \subseteq People
      BY <2>1, <2>2 DEF MembershipTypeOK
    <3> QED
      BY <2>1, <3>1, <3>2, <3>3 DEF MembershipTypeOK, Request
  <2>4. GrantInv' /\ FoundInv'
    BY <2>1, IdleRequest, GrantStep, FoundStep
  <2>5. StaleRoleExplained'
    <3>1. \A u \in People :
             \/ cache'[u] \notin Roles
             \/ cache'[u] = ActiveRole(u)'
             \/ u \in excused'
             \/ /\ cache'[u] = cache[u] /\ cache[u] # ActiveRole(u)
                /\ u \in excused => u \in excused'
                /\ ~(req[p].step = "invalidate" /\ t = u)
      BY <2>1 DEF ActiveRole
    <3> QED
      BY <2>1, <3>1, IdleRequest, StaleStep
  <2>6. CASE req[p].step # "save"
    <3>1. UseInv'
      BY <2>1, <2>6, IdleRequest, UseStep
    <3> QED
      BY <2>3, <2>4, <2>5, <3>1
  <2>7. CASE req[p].step = "save"
    <3>1. i \in Invitations
      BY <2>7 DEF UseInv, HeldInv
    <3>2. \A j \in Invitations : use'[j] = IF j = i THEN "excused" ELSE use[j]
      BY <2>1, <2>7, <3>1 DEF MembershipTypeOK
    <3>3. HeldInv' /\ SoleInv' /\ SpentInv' /\ InvitationUsedOnce'
      <4>1. \A j \in Invitations : use'[j] \in {"excused", use[j]}
        BY <3>2
      <4> QED
        BY <2>1, <4>1, EndedKeeps
    <3>4. RecordInv'
      <4> SUFFICES ASSUME NEW j \in Invitations, use'[j] = "once", inv'[j].status # "accepted"
                   PROVE  \E q \in Reqs : req'[q].step = "save" /\ req'[q].inv = j
        BY DEF RecordInv
      <4>1. j # i /\ use[j] = "once" /\ inv[j].status # "accepted"
        <5>1. j # i /\ use[j] = "once"
          BY <3>2
        <5> QED
          BY <2>1, <5>1
      <4>2. PICK q \in Reqs : req[q].step = "save" /\ req[q].inv = j
        BY <4>1 DEF UseInv, RecordInv
      <4>3. q # p
        BY <4>1, <4>2
      <4>4. req'[q] = req[q]
        BY <4>3, <2>1, <1>t
      <4> QED
        BY <4>2, <4>4
    <3> QED
      BY <2>3, <2>4, <2>5, <3>3, <3>4 DEF UseInv
  <2> QED
    BY <2>6, <2>7
<1>12. ASSUME NEW p \in Reqs, NEW i \in Invitations, AcceptInvitation(p, i) PROVE MemberInv'
  <2> DEFINE e == inv[i]
             n == [Idle EXCEPT !.op = "accept", !.step = "redeem", !.inv = i,
                               !.actor = e.email, !.target = e.email, !.role = e.role]
             held == \E q \in Reqs : req[q].inv = i
  <2>1. /\ req[p].step = "idle" /\ e.status = "pending" /\ req' = [req EXCEPT ![p] = n]
        /\ use' = [use EXCEPT ![i] = IF held THEN "excused" ELSE @]
        /\ UNCHANGED <<member, cache, lapsed, granted, excused, inv>>
    BY <1>12 DEF AcceptInvitation
  <2>2. e \in [email : People, role : Roles, status : {"pending", "accepted"}]
    BY <2>1, NoInvitationFields DEF MembershipTypeOK
  <2>3. /\ n \in Request /\ n.op = "accept" /\ n.step = "redeem" /\ n.inv = i
        /\ n.target = e.email
    BY <2>2 DEF Idle, Request, Steps
  <2>4. e.email \in granted
    BY <2>1 DEF GrantInv
  <2> HIDE DEF n, held
  <2>5. MembershipTypeOK'
    <3>1. req' \in [Reqs -> Request]
      BY <2>1, <2>3, TypeStep
    <3>2. use' \in [Invitations -> {"never", "once", "again", "excused"}]
      BY <2>1 DEF MembershipTypeOK
    <3> QED
      BY <2>1, <3>1, <3>2 DEF MembershipTypeOK, Request
  <2>6. GrantInv'
    BY <2>1, <2>3, <2>4, GrantStep DEF AdminOperations
  <2>7. FoundInv' /\ StaleRoleExplained'
    BY <2>1, <2>3, FoundStep, StaleSame
  <2>8. \A q \in Reqs : req'[q] = IF q = p THEN n ELSE req[q]
    BY <2>1, <1>t
  <2>9. \A j \in Invitations : use'[j] = IF j = i /\ held THEN "excused" ELSE use[j]
    BY <2>1 DEF MembershipTypeOK
  <2>10. use[i] = "once" => held
    <3>1. inv[i].status # "accepted"
      BY <2>1
    <3> QED
      BY <3>1 DEF UseInv, RecordInv, held
  <2>11. HeldInv'
    <3> SUFFICES ASSUME NEW q \in Reqs, req'[q].step \in {"redeem", "save"}
                 PROVE  req'[q].inv \in Invitations /\ inv'[req'[q].inv].status # ""
      BY DEF HeldInv
    <3>1. CASE q = p
      <4>1. req'[q].inv = i
        BY <3>1, <2>3, <2>8
      <4> QED
        BY <2>1, <4>1
    <3>2. CASE q # p
      <4>1. req'[q] = req[q]
        BY <3>2, <2>8
      <4> QED
        BY <2>1, <4>1 DEF UseInv, HeldInv
    <3> QED
      BY <3>1, <3>2
  <2>12. SoleInv'
    <3> SUFFICES ASSUME NEW j \in Invitations, use'[j] = "never", NEW q1 \in Reqs,
                        NEW q2 \in Reqs, req'[q1].inv = j, req'[q2].inv = j
                 PROVE  q1 = q2
      BY DEF SoleInv
    <3>1. CASE j = i
      <4>1. ~held
        BY <3>1, <2>9
      <4>2. \A q \in Reqs : req[q].inv # i
        BY <4>1 DEF held
      <4> QED
        BY <3>1, <4>2, <2>8
    <3>2. CASE j # i
      <4>1. use[j] = "never" /\ req[q1].inv = j /\ req[q2].inv = j
        BY <3>2, <2>3, <2>8, <2>9
      <4> QED
        BY <4>1 DEF UseInv, SoleInv
    <3> QED
      BY <3>1, <3>2
  <2>13. SpentInv'
    <3> SUFFICES ASSUME NEW j \in Invitations, use'[j] = "once", NEW q \in Reqs,
                        req'[q].step = "redeem", req'[q].inv = j
                 PROVE  FALSE
      BY DEF SpentInv
    <3>1. j # i /\ use[j] = "once"
      BY <2>9, <2>10
    <3>2. req[q].step = "redeem" /\ req[q].inv = j
      BY <3>1, <2>3, <2>8
    <3> QED
      BY <3>1, <3>2 DEF UseInv, SpentInv
  <2>14. RecordInv'
    <3> SUFFICES ASSUME NEW j \in Invitations, use'[j] = "once", inv'[j].status # "accepted"
                 PROVE  \E q \in Reqs : req'[q].step = "save" /\ req'[q].inv = j
      BY DEF RecordInv
    <3>1. use[j] = "once"
      BY <2>9, <2>10
    <3>a. inv[j].status # "accepted"
      BY <2>1
    <3>2. PICK q \in Reqs : req[q].step = "save" /\ req[q].inv = j
      BY <3>1, <3>a DEF UseInv, RecordInv
    <3>3. req'[q] = req[q]
      BY <3>2, <2>1, <2>8
    <3> QED
      BY <3>2, <3>3
  <2>15. InvitationUsedOnce'
    BY <2>9 DEF UseInv, InvitationUsedOnce
  <2> QED
    BY <2>5, <2>6, <2>7, <2>11, <2>12, <2>13, <2>14, <2>15 DEF UseInv
<1>13. ASSUME NEW u \in People, RoleKeyExpires(u) PROVE MemberInv'
  <2>1. /\ cache' = [cache EXCEPT ![u] = "absent"] /\ excused' = excused \ {u}
        /\ UNCHANGED <<member, inv, use, lapsed, req, granted>>
    BY <1>13 DEF RoleKeyExpires, invVars
  <2>2. \A w \in People : ActiveRole(w)' = ActiveRole(w)
    BY <2>1 DEF ActiveRole
  <2>3. MembershipTypeOK'
    BY <2>1 DEF MembershipTypeOK
  <2>4. GrantInv' /\ UseInv' /\ FoundInv'
    BY <2>1, RestKeeps
  <2>5. \A w \in People : cache'[w] \in Roles => cache'[w] = cache[w] /\ w # u
    BY <2>1 DEF MembershipTypeOK, Roles
  <2>6. StaleRoleExplained'
    BY <2>1, <2>2, <2>5 DEF StaleRoleExplained
  <2> QED
    BY <2>3, <2>4, <2>6
<1>14. ASSUME NEW i \in Invitations, ExpireInvitation(i) PROVE MemberInv'
  <2>1. /\ lapsed' = lapsed \cup {i}
        /\ UNCHANGED <<member, cache, inv, use, req, granted, excused>>
    BY <1>14 DEF ExpireInvitation, invVars
  <2>2. \A w \in People : ActiveRole(w)' = ActiveRole(w)
    BY <2>1 DEF ActiveRole
  <2>3. MembershipTypeOK'
    BY <2>1 DEF MembershipTypeOK
  <2>4. GrantInv' /\ UseInv' /\ FoundInv'
    BY <2>1, RestKeeps
  <2>5. StaleRoleExplained'
    BY <2>1, <2>2 DEF StaleRoleExplained
  <2> QED
    BY <2>3, <2>4, <2>5
<1>15. CASE UNCHANGED memberVars
  <2>1. UNCHANGED <<member, cache, inv, use, lapsed, req, granted, excused>>
    BY <1>15 DEF memberVars, invVars
  <2>2. \A u \in People : ActiveRole(u)' = ActiveRole(u)
    BY <2>1 DEF ActiveRole
  <2>3. MembershipTypeOK'
    BY <2>1 DEF MembershipTypeOK
  <2>4. GrantInv' /\ UseInv' /\ FoundInv'
    BY <2>1, RestKeeps
  <2>5. StaleRoleExplained'
    BY <2>1, <2>2 DEF StaleRoleExplained
  <2> QED
    BY <2>3, <2>4, <2>5
<1> QED
  BY <1>1, <1>2, <1>3, <1>4, <1>5, <1>6, <1>7, <1>8, <1>9, <1>10, <1>11, <1>12, <1>13,
     <1>14, <1>15 DEF MembershipNext, MemberStep

(* Whatever the requests of CompanyService and InvitationService do, in    *)
(* whatever order and wherever they stop, every row is one the code can    *)
(* write and nobody is an active member whom no request of an admin added, *)
(* approved or invited.                                                    *)
THEOREM MembersCorrect == MembershipSpec => []MembersWereGranted
<1>1. MemberInv => MembersWereGranted
  BY DEF MemberInv, GrantInv, MembersWereGranted
<1> QED
  BY <1>1, MemberInitInv, MemberNextInv, PTL DEF MembershipSpec

(* A cached role that differs from the row (GetUserRole and the DEL of the *)
(* cached repository) is about to be deleted, or its deletion failed, or a *)
(* read that began before the write filled the key after it.               *)
THEOREM StaleRolesCorrect == MembershipSpec => []StaleRoleExplained
<1>1. MemberInv => StaleRoleExplained
  BY DEF MemberInv
<1> QED
  BY <1>1, MemberInitInv, MemberNextInv, PTL DEF MembershipSpec

(* AcceptInvitation lets a user in once with an invitation, unless a       *)
(* redemption could not be recorded or two ran together.                   *)
THEOREM InvitationsCorrect == MembershipSpec => []InvitationUsedOnce
<1>1. MemberInv => InvitationUsedOnce
  BY DEF MemberInv, UseInv
<1> QED
  BY <1>1, MemberInitInv, MemberNextInv, PTL DEF MembershipSpec

=============================================================================
