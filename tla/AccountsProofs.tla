--------------------------- MODULE AccountsProofs ---------------------------
(***************************************************************************)
(* Proofs about what an account is made of, for any number of concurrent   *)
(* requests: the users row (UserAccount), for any passwords, companies and *)
(* tokens, and the login sessions in Redis (Session): what has ended stays *)
(* ended.  They share no variable; each has its own inductive invariant.   *)
(***************************************************************************)
EXTENDS UserAccount, Session, TLAPS

-----------------------------------------------------------------------------
(* The users row.                                                         *)

\* A request in progress holds an entity, and the ones that will use a token
\* hold one.
RequestInv ==
    \A r \in Requests :
        /\ pc[r] # "idle" => mem[r] \in Users
        /\ pc[r] = "saveResetToken" => mem[r].reset \in Tokens
        /\ pc[r] = "savePassword" => arg[r] \in Tokens

\* Neither the row nor any stale copy of it is active, and no request is
\* about to create a session, before the registration token was accepted;
\* and no other token is ever in the verification column.
VerifiedInv ==
    /\ row.status = "active" => verified
    /\ row.verif \in {RegistrationToken, None}
    /\ \A r \in Requests :
          /\ mem[r].status = "active" => verified
          /\ mem[r].verif \in {RegistrationToken, None}
          /\ pc[r] = "createSession" => mem[r].status = "active"
    /\ SessionImpliesVerified

\* Every reset token in use was generated: the next one is fresh.
Given == (1 .. issued) \cup {None}

TokenInv ==
    /\ used \subseteq 1 .. issued
    /\ row.reset \in Given
    /\ \A r \in Requests :
          /\ pc[r] # "idle" => mem[r].reset \in Given
          /\ pc[r] = "savePassword" => arg[r] \in 1 .. issued

\* While requests run one after the other, the one in progress holds a copy
\* of the row that is not stale: it writes back the password it has read, or
\* the new one, and no token a reset was completed with.
AloneInv ==
    ~overlapped =>
        /\ \A p, q \in Requests : pc[p] # "idle" /\ pc[q] # "idle" => p = q
        /\ row.pw = lastPw
        /\ reused = {}
        /\ row.reset \notin used
        /\ \A r \in Requests :
              /\ pc[r] # "idle" => mem[r].reset \notin used
              /\ pc[r] \notin {"idle", "savePassword"} => mem[r].pw = row.pw
              /\ pc[r] = "savePassword" =>
                    mem[r].reset = None /\ arg[r] \notin used

-----------------------------------------------------------------------------
(* What the repository's reads and writes do to the columns.               *)

LEMMA ReadTypes ==
    ASSUME TypeOK
    PROVE  /\ FullRead \in Users /\ ScanUser \in Users
           /\ FullRead.status = row.status /\ FullRead.verif = row.verif
           /\ ScanUser.status = "" /\ ScanUser.verif = None
  BY DEF TypeOK, FullRead, ScanUser, Users, Statuses

LEMMA UpdateTypes ==
    ASSUME TypeOK, NEW u \in Users, Update(u)
    PROVE  row' \in Users /\ row'.status = u.status /\ row'.verif = u.verif
  BY DEF TypeOK, Update, Users

\* What the end of a request leaves in its memory.
LEMMA FinishTypes ==
    ASSUME TypeOK, RequestInv, NEW r \in Requests, Finish(r)
    PROVE  /\ pc' \in [Requests -> PcStates]
           /\ mem' \in [Requests -> Users \cup {NoUser}]
           /\ arg' \in [Requests -> Tokens \cup {None}]
           /\ overlapped' \in BOOLEAN
           /\ RequestInv'
  BY DEF TypeOK, RequestInv, Finish, PcStates

\* What the first step of a request leaves in its memory.
LEMMA HoldTypes ==
    ASSUME TypeOK, RequestInv, NEW r \in Requests, NEW next \in PcStates,
           NEW u \in Users, NEW t \in Tokens \cup {None}, Hold(r, next, u, t),
           next = "saveResetToken" => u.reset \in Tokens,
           next = "savePassword" => t \in Tokens
    PROVE  /\ pc' \in [Requests -> PcStates]
           /\ mem' \in [Requests -> Users \cup {NoUser}]
           /\ arg' \in [Requests -> Tokens \cup {None}]
           /\ overlapped' \in BOOLEAN
           /\ RequestInv'
  BY DEF TypeOK, RequestInv, Hold

-----------------------------------------------------------------------------
(* Type correctness.                                                       *)

LEMMA InitTypes == Init => TypeOK /\ RequestInv
<1> SUFFICES ASSUME Init PROVE TypeOK /\ RequestInv
  OBVIOUS
<1>1. RegistrationToken \in Tokens
  BY AccountAssumption DEF RegistrationToken, Tokens
<1>2. row \in Users /\ lastPw \in Passwords
  BY <1>1 DEF Init, Users, Statuses
<1>3. issued \in Nat /\ mail \subseteq Tokens
  BY <1>1 DEF Init, RegistrationToken
<1>4. TypeOK
  BY <1>2, <1>3 DEF Init, TypeOK, PcStates
<1> QED
  BY <1>4 DEF Init, RequestInv

LEMMA StepTypes == TypeOK /\ RequestInv /\ [Next]_vars => TypeOK' /\ RequestInv'
<1> SUFFICES ASSUME TypeOK, RequestInv, [Next]_vars
             PROVE  TypeOK' /\ RequestInv'
  OBVIOUS
<1> USE DEF history
<1>1. CASE UNCHANGED vars
  BY <1>1 DEF vars, TypeOK, RequestInv
<1>2. ASSUME NEW r \in Requests, NEW pw \in Passwords, LoginRead(r, pw)
      PROVE  TypeOK' /\ RequestInv'
  BY <1>2, ReadTypes, HoldTypes DEF LoginRead, TypeOK, PcStates
<1>3. ASSUME NEW r \in Requests, CreateSession(r)
      PROVE  TypeOK' /\ RequestInv'
  <2>1. TypeOK'
    BY <1>3 DEF CreateSession, TypeOK, PcStates
  <2>2. RequestInv'
    BY <1>3 DEF CreateSession, TypeOK, RequestInv
  <2> QED
    BY <2>1, <2>2
<1>4. ASSUME NEW r \in Requests, LoginUpdate(r)
      PROVE  TypeOK' /\ RequestInv'
  <2>1. mem[r] \in Users
    BY <1>4 DEF LoginUpdate, RequestInv
  <2> QED
    BY <1>4, <2>1, UpdateTypes, FinishTypes DEF LoginUpdate, TypeOK
<1>5. ASSUME NEW r \in Requests, RequestReset(r)
      PROVE  TypeOK' /\ RequestInv'
  <2> DEFINE u == [FullRead EXCEPT !.reset = issued + 1]
  <2>1. issued + 1 \in Tokens /\ issued' \in Nat
    BY <1>5, AccountAssumption DEF RequestReset, TypeOK, Tokens
  <2>2. u \in Users /\ u.reset \in Tokens
    BY <2>1, ReadTypes DEF Users
  <2>3. "saveResetToken" \in PcStates
    BY DEF PcStates
  <2>4. Hold(r, "saveResetToken", u, None)
    BY <1>5 DEF RequestReset
  <2> HIDE DEF u
  <2>5. /\ pc' \in [Requests -> PcStates]
        /\ mem' \in [Requests -> Users \cup {NoUser}]
        /\ arg' \in [Requests -> Tokens \cup {None}]
        /\ overlapped' \in BOOLEAN
        /\ RequestInv'
    BY <2>2, <2>3, <2>4, HoldTypes
  <2> QED
    BY <1>5, <2>1, <2>5 DEF RequestReset, TypeOK
<1>6. ASSUME NEW r \in Requests, SaveResetToken(r)
      PROVE  TypeOK' /\ RequestInv'
  <2>1. mem[r] \in Users /\ mem[r].reset \in Tokens
    BY <1>6 DEF SaveResetToken, RequestInv
  <2>2. mail' \subseteq Tokens
    BY <1>6, <2>1 DEF SaveResetToken, TypeOK
  <2> QED
    BY <1>6, <2>1, <2>2, UpdateTypes, FinishTypes DEF SaveResetToken, TypeOK
<1>7. ASSUME NEW r \in Requests, NEW t \in Tokens, NEW pw \in Passwords,
             ResetPassword(r, t, pw)
      PROVE  TypeOK' /\ RequestInv'
  <2>1. [ScanUser EXCEPT !.pw = pw, !.reset = None] \in Users
    BY ReadTypes DEF Users
  <2> QED
    BY <1>7, <2>1, HoldTypes DEF ResetPassword, TypeOK, PcStates
<1>8. ASSUME NEW r \in Requests, SavePassword(r)
      PROVE  TypeOK' /\ RequestInv'
  <2>1. mem[r] \in Users /\ arg[r] \in Tokens
    BY <1>8 DEF SavePassword, RequestInv
  <2>2. lastPw' \in Passwords
    BY <1>8, <2>1 DEF SavePassword, Users
  <2>3. used' \subseteq Tokens /\ reused' \subseteq used'
    BY <1>8, <2>1 DEF SavePassword, TypeOK
  <2> QED
    BY <1>8, <2>1, <2>2, <2>3, UpdateTypes, FinishTypes DEF SavePassword, TypeOK
<1>9. ASSUME NEW r \in Requests, NEW t \in Tokens, VerifyEmail(r, t)
      PROVE  TypeOK' /\ RequestInv'
  <2>1. [FullRead EXCEPT !.status = "active", !.verif = None] \in Users
    BY ReadTypes DEF Users, Statuses
  <2>2. verified' \in BOOLEAN
    BY <1>9 DEF VerifyEmail
  <2> QED
    BY <1>9, <2>1, <2>2, HoldTypes DEF VerifyEmail, TypeOK, PcStates
<1>10. ASSUME NEW r \in Requests, SaveVerified(r)
       PROVE  TypeOK' /\ RequestInv'
  <2>1. mem[r] \in Users
    BY <1>10 DEF SaveVerified, RequestInv
  <2> QED
    BY <1>10, <2>1, UpdateTypes, FinishTypes DEF SaveVerified, TypeOK
<1>11. ASSUME NEW r \in Requests, NEW c \in Companies, SwitchCompany(r, c)
       PROVE  TypeOK' /\ RequestInv'
  <2>1. [ScanUser EXCEPT !.company = c] \in Users
    BY ReadTypes DEF Users
  <2> QED
    BY <1>11, <2>1, HoldTypes DEF SwitchCompany, TypeOK, PcStates
<1>12. ASSUME NEW r \in Requests, SaveCompany(r)
       PROVE  TypeOK' /\ RequestInv'
  <2>1. mem[r] \in Users
    BY <1>12 DEF SaveCompany, RequestInv
  <2> QED
    BY <1>12, <2>1, UpdateTypes, FinishTypes DEF SaveCompany, TypeOK
<1>13. ASSUME NEW r \in Requests, ClearCompanyContext(r)
       PROVE  TypeOK' /\ RequestInv'
  BY <1>13, ReadTypes, HoldTypes DEF ClearCompanyContext, TypeOK, PcStates
<1>14. ASSUME NEW r \in Requests, Fail(r)
       PROVE  TypeOK' /\ RequestInv'
  BY <1>14, FinishTypes DEF Fail, TypeOK
<1>15. ASSUME NEW t \in Tokens, Expire(t)
       PROVE  TypeOK' /\ RequestInv'
  BY <1>15 DEF Expire, TypeOK, RequestInv
<1>16. ASSUME NEW r \in Requests, NEW pw \in Passwords, LoginRefused(r, pw)
       PROVE  TypeOK' /\ RequestInv'
  BY <1>16 DEF LoginRefused, vars, TypeOK, RequestInv
<1> QED
  BY <1>1, <1>2, <1>3, <1>4, <1>5, <1>6, <1>7, <1>8, <1>9, <1>10, <1>11,
     <1>12, <1>13, <1>14, <1>15, <1>16 DEF Next, RequestStep

\* Every reachable state is well typed: no request ever writes back an entity
\* it does not hold.
THEOREM TypeCorrect == Spec => []TypeOK
<1>1. Spec => [](TypeOK /\ RequestInv)
  BY InitTypes, StepTypes, PTL DEF Spec
<1> QED
  BY <1>1, PTL

-----------------------------------------------------------------------------
(* No session before verification.                                         *)

\* The memory of the requests after a first step that holds the entity u.
LEMMA HoldVerified ==
    ASSUME TypeOK, VerifiedInv, NEW r \in Requests, NEW next, NEW u, NEW t,
           Hold(r, next, u, t), verified => verified',
           u.status = "active" => verified',
           u.verif \in {RegistrationToken, None},
           next = "createSession" => u.status = "active",
           row' = row, sessions' = sessions
    PROVE  VerifiedInv'
<1>1. \A q \in Requests : /\ mem'[q] = IF q = r THEN u ELSE mem[q]
                          /\ pc'[q] = IF q = r THEN next ELSE pc[q]
  BY DEF Hold, TypeOK
<1> QED
  BY <1>1 DEF VerifiedInv, SessionImpliesVerified

\* A request that ends without a write.
LEMMA FinishVerified ==
    ASSUME TypeOK, VerifiedInv, NEW r \in Requests, Finish(r),
           row' = row, verified' = verified, sessions' = sessions
    PROVE  VerifiedInv'
<1>1. \A q \in Requests : /\ mem'[q] = IF q = r THEN NoUser ELSE mem[q]
                          /\ pc'[q] = IF q = r THEN "idle" ELSE pc[q]
  BY DEF Finish, TypeOK
<1>2. NoUser.status = "" /\ NoUser.verif = None
  BY DEF NoUser
<1> QED
  BY <1>1, <1>2 DEF VerifiedInv, SessionImpliesVerified

\* A request that writes the entity it holds back and ends: a stale copy is
\* no more active than the row was allowed to be.
LEMMA SaveVerifiedRow ==
    ASSUME TypeOK, RequestInv, VerifiedInv, NEW r \in Requests,
           pc[r] # "idle", Update(mem[r]), Finish(r),
           verified' = verified, sessions' = sessions
    PROVE  VerifiedInv'
<1>1. row'.status = mem[r].status /\ row'.verif = mem[r].verif
  BY UpdateTypes DEF RequestInv
<1>2. \A q \in Requests : /\ mem'[q] = IF q = r THEN NoUser ELSE mem[q]
                          /\ pc'[q] = IF q = r THEN "idle" ELSE pc[q]
  BY DEF Finish, TypeOK
<1>3. NoUser.status = "" /\ NoUser.verif = None
  BY DEF NoUser
<1> QED
  BY <1>1, <1>2, <1>3 DEF VerifiedInv, SessionImpliesVerified

LEMMA InitVerified == Init => VerifiedInv
<1> SUFFICES ASSUME Init PROVE VerifiedInv
  OBVIOUS
<1>1. row.status = "pending" /\ row.verif = RegistrationToken
  BY DEF Init
<1>2. \A r \in Requests : pc[r] = "idle" /\ mem[r] = NoUser
  BY DEF Init
<1>3. NoUser.status = "" /\ NoUser.verif = None
  BY DEF NoUser
<1>4. SessionImpliesVerified
  BY DEF Init, SessionImpliesVerified
<1> QED
  BY <1>1, <1>2, <1>3, <1>4 DEF VerifiedInv

LEMMA StepVerified ==
    TypeOK /\ RequestInv /\ VerifiedInv /\ [Next]_vars => VerifiedInv'
<1> SUFFICES ASSUME TypeOK, RequestInv, VerifiedInv, [Next]_vars
             PROVE  VerifiedInv'
  OBVIOUS
<1> USE DEF history
<1>1. CASE UNCHANGED <<row, mem, pc, verified, sessions>>
  BY <1>1 DEF VerifiedInv, SessionImpliesVerified
<1>2. ASSUME NEW r \in Requests, NEW pw \in Passwords, LoginRead(r, pw)
      PROVE  VerifiedInv'
  <2>1. /\ row.status = "active" /\ Hold(r, "createSession", FullRead, None)
        /\ row' = row /\ verified' = verified /\ sessions' = sessions
    BY <1>2 DEF LoginRead
  <2> QED
    BY <2>1, ReadTypes, HoldVerified DEF VerifiedInv
<1>3. ASSUME NEW r \in Requests, CreateSession(r)
      PROVE  VerifiedInv'
  <2>1. verified
    BY <1>3 DEF CreateSession, VerifiedInv
  <2> QED
    BY <1>3, <2>1 DEF CreateSession, VerifiedInv, SessionImpliesVerified, TypeOK
<1>4. ASSUME NEW r \in Requests, LoginUpdate(r)
      PROVE  VerifiedInv'
  BY <1>4, SaveVerifiedRow DEF LoginUpdate
<1>5. ASSUME NEW r \in Requests, RequestReset(r)
      PROVE  VerifiedInv'
  <2> DEFINE u == [FullRead EXCEPT !.reset = issued + 1]
  <2>1. u.status = row.status /\ u.verif = row.verif
    BY ReadTypes DEF Users
  <2>2. /\ Hold(r, "saveResetToken", u, None)
        /\ row' = row /\ verified' = verified /\ sessions' = sessions
    BY <1>5 DEF RequestReset
  <2> HIDE DEF u
  <2> QED
    BY <2>1, <2>2, HoldVerified DEF VerifiedInv
<1>6. ASSUME NEW r \in Requests, SaveResetToken(r)
      PROVE  VerifiedInv'
  BY <1>6, SaveVerifiedRow DEF SaveResetToken
<1>7. ASSUME NEW r \in Requests, NEW t \in Tokens, NEW pw \in Passwords,
             ResetPassword(r, t, pw)
      PROVE  VerifiedInv'
  <2> DEFINE u == [ScanUser EXCEPT !.pw = pw, !.reset = None]
  <2>1. u.status = "" /\ u.verif = None
    BY ReadTypes DEF Users
  <2>2. /\ Hold(r, "savePassword", u, t)
        /\ row' = row /\ verified' = verified /\ sessions' = sessions
    BY <1>7 DEF ResetPassword
  <2> HIDE DEF u
  <2> QED
    BY <2>1, <2>2, HoldVerified
<1>8. ASSUME NEW r \in Requests, SavePassword(r)
      PROVE  VerifiedInv'
  BY <1>8, SaveVerifiedRow DEF SavePassword
<1>9. ASSUME NEW r \in Requests, NEW t \in Tokens, VerifyEmail(r, t)
      PROVE  VerifiedInv'
  <2> DEFINE u == [FullRead EXCEPT !.status = "active", !.verif = None]
  <2>1. u.verif = None
    BY ReadTypes DEF Users
  <2>2. t = RegistrationToken
    BY <1>9, AccountAssumption DEF VerifyEmail, VerifiedInv
  <2>3. /\ Hold(r, "saveVerified", u, t)
        /\ row' = row /\ sessions' = sessions /\ verified'
    BY <1>9, <2>2 DEF VerifyEmail
  <2> HIDE DEF u
  <2> QED
    BY <2>1, <2>3, HoldVerified
<1>10. ASSUME NEW r \in Requests, SaveVerified(r)
       PROVE  VerifiedInv'
  BY <1>10, SaveVerifiedRow DEF SaveVerified
<1>11. ASSUME NEW r \in Requests, NEW c \in Companies, SwitchCompany(r, c)
       PROVE  VerifiedInv'
  <2> DEFINE u == [ScanUser EXCEPT !.company = c]
  <2>1. u.status = "" /\ u.verif = None
    BY ReadTypes DEF Users
  <2>2. /\ Hold(r, "saveCompany", u, None)
        /\ row' = row /\ verified' = verified /\ sessions' = sessions
    BY <1>11 DEF SwitchCompany
  <2> HIDE DEF u
  <2> QED
    BY <2>1, <2>2, HoldVerified
<1>12. ASSUME NEW r \in Requests, SaveCompany(r)
       PROVE  VerifiedInv'
  BY <1>12, SaveVerifiedRow DEF SaveCompany
<1>13. ASSUME NEW r \in Requests, ClearCompanyContext(r)
       PROVE  VerifiedInv'
  <2>1. /\ Hold(r, "saveCompany", ScanUser, None)
        /\ row' = row /\ verified' = verified /\ sessions' = sessions
    BY <1>13 DEF ClearCompanyContext
  <2> QED
    BY <2>1, ReadTypes, HoldVerified
<1>14. ASSUME NEW r \in Requests, Fail(r)
       PROVE  VerifiedInv'
  BY <1>14, FinishVerified DEF Fail
<1>15. ASSUME NEW t \in Tokens, Expire(t)
       PROVE  VerifiedInv'
  BY <1>1, <1>15 DEF Expire
<1>16. CASE UNCHANGED vars
  BY <1>1, <1>16 DEF vars
<1> QED
  BY <1>2, <1>3, <1>4, <1>5, <1>6, <1>7, <1>8, <1>9, <1>10, <1>11,
     <1>12, <1>13, <1>14, <1>15, <1>16 DEF Next, RequestStep, LoginRefused

\* No interleaving of logins, resets, verifications and company switches, with
\* any number of stale copies of the row, creates a session for an account
\* whose address was never verified.
THEOREM VerifiedCorrect == Spec => []SessionImpliesVerified
<1>1. Spec => [](TypeOK /\ RequestInv /\ VerifiedInv)
  BY InitTypes, StepTypes, InitVerified, StepVerified, PTL DEF Spec
<1>2. VerifiedInv => SessionImpliesVerified
  BY DEF VerifiedInv
<1> QED
  BY <1>1, <1>2, PTL

-----------------------------------------------------------------------------
(* One request at a time: passwords stay and reset links work once.        *)

LEMMA ReadColumns ==
    ASSUME TypeOK
    PROVE  /\ FullRead.pw = row.pw /\ FullRead.reset = row.reset
           /\ ScanUser.pw = row.pw /\ ScanUser.reset = row.reset
  BY DEF TypeOK, FullRead, ScanUser, Users

LEMMA UpdateColumns ==
    ASSUME NEW u \in Users, Update(u)
    PROVE  row'.pw = u.pw /\ row'.reset = u.reset
  BY DEF Update, Users

\* A first step that holds the entity u and has not written anything.
LEMMA HoldAlone ==
    ASSUME TypeOK, RequestInv, TokenInv, AloneInv, NEW r \in Requests,
           NEW next \in PcStates \ {"idle"}, NEW u, NEW t, Hold(r, next, u, t),
           pc[r] = "idle",
           row' = row, lastPw' = lastPw, used' = used, reused' = reused,
           issued' \in Nat, issued <= issued',
           u.reset \in Given', u.reset \notin used,
           next # "savePassword" => u.pw = row.pw,
           next = "savePassword" =>
               u.reset = None /\ t \in 1 .. issued /\ t \notin used
    PROVE  TokenInv' /\ AloneInv'
<1>1. \A q \in Requests : /\ mem'[q] = IF q = r THEN u ELSE mem[q]
                          /\ pc'[q] = IF q = r THEN next ELSE pc[q]
                          /\ arg'[q] = IF q = r THEN t ELSE arg[q]
  BY DEF Hold, TypeOK
<1>2. 1 .. issued \subseteq 1 .. issued' /\ Given \subseteq Given'
  BY DEF TypeOK, Given
<1>3. TokenInv'
  BY <1>1, <1>2 DEF TokenInv
<1>4. ASSUME ~overlapped'
      PROVE  ~overlapped /\ \A q \in Requests \ {r} : pc[q] = "idle"
  BY <1>4 DEF Hold
<1>5. AloneInv'
  BY <1>1, <1>4 DEF AloneInv
<1> QED
  BY <1>3, <1>5

\* A request that ends without a write.
LEMMA FinishAlone ==
    ASSUME TypeOK, TokenInv, AloneInv, NEW r \in Requests, Finish(r),
           row' = row, lastPw' = lastPw, used' = used, reused' = reused,
           issued' = issued
    PROVE  TokenInv' /\ AloneInv'
<1>1. \A q \in Requests :
          /\ pc'[q] # "idle" =>
                q # r /\ pc'[q] = pc[q] /\ mem'[q] = mem[q] /\ arg'[q] = arg[q]
  BY DEF Finish, TypeOK
<1>2. TokenInv'
  BY <1>1 DEF TokenInv, Given
<1>3. AloneInv'
  BY <1>1 DEF AloneInv, Finish
<1> QED
  BY <1>2, <1>3

\* A request that writes back what it read and ends.
LEMMA SaveAlone ==
    ASSUME TypeOK, RequestInv, TokenInv, AloneInv, NEW r \in Requests,
           pc[r] \notin {"idle", "savePassword"}, Update(mem[r]), Finish(r),
           lastPw' = lastPw, used' = used, reused' = reused, issued' = issued
    PROVE  TokenInv' /\ AloneInv'
<1>1. \A q \in Requests :
          /\ pc'[q] # "idle" =>
                q # r /\ pc'[q] = pc[q] /\ mem'[q] = mem[q] /\ arg'[q] = arg[q]
  BY DEF Finish, TypeOK
<1>2. row'.pw = mem[r].pw /\ row'.reset = mem[r].reset
  BY UpdateColumns DEF RequestInv
<1>3. TokenInv'
  BY <1>1, <1>2 DEF TokenInv, Given
<1>4. AloneInv'
  BY <1>1, <1>2 DEF AloneInv, Finish
<1> QED
  BY <1>3, <1>4

\* The write that completes a reset: it burns the token and clears the column.
LEMMA SavePasswordAlone ==
    ASSUME TypeOK, RequestInv, TokenInv, AloneInv, NEW r \in Requests,
           SavePassword(r)
    PROVE  TokenInv' /\ AloneInv'
<1>1. \A q \in Requests :
          /\ pc'[q] # "idle" =>
                q # r /\ pc'[q] = pc[q] /\ mem'[q] = mem[q] /\ arg'[q] = arg[q]
  BY DEF SavePassword, Finish, TypeOK
<1>2. pc[r] = "savePassword" /\ mem[r] \in Users
  BY DEF SavePassword, RequestInv
<1>3. row'.pw = mem[r].pw /\ row'.reset = mem[r].reset
  BY <1>2, UpdateColumns DEF SavePassword
<1>4. /\ lastPw' = mem[r].pw /\ used' = used \cup {arg[r]}
      /\ reused' = reused \cup ({arg[r]} \cap used) /\ issued' = issued
      /\ overlapped' = overlapped
  BY DEF SavePassword, Finish
<1>5. TokenInv'
  BY <1>1, <1>2, <1>3, <1>4 DEF TokenInv, Given
<1>6. ASSUME ~overlapped
      PROVE  /\ mem[r].reset = None /\ arg[r] \notin used /\ reused = {}
             /\ \A q \in Requests : pc'[q] = "idle"
  BY <1>1, <1>2, <1>6 DEF AloneInv
<1>7. None \notin used'
  BY <1>2, <1>4, AccountAssumption DEF TypeOK, RequestInv
<1>8. AloneInv'
  BY <1>3, <1>4, <1>6, <1>7 DEF AloneInv
<1> QED
  BY <1>5, <1>8

LEMMA InitAlone == Init => TokenInv /\ AloneInv
<1> SUFFICES ASSUME Init PROVE TokenInv /\ AloneInv
  OBVIOUS
<1>1. \A r \in Requests : pc[r] = "idle"
  BY DEF Init
<1>2. row.reset = None /\ row.pw = lastPw /\ used = {} /\ reused = {}
  BY DEF Init
<1> QED
  BY <1>1, <1>2 DEF TokenInv, AloneInv, Given

LEMMA StepAlone ==
    TypeOK /\ RequestInv /\ TokenInv /\ AloneInv /\ [Next]_vars
        => TokenInv' /\ AloneInv'
<1> SUFFICES ASSUME TypeOK, RequestInv, TokenInv, AloneInv, [Next]_vars
             PROVE  TokenInv' /\ AloneInv'
  OBVIOUS
<1> USE DEF history
<1>0. row.reset \in Given /\ None \in Given /\ None \notin used
  BY AccountAssumption DEF TokenInv, Given, TypeOK
<1>1. CASE UNCHANGED <<row, mem, pc, arg, issued, history, overlapped>>
  BY <1>1 DEF TokenInv, AloneInv, Given
<1>2. ASSUME NEW r \in Requests, NEW u, NEW next, NEW t,
             Hold(r, next, u, t), pc[r] = "idle",
             next \in PcStates \ {"idle", "savePassword"},
             u.pw = row.pw, u.reset = row.reset,
             UNCHANGED <<row, lastPw, used, reused, issued>>
      PROVE  TokenInv' /\ AloneInv'
  <2>1. issued' \in Nat /\ issued <= issued' /\ Given' = Given
    BY <1>2 DEF TypeOK, Given
  <2>2. CASE overlapped'
    <3>1. \A q \in Requests : /\ mem'[q] = IF q = r THEN u ELSE mem[q]
                              /\ pc'[q] = IF q = r THEN next ELSE pc[q]
                              /\ arg'[q] = IF q = r THEN t ELSE arg[q]
      BY <1>2 DEF Hold, TypeOK
    <3> QED
      BY <1>0, <1>2, <2>1, <2>2, <3>1 DEF TokenInv, AloneInv
  <2>3. CASE ~overlapped'
    <3>1. row.reset \notin used
      BY <1>2, <2>3 DEF Hold, AloneInv
    <3> QED
      BY <1>0, <1>2, <2>1, <3>1, HoldAlone
  <2> QED
    BY <2>2, <2>3
<1>3. ASSUME NEW r \in Requests, NEW pw \in Passwords, LoginRead(r, pw)
      PROVE  TokenInv' /\ AloneInv'
  BY <1>2, <1>3, ReadColumns DEF LoginRead, PcStates
<1>4. ASSUME NEW r \in Requests, CreateSession(r)
      PROVE  TokenInv' /\ AloneInv'
  <2>1. \A q \in Requests :
            pc'[q] = IF q = r THEN "loginUpdate" ELSE pc[q]
    BY <1>4 DEF CreateSession, TypeOK
  <2>2. UNCHANGED <<row, mem, arg, issued, history, overlapped>>
    BY <1>4 DEF CreateSession
  <2>3. pc[r] = "createSession"
    BY <1>4 DEF CreateSession
  <2> QED
    BY <2>1, <2>2, <2>3 DEF TokenInv, AloneInv, Given
<1>5. ASSUME NEW r \in Requests, LoginUpdate(r)
      PROVE  TokenInv' /\ AloneInv'
  BY <1>5, SaveAlone DEF LoginUpdate
<1>6. ASSUME NEW r \in Requests, RequestReset(r)
      PROVE  TokenInv' /\ AloneInv'
  <2> DEFINE u == [FullRead EXCEPT !.reset = issued + 1]
  <2>1. u.pw = row.pw /\ u.reset = issued + 1
    BY ReadTypes, ReadColumns DEF Users
  <2>2. issued' \in Nat /\ issued <= issued' /\ issued + 1 \in 1 .. issued'
    BY <1>6 DEF RequestReset, TypeOK
  <2>3. issued + 1 \notin used
    BY DEF TokenInv, TypeOK
  <2>4. u.reset \in Given'
    BY <2>1, <2>2 DEF Given
  <2>5. /\ Hold(r, "saveResetToken", u, None) /\ pc[r] = "idle"
        /\ row' = row /\ lastPw' = lastPw /\ used' = used /\ reused' = reused
        /\ "saveResetToken" \in PcStates \ {"idle"}
    BY <1>6 DEF RequestReset, PcStates
  <2> HIDE DEF u
  <2> QED
    BY <2>1, <2>2, <2>3, <2>4, <2>5, HoldAlone
<1>7. ASSUME NEW r \in Requests, SaveResetToken(r)
      PROVE  TokenInv' /\ AloneInv'
  BY <1>7, SaveAlone DEF SaveResetToken
<1>8. ASSUME NEW r \in Requests, NEW t \in Tokens, NEW pw \in Passwords,
             ResetPassword(r, t, pw)
      PROVE  TokenInv' /\ AloneInv'
  <2> DEFINE u == [ScanUser EXCEPT !.pw = pw, !.reset = None]
  <2>1. u.reset = None
    BY ReadTypes DEF Users
  <2>2. /\ Hold(r, "savePassword", u, t) /\ pc[r] = "idle" /\ row.reset = t
        /\ UNCHANGED <<row, issued, lastPw, used, reused>>
        /\ "savePassword" \in PcStates \ {"idle"}
    BY <1>8 DEF ResetPassword, PcStates
  <2>3. t \in 1 .. issued
    BY <1>0, <2>2, AccountAssumption DEF Given
  <2>4. issued' \in Nat /\ issued <= issued' /\ Given' = Given
    BY <2>2 DEF TypeOK, Given
  <2> HIDE DEF u
  <2>5. CASE overlapped'
    <3>1. \A q \in Requests : /\ mem'[q] = IF q = r THEN u ELSE mem[q]
                              /\ pc'[q] = IF q = r THEN "savePassword" ELSE pc[q]
                              /\ arg'[q] = IF q = r THEN t ELSE arg[q]
      BY <2>2 DEF Hold, TypeOK
    <3> QED
      BY <1>0, <2>1, <2>2, <2>3, <2>4, <2>5, <3>1 DEF TokenInv, AloneInv
  <2>6. CASE ~overlapped'
    <3>1. t \notin used
      BY <2>2, <2>6 DEF Hold, AloneInv
    <3> QED
      BY <1>0, <2>1, <2>2, <2>3, <2>4, <3>1, HoldAlone
  <2> QED
    BY <2>5, <2>6
<1>9. ASSUME NEW r \in Requests, SavePassword(r)
      PROVE  TokenInv' /\ AloneInv'
  BY <1>9, SavePasswordAlone
<1>10. ASSUME NEW r \in Requests, NEW t \in Tokens, VerifyEmail(r, t)
       PROVE  TokenInv' /\ AloneInv'
  <2> DEFINE u == [FullRead EXCEPT !.status = "active", !.verif = None]
  <2>1. u.pw = row.pw /\ u.reset = row.reset
    BY ReadTypes, ReadColumns DEF Users
  <2>2. Hold(r, "saveVerified", u, t)
    BY <1>10 DEF VerifyEmail
  <2> HIDE DEF u
  <2> QED
    BY <1>2, <1>10, <2>1, <2>2 DEF VerifyEmail, PcStates
<1>11. ASSUME NEW r \in Requests, SaveVerified(r)
       PROVE  TokenInv' /\ AloneInv'
  BY <1>11, SaveAlone DEF SaveVerified
<1>12. ASSUME NEW r \in Requests, NEW c \in Companies, SwitchCompany(r, c)
       PROVE  TokenInv' /\ AloneInv'
  <2> DEFINE u == [ScanUser EXCEPT !.company = c]
  <2>1. u.pw = row.pw /\ u.reset = row.reset
    BY ReadTypes, ReadColumns DEF Users
  <2>2. Hold(r, "saveCompany", u, None)
    BY <1>12 DEF SwitchCompany
  <2> HIDE DEF u
  <2> QED
    BY <1>2, <1>12, <2>1, <2>2 DEF SwitchCompany, PcStates
<1>13. ASSUME NEW r \in Requests, SaveCompany(r)
       PROVE  TokenInv' /\ AloneInv'
  BY <1>13, SaveAlone DEF SaveCompany
<1>14. ASSUME NEW r \in Requests, ClearCompanyContext(r)
       PROVE  TokenInv' /\ AloneInv'
  BY <1>2, <1>14, ReadColumns DEF ClearCompanyContext, PcStates
<1>15. ASSUME NEW r \in Requests, Fail(r)
       PROVE  TokenInv' /\ AloneInv'
  BY <1>15, FinishAlone DEF Fail
<1>16. ASSUME NEW t \in Tokens, Expire(t)
       PROVE  TokenInv' /\ AloneInv'
  BY <1>1, <1>16 DEF Expire
<1>17. CASE UNCHANGED vars
  BY <1>1, <1>17 DEF vars
<1> QED
  BY <1>3, <1>4, <1>5, <1>6, <1>7, <1>8, <1>9, <1>10, <1>11, <1>12, <1>13,
     <1>14, <1>15, <1>16, <1>17 DEF Next, RequestStep, LoginRefused

LEMMA AloneAlways == Spec => []AloneInv
<1>1. TypeOK /\ RequestInv /\ TokenInv /\ AloneInv => AloneInv
  OBVIOUS
<1> QED
  BY <1>1, InitTypes, StepTypes, InitAlone, StepAlone, PTL DEF Spec

\* As long as no two requests overlapped, the row carries the password of the
\* last completed reset, whatever sequence of logins, verifications, switches
\* and failures wrote the row.
THEOREM PasswordCorrect == Spec => []PasswordSticks
<1>1. AloneInv => PasswordSticks
  BY DEF AloneInv, PasswordSticks
<1> QED
  BY <1>1, AloneAlways, PTL

\* As long as no two requests overlapped, ResetPassword has accepted no reset
\* link twice: each of its copies and writes of the row agrees with the tokens.
THEOREM ResetCorrect == Spec => []ResetTokenUsedOnce
<1>1. AloneInv => ResetTokenUsedOnce
  BY DEF AloneInv, ResetTokenUsedOnce
<1> QED
  BY <1>1, AloneAlways, PTL

-----------------------------------------------------------------------------
(* Login sessions.                                                         *)

(* The pipeline q still has to run the command c.                          *)
InPipe(q, c) == \E i \in 1 .. Len(q) : q[i] = c

LEMMA EmptyPipe == \A c : ~InPipe(<<>>, c)
  BY DEF InPipe

LEMMA TailPipe ==
    ASSUME NEW q \in Seq(Commands), q # <<>>
    PROVE  /\ Head(q) \in Commands /\ InPipe(q, Head(q)) /\ Tail(q) \in Seq(Commands)
           /\ \A c : InPipe(q, c) <=> c = Head(q) \/ InPipe(Tail(q), c)
<1>1. Len(q) \in Nat \ {0} /\ Head(q) = q[1] /\ Head(q) \in Commands
  OBVIOUS
<1>2. Tail(q) \in Seq(Commands) /\ Len(Tail(q)) = Len(q) - 1
      /\ \A i \in 1 .. Len(q) - 1 : Tail(q)[i] = q[i + 1]
  OBVIOUS
<1>3. ASSUME NEW c, InPipe(q, c) PROVE c = Head(q) \/ InPipe(Tail(q), c)
  <2>1. PICK i \in 1 .. Len(q) : q[i] = c
    BY <1>3 DEF InPipe
  <2>2. CASE i = 1
    BY <2>1, <2>2, <1>1
  <2>3. CASE i # 1
    <3>1. i - 1 \in 1 .. Len(q) - 1 /\ Tail(q)[i - 1] = c
      BY <2>1, <2>3, <1>1, <1>2
    <3> QED
      BY <3>1, <1>2 DEF InPipe
  <2> QED
    BY <2>2, <2>3
<1>4. ASSUME NEW c, InPipe(Tail(q), c) PROVE InPipe(q, c)
  <2>1. PICK i \in 1 .. Len(q) - 1 : Tail(q)[i] = c
    BY <1>4, <1>2 DEF InPipe
  <2>2. i + 1 \in 1 .. Len(q) /\ q[i + 1] = c
    BY <2>1, <1>1, <1>2
  <2> QED
    BY <2>2 DEF InPipe
<1>5. InPipe(q, Head(q))
  BY <1>1 DEF InPipe
<1> QED
  BY <1>1, <1>2, <1>3, <1>4, <1>5

LEMMA ConcatPipe ==
    ASSUME NEW q \in Seq(Commands), NEW r \in Seq(Commands)
    PROVE  /\ q \o r \in Seq(Commands)
           /\ \A c : InPipe(q \o r, c) <=> InPipe(q, c) \/ InPipe(r, c)
<1>1. /\ q \o r \in Seq(Commands) /\ Len(q \o r) = Len(q) + Len(r)
      /\ Len(q) \in Nat /\ Len(r) \in Nat
      /\ \A i \in 1 .. Len(q) + Len(r) :
            (q \o r)[i] = IF i <= Len(q) THEN q[i] ELSE r[i - Len(q)]
  OBVIOUS
<1>2. ASSUME NEW c, InPipe(q \o r, c) PROVE InPipe(q, c) \/ InPipe(r, c)
  <2>1. PICK i \in 1 .. Len(q) + Len(r) : (q \o r)[i] = c
    BY <1>1, <1>2 DEF InPipe
  <2>2. CASE i <= Len(q)
    <3>1. i \in 1 .. Len(q) /\ q[i] = c
      BY <2>1, <2>2, <1>1
    <3> QED
      BY <3>1 DEF InPipe
  <2>3. CASE ~(i <= Len(q))
    <3>1. i - Len(q) \in 1 .. Len(r) /\ r[i - Len(q)] = c
      BY <2>1, <2>3, <1>1
    <3> QED
      BY <3>1 DEF InPipe
  <2> QED
    BY <2>2, <2>3
<1>3. ASSUME NEW c, InPipe(q, c) PROVE InPipe(q \o r, c)
  <2>1. PICK i \in 1 .. Len(q) : q[i] = c
    BY <1>3 DEF InPipe
  <2>2. i \in 1 .. Len(q \o r) /\ (q \o r)[i] = c
    BY <2>1, <1>1
  <2> QED
    BY <2>2 DEF InPipe
<1>4. ASSUME NEW c, InPipe(r, c) PROVE InPipe(q \o r, c)
  <2>1. PICK i \in 1 .. Len(r) : r[i] = c
    BY <1>4 DEF InPipe
  <2>2. Len(q) + i \in 1 .. Len(q \o r) /\ (q \o r)[Len(q) + i] = c
    BY <2>1, <1>1
  <2> QED
    BY <2>2 DEF InPipe
<1> QED
  BY <1>1, <1>2, <1>3, <1>4

LEMMA SinglePipe ==
    ASSUME NEW d \in Commands
    PROVE  /\ <<d>> \in Seq(Commands)
           /\ \A c : InPipe(<<d>>, c) <=> c = d
<1>1. <<d>> \in Seq(Commands) /\ Len(<<d>>) = 1 /\ <<d>>[1] = d
  OBVIOUS
<1> QED
  BY <1>1 DEF InPipe

LEMMA AppendPipe ==
    ASSUME NEW q \in Seq(Commands), NEW d \in Commands
    PROVE  /\ Append(q, d) \in Seq(Commands)
           /\ \A c : InPipe(Append(q, d), c) <=> InPipe(q, c) \/ c = d
<1>1. Append(q, d) = q \o <<d>>
  OBVIOUS
<1> QED
  <2>1. <<d>> \in Seq(Commands) /\ \A c : InPipe(<<d>>, c) <=> c = d
    BY SinglePipe
  <2>2. q \o <<d>> \in Seq(Commands)
        /\ \A c : InPipe(q \o <<d>>, c) <=> InPipe(q, c) \/ InPipe(<<d>>, c)
    BY <2>1, ConcatPipe
  <2> QED
    BY <1>1, <2>1, <2>2 

-----------------------------------------------------------------------------
(* The inductive invariant.                                                *)

(* Where a call can be, and what it works on: the session of a login is    *)
(* not known yet, that of a refresh or a logout is, and a logout writes a  *)
(* revoked copy.                                                           *)
CallInv ==
    \A p \in Procs :
        /\ step[p] = "idle" <=> op[p] = "none"
        /\ step[p] = "getSession" => op[p] \in {"refresh", "logout"}
        /\ step[p] = "update" => op[p] = "logout" /\ copy[p] = "revoked"
        /\ step[p] = "lookup" => op[p] = "delete"
        /\ step[p] = "exec" => op[p] \in {"create", "delete"}
        /\ op[p] = "create" => sess[p] \in created \ known /\ step[p] = "exec"
        /\ op[p] \in {"refresh", "logout"} => sess[p] \in known
        /\ op[p] = "delete" /\ step[p] = "exec" => todo[p] = {}

(* No two logins work on one session.                                      *)
CreatorInv ==
    \A p, q \in Procs :
        op[p] = "create" /\ op[q] = "create" /\ p # q => sess[p] # sess[q]

(* Only a login makes keys, and only those of its own session.             *)
PipeInv ==
    \A p \in Procs, c \in Commands :
        InPipe(pipe[p], c) =>
            /\ step[p] \in {"lookup", "exec"}
            /\ op[p] = "create" => c.id = sess[p] /\ c.cmd \in {"setSession", "setRefresh", "sAdd"}
            /\ op[p] = "delete" => c.cmd \in {"delSession", "delRefresh", "delSet"}

(* A session whose logout was answered without a failed lookup is not live *)
(* or has no refresh key, a deleted one is not live, and nobody will make  *)
(* either again, since the token was handed out.                           *)
EndedInv ==
    /\ gone["loggedOut"] \subseteq known /\ gone["deleted"] \subseteq known
    /\ \A s \in gone["loggedOut"] : data[s] # "live" \/ s \notin refresh
    /\ deletes <= 1 => \A s \in gone["deleted"] : data[s] # "live"
    /\ gone["expired"] = past
    /\ \A s \in immortal : s \in known /\ data[s] = "revoked"
    /\ \A p \in Procs : \A why \in goneBefore[p] : sess[p] \in gone[why]
    /\ \A p \in Procs : "loggedOut" \in goneBefore[p] => data[sess[p]] # "live"
    /\ "loggedOut" \notin acceptedGone /\ "expired" \notin acceptedGone
    /\ deletes <= 1 => "deleted" \notin acceptedGone

DelSession(s) == [cmd |-> "delSession", id |-> s]

(* Before a DeleteByUserID the user's set lists what was handed out, and   *)
(* the call has every session it owes in its list, in its pipeline, or     *)
(* dead.                                                                   *)
DeleteInv ==
    /\ deletes = 0 =>
          /\ known \subseteq members
          /\ \A p \in Procs : op[p] # "delete"
          /\ \A p \in Procs : op[p] = "create" =>
                sess[p] \in members \/ InPipe(pipe[p], [cmd |-> "sAdd", id |-> sess[p]])
    /\ \A p \in Procs : op[p] = "delete" => victims[p] \subseteq known
    /\ deletes <= 1 => \A p \in Procs : op[p] = "delete" =>
          \A s \in victims[p] :
                s \in todo[p] \/ InPipe(pipe[p], DelSession(s)) \/ data[s] # "live"

SessionInv == SessionTypeOK /\ CallInv /\ CreatorInv /\ PipeInv /\ EndedInv /\ DeleteInv

USE SessionAssumption

LEMMA SessionInitInv == SessionInit => SessionInv
<1> SUFFICES ASSUME SessionInit PROVE SessionInv
  OBVIOUS
<1>1. SessionTypeOK
  BY DEF SessionInit, SessionTypeOK, Reasons, States
<1>2. CallInv /\ CreatorInv
  BY DEF SessionInit, CallInv, CreatorInv
<1>3. PipeInv
  BY EmptyPipe DEF SessionInit, PipeInv
<1>4. EndedInv
  BY DEF SessionInit, EndedInv, Reasons
<1>5. DeleteInv
  BY DEF SessionInit, DeleteInv
<1> QED
  BY <1>1, <1>2, <1>3, <1>4, <1>5 DEF SessionInv

\* The call of p ends; nothing but the call changes, and more may be known.
LEMMA ReturnKeeps ==
    ASSUME SessionInv, NEW p \in Procs, Return(p),
           created' = created, known \subseteq known',
           known' \subseteq known \cup {sess[p]},
           known' # known => op[p] = "create"
    PROVE  CallInv' /\ CreatorInv' /\ PipeInv'
<1>1. CallInv'
  BY DEF SessionInv, CallInv, CreatorInv, Return, SessionTypeOK
<1>2. CreatorInv'
  BY DEF SessionInv, CreatorInv, Return, SessionTypeOK
<1>3. PipeInv'
  BY EmptyPipe DEF SessionInv, PipeInv, Return, SessionTypeOK
<1> QED
  BY <1>1, <1>2, <1>3

LEMMA SessionNextInv ==
    ASSUME SessionInv, [SessionNext]_sessionVars
    PROVE  SessionInv'
<1> USE DEF SessionInv
<1>1. ASSUME NEW p \in Procs, NEW s \in Sessions, Create(p, s) PROVE SessionInv'
  <2> DEFINE q == <<[cmd |-> "setSession", id |-> s], [cmd |-> "setRefresh", id |-> s],
                    [cmd |-> "sAdd", id |-> s]>>
  <2>1. q \in Seq(Commands)
        /\ InPipe(q, [cmd |-> "sAdd", id |-> s])
        /\ \A c \in Commands : InPipe(q, c) =>
              c.id = s /\ c.cmd \in {"setSession", "setRefresh", "sAdd"}
    BY DEF Commands, InPipe
  <2>2. /\ step[p] = "idle" /\ s \notin created /\ created' = created \cup {s}
        /\ op' = [op EXCEPT ![p] = "create"] /\ step' = [step EXCEPT ![p] = "exec"]
        /\ sess' = [sess EXCEPT ![p] = s] /\ pipe' = [pipe EXCEPT ![p] = q]
        /\ goneBefore' = [goneBefore EXCEPT ![p] = {}]
        /\ UNCHANGED <<store, past, known, copy, todo, deletes, victims, ghosts>>
    BY <1>1 DEF Create, Start
  <2> HIDE DEF q
  <2>3. SessionTypeOK'
    BY <2>1, <2>2 DEF SessionTypeOK, store, ghosts
  <2>4. CallInv'
    BY <2>2 DEF CallInv, SessionTypeOK
  <2>5. CreatorInv'
    BY <2>2 DEF CreatorInv, CallInv, SessionTypeOK
  <2>6. PipeInv'
    BY <2>1, <2>2 DEF PipeInv, SessionTypeOK
  <2>7. EndedInv'
    BY <2>2 DEF EndedInv, SessionTypeOK, store, ghosts
  <2>8. DeleteInv'
    BY <2>1, <2>2 DEF DeleteInv, SessionTypeOK, store
  <2> QED
    BY <2>3, <2>4, <2>5, <2>6, <2>7, <2>8
<1>2. ASSUME NEW p \in Procs, PipeExec(p) PROVE SessionInv'
  <2> DEFINE c == Head(pipe[p])
  <2>1. /\ step[p] = "exec" /\ pipe[p] # <<>> /\ Run(c)
        /\ pipe' = [pipe EXCEPT ![p] = Tail(pipe[p])]
        /\ UNCHANGED <<past, clients, op, step, sess, copy, todo, deletes, goneBefore,
                       victims, ghosts>>
    BY <1>2 DEF PipeExec
  <2>2. /\ c \in Commands /\ InPipe(pipe[p], c) /\ Tail(pipe[p]) \in Seq(Commands)
        /\ \A d : InPipe(pipe[p], d) <=> d = c \/ InPipe(Tail(pipe[p]), d)
    BY <2>1, TailPipe DEF SessionTypeOK
  <2>3. /\ op[p] \in {"create", "delete"}
        /\ op[p] = "create" => /\ c.id = sess[p] /\ c.id \in created \ known
                               /\ c.cmd \in {"setSession", "setRefresh", "sAdd"}
        /\ op[p] = "delete" => c.cmd \in {"delSession", "delRefresh", "delSet"}
    BY <2>1, <2>2 DEF CallInv, PipeInv
  <2> HIDE DEF c
  <2>4. created \subseteq Sessions /\ known \subseteq created /\ data \in [Sessions -> States]
    BY DEF SessionTypeOK
  <2>5. /\ data' \in [Sessions -> States]
        /\ \A s \in known : data'[s] \in {data[s], "none"}
        /\ \A s \in known : s \in immortal' => s \in immortal /\ data'[s] = data[s]
        /\ immortal' \subseteq immortal
        /\ \A s \in known : s \in refresh' => s \in refresh
    BY <2>1, <2>3, <2>4 DEF Run, States
  <2>6. /\ refresh' \subseteq Sessions /\ members' \subseteq Sessions
        /\ op[p] = "create" => members \subseteq members'
        /\ c.cmd = "sAdd" => c.id \in members'
    BY <2>1, <2>2, <2>3, <2>4 DEF Run, SessionTypeOK
  <2>7. SessionTypeOK'
    BY <2>1, <2>2, <2>5, <2>6 DEF SessionTypeOK, clients, ghosts
  <2>8. CallInv' /\ CreatorInv'
    BY <2>1 DEF CallInv, CreatorInv, clients
  <2>9. \A q \in Procs : \A d :
           /\ InPipe(pipe'[q], d) => InPipe(pipe[q], d)
           /\ InPipe(pipe[q], d) => InPipe(pipe'[q], d) \/ (q = p /\ d = c)
    BY <2>1, <2>2 DEF SessionTypeOK
  <2>10. PipeInv'
    BY <2>1, <2>9 DEF PipeInv
  <2>11. EndedInv'
    <3>1. /\ \A s \in gone["loggedOut"] : data'[s] # "live" \/ s \notin refresh'
          /\ \A s \in gone["deleted"] : data[s] # "live" => data'[s] # "live"
      BY <2>5 DEF EndedInv
    <3>2. \A q \in Procs : "loggedOut" \in goneBefore[q] => data'[sess[q]] # "live"
      BY <2>5 DEF EndedInv
    <3> QED
      BY <2>1, <2>5, <3>1, <3>2 DEF EndedInv, clients, ghosts
  <2>12. ASSUME deletes = 0
         PROVE  /\ known \subseteq members'
                /\ \A q \in Procs : op[q] = "create" =>
                      sess[q] \in members'
                      \/ InPipe(pipe'[q], [cmd |-> "sAdd", id |-> sess[q]])
    <3>1. op[p] = "create"
      BY <2>3, <2>12 DEF DeleteInv
    <3>2. members \subseteq members'
      BY <2>6, <3>1
    <3>3. ASSUME NEW q \in Procs, op[q] = "create"
          PROVE  sess[q] \in members' \/ InPipe(pipe'[q], [cmd |-> "sAdd", id |-> sess[q]])
      <4>1. sess[q] \in members \/ InPipe(pipe[q], [cmd |-> "sAdd", id |-> sess[q]])
        BY <2>12, <3>3 DEF DeleteInv
      <4>2. CASE c = [cmd |-> "sAdd", id |-> sess[q]]
        BY <4>2, <2>6
      <4>3. CASE c # [cmd |-> "sAdd", id |-> sess[q]]
        BY <4>1, <4>3, <2>9, <3>2
      <4> QED
        BY <4>2, <4>3
    <3> QED
      BY <2>12, <3>2, <3>3 DEF DeleteInv
  <2>13. ASSUME NEW q \in Procs, op[q] = "delete", NEW s \in victims[q], deletes <= 1
         PROVE  s \in todo[q] \/ InPipe(pipe'[q], DelSession(s)) \/ data'[s] # "live"
    <3>1. s \in known
      BY <2>13 DEF DeleteInv
    <3>2. s \in todo[q] \/ InPipe(pipe[q], DelSession(s)) \/ data[s] # "live"
      BY <2>13 DEF DeleteInv
    <3>3. CASE c = DelSession(s)
      <4>1. c.cmd = "delSession" /\ c.id = s
        BY <3>3 DEF DelSession
      <4>2. data' = [data EXCEPT ![s] = "none"]
        BY <4>1, <2>1 DEF Run
      <4> QED
        BY <4>2, <2>4, <3>1
    <3>4. CASE c # DelSession(s)
      BY <3>1, <3>2, <3>4, <2>5, <2>9
    <3> QED
      BY <3>3, <3>4
  <2>14. DeleteInv'
    BY <2>1, <2>12, <2>13 DEF DeleteInv, clients
  <2> QED
    BY <2>7, <2>8, <2>10, <2>11, <2>14
<1>3. ASSUME NEW p \in Procs, PipeOk(p) PROVE SessionInv'
  <2>1. /\ step[p] = "exec" /\ pipe[p] = <<>> /\ Return(p)
        /\ UNCHANGED <<store, past, created, deletes, acceptedGone>>
        /\ IF op[p] = "create" THEN known' = known \cup {sess[p]} /\ UNCHANGED gone
           ELSE gone' = [gone EXCEPT !["deleted"] = @ \cup victims[p]] /\ UNCHANGED known
    BY <1>3 DEF PipeOk
  <2>2. op[p] \in {"create", "delete"} /\ (op[p] = "create" => sess[p] \in created)
        /\ (op[p] = "delete" => todo[p] = {})
    BY <2>1 DEF CallInv
  <2>3. SessionTypeOK'
    BY <2>1, <2>2 DEF SessionTypeOK, store, Return, States, Reasons
  <2>4. CallInv' /\ CreatorInv' /\ PipeInv'
    BY <2>1, <2>2, ReturnKeeps
  <2>5. op[p] = "delete" => /\ victims[p] \subseteq known
                            /\ deletes <= 1 => \A s \in victims[p] : data[s] # "live"
    BY <2>1, <2>2, EmptyPipe DEF DeleteInv
  <2>9. /\ gone'["loggedOut"] = gone["loggedOut"] /\ gone'["expired"] = gone["expired"]
        /\ gone'["deleted"] \subseteq gone["deleted"]
                                 \cup (IF op[p] = "delete" THEN victims[p] ELSE {})
        /\ \A why \in Reasons : gone[why] \subseteq gone'[why]
    BY <2>1, <2>2 DEF SessionTypeOK, Reasons
  <2>10. \A q \in Procs : /\ \A why \in goneBefore'[q] : sess'[q] \in gone'[why]
                          /\ "loggedOut" \in goneBefore'[q] => data[sess'[q]] # "live"
    BY <2>1, <2>9 DEF EndedInv, SessionTypeOK, Return
  <2>6. EndedInv'
    BY <2>1, <2>2, <2>5, <2>9, <2>10 DEF EndedInv, store
  <2>7. op[p] = "create" /\ deletes = 0 => sess[p] \in members
    BY <2>1, EmptyPipe DEF DeleteInv
  <2>8. DeleteInv'
    BY <2>1, <2>2, <2>7 DEF DeleteInv, SessionTypeOK, store, Return
  <2> QED
    BY <2>3, <2>4, <2>6, <2>8
<1>4. ASSUME NEW p \in Procs, CallFails(p) PROVE SessionInv'
  <2>1. Return(p) /\ UNCHANGED <<store, past, clients, deletes, ghosts>>
    BY <1>4 DEF CallFails
  <2>2. SessionTypeOK'
    BY <2>1 DEF SessionTypeOK, store, clients, ghosts, Return, States
  <2>3. CallInv' /\ CreatorInv' /\ PipeInv'
    BY <2>1, ReturnKeeps DEF clients
  <2>4. EndedInv'
    BY <2>1 DEF EndedInv, SessionTypeOK, store, clients, ghosts, Return
  <2>5. DeleteInv'
    BY <2>1 DEF DeleteInv, SessionTypeOK, store, clients, Return
  <2> QED
    BY <2>2, <2>3, <2>4, <2>5
<1>5. ASSUME NEW p \in Procs, NEW s \in Sessions, NEW o \in {"refresh", "logout"},
             GetRefreshKey(p, o, s)
      PROVE  SessionInv'
  <2> DEFINE before == IF o = "refresh" THEN {why \in Reasons : s \in gone[why]} ELSE {}
  <2>1. /\ step[p] = "idle" /\ s \in known /\ s \in refresh
        /\ op' = [op EXCEPT ![p] = o] /\ step' = [step EXCEPT ![p] = "getSession"]
        /\ sess' = [sess EXCEPT ![p] = s]
        /\ goneBefore' = [goneBefore EXCEPT ![p] = before]
        /\ UNCHANGED <<store, past, clients, copy, todo, pipe, deletes, victims, ghosts>>
    BY <1>5 DEF GetRefreshKey, Start
  <2>8. /\ before \subseteq Reasons /\ \A why \in before : s \in gone[why]
        /\ "loggedOut" \in before => data[s] # "live"
    BY <2>1 DEF EndedInv
  <2> HIDE DEF before
  <2>2. SessionTypeOK'
    BY <2>1, <2>8 DEF SessionTypeOK, store, clients, ghosts
  <2>3. CallInv'
    BY <2>1 DEF CallInv, SessionTypeOK, clients
  <2>4. CreatorInv'
    BY <2>1 DEF CreatorInv, SessionTypeOK
  <2>5. PipeInv'
    BY <2>1 DEF PipeInv, SessionTypeOK
  <2>6. EndedInv'
    <3>1. \A q \in Procs : /\ \A why \in goneBefore'[q] : sess'[q] \in gone[why]
                           /\ "loggedOut" \in goneBefore'[q] => data[sess'[q]] # "live"
      BY <2>1, <2>8 DEF EndedInv, SessionTypeOK
    <3> QED
      BY <2>1, <3>1 DEF EndedInv, store, clients, ghosts
  <2>7. DeleteInv'
    BY <2>1 DEF DeleteInv, SessionTypeOK, store, clients
  <2> QED
    BY <2>2, <2>3, <2>4, <2>5, <2>6, <2>7
<1>6. ASSUME NEW p \in Procs, GetSession(p) PROVE SessionInv'
  <2>1. step[p] = "getSession" /\ UNCHANGED <<store, past, clients, deletes, gone>>
    BY <1>6 DEF GetSession
  <2>2. CASE op[p] = "logout"
    <3>1. /\ copy' = [copy EXCEPT ![p] = "revoked"] /\ step' = [step EXCEPT ![p] = "update"]
          /\ UNCHANGED <<op, sess, todo, pipe, goneBefore, victims, acceptedGone>>
      BY <1>6, <2>2 DEF GetSession
    <3>2. SessionTypeOK'
      BY <2>1, <3>1 DEF SessionTypeOK, store, clients, States
    <3>3. CallInv'
      BY <2>1, <2>2, <3>1 DEF CallInv, SessionTypeOK, clients
    <3>4. CreatorInv' /\ EndedInv'
      BY <2>1, <3>1 DEF CreatorInv, EndedInv, store, clients
    <3>5. PipeInv'
      BY <2>1, <3>1 DEF PipeInv, SessionTypeOK
    <3>6. DeleteInv'
      BY <2>1, <3>1 DEF DeleteInv, store, clients
    <3> QED
      BY <3>2, <3>3, <3>4, <3>5, <3>6
  <2>3. CASE op[p] # "logout"
    <3>1. /\ IsValid(sess[p]) /\ Return(p)
          /\ acceptedGone' = acceptedGone \cup goneBefore[p]
      BY <1>6, <2>3 DEF GetSession
    <3>2. sess[p] \in known /\ known \subseteq Sessions
      BY <2>1, <2>3 DEF CallInv, SessionTypeOK
    <3>3. /\ goneBefore[p] \subseteq Reasons
          /\ "loggedOut" \notin goneBefore[p] /\ "expired" \notin goneBefore[p]
          /\ deletes <= 1 => "deleted" \notin goneBefore[p]
      BY <3>1, <3>2 DEF IsValid, EndedInv, SessionTypeOK
    <3>4. SessionTypeOK'
      BY <2>1, <3>1, <3>2, <3>3 DEF SessionTypeOK, store, clients, Return, States
    <3>5. CallInv' /\ CreatorInv' /\ PipeInv'
      BY <2>1, <3>1, ReturnKeeps DEF clients
    <3>6. EndedInv'
      BY <2>1, <3>1, <3>3 DEF EndedInv, SessionTypeOK, store, clients, Return
    <3>7. DeleteInv'
      BY <2>1, <3>1 DEF DeleteInv, SessionTypeOK, store, clients, Return
    <3> QED
      BY <3>4, <3>5, <3>6, <3>7
  <2> QED
    BY <2>2, <2>3
<1>7. ASSUME NEW p \in Procs, SaveSession(p) PROVE SessionInv'
  <2>1. /\ op[p] = "logout" /\ copy[p] = "revoked" /\ sess[p] \in known
        /\ known \subseteq Sessions
    BY <1>7 DEF SaveSession, CallInv, SessionTypeOK
  <2>2. /\ data' = [data EXCEPT ![sess[p]] = "revoked"]
        /\ immortal' \subseteq immortal \cup {sess[p]}
        /\ gone' = [gone EXCEPT !["loggedOut"] = @ \cup {sess[p]}] \/ UNCHANGED gone
        /\ Return(p)
        /\ UNCHANGED <<refresh, members, past, clients, deletes, acceptedGone>>
    BY <1>7, <2>1 DEF SaveSession, UpdateSession, Acknowledge
  <2>3. SessionTypeOK'
    BY <2>1, <2>2 DEF SessionTypeOK, clients, Return, States, Reasons
  <2>4. CallInv' /\ CreatorInv' /\ PipeInv'
    BY <2>2, ReturnKeeps DEF clients
  <2>5. /\ gone'["deleted"] = gone["deleted"] /\ gone'["expired"] = gone["expired"]
        /\ gone'["loggedOut"] \subseteq gone["loggedOut"] \cup {sess[p]}
        /\ \A why \in Reasons : gone[why] \subseteq gone'[why]
    BY <2>2 DEF SessionTypeOK, Reasons
  <2>6. \A s \in Sessions : data'[s] = IF s = sess[p] THEN "revoked" ELSE data[s]
    BY <2>2 DEF SessionTypeOK
  <2>7. \A q \in Procs : /\ \A why \in goneBefore'[q] : sess'[q] \in gone'[why]
                         /\ "loggedOut" \in goneBefore'[q] =>
                               sess'[q] = sess[q] /\ sess[q] \in known /\ data[sess[q]] # "live"
    BY <2>2, <2>5 DEF EndedInv, SessionTypeOK, Return
  <2>10. ASSUME NEW q \in Procs, "loggedOut" \in goneBefore'[q]
         PROVE  data'[sess'[q]] # "live"
    <3>1. sess'[q] = sess[q] /\ sess[q] \in Sessions /\ data[sess[q]] # "live"
      BY <2>1, <2>7, <2>10
    <3>2. data'[sess[q]] # "live"
      BY <2>6, <3>1
    <3> QED
      BY <3>1, <3>2
  <2>8. EndedInv'
    BY <2>1, <2>2, <2>5, <2>6, <2>7, <2>10 DEF EndedInv, SessionTypeOK, clients
  <2>9. DeleteInv'
    BY <2>1, <2>2, <2>6 DEF DeleteInv, SessionTypeOK, clients, Return
  <2> QED
    BY <2>3, <2>4, <2>8, <2>9
<1>8. ASSUME NEW p \in Procs, DeleteByUserID(p) PROVE SessionInv'
  <2>1. /\ deletes \in Nat /\ deletes' = deletes + 1 /\ deletes' \in 0 .. MaxDeletes
        /\ step[p] = "idle" /\ UNCHANGED <<store, past, clients, acceptedGone>>
    BY <1>8 DEF DeleteByUserID, Start, SessionTypeOK
  <2>2. deletes' <= 1 => known \subseteq members /\ \A q \in Procs : op[q] # "delete"
    BY <2>1 DEF DeleteInv
  <2>3. CASE members = {}
    <3>1. /\ gone' = [gone EXCEPT !["deleted"] = @ \cup known]
          /\ deletes' <= 1 => known = {}
          /\ UNCHANGED <<calls, goneBefore, victims>>
      BY <1>8, <2>2, <2>3 DEF DeleteByUserID
    <3>2. /\ gone'["deleted"] = gone["deleted"] \cup known
          /\ gone'["loggedOut"] = gone["loggedOut"] /\ gone'["expired"] = gone["expired"]
          /\ gone' \in [Reasons -> SUBSET Sessions]
          /\ \A why \in Reasons : gone[why] \subseteq gone'[why]
      BY <3>1 DEF SessionTypeOK, Reasons
    <3>6. \A q \in Procs : goneBefore[q] \subseteq Reasons
      BY DEF SessionTypeOK
    <3>3. SessionTypeOK'
      BY <2>1, <3>1, <3>2 DEF SessionTypeOK, store, clients, calls
    <3>4. CallInv' /\ CreatorInv' /\ PipeInv'
      BY <2>1, <3>1 DEF CallInv, CreatorInv, PipeInv, store, clients, calls
    <3>7. EndedInv'
      BY <2>1, <3>1, <3>2, <3>6 DEF EndedInv, store, clients, calls
    <3>5. DeleteInv'
      BY <2>1, <2>2, <3>1 DEF DeleteInv, store, clients, calls
    <3> QED
      BY <3>3, <3>4, <3>5, <3>7
  <2>4. CASE members # {}
    <3>1. /\ op' = [op EXCEPT ![p] = "delete"] /\ step' = [step EXCEPT ![p] = "lookup"]
          /\ sess' = [sess EXCEPT ![p] = Nil] /\ goneBefore' = [goneBefore EXCEPT ![p] = {}]
          /\ todo' = [todo EXCEPT ![p] = members] /\ victims' = [victims EXCEPT ![p] = known]
          /\ UNCHANGED <<copy, pipe, gone>>
      BY <1>8, <2>4 DEF DeleteByUserID, Start
    <3>2. SessionTypeOK'
      BY <2>1, <3>1 DEF SessionTypeOK, store, clients
    <3>3. CallInv' /\ CreatorInv'
      BY <2>1, <3>1 DEF CallInv, CreatorInv, SessionTypeOK, clients
    <3>4. PipeInv'
      BY <2>1, <3>1 DEF PipeInv, SessionTypeOK
    <3>5. EndedInv'
      BY <2>1, <3>1 DEF EndedInv, SessionTypeOK, store, clients
    <3>6. DeleteInv'
      BY <2>1, <2>2, <3>1 DEF DeleteInv, SessionTypeOK, store, clients
    <3> QED
      BY <3>2, <3>3, <3>4, <3>5, <3>6
  <2> QED
    BY <2>3, <2>4
<1>9. ASSUME NEW p \in Procs, NEW s \in Sessions, LookupSession(p, s) PROVE SessionInv'
  <2>1. PICK found \in {FALSE, data[s] # "none"} :
            pipe' = [pipe EXCEPT ![p] = @ \o Dels(s, found)]
    BY <1>9 DEF LookupSession
  <2>2. /\ step[p] = "lookup" /\ s \in todo[p] /\ todo' = [todo EXCEPT ![p] = @ \ {s}]
        /\ UNCHANGED <<store, past, clients, op, step, sess, copy, deletes, goneBefore,
                       victims, ghosts>>
    BY <1>9 DEF LookupSession
  <2>3. op[p] = "delete" /\ pipe[p] \in Seq(Commands)
    BY <2>2 DEF CallInv, SessionTypeOK
  <2>4. /\ Dels(s, found) \in Seq(Commands) /\ InPipe(Dels(s, found), DelSession(s))
        /\ \A c : InPipe(Dels(s, found), c) => c.cmd \in {"delSession", "delRefresh"}
    <3> DEFINE r == [cmd |-> "delRefresh", id |-> s]
    <3>1. DelSession(s) \in Commands /\ r \in Commands
          /\ DelSession(s).cmd = "delSession" /\ r.cmd = "delRefresh"
      BY DEF Commands, DelSession
    <3>2. Dels(s, found) = IF found THEN <<DelSession(s), r>> ELSE <<DelSession(s)>>
      BY DEF Dels, DelSession
    <3> HIDE DEF r
    <3>3. CASE found
      BY <3>1, <3>2, <3>3 DEF InPipe
    <3>4. CASE ~found
      BY <3>1, <3>2, <3>4, SinglePipe
    <3> QED
      BY <3>3, <3>4
  <2>5. /\ pipe[p] \o Dels(s, found) \in Seq(Commands)
        /\ \A c : InPipe(pipe[p] \o Dels(s, found), c)
                    <=> InPipe(pipe[p], c) \/ InPipe(Dels(s, found), c)
    BY <2>3, <2>4, ConcatPipe
  <2>6. SessionTypeOK'
    BY <2>1, <2>2, <2>5 DEF SessionTypeOK, store, clients, ghosts
  <2>7. /\ pipe'[p] = pipe[p] \o Dels(s, found)
        /\ \A q \in Procs : q # p => pipe'[q] = pipe[q] /\ todo'[q] = todo[q]
        /\ todo'[p] = todo[p] \ {s}
    BY <2>1, <2>2 DEF SessionTypeOK
  <2>8. CallInv' /\ CreatorInv' /\ EndedInv'
    BY <2>2, <2>7 DEF CallInv, CreatorInv, EndedInv, store, clients, ghosts
  <2>9. PipeInv'
    BY <2>2, <2>3, <2>4, <2>5, <2>7, ZenonT(30) DEF PipeInv
  <2>10. ASSUME NEW q \in Procs, op[q] = "delete", NEW v \in victims[q], deletes <= 1
         PROVE  v \in todo'[q] \/ InPipe(pipe'[q], DelSession(v)) \/ data[v] # "live"
    <3>1. v \in todo[q] \/ InPipe(pipe[q], DelSession(v)) \/ data[v] # "live"
      BY <2>10 DEF DeleteInv
    <3>2. CASE q # p
      BY <3>1, <3>2, <2>7
    <3>3. CASE q = p
      BY <3>1, <3>3, <2>4, <2>5, <2>7
    <3> QED
      BY <3>2, <3>3
  <2>11. deletes # 0
    BY <2>3 DEF DeleteInv
  <2>12. DeleteInv'
    BY <2>2, <2>10, <2>11 DEF DeleteInv, store, clients
  <2> QED
    BY <2>6, <2>8, <2>9, <2>12
<1>10. ASSUME NEW p \in Procs, SendDeletes(p) PROVE SessionInv'
  <2> DEFINE d == [cmd |-> "delSet", id |-> Nil]
  <2>1. /\ step[p] = "lookup" /\ todo[p] = {} /\ pipe' = [pipe EXCEPT ![p] = Append(@, d)]
        /\ step' = [step EXCEPT ![p] = "exec"]
        /\ UNCHANGED <<store, past, clients, op, sess, copy, todo, deletes, goneBefore,
                       victims, ghosts>>
    BY <1>10 DEF SendDeletes
  <2>2. op[p] = "delete" /\ pipe[p] \in Seq(Commands) /\ d \in Commands
    BY <2>1 DEF CallInv, SessionTypeOK, Commands
  <2>3. d.cmd = "delSet"
    OBVIOUS
  <2> HIDE DEF d
  <2>4. /\ Append(pipe[p], d) \in Seq(Commands)
        /\ \A c : InPipe(Append(pipe[p], d), c) <=> InPipe(pipe[p], c) \/ c = d
    BY <2>2, AppendPipe
  <2>5. SessionTypeOK'
    BY <2>1, <2>4 DEF SessionTypeOK, store, clients, ghosts
  <2>6. /\ pipe'[p] = Append(pipe[p], d) /\ step'[p] = "exec"
        /\ \A q \in Procs : q # p => pipe'[q] = pipe[q] /\ step'[q] = step[q]
    BY <2>1 DEF SessionTypeOK
  <2>7. CallInv' /\ CreatorInv' /\ EndedInv'
    BY <2>1, <2>2, <2>6 DEF CallInv, CreatorInv, EndedInv, store, clients, ghosts
  <2>8. PipeInv'
    BY <2>1, <2>2, <2>3, <2>4, <2>6 DEF PipeInv
  <2>9. DeleteInv'
    BY <2>1, <2>2, <2>4, <2>6 DEF DeleteInv, store, clients
  <2> QED
    BY <2>5, <2>7, <2>8, <2>9
<1>11. ASSUME NEW s \in Sessions, TimeStep(s) PROVE SessionInv'
  <2>1. CASE ExpiresAtPasses(s)
    <3>1. /\ past' = past \cup {s} /\ gone' = [gone EXCEPT !["expired"] = @ \cup {s}]
          /\ UNCHANGED <<store, clients, calls, deletes, goneBefore, victims, acceptedGone>>
      BY <2>1 DEF ExpiresAtPasses
    <3>2. SessionTypeOK'
      BY <3>1 DEF SessionTypeOK, store, clients, calls, Reasons
    <3>3. CallInv' /\ CreatorInv' /\ PipeInv' /\ DeleteInv'
      BY <3>1 DEF CallInv, CreatorInv, PipeInv, DeleteInv, store, clients, calls
    <3>4. /\ gone'["expired"] = gone["expired"] \cup {s}
          /\ gone'["loggedOut"] = gone["loggedOut"] /\ gone'["deleted"] = gone["deleted"]
          /\ \A why \in Reasons : gone[why] \subseteq gone'[why]
      BY <3>1 DEF SessionTypeOK, Reasons
    <3>5. \A q \in Procs : /\ \A why \in goneBefore'[q] : sess'[q] \in gone'[why]
                           /\ "loggedOut" \in goneBefore'[q] => data[sess'[q]] # "live"
      BY <3>1, <3>4 DEF EndedInv, SessionTypeOK, calls
    <3>6. EndedInv'
      BY <3>1, <3>4, <3>5 DEF EndedInv, store, clients
    <3> QED
      BY <3>2, <3>3, <3>6
  <2>2. CASE SessionKeyExpires(s)
    <3>1. /\ s \notin immortal /\ data' = [data EXCEPT ![s] = "none"]
          /\ UNCHANGED <<immortal, refresh, members, past, clients, calls, deletes,
                         goneBefore, victims, ghosts>>
      BY <2>2 DEF SessionKeyExpires
    <3>2. SessionTypeOK'
      BY <3>1 DEF SessionTypeOK, clients, calls, ghosts, States
    <3>3. CallInv' /\ CreatorInv' /\ PipeInv'
      BY <3>1 DEF CallInv, CreatorInv, PipeInv, clients, calls
    <3>4. \A r \in Sessions : data'[r] = IF r = s THEN "none" ELSE data[r]
      BY <3>1 DEF SessionTypeOK
    <3>5. EndedInv'
      BY <3>1, <3>4 DEF EndedInv, SessionTypeOK, clients, calls, ghosts
    <3>6. DeleteInv'
      BY <3>1, <3>4 DEF DeleteInv, SessionTypeOK, clients, calls
    <3> QED
      BY <3>2, <3>3, <3>5, <3>6
  <2>3. CASE RefreshKeyExpires(s)
    <3>1. /\ refresh' = refresh \ {s}
          /\ UNCHANGED <<data, immortal, members, past, clients, calls, deletes,
                         goneBefore, victims, ghosts>>
      BY <2>3 DEF RefreshKeyExpires
    <3>2. SessionTypeOK'
      BY <3>1 DEF SessionTypeOK, clients, calls, ghosts
    <3>3. CallInv' /\ CreatorInv' /\ PipeInv' /\ EndedInv' /\ DeleteInv'
      BY <3>1 DEF CallInv, CreatorInv, PipeInv, EndedInv, DeleteInv, clients, calls, ghosts
    <3> QED
      BY <3>2, <3>3
  <2> QED
    BY <1>11, <2>1, <2>2, <2>3 DEF TimeStep
<1>13. ASSUME NEW p \in Procs, NEW s \in Sessions, NEW why \in {"loggedOut", "unread"},
              Acknowledge(s, why), s \in known,
              why = "loggedOut" => data[s] # "live" \/ s \notin refresh,
              Return(p) \/ UNCHANGED <<calls, goneBefore, victims>>,
              UNCHANGED <<store, past, clients, deletes, acceptedGone>>
       PROVE  SessionInv'
  <2>1. /\ gone' \in [Reasons -> SUBSET Sessions]
        /\ gone'["deleted"] = gone["deleted"] /\ gone'["expired"] = gone["expired"]
        /\ gone'["loggedOut"] \subseteq gone["loggedOut"] \cup {s}
        /\ s \in gone'["loggedOut"] => s \in gone["loggedOut"] \/ why = "loggedOut"
        /\ \A w \in Reasons : gone[w] \subseteq gone'[w]
    BY <1>13 DEF Acknowledge, SessionTypeOK, Reasons
  <2>2. SessionTypeOK'
    <3>1. CASE Return(p)
      BY <1>13, <2>1, <3>1 DEF SessionTypeOK, store, clients, Return, States
    <3>2. CASE UNCHANGED <<calls, goneBefore, victims>>
      BY <1>13, <2>1, <3>2 DEF SessionTypeOK, store, clients, calls
    <3> QED
      BY <1>13, <3>1, <3>2
  <2>3. CallInv' /\ CreatorInv' /\ PipeInv'
    <3>1. CASE Return(p)
      BY <1>13, <3>1, ReturnKeeps DEF clients
    <3>2. CASE UNCHANGED <<calls, goneBefore, victims>>
      BY <1>13, <3>2 DEF CallInv, CreatorInv, PipeInv, clients, calls
    <3> QED
      BY <1>13, <3>1, <3>2
  <2>4. \A q \in Procs :
           /\ goneBefore[q] \subseteq Reasons
           /\ goneBefore'[q] # {} => goneBefore'[q] = goneBefore[q] /\ sess'[q] = sess[q]
    BY <1>13 DEF SessionTypeOK, Return, calls
  <2>5. EndedInv'
    BY <1>13, <2>1, <2>4 DEF EndedInv, store, clients
  <2>6. DeleteInv'
    BY <1>13 DEF DeleteInv, SessionTypeOK, store, clients, calls, Return
  <2> QED
    BY <2>2, <2>3, <2>5, <2>6
<1>14. ASSUME NEW p \in Procs, NEW s \in Sessions, NEW o \in {"refresh", "logout"},
              RefreshKeyMissing(p, o, s)
       PROVE  SessionInv' \/ UNCHANGED sessionVars
  BY <1>13, <1>14 DEF RefreshKeyMissing, sessionVars, ghosts
<1>15. ASSUME NEW p \in Procs, NEW s \in Sessions, LogoutLookupFails(p, s) PROVE SessionInv'
  BY <1>13, <1>15 DEF LogoutLookupFails
<1>16. ASSUME NEW p \in Procs, LogoutFindsNothing(p) PROVE SessionInv'
  <2>1. sess[p] \in known /\ sess[p] \in Sessions
    BY <1>16 DEF LogoutFindsNothing, CallInv, SessionTypeOK
  <2> QED
    BY <1>13, <1>16, <2>1 DEF LogoutFindsNothing
<1>12. CASE UNCHANGED sessionVars
  BY <1>12 DEF sessionVars, store, clients, calls, ghosts, SessionTypeOK, CallInv,
               CreatorInv, PipeInv, EndedInv, DeleteInv
<1> QED
  BY <1>1, <1>2, <1>3, <1>4, <1>5, <1>6, <1>7, <1>8, <1>9, <1>10, <1>11, <1>12,
     <1>14, <1>15, <1>16
  DEF SessionNext, CallStep

(* A session whose logout was answered without a failed lookup, that has   *)
(* expired or that the first DeleteByUserID removed gives no new token     *)
(* afterwards, and a key without a time to live is of a revoked session,   *)
(* for any number of overlapping logins, refreshes, logouts and deletions. *)
THEOREM SessionsCorrect == SessionSpec => []SessionsSound
<1>1. SessionInit => SessionInv
  BY SessionInitInv
<1>2. SessionInv /\ [SessionNext]_sessionVars => SessionInv'
  BY SessionNextInv
<1>3. SessionInv => SessionsSound
  BY DEF SessionInv, SessionsSound, EndedInv, LogoutSticks, ExpirySticks,
         ImmortalAreRevoked, DeletedStayDeleted
<1> QED
  BY <1>1, <1>2, <1>3, PTL DEF SessionSpec

=============================================================================
