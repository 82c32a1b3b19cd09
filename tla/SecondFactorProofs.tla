------------------------- MODULE SecondFactorProofs -------------------------
(***************************************************************************)
(* Proofs about the second factor, for any number of overlapping requests, *)
(* setups, backup codes and temporary tokens.                              *)
(***************************************************************************)
EXTENDS SecondFactor, TLAPS

\* A request that is about to insert a row has generated the secret for it, and
\* one that is about to write a login's copy back has used a backup code.
RequestOK(r) ==
    /\ r.step = "create" => r.new \in Secrets
    /\ (r.step = "write" /\ r.op \notin {"setup", "verify"})
          => r.code.code \in BackupCodes

RequestInv == \A p \in Requests : RequestOK(req[p])

TypeInv == TypeOK /\ RequestInv

\* A request counts as one during which the factor was on throughout only
\* while it is on, and then it is answered only with a proof.
FactorInv ==
    /\ \A p \in Requests : req[p].always => row.enabled
    /\ FactorRequired

\* Every copy that is still to be written back is of a verified secret, and
\* the row it will hit is of the same secret, gone, or known to be crossed.
EnabledInv ==
    /\ EnabledWasVerified
    /\ \A p \in Requests : req[p].copy # NoRow =>
          /\ req[p].copy.secret \in verified \cup crossed
          /\ \/ row = NoRow
             \/ row.secret = req[p].copy.secret
             \/ row.secret \in crossed

\* A token that was used once and is still stored is about to be deleted, and
\* only a token that was generated is deleted.
TempInv ==
    \A t \in TempTokens :
        /\ use[t] # "again"
        /\ temp[t] = "unused" => use[t] = "never"
        /\ \A q \in Requests :
              (req[q].step = "del" /\ req[q].token = t) => temp[t] # "unused"
        /\ (use[t] = "once" /\ temp[t] = "stored")
              => \E q \in Requests : req[q].step = "del" /\ req[q].token = t

\* Only logins and the removal of the factor come to present a code.
CodeOpInv ==
    \A p \in Requests :
        req[p].step \in {"get", "del", "code"} => req[p].op \notin {"setup", "verify"}

\* A setup that has generated its backup codes and not stored them yet.
Building(p) ==
    req[p].step = "create" \/ (req[p].step = "write" /\ req[p].op = "setup")

\* A request that has accepted the backup code c and not removed it yet.
Pending(p, c) ==
    /\ req[p].step = "write"
    /\ req[p].op \notin {"setup", "verify"}
    /\ req[p].copy # NoRow
    /\ req[p].code.code = c
    /\ c \notin req[p].copy.codes

\* The row or a copy of it accepts the backup code c.
Live(c) == c \in row.codes \/ \E q \in Requests : c \in req[q].copy.codes

\* Every stored or retired code is of an earlier setup than the ones in
\* progress, which are all of different secrets.
FreshInv ==
    /\ \A p \in Requests : Building(p) =>
          /\ req[p].new <= setups
          /\ \A q \in Requests \ {p} : Building(q) => req[q].new # req[p].new
    /\ \A c \in BackupCodes : Live(c) \/ c \in retired =>
          /\ c[1] <= setups
          /\ \A p \in Requests : Building(p) => c[1] # req[p].new

\* A retired code without an excuse that is still live is about to be removed
\* by the request that used it.
RetiredInv ==
    /\ BackupCodeDies
    /\ \A c \in retired \ excused :
          Live(c) => \E p \in Requests : Pending(p, c)

-----------------------------------------------------------------------------
(* Types of the records that actions build.                                *)

LEMMA ConstantTypes ==
    /\ NoCode \in Typed /\ Idle \in Reqs
    /\ Idle.step = "idle" /\ Idle.copy = NoRow /\ Idle.always = FALSE
    /\ NoRow.enabled = FALSE /\ NoRow.secret = 0 /\ NoRow.codes = {}
    /\ NoRow \notin Rows
  BY SecondFactorAssumption DEF Typed, Idle, Reqs, NoRow, Rows, Secrets

LEMMA SelfTypes ==
    ASSUME TypeOK, NEW p \in Requests
    PROVE  /\ Done(p) \in Reqs /\ Done(p).step = "done" /\ Done(p).copy = NoRow
           /\ Done(p).always = req[p].always
           /\ Accepted(p) \in Reqs /\ Accepted(p).step \in {"delete", "done"}
           /\ Accepted(p).copy = NoRow
           /\ Accepted(p).always => Accepted(p).proved
           /\ Accepted(p).always => req[p].always
<1>1. req[p] \in Reqs
  BY DEF TypeOK
<1>2. Done(p) \in Reqs /\ Done(p).step = "done" /\ Done(p).copy = NoRow
      /\ Done(p).always = req[p].always
  BY <1>1 DEF Done, Reqs
<1>3. CASE req[p].op = "disable"
  BY <1>2, <1>3, ConstantTypes DEF Accepted, Reqs
<1>4. CASE req[p].op # "disable"
  BY <1>2, <1>4 DEF Accepted, Reqs
<1> QED
  BY <1>2, <1>3, <1>4

LEMMA UpdatedType ==
    ASSUME TypeOK, NEW e \in BOOLEAN, NEW codes \in SUBSET BackupCodes
    PROVE  /\ Updated(e, codes) \in Rows \cup {NoRow}
           /\ Updated(e, codes).secret = row.secret
           /\ Updated(e, codes).enabled => e
           /\ row = NoRow => Updated(e, codes) = NoRow
  BY ConstantTypes DEF Updated, TypeOK, Rows

\* What WriteRow leaves.
LEMMA WriteRowTypes ==
    ASSUME TypeInv, NEW p \in Requests, NEW r \in Rows \cup {NoRow},
           NEW s \in Reqs, s.step \notin {"create", "write"}, WriteRow(p, r, s)
    PROVE  /\ row' = r
           /\ retired' \subseteq BackupCodes /\ excused' \subseteq BackupCodes
           /\ req' \in [Requests -> Reqs]
           /\ RequestInv'
           /\ \A q \in Requests :
                 LET next == IF q = p THEN s ELSE req[q]
                 IN  req'[q] = [next EXCEPT !.always = @ /\ r.enabled]
<1> DEFINE n(q) == IF q = p THEN s ELSE req[q]
           f(q) == [n(q) EXCEPT !.always = @ /\ r.enabled]
<1>1. row.codes \subseteq BackupCodes /\ r.codes \subseteq BackupCodes
      /\ r.enabled \in BOOLEAN
  BY ConstantTypes DEF TypeInv, TypeOK, Rows
<1>2. ASSUME NEW q \in Requests
      PROVE  n(q) \in Reqs /\ RequestOK(n(q))
  BY <1>2 DEF TypeInv, TypeOK, RequestInv, RequestOK
<1>3. ASSUME NEW q \in Requests
      PROVE  f(q) \in Reqs /\ RequestOK(f(q))
  <2>1. n(q) \in Reqs /\ RequestOK(n(q))
    BY <1>2
  <2> HIDE DEF n
  <2>2. f(q) \in Reqs
    BY <1>1, <2>1, ZenonT(30) DEF Reqs
  <2>3. /\ f(q).step = n(q).step /\ f(q).op = n(q).op
        /\ f(q).new = n(q).new /\ f(q).code = n(q).code
    BY <2>1 DEF Reqs
  <2> HIDE DEF f
  <2> QED
    BY <2>1, <2>2, <2>3 DEF RequestOK
<1>4. row' = r /\ req' = [q \in Requests |-> f(q)]
  BY DEF WriteRow
<1>5. retired' \subseteq BackupCodes /\ excused' \subseteq BackupCodes
  BY <1>1 DEF WriteRow, TypeInv, TypeOK
<1>6. req' \in [Requests -> Reqs]
  BY <1>3, <1>4
<1>7. RequestInv'
  BY <1>3, <1>4 DEF RequestInv
<1> QED
  BY <1>4, <1>5, <1>6, <1>7

\* What the other steps leave.
LEMMA BecomeTypes ==
    ASSUME TypeInv, NEW p \in Requests, NEW s \in Reqs,
           RequestOK(s), Become(p, s)
    PROVE  /\ req' \in [Requests -> Reqs]
           /\ RequestInv'
           /\ \A q \in Requests : req'[q] = IF q = p THEN s ELSE req[q]
  BY DEF Become, TypeInv, TypeOK, RequestInv

LEMMA StartTypes ==
    ASSUME TypeInv, NEW p \in Requests,
           NEW op \in {"setup", "verify", "login", "temp", "disable"},
           NEW step \in {"read", "get", "code", "delete"},
           NEW code \in Typed, NEW t \in TempTokens \cup {""},
           Start(p, op, step, code, t)
    PROVE  /\ TypeInv'
           /\ \A q \in Requests \ {p} : req'[q] = req[q]
           /\ req[p].step = "idle" /\ req'[p].step = step /\ req'[p].op = op
           /\ req'[p].copy = NoRow /\ req'[p].always = row.enabled
<1> DEFINE s == [Idle EXCEPT !.op = op, !.step = step, !.code = code,
                             !.token = t, !.always = row.enabled]
<1>1. row.enabled \in BOOLEAN
  BY ConstantTypes DEF TypeInv, TypeOK, Rows
<1>2. s \in Reqs /\ s.step = step /\ s.op = op /\ s.copy = NoRow
      /\ s.always = row.enabled
  BY <1>1, ConstantTypes DEF Reqs
<1>3. Become(p, s) /\ req[p].step = "idle"
  BY DEF Start, Become
<1> HIDE DEF s
<1>4. /\ req' \in [Requests -> Reqs] /\ RequestInv'
      /\ \A q \in Requests : req'[q] = IF q = p THEN s ELSE req[q]
  BY <1>2, <1>3, BecomeTypes DEF RequestOK
<1>5. TypeInv'
  BY <1>4 DEF Start, TypeInv, TypeOK, codeVars
<1> QED
  BY <1>2, <1>3, <1>4, <1>5

\* A request is started.
Begin(p) ==
    \/ Setup(p)
    \/ \E n \in Secrets : Verify(p, n)
    \/ \E code \in Typed : Login(p, code)
    \/ \E t \in TempTokens, code \in Typed : VerifyTotpLogin(p, t, code)
    \/ \E code \in Typed : Disable(p, code)

\* What the start of a request changes, whichever it is.
Started(p) ==
    /\ TypeInv'
    /\ \A q \in Requests \ {p} : req'[q] = req[q]
    /\ req[p].step = "idle" /\ req'[p].step \in {"read", "get", "code", "delete"}
    /\ req'[p].step # "read" => req'[p].op \notin {"setup", "verify"}
    /\ req'[p].copy = NoRow /\ req'[p].always = row.enabled
    /\ UNCHANGED <<row, setups, temp, shown, verified, crossed, codeVars, revived,
                   use>>

LEMMA BeginStarts ==
    ASSUME TypeInv, NEW p \in Requests, Begin(p)
    PROVE  Started(p)
<1>1. CASE Setup(p)
  <2>1. Start(p, "setup", "read", NoCode, "")
    BY <1>1 DEF Setup
  <2> QED
    BY <2>1, StartTypes, ConstantTypes DEF Start, Started
<1>2. ASSUME NEW n \in Secrets, Verify(p, n)
      PROVE  Started(p)
  <2>1. Start(p, "verify", "read", Totp(n), "") /\ Totp(n) \in Typed
    BY <1>2 DEF Verify, Typed
  <2> QED
    BY <2>1, StartTypes, ZenonT(30) DEF Start, Started
<1>3. ASSUME NEW code \in Typed, Login(p, code)
      PROVE  Started(p)
  <2>1. Start(p, "login", "read", code, "")
    BY <1>3 DEF Login
  <2> QED
    BY <2>1, StartTypes, ZenonT(30) DEF Start, Started
<1>4. ASSUME NEW t \in TempTokens, NEW code \in Typed, VerifyTotpLogin(p, t, code)
      PROVE  Started(p)
  <2>1. Start(p, "temp", "get", code, t)
    BY <1>4 DEF VerifyTotpLogin
  <2> QED
    BY <2>1, StartTypes, ZenonT(30) DEF Start, Started
<1>5. ASSUME NEW code \in Typed, Disable(p, code)
      PROVE  Started(p)
  <2>1. Start(p, "disable", "delete", code, "") \/ Start(p, "disable", "code", code, "")
    BY <1>5 DEF Disable
  <2>2. ASSUME NEW step \in {"delete", "code"}, Start(p, "disable", step, code, "")
        PROVE  Started(p)
    BY <2>2, StartTypes, ZenonT(30) DEF Start, Started
  <2> QED
    BY <2>1, <2>2
<1> QED
  BY <1>1, <1>2, <1>3, <1>4, <1>5 DEF Begin

-----------------------------------------------------------------------------
(* Type correctness.                                                       *)

LEMMA InitTypes == Init => TypeInv
  BY ConstantTypes, SecondFactorAssumption DEF Init, TypeInv, TypeOK, RequestInv, RequestOK

LEMMA StepTypes == TypeInv /\ [Next]_vars => TypeInv'
<1> SUFFICES ASSUME TypeInv, [Next]_vars
             PROVE  TypeInv'
  OBVIOUS
<1> USE DEF codeVars
<1>0. \A p \in Requests : req[p] \in Reqs
  BY DEF TypeInv, TypeOK
<1>1. CASE UNCHANGED vars
  BY <1>1 DEF vars, TypeInv, TypeOK, RequestInv
<1>2. ASSUME NEW p \in Requests, Begin(p)
      PROVE  TypeInv'
  BY <1>2, BeginStarts DEF Started
<1>3. ASSUME NEW p \in Requests, CheckEnabled(p)
      PROVE  TypeInv'
  <2>1. CASE Become(p, Done(p)) /\ UNCHANGED temp
    BY <1>3, <2>1, SelfTypes, BecomeTypes DEF CheckEnabled, TypeInv, TypeOK, RequestOK
  <2>2. CASE GenerateTempToken(p)
    <3>1. Become(p, Idle) /\ temp' \in [TempTokens -> {"unused", "stored", "gone"}]
      BY <2>2 DEF GenerateTempToken, TypeInv, TypeOK
    <3> QED
      BY <1>3, <3>1, ConstantTypes, BecomeTypes DEF CheckEnabled, TypeInv, TypeOK, RequestOK
  <2>3. CASE Become(p, [req[p] EXCEPT !.step = "code"]) /\ UNCHANGED temp
    <3>1. [req[p] EXCEPT !.step = "code"] \in Reqs
      BY <1>0 DEF Reqs
    <3>2. [req[p] EXCEPT !.step = "code"].step = "code"
      BY <1>0 DEF Reqs
    <3> QED
      BY <1>3, <2>3, <3>1, <3>2, BecomeTypes DEF CheckEnabled, TypeInv, TypeOK, RequestOK
  <2> QED
    BY <1>3, <2>1, <2>2, <2>3 DEF CheckEnabled
<1>4. ASSUME NEW p \in Requests, EnabledUnknown(p)
      PROVE  TypeInv'
  <2> DEFINE s == [Done(p) EXCEPT !.failed = TRUE]
  <2>1. s \in Reqs /\ s.step = "done"
    BY SelfTypes DEF Reqs, TypeInv
  <2> QED
    BY <1>4, <2>1, BecomeTypes DEF EnabledUnknown, TypeInv, TypeOK, RequestOK
<1>5. ASSUME NEW p \in Requests, GenerateSecret(p)
      PROVE  TypeInv'
  <2> DEFINE s == [req[p] EXCEPT !.step = IF row = NoRow THEN "create" ELSE "write",
                                 !.new = setups + 1]
  <2>1. setups + 1 \in Secrets /\ setups + 1 \in 0 .. MaxSetups
    BY <1>5, SecondFactorAssumption DEF GenerateSecret, Secrets, TypeInv, TypeOK
  <2>2. s \in Reqs /\ RequestOK(s)
    BY <1>0, <1>5, <2>1 DEF Reqs, RequestOK, GenerateSecret
  <2>3. Become(p, s)
    BY <1>5 DEF GenerateSecret
  <2> HIDE DEF s
  <2>4. req' \in [Requests -> Reqs] /\ RequestInv'
    BY <2>1, <2>2, <2>3, BecomeTypes
  <2> QED
    BY <1>5, <2>1, <2>4 DEF GenerateSecret, TypeInv, TypeOK
<1>6. ASSUME NEW p \in Requests, VerifySetup(p)
      PROVE  TypeInv'
  <2> DEFINE s == [req[p] EXCEPT !.step = "write",
                                 !.copy = [row EXCEPT !.enabled = TRUE]]
  <2>1. row \in Rows /\ row.secret \in Secrets
    BY <1>6 DEF VerifySetup, TypeInv, TypeOK, Rows
  <2>2. [row EXCEPT !.enabled = TRUE] \in Rows
    BY <2>1 DEF Rows
  <2>3. s \in Reqs /\ RequestOK(s)
    BY <1>0, <1>6, <2>2 DEF Reqs, RequestOK, VerifySetup
  <2>4. Become(p, s)
    BY <1>6 DEF VerifySetup
  <2> HIDE DEF s
  <2>5. req' \in [Requests -> Reqs] /\ RequestInv'
    BY <2>3, <2>4, BecomeTypes
  <2> QED
    BY <1>6, <2>1, <2>5 DEF VerifySetup, TypeInv, TypeOK
<1>7. ASSUME NEW p \in Requests, VerifyTotp(p)
      PROVE  TypeInv'
  BY <1>7, SelfTypes, BecomeTypes DEF VerifyTotp, TypeInv, TypeOK, RequestOK
<1>8. ASSUME NEW p \in Requests, VerifyBackupCode(p)
      PROVE  TypeInv'
  <2> DEFINE c == req[p].code.code
             s == [req[p] EXCEPT !.step = "write",
                                 !.copy = [row EXCEPT !.codes = @ \ {c}]]
  <2>1. row \in Rows /\ c \in BackupCodes
    BY <1>8, ConstantTypes DEF VerifyBackupCode, TypeInv, TypeOK, Rows
  <2>2. [row EXCEPT !.codes = @ \ {c}] \in Rows
    BY <2>1 DEF Rows
  <2>3. s \in Reqs /\ RequestOK(s)
    BY <1>0, <2>1, <2>2 DEF Reqs, RequestOK
  <2>4. Become(p, s)
    BY <1>8 DEF VerifyBackupCode
  <2>5. /\ retired' \subseteq BackupCodes /\ excused' \subseteq BackupCodes
        /\ revived' \subseteq BackupCodes
    BY <1>8, <2>1 DEF VerifyBackupCode, TypeInv, TypeOK
  <2> HIDE DEF s
  <2>6. req' \in [Requests -> Reqs] /\ RequestInv'
    BY <2>3, <2>4, BecomeTypes
  <2> QED
    BY <1>8, <2>5, <2>6 DEF VerifyBackupCode, TypeInv, TypeOK
<1>9. ASSUME NEW p \in Requests, CreateSecret(p)
      PROVE  TypeInv'
  <2> DEFINE r == [secret |-> req[p].new, enabled |-> FALSE,
                   codes |-> CodesOf(req[p].new)]
  <2>1. req[p].new \in Secrets /\ req[p].new \in 0 .. MaxSetups
    BY <1>9, SecondFactorAssumption DEF CreateSecret, TypeInv, RequestInv, RequestOK, Secrets
  <2>2. r \in Rows
    BY <2>1 DEF Rows, CodesOf
  <2>3. WriteRow(p, r, Idle)
    BY <1>9 DEF CreateSecret
  <2> HIDE DEF r
  <2>4. /\ row' = r /\ req' \in [Requests -> Reqs] /\ RequestInv'
        /\ retired' \subseteq BackupCodes /\ excused' \subseteq BackupCodes
    BY <2>2, <2>3, ConstantTypes, WriteRowTypes
  <2>5. crossed' \subseteq Secrets
    BY <1>9, <2>1 DEF CreateSecret, TypeInv, TypeOK
  <2> QED
    BY <1>9, <2>1, <2>2, <2>4, <2>5 DEF CreateSecret, TypeInv, TypeOK
<1>10. ASSUME NEW p \in Requests, UpdateSetup(p)
       PROVE  TypeInv'
  <2> DEFINE r == Updated(FALSE, CodesOf(req[p].new))
  <2>1. r \in Rows \cup {NoRow}
    BY UpdatedType DEF CodesOf, TypeInv
  <2>2. WriteRow(p, r, Idle)
    BY <1>10 DEF UpdateSetup
  <2> HIDE DEF r
  <2>3. /\ row' = r /\ req' \in [Requests -> Reqs] /\ RequestInv'
        /\ retired' \subseteq BackupCodes /\ excused' \subseteq BackupCodes
    BY <2>1, <2>2, ConstantTypes, WriteRowTypes
  <2>4. shown' \in 0 .. MaxSetups
    BY <1>0, <1>10 DEF UpdateSetup, Reqs
  <2> QED
    BY <1>10, <2>1, <2>3, <2>4 DEF UpdateSetup, TypeInv, TypeOK
<1>11. ASSUME NEW p \in Requests, UpdateCopy(p)
       PROVE  TypeInv'
  <2> DEFINE r == Updated(req[p].copy.enabled, req[p].copy.codes)
             s == IF req[p].op = "verify" THEN Idle ELSE Accepted(p)
  <2>1. req[p].copy.enabled \in BOOLEAN /\ req[p].copy.codes \in SUBSET BackupCodes
    BY <1>0, ConstantTypes DEF Reqs, Rows
  <2>2. r \in Rows \cup {NoRow}
    BY <2>1, UpdatedType DEF TypeInv
  <2>3. s \in Reqs /\ s.step \notin {"create", "write"}
    BY ConstantTypes, SelfTypes DEF TypeInv
  <2>4. WriteRow(p, r, s)
    BY <1>11 DEF UpdateCopy
  <2> HIDE DEF r, s
  <2>5. /\ row' = r /\ req' \in [Requests -> Reqs] /\ RequestInv'
        /\ retired' \subseteq BackupCodes /\ excused' \subseteq BackupCodes
    BY <2>2, <2>3, <2>4, WriteRowTypes
  <2> QED
    BY <1>11, <2>2, <2>5 DEF UpdateCopy, TypeInv, TypeOK
<1>12. ASSUME NEW p \in Requests, UpdateFails(p)
       PROVE  TypeInv'
  <2>1. req[p].code.code \in BackupCodes
    BY <1>12 DEF UpdateFails, TypeInv, RequestInv, RequestOK
  <2>2. excused' \subseteq BackupCodes
    BY <1>12, <2>1 DEF UpdateFails, TypeInv, TypeOK
  <2>3. req' \in [Requests -> Reqs] /\ RequestInv'
    BY <1>12, SelfTypes, BecomeTypes DEF UpdateFails, TypeInv, RequestOK
  <2> QED
    BY <1>12, <2>2, <2>3 DEF UpdateFails, TypeInv, TypeOK
<1>13. ASSUME NEW p \in Requests, DeleteSecret(p)
       PROVE  TypeInv'
  <2>1. /\ row' = NoRow /\ req' \in [Requests -> Reqs] /\ RequestInv'
        /\ retired' \subseteq BackupCodes /\ excused' \subseteq BackupCodes
    BY <1>13, ConstantTypes, WriteRowTypes DEF DeleteSecret
  <2> QED
    BY <1>13, <2>1 DEF DeleteSecret, TypeInv, TypeOK
<1>14. ASSUME NEW p \in Requests, GetTempToken(p)
       PROVE  TypeInv'
  <2>1. [req[p] EXCEPT !.step = "del"] \in Reqs
        /\ [req[p] EXCEPT !.step = "del"].step = "del"
    BY <1>0 DEF Reqs
  <2>2. req' \in [Requests -> Reqs] /\ RequestInv'
    BY <1>14, <2>1, BecomeTypes DEF GetTempToken, RequestOK
  <2>3. use' \in [TempTokens -> {"never", "once", "again", "excused"}]
    BY <1>14 DEF GetTempToken, UsedAgain, TypeInv, TypeOK
  <2> QED
    BY <1>14, <2>2, <2>3 DEF GetTempToken, TypeInv, TypeOK
<1>15. ASSUME NEW p \in Requests, DeleteTempToken(p) \/ DeleteTempTokenFails(p)
       PROVE  TypeInv'
  <2> DEFINE s == [req[p] EXCEPT !.step = "code", !.token = ""]
  <2>1. s \in Reqs /\ s.step = "code"
    BY <1>0 DEF Reqs
  <2>2. Become(p, s)
    BY <1>15 DEF DeleteTempToken, DeleteTempTokenFails
  <2> HIDE DEF s
  <2>3. req' \in [Requests -> Reqs] /\ RequestInv'
    BY <2>1, <2>2, BecomeTypes DEF RequestOK
  <2>4. /\ use' \in [TempTokens -> {"never", "once", "again", "excused"}]
        /\ temp' \in [TempTokens -> {"unused", "stored", "gone"}]
    BY <1>15 DEF DeleteTempToken, DeleteTempTokenFails, TypeInv, TypeOK
  <2> QED
    BY <1>15, <2>3, <2>4 DEF DeleteTempToken, DeleteTempTokenFails, TypeInv, TypeOK
<1>16. ASSUME NEW p \in Requests, Return(p)
       PROVE  TypeInv'
  <2>1. req' \in [Requests -> Reqs] /\ RequestInv'
    BY <1>16, ConstantTypes, BecomeTypes DEF Return, RequestOK
  <2>2. excused' \subseteq BackupCodes
    BY <1>16 DEF Return, TypeInv, TypeOK, RequestInv, RequestOK
  <2>3. use' \in [TempTokens -> {"never", "once", "again", "excused"}]
    BY <1>16 DEF Return, TypeInv, TypeOK
  <2> QED
    BY <1>16, <2>1, <2>2, <2>3 DEF Return, TypeInv, TypeOK
<1>17. ASSUME NEW t \in TempTokens, TempTokenExpires(t)
       PROVE  TypeInv'
  BY <1>17 DEF TempTokenExpires, TypeInv, TypeOK, RequestInv
<1> QED
  BY <1>1, <1>2, <1>3, <1>4, <1>5, <1>6, <1>7, <1>8, <1>9, <1>10, <1>11, <1>12,
     <1>13, <1>14, <1>15, <1>16, <1>17 DEF Next, Begin

\* The stored row, the tokens and the requests keep their types: in particular
\* a copy that is written back is always a row.
THEOREM TypeCorrect == Spec => []TypeOK
<1>1. Init => TypeInv
  BY InitTypes
<1>2. TypeInv /\ [Next]_vars => TypeInv'
  BY StepTypes
<1>3. TypeInv => TypeOK
  BY DEF TypeInv
<1> QED
  BY <1>1, <1>2, <1>3, PTL DEF Spec

-----------------------------------------------------------------------------
(* The second factor is not slipped past.                                  *)

LEMMA StepFactor == TypeInv /\ FactorInv /\ [Next]_vars => FactorInv'
<1> SUFFICES ASSUME TypeInv, FactorInv, [Next]_vars
             PROVE  FactorInv'
  OBVIOUS
<1> USE DEF codeVars
<1>0. \A p \in Requests : req[p] \in Reqs
  BY DEF TypeInv, TypeOK
\* A step that leaves the row alone has to be looked at for its own request.
<1>a. ASSUME NEW p \in Requests, row' = row,
             \A q \in Requests \ {p} : req'[q] = req[q],
             req'[p].always => row.enabled,
             (req'[p].step = "done" /\ req'[p].always)
                => (req'[p].proved \/ req'[p].failed)
      PROVE  FactorInv'
  BY <1>a DEF FactorInv, FactorRequired
\* One that writes the row, for the state it puts its request in.
<1>b. ASSUME NEW p \in Requests, NEW r \in Rows \cup {NoRow}, NEW s \in Reqs,
             s.step \notin {"create", "write"}, WriteRow(p, r, s),
             s.always => s.proved
      PROVE  FactorInv'
  <2>1. /\ row' = r
        /\ \A q \in Requests :
              LET next == IF q = p THEN s ELSE req[q]
              IN  req'[q] = [next EXCEPT !.always = @ /\ r.enabled]
    BY <1>b, WriteRowTypes
  <2>2. ASSUME NEW q \in Requests
        PROVE  /\ req'[q].always => r.enabled
               /\ (req'[q].step = "done" /\ req'[q].always)
                     => (req'[q].proved \/ req'[q].failed)
    <3> DEFINE next == IF q = p THEN s ELSE req[q]
    <3>1. req'[q] = [next EXCEPT !.always = @ /\ r.enabled] /\ next \in Reqs
      BY <1>0, <1>b, <2>1
    <3>2. (next.step = "done" /\ next.always) => (next.proved \/ next.failed)
      BY <1>b DEF FactorInv, FactorRequired
    <3> HIDE DEF next
    <3>3. /\ req'[q].always = (next.always /\ r.enabled)
          /\ req'[q].step = next.step /\ req'[q].proved = next.proved
          /\ req'[q].failed = next.failed
      BY <3>1 DEF Reqs
    <3> QED
      BY <3>2, <3>3
  <2> QED
    BY <2>1, <2>2 DEF FactorInv, FactorRequired
<1>1. CASE UNCHANGED vars
  BY <1>1 DEF vars, FactorInv, FactorRequired
<1>2. ASSUME NEW p \in Requests, Begin(p)
      PROVE  FactorInv'
  BY <1>2, <1>a, BeginStarts DEF Started
<1>3. ASSUME NEW p \in Requests, CheckEnabled(p)
      PROVE  FactorInv'
  <2>1. CASE ~row.enabled /\ Become(p, Done(p))
    <3>1. ~req[p].always
      BY <2>1 DEF FactorInv
    <3> QED
      BY <1>3, <1>a, <2>1, <3>1, SelfTypes DEF CheckEnabled, Become, TypeInv, TypeOK
  <2>2. CASE Become(p, Idle)
    BY <1>3, <1>a, <2>2, ConstantTypes DEF CheckEnabled, Become, TypeInv, TypeOK
  <2>3. CASE Become(p, [req[p] EXCEPT !.step = "code"])
    <3>1. /\ [req[p] EXCEPT !.step = "code"].step = "code"
          /\ [req[p] EXCEPT !.step = "code"].always = req[p].always
      BY <1>0 DEF Reqs
    <3> QED
      BY <1>3, <1>a, <2>3, <3>1 DEF CheckEnabled, Become, TypeInv, TypeOK, FactorInv
  <2> QED
    BY <1>3, <2>1, <2>2, <2>3 DEF CheckEnabled, GenerateTempToken
<1>4. ASSUME NEW p \in Requests, EnabledUnknown(p)
      PROVE  FactorInv'
  <2> DEFINE s == [Done(p) EXCEPT !.failed = TRUE]
  <2>1. s.failed /\ s.always = req[p].always
    BY SelfTypes DEF Reqs, TypeInv
  <2>2. row' = row /\ req' = [req EXCEPT ![p] = s]
    BY <1>4 DEF EnabledUnknown, Become
  <2> HIDE DEF s
  <2> QED
    BY <1>a, <2>1, <2>2 DEF TypeInv, TypeOK, FactorInv
<1>5. ASSUME NEW p \in Requests, GenerateSecret(p)
      PROVE  FactorInv'
  <2> DEFINE s == [req[p] EXCEPT !.step = IF row = NoRow THEN "create" ELSE "write",
                                 !.new = setups + 1]
  <2>1. s.step # "done" /\ s.always = req[p].always
    BY <1>0 DEF Reqs
  <2>2. row' = row /\ req' = [req EXCEPT ![p] = s]
    BY <1>5 DEF GenerateSecret, Become
  <2> HIDE DEF s
  <2> QED
    BY <1>a, <2>1, <2>2 DEF TypeInv, TypeOK, FactorInv
<1>6. ASSUME NEW p \in Requests, VerifySetup(p)
      PROVE  FactorInv'
  <2> DEFINE s == [req[p] EXCEPT !.step = "write",
                                 !.copy = [row EXCEPT !.enabled = TRUE]]
  <2>1. s.step # "done" /\ s.always = req[p].always
    BY <1>0 DEF Reqs
  <2>2. row' = row /\ req' = [req EXCEPT ![p] = s]
    BY <1>6 DEF VerifySetup, Become
  <2> HIDE DEF s
  <2> QED
    BY <1>a, <2>1, <2>2 DEF TypeInv, TypeOK, FactorInv
<1>7. ASSUME NEW p \in Requests, VerifyTotp(p) \/ UpdateFails(p)
      PROVE  FactorInv'
  <2>1. row' = row /\ req' = [req EXCEPT ![p] = Accepted(p)]
    BY <1>7 DEF VerifyTotp, UpdateFails, Become
  <2> QED
    BY <1>a, <2>1, SelfTypes DEF TypeInv, TypeOK, FactorInv
<1>8. ASSUME NEW p \in Requests, VerifyBackupCode(p)
      PROVE  FactorInv'
  <2> DEFINE s == [req[p] EXCEPT !.step = "write",
                                 !.copy = [row EXCEPT !.codes = @ \ {req[p].code.code}]]
  <2>1. s.step # "done" /\ s.always = req[p].always
    BY <1>0 DEF Reqs
  <2>2. row' = row /\ req' = [req EXCEPT ![p] = s]
    BY <1>8 DEF VerifyBackupCode, Become
  <2> HIDE DEF s
  <2> QED
    BY <1>a, <2>1, <2>2 DEF TypeInv, TypeOK, FactorInv
<1>9. ASSUME NEW p \in Requests, CreateSecret(p)
      PROVE  FactorInv'
  <2> DEFINE r == [secret |-> req[p].new, enabled |-> FALSE,
                   codes |-> CodesOf(req[p].new)]
  <2>1. r \in Rows
    BY <1>9 DEF CreateSecret, TypeInv, RequestInv, RequestOK, Rows, CodesOf
  <2>2. WriteRow(p, r, Idle)
    BY <1>9 DEF CreateSecret
  <2> HIDE DEF r
  <2> QED
    BY <1>b, <2>1, <2>2, ConstantTypes
<1>10. ASSUME NEW p \in Requests, UpdateSetup(p)
       PROVE  FactorInv'
  <2> DEFINE r == Updated(FALSE, CodesOf(req[p].new))
  <2>1. r \in Rows \cup {NoRow}
    BY UpdatedType DEF CodesOf, TypeInv
  <2>2. WriteRow(p, r, Idle)
    BY <1>10 DEF UpdateSetup
  <2> HIDE DEF r
  <2> QED
    BY <1>b, <2>1, <2>2, ConstantTypes
<1>11. ASSUME NEW p \in Requests, UpdateCopy(p)
       PROVE  FactorInv'
  <2> DEFINE r == Updated(req[p].copy.enabled, req[p].copy.codes)
             s == IF req[p].op = "verify" THEN Idle ELSE Accepted(p)
  <2>1. req[p].copy.enabled \in BOOLEAN /\ req[p].copy.codes \in SUBSET BackupCodes
    BY <1>0, ConstantTypes DEF Reqs, Rows
  <2>2. r \in Rows \cup {NoRow}
    BY <2>1, UpdatedType DEF TypeInv
  <2>3. s \in Reqs /\ s.step \notin {"create", "write"} /\ (s.always => s.proved)
    BY ConstantTypes, SelfTypes DEF TypeInv
  <2>4. WriteRow(p, r, s)
    BY <1>11 DEF UpdateCopy
  <2> HIDE DEF r, s
  <2> QED
    BY <1>b, <2>2, <2>3, <2>4
<1>12. ASSUME NEW p \in Requests, DeleteSecret(p)
       PROVE  FactorInv'
  BY <1>12, <1>b, ConstantTypes DEF DeleteSecret
<1>13. ASSUME NEW p \in Requests,
              GetTempToken(p) \/ DeleteTempToken(p) \/ DeleteTempTokenFails(p)
       PROVE  FactorInv'
  <2>1. PICK s : /\ Become(p, s) /\ row' = row
                 /\ \/ s = [req[p] EXCEPT !.step = "del"]
                    \/ s = [req[p] EXCEPT !.step = "code", !.token = ""]
    BY <1>13 DEF GetTempToken, DeleteTempToken, DeleteTempTokenFails
  <2>2. s.step # "done" /\ s.always = req[p].always
    BY <1>0, <2>1 DEF Reqs
  <2> QED
    BY <1>a, <2>1, <2>2 DEF Become, TypeInv, TypeOK, FactorInv
<1>14. ASSUME NEW p \in Requests, Return(p)
       PROVE  FactorInv'
  BY <1>14, <1>a, ConstantTypes DEF Return, Become, TypeInv, TypeOK
<1>15. ASSUME NEW t \in TempTokens, TempTokenExpires(t)
       PROVE  FactorInv'
  BY <1>15 DEF TempTokenExpires, FactorInv, FactorRequired
<1> QED
  BY <1>1, <1>2, <1>3, <1>4, <1>5, <1>6, <1>7, <1>8, <1>9, <1>10, <1>11, <1>12,
     <1>13, <1>14, <1>15 DEF Next, Begin

\* No interleaving of a login with setup, verification, backup codes and
\* disabling hands out tokens past a factor that was on throughout, unless the
\* database failed to answer IsEnabled.
THEOREM FactorCorrect == Spec => []FactorRequired
<1>1. Init => TypeInv /\ FactorInv
  BY InitTypes, ConstantTypes DEF Init, FactorInv, FactorRequired
<1>2. TypeInv /\ FactorInv /\ [Next]_vars => TypeInv' /\ FactorInv'
  BY StepTypes, StepFactor
<1>3. FactorInv => FactorRequired
  BY DEF FactorInv
<1> QED
  BY <1>1, <1>2, <1>3, PTL DEF Spec

-----------------------------------------------------------------------------
(* The factor is on only for a verified secret.                            *)

LEMMA StepEnabled == TypeInv /\ EnabledInv /\ [Next]_vars => EnabledInv'
<1> SUFFICES ASSUME TypeInv, EnabledInv, [Next]_vars
             PROVE  EnabledInv'
  OBVIOUS
<1> USE DEF codeVars
<1>0. \A p \in Requests : req[p] \in Reqs
  BY DEF TypeInv, TypeOK
\* A step that leaves the row alone, for the copy it leaves its request with.
<1>a. ASSUME NEW p \in Requests, row' = row, crossed' = crossed,
             verified \subseteq verified',
             \A q \in Requests \ {p} : req'[q] = req[q],
             \/ req'[p].copy \in {NoRow, req[p].copy}
             \/ /\ req'[p].copy.secret = row.secret
                /\ row.secret \in verified' \cup crossed
      PROVE  EnabledInv'
  BY <1>a DEF EnabledInv, EnabledWasVerified
\* One that writes the row.
<1>b. ASSUME NEW p \in Requests, NEW r \in Rows \cup {NoRow}, NEW s \in Reqs,
             s.step \notin {"create", "write"}, s.copy = NoRow, WriteRow(p, r, s),
             verified' = verified, crossed \subseteq crossed',
             r.enabled => r.secret \in verified \cup crossed',
             \A q \in Requests \ {p} : req[q].copy # NoRow =>
                \/ r = NoRow
                \/ row # NoRow /\ r.secret = row.secret
                \/ r.secret \in crossed'
      PROVE  EnabledInv'
  <2>1. /\ row' = r
        /\ \A q \in Requests :
              LET next == IF q = p THEN s ELSE req[q]
              IN  req'[q] = [next EXCEPT !.always = @ /\ r.enabled]
    BY <1>b, WriteRowTypes
  <2>2. req'[p].copy = NoRow
    <3>1. req'[p] = [s EXCEPT !.always = @ /\ r.enabled]
      BY <2>1
    <3> QED
      BY <1>b, <3>1 DEF Reqs
  <2>3. ASSUME NEW q \in Requests \ {p}
        PROVE  req'[q].copy = req[q].copy
    <3>1. req'[q] = [req[q] EXCEPT !.always = @ /\ r.enabled]
      BY <2>1
    <3> QED
      BY <1>0, <3>1 DEF Reqs
  <2> QED
    BY <1>b, <2>1, <2>2, <2>3 DEF EnabledInv, EnabledWasVerified
<1>1. CASE UNCHANGED vars
  BY <1>1 DEF vars, EnabledInv, EnabledWasVerified
<1>2. ASSUME NEW p \in Requests, Begin(p)
      PROVE  EnabledInv'
  BY <1>2, <1>a, BeginStarts DEF Started
<1>3. ASSUME NEW p \in Requests, CheckEnabled(p)
      PROVE  EnabledInv'
  <2>1. PICK s : /\ Become(p, s)
                 /\ \/ s = Done(p) \/ s = Idle
                    \/ s = [req[p] EXCEPT !.step = "code"]
    BY <1>3 DEF CheckEnabled, GenerateTempToken
  <2>2. s.copy \in {NoRow, req[p].copy}
    <3>1. [req[p] EXCEPT !.step = "code"].copy = req[p].copy
      BY <1>0 DEF Reqs
    <3>2. Done(p).copy = NoRow /\ Idle.copy = NoRow
      BY SelfTypes, ConstantTypes DEF TypeInv
    <3> QED
      BY <2>1, <3>1, <3>2
  <2> QED
    BY <1>3, <1>a, <2>1, <2>2 DEF CheckEnabled, Become, TypeInv, TypeOK
<1>4. ASSUME NEW p \in Requests, EnabledUnknown(p)
      PROVE  EnabledInv'
  <2> DEFINE s == [Done(p) EXCEPT !.failed = TRUE]
  <2>1. s.copy = NoRow
    BY SelfTypes DEF Reqs, TypeInv
  <2>2. req' = [req EXCEPT ![p] = s]
    BY <1>4 DEF EnabledUnknown, Become
  <2> HIDE DEF s
  <2> QED
    BY <1>4, <1>a, <2>1, <2>2 DEF EnabledUnknown, TypeInv, TypeOK
<1>5. ASSUME NEW p \in Requests, GenerateSecret(p)
      PROVE  EnabledInv'
  <2> DEFINE s == [req[p] EXCEPT !.step = IF row = NoRow THEN "create" ELSE "write",
                                 !.new = setups + 1]
  <2>1. s.copy = req[p].copy
    BY <1>0 DEF Reqs
  <2>2. req' = [req EXCEPT ![p] = s]
    BY <1>5 DEF GenerateSecret, Become
  <2> HIDE DEF s
  <2> QED
    BY <1>5, <1>a, <2>1, <2>2 DEF GenerateSecret, TypeInv, TypeOK
<1>6. ASSUME NEW p \in Requests, VerifySetup(p)
      PROVE  EnabledInv'
  <2> DEFINE s == [req[p] EXCEPT !.step = "write",
                                 !.copy = [row EXCEPT !.enabled = TRUE]]
  <2>1. row \in Rows
    BY <1>6 DEF VerifySetup, TypeInv, TypeOK
  <2>2. s.copy.secret = row.secret
    BY <1>0, <2>1 DEF Reqs, Rows
  <2>3. req' = [req EXCEPT ![p] = s]
    BY <1>6 DEF VerifySetup, Become
  <2> HIDE DEF s
  <2> QED
    BY <1>6, <1>a, <2>2, <2>3 DEF VerifySetup, TypeInv, TypeOK
<1>7. ASSUME NEW p \in Requests, VerifyTotp(p) \/ UpdateFails(p)
      PROVE  EnabledInv'
  <2>1. req' = [req EXCEPT ![p] = Accepted(p)]
    BY <1>7 DEF VerifyTotp, UpdateFails, Become
  <2> QED
    BY <1>7, <1>a, <2>1, SelfTypes DEF VerifyTotp, UpdateFails, TypeInv, TypeOK
<1>8. ASSUME NEW p \in Requests, VerifyBackupCode(p)
      PROVE  EnabledInv'
  <2> DEFINE s == [req[p] EXCEPT !.step = "write",
                                 !.copy = [row EXCEPT !.codes = @ \ {req[p].code.code}]]
  <2>1. row \in Rows /\ row.secret \in verified \cup crossed
    BY <1>8, ConstantTypes
    DEF VerifyBackupCode, TypeInv, TypeOK, EnabledInv, EnabledWasVerified
  <2>2. s.copy.secret = row.secret
    BY <1>0, <2>1 DEF Reqs, Rows
  <2>3. req' = [req EXCEPT ![p] = s]
    BY <1>8 DEF VerifyBackupCode, Become
  <2> HIDE DEF s
  <2> QED
    BY <1>8, <1>a, <2>1, <2>2, <2>3 DEF VerifyBackupCode, TypeInv, TypeOK
<1>9. ASSUME NEW p \in Requests, CreateSecret(p)
      PROVE  EnabledInv'
  <2> DEFINE r == [secret |-> req[p].new, enabled |-> FALSE,
                   codes |-> CodesOf(req[p].new)]
  <2>1. r \in Rows /\ ~r.enabled
    BY <1>9 DEF CreateSecret, TypeInv, RequestInv, RequestOK, Rows, CodesOf
  <2>2. WriteRow(p, r, Idle)
    BY <1>9 DEF CreateSecret
  <2>3. /\ verified' = verified /\ crossed \subseteq crossed'
        /\ \A q \in Requests \ {p} : req[q].copy # NoRow => r.secret \in crossed'
    BY <1>9 DEF CreateSecret
  <2> HIDE DEF r
  <2> QED
    BY <1>b, <2>1, <2>2, <2>3, ConstantTypes
<1>10. ASSUME NEW p \in Requests, UpdateSetup(p)
       PROVE  EnabledInv'
  <2> DEFINE r == Updated(FALSE, CodesOf(req[p].new))
  <2>1. /\ r \in Rows \cup {NoRow} /\ ~r.enabled /\ r.secret = row.secret
        /\ row = NoRow => r = NoRow
    BY UpdatedType DEF CodesOf, TypeInv
  <2>2. WriteRow(p, r, Idle) /\ verified' = verified /\ crossed' = crossed
    BY <1>10 DEF UpdateSetup
  <2> HIDE DEF r
  <2> QED
    BY <1>b, <2>1, <2>2, ConstantTypes
<1>11. ASSUME NEW p \in Requests, UpdateCopy(p)
       PROVE  EnabledInv'
  <2> DEFINE r == Updated(req[p].copy.enabled, req[p].copy.codes)
             s == IF req[p].op = "verify" THEN Idle ELSE Accepted(p)
  <2>1. req[p].copy.enabled \in BOOLEAN /\ req[p].copy.codes \in SUBSET BackupCodes
    BY <1>0, ConstantTypes DEF Reqs, Rows
  <2>2. /\ r \in Rows \cup {NoRow} /\ r.secret = row.secret
        /\ row = NoRow => r = NoRow
        /\ r.enabled => req[p].copy.enabled
    BY <2>1, UpdatedType DEF TypeInv
  <2>3. s \in Reqs /\ s.step \notin {"create", "write"} /\ s.copy = NoRow
    BY ConstantTypes, SelfTypes DEF TypeInv
  <2>4. WriteRow(p, r, s) /\ verified' = verified /\ crossed' = crossed
    BY <1>11 DEF UpdateCopy
  \* Only a real copy enables, and it hits its own secret or a crossed one.
  <2>5. r.enabled => r.secret \in verified \cup crossed
    BY <2>2, ConstantTypes DEF EnabledInv
  <2> HIDE DEF r, s
  <2> QED
    BY <1>b, <2>2, <2>3, <2>4, <2>5
<1>12. ASSUME NEW p \in Requests, DeleteSecret(p)
       PROVE  EnabledInv'
  BY <1>12, <1>b, ConstantTypes DEF DeleteSecret
<1>13. ASSUME NEW p \in Requests,
              GetTempToken(p) \/ DeleteTempToken(p) \/ DeleteTempTokenFails(p)
       PROVE  EnabledInv'
  <2>1. PICK s : /\ Become(p, s) /\ UNCHANGED <<row, verified, crossed>>
                 /\ \/ s = [req[p] EXCEPT !.step = "del"]
                    \/ s = [req[p] EXCEPT !.step = "code", !.token = ""]
    BY <1>13 DEF GetTempToken, DeleteTempToken, DeleteTempTokenFails
  <2>2. s.copy = req[p].copy
    BY <1>0, <2>1 DEF Reqs
  <2> QED
    BY <1>a, <2>1, <2>2 DEF Become, TypeInv, TypeOK
<1>14. ASSUME NEW p \in Requests, Return(p)
       PROVE  EnabledInv'
  BY <1>14, <1>a, ConstantTypes DEF Return, Become, TypeInv, TypeOK
<1>15. ASSUME NEW t \in TempTokens, TempTokenExpires(t)
       PROVE  EnabledInv'
  BY <1>15 DEF TempTokenExpires, EnabledInv, EnabledWasVerified
<1> QED
  BY <1>1, <1>2, <1>3, <1>4, <1>5, <1>6, <1>7, <1>8, <1>9, <1>10, <1>11, <1>12,
     <1>13, <1>14, <1>15 DEF Next, Begin

\* The factor is never on for a secret the user has not shown a code of, unless
\* a request with a copy of an older row was running when it was stored.
THEOREM EnabledCorrect == Spec => []EnabledWasVerified
<1>1. Init => TypeInv /\ EnabledInv
  BY InitTypes, ConstantTypes DEF Init, EnabledInv, EnabledWasVerified
<1>2. TypeInv /\ EnabledInv /\ [Next]_vars => TypeInv' /\ EnabledInv'
  BY StepTypes, StepEnabled
<1>3. EnabledInv => EnabledWasVerified
  BY DEF EnabledInv
<1> QED
  BY <1>1, <1>2, <1>3, PTL DEF Spec

-----------------------------------------------------------------------------
(* A temporary token is used once.                                         *)

LEMMA StepTemp == TypeInv /\ TempInv /\ [Next]_vars => TempInv'
<1> SUFFICES ASSUME TypeInv, TempInv, [Next]_vars
             PROVE  TempInv'
  OBVIOUS
<1> USE DEF codeVars
<1>0. \A p \in Requests : req[p] \in Reqs
  BY DEF TypeInv, TypeOK
\* A request keeps the token it is about to delete.
<1>a. ASSUME NEW p \in Requests, UNCHANGED <<temp, use>>, req[p].step # "del",
             req'[p].step # "del",
             \A q \in Requests \ {p} :
                req'[q].step = req[q].step /\ req'[q].token = req[q].token
      PROVE  TempInv'
  BY <1>a DEF TempInv
<1>b. ASSUME NEW p \in Requests, NEW r \in Rows \cup {NoRow}, NEW s \in Reqs,
             s.step \notin {"create", "write", "del"}, WriteRow(p, r, s),
             UNCHANGED <<temp, use>>, req[p].step # "del"
      PROVE  TempInv'
  <2>1. ASSUME NEW q \in Requests \ {p}
        PROVE  req'[q].step = req[q].step /\ req'[q].token = req[q].token
    <3>1. req'[q] = [req[q] EXCEPT !.always = @ /\ r.enabled]
      BY <1>b, WriteRowTypes
    <3> QED
      BY <1>0, <3>1 DEF Reqs
  <2>2. req'[p].step = s.step
    <3>1. req'[p] = [s EXCEPT !.always = @ /\ r.enabled]
      BY <1>b, WriteRowTypes
    <3> QED
      BY <3>1 DEF Reqs
  <2> QED
    BY <1>a, <1>b, <2>1, <2>2
<1>1. CASE UNCHANGED vars
  BY <1>1 DEF vars, TempInv
<1>2. ASSUME NEW p \in Requests, Begin(p)
      PROVE  TempInv'
  BY <1>2, <1>a, BeginStarts DEF Started
<1>3. ASSUME NEW p \in Requests, CheckEnabled(p)
      PROVE  TempInv'
  <2>1. CASE UNCHANGED temp
    <3>1. PICK s : /\ Become(p, s)
                   /\ \/ s = Done(p) \/ s = Idle
                      \/ s = [req[p] EXCEPT !.step = "code"]
      BY <1>3 DEF CheckEnabled, GenerateTempToken
    <3>2. [req[p] EXCEPT !.step = "code"].step = "code"
      BY <1>0 DEF Reqs
    <3>3. s.step # "del"
      BY <3>1, <3>2, SelfTypes, ConstantTypes DEF TypeInv
    <3> QED
      BY <1>3, <1>a, <2>1, <3>1, <3>3 DEF CheckEnabled, Become, TypeInv, TypeOK
  <2>2. CASE GenerateTempToken(p)
    <3>1. PICK t \in TempTokens : temp[t] = "unused"
                                  /\ temp' = [temp EXCEPT ![t] = "stored"]
      BY <2>2 DEF GenerateTempToken
    <3>2. use' = use /\ use[t] = "never" /\ req[p].step # "del"
      BY <1>3, <3>1 DEF CheckEnabled, TempInv
    <3>3. (\A q \in Requests \ {p} : req'[q] = req[q]) /\ req'[p].step # "del"
      BY <2>2, ConstantTypes DEF GenerateTempToken, Become, TypeInv, TypeOK
    <3> QED
      BY <3>1, <3>2, <3>3 DEF TempInv, TypeInv, TypeOK
  <2> QED
    BY <1>3, <2>1, <2>2 DEF CheckEnabled
<1>4. ASSUME NEW p \in Requests,
             \/ EnabledUnknown(p) \/ GenerateSecret(p) \/ VerifySetup(p)
             \/ VerifyTotp(p) \/ VerifyBackupCode(p) \/ UpdateFails(p)
      PROVE  TempInv'
  <2>1. UNCHANGED <<temp, use>> /\ req[p].step # "del"
    BY <1>4 DEF EnabledUnknown, GenerateSecret, VerifySetup, VerifyTotp,
                VerifyBackupCode, UpdateFails
  <2>2. PICK s : Become(p, s) /\ s.step # "del"
    <3>1. CASE EnabledUnknown(p)
      <4>1. [Done(p) EXCEPT !.failed = TRUE].step = "done"
        BY SelfTypes DEF Reqs, TypeInv
      <4> QED
        BY <3>1, <4>1 DEF EnabledUnknown
    <3>2. CASE GenerateSecret(p)
      <4> DEFINE x == [req[p] EXCEPT !.step = IF row = NoRow THEN "create" ELSE "write",
                                     !.new = setups + 1]
      <4>1. x.step # "del"
        BY <1>0 DEF Reqs
      <4>2. Become(p, x)
        BY <3>2 DEF GenerateSecret
      <4> QED
        BY <4>1, <4>2
    <3>3. CASE VerifySetup(p) \/ VerifyBackupCode(p)
      <4>1. PICK c : Become(p, [req[p] EXCEPT !.step = "write", !.copy = c])
        BY <3>3 DEF VerifySetup, VerifyBackupCode
      <4>2. [req[p] EXCEPT !.step = "write", !.copy = c].step = "write"
        BY <1>0 DEF Reqs
      <4> QED
        BY <4>1, <4>2
    <3>4. CASE VerifyTotp(p) \/ UpdateFails(p)
      BY <3>4, SelfTypes DEF VerifyTotp, UpdateFails, TypeInv
    <3> QED
      BY <1>4, <3>1, <3>2, <3>3, <3>4
  <2> QED
    BY <1>a, <2>1, <2>2 DEF Become, TypeInv, TypeOK
<1>5. ASSUME NEW p \in Requests, CreateSecret(p)
      PROVE  TempInv'
  <2> DEFINE r == [secret |-> req[p].new, enabled |-> FALSE,
                   codes |-> CodesOf(req[p].new)]
  <2>1. r \in Rows
    BY <1>5 DEF CreateSecret, TypeInv, RequestInv, RequestOK, Rows, CodesOf
  <2>2. WriteRow(p, r, Idle) /\ UNCHANGED <<temp, use>> /\ req[p].step # "del"
    BY <1>5 DEF CreateSecret
  <2> HIDE DEF r
  <2> QED
    BY <1>b, <2>1, <2>2, ConstantTypes
<1>6. ASSUME NEW p \in Requests, UpdateSetup(p)
      PROVE  TempInv'
  <2> DEFINE r == Updated(FALSE, CodesOf(req[p].new))
  <2>1. r \in Rows \cup {NoRow}
    BY UpdatedType DEF CodesOf, TypeInv
  <2>2. WriteRow(p, r, Idle) /\ UNCHANGED <<temp, use>> /\ req[p].step # "del"
    BY <1>6 DEF UpdateSetup
  <2> HIDE DEF r
  <2> QED
    BY <1>b, <2>1, <2>2, ConstantTypes
<1>7. ASSUME NEW p \in Requests, UpdateCopy(p)
      PROVE  TempInv'
  <2> DEFINE r == Updated(req[p].copy.enabled, req[p].copy.codes)
             s == IF req[p].op = "verify" THEN Idle ELSE Accepted(p)
  <2>1. req[p].copy.enabled \in BOOLEAN /\ req[p].copy.codes \in SUBSET BackupCodes
    BY <1>0, ConstantTypes DEF Reqs, Rows
  <2>2. r \in Rows \cup {NoRow}
    BY <2>1, UpdatedType DEF TypeInv
  <2>3. s \in Reqs /\ s.step \notin {"create", "write", "del"}
    BY ConstantTypes, SelfTypes DEF TypeInv
  <2>4. WriteRow(p, r, s) /\ UNCHANGED <<temp, use>> /\ req[p].step # "del"
    BY <1>7 DEF UpdateCopy
  <2> HIDE DEF r, s
  <2> QED
    BY <1>b, <2>2, <2>3, <2>4
<1>8. ASSUME NEW p \in Requests, DeleteSecret(p)
      PROVE  TempInv'
  BY <1>8, <1>b, ConstantTypes DEF DeleteSecret
<1>9. ASSUME NEW p \in Requests, GetTempToken(p)
      PROVE  TempInv'
  <2> DEFINE u == req[p].token
  <2>1. /\ req[p].step = "get" /\ temp' = temp /\ temp[u] = "stored"
        /\ \A q \in Requests \ {p} : req'[q] = req[q]
        /\ req'[p].step = "del" /\ req'[p].token = u
    BY <1>0, <1>9 DEF GetTempToken, Become, TypeInv, TypeOK, Reqs
  <2>2. ASSUME NEW t \in TempTokens
        PROVE  /\ use'[t] # "again"
               /\ temp[t] = "unused" => use'[t] = "never"
    <3>1. CASE t = u
      <4>1. CASE \E q \in Requests : req[q].step = "del" /\ req[q].token = u
        BY <1>9, <2>1, <3>1, <4>1 DEF GetTempToken, TypeInv, TypeOK
      <4>2. CASE ~ \E q \in Requests : req[q].step = "del" /\ req[q].token = u
        <5>1. use[t] \in {"never", "excused"}
          BY <2>1, <3>1, <4>2 DEF TempInv, TypeInv, TypeOK
        <5> QED
          BY <1>9, <2>1, <3>1, <4>2, <5>1 DEF GetTempToken, UsedAgain, TypeInv, TypeOK
      <4> QED
        BY <4>1, <4>2
    <3>2. CASE t # u
      BY <1>9, <3>2 DEF GetTempToken, TypeInv, TypeOK, TempInv
    <3> QED
      BY <3>1, <3>2
  <2>3. ASSUME NEW t \in TempTokens, use'[t] = "once", temp[t] = "stored"
        PROVE  \E q \in Requests : req'[q].step = "del" /\ req'[q].token = t
    <3>1. CASE t = u
      BY <2>1, <3>1
    <3>2. CASE t # u
      <4>1. use[t] = "once"
        BY <1>9, <2>3, <3>2 DEF GetTempToken, TypeInv, TypeOK
      <4>2. PICK q \in Requests : req[q].step = "del" /\ req[q].token = t
        BY <2>3, <4>1 DEF TempInv
      <4> QED
        BY <2>1, <4>2
    <3> QED
      BY <3>1, <3>2
  <2> QED
    BY <2>1, <2>2, <2>3 DEF TempInv
<1>10. ASSUME NEW p \in Requests, DeleteTempToken(p)
       PROVE  TempInv'
  <2>1. \A q \in Requests \ {p} : req'[q] = req[q]
    BY <1>10 DEF DeleteTempToken, Become, TypeInv, TypeOK
  <2>2. \A t \in TempTokens : \/ t # req[p].token /\ temp'[t] = temp[t]
                              \/ t = req[p].token /\ temp'[t] = "gone"
    BY <1>10 DEF DeleteTempToken, TypeInv, TypeOK
  <2>3. req'[p].step # "del"
    BY <1>0, <1>10 DEF DeleteTempToken, Become, TypeInv, TypeOK, Reqs
  <2> QED
    BY <1>10, <2>1, <2>2, <2>3 DEF DeleteTempToken, TempInv
<1>11. ASSUME NEW p \in Requests,
              DeleteTempTokenFails(p) \/ (Return(p) /\ req[p].step = "del")
       PROVE  TempInv'
  <2>1. \A q \in Requests \ {p} : req'[q] = req[q]
    BY <1>11 DEF DeleteTempTokenFails, Return, Become, TypeInv, TypeOK
  <2>2. temp' = temp
        /\ \A t \in TempTokens : \/ t # req[p].token /\ use'[t] = use[t]
                                 \/ t = req[p].token /\ use'[t] = "excused"
    BY <1>11 DEF DeleteTempTokenFails, Return, TypeInv, TypeOK
  \* A token that goes without its counts was not unused.
  <2>3. \A t \in TempTokens : t = req[p].token => temp[t] # "unused"
    BY <1>11 DEF DeleteTempTokenFails, TempInv
  <2>4. req'[p].step # "del"
    <3>1. [req[p] EXCEPT !.step = "code", !.token = ""].step = "code"
      BY <1>0 DEF Reqs
    <3> QED
      BY <1>11, <3>1, ConstantTypes
      DEF DeleteTempTokenFails, Return, Become, TypeInv, TypeOK
  <2> QED
    BY <2>1, <2>2, <2>3, <2>4 DEF TempInv
<1>12. ASSUME NEW p \in Requests, Return(p), req[p].step # "del"
       PROVE  TempInv'
  BY <1>12, <1>a, ConstantTypes DEF Return, Become, TypeInv, TypeOK
<1>13. ASSUME NEW t \in TempTokens, TempTokenExpires(t)
       PROVE  TempInv'
  BY <1>13 DEF TempTokenExpires, TempInv, TypeInv, TypeOK
<1> QED
  BY <1>1, <1>2, <1>3, <1>4, <1>5, <1>6, <1>7, <1>8, <1>9, <1>10, <1>11, <1>12,
     <1>13 DEF Next, Begin

\* A temporary token passes ValidateTempToken once, unless two requests read it
\* before either deleted it, or the deletion was lost.
THEOREM TempCorrect == Spec => []TempTokenUsedOnce
<1>1. Init => TypeInv /\ TempInv
  BY InitTypes, ConstantTypes DEF Init, TempInv
<1>2. TypeInv /\ TempInv /\ [Next]_vars => TypeInv' /\ TempInv'
  BY StepTypes, StepTemp
<1>3. TempInv => TempTokenUsedOnce
  BY DEF TempInv, TempTokenUsedOnce
<1> QED
  BY <1>1, <1>2, <1>3, PTL DEF Spec

-----------------------------------------------------------------------------
(* A backup code dies.                                                     *)

LEMMA CodeTypes ==
    ASSUME TypeInv
    PROVE  /\ \A p \in Requests :
                 /\ req[p] \in Reqs /\ req[p].new \in 0 .. MaxSetups
                 /\ req[p].copy.codes \subseteq BackupCodes
           /\ row.codes \subseteq BackupCodes /\ retired \subseteq BackupCodes
           /\ setups \in 0 .. MaxSetups
           /\ \A c \in BackupCodes : c[1] \in Secrets
  BY ConstantTypes, ZenonT(30) DEF TypeInv, TypeOK, Reqs, Rows, BackupCodes

\* A request that leaves the row alone, keeps or takes a copy of it, and does
\* not build a setup; a code it was about to remove is excused.
LEMMA QuietStep ==
    ASSUME TypeInv, FreshInv, RetiredInv, NEW p \in Requests,
           row' = row, setups' = setups, retired' = retired, revived' = revived,
           excused \subseteq excused',
           \A q \in Requests \ {p} : req'[q] = req[q],
           req'[p].copy.codes \subseteq req[p].copy.codes \cup row.codes,
           ~Building(p)', \A c \in BackupCodes : Pending(p, c) => c \in excused'
    PROVE  FreshInv' /\ RetiredInv'
<1>1. \A q \in Requests \ {p} : /\ Building(q)' <=> Building(q)
                                /\ \A c : Pending(q, c)' <=> Pending(q, c)
  BY DEF Building, Pending
<1>2. \A c \in BackupCodes : Live(c)' => Live(c)
  BY DEF Live
<1>3. FreshInv'
  BY <1>1, <1>2 DEF FreshInv
<1>4. ASSUME NEW c \in retired' \ excused', Live(c)'
      PROVE  \E q \in Requests : Pending(q, c)'
  <2>1. c \in BackupCodes
    BY CodeTypes
  <2>2. PICK q \in Requests : Pending(q, c)
    BY <1>2, <1>4, <2>1 DEF RetiredInv
  <2>3. q # p
    BY <1>4, <2>1, <2>2
  <2> QED
    BY <1>1, <2>2, <2>3
<1>5. RetiredInv'
  BY <1>4 DEF RetiredInv, BackupCodeDies
<1> QED
  BY <1>3, <1>5

\* A write of the row that stores the codes of the writer's copy or of its
\* setup, and ends with no copy.
LEMMA WriteStep ==
    ASSUME TypeInv, FreshInv, RetiredInv, NEW p \in Requests,
           NEW r \in Rows \cup {NoRow}, NEW s \in Reqs,
           s.step \notin {"create", "write"}, s.copy = NoRow, WriteRow(p, r, s),
           setups' = setups, revived' = revived,
           \/ r.codes \subseteq req[p].copy.codes
           \/ Building(p) /\ \A c \in r.codes : c[1] = req[p].new
    PROVE  FreshInv' /\ RetiredInv'
<1>0. r.codes \subseteq BackupCodes /\ r.enabled \in BOOLEAN
  BY ConstantTypes DEF Rows
<1>1. /\ row' = r
      /\ \A q \in Requests :
            LET next == IF q = p THEN s ELSE req[q]
            IN  req'[q] = [next EXCEPT !.always = @ /\ r.enabled]
  BY WriteRowTypes
<1>2. req'[p].copy = NoRow /\ req'[p].step = s.step
  <2>1. req'[p] = [s EXCEPT !.always = @ /\ r.enabled]
    BY <1>1
  <2> QED
    BY <2>1 DEF Reqs
<1>3. ASSUME NEW q \in Requests \ {p}
      PROVE  /\ req'[q].copy = req[q].copy /\ req'[q].step = req[q].step
             /\ req'[q].op = req[q].op /\ req'[q].code = req[q].code
             /\ req'[q].new = req[q].new
  <2>1. req'[q] = [req[q] EXCEPT !.always = @ /\ r.enabled]
    BY <1>1
  <2> QED
    BY <2>1, CodeTypes DEF Reqs
<1>4. /\ ~Building(p)'
      /\ \A q \in Requests \ {p} : /\ Building(q)' <=> Building(q)
                                   /\ \A c : Pending(q, c)' <=> Pending(q, c)
  BY <1>2, <1>3 DEF Building, Pending
<1>5. /\ retired' = retired \cup (row.codes \ r.codes)
      /\ \A c \in retired' \ r.codes : HeldElsewhere(p, c) => c \in excused'
      /\ excused \subseteq excused'
  BY DEF WriteRow
<1>6. \A c \in BackupCodes : Live(c)' =>
          c \in r.codes \/ \E q \in Requests \ {p} : c \in req[q].copy.codes
  BY <1>1, <1>2, <1>3, ConstantTypes DEF Live
<1>7. ASSUME NEW c \in BackupCodes, Live(c)' \/ c \in retired'
      PROVE  /\ c[1] <= setups
             /\ \A q \in Requests \ {p} : Building(q) => c[1] # req[q].new
  <2>1. CASE Live(c) \/ c \in retired
    BY <2>1 DEF FreshInv
  <2>2. CASE ~Live(c) /\ c \notin retired
    <3>1. Building(p) /\ c[1] = req[p].new
      BY <1>5, <1>6, <1>7, <2>2 DEF Live
    <3> QED
      BY <3>1 DEF FreshInv
  <2> QED
    BY <2>1, <2>2
<1>8. FreshInv'
  BY <1>3, <1>4, <1>7 DEF FreshInv
<1>9. ASSUME NEW c \in retired' \ excused', Live(c)'
      PROVE  \E q \in Requests : Pending(q, c)'
  <2>1. c \in BackupCodes
    BY <1>5, CodeTypes
  <2>2. c \in r.codes
    <3>1. SUFFICES ASSUME c \notin r.codes PROVE FALSE
      OBVIOUS
    <3>2. ~HeldElsewhere(p, c)
      BY <1>5, <1>9, <3>1
    <3>3. PICK q \in Requests \ {p} : c \in req[q].copy.codes
      BY <1>6, <1>9, <2>1, <3>1
    <3>4. req[q].copy # NoRow
      BY <3>3, ConstantTypes
    <3> QED
      BY <3>2, <3>3, <3>4 DEF HeldElsewhere
  <2>3. c \in retired \ excused
    BY <1>5, <1>9, <2>2
  <2>4. c \in req[p].copy.codes
    BY <2>1, <2>2, <2>3 DEF FreshInv
  <2>5. PICK q \in Requests : Pending(q, c)
    BY <2>3, <2>4 DEF RetiredInv, Live
  <2>6. q # p
    BY <2>4, <2>5 DEF Pending
  <2> QED
    BY <1>4, <2>5, <2>6
<1>10. RetiredInv'
  BY <1>9 DEF RetiredInv, BackupCodeDies
<1> QED
  BY <1>8, <1>10

\* A backup code is accepted: no other request has accepted it unnoticed.
LEMMA BackupStep ==
    ASSUME TypeInv, FreshInv, RetiredInv, NEW p \in Requests,
           VerifyBackupCode(p), req[p].op \notin {"setup", "verify"}
    PROVE  FreshInv' /\ RetiredInv'
<1>0. PICK c : c = req[p].code.code
  OBVIOUS
<1> DEFINE s == [req[p] EXCEPT !.step = "write", !.copy = [row EXCEPT !.codes = @ \ {c}]]
<1>1. row \in Rows
  BY ConstantTypes DEF VerifyBackupCode, TypeInv, TypeOK
<1>2. req[p] \in Reqs
  BY CodeTypes
<1>3. /\ s.step = "write" /\ s.op = req[p].op /\ s.code = req[p].code
      /\ s.copy.codes = row.codes \ {c} /\ s.copy.secret = row.secret
  BY <1>0, <1>1, <1>2 DEF Reqs, Rows
<1>4. s.copy # NoRow
  BY <1>1, <1>3, ConstantTypes, SecondFactorAssumption DEF Rows, Secrets
<1>5. /\ req' = [req EXCEPT ![p] = s] /\ row' = row /\ setups' = setups
      /\ c \in row.codes /\ req[p].step = "code"
      /\ retired' = retired \cup {c}
      /\ excused' = IF HeldElsewhere(p, c) THEN excused \cup {c} ELSE excused
      /\ revived' = IF c \in retired \ excused' THEN revived \cup {c} ELSE revived
  BY <1>0 DEF VerifyBackupCode, Become
<1> HIDE DEF s
<1>6. \A q \in Requests : req'[q] = IF q = p THEN s ELSE req[q]
  BY <1>5 DEF TypeInv, TypeOK
<1>7. /\ ~Building(p)' /\ Pending(p, c)' /\ \A d : ~Pending(p, d)
      /\ \A q \in Requests \ {p} : /\ Building(q)' <=> Building(q)
                                   /\ \A d : Pending(q, d)' <=> Pending(q, d)
  BY <1>0, <1>3, <1>4, <1>5, <1>6 DEF Building, Pending
<1>8. Live(c) /\ \A d \in BackupCodes : Live(d)' => Live(d)
  BY <1>3, <1>5, <1>6 DEF Live
<1>9. c \in BackupCodes
  BY <1>5, CodeTypes
<1>10. FreshInv'
  BY <1>5, <1>6, <1>7, <1>8, <1>9 DEF FreshInv
<1>11. revived' = revived
  <2>1. SUFFICES ASSUME c \in retired \ excused' PROVE FALSE
    BY <1>5
  <2>2. ~HeldElsewhere(p, c) /\ c \notin excused
    BY <1>5, <2>1
  <2>3. PICK q \in Requests : Pending(q, c)
    BY <1>8, <2>1, <2>2 DEF RetiredInv
  <2>4. q # p
    BY <1>7, <2>3
  <2>5. req[q].copy # NoRow /\ req[q].code.code = c
    BY <2>3 DEF Pending
  <2> QED
    BY <2>2, <2>4, <2>5 DEF HeldElsewhere
<1>12. ASSUME NEW d \in retired' \ excused', Live(d)'
       PROVE  \E q \in Requests : Pending(q, d)'
  <2>1. CASE d = c
    BY <1>7, <2>1
  <2>2. CASE d # c
    <3>1. d \in retired \ excused /\ d \in BackupCodes
      BY <1>5, <1>12, <2>2, CodeTypes
    <3>2. PICK q \in Requests : Pending(q, d)
      BY <1>8, <1>12, <3>1 DEF RetiredInv
    <3>3. q # p
      BY <1>7, <3>2
    <3> QED
      BY <1>7, <3>2, <3>3
  <2> QED
    BY <2>1, <2>2
<1>13. RetiredInv'
  BY <1>11, <1>12 DEF RetiredInv, BackupCodeDies
<1> QED
  BY <1>10, <1>13

\* A setup generates the codes of the next secret.
LEMMA GenerateStep ==
    ASSUME TypeInv, FreshInv, RetiredInv, NEW p \in Requests, GenerateSecret(p)
    PROVE  FreshInv' /\ RetiredInv'
<1> DEFINE s == [req[p] EXCEPT !.step = IF row = NoRow THEN "create" ELSE "write",
                               !.new = setups + 1]
<1>1. req[p] \in Reqs /\ setups \in Nat /\ \A q \in Requests : req[q].new \in Nat
  BY CodeTypes, SecondFactorAssumption
<1>2. s.copy = req[p].copy /\ s.new = setups + 1
  BY <1>1 DEF Reqs
<1>3. /\ req' = [req EXCEPT ![p] = s] /\ row' = row /\ setups' = setups + 1
      /\ req[p].step = "read" /\ UNCHANGED <<retired, excused, revived>>
      /\ req[p].op = "setup"
  BY DEF GenerateSecret, Become, codeVars
<1>4. s.op = "setup"
  BY <1>1, <1>3 DEF Reqs
<1> HIDE DEF s
<1>5. \A q \in Requests : req'[q] = IF q = p THEN s ELSE req[q]
  BY <1>3 DEF TypeInv, TypeOK
<1>6. /\ \A d : ~Pending(p, d) /\ ~Pending(p, d)'
      /\ \A q \in Requests \ {p} : /\ Building(q)' <=> Building(q)
                                   /\ \A d : Pending(q, d)' <=> Pending(q, d)
  BY <1>3, <1>4, <1>5 DEF Building, Pending
<1>7. \A d : Live(d)' <=> Live(d)
  BY <1>2, <1>3, <1>5 DEF Live
<1>8. \A c \in BackupCodes : c[1] \in Nat
  BY CodeTypes DEF Secrets
<1>9. FreshInv'
  <2>1. ASSUME NEW c \in BackupCodes, Live(c)' \/ c \in retired'
        PROVE  /\ c[1] <= setups'
               /\ \A q \in Requests : Building(q)' => c[1] # req'[q].new
    <3>1. c[1] <= setups /\ \A q \in Requests : Building(q) => c[1] # req[q].new
      BY <1>3, <1>7, <2>1 DEF FreshInv
    <3> QED
      BY <1>1, <1>2, <1>3, <1>5, <1>6, <1>8, <3>1
  <2>2. ASSUME NEW q \in Requests, Building(q)'
        PROVE  /\ req'[q].new <= setups'
               /\ \A x \in Requests \ {q} : Building(x)' => req'[x].new # req'[q].new
    <3>1. \A x \in Requests \ {p} : Building(x)' => req[x].new <= setups
      BY <1>6 DEF FreshInv
    <3> QED
      BY <1>1, <1>2, <1>3, <1>5, <1>6, <2>2, <3>1 DEF FreshInv
  <2> QED
    BY <2>1, <2>2 DEF FreshInv
<1>10. RetiredInv'
  BY <1>3, <1>6, <1>7 DEF RetiredInv, BackupCodeDies
<1> QED
  BY <1>9, <1>10

LEMMA StepCodeOp == TypeInv /\ CodeOpInv /\ [Next]_vars => CodeOpInv'
<1> SUFFICES ASSUME TypeInv, CodeOpInv, [Next]_vars
             PROVE  CodeOpInv'
  OBVIOUS
<1>0. \A p \in Requests : req[p] \in Reqs
  BY CodeTypes
<1>1. CASE UNCHANGED req
  BY <1>1 DEF CodeOpInv
<1>2. ASSUME NEW p \in Requests, \A q \in Requests \ {p} : req'[q] = req[q],
             \/ req'[p].step \notin {"get", "del", "code"}
             \/ req'[p].op \notin {"setup", "verify"}
      PROVE  CodeOpInv'
  BY <1>2 DEF CodeOpInv
<1>3. ASSUME NEW p \in Requests, NEW s, Become(p, s),
             s.step \notin {"get", "del", "code"} \/ s.op \notin {"setup", "verify"}
      PROVE  CodeOpInv'
  BY <1>2, <1>3 DEF Become, TypeInv, TypeOK
<1>4. ASSUME NEW p \in Requests, NEW r \in Rows \cup {NoRow}, NEW s \in Reqs,
             s.step \notin {"create", "write", "get", "del", "code"},
             WriteRow(p, r, s)
      PROVE  CodeOpInv'
  <2>1. \A q \in Requests :
            LET next == IF q = p THEN s ELSE req[q]
            IN  req'[q] = [next EXCEPT !.always = @ /\ r.enabled]
    BY <1>4, WriteRowTypes
  <2>2. req'[p].step = s.step
    <3>1. req'[p] = [s EXCEPT !.always = @ /\ r.enabled]
      BY <2>1
    <3> QED
      BY <3>1 DEF Reqs
  <2>3. ASSUME NEW q \in Requests \ {p}
        PROVE  req'[q].step = req[q].step /\ req'[q].op = req[q].op
    <3>1. req'[q] = [req[q] EXCEPT !.always = @ /\ r.enabled]
      BY <2>1
    <3> QED
      BY <1>0, <3>1 DEF Reqs
  <2> QED
    BY <1>4, <2>2, <2>3 DEF CodeOpInv
<1>5. ASSUME NEW p \in Requests, Begin(p)
      PROVE  CodeOpInv'
  BY <1>2, <1>5, BeginStarts DEF Started
<1>6. ASSUME NEW p \in Requests, CheckEnabled(p)
      PROVE  CodeOpInv'
  <2>1. PICK s : /\ Become(p, s) /\ req[p].op = "login"
                 /\ \/ s = Done(p) \/ s = Idle
                    \/ s = [req[p] EXCEPT !.step = "code"]
    BY <1>6 DEF CheckEnabled, GenerateTempToken
  <2>2. [req[p] EXCEPT !.step = "code"].op = req[p].op
    BY <1>0 DEF Reqs
  <2>3. Done(p).step = "done" /\ Idle.step = "idle"
    BY SelfTypes, ConstantTypes DEF TypeInv
  <2> QED
    BY <1>3, <2>1, <2>2, <2>3
<1>7. ASSUME NEW p \in Requests, EnabledUnknown(p)
      PROVE  CodeOpInv'
  <2>1. [Done(p) EXCEPT !.failed = TRUE].step = "done"
    BY SelfTypes DEF Reqs, TypeInv
  <2> QED
    BY <1>3, <1>7, <2>1 DEF EnabledUnknown
<1>8. ASSUME NEW p \in Requests,
             GenerateSecret(p) \/ VerifySetup(p) \/ VerifyBackupCode(p)
      PROVE  CodeOpInv'
  <2>1. ASSUME NEW x
        PROVE  [req[p] EXCEPT !.step = "write", !.copy = x].step = "write"
    BY <1>0 DEF Reqs
  <2>2. ASSUME NEW x \in {"create", "write"}, NEW n
        PROVE  [req[p] EXCEPT !.step = x, !.new = n].step = x
    BY <1>0 DEF Reqs
  <2>3. CASE GenerateSecret(p)
    BY <1>3, <2>2, <2>3 DEF GenerateSecret
  <2>4. CASE VerifySetup(p) \/ VerifyBackupCode(p)
    BY <1>3, <2>1, <2>4 DEF VerifySetup, VerifyBackupCode
  <2> QED
    BY <1>8, <2>3, <2>4
<1>9. ASSUME NEW p \in Requests, VerifyTotp(p) \/ UpdateFails(p)
      PROVE  CodeOpInv'
  BY <1>3, <1>9, SelfTypes DEF VerifyTotp, UpdateFails, TypeInv
<1>10. ASSUME NEW p \in Requests, CreateSecret(p)
       PROVE  CodeOpInv'
  <2> DEFINE r == [secret |-> req[p].new, enabled |-> FALSE,
                   codes |-> CodesOf(req[p].new)]
  <2>1. r \in Rows
    BY <1>10 DEF CreateSecret, TypeInv, RequestInv, RequestOK, Rows, CodesOf
  <2>2. WriteRow(p, r, Idle)
    BY <1>10 DEF CreateSecret
  <2> HIDE DEF r
  <2> QED
    BY <1>4, <2>1, <2>2, ConstantTypes
<1>11. ASSUME NEW p \in Requests, UpdateSetup(p)
       PROVE  CodeOpInv'
  <2>1. Updated(FALSE, CodesOf(req[p].new)) \in Rows \cup {NoRow}
    BY UpdatedType DEF CodesOf, TypeInv
  <2> QED
    BY <1>4, <1>11, <2>1, ConstantTypes DEF UpdateSetup
<1>12. ASSUME NEW p \in Requests, UpdateCopy(p)
       PROVE  CodeOpInv'
  <2> DEFINE r == Updated(req[p].copy.enabled, req[p].copy.codes)
             s == IF req[p].op = "verify" THEN Idle ELSE Accepted(p)
  <2>1. r \in Rows \cup {NoRow}
    BY <1>0, ConstantTypes, UpdatedType DEF Reqs, Rows, TypeInv
  <2>2. s \in Reqs /\ s.step \in {"idle", "delete", "done"}
    BY ConstantTypes, SelfTypes DEF TypeInv
  <2>3. WriteRow(p, r, s)
    BY <1>12 DEF UpdateCopy
  <2> HIDE DEF r, s
  <2> QED
    BY <1>4, <2>1, <2>2, <2>3
<1>13. ASSUME NEW p \in Requests, DeleteSecret(p)
       PROVE  CodeOpInv'
  BY <1>4, <1>13, ConstantTypes DEF DeleteSecret
<1>14. ASSUME NEW p \in Requests,
              GetTempToken(p) \/ DeleteTempToken(p) \/ DeleteTempTokenFails(p)
       PROVE  CodeOpInv'
  <2>1. PICK s : /\ Become(p, s) /\ req[p].step \in {"get", "del"}
                 /\ \/ s = [req[p] EXCEPT !.step = "del"]
                    \/ s = [req[p] EXCEPT !.step = "code", !.token = ""]
    BY <1>14 DEF GetTempToken, DeleteTempToken, DeleteTempTokenFails
  <2>2. s.op = req[p].op
    BY <1>0, <2>1 DEF Reqs
  <2> QED
    BY <1>3, <2>1, <2>2 DEF CodeOpInv
<1>15. ASSUME NEW p \in Requests, Return(p)
       PROVE  CodeOpInv'
  BY <1>3, <1>15, ConstantTypes DEF Return
<1>16. CASE UNCHANGED vars \/ \E t \in TempTokens : TempTokenExpires(t)
  BY <1>1, <1>16 DEF vars, TempTokenExpires
<1> QED
  BY <1>5, <1>6, <1>7, <1>8, <1>9, <1>10, <1>11, <1>12, <1>13, <1>14, <1>15,
     <1>16 DEF Next, Begin

LEMMA StepRetired ==
    TypeInv /\ CodeOpInv /\ FreshInv /\ RetiredInv /\ [Next]_vars
        => FreshInv' /\ RetiredInv'
<1> SUFFICES ASSUME TypeInv, CodeOpInv, FreshInv, RetiredInv, [Next]_vars
             PROVE  FreshInv' /\ RetiredInv'
  OBVIOUS
<1> USE DEF codeVars
<1>0. \A p \in Requests : req[p] \in Reqs
  BY CodeTypes
<1>1. CASE UNCHANGED <<row, setups, req, codeVars, revived>>
  BY <1>1 DEF FreshInv, RetiredInv, Live, Building, Pending, BackupCodeDies
<1>2. ASSUME NEW p \in Requests, NEW s, Become(p, s),
             UNCHANGED <<row, setups, retired, revived>>, excused \subseteq excused',
             s.copy.codes \subseteq req[p].copy.codes \cup row.codes,
             s.step # "create", s.step = "write" => s.op # "setup",
             (req[p].step = "write" /\ req[p].op \notin {"setup", "verify"})
                 => req[p].code.code \in excused'
      PROVE  FreshInv' /\ RetiredInv'
  <2>1. \A q \in Requests : req'[q] = IF q = p THEN s ELSE req[q]
    BY <1>2 DEF Become, TypeInv, TypeOK
  <2>2. ~Building(p)' /\ \A c \in BackupCodes : Pending(p, c) => c \in excused'
    BY <1>2, <2>1 DEF Building, Pending
  <2> QED
    BY <1>2, <2>1, <2>2, QuietStep
<1>3. ASSUME NEW p \in Requests, Begin(p)
      PROVE  FreshInv' /\ RetiredInv'
  <2>1. Started(p)
    BY <1>3, BeginStarts
  <2>2. ~Building(p)' /\ \A c : ~Pending(p, c)
    BY <2>1 DEF Started, Building, Pending
  <2> QED
    BY <2>1, <2>2, QuietStep, ConstantTypes DEF Started
<1>4. ASSUME NEW p \in Requests, CheckEnabled(p)
      PROVE  FreshInv' /\ RetiredInv'
  <2>1. PICK s : /\ Become(p, s) /\ req[p].step = "read"
                 /\ UNCHANGED <<row, setups, codeVars, revived>>
                 /\ \/ s = Done(p) \/ s = Idle
                    \/ s = [req[p] EXCEPT !.step = "code"]
    BY <1>4 DEF CheckEnabled, GenerateTempToken
  <2>2. /\ [req[p] EXCEPT !.step = "code"].copy = req[p].copy
        /\ [req[p] EXCEPT !.step = "code"].step = "code"
    BY <1>0 DEF Reqs
  <2>3. /\ Done(p).step = "done" /\ Idle.step = "idle"
        /\ Done(p).copy = NoRow /\ Idle.copy = NoRow
    BY SelfTypes, ConstantTypes DEF TypeInv
  <2>4. s.copy \in {NoRow, req[p].copy} /\ s.step \in {"done", "idle", "code"}
    BY <2>1, <2>2, <2>3
  <2>5. s.copy.codes \subseteq req[p].copy.codes
    BY <2>4, ConstantTypes
  <2> QED
    BY <1>2, <2>1, <2>4, <2>5
<1>5. ASSUME NEW p \in Requests, EnabledUnknown(p)
      PROVE  FreshInv' /\ RetiredInv'
  <2> DEFINE s == [Done(p) EXCEPT !.failed = TRUE]
  <2>1. s.step = "done" /\ s.copy = NoRow
    BY SelfTypes DEF Reqs, TypeInv
  <2>2. /\ Become(p, s) /\ req[p].step = "read"
        /\ UNCHANGED <<row, setups, codeVars, revived>>
    BY <1>5 DEF EnabledUnknown
  <2> HIDE DEF s
  <2> QED
    BY <1>2, <2>1, <2>2, ConstantTypes
<1>6. ASSUME NEW p \in Requests, GenerateSecret(p)
      PROVE  FreshInv' /\ RetiredInv'
  BY <1>6, GenerateStep
<1>7. ASSUME NEW p \in Requests, VerifySetup(p)
      PROVE  FreshInv' /\ RetiredInv'
  <2> DEFINE s == [req[p] EXCEPT !.step = "write",
                                 !.copy = [row EXCEPT !.enabled = TRUE]]
  <2>1. row \in Rows /\ req[p].op = "verify" /\ req[p].step = "read"
    BY <1>7 DEF VerifySetup, TypeInv, TypeOK
  <2>2. s.copy.codes = row.codes /\ s.step = "write" /\ s.op = "verify"
    BY <1>0, <2>1 DEF Reqs, Rows
  <2>3. Become(p, s) /\ UNCHANGED <<row, setups, codeVars, revived>>
    BY <1>7 DEF VerifySetup
  <2> HIDE DEF s
  <2> QED
    BY <1>2, <2>1, <2>2, <2>3
<1>8. ASSUME NEW p \in Requests, VerifyTotp(p) \/ UpdateFails(p)
      PROVE  FreshInv' /\ RetiredInv'
  <2>1. /\ Become(p, Accepted(p)) /\ UNCHANGED <<row, setups, retired, revived>>
        /\ excused \subseteq excused'
        /\ req[p].step = "code" \/ req[p].code.code \in excused'
    BY <1>8 DEF VerifyTotp, UpdateFails
  <2>2. Accepted(p).copy = NoRow /\ Accepted(p).step \in {"delete", "done"}
    BY SelfTypes DEF TypeInv
  <2> QED
    BY <1>2, <2>1, <2>2, ConstantTypes
<1>9. ASSUME NEW p \in Requests, VerifyBackupCode(p)
      PROVE  FreshInv' /\ RetiredInv'
  BY <1>9, BackupStep DEF VerifyBackupCode, CodeOpInv
<1>10. ASSUME NEW p \in Requests, CreateSecret(p)
       PROVE  FreshInv' /\ RetiredInv'
  <2> DEFINE r == [secret |-> req[p].new, enabled |-> FALSE,
                   codes |-> CodesOf(req[p].new)]
  <2>1. r \in Rows
    BY <1>10 DEF CreateSecret, TypeInv, RequestInv, RequestOK, Rows, CodesOf
  <2>2. /\ WriteRow(p, r, Idle) /\ setups' = setups /\ revived' = revived
        /\ Building(p)
    BY <1>10 DEF CreateSecret, Building
  <2>3. \A c \in r.codes : c[1] = req[p].new
    BY DEF CodesOf
  <2> HIDE DEF r
  <2> QED
    BY <2>1, <2>2, <2>3, WriteStep, ConstantTypes
<1>11. ASSUME NEW p \in Requests, UpdateSetup(p)
       PROVE  FreshInv' /\ RetiredInv'
  <2> DEFINE r == Updated(FALSE, CodesOf(req[p].new))
  <2>1. r \in Rows \cup {NoRow}
    BY UpdatedType DEF CodesOf, TypeInv
  <2>2. /\ WriteRow(p, r, Idle) /\ setups' = setups /\ revived' = revived
        /\ Building(p)
    BY <1>11 DEF UpdateSetup, Building
  <2>3. r.codes \in {{}, CodesOf(req[p].new)}
    BY ConstantTypes DEF Updated, TypeInv, TypeOK, Rows
  <2>4. \A c \in r.codes : c[1] = req[p].new
    BY <2>3 DEF CodesOf
  <2> HIDE DEF r
  <2> QED
    BY <2>1, <2>2, <2>4, WriteStep, ConstantTypes
<1>12. ASSUME NEW p \in Requests, UpdateCopy(p)
       PROVE  FreshInv' /\ RetiredInv'
  <2> DEFINE r == Updated(req[p].copy.enabled, req[p].copy.codes)
             s == IF req[p].op = "verify" THEN Idle ELSE Accepted(p)
  <2>1. r \in Rows \cup {NoRow}
    BY <1>0, ConstantTypes, UpdatedType DEF Reqs, Rows, TypeInv
  <2>2. s \in Reqs /\ s.step \in {"idle", "delete", "done"} /\ s.copy = NoRow
    BY ConstantTypes, SelfTypes DEF TypeInv
  <2>3. WriteRow(p, r, s) /\ setups' = setups /\ revived' = revived
    BY <1>12 DEF UpdateCopy
  <2>4. r.codes \subseteq req[p].copy.codes
    BY ConstantTypes DEF Updated, TypeInv, TypeOK, Rows
  <2> HIDE DEF r, s
  <2> QED
    BY <2>1, <2>2, <2>3, <2>4, WriteStep
<1>13. ASSUME NEW p \in Requests, DeleteSecret(p)
       PROVE  FreshInv' /\ RetiredInv'
  BY <1>13, WriteStep, ConstantTypes DEF DeleteSecret
<1>14. ASSUME NEW p \in Requests,
              GetTempToken(p) \/ DeleteTempToken(p) \/ DeleteTempTokenFails(p)
       PROVE  FreshInv' /\ RetiredInv'
  <2>1. PICK s : /\ Become(p, s) /\ req[p].step \in {"get", "del"}
                 /\ UNCHANGED <<row, setups, codeVars, revived>>
                 /\ \/ s = [req[p] EXCEPT !.step = "del"]
                    \/ s = [req[p] EXCEPT !.step = "code", !.token = ""]
    BY <1>14 DEF GetTempToken, DeleteTempToken, DeleteTempTokenFails
  <2>2. s.copy = req[p].copy /\ s.step \in {"del", "code"}
    BY <1>0, <2>1 DEF Reqs
  <2> QED
    BY <1>2, <2>1, <2>2
<1>15. ASSUME NEW p \in Requests, Return(p)
       PROVE  FreshInv' /\ RetiredInv'
  BY <1>2, <1>15, ConstantTypes DEF Return
<1>16. CASE UNCHANGED vars \/ \E t \in TempTokens : TempTokenExpires(t)
  BY <1>1, <1>16 DEF vars, TempTokenExpires
<1> QED
  BY <1>3, <1>4, <1>5, <1>6, <1>7, <1>8, <1>9, <1>10, <1>11, <1>12, <1>13,
     <1>14, <1>15, <1>16 DEF Next, Begin

\* A backup code that was used, replaced by a new setup or deleted is never
\* accepted again without an excuse: two logins with the same code, a setup or
\* a removal in between, a failed UPDATE are all accounted for.
THEOREM BackupCorrect == Spec => []BackupCodeDies
<1>1. Init => TypeInv /\ CodeOpInv /\ FreshInv /\ RetiredInv
  <2> SUFFICES ASSUME Init
               PROVE  TypeInv /\ CodeOpInv /\ FreshInv /\ RetiredInv
    OBVIOUS
  <2>1. \A p \in Requests : req[p].step = "idle" /\ req[p].copy = NoRow
    BY ConstantTypes DEF Init
  <2>2. (\A c : ~Live(c)) /\ retired = {} /\ revived = {}
    BY <2>1, ConstantTypes DEF Init, Live
  <2> QED
    BY <2>1, <2>2, InitTypes
    DEF CodeOpInv, FreshInv, RetiredInv, Building, BackupCodeDies
<1>2. TypeInv /\ CodeOpInv /\ FreshInv /\ RetiredInv /\ [Next]_vars
        => TypeInv' /\ CodeOpInv' /\ FreshInv' /\ RetiredInv'
  BY StepTypes, StepCodeOp, StepRetired
<1>3. RetiredInv => BackupCodeDies
  BY DEF RetiredInv
<1> QED
  BY <1>1, <1>2, <1>3, PTL DEF Spec

=============================================================================
