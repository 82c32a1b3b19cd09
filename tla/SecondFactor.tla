---------------------------- MODULE SecondFactor ----------------------------
(***************************************************************************)
(* The TOTP second factor of one user: the totp_secrets row, the temporary *)
(* tokens between the two steps of a login, and the requests that set up,  *)
(* verify, use and disable it (totp_service.go, totp_repo.go and the login *)
(* and 2FA handlers).                                                      *)
(*                                                                         *)
(* Each request is a sequence of separate SQL statements and Redis         *)
(* commands.  A request that is about to write the row writes back the     *)
(* copy it read: nothing locks the row in between.                         *)
(*                                                                         *)
(* The n-th setup generates secret n and the backup codes <<n, k>>.  A     *)
(* TOTP code is named by the secret it is computed from; the clock and the *)
(* code's window are left out, as a code may be used again within it.      *)
(***************************************************************************)
EXTENDS Naturals

CONSTANTS
    Requests,       \* requests that can be in progress together
    TempTokens,     \* temporary tokens, each generated once
    MaxSetups,      \* bound: calls of GenerateSecret
    CodesPerSetup   \* bound: backup codes of a setup (eight in the code)

ASSUME SecondFactorAssumption ==
    /\ MaxSetups \in Nat
    /\ CodesPerSetup \in Nat

VARIABLES
    row,            \* the totp_secrets row
    setups,         \* secrets generated so far
    temp,           \* temp[t]: the key 2fa_temp:<t>
    req,            \* req[p]: request p
    shown,          \* history: the secret the last finished setup displayed
    verified,       \* history: secrets a code of which passed VerifySetup
    crossed,        \* history: secrets stored while a copy of an older row was held
    retired,        \* history: backup codes that were used, replaced or deleted
    excused,        \* history: retired codes that a copy or a lost UPDATE kept
    revived,        \* history: retired codes accepted without such an excuse
    use             \* history: use[t]: how often t passed ValidateTempToken

codeVars == <<retired, excused>>
vars == <<row, setups, temp, req, shown, verified, crossed, codeVars, revived, use>>

Secrets == 1 .. MaxSetups

BackupCodes == Secrets \X (1 .. CodesPerSetup)

\* generateBackupCodes.
CodesOf(n) == {c \in BackupCodes : c[1] = n}

NoRow == [secret |-> 0, enabled |-> FALSE, codes |-> {}]

Rows == [secret : Secrets, enabled : BOOLEAN, codes : SUBSET BackupCodes]

\* What a client can type: nothing, a TOTP code or a backup code.
NoCode == [kind |-> "none", secret |-> 0, code |-> <<0, 0>>]

Totp(n) == [kind |-> "totp", secret |-> n, code |-> <<0, 0>>]

Backup(c) == [kind |-> "backup", secret |-> 0, code |-> c]

Typed == {NoCode} \cup {Totp(n) : n \in Secrets} \cup {Backup(c) : c \in BackupCodes}

Idle == [op |-> "none", step |-> "idle", code |-> NoCode, token |-> "",
         copy |-> NoRow, new |-> 0, proved |-> FALSE, failed |-> FALSE,
         always |-> FALSE]

Reqs == [op : {"none", "setup", "verify", "login", "temp", "disable"},
         step : {"idle", "read", "get", "del", "code", "create", "write",
                 "delete", "done"},
         code : Typed, token : TempTokens \cup {""}, copy : Rows \cup {NoRow},
         new : 0 .. MaxSetups, proved : BOOLEAN, failed : BOOLEAN,
         always : BOOLEAN]

TypeOK ==
    /\ row \in Rows \cup {NoRow}
    /\ setups \in 0 .. MaxSetups
    /\ temp \in [TempTokens -> {"unused", "stored", "gone"}]
    /\ req \in [Requests -> Reqs]
    /\ shown \in 0 .. MaxSetups
    /\ verified \subseteq Secrets
    /\ crossed \subseteq Secrets
    /\ retired \subseteq BackupCodes
    /\ excused \subseteq BackupCodes
    /\ revived \subseteq BackupCodes
    /\ use \in [TempTokens -> {"never", "once", "again", "excused"}]

Init ==
    /\ row = NoRow
    /\ setups = 0
    /\ temp = [t \in TempTokens |-> "unused"]
    /\ req = [p \in Requests |-> Idle]
    /\ shown = 0
    /\ verified = {}
    /\ crossed = {}
    /\ retired = {}
    /\ excused = {}
    /\ revived = {}
    /\ use = [t \in TempTokens |-> "never"]

-----------------------------------------------------------------------------
(* Requests.                                                               *)

Start(p, op, step, code, token) ==
    /\ req[p].step = "idle"
    /\ req' = [req EXCEPT ![p] = [Idle EXCEPT !.op = op, !.step = step,
                                              !.code = code, !.token = token,
                                              !.always = row.enabled]]
    /\ UNCHANGED <<row, setups, temp, shown, verified, crossed, codeVars,
                   revived, use>>

\* POST /auth/2fa/setup.
Setup(p) == setups < MaxSetups /\ Start(p, "setup", "read", NoCode, "")

\* POST /auth/2fa/verify with a code of a secret that was displayed.
Verify(p, n) == n <= setups /\ Start(p, "verify", "read", Totp(n), "")

\* A code the client can know.
Known(code) == code.secret <= setups /\ code.code[1] <= setups

\* POST /auth/login; LoginWithUser has accepted the password.
Login(p, code) == Known(code) /\ Start(p, "login", "read", code, "")

\* POST /auth/login with the temporary token and a code.
VerifyTotpLogin(p, t, code) ==
    /\ temp[t] # "unused"
    /\ code # NoCode
    /\ Known(code)
    /\ Start(p, "temp", "get", code, t)

\* DELETE /auth/2fa; the code is optional.
Disable(p, code) ==
    /\ Known(code)
    /\ Start(p, "disable", IF code = NoCode THEN "delete" ELSE "code", code, "")

Become(p, r) == req' = [req EXCEPT ![p] = r]

\* Tokens are handed out.
Done(p) == [req[p] EXCEPT !.step = "done", !.copy = NoRow]

\* What follows an accepted code.
Accepted(p) == IF req[p].op = "disable" THEN [Idle EXCEPT !.op = "disable", !.step = "delete"]
               ELSE [Done(p) EXCEPT !.proved = TRUE]

-----------------------------------------------------------------------------
(* Reads of the row.                                                       *)

\* handleTOTPRequirement without a code: GenerateTempToken.
GenerateTempToken(p) ==
    \E t \in TempTokens :
        /\ temp[t] = "unused"
        /\ temp' = [temp EXCEPT ![t] = "stored"]
        /\ Become(p, Idle)

\* Mutant of CheckEnabled: a code that comes with the password is not verified.
CheckEnabled_TrustsCode(p) ==
    /\ req[p].op = "login"
    /\ req[p].step = "read"
    /\ \/ (~row.enabled \/ req[p].code # NoCode) /\ Become(p, Done(p)) /\ UNCHANGED temp
       \/ row.enabled /\ req[p].code = NoCode /\ GenerateTempToken(p)
    /\ UNCHANGED <<row, setups, shown, verified, crossed, codeVars, revived, use>>

\* handleTOTPRequirement: IsEnabled decides whether a code is needed.
CheckEnabled(p) ==
    /\ req[p].op = "login"
    /\ req[p].step = "read"
    /\ \/ ~row.enabled /\ Become(p, Done(p)) /\ UNCHANGED temp
       \/ row.enabled /\ req[p].code = NoCode /\ GenerateTempToken(p)
       \/ /\ row.enabled /\ req[p].code # NoCode
          /\ Become(p, [req[p] EXCEPT !.step = "code"])
          /\ UNCHANGED temp
    /\ UNCHANGED <<row, setups, shown, verified, crossed, codeVars, revived, use>>

\* IsEnabled fails, which handleTOTPRequirement treats as "no second factor".
EnabledUnknown(p) ==
    /\ req[p].op = "login"
    /\ req[p].step = "read"
    /\ Become(p, [Done(p) EXCEPT !.failed = TRUE])
    /\ UNCHANGED <<row, setups, temp, shown, verified, crossed, codeVars,
                   revived, use>>

\* GenerateSecret: the existing row, and a new key with its backup codes.
GenerateSecret(p) ==
    /\ req[p].op = "setup"
    /\ req[p].step = "read"
    /\ setups < MaxSetups
    /\ setups' = setups + 1
    /\ Become(p, [req[p] EXCEPT !.step = IF row = NoRow THEN "create" ELSE "write",
                                !.new = setups + 1])
    /\ UNCHANGED <<row, temp, shown, verified, crossed, codeVars, revived, use>>

\* VerifySetup: totp.Validate(code, secret.Secret).
VerifySetup(p) ==
    /\ req[p].op = "verify"
    /\ req[p].step = "read"
    /\ row # NoRow
    /\ req[p].code.secret = row.secret
    /\ verified' = verified \cup {row.secret}
    /\ Become(p, [req[p] EXCEPT !.step = "write",
                                !.copy = [row EXCEPT !.enabled = TRUE]])
    /\ UNCHANGED <<row, setups, temp, shown, crossed, codeVars, revived, use>>

\* Another request read the row when the backup code c was in it, and has still
\* to write its copy back.
HeldElsewhere(p, c) ==
    \E q \in Requests \ {p} :
        req[q].copy # NoRow /\ c \in req[q].copy.codes \cup {req[q].code.code}

\* VerifyCode with a TOTP code.
VerifyTotp(p) ==
    /\ req[p].step = "code"
    /\ req[p].code.kind = "totp"
    /\ row.enabled
    /\ req[p].code.secret = row.secret
    /\ Become(p, Accepted(p))
    /\ UNCHANGED <<row, setups, temp, shown, verified, crossed, codeVars,
                   revived, use>>

\* Mutant of VerifyBackupCode: the used code is not removed from the list.
VerifyBackupCode_Keeps(p) ==
    LET c == req[p].code.code
    IN  /\ req[p].step = "code"
        /\ req[p].code.kind = "backup"
        /\ row.enabled
        /\ c \in row.codes
        /\ retired' = retired \cup {c}
        /\ excused' = IF HeldElsewhere(p, c) THEN excused \cup {c} ELSE excused
        /\ revived' = IF c \in retired \ excused' THEN revived \cup {c} ELSE revived
        /\ Become(p, [req[p] EXCEPT !.step = "write", !.copy = row])
        /\ UNCHANGED <<row, setups, temp, shown, verified, crossed, use>>

\* VerifyCode with a backup code: it is accepted, and taken off the copy.
VerifyBackupCode(p) ==
    LET c == req[p].code.code
    IN  /\ req[p].step = "code"
        /\ req[p].code.kind = "backup"
        /\ row.enabled
        /\ c \in row.codes
        /\ retired' = retired \cup {c}
        /\ excused' = IF HeldElsewhere(p, c) THEN excused \cup {c} ELSE excused
        /\ revived' = IF c \in retired \ excused' THEN revived \cup {c} ELSE revived
        /\ Become(p, [req[p] EXCEPT !.step = "write",
                                    !.copy = [row EXCEPT !.codes = @ \ {c}]])
        /\ UNCHANGED <<row, setups, temp, shown, verified, crossed, use>>

-----------------------------------------------------------------------------
(* Writes of the row.                                                      *)

\* The row becomes r by a statement of p; s is p's next state.  A request that
\* is running no longer counts as one during which the factor was on
\* throughout, if r turns it off.
WriteRow(p, r, s) ==
    LET gone == row.codes \ r.codes
    IN  /\ row' = r
        /\ retired' = retired \cup gone
        /\ excused' = excused \cup {c \in gone \cup (retired \ r.codes) :
                                        HeldElsewhere(p, c)}
        /\ req' = [q \in Requests |->
                      LET next == IF q = p THEN s ELSE req[q]
                      IN  [next EXCEPT !.always = @ /\ r.enabled]]

\* Mutant of CreateSecret: the row is enabled before a code was verified.
CreateSecret_Enabled(p) ==
    /\ req[p].step = "create"
    /\ row = NoRow
    /\ WriteRow(p, [secret |-> req[p].new, enabled |-> TRUE,
                    codes |-> CodesOf(req[p].new)], Idle)
    /\ crossed' = IF \E q \in Requests \ {p} : req[q].copy # NoRow
                  THEN crossed \cup {req[p].new} ELSE crossed
    /\ shown' = req[p].new
    /\ UNCHANGED <<setups, temp, verified, revived, use>>

\* INSERT INTO totp_secrets; user_id is UNIQUE.
CreateSecret(p) ==
    /\ req[p].step = "create"
    /\ row = NoRow
    /\ WriteRow(p, [secret |-> req[p].new, enabled |-> FALSE,
                    codes |-> CodesOf(req[p].new)], Idle)
    /\ crossed' = IF \E q \in Requests \ {p} : req[q].copy # NoRow
                  THEN crossed \cup {req[p].new} ELSE crossed
    /\ shown' = req[p].new
    /\ UNCHANGED <<setups, temp, verified, revived, use>>

\* UPDATE totp_secrets SET enabled, backup_codes WHERE user_id: the secret stays,
\* and no row is created if there is none.
Updated(enabled, codes) ==
    IF row = NoRow THEN NoRow
    ELSE [row EXCEPT !.enabled = enabled, !.codes = codes]

\* Update at the end of GenerateSecret: disabled, with the new backup codes.
UpdateSetup(p) ==
    /\ req[p].op = "setup"
    /\ req[p].step = "write"
    /\ WriteRow(p, Updated(FALSE, CodesOf(req[p].new)), Idle)
    /\ shown' = req[p].new
    /\ UNCHANGED <<setups, temp, verified, crossed, revived, use>>

\* Update at the end of VerifySetup or VerifyCode: the copy is written back.
UpdateCopy(p) ==
    /\ req[p].op # "setup"
    /\ req[p].step = "write"
    /\ WriteRow(p, Updated(req[p].copy.enabled, req[p].copy.codes),
                IF req[p].op = "verify" THEN Idle ELSE Accepted(p))
    /\ UNCHANGED <<setups, temp, shown, verified, crossed, revived, use>>

\* The Update of VerifyCode fails; "Best effort": the code is accepted anyway.
UpdateFails(p) ==
    /\ req[p].op \in {"login", "temp", "disable"}
    /\ req[p].step = "write"
    /\ excused' = excused \cup {req[p].code.code}
    /\ Become(p, Accepted(p))
    /\ UNCHANGED <<row, setups, temp, shown, verified, crossed, retired, revived,
                   use>>

\* DELETE FROM totp_secrets.
DeleteSecret(p) ==
    /\ req[p].step = "delete"
    /\ WriteRow(p, NoRow, Idle)
    /\ UNCHANGED <<setups, temp, shown, verified, crossed, revived, use>>

-----------------------------------------------------------------------------
(* ValidateTempToken.                                                      *)

\* One use more, unless the uses are not counted any more.
UsedAgain(n) ==
    CASE n = "never" -> "once" [] n = "excused" -> "excused" [] OTHER -> "again"

\* GET 2fa_temp:<token>.
GetTempToken(p) ==
    LET t == req[p].token
    IN  /\ req[p].step = "get"
        /\ temp[t] = "stored"
        /\ use' = [use EXCEPT ![t] =
                      IF \E q \in Requests : req[q].step = "del" /\ req[q].token = t
                      THEN "excused" ELSE UsedAgain(@)]
        /\ Become(p, [req[p] EXCEPT !.step = "del"])
        /\ UNCHANGED <<row, setups, temp, shown, verified, crossed, codeVars,
                       revived>>

\* Mutant of DeleteTempToken: the token is kept until it expires.
DeleteTempToken_Keeps(p) ==
    /\ req[p].step = "del"
    /\ Become(p, [req[p] EXCEPT !.step = "code", !.token = ""])
    /\ UNCHANGED <<row, setups, temp, shown, verified, crossed, codeVars,
                   revived, use>>

\* DEL of the key.
DeleteTempToken(p) ==
    /\ req[p].step = "del"
    /\ temp' = [temp EXCEPT ![req[p].token] = "gone"]
    /\ Become(p, [req[p] EXCEPT !.step = "code", !.token = ""])
    /\ UNCHANGED <<row, setups, shown, verified, crossed, codeVars, revived, use>>

\* DEL fails, which is ignored.
DeleteTempTokenFails(p) ==
    /\ req[p].step = "del"
    /\ use' = [use EXCEPT ![req[p].token] = "excused"]
    /\ Become(p, [req[p] EXCEPT !.step = "code", !.token = ""])
    /\ UNCHANGED <<row, setups, temp, shown, verified, crossed, codeVars, revived>>

\* Five minutes are over.
TempTokenExpires(t) ==
    /\ temp[t] = "stored"
    /\ temp' = [temp EXCEPT ![t] = "gone"]
    /\ UNCHANGED <<row, setups, req, shown, verified, crossed, codeVars, revived,
                   use>>

-----------------------------------------------------------------------------

\* The answer is sent, a condition is not met, a statement fails or the
\* process dies: the request ends with what it has done so far.
Return(p) ==
    /\ req[p].step # "idle"
    /\ excused' = IF req[p].step = "write" /\ req[p].op \notin {"setup", "verify"}
                  THEN excused \cup {req[p].code.code} ELSE excused
    /\ use' = IF req[p].step = "del" THEN [use EXCEPT ![req[p].token] = "excused"]
              ELSE use
    /\ Become(p, Idle)
    /\ UNCHANGED <<row, setups, temp, shown, verified, crossed, retired, revived>>

Next ==
    \/ \E p \in Requests :
          \/ Setup(p)
          \/ \E n \in Secrets : Verify(p, n)
          \/ \E code \in Typed : Login(p, code)
          \/ \E t \in TempTokens, code \in Typed : VerifyTotpLogin(p, t, code)
          \/ \E code \in Typed : Disable(p, code)
          \/ CheckEnabled(p)
          \/ EnabledUnknown(p)
          \/ GenerateSecret(p)
          \/ VerifySetup(p)
          \/ VerifyTotp(p)
          \/ VerifyBackupCode(p)
          \/ CreateSecret(p)
          \/ UpdateSetup(p)
          \/ UpdateCopy(p)
          \/ UpdateFails(p)
          \/ DeleteSecret(p)
          \/ GetTempToken(p)
          \/ DeleteTempToken(p)
          \/ DeleteTempTokenFails(p)
          \/ Return(p)
    \/ \E t \in TempTokens : TempTokenExpires(t)

Spec == Init /\ [][Next]_vars

-----------------------------------------------------------------------------
(* Properties.                                                             *)

\* Tokens are handed out without an accepted code only if the factor was off at
\* some moment of the request, or the database did not answer: no
\* interleaving of a login with setup, verification, use of a backup code and
\* disabling lets it slip past a factor that was on throughout.
FactorRequired ==
    \A p \in Requests :
        (req[p].step = "done" /\ req[p].always) => (req[p].proved \/ req[p].failed)

\* A backup code that was used, replaced by a new setup or deleted is never
\* accepted again, unless another request held a copy of the row with it when
\* it went, or the UPDATE that should have removed it was lost.
BackupCodeDies == revived = {}

\* The factor is on only for a secret whose code the user has shown, unless a
\* request still held a copy of an older row when the secret was stored.
EnabledWasVerified == row.enabled => row.secret \in verified \cup crossed

\* A temporary token passes ValidateTempToken once, unless two requests read it
\* before either deleted it or the deletion failed.
TempTokenUsedOnce == \A t \in TempTokens : use[t] # "again"

\* GenerateSecret "creates a new TOTP secret": what it displays is what is
\* stored when no request is running.
ShownIsStored ==
    ((\A p \in Requests : req[p] = Idle) /\ row # NoRow) => row.secret = shown

=============================================================================
