---------------------------- MODULE UserAccount -----------------------------
(***************************************************************************)
(* One row of the users table and the requests that read and write it:     *)
(* login, email verification, password reset and company context           *)
(* (auth_service.go, password_service.go, company_service.go over          *)
(* postgres/user_repo.go).                                                 *)
(*                                                                         *)
(* Every request reads the row into memory and writes it back with         *)
(* UserRepository.Update, with no lock between the two.  Update writes the *)
(* password, the reset token, the status and the verification token, never *)
(* the active company; the queries return different columns, and a column  *)
(* that is not read is the zero value in memory.                           *)
(***************************************************************************)
EXTENDS Naturals

CONSTANTS
    Requests,       \* HTTP requests that can be in progress together
    Passwords,      \* passwords
    Companies,      \* companies the user is an active member of
    None,           \* the empty string: no token, no company
    MaxTokens       \* bound: tokens ever generated for this account

Tokens == 1 .. MaxTokens

\* RegisterWithTenant generates the first token of the account.
RegistrationToken == 1

ASSUME AccountAssumption ==
    /\ MaxTokens \in Nat \ {0}
    /\ None \notin Tokens
    /\ None \notin Companies
    /\ None \notin Passwords

VARIABLES
    row,            \* the users row
    issued,         \* tokens generated so far
    expired,        \* tokens whose expiry time has passed
    mail,           \* tokens the user has received by email
    pc,             \* pc[r]: what request r does next
    mem,            \* mem[r]: the user entity request r holds
    arg,            \* arg[r]: the token request r presented
    sessions,       \* some login created a session
    verified,       \* history: VerifyEmail accepted the registration token
    lastPw,         \* history: password of the last successful reset
    used,           \* history: tokens some reset was completed with
    reused,         \* history: tokens two resets were completed with
    overlapped      \* history: a request started while another was running

vars == <<row, issued, expired, mail, pc, mem, arg, sessions, verified, lastPw,
          used, reused, overlapped>>

\* What only a few actions change.
history == <<verified, lastPw, used, reused>>

Statuses == {"pending", "active", ""}

Users == [pw : Passwords, reset : Tokens \cup {None}, status : Statuses,
          verif : Tokens \cup {None}, company : Companies \cup {None}]

\* A nil *user.User.
NoUser == [pw |-> None, reset |-> None, status |-> "", verif |-> None,
           company |-> None]

PcStates == {"idle", "createSession", "loginUpdate", "saveResetToken",
             "savePassword", "saveVerified", "saveCompany"}

TypeOK ==
    /\ row \in Users
    /\ issued \in Nat
    /\ expired \subseteq Tokens
    /\ mail \subseteq Tokens
    /\ pc \in [Requests -> PcStates]
    /\ mem \in [Requests -> Users \cup {NoUser}]
    /\ arg \in [Requests -> Tokens \cup {None}]
    /\ sessions \in BOOLEAN
    /\ verified \in BOOLEAN
    /\ lastPw \in Passwords
    /\ used \subseteq Tokens
    /\ reused \subseteq used
    /\ overlapped \in BOOLEAN

\* The row as RegisterWithTenant leaves it; its email may have been lost.
Init ==
    /\ \E pw \in Passwords :
          /\ row = [pw |-> pw, reset |-> None, status |-> "pending",
                    verif |-> RegistrationToken, company |-> None]
          /\ lastPw = pw
    /\ issued = RegistrationToken
    /\ expired = {}
    /\ mail \in SUBSET {RegistrationToken}
    /\ pc = [r \in Requests |-> "idle"]
    /\ mem = [r \in Requests |-> NoUser]
    /\ arg = [r \in Requests |-> None]
    /\ sessions = FALSE
    /\ verified = FALSE
    /\ used = {}
    /\ reused = {}
    /\ overlapped = FALSE

-----------------------------------------------------------------------------
(* UserRepository.                                                         *)

\* GetByEmail (a SECURITY DEFINER function) and GetByVerificationToken read
\* all columns but the active company.
FullRead == [row EXCEPT !.company = None]

\* scanUser, behind GetByID and GetByResetToken, reads neither the status nor
\* the verification token nor the active company.
ScanUser == [row EXCEPT !.status = "", !.verif = None, !.company = None]

\* UPDATE users SET ... WHERE id = $1.
Update(u) == row' = [u EXCEPT !.company = row.company]

\* Request r is over, whatever the answer, and its memory is gone.
Finish(r) ==
    /\ pc' = [pc EXCEPT ![r] = "idle"]
    /\ mem' = [mem EXCEPT ![r] = NoUser]
    /\ arg' = [arg EXCEPT ![r] = None]
    /\ UNCHANGED overlapped

\* Request r holds the entity u and the token t it was called with.
Hold(r, next, u, t) ==
    /\ pc' = [pc EXCEPT ![r] = next]
    /\ mem' = [mem EXCEPT ![r] = u]
    /\ arg' = [arg EXCEPT ![r] = t]
    /\ overlapped' = (overlapped \/ \E q \in Requests \ {r} : pc[q] # "idle")

-----------------------------------------------------------------------------
(* AuthService.LoginWithUser.                                              *)

\* Mutant of LoginRead: the status check is dropped.
LoginRead_AnyStatus(r, pw) ==
    /\ pc[r] = "idle"
    /\ pw = row.pw
    /\ Hold(r, "createSession", FullRead, None)
    /\ UNCHANGED <<row, issued, expired, mail, sessions, history>>

\* "invalid credentials", or the account is not active: nothing changes.
LoginRefused(r, pw) ==
    /\ pc[r] = "idle"
    /\ pw # row.pw \/ row.status # "active"
    /\ UNCHANGED vars

\* GetByEmail, the password and the status check out.
LoginRead(r, pw) ==
    /\ pc[r] = "idle"
    /\ pw = row.pw
    /\ row.status = "active"
    /\ Hold(r, "createSession", FullRead, None)
    /\ UNCHANGED <<row, issued, expired, mail, sessions, history>>

\* The token is generated and sessionRepo.Create succeeds.
CreateSession(r) ==
    /\ pc[r] = "createSession"
    /\ sessions' = TRUE
    /\ pc' = [pc EXCEPT ![r] = "loginUpdate"]
    /\ UNCHANGED <<row, issued, expired, mail, mem, arg, history,
                   overlapped>>

\* "Update user login stats": the entity read before is written back.
LoginUpdate(r) ==
    /\ pc[r] = "loginUpdate"
    /\ Update(mem[r])
    /\ Finish(r)
    /\ UNCHANGED <<issued, expired, mail, sessions, history>>

-----------------------------------------------------------------------------
(* PasswordService.                                                        *)

\* RequestReset: GetByEmail and a new token.
RequestReset(r) ==
    /\ pc[r] = "idle"
    /\ issued < MaxTokens
    /\ issued' = issued + 1
    /\ Hold(r, "saveResetToken", [FullRead EXCEPT !.reset = issued + 1], None)
    /\ UNCHANGED <<row, expired, mail, sessions, history>>

\* Update and then SendEmail; the email may be lost.
SaveResetToken(r) ==
    /\ pc[r] = "saveResetToken"
    /\ Update(mem[r])
    /\ mail' \in {mail, mail \cup {mem[r].reset}}
    /\ Finish(r)
    /\ UNCHANGED <<issued, expired, sessions, history>>

\* Mutant of ResetPassword: the token is not cleared.
ResetPassword_KeepsToken(r, t, pw) ==
    /\ pc[r] = "idle"
    /\ t \in mail
    /\ row.reset = t
    /\ t \notin expired
    /\ Hold(r, "savePassword", [ScanUser EXCEPT !.pw = pw], t)
    /\ UNCHANGED <<row, issued, expired, mail, sessions, history>>

\* ResetPassword: GetByResetToken, the expiry check, the new hash.
ResetPassword(r, t, pw) ==
    /\ pc[r] = "idle"
    /\ t \in mail
    /\ row.reset = t
    /\ t \notin expired
    /\ Hold(r, "savePassword", [ScanUser EXCEPT !.pw = pw, !.reset = None], t)
    /\ UNCHANGED <<row, issued, expired, mail, sessions, history>>

\* Mutant of SavePassword: only the token is written.
SavePassword_DropsHash(r) ==
    /\ pc[r] = "savePassword"
    /\ Update([mem[r] EXCEPT !.pw = row.pw])
    /\ lastPw' = mem[r].pw
    /\ used' = used \cup {arg[r]}
    /\ reused' = reused \cup ({arg[r]} \cap used)
    /\ Finish(r)
    /\ UNCHANGED <<issued, expired, mail, sessions, verified>>

SavePassword(r) ==
    /\ pc[r] = "savePassword"
    /\ Update(mem[r])
    /\ lastPw' = mem[r].pw
    /\ used' = used \cup {arg[r]}
    /\ reused' = reused \cup ({arg[r]} \cap used)
    /\ Finish(r)
    /\ UNCHANGED <<issued, expired, mail, sessions, verified>>

-----------------------------------------------------------------------------
(* AuthService.VerifyEmail.                                                *)

\* GetByVerificationToken, the expiry check, the new status.
VerifyEmail(r, t) ==
    /\ pc[r] = "idle"
    /\ t \in mail
    /\ row.verif = t
    /\ t \notin expired
    /\ Hold(r, "saveVerified",
            [FullRead EXCEPT !.status = "active", !.verif = None], t)
    /\ verified' = (verified \/ t = RegistrationToken)
    /\ UNCHANGED <<row, issued, expired, mail, sessions, lastPw, used,
                   reused>>

SaveVerified(r) ==
    /\ pc[r] = "saveVerified"
    /\ Update(mem[r])
    /\ Finish(r)
    /\ UNCHANGED <<issued, expired, mail, sessions, history>>

-----------------------------------------------------------------------------
(* CompanyService.SwitchCompany and ClearCompanyContext.  Both routes are  *)
(* behind middleware.Auth, and the first token of an account comes from a  *)
(* login.                                                                  *)

\* The caller holds a token, the membership checks pass and GetByID finds the
\* user.
SwitchCompany(r, c) ==
    /\ pc[r] = "idle"
    /\ sessions
    /\ Hold(r, "saveCompany", [ScanUser EXCEPT !.company = c], None)
    /\ UNCHANGED <<row, issued, expired, mail, sessions, history>>

ClearCompanyContext(r) ==
    /\ pc[r] = "idle"
    /\ sessions
    /\ Hold(r, "saveCompany", ScanUser, None)
    /\ UNCHANGED <<row, issued, expired, mail, sessions, history>>

\* userRepo.Update of either call; the handler then answers with a token.
SaveCompany(r) ==
    /\ pc[r] = "saveCompany"
    /\ Update(mem[r])
    /\ Finish(r)
    /\ UNCHANGED <<issued, expired, mail, sessions, history>>

-----------------------------------------------------------------------------

\* The write or the session store fails, Update affects no row, or the
\* process dies: the request ends and the row stays as it is.
Fail(r) ==
    /\ pc[r] # "idle"
    /\ Finish(r)
    /\ UNCHANGED <<row, issued, expired, mail, sessions, history>>

\* A token's lifetime (24 hours for verification, one hour for a reset) ends.
Expire(t) ==
    /\ t <= issued
    /\ t \notin expired
    /\ expired' = expired \cup {t}
    /\ UNCHANGED <<row, issued, mail, pc, mem, arg, sessions, history, overlapped>>

RequestStep(r) ==
    \/ \E pw \in Passwords : LoginRead(r, pw) \/ LoginRefused(r, pw)
    \/ CreateSession(r)
    \/ LoginUpdate(r)
    \/ RequestReset(r)
    \/ SaveResetToken(r)
    \/ \E t \in Tokens, pw \in Passwords : ResetPassword(r, t, pw)
    \/ SavePassword(r)
    \/ \E t \in Tokens : VerifyEmail(r, t)
    \/ SaveVerified(r)
    \/ \E c \in Companies : SwitchCompany(r, c)
    \/ ClearCompanyContext(r)
    \/ SaveCompany(r)
    \/ Fail(r)

Next ==
    \/ \E r \in Requests : RequestStep(r)
    \/ \E t \in Tokens : Expire(t)

Spec == Init /\ [][Next]_vars

-----------------------------------------------------------------------------
(* Properties.                                                             *)

\* No login creates a session before the email address was verified with the
\* token of the registration, whatever interleaving of logins, resets and
\* verifications writes stale copies of the row back.
SessionImpliesVerified == sessions => verified

\* As long as no two requests overlapped, the password is the one of the last
\* completed reset: no login, verification or company switch brings an old
\* one back, also when requests fail between reading and writing the row.
PasswordSticks == ~overlapped => row.pw = lastPw

\* As long as no two requests overlapped, a reset link works once.
ResetTokenUsedOnce == ~overlapped => reused = {}

\* user.go: Status is "pending", "active" or "suspended".
StatusDocumented == row.status \in {"pending", "active", "suspended"}

=============================================================================
