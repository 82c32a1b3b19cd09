------------------------------ MODULE Verifier ------------------------------
(***************************************************************************)
(* The end-to-end verifier (cmd/verify): a runner that executes checks     *)
(* against the API, sequentially or on a pool of goroutines, with retries, *)
(* and the checks, which pass tokens and ids to each other through one     *)
(* AuthContext that nothing protects.                                      *)
(*                                                                         *)
(* The API is modelled as it answers when it works (Answer), with requests *)
(* that fail before or after they take effect.  Durations, formats, the    *)
(* contents of a report and the status of a company, which no check reads, *)
(* are left out.                                                           *)
(***************************************************************************)
EXTENDS Naturals, Sequences, FiniteSets

CONSTANTS
    Widths,         \* values of -parallelism
    MaxRetries,     \* value of -retries
    Sampled,        \* bound: checks of a run on more than one goroutine
    Fragile,        \* bound: checks whose requests can fail
    Skips,          \* sets of groups that -skip-graphql and -skip-grpc leave out
    MaxStrikes      \* bound: how many of these requests fail

\* The bound on parallel checks keeps the login, whose failure the verdict reports.
ASSUME VerifierAssumption ==
    Widths \subseteq Nat \ {0} /\ MaxRetries \in Nat /\ MaxStrikes \in Nat /\ "login" \in Sampled

VARIABLES
    parallelism,    \* cfg.Parallelism
    skipped,        \* groups left out by -skip-graphql and -skip-grpc
    stage,          \* "flags"; "auth": the runner of the auth checks; "main"; "done"
    queue,          \* registered checks not yet started, in order
    checking,       \* checking[c]: a started check
    verdict,        \* verdict[c]: result of check c in the current runner
    copied,         \* results of the auth runner
    context,        \* the shared AuthContext
    api,            \* what the API knows of this verification
    interrupted,    \* "no", "auth" (its 60 s are over), "all" (a signal)
    strikes         \* history: strikes[c]: failed requests of check c

verifierVars == <<parallelism, skipped, stage, queue, checking, verdict, copied,
                  context, api, interrupted, strikes>>

-----------------------------------------------------------------------------
(* The checks: what a check function needs from the context, or returns    *)
(* early, and the answers with which it passes.                            *)

Fn(needs, expects) == [needs |-> needs, expects |-> expects]

doHealthCheck == Fn({}, {"ok"})
makeRegisterCheck == Fn({}, {"created", "ok"})
makeLoginCheck == Fn({}, {"ok"})
makeMeCheck == Fn({"token"}, {"ok"})
make2FAStatusCheck == Fn({"token"}, {"ok"})
makeCaptchaConfigCheck == Fn({}, {"ok"})
makeCreateRoleCheck == Fn({"token"}, {"created", "ok"})
makeListRolesCheck == Fn({"token"}, {"ok"})
makeCreateTenantCheck == Fn({"token"}, {"created", "ok"})
makeCreateAPIKeyCheck == Fn({"token"}, {"created", "ok"})
makeListAPIKeysCheck == Fn({"token"}, {"ok"})
makeStatsCheck == Fn({"token"}, {"ok"})
makeCreateCompanyCheck == Fn({"token"}, {"created", "conflict"})
makeListCompaniesCheck == Fn({"token"}, {"ok"})
makeGetCompanyCheck == Fn({"token", "company"}, {"ok"})
makeSwitchCompanyCheck == Fn({"token", "company"}, {"ok"})
makeClearCompanyContextCheck == Fn({"token"}, {"ok"})
makeCreateCompanyInvalidCNPJCheck == Fn({"token"}, {"bad_request"})
makeLookupCompanyCheck == Fn({"token"}, {"items"})
makeValidateCPFCheck(valid) == Fn({"token"}, {IF valid THEN "valid" ELSE "invalid"})
makeGraphQLIntrospectionCheck == Fn({}, {"ok"})
makeGraphQLMeCheck == Fn({"token"}, {"ok"})
makeGraphQLCompaniesCheck == Fn({"token"}, {"ok"})
makeGraphQLUpdateCompanyStatusCheck == Fn({"token", "company"}, {"ok"})
makeGRPCConnectivityCheck == Fn({}, {"ok"})
makeGRPCValidateTokenCheck == Fn({"token"}, {"valid"})
makeGRPCGetUserRolesCheck == Fn({"user"}, {"ok"})
makeGRPCValidateCompanyAccessCheck == Fn({"company"}, {"valid"})

Check ==
    [health |-> doHealthCheck, ready |-> doHealthCheck,
     register |-> makeRegisterCheck, login |-> makeLoginCheck, me |-> makeMeCheck,
     totp |-> make2FAStatusCheck, captcha |-> makeCaptchaConfigCheck,
     createRole |-> makeCreateRoleCheck, listRoles |-> makeListRolesCheck,
     createTenant |-> makeCreateTenantCheck, createKey |-> makeCreateAPIKeyCheck,
     listKeys |-> makeListAPIKeysCheck, stats |-> makeStatsCheck,
     createCompany |-> makeCreateCompanyCheck, listCompanies |-> makeListCompaniesCheck,
     getCompany |-> makeGetCompanyCheck, switchCompany |-> makeSwitchCompanyCheck,
     clearContext |-> makeClearCompanyContextCheck,
     badCompany |-> makeCreateCompanyInvalidCNPJCheck, lookup |-> makeLookupCompanyCheck,
     validCPF |-> makeValidateCPFCheck(TRUE), invalidCPF |-> makeValidateCPFCheck(FALSE),
     introspection |-> makeGraphQLIntrospectionCheck, gqlMe |-> makeGraphQLMeCheck,
     gqlCompanies |-> makeGraphQLCompaniesCheck,
     gqlStatus |-> makeGraphQLUpdateCompanyStatusCheck,
     grpc |-> makeGRPCConnectivityCheck, grpcToken |-> makeGRPCValidateTokenCheck,
     grpcRoles |-> makeGRPCGetUserRolesCheck,
     grpcAccess |-> makeGRPCValidateCompanyAccessCheck]

Names == DOMAIN Check

HealthChecks == <<"health", "ready">>

AuthChecks == <<"register", "login", "me", "totp", "captcha">>

RESTChecks == <<"createRole", "listRoles", "createTenant", "createKey", "listKeys", "stats">>

CompanyChecks ==
    <<"createCompany", "listCompanies", "getCompany", "switchCompany", "clearContext",
      "badCompany", "lookup">>

DocumentChecks == <<"validCPF", "invalidCPF">>

GraphQLChecks == <<"introspection", "gqlMe", "gqlCompanies", "gqlStatus">>

GRPCChecks == <<"grpc", "grpcToken", "grpcRoles", "grpcAccess">>

Considered(checks) ==
    LET kept[n \in 0 .. Len(checks)] ==
          IF n = 0 THEN <<>>
          ELSE IF parallelism = 1 \/ checks[n] \in Sampled THEN Append(kept[n - 1], checks[n])
          ELSE kept[n - 1]
    IN  kept[Len(checks)]

Unless(group, checks) == IF group \in skipped THEN <<>> ELSE checks

\* Mutant of ToRegister: the results of the auth runner are not copied.
ToRegister_NoCopy ==
    Considered(HealthChecks
               \o (IF context.token THEN RESTChecks \o CompanyChecks \o DocumentChecks
                   ELSE <<>>)
               \o Unless("graphql", GraphQLChecks) \o Unless("grpc", GRPCChecks))

\* What run() registers once the auth runner is done.
ToRegister ==
    Considered(HealthChecks \o AuthChecks
               \o (IF context.token THEN RESTChecks \o CompanyChecks \o DocumentChecks
                   ELSE <<>>)
               \o Unless("graphql", GraphQLChecks) \o Unless("grpc", GRPCChecks))

-----------------------------------------------------------------------------
NoSlot == [phase |-> "idle", attempt |-> 0, answer |-> "", company |-> 0]

NewAuthContext == [token |-> FALSE, user |-> FALSE, company |-> 0, emailVerified |-> FALSE]

NewApi == [registered |-> FALSE, active |-> FALSE, companies |-> 0]

VerifierTypeOK ==
    /\ parallelism \in Widths \cup {1} /\ skipped \in Skips \cup {{}}
    /\ stage \in {"flags", "auth", "main", "done"}
    /\ queue \in Seq(Names)
    /\ checking \in [Names -> [phase : {"idle", "call", "sent", "answered", "backoff"},
                           attempt : 0..MaxRetries,
                           answer : {"", "error", "missing", "failed", "unauthorized",
                                     "forbidden", "conflict"}
                                    \cup UNION {Check[c].expects : c \in Names},
                           company : Nat]]
    /\ verdict \in [Names -> {"none", "passed", "failed", "cancelled"}]
    /\ copied \in [Names -> {"none", "passed", "failed", "cancelled"}]
    /\ context \in [token : BOOLEAN, user : BOOLEAN, company : Nat, emailVerified : BOOLEAN]
    /\ api \in [registered : BOOLEAN, active : BOOLEAN, companies : Nat]
    /\ interrupted \in {"no", "auth", "all"}
    /\ strikes \in [Names -> Nat]

VerifierInit ==
    /\ parallelism = 1 /\ skipped = {}
    /\ stage = "flags"
    /\ queue = <<>>
    /\ checking = [c \in Names |-> NoSlot]
    /\ verdict = [c \in Names |-> "none"]
    /\ copied = [c \in Names |-> "none"]
    /\ context = NewAuthContext
    /\ api = NewApi
    /\ interrupted = "no"
    /\ strikes = [c \in Names |-> 0]

-----------------------------------------------------------------------------
(* The runner.                                                             *)

\* The auth runner has one goroutine.
Width == IF stage = "auth" THEN 1 ELSE parallelism

Busy == {c \in Names : checking[c].phase # "idle"}

Cancelled == interrupted = "all" \/ (interrupted = "auth" /\ stage = "auth")

Strikes == LET sum[S \in SUBSET Names] ==
                 IF S = {} THEN 0
                 ELSE LET c == CHOOSE c \in S : TRUE IN strikes[c] + sum[S \ {c}]
           IN sum[{c \in Names : strikes[c] > 0}]

Strike(c) ==
    /\ Strikes < MaxStrikes /\ c \in Fragile
    /\ strikes' = [strikes EXCEPT ![c] = @ + 1]

\* main reads the flags; run registers the auth checks with their runner.
ParseFlags(width, skips) ==
    /\ stage = "flags"
    /\ parallelism' = width /\ skipped' = skips
    /\ stage' = "auth"
    /\ queue' = AuthChecks
    /\ UNCHANGED <<checking, verdict, copied, context, api, interrupted, strikes>>

\* A goroutine takes the semaphore; with parallelism 1 the loop takes the
\* next check.
StartCheck(i) ==
    /\ i \in DOMAIN queue
    /\ Cardinality(Busy) < Width
    /\ Width = 1 => i = 1
    /\ checking' = [checking EXCEPT ![queue[i]] = [NoSlot EXCEPT !.phase = "call"]]
    /\ queue' = SubSeq(queue, 1, i - 1) \o SubSeq(queue, i + 1, Len(queue))
    /\ UNCHANGED <<parallelism, skipped, stage, verdict, copied, context, api, interrupted,
                   strikes>>

\* The check function as run() wraps the result of an auth check.
Copy(c) == stage = "main" /\ copied[c] # "none"

Has(need) ==
    CASE need = "token" -> context.token
      [] need = "user" -> context.user
      [] OTHER -> context.company # 0

Outcome(c, answer) ==
    checking' = [checking EXCEPT ![c].phase = "answered", ![c].answer = answer]

\* check.Fn begins: it returns the copied result, returns early when the
\* context lacks something, or sends its request.
Call(c) ==
    /\ checking[c].phase = "call" /\ ~(c = "login" /\ stage = "auth" /\ ~context.emailVerified)
    /\ IF Copy(c) THEN Outcome(c, IF copied[c] = "passed" THEN "ok" ELSE "failed")
       ELSE IF \E need \in Check[c].needs : ~Has(need) THEN Outcome(c, "missing")
       ELSE checking' = [checking EXCEPT ![c].phase = "sent", ![c].company = context.company]
    /\ UNCHANGED <<parallelism, skipped, stage, queue, verdict, copied, context, api,
                   interrupted, strikes>>

\* The login check first marks the address as verified in the database; if
\* that fails it logs in all the same.
verifyEmailDirect(c) ==
    /\ checking[c].phase = "call" /\ c = "login" /\ stage = "auth" /\ ~context.emailVerified
    /\ checking' = [checking EXCEPT ![c].phase = "sent"]
    /\ \/ /\ ~Cancelled
          /\ context' = [context EXCEPT !.emailVerified = api.registered]
          /\ api' = [api EXCEPT !.active = api.registered]
          /\ UNCHANGED strikes
       \/ /\ IF Cancelled THEN UNCHANGED strikes ELSE Strike(c)
          /\ UNCHANGED <<context, api>>
    /\ UNCHANGED <<parallelism, skipped, stage, queue, verdict, copied, interrupted>>

\* A second registration of the address fails, with status 500.
RegisterStatus == IF api.registered THEN "failed" ELSE "created"

LoginStatus ==
    IF ~api.registered THEN "unauthorized"
    ELSE IF api.active THEN "ok" ELSE "forbidden"

CreateCompanyStatus(c) == IF c = "badCompany" THEN "bad_request" ELSE "created"

\* Is the verifier's user a member of the company that check c names?
MemberOf(c) == checking[c].company \in 1..api.companies

\* GetCompany and SwitchCompany.
CompanyStatus(c) == IF MemberOf(c) THEN "ok" ELSE "forbidden"

ValidateCompanyAccess(c) == IF MemberOf(c) THEN "valid" ELSE "invalid"

ValidateCPFStatus(c) == IF c = "validCPF" THEN "valid" ELSE "invalid"

\* The handler of each check's route or gRPC method.  The companies query is
\* served without authentication: an error in an answer with status 200.
Answer(c) ==
    CASE c = "register" -> RegisterStatus
      [] c = "login" -> LoginStatus
      [] c \in {"createRole", "createTenant", "createKey"} -> "created"
      [] c \in {"createCompany", "badCompany"} -> CreateCompanyStatus(c)
      [] c \in {"getCompany", "switchCompany"} -> CompanyStatus(c)
      [] c = "lookup" -> "items"
      [] c \in {"validCPF", "invalidCPF"} -> ValidateCPFStatus(c)
      [] c = "grpcToken" -> "valid"
      [] c = "grpcAccess" -> ValidateCompanyAccess(c)
      [] OTHER -> "ok"

UserRegistered == [api EXCEPT !.registered = TRUE]

CompanyCreated == [api EXCEPT !.companies = @ + 1]

\* What the handler leaves behind of which another answer depends.
Effect(c) ==
    api' = CASE c = "register" -> UserRegistered
             [] c = "createCompany" -> CompanyCreated
             [] OTHER -> api

\* The API answers; an answer to a check that lists companies names the
\* latest, one to a check that creates a company the new one.
ApiServes(c) ==
    /\ checking[c].phase = "sent" /\ ~Cancelled
    /\ Effect(c)
    /\ checking' = [checking EXCEPT ![c].phase = "answered", ![c].answer = Answer(c),
                            ![c].company = CASE c = "createCompany" -> api'.companies
                                             [] c = "listCompanies" -> api.companies
                                             [] OTHER -> @]
    /\ UNCHANGED <<parallelism, skipped, stage, queue, verdict, copied, context, interrupted,
                   strikes>>

\* The random CNPJ of a new company is registered already.
ApiConflicts(c) ==
    /\ checking[c].phase = "sent" /\ ~Cancelled /\ c = "createCompany"
    /\ Strike(c)
    /\ Outcome(c, "conflict")
    /\ UNCHANGED <<parallelism, skipped, stage, queue, verdict, copied, context, api,
                   interrupted>>

\* A request, or its answer, is lost or refused; all are once the context is
\* cancelled.
Fails(c) ==
    /\ checking[c].phase = "sent"
    /\ IF Cancelled THEN UNCHANGED strikes ELSE Strike(c)
    /\ Outcome(c, "error")
    /\ Effect(c) \/ UNCHANGED api
    /\ UNCHANGED <<parallelism, skipped, stage, queue, verdict, copied, context, interrupted>>

Passes(c) == checking[c].answer \in (IF Copy(c) THEN {"ok"} ELSE Check[c].expects)

\* What a check function notes in the context when it gets its answer.
Noted(c) ==
    IF ~Passes(c) \/ Copy(c) THEN context
    ELSE IF c = "login" THEN [context EXCEPT !.token = TRUE, !.user = TRUE]
    ELSE IF \/ c = "listCompanies" /\ context.company = 0
            \/ c = "createCompany" /\ checking[c].answer = "created"
         THEN [context EXCEPT !.company = checking[c].company]
         ELSE context

\* addResult and ReportCheck, and the semaphore is released.
Over(c, result) ==
    /\ verdict' = [verdict EXCEPT ![c] = result]
    /\ checking' = [checking EXCEPT ![c] = NoSlot]

\* check.Fn returns, and the loop of runCheckWithRetry decides.
Evaluate(c) ==
    /\ checking[c].phase = "answered"
    /\ context' = Noted(c)
    /\ IF Passes(c) THEN Over(c, "passed")
       ELSE IF checking[c].attempt < MaxRetries
            THEN IF Cancelled THEN Over(c, "cancelled")
                 ELSE checking' = [checking EXCEPT ![c].phase = "backoff"] /\ UNCHANGED verdict
            ELSE Over(c, "failed")
    /\ UNCHANGED <<parallelism, skipped, stage, queue, copied, api, interrupted, strikes>>

\* The delay passes, or the context is cancelled during it.
Backoff(c) ==
    /\ checking[c].phase = "backoff"
    /\ \/ /\ checking' = [checking EXCEPT ![c] = [NoSlot EXCEPT !.phase = "call",
                                                      !.attempt = checking[c].attempt + 1]]
          /\ UNCHANGED verdict
       \/ Cancelled /\ Over(c, "cancelled")
    /\ UNCHANGED <<parallelism, skipped, stage, queue, copied, context, api, interrupted,
                   strikes>>

\* The auth runner has finished: its results become checks of the main one.
FinishAuth ==
    /\ stage = "auth" /\ queue = <<>> /\ Busy = {}
    /\ stage' = "main"
    /\ queue' = ToRegister
    /\ copied' = verdict
    /\ verdict' = [c \in Names |-> "none"]
    /\ UNCHANGED <<parallelism, skipped, checking, context, api, interrupted, strikes>>

\* wg.Wait returns.
Finish ==
    /\ stage = "main" /\ queue = <<>> /\ Busy = {}
    /\ stage' = "done"
    /\ UNCHANGED <<parallelism, skipped, queue, checking, verdict, copied, context, api,
                   interrupted, strikes>>

\* The 60 s of the auth runner are over, or SIGINT or SIGTERM arrives.
Interrupt(which) ==
    /\ stage \in {"auth", "main"} /\ interrupted = "no" /\ (which = "auth" => stage = "auth")
    /\ interrupted' = which
    /\ UNCHANGED <<parallelism, skipped, stage, queue, checking, verdict, copied, context, api,
                   strikes>>

\* The process exits; the next verification has credentials of its own.
Exit ==
    /\ stage = "done"
    /\ parallelism' = 1 /\ skipped' = {}
    /\ stage' = "flags"
    /\ verdict' = [c \in Names |-> "none"] /\ copied' = [c \in Names |-> "none"]
    /\ context' = NewAuthContext
    /\ api' = NewApi
    /\ interrupted' = "no"
    /\ strikes' = [c \in Names |-> 0]
    /\ UNCHANGED <<queue, checking>>

VerifierNext ==
    \/ \E width \in Widths, skips \in Skips : ParseFlags(width, skips)
    \/ \E i \in DOMAIN queue : StartCheck(i)
    \/ \E c \in Names :
          \/ Call(c) \/ verifyEmailDirect(c) \/ ApiServes(c) \/ ApiConflicts(c) \/ Fails(c)
          \/ Evaluate(c) \/ Backoff(c)
    \/ FinishAuth
    \/ Finish
    \/ \E which \in {"auth", "all"} : Interrupt(which)
    \/ Exit

VerifierSpec == VerifierInit /\ [][VerifierNext]_verifierVars

-----------------------------------------------------------------------------
(* Properties.                                                             *)

\* The number of failed results, which Finish turns into the exit status.
Failures == {c \in Names : verdict[c] \in {"failed", "cancelled"}}

Green == stage = "done" /\ Failures = {}

\* A verification that exits with status 0 ran every check of every group
\* that was not skipped, although the REST, company and document checks are
\* registered only if the login gave a token: a failed login is never green.
GreenMeansAll ==
    Green => \A c \in Names :
                \/ verdict[c] = "passed"
                \/ parallelism > 1 /\ c \notin Sampled
                \/ \E i \in DOMAIN GraphQLChecks : GraphQLChecks[i] = c /\ "graphql" \in skipped
                \/ \E i \in DOMAIN GRPCChecks : GRPCChecks[i] = c /\ "grpc" \in skipped

\* Against an API that works, a check is reported as failed only for a
\* reason: all its attempts met a failing request; the registration was
\* repeated after an answer got lost; the login failed; or the check reads
\* the company id and the check that provides it ran at the same time, met a
\* failing request, or was not registered.
FailureExplained ==
    \A c \in Names :
        verdict[c] = "failed" =>
            \/ interrupted # "no"
            \/ strikes[c] > MaxRetries
            \/ c = "register" /\ strikes[c] > 0
            \/ /\ c = "login" \/ Check[c].needs # {}
               /\ strikes["register"] > MaxRetries \/ strikes["login"] > MaxRetries
            \/ /\ "company" \in Check[c].needs
               /\ parallelism > 1 \/ strikes["createCompany"] > 0

\* The company id of the context is that of the company the create check was
\* told of, whatever order the checks run in: the list check fills it only
\* while it is empty.
CreatedCompanyKept ==
    verdict["createCompany"] = "passed" /\ strikes["createCompany"] = 0
        => context.company = 1

\* The verdict of a verification is justified: green means that every check
\* ran and passed, a failure has a cause, and the id the company checks share
\* is that of the created company.
VerdictSound == VerifierTypeOK /\ GreenMeansAll /\ FailureExplained /\ CreatedCompanyKept

=============================================================================
