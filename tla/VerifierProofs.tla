--------------------------- MODULE VerifierProofs ---------------------------
(***************************************************************************)
(* Proof that the verdict of the end-to-end verifier is justified, for any *)
(* width of the main runner, number of retries and choice of the requests  *)
(* that fail, and for any bound on the checks of a parallel run that keeps *)
(* the login.                                                              *)
(*                                                                         *)
(* The inductive invariant follows a check from the queue to its result:   *)
(* the order in which checks start (QueueInv), what was registered         *)
(* (StageInv, RegisteredInv), why an attempt may have failed (AttemptInv), *)
(* what a failed registration or login leaves behind (SignupInv, LoginInv) *)
(* and where company ids come from (CompanyInv, CreatedInv).               *)
(***************************************************************************)
EXTENDS Verifier, FiniteSetTheorems, FunctionTheorems, SequenceTheorems, WellFoundedInduction,
        TLAPS

\* The order of registration.
Rank ==
    [health |-> 1, ready |-> 2, register |-> 3, login |-> 4, me |-> 5, totp |-> 6,
     captcha |-> 7, createRole |-> 8, listRoles |-> 9, createTenant |-> 10, createKey |-> 11,
     listKeys |-> 12, stats |-> 13, createCompany |-> 14, listCompanies |-> 15,
     getCompany |-> 16, switchCompany |-> 17, clearContext |-> 18, badCompany |-> 19,
     lookup |-> 20, validCPF |-> 21, invalidCPF |-> 22, introspection |-> 23, gqlMe |-> 24,
     gqlCompanies |-> 25, gqlStatus |-> 26, grpc |-> 27, grpcToken |-> 28, grpcRoles |-> 29,
     grpcAccess |-> 30]

Members(q) == {q[i] : i \in DOMAIN q}

Sorted(q) == \A i, j \in DOMAIN q : i < j => Rank[q[i]] < Rank[q[j]]

Waiting == Members(queue)

AuthNames == Members(AuthChecks)

NeedLogin == Members(RESTChecks) \cup Members(CompanyChecks) \cup Members(DocumentChecks)

\* Checks start in the order of registration, each once; on one goroutine one
\* runs, and all before it are over.
QueueInv ==
    /\ stage \in {"flags", "done"} => queue = <<>> /\ Busy = {}
    /\ Sorted(queue)
    /\ \A c \in Waiting \cup Busy : verdict[c] = "none"
    /\ Waiting \cap Busy = {}
    /\ Width = 1 => \A c \in Busy : Busy = {c} /\ \A d \in Waiting : Rank[c] < Rank[d]

\* The auth runner has the auth checks and no others, and leaves a result of each.
StageInv ==
    /\ stage = "flags" => /\ verdict = [c \in Names |-> "none"] /\ copied = [c \in Names |-> "none"]
                          /\ context = NewAuthContext /\ api = NewApi /\ interrupted = "no"
                          /\ strikes = [c \in Names |-> 0]
    /\ stage = "auth" =>
          /\ copied = [c \in Names |-> "none"]
          /\ context.company = 0 /\ ("register" \in Waiting => ~api.registered)
          /\ \A c \in Names : c \in AuthNames <=> c \in Waiting \cup Busy \/ verdict[c] # "none"
    /\ stage \in {"main", "done"} => \A c \in Names : c \in AuthNames <=> copied[c] # "none"

\* Every check of the main runner waits, runs, has a result, or was left out.
LeftOut(c) ==
    \/ parallelism > 1 /\ c \notin Sampled
    \/ c \in Members(GraphQLChecks) /\ "graphql" \in skipped
    \/ c \in Members(GRPCChecks) /\ "grpc" \in skipped
    \/ c \in NeedLogin /\ ~context.token

RegisteredInv ==
    stage \in {"main", "done"} =>
        \A c \in Names : c \in Waiting \cup Busy \/ verdict[c] # "none" \/ LeftOut(c)

AuthResult(c) == IF stage \in {"main", "done"} THEN copied[c] ELSE verdict[c]

Undisturbed == interrupted = "no"

\* Why a check may fail on an attempt without a failing request of its own.
Excused(c) ==
    \/ ~Undisturbed
    \/ c = "register" /\ strikes[c] > 0
    \/ /\ c = "login" \/ Check[c].needs # {}
       /\ strikes["register"] > MaxRetries \/ strikes["login"] > MaxRetries
    \/ /\ "company" \in Check[c].needs
       /\ parallelism > 1 \/ strikes["createCompany"] > 0

Ended(c) == checking[c].phase = "backoff" \/ (checking[c].phase = "answered" /\ ~Passes(c))

\* Every attempt that ended without success met a failing request or is excused,
\* and a result that is copied makes no request.
AttemptOK(c) ==
    /\ c \in Busy => Excused(c) \/ strikes[c] >= checking[c].attempt
    /\ Ended(c) => Excused(c) \/ strikes[c] > checking[c].attempt
    /\ verdict[c] = "failed" \/ copied[c] = "failed" => Excused(c) \/ strikes[c] > MaxRetries
    /\ verdict[c] = "cancelled" \/ copied[c] = "cancelled" => ~Undisturbed
    /\ checking[c].phase = "sent" => ~Copy(c)
    /\ checking[c].phase = "backoff" => checking[c].attempt < MaxRetries

AttemptInv == \A c \in Names : AttemptOK(c)

\* The registration is unknown to the API only as long as all its attempts failed.
SignupInv ==
    /\ api.active => api.registered
    /\ context.emailVerified => api.active
    /\ AuthResult("register") = "passed" => api.registered
    /\ stage = "auth" /\ checking["register"].phase = "answered" /\ Passes("register") => api.registered
    /\ Undisturbed /\ ~api.registered =>
          /\ AuthResult("register") = "failed" => strikes["register"] > MaxRetries
          /\ stage = "auth" /\ "register" \in Busy => strikes["register"] >= checking["register"].attempt
          /\ stage = "auth" /\ Ended("register") => strikes["register"] > checking["register"].attempt
    /\ stage = "auth" /\ Undisturbed /\ api.registered /\ "register" \in Busy =>
          \/ strikes["register"] > 0
          \/ checking["register"].phase = "answered" /\ Passes("register")

\* Without a token the login failed, and it fails on a known address only if the
\* address could not be verified.
LoginInv ==
    /\ context.user = context.token
    /\ AuthResult("login") = "passed" => context.token
    /\ stage = "auth" /\ checking["login"].phase = "sent" /\ ~api.active =>
          Excused("login") \/ strikes["login"] > checking["login"].attempt \/ ~api.registered
    /\ stage = "main" /\ checking["login"].phase = "answered" /\ Passes("login") => copied["login"] = "passed"
    /\ stage \in {"main", "done"} /\ verdict["login"] = "passed" => copied["login"] = "passed"

\* Company ids are of companies the API knows.
CompanyInv ==
    /\ context.company <= api.companies
    /\ \A c \in Names :
          /\ checking[c].company <= api.companies
          /\ checking[c].phase \in {"idle", "call"} => checking[c].company = 0
          /\ checking[c].phase = "sent" /\ "company" \in Check[c].needs => checking[c].company # 0

CreateAnswered == checking["createCompany"].phase = "answered" /\ Passes("createCompany")

\* As long as no request of its check failed, at most one company was created,
\* and once the check has passed its id is the context's.
CreatedInv ==
    strikes["createCompany"] = 0 =>
        \/ api.companies = 0 /\ verdict["createCompany"] # "passed" /\ ~CreateAnswered
        \/ /\ verdict["createCompany"] # "passed" /\ CreateAnswered
           /\ checking["createCompany"].answer = "created" /\ checking["createCompany"].company = 1
        \/ verdict["createCompany"] = "passed" /\ context.company = 1
        \/ interrupted = "all" /\ verdict["createCompany"] # "passed" /\ ~CreateAnswered

RunnerInv ==
    /\ VerifierTypeOK /\ QueueInv /\ StageInv /\ RegisteredInv /\ AttemptInv /\ SignupInv
    /\ LoginInv /\ CompanyInv /\ CreatedInv

-----------------------------------------------------------------------------
(* The table of checks.                                                    *)

Known == {"health", "ready", "register", "login", "me", "totp", "captcha", "createRole",
          "listRoles", "createTenant", "createKey", "listKeys", "stats", "createCompany",
          "listCompanies", "getCompany", "switchCompany", "clearContext", "badCompany",
          "lookup", "validCPF", "invalidCPF", "introspection", "gqlMe", "gqlCompanies",
          "gqlStatus", "grpc", "grpcToken", "grpcRoles", "grpcAccess"}

\* The names of the table.
LEMMA AllNames == Names = Known
  BY DEF Names, Check, Known

\* Every check has a place in the order of registration ...
LEMMA RankType == Rank \in [Names -> 1 .. 30]
  BY AllNames DEF Known, Rank

\* ... and no two share it.
LEMMA RankDistinct == \A c, d \in Names : Rank[c] = Rank[d] => c = d
  BY AllNames DEF Known, Rank

\* The entries of the table the arguments below look into.
LEMMA CheckTable ==
    /\ Check["register"] = makeRegisterCheck /\ Check["login"] = makeLoginCheck
    /\ Check["createCompany"] = makeCreateCompanyCheck
    /\ Check["getCompany"] = makeGetCompanyCheck
    /\ Check["switchCompany"] = makeSwitchCompanyCheck
    /\ Check["grpcAccess"] = makeGRPCValidateCompanyAccessCheck
  BY DEF Check

\* What the table says, and: a request that is answered passes its check, but for a
\* second registration, a login of an address that is not active, and a company the
\* API does not know.
LEMMA TableFacts ==
    /\ Check["register"].needs = {} /\ Check["login"].needs = {}
    /\ Check["createCompany"].needs = {"token"}
    /\ \A c \in Names : Check[c].needs \subseteq {"token", "user", "company"}
    /\ \A c \in Names : "company" \in Check[c].needs =>
          c \in {"getCompany", "switchCompany", "gqlStatus", "grpcAccess"}
    /\ Check["register"].expects = {"created", "ok"} /\ Check["login"].expects = {"ok"}
    /\ Check["createCompany"].expects = {"created", "conflict"}
    /\ \A c \in Names : "error" \notin Check[c].expects /\ "missing" \notin Check[c].expects
    /\ \A c \in Names :
          \/ Answer(c) \in Check[c].expects
          \/ c = "register" /\ api.registered
          \/ c = "login" /\ ~(api.registered /\ api.active)
          \/ "company" \in Check[c].needs /\ checking[c].company \notin 1 .. api.companies
<1> USE DEF Fn, doHealthCheck, makeRegisterCheck, makeLoginCheck, makeMeCheck, make2FAStatusCheck,
       makeCaptchaConfigCheck, makeCreateRoleCheck, makeListRolesCheck, makeCreateTenantCheck,
       makeCreateAPIKeyCheck, makeListAPIKeysCheck, makeStatsCheck, makeCreateCompanyCheck,
       makeListCompaniesCheck, makeGetCompanyCheck, makeSwitchCompanyCheck,
       makeClearCompanyContextCheck, makeCreateCompanyInvalidCNPJCheck, makeLookupCompanyCheck,
       makeValidateCPFCheck, makeGraphQLIntrospectionCheck, makeGraphQLMeCheck,
       makeGraphQLCompaniesCheck, makeGraphQLUpdateCompanyStatusCheck, makeGRPCConnectivityCheck,
       makeGRPCValidateTokenCheck, makeGRPCGetUserRolesCheck, makeGRPCValidateCompanyAccessCheck
<1>1. /\ Check["register"].needs = {} /\ Check["login"].needs = {}
      /\ Check["createCompany"].needs = {"token"}
  BY CheckTable
<1>2. \A c \in Known : Check[c].needs \in {{}, {"token"}, {"user"}, {"company"}, {"token", "company"}}
  BY DEF Known, Check
<1>3. \A c \in Known : "company" \in Check[c].needs =>
          c \in {"getCompany", "switchCompany", "gqlStatus", "grpcAccess"}
  BY DEF Known, Check
<1>4. /\ Check["register"].expects = {"created", "ok"} /\ Check["login"].expects = {"ok"}
      /\ Check["createCompany"].expects = {"created", "conflict"}
  BY CheckTable
<1>5. \A c \in Known : Check[c].expects \in {{"ok"}, {"created", "ok"}, {"created", "conflict"},
                            {"bad_request"}, {"items"}, {"valid"}, {"invalid"}}
  BY DEF Known, Check
<1>6. \A c \in Known : c \notin {"register", "login", "getCompany", "switchCompany", "grpcAccess"}
                         => Answer(c) \in Check[c].expects
  BY DEF Known, Check, Answer, CreateCompanyStatus, ValidateCPFStatus
<1>7. \A c \in {"register", "login", "getCompany", "switchCompany", "grpcAccess"} :
          \/ Answer(c) \in Check[c].expects
          \/ c = "register" /\ api.registered
          \/ c = "login" /\ ~(api.registered /\ api.active)
          \/ "company" \in Check[c].needs /\ checking[c].company \notin 1 .. api.companies
  BY CheckTable DEF Answer, RegisterStatus, LoginStatus, CompanyStatus, ValidateCompanyAccess,
     MemberOf
<1>8. \A c \in Names : Check[c].needs \subseteq {"token", "user", "company"}
  BY <1>2, AllNames
<1>9. \A c \in Names : "error" \notin Check[c].expects /\ "missing" \notin Check[c].expects
  BY <1>5, AllNames
<1>10. \A c \in Names :
          \/ Answer(c) \in Check[c].expects
          \/ c = "register" /\ api.registered
          \/ c = "login" /\ ~(api.registered /\ api.active)
          \/ "company" \in Check[c].needs /\ checking[c].company \notin 1 .. api.companies
  BY <1>6, <1>7, AllNames
<1> QED
  BY <1>1, <1>3, <1>4, <1>8, <1>9, <1>10, AllNames

-----------------------------------------------------------------------------
(* Queues.                                                                 *)

\* Every nonempty set of numbers has a least one, hence induction over a set.
LEMMA LeastNat ==
    ASSUME NEW T \in SUBSET Nat, T # {}
    PROVE  \E n \in T : \A m \in T : n <= m
<1> DEFINE R == {ss \in Nat \X Nat : ss[1] < ss[2]}
<1>1. IsWellFoundedOn(R, Nat)
  BY NatLessThanWellFounded DEF OpToRel
<1>2. \A x, y \in Nat : <<y, x>> \in R <=> y < x
  OBVIOUS
<1> HIDE DEF R
<1>3. PICK n \in T : \A y \in T : ~(<<y, n>> \in R)
  BY <1>1, WFMin
<1>4. \A m \in T : ~(m < n)
  BY <1>2, <1>3
<1> QED
  BY <1>4

LEMMA SetInduction ==
    ASSUME NEW T, 0 \in T, \A n \in Nat : n \in T => n + 1 \in T
    PROVE  \A n \in Nat : n \in T
<1>1. SUFFICES ASSUME NEW z \in Nat \ T PROVE FALSE
  OBVIOUS
<1>2. PICK n \in Nat \ T : \A m \in Nat \ T : n <= m
  BY LeastNat
<1>3. n # 0
  BY <1>2
<1>4. n - 1 \in Nat /\ (n - 1) + 1 = n /\ ~(n <= n - 1)
  BY <1>2, <1>3
<1>5. n - 1 \in T
  BY <1>2, <1>4
<1> QED
  BY <1>2, <1>4, <1>5

\* A check of higher rank goes to the end of a queue.
LEMMA SortedAppend ==
    ASSUME NEW q \in Seq(Names), Sorted(q), NEW d \in Names, NEW r, r = Append(q, d),
           \A c \in Members(q) : Rank[c] < Rank[d]
    PROVE  r \in Seq(Names) /\ Sorted(r) /\ Members(r) = Members(q) \cup {d}
<1>1. r \in Seq(Names) /\ Len(r) = Len(q) + 1 /\ Len(q) \in Nat
  OBVIOUS
<1>2. r[Len(q) + 1] = d /\ \A i \in 1 .. Len(q) : r[i] = q[i]
  OBVIOUS
<1>3. DOMAIN r = 1 .. Len(q) + 1 /\ DOMAIN q = 1 .. Len(q)
  BY <1>1
<1>4. \A i \in DOMAIN q : Rank[q[i]] < Rank[d]
  BY DEF Members
<1>5. Sorted(r)
  BY <1>1, <1>2, <1>3, <1>4 DEF Sorted
<1>6. Members(r) = Members(q) \cup {d}
  BY <1>1, <1>2, <1>3 DEF Members
<1> QED
  BY <1>1, <1>5, <1>6

\* r is p followed by q.
Follows(r, p, q) ==
    /\ Len(r) = Len(p) + Len(q)
    /\ \A i \in 1 .. Len(p) : r[i] = p[i]
    /\ \A j \in 1 .. Len(q) : r[Len(p) + j] = q[j]

\* A queue put together from two keeps their order and their members.
LEMMA Joined ==
    ASSUME NEW p \in Seq(Names), NEW q \in Seq(Names), NEW r \in Seq(Names), Sorted(p), Sorted(q),
           Follows(r, p, q), \A c \in Members(p), d \in Members(q) : Rank[c] < Rank[d]
    PROVE  Sorted(r) /\ Members(r) = Members(p) \cup Members(q)
<1>0. PICK m \in Nat, n \in Nat :
         /\ m = Len(p) /\ n = Len(q) /\ Len(r) = m + n
         /\ \A i \in 1 .. m : r[i] = p[i]
         /\ \A j \in 1 .. n : r[m + j] = q[j]
  <2>1. Len(p) \in Nat /\ Len(q) \in Nat
    OBVIOUS
  <2> QED
    BY <2>1, Zenon DEF Follows
<1>1. DOMAIN p = 1 .. m /\ DOMAIN q = 1 .. n /\ DOMAIN r = 1 .. m + n
  BY <1>0
<1>2. \A i \in 1 .. m + n : i \in 1 .. m \/ (i - m \in 1 .. n /\ i = m + (i - m) /\ m < i)
  BY <1>0
<1>3. \A i \in 1 .. m + n : \/ i \in 1 .. m /\ r[i] = p[i]
                            \/ i - m \in 1 .. n /\ r[i] = q[i - m] /\ m < i
  BY <1>0, <1>2
<1>4. \A i \in 1 .. m, j \in 1 .. n : Rank[p[i]] < Rank[q[j]]
  BY <1>1 DEF Members
<1>5. Sorted(r)
  <2> SUFFICES ASSUME NEW i \in 1 .. m + n, NEW j \in 1 .. m + n, i < j
               PROVE  Rank[r[i]] < Rank[r[j]]
    BY <1>1 DEF Sorted
  <2>1. CASE i \in 1 .. m /\ j \in 1 .. m
    BY <1>0, <1>1, <2>1 DEF Sorted
  <2>2. CASE i \in 1 .. m /\ j \notin 1 .. m
    <3>1. r[i] = p[i]
      BY <1>0, <2>2
    <3>2. j - m \in 1 .. n /\ r[j] = q[j - m]
      BY <1>3, <2>2
    <3> QED
      BY <1>4, <2>2, <3>1, <3>2
  <2>3. CASE i \notin 1 .. m
    <3>1. m < i /\ i - m \in 1 .. n /\ r[i] = q[i - m]
      BY <1>3, <2>3
    <3>2. m < j /\ j - m \in 1 .. n /\ i - m < j - m /\ j \notin 1 .. m
      BY <1>0, <3>1
    <3>3. r[j] = q[j - m]
      BY <1>3, <3>2
    <3>4. Rank[q[i - m]] < Rank[q[j - m]]
      BY <1>1, <3>1, <3>2 DEF Sorted
    <3> QED
      BY <3>1, <3>3, <3>4
  <2> QED
    BY <2>1, <2>2, <2>3
<1>6. \A i \in 1 .. m + n : r[i] \in Members(p) \cup Members(q)
  BY <1>1, <1>3 DEF Members
<1>7. \A i \in 1 .. m : i \in 1 .. m + n
  BY <1>0
<1>8. \A j \in 1 .. n : m + j \in 1 .. m + n
  BY <1>0
<1>9. \A i \in 1 .. m : p[i] \in Members(r)
  BY <1>0, <1>1, <1>7 DEF Members
<1>10. \A j \in 1 .. n : q[j] \in Members(r)
  BY <1>0, <1>1, <1>8 DEF Members
<1>11. Members(r) \subseteq Members(p) \cup Members(q)
  BY <1>1, <1>6 DEF Members
<1>12. Members(p) \subseteq Members(r) /\ Members(q) \subseteq Members(r)
  BY <1>1, <1>9, <1>10 DEF Members
<1> QED
  BY <1>5, <1>11, <1>12

LEMMA ConcatFollows ==
    ASSUME NEW p \in Seq(Names), NEW q \in Seq(Names)
    PROVE  p \o q \in Seq(Names) /\ Follows(p \o q, p, q)
<1>1. PICK m \in Nat, n \in Nat : m = Len(p) /\ n = Len(q)
  OBVIOUS
<1>2. /\ p \o q \in Seq(Names) /\ Len(p \o q) = m + n
      /\ \A i \in 1 .. Len(p \o q) : (p \o q)[i] = IF i <= m THEN p[i] ELSE q[i - m]
  BY <1>1, ConcatProperties
<1>3. \A i \in 1 .. m : i \in 1 .. Len(p \o q) /\ i <= m
  BY <1>1, <1>2
<1>4. \A j \in 1 .. n : m + j \in 1 .. Len(p \o q) /\ ~(m + j <= m) /\ (m + j) - m = j
  BY <1>1, <1>2
<1>5. (\A i \in 1 .. m : (p \o q)[i] = p[i]) /\ \A j \in 1 .. n : (p \o q)[m + j] = q[j]
  BY <1>2, <1>3, <1>4
<1> QED
  BY <1>1, <1>2, <1>5 DEF Follows

LEMMA SortedConcat ==
    ASSUME NEW p \in Seq(Names), NEW q \in Seq(Names), Sorted(p), Sorted(q), NEW r, r = p \o q,
           \A c \in Members(p), d \in Members(q) : Rank[c] < Rank[d]
    PROVE  r \in Seq(Names) /\ Sorted(r) /\ Members(r) = Members(p) \cup Members(q)
  BY ConcatFollows, Joined, Zenon

\* A check is taken out of the queue: the rest keeps its order.
LEMMA Cut ==
    ASSUME NEW q \in Seq(Names), NEW n \in Nat, n = Len(q), NEW i \in 1 .. n
    PROVE  \E a, b \in Seq(Names) :
              /\ a = SubSeq(q, 1, i - 1) /\ b = SubSeq(q, i + 1, Len(q))
              /\ Len(a) = i - 1 /\ Len(b) = n - i
              /\ \A j \in 1 .. i - 1 : a[j] = q[j]
              /\ \A j \in 1 .. n - i : b[j] = q[i + j]
<1>1. \A j \in 1 .. n : q[j] \in Names
  OBVIOUS
<1>2. SubSeq(q, 1, i - 1) \in Seq(Names) /\ SubSeq(q, i + 1, Len(q)) \in Seq(Names)
  BY <1>1
<1>3. /\ Len(SubSeq(q, 1, i - 1)) = i - 1 /\ Len(SubSeq(q, i + 1, Len(q))) = n - i
      /\ \A j \in 1 .. i - 1 : SubSeq(q, 1, i - 1)[j] = q[j]
      /\ \A j \in 1 .. n - i : SubSeq(q, i + 1, Len(q))[j] = q[i + j]
  OBVIOUS
<1> QED
  BY <1>2, <1>3

LEMMA SortedRemove ==
    ASSUME NEW q \in Seq(Names), Sorted(q), NEW i \in DOMAIN q
    PROVE  LET r == SubSeq(q, 1, i - 1) \o SubSeq(q, i + 1, Len(q))
           IN  r \in Seq(Names) /\ Sorted(r) /\ Members(r) = Members(q) \ {q[i]}
<1>1. PICK n \in Nat : n = Len(q) /\ DOMAIN q = 1 .. n
  OBVIOUS
<1>2. i \in Nat /\ 1 <= i /\ i <= n /\ i \in 1 .. n
  BY <1>1
<1>3. PICK a \in Seq(Names), b \in Seq(Names) :
         /\ a = SubSeq(q, 1, i - 1) /\ b = SubSeq(q, i + 1, Len(q))
         /\ Len(a) = i - 1 /\ Len(b) = n - i
         /\ \A j \in 1 .. i - 1 : a[j] = q[j]
         /\ \A j \in 1 .. n - i : b[j] = q[i + j]
  BY <1>1, <1>2, Cut
<1>4. PICK r : r = a \o b
  OBVIOUS
<1>20. SUFFICES r \in Seq(Names) /\ Sorted(r) /\ Members(r) = Members(q) \ {q[i]}
  BY <1>3, <1>4
<1>21. i - 1 \in Nat /\ n - i \in Nat /\ (i - 1) + (n - i) = n - 1
  BY <1>1, <1>2
<1>22. r \in Seq(Names) /\ Len(r) = n - 1
       /\ \A j \in 1 .. n - 1 : r[j] = IF j <= i - 1 THEN a[j] ELSE b[j - (i - 1)]
  <2>1. /\ r \in Seq(Names) /\ Len(r) = Len(a) + Len(b)
        /\ \A j \in 1 .. Len(a) + Len(b) : r[j] = IF j <= Len(a) THEN a[j] ELSE b[j - Len(a)]
    <3>1. a \in Seq(Names) /\ b \in Seq(Names)
      BY <1>3
    <3>2. /\ (a \o b) \in Seq(Names) /\ Len(a \o b) = Len(a) + Len(b)
          /\ \A j \in 1 .. Len(a) + Len(b) :
                (a \o b)[j] = IF j <= Len(a) THEN a[j] ELSE b[j - Len(a)]
      BY <3>1, ConcatProperties
    <3> QED
      BY <1>4, <3>2
  <2>2. Len(a) = i - 1 /\ Len(a) + Len(b) = n - 1
    BY <1>3, <1>21
  <2> QED
    BY <2>1, <2>2
<1>23. DOMAIN r = 1 .. n - 1
  BY <1>22
<1>5. \A j \in 1 .. n - 1 : r[j] = IF j < i THEN q[j] ELSE q[j + 1]
  <2>3. ASSUME NEW j \in 1 .. n - 1, j < i PROVE r[j] = q[j]
    <3>1. j \in 1 .. i - 1 /\ j <= i - 1
      BY <1>2, <2>3
    <3> QED
      BY <1>3, <1>22, <3>1
  <2>4. ASSUME NEW j \in 1 .. n - 1, ~(j < i) PROVE r[j] = q[j + 1]
    <3>1. j - (i - 1) \in 1 .. n - i /\ i + (j - (i - 1)) = j + 1 /\ ~(j <= i - 1)
      BY <1>1, <1>2, <2>4
    <3> QED
      BY <1>3, <1>22, <3>1
  <2> QED
    BY <2>3, <2>4
<1>6. \A j \in 1 .. n - 1 : j \in 1 .. n /\ j + 1 \in 1 .. n
  OBVIOUS
<1>7. Sorted(r)
  <2> SUFFICES ASSUME NEW j \in 1 .. n - 1, NEW k \in 1 .. n - 1, j < k
               PROVE  Rank[r[j]] < Rank[r[k]]
    BY <1>23 DEF Sorted
  <2>1. \A u, v \in 1 .. n : u < v => Rank[q[u]] < Rank[q[v]]
    BY <1>1 DEF Sorted
  <2>2. CASE k < i
    <3>1. j < i /\ r[j] = q[j] /\ r[k] = q[k]
      BY <1>2, <1>5, <2>2
    <3> QED
      BY <1>6, <2>1, <3>1
  <2>3. CASE j < i /\ ~(k < i)
    <3>1. j < k + 1 /\ r[j] = q[j] /\ r[k] = q[k + 1]
      BY <1>5, <2>3
    <3> QED
      BY <1>6, <2>1, <3>1
  <2>4. CASE ~(j < i) /\ ~(k < i)
    <3>1. j + 1 < k + 1 /\ r[j] = q[j + 1] /\ r[k] = q[k + 1]
      BY <1>5, <2>4
    <3> QED
      BY <1>6, <2>1, <3>1
  <2> QED
    BY <1>2, <2>2, <2>3, <2>4
<1>8. \A j \in 1 .. n : j # i => q[j] # q[i]
  <2>1. \A j \in 1 .. n : Rank[q[j]] \in 1 .. 30
    BY <1>1, RankType
  <2>2. \A u, v \in 1 .. n : u < v => Rank[q[u]] < Rank[q[v]]
    BY <1>1 DEF Sorted
  <2>3. \A j \in 1 .. n : j # i => Rank[q[j]] # Rank[q[i]]
    <3> SUFFICES ASSUME NEW j \in 1 .. n, j # i PROVE Rank[q[j]] # Rank[q[i]]
      OBVIOUS
    <3>1. i \in 1 .. n /\ (j < i \/ i < j)
      BY <1>1, <1>2
    <3>2. Rank[q[j]] < Rank[q[i]] \/ Rank[q[i]] < Rank[q[j]]
      BY <2>2, <3>1
    <3>3. \A x \in 1 .. 30 : x \in Int
      OBVIOUS
    <3>4. Rank[q[j]] \in Int /\ Rank[q[i]] \in Int
      BY <2>1, <3>1, <3>3
    <3> QED
      BY <3>2, <3>4
  <2> QED
    BY <2>3
<1>9. \A x \in Members(r) : x \in Members(q) /\ x # q[i]
  <2> SUFFICES ASSUME NEW j \in 1 .. n - 1 PROVE r[j] \in Members(q) /\ r[j] # q[i]
    BY <1>23 DEF Members
  <2>1. PICK k \in 1 .. n : k # i /\ r[j] = q[k]
    <3>1. CASE j < i
      BY <1>2, <1>5, <1>6, <3>1
    <3>2. CASE ~(j < i)
      <4>1. j + 1 # i /\ r[j] = q[j + 1]
        BY <1>2, <1>5, <3>2
      <4> QED
        BY <1>6, <4>1
    <3> QED
      BY <3>1, <3>2
  <2> QED
    BY <1>1, <1>8, <2>1 DEF Members
<1>10. \A x \in Members(q) : x # q[i] => x \in Members(r)
  <2> SUFFICES ASSUME NEW j \in 1 .. n, j # i PROVE q[j] \in Members(r)
    BY <1>1 DEF Members
  <2>1. CASE j < i
    <3>1. j \in 1 .. n - 1
      BY <1>1, <1>2, <2>1
    <3> QED
      BY <1>23, <1>5, <2>1, <3>1 DEF Members
  <2>2. CASE j > i
    <3>1. j - 1 \in 1 .. n - 1 /\ ~(j - 1 < i) /\ (j - 1) + 1 = j
      BY <1>1, <1>2, <2>2
    <3> QED
      BY <1>23, <1>5, <2>2, <3>1 DEF Members
  <2> QED
    BY <1>1, <1>2, <2>1, <2>2
<1> QED
  BY <1>22, <1>7, <1>9, <1>10

\* k holds the considered checks among the first n.
Kept(k, s, n) ==
    k = [i \in 0 .. n |->
           IF i = 0 THEN <<>>
           ELSE IF parallelism = 1 \/ s[i] \in Sampled THEN Append(k[i - 1], s[i])
           ELSE k[i - 1]]

\* The recursive function of Considered exists.
LEMMA KeptExist == ASSUME NEW s PROVE \A n \in Nat : \E k : Kept(k, s, n)
<1> DEFINE T == {n \in Nat : \E k : Kept(k, s, n)}
<1> DEFINE W(k, i) == IF i = 0 THEN <<>>
                      ELSE IF parallelism = 1 \/ s[i] \in Sampled THEN Append(k[i - 1], s[i])
                      ELSE k[i - 1]
<1>1. 0 \in T
  <2>1. \A i \in 0 .. 0 : i = 0
    OBVIOUS
  <2>2. Kept([i \in 0 .. 0 |-> <<>>], s, 0)
    BY <2>1 DEF Kept
  <2> QED
    BY <2>2
<1>2. ASSUME NEW n \in Nat, n \in T PROVE n + 1 \in T
  <2>1. PICK k : Kept(k, s, n)
    BY <1>2
  <2>2. PICK t : t = [i \in 0 .. n + 1 |-> W(k, i)]
    OBVIOUS
  <2>3. \A i \in 0 .. n : t[i] = k[i]
    <3>1. \A i \in 0 .. n : i \in 0 .. n + 1
      OBVIOUS
    <3>2. \A i \in 0 .. n : k[i] = W(k, i)
      BY <2>1 DEF Kept
    <3> HIDE DEF W
    <3> QED
      BY <2>2, <3>1, <3>2
  <2>4. \A i \in 0 .. n + 1 : i # 0 => i - 1 \in 0 .. n
    OBVIOUS
  <2>5. \A i \in 0 .. n + 1 : W(k, i) = W(t, i)
    BY <2>3, <2>4
  <2>6. t = [i \in 0 .. n + 1 |-> W(t, i)]
    <3> HIDE DEF W
    <3> QED
      BY <2>2, <2>5
  <2>7. Kept(t, s, n + 1)
    BY <2>6 DEF Kept
  <2> QED
    BY <2>7
<1> HIDE DEF T
<1>3. \A n \in Nat : n \in T
  BY <1>1, <1>2, SetInduction
<1> QED
  BY <1>3 DEF T

\* Considered keeps the order, and of the checks exactly those of the bound.
LEMMA Considers ==
    ASSUME NEW s \in Seq(Names), Sorted(s)
    PROVE  /\ Considered(s) \in Seq(Names) /\ Sorted(Considered(s))
           /\ Members(Considered(s)) = {c \in Members(s) : parallelism = 1 \/ c \in Sampled}
<1>1. PICK n \in Nat : n = Len(s) /\ DOMAIN s = 1 .. n
  OBVIOUS
<1>2. PICK k : k = CHOOSE t : Kept(t, s, Len(s))
  OBVIOUS
<1>3. Kept(k, s, n)
  <2>1. \E t : Kept(t, s, Len(s))
    BY <1>1, KeptExist
  <2> QED
    BY <1>1, <1>2, <2>1
<1>4. Considered(s) = k[n]
  BY <1>1, <1>2 DEF Considered, Kept
<1>5. k[0] = <<>> /\ \A i \in Nat : i + 1 <= n =>
         k[i + 1] = IF parallelism = 1 \/ s[i + 1] \in Sampled THEN Append(k[i], s[i + 1]) ELSE k[i]
  <2>1. \A i \in 0 .. n : k[i] = IF i = 0 THEN <<>>
           ELSE IF parallelism = 1 \/ s[i] \in Sampled THEN Append(k[i - 1], s[i]) ELSE k[i - 1]
    BY <1>3 DEF Kept
  <2>2. 0 \in 0 .. n /\ \A i \in Nat : i + 1 <= n => i + 1 \in 0 .. n /\ i + 1 # 0 /\ (i + 1) - 1 = i
    BY <1>1
  <2> QED
    BY <2>1, <2>2
<1> DEFINE Taken(i) == {c \in {s[j] : j \in 1 .. i} : parallelism = 1 \/ c \in Sampled}
<1> DEFINE T == {i \in Nat : i <= n => k[i] \in Seq(Names) /\ Sorted(k[i]) /\ Members(k[i]) = Taken(i)}
<1>6. 0 \in T
  <2>1. <<>> \in Seq(Names) /\ Sorted(<<>>) /\ Members(<<>>) = {}
    BY DEF Sorted, Members
  <2>2. Taken(0) = {}
    OBVIOUS
  <2> QED
    BY <1>5, <2>1, <2>2
<1>7. ASSUME NEW i \in Nat, i \in T PROVE i + 1 \in T
  <2> SUFFICES ASSUME i + 1 <= n
               PROVE  k[i + 1] \in Seq(Names) /\ Sorted(k[i + 1]) /\ Members(k[i + 1]) = Taken(i + 1)
    OBVIOUS
  <2>1. k[i] \in Seq(Names) /\ Sorted(k[i]) /\ Members(k[i]) = Taken(i)
    BY <1>1, <1>7
  <2>2. s[i + 1] \in Names /\ i + 1 \in 1 .. n
    BY <1>1
  <2>3. {s[j] : j \in 1 .. i + 1} = {s[j] : j \in 1 .. i} \cup {s[i + 1]}
    <3>1. \A j \in 1 .. i + 1 : j \in 1 .. i \/ j = i + 1
      OBVIOUS
    <3>2. \A j \in 1 .. i : j \in 1 .. i + 1
      OBVIOUS
    <3>3. i + 1 \in 1 .. i + 1
      OBVIOUS
    <3> QED
      BY <3>1, <3>2, <3>3, Zenon
  <2>4. \A c \in Members(k[i]) : Rank[c] < Rank[s[i + 1]]
    <3>1. \A j \in 1 .. i : Rank[s[j]] < Rank[s[i + 1]]
      <4>1. \A j \in 1 .. i : j \in 1 .. n /\ j < i + 1
        BY <1>1
      <4> QED
        BY <1>1, <2>2, <4>1 DEF Sorted
    <3> QED
      BY <2>1, <3>1
  <2>5. CASE parallelism = 1 \/ s[i + 1] \in Sampled
    <3>1. PICK r : r = Append(k[i], s[i + 1])
      OBVIOUS
    <3>2. k[i + 1] = r
      BY <1>5, <2>5, <3>1
    <3>3. r \in Seq(Names) /\ Sorted(r) /\ Members(r) = Members(k[i]) \cup {s[i + 1]}
      BY <2>1, <2>2, <2>4, <3>1, SortedAppend
    <3>4. Taken(i + 1) = Taken(i) \cup {s[i + 1]}
      BY <2>3, <2>5
    <3> QED
      BY <2>1, <3>2, <3>3, <3>4
  <2>6. CASE ~(parallelism = 1 \/ s[i + 1] \in Sampled)
    <3>1. k[i + 1] = k[i]
      BY <1>5, <2>6
    <3>2. Taken(i + 1) = Taken(i)
      BY <2>3, <2>6
    <3> QED
      BY <2>1, <3>1, <3>2
  <2> QED
    BY <2>5, <2>6
<1> HIDE DEF T
<1>8. n \in T
  BY <1>1, <1>6, <1>7, SetInduction
<1>9. n <= n
  BY <1>1
<1> QED
  <2>1. k[n] \in Seq(Names) /\ Sorted(k[n]) /\ Members(k[n]) = Taken(n)
    BY <1>1, <1>8, <1>9 DEF T
  <2>2. Members(s) = {s[j] : j \in 1 .. n}
    BY <1>1 DEF Members
  <2> QED
    BY <1>4, <2>1, <2>2

\* The checks of a group follow each other in the order of registration.
Group(q, m, n) ==
    /\ q \in Seq(Names) /\ Sorted(q)
    /\ Members(q) = {c \in Names : m < Rank[c] /\ Rank[c] <= n}

\* Each group of checks is the interval of its ranks.
LEMMA GroupOrder ==
    /\ Group(HealthChecks, 0, 2)
    /\ Group(AuthChecks, 2, 7)
    /\ Group(RESTChecks, 7, 13)
    /\ Group(CompanyChecks, 13, 20)
    /\ Group(DocumentChecks, 20, 22)
    /\ Group(GraphQLChecks, 22, 26)
    /\ Group(GRPCChecks, 26, 30)
<1>1. Group(HealthChecks, 0, 2)
  <2>1. HealthChecks \in Seq(Names) /\ DOMAIN HealthChecks = 1 .. 2
    BY AllNames DEF Known, HealthChecks
  <2>2. \A i \in 1 .. 2 : Rank[HealthChecks[i]] = 0 + i
    BY DEF HealthChecks, Rank
  <2>3. Sorted(HealthChecks)
    BY <2>1, <2>2 DEF Sorted
  <2>4. Members(HealthChecks) = {"health", "ready"}
    BY <2>1 DEF Members, HealthChecks
  <2>5. \A c \in Known : c \in {"health", "ready"} <=> 0 < Rank[c] /\ Rank[c] <= 2
    BY DEF Known, Rank
  <2>6. {"health", "ready"} \subseteq Known
    BY DEF Known
  <2> QED
    BY <2>1, <2>3, <2>4, <2>5, <2>6, AllNames DEF Group
<1>2. Group(AuthChecks, 2, 7)
  <2>1. AuthChecks \in Seq(Names) /\ DOMAIN AuthChecks = 1 .. 5
    BY AllNames DEF Known, AuthChecks
  <2>2. \A i \in 1 .. 5 : Rank[AuthChecks[i]] = 2 + i
    BY DEF AuthChecks, Rank
  <2>3. Sorted(AuthChecks)
    BY <2>1, <2>2 DEF Sorted
  <2>4. Members(AuthChecks) = {"register", "login", "me", "totp", "captcha"}
    BY <2>1 DEF Members, AuthChecks
  <2>5. \A c \in Known : c \in {"register", "login", "me", "totp", "captcha"} <=> 2 < Rank[c] /\ Rank[c] <= 7
    BY DEF Known, Rank
  <2>6. {"register", "login", "me", "totp", "captcha"} \subseteq Known
    BY DEF Known
  <2> QED
    BY <2>1, <2>3, <2>4, <2>5, <2>6, AllNames DEF Group
<1>3. Group(RESTChecks, 7, 13)
  <2>1. RESTChecks \in Seq(Names) /\ DOMAIN RESTChecks = 1 .. 6
    BY AllNames DEF Known, RESTChecks
  <2>2. \A i \in 1 .. 6 : Rank[RESTChecks[i]] = 7 + i
    BY DEF RESTChecks, Rank
  <2>3. Sorted(RESTChecks)
    BY <2>1, <2>2 DEF Sorted
  <2>4. Members(RESTChecks) = {"createRole", "listRoles", "createTenant", "createKey", "listKeys", "stats"}
    BY <2>1 DEF Members, RESTChecks
  <2>5. \A c \in Known : c \in {"createRole", "listRoles", "createTenant", "createKey", "listKeys", "stats"}
                            <=> 7 < Rank[c] /\ Rank[c] <= 13
    BY DEF Known, Rank
  <2>6. {"createRole", "listRoles", "createTenant", "createKey", "listKeys", "stats"} \subseteq Known
    BY DEF Known
  <2> QED
    BY <2>1, <2>3, <2>4, <2>5, <2>6, AllNames DEF Group
<1>4. Group(CompanyChecks, 13, 20)
  <2>1. CompanyChecks \in Seq(Names) /\ DOMAIN CompanyChecks = 1 .. 7
    BY AllNames DEF Known, CompanyChecks
  <2>2. \A i \in 1 .. 7 : Rank[CompanyChecks[i]] = 13 + i
    BY DEF CompanyChecks, Rank
  <2>3. Sorted(CompanyChecks)
    BY <2>1, <2>2 DEF Sorted
  <2>4. Members(CompanyChecks) = {"createCompany", "listCompanies", "getCompany", "switchCompany",
          "clearContext", "badCompany", "lookup"}
    BY <2>1 DEF Members, CompanyChecks
  <2>5. \A c \in Known : c \in {"createCompany", "listCompanies", "getCompany", "switchCompany",
          "clearContext", "badCompany", "lookup"} <=> 13 < Rank[c] /\ Rank[c] <= 20
    BY DEF Known, Rank
  <2>6. {"createCompany", "listCompanies", "getCompany", "switchCompany",
          "clearContext", "badCompany", "lookup"} \subseteq Known
    BY DEF Known
  <2> QED
    BY <2>1, <2>3, <2>4, <2>5, <2>6, AllNames DEF Group
<1>5. Group(DocumentChecks, 20, 22)
  <2>1. DocumentChecks \in Seq(Names) /\ DOMAIN DocumentChecks = 1 .. 2
    BY AllNames DEF Known, DocumentChecks
  <2>2. \A i \in 1 .. 2 : Rank[DocumentChecks[i]] = 20 + i
    BY DEF DocumentChecks, Rank
  <2>3. Sorted(DocumentChecks)
    BY <2>1, <2>2 DEF Sorted
  <2>4. Members(DocumentChecks) = {"validCPF", "invalidCPF"}
    BY <2>1 DEF Members, DocumentChecks
  <2>5. \A c \in Known : c \in {"validCPF", "invalidCPF"} <=> 20 < Rank[c] /\ Rank[c] <= 22
    BY DEF Known, Rank
  <2>6. {"validCPF", "invalidCPF"} \subseteq Known
    BY DEF Known
  <2> QED
    BY <2>1, <2>3, <2>4, <2>5, <2>6, AllNames DEF Group
<1>6. Group(GraphQLChecks, 22, 26)
  <2>1. GraphQLChecks \in Seq(Names) /\ DOMAIN GraphQLChecks = 1 .. 4
    BY AllNames DEF Known, GraphQLChecks
  <2>2. \A i \in 1 .. 4 : Rank[GraphQLChecks[i]] = 22 + i
    BY DEF GraphQLChecks, Rank
  <2>3. Sorted(GraphQLChecks)
    BY <2>1, <2>2 DEF Sorted
  <2>4. Members(GraphQLChecks) = {"introspection", "gqlMe", "gqlCompanies", "gqlStatus"}
    BY <2>1 DEF Members, GraphQLChecks
  <2>5. \A c \in Known : c \in {"introspection", "gqlMe", "gqlCompanies", "gqlStatus"}
                            <=> 22 < Rank[c] /\ Rank[c] <= 26
    BY DEF Known, Rank
  <2>6. {"introspection", "gqlMe", "gqlCompanies", "gqlStatus"} \subseteq Known
    BY DEF Known
  <2> QED
    BY <2>1, <2>3, <2>4, <2>5, <2>6, AllNames DEF Group
<1>7. Group(GRPCChecks, 26, 30)
  <2>1. GRPCChecks \in Seq(Names) /\ DOMAIN GRPCChecks = 1 .. 4
    BY AllNames DEF Known, GRPCChecks
  <2>2. \A i \in 1 .. 4 : Rank[GRPCChecks[i]] = 26 + i
    BY DEF GRPCChecks, Rank
  <2>3. Sorted(GRPCChecks)
    BY <2>1, <2>2 DEF Sorted
  <2>4. Members(GRPCChecks) = {"grpc", "grpcToken", "grpcRoles", "grpcAccess"}
    BY <2>1 DEF Members, GRPCChecks
  <2>5. \A c \in Known : c \in {"grpc", "grpcToken", "grpcRoles", "grpcAccess"}
                            <=> 26 < Rank[c] /\ Rank[c] <= 30
    BY DEF Known, Rank
  <2>6. {"grpc", "grpcToken", "grpcRoles", "grpcAccess"} \subseteq Known
    BY DEF Known
  <2> QED
    BY <2>1, <2>3, <2>4, <2>5, <2>6, AllNames DEF Group
<1> QED
  BY <1>1, <1>2, <1>3, <1>4, <1>5, <1>6, <1>7

\* Groups one after the other form a group.
LEMMA NoChecks == ASSUME NEW m \in Nat PROVE Group(<<>>, m, m)
<1>1. \A c \in Names : Rank[c] \in Int
  BY RankType
<1>2. <<>> \in Seq(Names) /\ Sorted(<<>>) /\ Members(<<>>) = {}
  BY DEF Sorted, Members
<1> QED
  BY <1>1, <1>2 DEF Group

\* A sequence of checks with ranks up to n.
UpTo(q, n) == q \in Seq(Names) /\ Sorted(q) /\ \A c \in Members(q) : Rank[c] <= n

LEMMA NextGroup ==
    ASSUME NEW p, NEW q, NEW l \in Nat, NEW m \in Nat, NEW n \in Nat, l <= m, m <= n,
           UpTo(p, l), Group(q, m, n)
    PROVE  UpTo(p \o q, n) /\ Members(p \o q) = Members(p) \cup Members(q)
<1>1. \A c \in Names : Rank[c] \in Int
  BY RankType
<1>2. \A c \in Members(p) : c \in Names
  BY DEF UpTo, Members
<1>3. \A c \in Members(p), d \in Members(q) : Rank[c] < Rank[d]
  BY <1>1, <1>2 DEF UpTo, Group
<1>4. p \in Seq(Names) /\ q \in Seq(Names) /\ Sorted(p) /\ Sorted(q)
  BY DEF UpTo, Group
<1>5. PICK r : r = p \o q
  OBVIOUS
<1>6. r \in Seq(Names) /\ Sorted(r) /\ Members(r) = Members(p) \cup Members(q)
  BY <1>3, <1>4, <1>5, SortedConcat
<1>7. \A c \in Members(r) : Rank[c] <= n
  BY <1>1, <1>2, <1>6 DEF UpTo, Group
<1> QED
  BY <1>5, <1>6, <1>7 DEF UpTo

LEMMA JoinGroups ==
    ASSUME NEW p, NEW q, NEW l \in Nat, NEW m \in Nat, NEW n \in Nat, l <= m, m <= n,
           Group(p, l, m), Group(q, m, n)
    PROVE  Group(p \o q, l, n)
<1>1. \A c \in Names : Rank[c] \in Int
  BY RankType
<1>2. UpTo(p, m)
  BY DEF Group, UpTo
<1>3. UpTo(p \o q, n) /\ Members(p \o q) = Members(p) \cup Members(q)
  BY <1>2, NextGroup
<1>4. Members(p \o q) = {c \in Names : l < Rank[c] /\ Rank[c] <= n}
  <2>1. \A c \in Names : l < Rank[c] /\ Rank[c] <= n <=>
           (l < Rank[c] /\ Rank[c] <= m) \/ (m < Rank[c] /\ Rank[c] <= n)
    BY <1>1
  <2> QED
    BY <1>3, <2>1 DEF Group
<1> QED
  BY <1>3, <1>4 DEF Group, UpTo

\* What run() registers: every check that is not left out, in order, once.
LEMMA Registers ==
    ASSUME parallelism \in Nat \ {0}
    PROVE  /\ ToRegister \in Seq(Names) /\ Sorted(ToRegister)
           /\ \A c \in Names : c \in Members(ToRegister) \/ LeftOut(c)
<1>1. PICK x : x = IF context.token THEN RESTChecks \o CompanyChecks \o DocumentChecks ELSE <<>>
  OBVIOUS
<1>2. Group(RESTChecks \o CompanyChecks \o DocumentChecks, 7, 22)
  <2>1. Group(RESTChecks \o CompanyChecks, 7, 20)
    BY GroupOrder, JoinGroups
  <2> QED
    BY <2>1, GroupOrder, JoinGroups
<1>3. Group(x, 7, 22) \/ (~context.token /\ x = <<>> /\ Group(x, 22, 22))
  <2>1. Group(<<>>, 22, 22)
    BY NoChecks
  <2> QED
    BY <1>1, <1>2, <2>1
<1>4. PICK g : g = Unless("graphql", GraphQLChecks)
  OBVIOUS
<1>5. PICK r : r = Unless("grpc", GRPCChecks)
  OBVIOUS
<1>6. Group(g, 22, 26) \/ ("graphql" \in skipped /\ Group(g, 26, 26))
  <2>1. Group(<<>>, 26, 26)
    BY NoChecks
  <2> QED
    BY <1>4, <2>1, GroupOrder DEF Unless
<1>7. Group(r, 26, 30) \/ ("grpc" \in skipped /\ Group(r, 30, 30))
  <2>1. Group(<<>>, 30, 30)
    BY NoChecks
  <2> QED
    BY <1>5, <2>1, GroupOrder DEF Unless
<1>8. PICK p : p = HealthChecks \o AuthChecks
  OBVIOUS
<1>9. Group(p, 0, 7)
  BY <1>8, GroupOrder, JoinGroups
<1>10. UpTo(p, 7)
  BY <1>9 DEF Group, UpTo
<1>11. UpTo(p \o x, 22) /\ Members(p \o x) = Members(p) \cup Members(x)
  BY <1>3, <1>10, NextGroup
<1>12. UpTo(p \o x \o g, 26) /\ Members(p \o x \o g) = Members(p) \cup Members(x) \cup Members(g)
  <2>1. UpTo(p \o x \o g, 26) /\ Members(p \o x \o g) = Members(p \o x) \cup Members(g)
    BY <1>6, <1>11, NextGroup
  <2> QED
    BY <1>11, <2>1
<1>13. PICK s : s = p \o x \o g \o r
  OBVIOUS
<1>14. UpTo(s, 30) /\ Members(s) = Members(p) \cup Members(x) \cup Members(g) \cup Members(r)
  <2>1. UpTo(s, 30) /\ Members(s) = Members(p \o x \o g) \cup Members(r)
    BY <1>7, <1>12, <1>13, NextGroup
  <2> QED
    BY <1>12, <2>1
<1>15. ToRegister = Considered(s)
  BY <1>1, <1>4, <1>5, <1>8, <1>13 DEF ToRegister
<1>16. /\ ToRegister \in Seq(Names) /\ Sorted(ToRegister)
       /\ Members(ToRegister) = {c \in Members(s) : parallelism = 1 \/ c \in Sampled}
  BY <1>14, <1>15, Considers DEF UpTo
<1>17. ASSUME NEW c \in Names PROVE c \in Members(s) \/ LeftOut(c)
  <2>1. Rank[c] \in Int /\ 0 < Rank[c] /\ Rank[c] <= 30
    <3>1. \A k \in 1 .. 30 : k \in Int /\ 0 < k /\ k <= 30
      OBVIOUS
    <3> QED
      BY <3>1, RankType
  <2>2. CASE Rank[c] <= 7
    BY <1>9, <1>14, <2>1, <2>2 DEF Group
  <2>3. CASE 7 < Rank[c] /\ Rank[c] <= 22
    <3>1. Group(x, 7, 22) => c \in Members(s)
      BY <1>14, <2>3 DEF Group
    <3>2. c \in NeedLogin
      <4>1. 7 < Rank[c] /\ Rank[c] <= 13 => c \in Members(RESTChecks)
        BY GroupOrder DEF Group
      <4>2. 13 < Rank[c] /\ Rank[c] <= 20 => c \in Members(CompanyChecks)
        BY GroupOrder DEF Group
      <4>3. 20 < Rank[c] /\ Rank[c] <= 22 => c \in Members(DocumentChecks)
        BY GroupOrder DEF Group
      <4> QED
        BY <2>1, <2>3, <4>1, <4>2, <4>3 DEF NeedLogin
    <3> QED
      BY <1>3, <3>1, <3>2 DEF LeftOut
  <2>4. CASE 22 < Rank[c] /\ Rank[c] <= 26
    <3>1. Group(g, 22, 26) => c \in Members(s)
      BY <1>14, <2>4 DEF Group
    <3>2. c \in Members(GraphQLChecks)
      BY <2>4, GroupOrder DEF Group
    <3> QED
      BY <1>6, <3>1, <3>2 DEF LeftOut
  <2>5. CASE 26 < Rank[c]
    <3>1. Group(r, 26, 30) => c \in Members(s)
      BY <1>14, <2>1, <2>5 DEF Group
    <3>2. c \in Members(GRPCChecks)
      BY <2>1, <2>5, GroupOrder DEF Group
    <3> QED
      BY <1>7, <3>1, <3>2 DEF LeftOut
  <2> QED
    BY <2>1, <2>2, <2>3, <2>4, <2>5
<1>18. \A c \in Names : (parallelism = 1 \/ c \in Sampled) \/ LeftOut(c)
  BY DEF LeftOut
<1> QED
  BY <1>16, <1>17, <1>18

-----------------------------------------------------------------------------
(* Started checks.                                                         *)

Replies ==
    {"", "error", "missing", "failed", "unauthorized", "forbidden", "conflict"}
    \cup UNION {Check[c].expects : c \in Names}

Slots == [phase : {"idle", "call", "sent", "answered", "backoff"}, attempt : 0 .. MaxRetries,
          answer : Replies, company : Nat]

Verdicts == {"none", "passed", "failed", "cancelled"}

RunnerTypes ==
    /\ parallelism \in Widths \cup {1} /\ skipped \in Skips \cup {{}}
    /\ stage \in {"flags", "auth", "main", "done"} /\ queue \in Seq(Names)
    /\ checking \in [Names -> Slots]
    /\ verdict \in [Names -> Verdicts] /\ copied \in [Names -> Verdicts]
    /\ context \in [token : BOOLEAN, user : BOOLEAN, company : Nat, emailVerified : BOOLEAN]
    /\ api \in [registered : BOOLEAN, active : BOOLEAN, companies : Nat]
    /\ interrupted \in {"no", "auth", "all"}
    /\ strikes \in [Names -> Nat]

\* The parts of the type invariant, under names the provers handle.
LEMMA TypeParts == VerifierTypeOK <=> RunnerTypes
  BY DEF VerifierTypeOK, RunnerTypes, Slots, Replies, Verdicts

\* Every answer is a reply.
LEMMA ReplyTypes ==
    /\ \A a \in {"", "error", "missing", "failed", "conflict", "ok"} : a \in Replies
    /\ \A c \in Names : Answer(c) \in Replies
<1>1. \A a \in {"", "error", "missing", "failed", "unauthorized", "forbidden", "conflict"} : a \in Replies
  BY DEF Replies
<1>2. \A c \in Names : \A a \in Check[c].expects : a \in Replies
  BY DEF Replies
<1>3. "ok" \in Replies /\ "login" \in Names
  BY <1>2, TableFacts, AllNames DEF Known
<1>4. "invalid" \in Replies
  <2>1. "invalidCPF" \in Names /\ "invalid" \in Check["invalidCPF"].expects
    BY AllNames DEF Known, Check, makeValidateCPFCheck, Fn
  <2> QED
    BY <1>2, <2>1
<1>5. ASSUME NEW c \in Names PROVE Answer(c) \in Replies
  <2>1. CASE Answer(c) \in Check[c].expects
    BY <1>2, <2>1
  <2>2. CASE Answer(c) \notin Check[c].expects
    <3>1. c \in {"register", "login", "getCompany", "switchCompany", "gqlStatus", "grpcAccess"}
      BY <2>2, TableFacts
    <3>2. Answer(c) \in {"failed", "created", "unauthorized", "ok", "forbidden", "valid", "invalid"}
      BY <3>1 DEF Answer, RegisterStatus, LoginStatus, CompanyStatus, ValidateCompanyAccess
    <3>3. "created" \in Replies
      BY <1>2, TableFacts, AllNames DEF Known
    <3>4. "valid" \in Replies
      <4>1. "grpcAccess" \in Names /\ "valid" \in Check["grpcAccess"].expects
        BY AllNames, CheckTable DEF Known, makeGRPCValidateCompanyAccessCheck, Fn
      <4> QED
        BY <1>2, <4>1
    <3> QED
      BY <1>1, <1>3, <1>4, <3>2, <3>3, <3>4
  <2> QED
    BY <2>1, <2>2
<1> QED
  BY <1>1, <1>3, <1>5

\* The step changes the slot of c and no other.
Slotted(c, phase, attempt, answer, company) ==
    /\ checking' \in [Names -> Slots]
    /\ \A d \in Names : d # c => checking'[d] = checking[d]
    /\ checking'[c].phase = phase /\ checking'[c].attempt = attempt
    /\ checking'[c].answer = answer /\ checking'[c].company = company

LEMMA SlotTypes ==
    ASSUME checking \in [Names -> Slots], NEW c \in Names
    PROVE  /\ checking[c].phase \in {"idle", "call", "sent", "answered", "backoff"}
           /\ checking[c].attempt \in 0 .. MaxRetries /\ checking[c].answer \in Replies
           /\ checking[c].company \in Nat
<1> HIDE DEF Replies
<1> QED
  BY DEF Slots

\* What an assignment to a slot leaves in it.
LEMMA SlotSet ==
    ASSUME checking \in [Names -> Slots], NEW c \in Names, NEW s \in Slots,
           checking' = [checking EXCEPT ![c] = s]
    PROVE  Slotted(c, s.phase, s.attempt, s.answer, s.company)
  BY DEF Slotted

LEMMA NewSlots ==
    /\ NoSlot \in Slots /\ NoSlot.phase = "idle" /\ NoSlot.attempt = 0 /\ NoSlot.answer = ""
    /\ NoSlot.company = 0
    /\ \A t \in 0 .. MaxRetries : \A s :
          s = [NoSlot EXCEPT !.phase = "call", !.attempt = t] =>
              s \in Slots /\ s.phase = "call" /\ s.attempt = t /\ s.answer = "" /\ s.company = 0
    /\ \A s : s = [NoSlot EXCEPT !.phase = "call"] =>
              s \in Slots /\ s.phase = "call" /\ s.attempt = 0 /\ s.answer = "" /\ s.company = 0
<1>1. MaxRetries \in Nat
  BY VerifierAssumption
<1>2. 0 \in 0 .. MaxRetries
  BY <1>1
<1>3. "" \in Replies
  BY ReplyTypes
<1>4. /\ NoSlot \in Slots /\ NoSlot.phase = "idle" /\ NoSlot.attempt = 0 /\ NoSlot.answer = ""
      /\ NoSlot.company = 0
  BY <1>2, <1>3 DEF NoSlot, Slots
<1>5. ASSUME NEW t \in 0 .. MaxRetries, NEW s, s = [NoSlot EXCEPT !.phase = "call", !.attempt = t]
      PROVE  s \in Slots /\ s.phase = "call" /\ s.attempt = t /\ s.answer = "" /\ s.company = 0
  BY <1>3, <1>5 DEF NoSlot, Slots
<1>6. ASSUME NEW s, s = [NoSlot EXCEPT !.phase = "call"]
      PROVE  s \in Slots /\ s.phase = "call" /\ s.attempt = 0 /\ s.answer = "" /\ s.company = 0
  BY <1>2, <1>3, <1>6 DEF NoSlot, Slots
<1> QED
  BY <1>4, <1>5, <1>6

LEMMA Emptied ==
    ASSUME checking \in [Names -> Slots], NEW c \in Names, checking' = [checking EXCEPT ![c] = NoSlot]
    PROVE  Slotted(c, "idle", 0, "", 0)
<1>1. Slotted(c, NoSlot.phase, NoSlot.attempt, NoSlot.answer, NoSlot.company)
  BY NewSlots, SlotSet
<1> QED
  BY <1>1, NewSlots

LEMMA Called ==
    ASSUME checking \in [Names -> Slots], NEW c \in Names, NEW t \in 0 .. MaxRetries,
           \/ checking' = [checking EXCEPT ![c] = [NoSlot EXCEPT !.phase = "call", !.attempt = t]]
           \/ t = 0 /\ checking' = [checking EXCEPT ![c] = [NoSlot EXCEPT !.phase = "call"]]
    PROVE  Slotted(c, "call", t, "", 0)
<1>1. PICK s : /\ \/ s = [NoSlot EXCEPT !.phase = "call", !.attempt = t]
                  \/ t = 0 /\ s = [NoSlot EXCEPT !.phase = "call"]
               /\ checking' = [checking EXCEPT ![c] = s]
  OBVIOUS
<1>2. s \in Slots /\ s.phase = "call" /\ s.attempt = t /\ s.answer = "" /\ s.company = 0
  <2>1. CASE s = [NoSlot EXCEPT !.phase = "call", !.attempt = t]
    BY <2>1, NewSlots, Zenon
  <2>2. CASE t = 0 /\ s = [NoSlot EXCEPT !.phase = "call"]
    BY <2>2, NewSlots, Zenon
  <2> QED
    BY <1>1, <2>1, <2>2
<1>3. Slotted(c, s.phase, s.attempt, s.answer, s.company)
  BY <1>1, <1>2, SlotSet
<1> QED
  BY <1>2, <1>3

LEMMA Answered ==
    ASSUME checking \in [Names -> Slots], NEW c \in Names, NEW a \in Replies, Outcome(c, a)
    PROVE  Slotted(c, "answered", checking[c].attempt, a, checking[c].company)
  BY SlotTypes DEF Outcome, Slotted, Slots

\* A step of the goroutine that runs check c.
SlotStep(c) ==
    /\ UNCHANGED <<parallelism, skipped, stage, queue, copied, interrupted>>
    /\ checking' \in [Names -> Slots] /\ verdict' \in [Names -> Verdicts]
    /\ strikes' \in [Names -> Nat] /\ strikes'[c] >= strikes[c]
    /\ \A d \in Names : d # c => /\ checking'[d] = checking[d] /\ verdict'[d] = verdict[d]
                                 /\ strikes'[d] = strikes[d]

\* The parts of the invariant.
LEMMA InvParts ==
    ASSUME RunnerInv
    PROVE  /\ RunnerTypes /\ QueueInv /\ StageInv /\ RegisteredInv /\ AttemptInv /\ SignupInv
           /\ LoginInv /\ CompanyInv /\ CreatedInv
  BY TypeParts DEF RunnerInv

LEMMA WidthType == ASSUME RunnerInv PROVE parallelism \in Nat /\ parallelism # 0
<1>1. \A w \in Widths : w \in Nat /\ w # 0
  BY VerifierAssumption
<1>2. parallelism \in Widths \/ parallelism = 1
  BY InvParts DEF RunnerTypes
<1> QED
  BY <1>1, <1>2

\* Where the checks the invariant names stand.
LEMMA Literals ==
    /\ {"register", "login", "createCompany", "listCompanies"} \subseteq Names
    /\ \A c \in Names : Rank[c] \in Int
    /\ Rank["register"] = 3 /\ Rank["login"] = 4 /\ Rank["createCompany"] = 14
    /\ \A c \in {"getCompany", "switchCompany", "gqlStatus", "grpcAccess"} : Rank[c] > 14
    /\ AuthNames = {c \in Names : 2 < Rank[c] /\ Rank[c] <= 7}
    /\ "register" \in AuthNames /\ "login" \in AuthNames /\ "createCompany" \in NeedLogin
<1>1. {"register", "login", "createCompany", "listCompanies"} \subseteq Names
  BY AllNames DEF Known
<1>2. \A c \in Names : Rank[c] \in Int
  BY RankType
<1>3. /\ Rank["register"] = 3 /\ Rank["login"] = 4 /\ Rank["createCompany"] = 14
      /\ \A c \in {"getCompany", "switchCompany", "gqlStatus", "grpcAccess"} : Rank[c] > 14
  BY DEF Rank
<1>4. AuthNames = {c \in Names : 2 < Rank[c] /\ Rank[c] <= 7}
  BY GroupOrder DEF Group, AuthNames
<1>5. "createCompany" \in Members(CompanyChecks)
  BY <1>1, <1>3, GroupOrder DEF Group
<1> QED
  BY <1>1, <1>2, <1>3, <1>4, <1>5 DEF NeedLogin

\* A step of a check that goes on leaves the queue alone.
LEMMA StillRunning ==
    ASSUME RunnerInv, NEW c \in Busy, SlotStep(c), checking'[c].phase # "idle", verdict' = verdict,
           context'.token = context.token, context'.company = context.company,
           c # "register" => api'.registered = api.registered
    PROVE  QueueInv' /\ StageInv' /\ RegisteredInv'
<1>1. Busy' = Busy
  BY DEF Busy, SlotStep
<1>2. Waiting' = Waiting /\ Width' = Width
  BY DEF Waiting, Width, SlotStep
<1>3. QueueInv'
  BY <1>1, <1>2, InvParts DEF QueueInv, SlotStep
<1>4. stage # "flags"
  BY InvParts DEF QueueInv
<1>5. StageInv'
  <2>1. "register" \in Waiting => c # "register"
    BY InvParts DEF QueueInv
  <2> QED
    BY <1>1, <1>2, <1>4, <2>1, InvParts DEF StageInv, SlotStep
<1>6. \A d \in Names : LeftOut(d)' = LeftOut(d)
  BY DEF LeftOut, SlotStep
<1>7. RegisteredInv'
  BY <1>1, <1>2, <1>6, InvParts DEF RegisteredInv, SlotStep
<1> QED
  BY <1>3, <1>5, <1>7

\* So does a step that ends a check: it gives up its place for a result.
LEMMA RunnerLeft ==
    ASSUME RunnerInv, NEW c \in Busy, SlotStep(c), checking'[c].phase = "idle", verdict'[c] # "none",
           stage = "main" => context'.token = context.token,
           stage = "auth" => context'.company = context.company, api' = api
    PROVE  QueueInv' /\ StageInv' /\ RegisteredInv'
<1>1. Busy' = Busy \ {c} /\ c \in Names
  BY DEF Busy, SlotStep
<1>2. Waiting' = Waiting /\ Width' = Width
  BY DEF Waiting, Width, SlotStep
<1>3. stage \in {"auth", "main"}
  BY InvParts DEF QueueInv, RunnerTypes
<1>4. Waiting \subseteq Names
  BY InvParts DEF Waiting, Members, RunnerTypes
<1>5. QueueInv'
  <2>1. stage' \notin {"flags", "done"}
    BY <1>3 DEF SlotStep
  <2>2. Sorted(queue')
    BY InvParts DEF QueueInv, SlotStep
  <2>3. \A d \in Waiting' \cup Busy' : verdict'[d] = "none"
    <3>1. \A d \in Waiting \cup (Busy \ {c}) : d # c /\ d \in Names
      BY <1>4, InvParts DEF QueueInv, Busy
    <3> QED
      BY <1>1, <1>2, <3>1, InvParts DEF QueueInv, SlotStep
  <2>4. Waiting' \cap Busy' = {}
    BY <1>1, <1>2, InvParts DEF QueueInv
  <2>5. Width = 1 => Busy' = {}
    BY <1>1, InvParts DEF QueueInv
  <2> QED
    BY <1>2, <2>1, <2>2, <2>3, <2>4, <2>5 DEF QueueInv
<1>6. StageInv'
  <2>1. \A d \in Names : (d \in Waiting' \cup Busy' \/ verdict'[d] # "none")
                           <=> (d \in Waiting \cup Busy \/ verdict[d] # "none")
    BY <1>1, <1>2 DEF SlotStep
  <2>2. stage = "auth" => ("register" \in Waiting' => ~api'.registered)
    BY <1>2, InvParts DEF StageInv
  <2> QED
    BY <1>3, <2>1, <2>2, InvParts DEF StageInv, SlotStep
<1>7. RegisteredInv'
  <2>1. \A d \in Names : stage = "main" => LeftOut(d)' = LeftOut(d)
    BY DEF LeftOut, SlotStep
  <2>2. \A d \in Names : d \in Waiting \cup Busy \/ verdict[d] # "none" =>
                            d \in Waiting' \cup Busy' \/ verdict'[d] # "none"
    BY <1>1, <1>2 DEF SlotStep
  <2> QED
    BY <1>3, <2>1, <2>2, InvParts DEF RegisteredInv, SlotStep
<1> QED
  BY <1>5, <1>6, <1>7

\* An excuse is never withdrawn within a verification.
LEMMA ExcuseStays ==
    ASSUME parallelism' = parallelism, interrupted' = interrupted, strikes \in [Names -> Nat],
           strikes' \in [Names -> Nat], \A d \in Names : strikes'[d] >= strikes[d], NEW c \in Names
    PROVE  Excused(c) => Excused(c)'
<1>1. MaxRetries \in Nat
  BY VerifierAssumption
<1>2. \A d \in Names : \A n \in Nat : strikes[d] > n => strikes'[d] > n
  OBVIOUS
<1>3. \A d \in Names : strikes[d] > 0 => strikes'[d] > 0
  BY <1>2
<1>4. \A d \in Names : strikes[d] > MaxRetries => strikes'[d] > MaxRetries
  BY <1>1, <1>2
<1> QED
  BY <1>3, <1>4, Literals DEF Excused, Undisturbed

LEMMA GrowingStrikes ==
    ASSUME RunnerInv, NEW c \in Names, SlotStep(c)
    PROVE  \A d \in Names : strikes'[d] >= strikes[d]
<1>1. \A d \in Names : strikes[d] \in Nat
  BY InvParts DEF RunnerTypes
<1>2. \A d \in Names : strikes[d] >= strikes[d]
  BY <1>1
<1> QED
  BY <1>2 DEF SlotStep

\* What a step of check c can change of each part of the invariant is about c.
LEMMA SlotAttempt ==
    ASSUME RunnerInv, NEW c \in Names, SlotStep(c), AttemptOK(c)'
    PROVE  AttemptInv'
<1>1. \A d \in Names : strikes'[d] >= strikes[d]
  BY GrowingStrikes
<1>2. ASSUME NEW d \in Names, d # c PROVE AttemptOK(d)'
  <2>1. Excused(d) => Excused(d)'
    BY <1>1, ExcuseStays, InvParts DEF SlotStep, RunnerTypes
  <2>2. checking'[d] = checking[d] /\ verdict'[d] = verdict[d] /\ strikes'[d] = strikes[d]
        /\ copied' = copied /\ stage' = stage /\ interrupted' = interrupted
    BY <1>2 DEF SlotStep
  <2>3. (d \in Busy)' <=> d \in Busy
    BY <2>2 DEF Busy
  <2>4. Ended(d)' <=> Ended(d)
    BY <2>2 DEF Ended, Passes, Copy
  <2>5. Copy(d)' <=> Copy(d)
    BY <2>2 DEF Copy
  <2>6. AttemptOK(d)
    BY InvParts DEF AttemptInv
  <2> QED
    BY <2>1, <2>2, <2>3, <2>4, <2>5, <2>6 DEF AttemptOK, Undisturbed
<1> QED
  BY <1>2 DEF AttemptInv

LEMMA SlotSignup ==
    ASSUME RunnerInv, NEW c \in Names, c # "register", SlotStep(c), api'.registered = api.registered,
           api'.active => api'.registered, context'.emailVerified => api'.active
    PROVE  SignupInv'
<1>1. /\ checking'["register"] = checking["register"] /\ verdict'["register"] = verdict["register"]
      /\ strikes'["register"] = strikes["register"]
      /\ copied' = copied /\ stage' = stage /\ interrupted' = interrupted
  BY Literals DEF SlotStep
<1>2. AuthResult("register")' = AuthResult("register")
  BY <1>1 DEF AuthResult
<1>3. ("register" \in Busy)' <=> "register" \in Busy
  BY <1>1 DEF Busy
<1>4. (Ended("register")' <=> Ended("register")) /\ (Passes("register")' <=> Passes("register"))
  BY <1>1 DEF Ended, Passes, Copy
<1> QED
  BY <1>1, <1>2, <1>3, <1>4, InvParts DEF SignupInv, Undisturbed

LEMMA SlotLogin ==
    ASSUME RunnerInv, NEW c \in Names, c # "login", SlotStep(c), context'.token = context.token,
           context'.user = context.user, api'.active = api.active,
           api'.registered = api.registered \/ "login" \notin Busy \/ stage # "auth"
    PROVE  LoginInv'
<1>1. /\ checking'["login"] = checking["login"] /\ verdict'["login"] = verdict["login"]
      /\ strikes'["login"] = strikes["login"]
      /\ copied' = copied /\ stage' = stage /\ interrupted' = interrupted
  BY Literals DEF SlotStep
<1>2. AuthResult("login")' = AuthResult("login")
  BY <1>1 DEF AuthResult
<1>3. Passes("login")' <=> Passes("login")
  BY <1>1 DEF Passes, Copy
<1>4. "login" \notin Busy => checking["login"].phase # "sent"
  BY Literals DEF Busy
<1>5. Excused("login") => Excused("login")'
  BY GrowingStrikes, ExcuseStays, Literals, InvParts DEF SlotStep, RunnerTypes
<1> QED
  BY <1>1, <1>2, <1>3, <1>4, <1>5, InvParts DEF LoginInv

LEMMA SlotCompany ==
    ASSUME RunnerInv, NEW c \in Names, SlotStep(c),
           api' \in [registered : BOOLEAN, active : BOOLEAN, companies : Nat],
           api'.companies >= api.companies, context'.company <= api'.companies,
           checking'[c].company <= api'.companies,
           checking'[c].phase \in {"idle", "call"} => checking'[c].company = 0,
           checking'[c].phase = "sent" /\ "company" \in Check[c].needs => checking'[c].company # 0
    PROVE  CompanyInv'
<1>1. \A d \in Names : d # c => checking'[d] = checking[d]
  BY DEF SlotStep
<1>2. \A d \in Names : checking[d].company \in Nat
  BY InvParts, SlotTypes DEF RunnerTypes
<1>3. api.companies \in Nat /\ api'.companies \in Nat
  BY InvParts DEF RunnerTypes
<1>4. \A d \in Names : checking[d].company <= api'.companies
  <2>1. \A d \in Names : checking[d].company <= api.companies
    BY InvParts DEF CompanyInv
  <2> QED
    BY <1>2, <1>3, <2>1
<1>5. \A d \in Names : d # c =>
         /\ checking'[d].company <= api'.companies
         /\ checking'[d].phase \in {"idle", "call"} => checking'[d].company = 0
         /\ checking'[d].phase = "sent" /\ "company" \in Check[d].needs => checking'[d].company # 0
  BY <1>1, <1>4, InvParts DEF CompanyInv
<1> QED
  BY <1>5 DEF CompanyInv

LEMMA SlotCreated ==
    ASSUME RunnerInv, NEW c \in Names, c # "createCompany", SlotStep(c),
           api'.companies = api.companies,
           context'.company = context.company \/ context.company = 0
    PROVE  CreatedInv'
<1>1. /\ checking'["createCompany"] = checking["createCompany"]
      /\ verdict'["createCompany"] = verdict["createCompany"]
      /\ strikes'["createCompany"] = strikes["createCompany"]
      /\ copied' = copied /\ stage' = stage /\ interrupted' = interrupted
  BY Literals DEF SlotStep
<1>2. CreateAnswered' <=> CreateAnswered
  BY <1>1 DEF CreateAnswered, Passes, Copy
<1> QED
  BY <1>1, <1>2, InvParts DEF CreatedInv

-----------------------------------------------------------------------------
(* What a running check knows of those before it.                          *)

\* The auth runner runs one check, after all of lower rank.
LEMMA AuthAlone ==
    ASSUME RunnerInv, stage = "auth", NEW c \in Busy
    PROVE  /\ c \in AuthNames /\ Busy = {c}
           /\ \A d \in AuthNames : Rank[d] < Rank[c] => verdict[d] # "none"
<1>1. c \in Names /\ Width = 1
  BY DEF Busy, Width
<1>2. c \in AuthNames /\ Busy = {c} /\ \A d \in Waiting : Rank[c] < Rank[d]
  BY <1>1, InvParts DEF QueueInv, StageInv
<1>3. ASSUME NEW d \in AuthNames, Rank[d] < Rank[c] PROVE verdict[d] # "none"
  <2>1. d \in Names /\ Rank[d] \in Int /\ Rank[c] \in Int
    BY <1>1, Literals
  <2>2. d \notin Waiting /\ d # c
    BY <1>2, <1>3, <2>1
  <2> QED
    BY <1>2, <2>1, <2>2, InvParts DEF StageInv
<1> QED
  BY <1>2, <1>3

\* In the main runner the auth checks, and no others, repeat a result.
LEMMA AuthCopied ==
    ASSUME RunnerInv, NEW c \in Busy
    PROVE  /\ c \in Names /\ stage \in {"auth", "main"}
           /\ Copy(c) <=> stage = "main" /\ c \in AuthNames
<1>1. c \in Names
  BY DEF Busy
<1>2. stage \in {"auth", "main"}
  BY InvParts DEF QueueInv, RunnerTypes
<1> QED
  BY <1>1, <1>2, InvParts DEF Copy, StageInv

\* A check that finds no token runs after a login that failed.
LEMMA NoToken ==
    ASSUME RunnerInv, NEW c \in Busy, Check[c].needs # {}, ~context.token
    PROVE  ~Undisturbed \/ strikes["register"] > MaxRetries \/ strikes["login"] > MaxRetries
<1>1. c \in Names /\ stage \in {"auth", "main"}
  BY AuthCopied
<1>2. c # "register" /\ c # "login"
  BY TableFacts
<1>3. AuthResult("login") # "none"
  <2>1. CASE stage = "auth"
    <3>1. c \in AuthNames /\ \A d \in AuthNames : Rank[d] < Rank[c] => verdict[d] # "none"
      BY <2>1, AuthAlone
    <3>2. Rank[c] # 3 /\ Rank[c] # 4
      BY <1>1, <1>2, RankDistinct, Literals
    <3>3. Rank[c] \in Int /\ 2 < Rank[c]
      BY <1>1, <3>1, Literals
    <3>4. Rank["login"] < Rank[c]
      BY <3>2, <3>3, Literals
    <3> QED
      BY <2>1, <3>1, <3>4, Literals DEF AuthResult
  <2>2. CASE stage = "main"
    BY <2>2, InvParts, Literals DEF StageInv, AuthResult
  <2> QED
    BY <1>1, <2>1, <2>2
<1>4. AuthResult("login") \in {"failed", "cancelled"}
  <2>1. AuthResult("login") \in Verdicts
    BY InvParts, Literals DEF AuthResult, RunnerTypes
  <2>2. AuthResult("login") # "passed"
    BY InvParts DEF LoginInv
  <2> QED
    BY <1>3, <2>1, <2>2 DEF Verdicts
<1>5. AttemptOK("login")
  BY InvParts, Literals DEF AttemptInv
<1>6. Excused("login") => ~Undisturbed \/ strikes["register"] > MaxRetries \/ strikes["login"] > MaxRetries
  BY TableFacts DEF Excused
<1> QED
  BY <1>4, <1>5, <1>6 DEF AttemptOK, AuthResult

\* A check that finds no company id is excused.
LEMMA NoCompany ==
    ASSUME RunnerInv, NEW c \in Busy, "company" \in Check[c].needs, context.company = 0
    PROVE  Excused(c)
<1>1. c \in Names /\ stage \in {"auth", "main"} /\ Rank[c] \in Int
  BY AuthCopied, Literals
<1>2. Rank[c] > 14
  BY <1>1, TableFacts, Literals
<1>3. stage = "main"
  BY <1>1, <1>2, AuthAlone, Literals
<1>4. CASE ~context.token
  BY <1>4, NoToken DEF Excused
<1>5. CASE context.token /\ parallelism = 1
  <2>1. "createCompany" \notin Waiting \cup Busy
    <3>1. Width = 1
      BY <1>3, <1>5 DEF Width
    <3>2. Busy = {c} /\ \A d \in Waiting : Rank[c] < Rank[d]
      BY <3>1, InvParts DEF QueueInv
    <3> QED
      BY <1>1, <1>2, <3>2, Literals
  <2>2. ~LeftOut("createCompany")
    <3>1. "createCompany" \notin Members(GraphQLChecks) /\ "createCompany" \notin Members(GRPCChecks)
      BY GroupOrder, Literals DEF Group
    <3> QED
      BY <1>5, <3>1 DEF LeftOut
  <2>3. verdict["createCompany"] # "none"
    BY <1>3, <2>1, <2>2, InvParts, Literals DEF RegisteredInv
  <2>4. CASE verdict["createCompany"] = "passed"
    <3>1. strikes["createCompany"] # 0
      BY <2>4, InvParts DEF CreatedInv
    <3>2. strikes["createCompany"] > 0
      <4>1. strikes["createCompany"] \in Nat
        BY InvParts, Literals DEF RunnerTypes
      <4> QED
        BY <3>1, <4>1
    <3> QED
      BY <3>2 DEF Excused
  <2>5. CASE verdict["createCompany"] # "passed"
    <3>1. verdict["createCompany"] \in {"failed", "cancelled"}
      BY <2>3, <2>5, InvParts, Literals DEF RunnerTypes, Verdicts
    <3>2. AttemptOK("createCompany")
      BY InvParts, Literals DEF AttemptInv
    <3>3. ~Undisturbed \/ Excused("createCompany") \/ strikes["createCompany"] > MaxRetries
      BY <3>1, <3>2 DEF AttemptOK
    <3>4. "company" \notin Check["createCompany"].needs
      BY TableFacts
    <3>5. CASE strikes["createCompany"] > MaxRetries
      <4>1. strikes["createCompany"] \in Nat
        BY InvParts, Literals DEF RunnerTypes
      <4>2. MaxRetries \in Nat
        BY VerifierAssumption
      <4>3. strikes["createCompany"] > 0
        BY <3>5, <4>1, <4>2
      <4> QED
        BY <4>3 DEF Excused
    <3> QED
      BY <3>3, <3>4, <3>5 DEF Excused
  <2> QED
    BY <2>4, <2>5
<1>6. CASE parallelism # 1
  <2>1. parallelism > 1
    BY <1>6, WidthType
  <2> QED
    BY <2>1 DEF Excused
<1> QED
  BY <1>4, <1>5, <1>6

-----------------------------------------------------------------------------
(* The steps of a running check.                                           *)

Contexts == [token : BOOLEAN, user : BOOLEAN, company : Nat, emailVerified : BOOLEAN]

Apis == [registered : BOOLEAN, active : BOOLEAN, companies : Nat]

LEMMA SlotTyped ==
    ASSUME RunnerInv, NEW c, SlotStep(c), context' \in Contexts, api' \in Apis
    PROVE  VerifierTypeOK'
<1>1. RunnerTypes'
  BY InvParts DEF RunnerTypes, SlotStep, Contexts, Apis
<1> QED
  BY <1>1 DEF VerifierTypeOK, RunnerTypes, Slots, Replies, Verdicts

LEMMA StateTypes ==
    ASSUME RunnerInv
    PROVE  /\ context \in Contexts /\ api \in Apis /\ checking \in [Names -> Slots]
           /\ strikes \in [Names -> Nat] /\ verdict \in [Names -> Verdicts] /\ MaxRetries \in Nat
           /\ \A c \in Names : checking[c].attempt \in Nat /\ checking[c].attempt <= MaxRetries
                                /\ strikes[c] \in Nat /\ checking[c].company \in Nat
           /\ context.company \in Nat /\ api.companies \in Nat
<1>1. MaxRetries \in Nat
  BY VerifierAssumption
<1>2. /\ context \in Contexts /\ api \in Apis /\ checking \in [Names -> Slots]
      /\ strikes \in [Names -> Nat] /\ verdict \in [Names -> Verdicts]
  BY InvParts DEF RunnerTypes, Contexts, Apis
<1>3. \A n \in 0 .. MaxRetries : n \in Nat /\ n <= MaxRetries
  BY <1>1
<1>4. \A c \in Names : checking[c].attempt \in Nat /\ checking[c].attempt <= MaxRetries
                          /\ checking[c].company \in Nat
  BY <1>2, <1>3, SlotTypes
<1>5. context.company \in Nat /\ api.companies \in Nat
  BY <1>2 DEF Contexts, Apis
<1> QED
  BY <1>1, <1>2, <1>4, <1>5

\* A step that leaves the context and the API alone.
LEMMA QuietSlot ==
    ASSUME RunnerInv, NEW c \in Busy, SlotStep(c), UNCHANGED <<context, api, verdict, strikes>>,
           checking'[c].phase # "idle", AttemptOK(c)',
           checking'[c].company <= api.companies,
           checking'[c].phase = "call" => checking'[c].company = 0,
           checking'[c].phase = "sent" /\ "company" \in Check[c].needs => checking'[c].company # 0,
           c = "register" => SignupInv', c = "login" => LoginInv', c = "createCompany" => CreatedInv'
    PROVE  RunnerInv'
<1>1. c \in Names
  BY DEF Busy
<1>2. VerifierTypeOK'
  BY SlotTyped, StateTypes
<1>3. QueueInv' /\ StageInv' /\ RegisteredInv'
  BY StillRunning
<1>4. AttemptInv'
  BY <1>1, SlotAttempt
<1>5. SignupInv'
  <2>1. CASE c # "register"
    <3>1. (api.active => api.registered) /\ (context.emailVerified => api.active)
      BY InvParts DEF SignupInv
    <3> QED
      BY <1>1, <2>1, <3>1, SlotSignup
  <2> QED
    BY <2>1
<1>6. LoginInv'
  BY <1>1, SlotLogin
<1>7. CompanyInv'
  <2>1. api'.companies >= api.companies /\ context'.company <= api'.companies
        /\ api' \in [registered : BOOLEAN, active : BOOLEAN, companies : Nat]
    BY InvParts, StateTypes DEF CompanyInv, Apis
  <2> QED
    BY <1>1, <2>1, SlotCompany
<1>8. CreatedInv'
  BY <1>1, SlotCreated
<1> QED
  BY <1>2, <1>3, <1>4, <1>5, <1>6, <1>7, <1>8 DEF RunnerInv

\* check.Fn begins: what is missing from the context is excused.
LEMMA CallStep == ASSUME RunnerInv, NEW c \in Names, Call(c) PROVE RunnerInv'
<1>1. c \in Busy /\ checking[c].phase = "call"
  BY DEF Call, Busy
<1>2. UNCHANGED <<parallelism, skipped, stage, queue, verdict, copied, context, api, interrupted, strikes>>
  BY DEF Call
<1>3. checking[c].company = 0 /\ AttemptOK(c)
  BY <1>1, InvParts DEF CompanyInv, AttemptInv
<1>4. Copy(c)' <=> Copy(c)
  BY <1>2 DEF Copy
<1>5. Excused(c)' <=> Excused(c)
  BY <1>2 DEF Excused, Undisturbed
<1>6. strikes[c] \in Nat /\ checking[c].attempt \in Nat /\ MaxRetries \in Nat
      /\ checking[c].attempt <= MaxRetries /\ checking \in [Names -> Slots]
      /\ api.companies \in Nat /\ context.company \in Nat
  BY StateTypes
<1>20. ASSUME NEW p \in {"sent", "answered"}, NEW a, NEW n,
              Slotted(c, p, checking[c].attempt, a, n)
       PROVE  SlotStep(c) /\ checking'[c].phase = p /\ checking'[c].attempt = checking[c].attempt
              /\ checking'[c].answer = a /\ checking'[c].company = n /\ (c \in Busy)'
  <2>1. strikes[c] >= strikes[c]
    BY <1>6
  <2> QED
    BY <1>2, <1>20, <2>1, StateTypes DEF SlotStep, Slotted, Busy
<1>7. CASE Copy(c)
  <2>1. PICK a \in {"ok", "failed"} : Outcome(c, a) /\ (a = "ok" <=> copied[c] = "passed")
    BY <1>7 DEF Call
  <2>2. a \in Replies
    BY <2>1, ReplyTypes
  <2>3. Slotted(c, "answered", checking[c].attempt, a, 0)
    BY <1>3, <1>6, <2>1, <2>2, Answered
  <2>4. /\ SlotStep(c) /\ checking'[c].phase = "answered" /\ checking'[c].attempt = checking[c].attempt
        /\ checking'[c].answer = a /\ checking'[c].company = 0 /\ (c \in Busy)'
    BY <1>20, <2>3
  <2>5. stage = "main" /\ copied[c] # "none"
    BY <1>7 DEF Copy
  <2>6. Passes(c)' <=> a = "ok"
    BY <1>4, <1>7, <2>4 DEF Passes
  <2>7. a = "failed" => copied[c] \in {"failed", "cancelled"}
    BY <2>1, <2>5, InvParts DEF RunnerTypes, Verdicts
  <2>8. a = "failed" => Excused(c) \/ strikes[c] > MaxRetries
    BY <1>3, <2>7 DEF AttemptOK, Excused
  <2>9. a = "failed" => Excused(c) \/ strikes[c] > checking[c].attempt
    BY <1>6, <2>8
  <2>10. AttemptOK(c)'
    BY <1>1, <1>2, <1>3, <1>5, <2>1, <2>4, <2>6, <2>9 DEF AttemptOK, Ended, Undisturbed
  <2>11. c = "register" => SignupInv'
    BY <1>2, <2>4, <2>5, InvParts DEF SignupInv, AuthResult, Undisturbed
  <2>12. c = "login" => LoginInv'
    BY <1>2, <2>1, <2>4, <2>5, <2>6, InvParts DEF LoginInv, AuthResult
  <2>13. c # "createCompany"
    <3>1. c \in AuthNames
      BY <2>5, InvParts DEF StageInv
    <3> QED
      BY <3>1, Literals
  <2> QED
    BY <1>1, <1>2, <1>6, <2>4, <2>10, <2>11, <2>12, <2>13, QuietSlot
<1>8. CASE ~Copy(c) /\ \E need \in Check[c].needs : ~Has(need)
  <2>1. Outcome(c, "missing") /\ "missing" \in Replies
    BY <1>8, ReplyTypes DEF Call
  <2>2. Slotted(c, "answered", checking[c].attempt, "missing", 0)
    BY <1>3, <1>6, <2>1, Answered
  <2>3. /\ SlotStep(c) /\ checking'[c].phase = "answered" /\ checking'[c].attempt = checking[c].attempt
        /\ checking'[c].answer = "missing" /\ checking'[c].company = 0 /\ (c \in Busy)'
    BY <1>20, <2>2
  <2>4. c # "register" /\ c # "login"
    BY <1>8, TableFacts
  <2>5. Excused(c)
    <3>1. PICK need \in {"token", "user", "company"} : need \in Check[c].needs /\ ~Has(need)
      BY <1>8, TableFacts
    <3>2. CASE need = "company"
      <4>1. context.company = 0
        BY <3>1, <3>2 DEF Has
      <4> QED
        BY <1>1, <3>1, <3>2, <4>1, NoCompany
    <3>3. CASE need # "company"
      <4>1. ~context.token
        BY <3>1, <3>3, InvParts DEF Has, LoginInv
      <4> QED
        BY <1>1, <3>1, <4>1, NoToken DEF Excused
    <3> QED
      BY <3>2, <3>3
  <2>6. AttemptOK(c)'
    BY <1>1, <1>2, <1>3, <1>5, <2>3, <2>5 DEF AttemptOK, Undisturbed
  <2>7. c = "createCompany" => CreatedInv'
    <3>1. "missing" \notin Check[c].expects
      BY TableFacts
    <3>2. ~Passes(c)'
      BY <1>4, <1>8, <2>3, <3>1 DEF Passes
    <3> QED
      BY <1>1, <1>2, <3>2, InvParts DEF CreatedInv, CreateAnswered
  <2> QED
    BY <1>1, <1>2, <1>6, <2>3, <2>4, <2>6, <2>7, QuietSlot
<1>9. CASE ~Copy(c) /\ \A need \in Check[c].needs : Has(need)
  <2>1. checking' = [checking EXCEPT ![c].phase = "sent", ![c].company = context.company]
    BY <1>9 DEF Call
  <2>2. Slotted(c, "sent", checking[c].attempt, checking[c].answer, context.company)
    BY <1>6, <2>1, SlotTypes DEF Slotted, Slots
  <2>3. /\ SlotStep(c) /\ checking'[c].phase = "sent" /\ checking'[c].attempt = checking[c].attempt
        /\ checking'[c].answer = checking[c].answer /\ checking'[c].company = context.company
        /\ (c \in Busy)'
    BY <1>20, <2>2
  <2>4. AttemptOK(c)'
    BY <1>1, <1>2, <1>3, <1>4, <1>5, <1>9, <2>3 DEF AttemptOK, Ended, Undisturbed
  <2>5. context.company <= api.companies
    BY InvParts DEF CompanyInv
  <2>6. "company" \in Check[c].needs => context.company # 0
    <3>1. "company" \in Check[c].needs => Has("company")
      BY <1>9
    <3> QED
      BY <3>1 DEF Has
  <2>7. c = "register" => SignupInv'
    BY <1>1, <1>2, <2>3, InvParts DEF SignupInv, AuthResult, Ended, Undisturbed
  <2>8. c = "login" => LoginInv'
    <3>1. c = "login" => stage = "auth" /\ context.emailVerified
      <4>1. c = "login" => stage # "main"
        BY <1>1, <1>9, AuthCopied, Literals
      <4>2. stage \in {"auth", "main"}
        BY <1>1, AuthCopied
      <4> QED
        BY <4>1, <4>2 DEF Call
    <3>2. c = "login" => api.active
      BY <3>1, InvParts DEF SignupInv
    <3> QED
      BY <1>2, <2>3, <3>1, <3>2, InvParts DEF LoginInv, AuthResult
  <2>9. c = "createCompany" => CreatedInv'
    BY <1>1, <1>2, <2>3, InvParts DEF CreatedInv, CreateAnswered
  <2> QED
    BY <1>1, <1>2, <1>6, <2>3, <2>4, <2>5, <2>6, <2>7, <2>8, <2>9, QuietSlot
<1> QED
  BY <1>7, <1>8, <1>9

\* A step that changes what the API knows.
LEMMA LoudSlot ==
    ASSUME RunnerInv, NEW c \in Busy, SlotStep(c), verdict' = verdict, context' \in Contexts, api' \in Apis,
           context'.token = context.token, context'.company = context.company,
           c # "register" => api'.registered = api.registered,
           api'.companies >= api.companies, checking'[c].phase # "idle", AttemptOK(c)',
           checking'[c].company <= api'.companies,
           checking'[c].phase = "call" => checking'[c].company = 0,
           checking'[c].phase = "sent" /\ "company" \in Check[c].needs => checking'[c].company # 0,
           SignupInv', LoginInv', CreatedInv'
    PROVE  RunnerInv'
<1>1. c \in Names
  BY DEF Busy
<1>2. VerifierTypeOK'
  BY SlotTyped
<1>3. QueueInv' /\ StageInv' /\ RegisteredInv'
  BY StillRunning
<1>4. AttemptInv'
  BY <1>1, SlotAttempt
<1>5. CompanyInv'
  <2>1. context'.company <= api'.companies
    <3>1. context.company <= api.companies
      BY InvParts DEF CompanyInv
    <3>2. context.company \in Nat /\ api.companies \in Nat /\ api'.companies \in Nat
      BY StateTypes DEF Apis
    <3> QED
      BY <3>1, <3>2
  <2> QED
    BY <1>1, <2>1, SlotCompany DEF Apis
<1> QED
  BY <1>2, <1>3, <1>4, <1>5 DEF RunnerInv

LEMMA StrikeTypes ==
    ASSUME RunnerInv, NEW c \in Names, Strike(c)
    PROVE  /\ strikes' \in [Names -> Nat] /\ strikes'[c] = strikes[c] + 1
           /\ \A d \in Names : d # c => strikes'[d] = strikes[d]
  BY StateTypes DEF Strike

\* The address is marked, or the login is to fail for a failing request.
LEMMA VerifyStep == ASSUME RunnerInv, NEW c \in Names, verifyEmailDirect(c) PROVE RunnerInv'
<1>1. c \in Busy /\ checking[c].phase = "call" /\ c = "login" /\ stage = "auth" /\ ~context.emailVerified
  BY DEF verifyEmailDirect, Busy
<1>2. UNCHANGED <<parallelism, skipped, stage, queue, verdict, copied, interrupted>>
  BY DEF verifyEmailDirect
<1>3. checking[c].company = 0 /\ AttemptOK(c)
  BY <1>1, InvParts DEF CompanyInv, AttemptInv
<1>4. strikes[c] \in Nat /\ checking[c].attempt \in Nat /\ MaxRetries \in Nat
      /\ checking[c].attempt <= MaxRetries /\ checking \in [Names -> Slots]
      /\ api.companies \in Nat /\ context \in Contexts /\ api \in Apis
  BY StateTypes
<1>5. Slotted(c, "sent", checking[c].attempt, checking[c].answer, 0)
  <2>1. checking' = [checking EXCEPT ![c].phase = "sent"]
    BY DEF verifyEmailDirect
  <2> QED
    BY <1>3, <1>4, <2>1, SlotTypes DEF Slotted, Slots
<1>6. \/ /\ context' = [context EXCEPT !.emailVerified = api.registered]
         /\ api' = [api EXCEPT !.active = api.registered] /\ strikes' = strikes
      \/ UNCHANGED <<context, api, strikes>> /\ ~Undisturbed
      \/ UNCHANGED <<context, api>> /\ Strike(c)
  BY DEF verifyEmailDirect, Cancelled, Undisturbed
<1>7. /\ strikes' \in [Names -> Nat] /\ strikes'[c] >= strikes[c]
      /\ \A d \in Names : d # c => strikes'[d] = strikes[d]
  <2>1. strikes[c] >= strikes[c] /\ strikes[c] + 1 >= strikes[c]
    BY <1>4
  <2> QED
    BY <1>6, <2>1, StateTypes, StrikeTypes
<1>8. SlotStep(c) /\ checking'[c].phase = "sent" /\ checking'[c].attempt = checking[c].attempt
      /\ checking'[c].company = 0 /\ (c \in Busy)'
  BY <1>2, <1>5, <1>7, StateTypes DEF SlotStep, Slotted, Busy
<1>9. PICK b \in BOOLEAN : b = api.registered
  BY <1>4 DEF Apis
<1>10. /\ context' \in Contexts /\ api' \in Apis /\ context'.token = context.token
       /\ context'.user = context.user /\ context'.company = context.company
       /\ api'.companies = api.companies /\ api'.registered = api.registered
  BY <1>4, <1>6, <1>9 DEF Contexts, Apis
<1>11. AttemptOK(c)'
  <2>1. Excused(c) => Excused(c)'
    BY <1>2, <1>7, <1>8, GrowingStrikes, ExcuseStays, StateTypes
  <2>2. strikes'[c] \in Nat /\ (strikes[c] >= checking[c].attempt => strikes'[c] >= checking[c].attempt)
    BY <1>4, <1>7
  <2>3. strikes[c] > MaxRetries => strikes'[c] > MaxRetries
    BY <1>4, <1>7, <2>2
  <2>4. ~Copy(c)'
    BY <1>1, <1>2 DEF Copy
  <2> QED
    BY <1>1, <1>2, <1>3, <1>8, <2>1, <2>2, <2>3, <2>4 DEF AttemptOK, Ended, Undisturbed
<1>12. SignupInv'
  <2>1. api'.active => api'.registered
    BY <1>4, <1>6, <1>10, InvParts DEF SignupInv, Apis
  <2>2. context'.emailVerified => api'.active
    BY <1>1, <1>4, <1>6, <1>9 DEF Apis, Contexts
  <2> QED
    BY <1>1, <1>8, <1>10, <2>1, <2>2, SlotSignup
<1>13. LoginInv'
  <2>1. context'.user = context'.token
    BY <1>10, InvParts DEF LoginInv
  <2>2. AuthResult("login")' = "passed" => context'.token
    BY <1>2, <1>10, InvParts DEF LoginInv, AuthResult
  <2>3. ~api'.active => Excused("login")' \/ strikes'["login"] > checking'["login"].attempt \/ ~api'.registered
    <3>1. CASE api' = [api EXCEPT !.active = api.registered]
      BY <1>4, <1>9, <3>1 DEF Apis
    <3>2. CASE ~Undisturbed
      BY <1>2, <3>2 DEF Excused, Undisturbed
    <3>3. CASE Strike(c)
      <4>1. strikes'[c] = strikes[c] + 1
        BY <3>3, StrikeTypes
      <4>2. Excused(c) => Excused(c)'
        BY <1>2, <1>7, <1>8, GrowingStrikes, ExcuseStays, StateTypes
      <4>3. Excused(c) \/ strikes[c] >= checking[c].attempt
        BY <1>1, <1>3 DEF AttemptOK
      <4>4. strikes[c] >= checking[c].attempt => strikes'[c] > checking[c].attempt
        BY <1>4, <4>1
      <4> QED
        BY <1>1, <1>8, <4>2, <4>3, <4>4
    <3> QED
      BY <1>6, <3>1, <3>2, <3>3
  <2> QED
    BY <1>1, <1>2, <2>1, <2>2, <2>3 DEF LoginInv
<1>14. CreatedInv'
  BY <1>1, <1>8, <1>10, SlotCreated
<1>15. api'.companies >= api.companies /\ checking'[c].company <= api'.companies
       /\ "company" \notin Check[c].needs
  BY <1>1, <1>4, <1>8, <1>10, TableFacts
<1> QED
  BY <1>1, <1>2, <1>8, <1>10, <1>11, <1>12, <1>13, <1>14, <1>15, LoudSlot

\* What a request leaves behind.
LEMMA EffectTypes ==
    ASSUME RunnerInv, NEW c \in Names, Effect(c) \/ UNCHANGED api
    PROVE  /\ api' \in Apis /\ api'.active = api.active /\ (api.registered => api'.registered)
           /\ c # "register" => api'.registered = api.registered
           /\ c # "createCompany" => api'.companies = api.companies
           /\ api'.companies \in Nat /\ api'.companies >= api.companies
<1>1. api \in Apis /\ api.companies \in Nat
  BY StateTypes
<1>2. api.companies >= api.companies /\ api.companies + 1 >= api.companies /\ api.companies + 1 \in Nat
  BY <1>1
<1>3. CASE UNCHANGED api
  BY <1>1, <1>2, <1>3
<1>4. CASE c = "register" /\ api' = [api EXCEPT !.registered = TRUE]
  BY <1>1, <1>2, <1>4 DEF Apis
<1>5. CASE c = "createCompany" /\ api' = [api EXCEPT !.companies = @ + 1]
  BY <1>1, <1>2, <1>5 DEF Apis
<1> QED
  BY <1>3, <1>4, <1>5 DEF Effect, UserRegistered, CompanyCreated

\* What is known of a check whose request is under way.
LEMMA SentFacts ==
    ASSUME RunnerInv, NEW c \in Names, checking[c].phase = "sent"
    PROVE  /\ c \in Busy /\ AttemptOK(c) /\ ~Copy(c) /\ verdict[c] = "none"
           /\ stage \in {"auth", "main"}
           /\ c \in AuthNames <=> stage = "auth"
           /\ c = "register" /\ api.registered /\ Undisturbed => strikes[c] > 0
           /\ c = "register" => "login" \notin Busy
<1>1. c \in Busy
  BY DEF Busy
<1>2. AttemptOK(c) /\ ~Copy(c)
  BY InvParts DEF AttemptInv, AttemptOK
<1>3. verdict[c] = "none"
  BY <1>1, InvParts DEF QueueInv
<1>4. stage \in {"auth", "main"} /\ (c \in AuthNames <=> stage = "auth")
  BY <1>1, <1>2, AuthAlone, AuthCopied
<1>5. c = "register" /\ api.registered /\ Undisturbed => strikes[c] > 0
  BY <1>1, <1>4, InvParts, Literals DEF SignupInv
<1>6. c = "register" => "login" \notin Busy
  <2>1. c = "register" => Busy = {c}
    BY <1>1, <1>4, AuthAlone, Literals
  <2> QED
    BY <2>1
<1> QED
  BY <1>1, <1>2, <1>3, <1>4, <1>5, <1>6

\* An answered request passes its check or the check is excused.
LEMMA ServeStep == ASSUME RunnerInv, NEW c \in Names, ApiServes(c) PROVE RunnerInv'
<1>1. /\ checking[c].phase = "sent" /\ ~Cancelled /\ Effect(c)
      /\ UNCHANGED <<parallelism, skipped, stage, queue, verdict, copied, context, interrupted, strikes>>
  BY DEF ApiServes
<1>2. /\ c \in Busy /\ AttemptOK(c) /\ ~Copy(c) /\ verdict[c] = "none"
      /\ stage \in {"auth", "main"} /\ (c \in AuthNames <=> stage = "auth")
      /\ (c = "register" /\ api.registered /\ Undisturbed => strikes[c] > 0)
      /\ (c = "register" => "login" \notin Busy)
  BY <1>1, SentFacts
<1>3. /\ api' \in Apis /\ api'.active = api.active /\ (api.registered => api'.registered)
      /\ (c # "register" => api'.registered = api.registered)
      /\ (c # "createCompany" => api'.companies = api.companies)
      /\ api'.companies \in Nat /\ api'.companies >= api.companies
  BY <1>1, EffectTypes
<1>4. strikes[c] \in Nat /\ checking[c].attempt \in Nat /\ checking \in [Names -> Slots]
      /\ api.companies \in Nat /\ checking[c].company \in Nat /\ context \in Contexts /\ api \in Apis
  BY StateTypes
<1>5. checking[c].company <= api.companies
      /\ ("company" \in Check[c].needs => checking[c].company # 0)
  BY <1>1, InvParts DEF CompanyInv
<1>6. PICK n \in Nat : /\ n <= api'.companies /\ (c = "createCompany" => n = api'.companies)
                       /\ Slotted(c, "answered", checking[c].attempt, Answer(c), n)
  <2>1. PICK n : /\ n \in {api'.companies, api.companies, checking[c].company}
                 /\ (c = "createCompany" => n = api'.companies)
                 /\ checking' = [checking EXCEPT ![c].phase = "answered", ![c].answer = Answer(c),
                                                     ![c].company = n]
    BY DEF ApiServes
  <2>2. n \in Nat /\ n <= api'.companies
    BY <1>3, <1>4, <1>5, <2>1
  <2>3. PICK a \in Replies : a = Answer(c)
    BY ReplyTypes
  <2>4. Slotted(c, "answered", checking[c].attempt, a, n)
    <3>1. checking' = [checking EXCEPT ![c].phase = "answered", ![c].answer = a, ![c].company = n]
      BY <2>1, <2>3
    <3> QED
      BY <1>4, <2>2, <3>1, SlotTypes DEF Slotted, Slots
  <2> QED
    BY <2>1, <2>2, <2>3, <2>4
<1>7. SlotStep(c) /\ checking'[c].phase = "answered" /\ checking'[c].attempt = checking[c].attempt
      /\ checking'[c].answer = Answer(c) /\ checking'[c].company = n /\ (c \in Busy)'
  <2>1. strikes[c] >= strikes[c]
    BY <1>4
  <2> QED
    BY <1>1, <1>6, <2>1, StateTypes DEF SlotStep, Slotted, Busy
<1>8. Passes(c)' <=> Answer(c) \in Check[c].expects
  <2>1. ~Copy(c)'
    BY <1>1, <1>2 DEF Copy
  <2> QED
    BY <1>7, <2>1 DEF Passes
<1>9. Excused(c)' <=> Excused(c)
  BY <1>1 DEF Excused, Undisturbed
<1>10. Answer(c) \notin Check[c].expects => Excused(c) \/ strikes[c] > checking[c].attempt
  <2>1. CASE c = "register" /\ api.registered
    BY <1>2, <2>1 DEF Excused
  <2>2. CASE c = "login" /\ ~(api.registered /\ api.active)
    <3>1. ~api.active
      BY <2>2, InvParts DEF SignupInv
    <3>2. Excused("login") \/ strikes["login"] > checking["login"].attempt \/ ~api.registered
      BY <1>1, <1>2, <2>2, <3>1, InvParts, Literals DEF LoginInv
    <3>3. CASE ~api.registered
      <4>1. stage = "auth"
        BY <1>2, <2>2, Literals
      <4>2. verdict["register"] # "none"
        BY <1>2, <2>2, <4>1, AuthAlone, Literals
      <4>3. verdict["register"] \in {"failed", "cancelled"} /\ AuthResult("register") = verdict["register"]
        <5>1. verdict["register"] \in Verdicts
          BY StateTypes, Literals
        <5> QED
          BY <3>3, <4>1, <4>2, <5>1, InvParts DEF SignupInv, AuthResult, Verdicts
      <4>4. ~Undisturbed \/ strikes["register"] > MaxRetries
        <5>1. AttemptOK("register")
          BY InvParts, Literals DEF AttemptInv
        <5> QED
          BY <3>3, <4>3, <5>1, InvParts DEF SignupInv, AttemptOK
      <4> QED
        BY <2>2, <4>4 DEF Excused
    <3> QED
      BY <2>2, <3>2, <3>3
  <2>3. CASE "company" \in Check[c].needs /\ checking[c].company \notin 1 .. api.companies
    BY <1>4, <1>5, <2>3
  <2> QED
    BY <2>1, <2>2, <2>3, TableFacts
<1>11. AttemptOK(c)'
  BY <1>1, <1>2, <1>7, <1>8, <1>9, <1>10 DEF AttemptOK, Ended, Undisturbed
<1>12. SignupInv'
  <2>1. (api'.active => api'.registered) /\ (context'.emailVerified => api'.active)
    BY <1>1, <1>3, InvParts DEF SignupInv
  <2>2. CASE c = "register"
    <3>1. api'.registered
      <4>1. api' = [api EXCEPT !.registered = TRUE]
        BY <1>1, <2>2 DEF Effect, UserRegistered
      <4> QED
        BY <1>4, <4>1 DEF Apis
    <3>2. Undisturbed => strikes[c] > 0 \/ Answer(c) \in Check[c].expects
      BY <1>2, <2>2, TableFacts
    <3> QED
      BY <1>1, <1>7, <1>8, <2>1, <2>2, <3>1, <3>2 DEF SignupInv, Undisturbed
  <2>3. CASE c # "register"
    BY <1>3, <1>7, <2>1, <2>3, SlotSignup
  <2> QED
    BY <2>2, <2>3
<1>13. LoginInv'
  <2>1. CASE c = "login"
    <3>1. stage = "auth"
      BY <1>2, <2>1, Literals
    <3> QED
      BY <1>1, <1>7, <2>1, <3>1, InvParts DEF LoginInv, AuthResult
  <2>2. CASE c # "login"
    <3>1. api'.registered = api.registered \/ "login" \notin Busy
      BY <1>2, <1>3
    <3>2. context'.token = context.token /\ context'.user = context.user
      BY <1>1
    <3> QED
      BY <1>3, <1>7, <2>2, <3>1, <3>2, SlotLogin
  <2> QED
    BY <2>1, <2>2
<1>14. CreatedInv'
  <2>1. CASE c = "createCompany"
    <3>1. stage = "main" /\ interrupted # "all"
      <4>1. c \notin AuthNames
        BY <2>1, Literals
      <4> QED
        BY <1>1, <1>2, <4>1 DEF Cancelled
    <3>2. strikes["createCompany"] = 0 => api.companies = 0
      BY <1>1, <1>2, <2>1, <3>1, InvParts DEF CreatedInv, CreateAnswered
    <3>3. api'.companies = api.companies + 1
      <4>1. api' = [api EXCEPT !.companies = @ + 1]
        BY <1>1, <2>1 DEF Effect, CompanyCreated
      <4> QED
        BY <1>4, <4>1 DEF Apis
    <3>4. strikes["createCompany"] = 0 => checking'["createCompany"].company = 1
      BY <1>6, <1>7, <2>1, <3>2, <3>3
    <3>5. Answer(c) = "created" /\ Passes("createCompany")'
      <4>1. Answer(c) = "created"
        BY <2>1 DEF Answer, CreateCompanyStatus
      <4> QED
        BY <1>8, <2>1, <4>1, TableFacts
    <3> QED
      BY <1>1, <1>2, <1>7, <2>1, <3>4, <3>5 DEF CreatedInv, CreateAnswered
  <2>2. CASE c # "createCompany"
    <3>1. context'.company = context.company
      BY <1>1
    <3> QED
      BY <1>3, <1>7, <2>2, <3>1, SlotCreated
  <2> QED
    BY <2>1, <2>2
<1>15. context' \in Contexts /\ context'.token = context.token /\ context'.company = context.company
  BY <1>1, <1>4
<1> QED
  BY <1>1, <1>2, <1>3, <1>6, <1>7, <1>11, <1>12, <1>13, <1>14, <1>15, LoudSlot

LEMMA ConflictStep == ASSUME RunnerInv, NEW c \in Names, ApiConflicts(c) PROVE RunnerInv'
<1>1. /\ checking[c].phase = "sent" /\ c = "createCompany" /\ Strike(c) /\ Outcome(c, "conflict")
      /\ UNCHANGED <<parallelism, skipped, stage, queue, verdict, copied, context, api, interrupted>>
  BY DEF ApiConflicts
<1>2. c \in Busy /\ AttemptOK(c) /\ ~Copy(c) /\ verdict[c] = "none"
  BY <1>1, SentFacts
<1>3. strikes[c] \in Nat /\ checking[c].attempt \in Nat /\ checking \in [Names -> Slots] /\ MaxRetries \in Nat
      /\ api.companies \in Nat /\ context \in Contexts /\ api \in Apis
  BY StateTypes
<1>4. strikes' \in [Names -> Nat] /\ strikes'[c] = strikes[c] + 1
      /\ \A d \in Names : d # c => strikes'[d] = strikes[d]
  BY <1>1, StrikeTypes
<1>5. Slotted(c, "answered", checking[c].attempt, "conflict", checking[c].company)
  BY <1>1, <1>3, ReplyTypes, Answered
<1>6. SlotStep(c) /\ checking'[c].phase = "answered" /\ checking'[c].attempt = checking[c].attempt
      /\ checking'[c].answer = "conflict" /\ checking'[c].company = checking[c].company /\ (c \in Busy)'
  <2>1. strikes[c] + 1 >= strikes[c]
    BY <1>3
  <2> QED
    BY <1>1, <1>4, <1>5, <2>1, StateTypes DEF SlotStep, Slotted, Busy
<1>7. Passes(c)'
  <2>1. ~Copy(c)'
    BY <1>1, <1>2 DEF Copy
  <2> QED
    BY <1>1, <1>6, <2>1, TableFacts DEF Passes
<1>8. AttemptOK(c)'
  <2>1. Excused(c) => Excused(c)'
    BY <1>1, <1>4, <1>6, GrowingStrikes, ExcuseStays, StateTypes
  <2>2. /\ strikes[c] >= checking[c].attempt => strikes'[c] >= checking[c].attempt
        /\ strikes[c] > MaxRetries => strikes'[c] > MaxRetries
    BY <1>3, <1>4
  <2> QED
    BY <1>1, <1>2, <1>6, <1>7, <2>1, <2>2 DEF AttemptOK, Ended, Undisturbed
<1>9. SignupInv'
  <2>1. (api'.active => api'.registered) /\ (context'.emailVerified => api'.active)
    BY <1>1, InvParts DEF SignupInv
  <2> QED
    BY <1>1, <1>6, <2>1, SlotSignup
<1>10. LoginInv'
  BY <1>1, <1>6, SlotLogin
<1>11. CreatedInv'
  <2>1. strikes'["createCompany"] # 0
    BY <1>1, <1>3, <1>4
  <2> QED
    BY <2>1 DEF CreatedInv
<1>12. api'.companies >= api.companies /\ checking'[c].company <= api'.companies
  BY <1>1, <1>3, <1>6, InvParts DEF CompanyInv
<1> QED
  BY <1>1, <1>2, <1>3, <1>6, <1>8, <1>9, <1>10, <1>11, <1>12, LoudSlot

\* A failing request is counted.
LEMMA FailStep == ASSUME RunnerInv, NEW c \in Names, Fails(c) PROVE RunnerInv'
<1>1. /\ checking[c].phase = "sent" /\ Outcome(c, "error") /\ (Effect(c) \/ UNCHANGED api)
      /\ UNCHANGED <<parallelism, skipped, stage, queue, verdict, copied, context, interrupted>>
  BY DEF Fails
<1>2. /\ c \in Busy /\ AttemptOK(c) /\ ~Copy(c) /\ verdict[c] = "none"
      /\ stage \in {"auth", "main"} /\ (c \in AuthNames <=> stage = "auth")
      /\ (c = "register" => "login" \notin Busy)
  BY <1>1, SentFacts
<1>3. strikes[c] \in Nat /\ checking[c].attempt \in Nat /\ checking \in [Names -> Slots]
      /\ api.companies \in Nat /\ context \in Contexts /\ api \in Apis /\ MaxRetries \in Nat
      /\ checking[c].company \in Nat
  BY StateTypes
<1>4. /\ api' \in Apis /\ api'.active = api.active /\ (api.registered => api'.registered)
      /\ (c # "register" => api'.registered = api.registered)
      /\ (c # "createCompany" => api'.companies = api.companies)
      /\ api'.companies \in Nat /\ api'.companies >= api.companies
  BY <1>1, EffectTypes
<1>5. \/ Cancelled /\ strikes' = strikes /\ ~Undisturbed
      \/ Strike(c) /\ strikes'[c] = strikes[c] + 1
  BY StrikeTypes DEF Fails, Cancelled, Undisturbed
<1>6. strikes' \in [Names -> Nat] /\ strikes'[c] >= strikes[c]
      /\ \A d \in Names : d # c => strikes'[d] = strikes[d]
  <2>1. strikes[c] >= strikes[c] /\ strikes[c] + 1 >= strikes[c]
    BY <1>3
  <2> QED
    BY <1>5, <2>1, StateTypes, StrikeTypes
<1>7. Slotted(c, "answered", checking[c].attempt, "error", checking[c].company)
  BY <1>1, <1>3, ReplyTypes, Answered
<1>8. SlotStep(c) /\ checking'[c].phase = "answered" /\ checking'[c].attempt = checking[c].attempt
      /\ checking'[c].answer = "error" /\ checking'[c].company = checking[c].company /\ (c \in Busy)'
  BY <1>1, <1>6, <1>7, StateTypes DEF SlotStep, Slotted, Busy
<1>9. ~Passes(c)'
  <2>1. ~Copy(c)'
    BY <1>1, <1>2 DEF Copy
  <2> QED
    BY <1>8, <2>1, TableFacts DEF Passes
<1>10. Excused(c) => Excused(c)'
  BY <1>1, <1>6, <1>8, GrowingStrikes, ExcuseStays, StateTypes
<1>11. ~Undisturbed \/ strikes'[c] = strikes[c] + 1
  BY <1>5
<1>12. AttemptOK(c)'
  <2>1. /\ strikes[c] > MaxRetries => strikes'[c] > MaxRetries
        /\ strikes[c] >= checking[c].attempt /\ strikes'[c] = strikes[c] + 1 => strikes'[c] > checking[c].attempt
        /\ strikes'[c] > checking[c].attempt => strikes'[c] >= checking[c].attempt
    BY <1>3, <1>6
  <2>2. ~Undisturbed => Excused(c)'
    BY <1>1 DEF Excused, Undisturbed
  <2>3. Excused(c)' \/ strikes'[c] > checking[c].attempt
    BY <1>2, <1>10, <1>11, <2>1, <2>2 DEF AttemptOK
  <2> QED
    BY <1>1, <1>2, <1>8, <1>9, <1>10, <2>1, <2>3 DEF AttemptOK, Ended, Undisturbed
<1>13. SignupInv'
  <2>1. (api'.active => api'.registered) /\ (context'.emailVerified => api'.active)
    BY <1>1, <1>4, InvParts DEF SignupInv
  <2>2. CASE c = "register"
    <3>1. stage = "auth"
      BY <1>2, <2>2, Literals
    <3>2. Undisturbed => strikes'[c] > 0
      BY <1>3, <1>11
    <3>3. Undisturbed /\ ~api.registered => strikes[c] >= checking[c].attempt
      BY <1>2, <2>2, <3>1, InvParts DEF SignupInv
    <3>4. Undisturbed /\ ~api'.registered => strikes'[c] > checking[c].attempt /\ strikes'[c] >= checking[c].attempt
      BY <1>3, <1>4, <1>11, <3>3
    <3>5. AuthResult("register")' = "none"
      BY <1>1, <1>2, <2>2, <3>1 DEF AuthResult
    <3> QED
      BY <1>1, <1>8, <1>9, <2>1, <2>2, <3>1, <3>2, <3>4, <3>5 DEF SignupInv, Undisturbed
  <2>3. CASE c # "register"
    BY <1>4, <1>8, <2>1, <2>3, SlotSignup
  <2> QED
    BY <2>2, <2>3
<1>14. LoginInv'
  <2>1. CASE c = "login"
    <3>1. stage = "auth"
      BY <1>2, <2>1, Literals
    <3> QED
      BY <1>1, <1>8, <2>1, <3>1, InvParts DEF LoginInv, AuthResult
  <2>2. CASE c # "login"
    <3>1. api'.registered = api.registered \/ "login" \notin Busy
      BY <1>2, <1>4
    <3>2. context'.token = context.token /\ context'.user = context.user
      BY <1>1
    <3> QED
      BY <1>4, <1>8, <2>2, <3>1, <3>2, SlotLogin
  <2> QED
    BY <2>1, <2>2
<1>15. CreatedInv'
  <2>1. CASE c = "createCompany"
    <3>1. stage = "main"
      BY <1>2, <2>1, Literals
    <3>2. interrupted' = "all" \/ strikes'["createCompany"] # 0
      BY <1>1, <1>3, <1>5, <2>1, <3>1 DEF Cancelled
    <3> QED
      BY <1>1, <1>2, <1>9, <2>1, <3>2 DEF CreatedInv, CreateAnswered
  <2>2. CASE c # "createCompany"
    <3>1. context'.company = context.company
      BY <1>1
    <3> QED
      BY <1>4, <1>8, <2>2, <3>1, SlotCreated
  <2> QED
    BY <2>1, <2>2
<1>16. context' \in Contexts /\ context'.token = context.token /\ context'.company = context.company
  BY <1>1, <1>3
<1>17. checking'[c].company <= api'.companies
  <2>1. checking[c].company <= api.companies
    BY InvParts DEF CompanyInv
  <2> QED
    BY <1>3, <1>4, <1>8, <2>1
<1> QED
  BY <1>1, <1>2, <1>4, <1>8, <1>12, <1>13, <1>14, <1>15, <1>16, <1>17, LoudSlot

\* A step with which the runner gets the result of a check.
LEMMA LastSlot ==
    ASSUME RunnerInv, NEW c \in Busy, SlotStep(c), UNCHANGED <<api, strikes>>, context' \in Contexts,
           checking'[c].phase = "idle", checking'[c].company = 0,
           verdict'[c] # "none", stage = "main" => context'.token = context.token,
           stage = "auth" => context'.company = context.company,
           context'.company <= api.companies, AttemptOK(c)', SignupInv', LoginInv', CreatedInv'
    PROVE  RunnerInv'
<1>1. c \in Names
  BY DEF Busy
<1>2. VerifierTypeOK'
  BY SlotTyped, StateTypes
<1>3. QueueInv' /\ StageInv' /\ RegisteredInv'
  BY RunnerLeft
<1>4. AttemptInv'
  BY <1>1, SlotAttempt
<1>5. CompanyInv'
  <2>1. api'.companies >= api.companies /\ checking'[c].company <= api'.companies
        /\ api' \in [registered : BOOLEAN, active : BOOLEAN, companies : Nat]
    BY StateTypes DEF Apis
  <2> QED
    BY <1>1, <2>1, SlotCompany
<1> QED
  BY <1>2, <1>3, <1>4, <1>5 DEF RunnerInv

LEMMA OverStep ==
    ASSUME RunnerInv, NEW c \in Busy, NEW v \in Verdicts, Over(c, v),
           UNCHANGED <<parallelism, skipped, stage, queue, copied, interrupted, strikes>>
    PROVE  /\ SlotStep(c) /\ checking'[c].phase = "idle" /\ checking'[c].company = 0
           /\ verdict'[c] = v
<1>1. c \in Names /\ checking \in [Names -> Slots] /\ strikes[c] \in Nat
  BY StateTypes DEF Busy
<1>2. Slotted(c, "idle", 0, "", 0)
  BY <1>1, Emptied DEF Over
<1>3. verdict' \in [Names -> Verdicts] /\ verdict'[c] = v
      /\ \A d \in Names : d # c => verdict'[d] = verdict[d]
  BY <1>1, StateTypes DEF Over
<1>4. strikes[c] >= strikes[c]
  BY <1>1
<1> QED
  BY <1>2, <1>3, <1>4, StateTypes DEF SlotStep, Slotted

\* The check is given up: its last attempt did not pass.
LEMMA GiveUp ==
    ASSUME RunnerInv, NEW c \in Busy, Ended(c), NEW v \in {"failed", "cancelled"}, Over(c, v),
           UNCHANGED <<parallelism, skipped, stage, queue, copied, interrupted, strikes, context, api>>,
           v = "failed" => checking[c].attempt = MaxRetries, v = "cancelled" => ~Undisturbed
    PROVE  RunnerInv'
<1>1. c \in Names /\ verdict[c] = "none" /\ AttemptOK(c) /\ v \in Verdicts
  BY InvParts DEF Busy, QueueInv, AttemptInv, Verdicts
<1>2. SlotStep(c) /\ checking'[c].phase = "idle" /\ checking'[c].company = 0 /\ verdict'[c] = v
  BY <1>1, OverStep
<1>3. Excused(c)' <=> Excused(c)
  BY DEF Excused, Undisturbed
<1>4. ~(c \in Busy)' /\ ~Ended(c)'
  BY <1>2 DEF Busy, Ended
<1>5. v = "failed" => Excused(c) \/ strikes[c] > MaxRetries
  BY <1>1 DEF AttemptOK
<1>6. AttemptOK(c)'
  BY <1>1, <1>2, <1>3, <1>4, <1>5 DEF AttemptOK, Undisturbed
<1>7. SignupInv'
  <2>1. (api.active => api.registered) /\ (context.emailVerified => api.active)
    BY InvParts DEF SignupInv
  <2>2. CASE c = "register" /\ stage = "auth"
    <3>1. v = "failed" /\ Undisturbed /\ ~api.registered => strikes["register"] > MaxRetries
      BY <2>2, InvParts DEF SignupInv
    <3> QED
      BY <1>2, <1>4, <2>1, <2>2, <3>1 DEF SignupInv, AuthResult, Undisturbed
  <2>3. CASE c = "register" /\ stage # "auth"
    <3>1. stage = "main"
      BY <2>3, AuthCopied
    <3> QED
      BY <2>1, <2>3, <3>1, InvParts DEF SignupInv, AuthResult, Undisturbed
  <2>4. CASE c # "register"
    BY <1>1, <1>2, <2>1, <2>4, SlotSignup
  <2> QED
    BY <2>2, <2>3, <2>4
<1>8. LoginInv'
  <2>1. CASE c = "login"
    <3>1. stage \in {"auth", "main"}
      BY AuthCopied
    <3> QED
      BY <1>2, <2>1, <3>1, InvParts DEF LoginInv, AuthResult
  <2>2. CASE c # "login"
    BY <1>1, <1>2, <2>2, SlotLogin
  <2> QED
    BY <2>1, <2>2
<1>9. CreatedInv'
  <2>1. CASE c = "createCompany"
    BY <1>1, <1>2, <2>1, InvParts DEF CreatedInv, CreateAnswered, Ended
  <2>2. CASE c # "createCompany"
    BY <1>1, <1>2, <2>2, SlotCreated
  <2> QED
    BY <2>1, <2>2
<1>10. context.company <= api.companies /\ context \in Contexts
  BY InvParts, StateTypes DEF CompanyInv
<1> QED
  BY <1>2, <1>6, <1>7, <1>8, <1>9, <1>10, LastSlot

\* A retry begins only when the attempts so far are accounted for.
LEMMA BackoffStep == ASSUME RunnerInv, NEW c \in Names, Backoff(c) PROVE RunnerInv'
<1>1. /\ checking[c].phase = "backoff"
      /\ UNCHANGED <<parallelism, skipped, stage, queue, copied, context, api, interrupted, strikes>>
  BY DEF Backoff
<1>2. c \in Busy /\ Ended(c) /\ AttemptOK(c)
  BY <1>1, InvParts DEF Busy, Ended, AttemptInv
<1>3. CASE Cancelled /\ Over(c, "cancelled")
  <2>1. ~Undisturbed
    BY <1>3 DEF Cancelled, Undisturbed
  <2> QED
    BY <1>1, <1>2, <1>3, <2>1, GiveUp
<1>4. CASE /\ checking' = [checking EXCEPT ![c] = [NoSlot EXCEPT !.phase = "call",
                                                   !.attempt = checking[c].attempt + 1]]
           /\ verdict' = verdict
  <2>1. strikes[c] \in Nat /\ checking[c].attempt \in Nat /\ checking \in [Names -> Slots] /\ MaxRetries \in Nat
        /\ api.companies \in Nat
    BY StateTypes
  <2>2. PICK t \in 0 .. MaxRetries : t = checking[c].attempt + 1
    <3>1. checking[c].attempt < MaxRetries
      BY <1>1, <1>2 DEF AttemptOK
    <3> QED
      BY <2>1, <3>1
  <2>3. Slotted(c, "call", t, "", 0)
    <3>1. checking' = [checking EXCEPT ![c] = [NoSlot EXCEPT !.phase = "call", !.attempt = t]]
      BY <1>4, <2>2
    <3> QED
      BY <2>1, <3>1, Called
  <2>4. SlotStep(c) /\ checking'[c].phase = "call" /\ checking'[c].attempt = t /\ checking'[c].company = 0
        /\ (c \in Busy)'
    <3>1. strikes[c] >= strikes[c]
      BY <2>1
    <3> QED
      BY <1>1, <1>4, <2>3, <3>1, StateTypes DEF SlotStep, Slotted, Busy
  <2>5. strikes[c] > checking[c].attempt => strikes[c] >= t
    BY <2>1, <2>2
  <2>6. Excused(c)' <=> Excused(c)
    BY <1>1 DEF Excused, Undisturbed
  <2>7. AttemptOK(c)'
    BY <1>1, <1>2, <1>4, <2>4, <2>5, <2>6 DEF AttemptOK, Ended, Undisturbed
  <2>8. c = "register" => SignupInv'
    BY <1>1, <1>2, <1>4, <2>4, <2>5, InvParts DEF SignupInv, AuthResult, Ended, Undisturbed
  <2>9. c = "login" => LoginInv'
    BY <1>1, <1>4, <2>4, InvParts DEF LoginInv, AuthResult
  <2>10. c = "createCompany" => CreatedInv'
    BY <1>1, <1>4, <2>4, InvParts DEF CreatedInv, CreateAnswered
  <2>11. checking'[c].company <= api.companies
    BY <2>1, <2>4
  <2> QED
    BY <1>1, <1>2, <1>4, <2>4, <2>7, <2>8, <2>9, <2>10, <2>11, QuietSlot
<1> QED
  BY <1>3, <1>4 DEF Backoff

\* What a check notes: a token, or the company id, in a context that lacks it or as created.
LEMMA NotedFacts ==
    ASSUME RunnerInv, NEW c \in Names, context' = Noted(c)
    PROVE  /\ context' \in Contexts /\ context'.emailVerified = context.emailVerified
           /\ c # "login" => context'.token = context.token /\ context'.user = context.user
           /\ ~Passes(c) \/ Copy(c) => context' = context
           /\ c = "login" /\ Passes(c) /\ ~Copy(c) => context'.token = TRUE /\ context'.user = TRUE
           /\ c \notin {"createCompany", "listCompanies"} => context'.company = context.company
           /\ context'.company \in {context.company, checking[c].company}
           /\ c = "listCompanies" => context'.company = context.company \/ context.company = 0
           /\ c = "createCompany" /\ Passes(c) /\ ~Copy(c) /\ checking[c].answer = "created"
                 => context'.company = checking[c].company
<1>1. context \in Contexts /\ checking[c].company \in Nat
  BY StateTypes
<1>2. CASE ~Passes(c) \/ Copy(c)
  BY <1>1, <1>2 DEF Noted
<1>3. CASE Passes(c) /\ ~Copy(c) /\ c = "login"
  <2>1. context' = [context EXCEPT !.token = TRUE, !.user = TRUE]
    BY <1>3 DEF Noted
  <2> QED
    BY <1>1, <1>3, <2>1 DEF Contexts
<1>4. CASE Passes(c) /\ ~Copy(c) /\ c # "login"
  <2>1. CASE \/ c = "listCompanies" /\ context.company = 0
             \/ c = "createCompany" /\ checking[c].answer = "created"
    <3>1. context' = [context EXCEPT !.company = checking[c].company]
      BY <1>4, <2>1 DEF Noted
    <3> QED
      BY <1>1, <1>4, <2>1, <3>1 DEF Contexts
  <2>2. CASE ~(\/ c = "listCompanies" /\ context.company = 0
               \/ c = "createCompany" /\ checking[c].answer = "created")
    <3>1. context' = context
      BY <1>4, <2>2 DEF Noted
    <3> QED
      BY <1>1, <1>4, <2>2, <3>1
  <2> QED
    BY <2>1, <2>2
<1> QED
  BY <1>2, <1>3, <1>4

LEMMA EvaluateStep == ASSUME RunnerInv, NEW c \in Names, Evaluate(c) PROVE RunnerInv'
<1>1. /\ checking[c].phase = "answered" /\ context' = Noted(c)
      /\ UNCHANGED <<parallelism, skipped, stage, queue, copied, api, interrupted, strikes>>
  BY DEF Evaluate
<1>2. c \in Busy /\ AttemptOK(c) /\ verdict[c] = "none"
  <2>1. c \in Busy
    BY <1>1 DEF Busy
  <2> QED
    BY <2>1, InvParts DEF AttemptInv, QueueInv
<1>3. strikes[c] \in Nat /\ checking[c].attempt \in Nat /\ checking \in [Names -> Slots] /\ MaxRetries \in Nat
      /\ checking[c].attempt <= MaxRetries /\ api.companies \in Nat
  BY StateTypes
<1>4. stage \in {"auth", "main"} /\ (Copy(c) <=> stage = "main" /\ c \in AuthNames)
      /\ (stage = "auth" => c \in AuthNames)
  BY <1>2, AuthCopied, AuthAlone
<1>5. Excused(c)' <=> Excused(c)
  BY <1>1 DEF Excused, Undisturbed
<1>6. CASE ~Passes(c)
  <2>1. context' = context /\ Ended(c)
    BY <1>1, <1>6, NotedFacts DEF Ended
  <2>2. CASE Over(c, "failed") /\ ~(checking[c].attempt < MaxRetries)
    <3>1. checking[c].attempt = MaxRetries
      BY <1>3, <2>2
    <3> QED
      BY <1>1, <1>2, <2>1, <2>2, <3>1, GiveUp
  <2>3. CASE Over(c, "cancelled") /\ Cancelled
    <3>1. ~Undisturbed
      BY <2>3 DEF Cancelled, Undisturbed
    <3> QED
      BY <1>1, <1>2, <2>1, <2>3, <3>1, GiveUp
  <2>4. CASE /\ checking' = [checking EXCEPT ![c].phase = "backoff"] /\ verdict' = verdict
             /\ checking[c].attempt < MaxRetries
    <3>1. Slotted(c, "backoff", checking[c].attempt, checking[c].answer, checking[c].company)
      BY <1>3, <2>4, SlotTypes DEF Slotted, Slots
    <3>2. SlotStep(c) /\ checking'[c].phase = "backoff" /\ checking'[c].attempt = checking[c].attempt
          /\ checking'[c].company = checking[c].company /\ (c \in Busy)'
      <4>1. strikes[c] >= strikes[c]
        BY <1>3
      <4> QED
        BY <1>1, <2>4, <3>1, <4>1, StateTypes DEF SlotStep, Slotted, Busy
    <3>3. AttemptOK(c)'
      BY <1>1, <1>2, <1>5, <2>1, <2>4, <3>2 DEF AttemptOK, Ended, Undisturbed
    <3>4. c = "register" => SignupInv'
      BY <1>1, <1>2, <1>6, <2>1, <2>4, <3>2, InvParts DEF SignupInv, AuthResult, Ended, Undisturbed
    <3>5. c = "login" => LoginInv'
      BY <1>1, <2>1, <2>4, <3>2, InvParts DEF LoginInv, AuthResult
    <3>6. c = "createCompany" => CreatedInv'
      BY <1>1, <1>6, <2>1, <2>4, <3>2, InvParts DEF CreatedInv, CreateAnswered
    <3>7. checking'[c].company <= api.companies
      BY <3>2, InvParts DEF CompanyInv
    <3> QED
      BY <1>1, <1>2, <2>1, <2>4, <3>2, <3>3, <3>4, <3>5, <3>6, <3>7, QuietSlot
  <2> QED
    BY <1>6, <2>2, <2>3, <2>4 DEF Evaluate
<1>7. CASE Passes(c)
  <2>1. Over(c, "passed") /\ "passed" \in Verdicts
    BY <1>7 DEF Evaluate, Verdicts
  <2>2. SlotStep(c) /\ checking'[c].phase = "idle" /\ checking'[c].company = 0 /\ verdict'[c] = "passed"
    BY <1>1, <1>2, <2>1, OverStep
  <2>3. /\ context' \in Contexts /\ context'.emailVerified = context.emailVerified
        /\ (c # "login" => context'.token = context.token /\ context'.user = context.user)
        /\ (Copy(c) => context' = context)
        /\ (c = "login" /\ ~Copy(c) => context'.token = TRUE /\ context'.user = TRUE)
        /\ (c \notin {"createCompany", "listCompanies"} => context'.company = context.company)
        /\ context'.company \in {context.company, checking[c].company}
        /\ (c = "listCompanies" => context'.company = context.company \/ context.company = 0)
        /\ (c = "createCompany" /\ ~Copy(c) /\ checking[c].answer = "created"
              => context'.company = checking[c].company)
    BY <1>1, <1>7, NotedFacts
  <2>4. ~(c \in Busy)' /\ ~Ended(c)'
    BY <2>2 DEF Busy, Ended
  <2>5. AttemptOK(c)'
    BY <1>1, <1>2, <1>5, <2>2, <2>4 DEF AttemptOK, Undisturbed
  <2>6. context'.company <= api.companies
    BY <2>3, InvParts DEF CompanyInv
  <2>7. stage = "main" => context'.token = context.token
    BY <1>4, <2>3, Literals
  <2>8. stage = "auth" => context'.company = context.company
    <3>1. "createCompany" \notin AuthNames /\ "listCompanies" \notin AuthNames
      BY DEF AuthNames, Members, AuthChecks
    <3> QED
      BY <1>4, <2>3, <3>1
  <2>9. SignupInv'
    <3>1. (api'.active => api'.registered) /\ (context'.emailVerified => api'.active)
      BY <1>1, <2>3, InvParts DEF SignupInv
    <3>2. CASE c = "register" /\ stage = "auth"
      <4>1. api.registered
        BY <1>1, <1>7, <3>2, InvParts DEF SignupInv
      <4> QED
        BY <1>1, <2>2, <2>4, <3>1, <3>2, <4>1 DEF SignupInv
    <3>3. CASE c = "register" /\ stage = "main"
      BY <1>1, <3>1, <3>3, InvParts DEF SignupInv, AuthResult, Undisturbed
    <3>4. CASE c # "register"
      BY <1>1, <2>2, <3>1, <3>4, SlotSignup
    <3> QED
      BY <1>4, <3>2, <3>3, <3>4
  <2>10. LoginInv'
    <3>1. CASE c = "login" /\ stage = "auth"
      <4>1. context'.token = TRUE /\ context'.user = TRUE
        BY <1>4, <2>3, <3>1
      <4> QED
        BY <1>1, <2>2, <3>1, <4>1 DEF LoginInv
    <3>2. CASE c = "login" /\ stage = "main"
      <4>1. context' = context
        BY <1>4, <2>3, <3>2, Literals
      <4> QED
        BY <1>1, <1>7, <2>2, <3>2, <4>1, InvParts DEF LoginInv, AuthResult
    <3>3. CASE c # "login"
      BY <1>1, <2>2, <2>3, <3>3, SlotLogin
    <3> QED
      BY <1>4, <3>1, <3>2, <3>3
  <2>11. CreatedInv'
    <3>1. CASE c = "createCompany"
      <4>1. ~Copy(c)
        BY <1>4, <3>1, Literals
      <4>2. strikes["createCompany"] = 0 =>
               checking[c].answer = "created" /\ checking[c].company = 1
        BY <1>1, <1>2, <1>7, <3>1, InvParts DEF CreatedInv, CreateAnswered
      <4> QED
        BY <1>1, <2>2, <2>3, <3>1, <4>1, <4>2 DEF CreatedInv
    <3>2. CASE c # "createCompany"
      <4>1. context'.company = context.company \/ context.company = 0
        BY <2>3, <3>2
      <4> QED
        BY <1>1, <2>2, <3>2, <4>1, SlotCreated
    <3> QED
      BY <3>1, <3>2
  <2> QED
    BY <1>1, <1>2, <2>2, <2>3, <2>5, <2>6, <2>7, <2>8, <2>9, <2>10, <2>11, LastSlot
<1> QED
  BY <1>6, <1>7

-----------------------------------------------------------------------------
(* The steps of the runner.                                                *)

\* Before the flags are read nothing has happened.
AtFlags ==
    /\ parallelism = 1 /\ skipped = {} /\ stage = "flags" /\ queue = <<>>
    /\ checking \in [Names -> Slots]
    /\ \A c \in Names : checking[c].phase = "idle" /\ checking[c].company = 0
    /\ verdict = [c \in Names |-> "none"] /\ copied = [c \in Names |-> "none"]
    /\ context = NewAuthContext /\ api = NewApi /\ interrupted = "no"
    /\ strikes = [c \in Names |-> 0]

LEMMA Fresh == AtFlags => RunnerInv
<1> SUFFICES ASSUME AtFlags PROVE RunnerInv
  OBVIOUS
<1>1. RunnerTypes
  BY DEF AtFlags, RunnerTypes, Verdicts, NewAuthContext, NewApi
<1>2. Busy = {} /\ Waiting = {}
  BY DEF AtFlags, Busy, Waiting, Members
<1>3. QueueInv
  BY <1>2 DEF AtFlags, QueueInv, Sorted
<1>4. StageInv /\ RegisteredInv
  BY DEF AtFlags, StageInv, RegisteredInv
<1>5. AttemptInv
  BY <1>2 DEF AtFlags, AttemptInv, AttemptOK, Ended
<1>6. context.token = FALSE /\ context.user = FALSE /\ context.company = 0 /\ context.emailVerified = FALSE
      /\ api.registered = FALSE /\ api.active = FALSE /\ api.companies = 0
  BY DEF AtFlags, NewAuthContext, NewApi
<1>7. SignupInv
  BY <1>2, <1>6, Literals DEF AtFlags, SignupInv, AuthResult, Ended
<1>8. LoginInv
  BY <1>6, Literals DEF AtFlags, LoginInv, AuthResult
<1>9. CompanyInv
  BY <1>6 DEF AtFlags, CompanyInv
<1>10. CreatedInv
  BY <1>6, Literals DEF AtFlags, CreatedInv, CreateAnswered
<1> QED
  BY <1>1, <1>3, <1>4, <1>5, <1>7, <1>8, <1>9, <1>10, TypeParts DEF RunnerInv

LEMMA RunnerInit == VerifierInit => RunnerInv
<1> SUFFICES ASSUME VerifierInit PROVE AtFlags
  BY Fresh
<1> QED
  BY NewSlots DEF VerifierInit, AtFlags

LEMMA ExitStep == RunnerInv /\ Exit => AtFlags'
<1> SUFFICES ASSUME RunnerInv, Exit PROVE AtFlags'
  OBVIOUS
<1>1. queue = <<>> /\ Busy = {}
  BY InvParts DEF Exit, QueueInv
<1>2. \A c \in Names : checking[c].phase = "idle" /\ checking[c].company = 0
  BY <1>1, InvParts DEF Busy, CompanyInv
<1> QED
  BY <1>1, <1>2, StateTypes DEF Exit, AtFlags

\* The auth runner begins with the auth checks.
LEMMA FlagsStep ==
    ASSUME RunnerInv, NEW width \in Widths, NEW skips \in Skips, ParseFlags(width, skips)
    PROVE  RunnerInv'
<1>1. /\ stage = "flags" /\ parallelism' = width /\ skipped' = skips /\ stage' = "auth" /\ queue' = AuthChecks
      /\ UNCHANGED <<checking, verdict, copied, context, api, interrupted, strikes>>
  BY DEF ParseFlags
<1>2. Busy = {} /\ verdict = [c \in Names |-> "none"] /\ copied = [c \in Names |-> "none"]
      /\ context.company = 0 /\ api.registered = FALSE /\ api.active = FALSE
      /\ context.token = FALSE /\ context.user = FALSE /\ context.emailVerified = FALSE
      /\ strikes = [c \in Names |-> 0] /\ api.companies = 0 /\ interrupted = "no"
  BY <1>1, InvParts DEF QueueInv, StageInv, NewAuthContext, NewApi
<1>3. \A c \in Names : checking[c].phase = "idle"
  BY <1>2 DEF Busy
<1>4. AuthChecks \in Seq(Names) /\ Sorted(AuthChecks)
  BY GroupOrder DEF Group
<1>5. Busy' = {} /\ Waiting' = AuthNames /\ AuthNames \subseteq Names
  BY <1>1, <1>2, Literals DEF Busy, Waiting, AuthNames
<1>6. VerifierTypeOK'
  <2>1. RunnerTypes'
    BY <1>1, <1>4, InvParts DEF RunnerTypes
  <2> QED
    BY <2>1 DEF VerifierTypeOK, RunnerTypes, Slots, Replies, Verdicts
<1>7. QueueInv'
  BY <1>1, <1>2, <1>4, <1>5 DEF QueueInv
<1>8. StageInv' /\ RegisteredInv'
  BY <1>1, <1>2, <1>5 DEF StageInv, RegisteredInv
<1>9. AttemptInv'
  BY <1>1, <1>2, <1>3, <1>5 DEF AttemptInv, AttemptOK, Ended
<1>10. SignupInv'
  BY <1>1, <1>2, <1>3, <1>5, Literals DEF SignupInv, AuthResult, Ended
<1>11. LoginInv'
  BY <1>1, <1>2, <1>3, Literals DEF LoginInv, AuthResult
<1>12. CompanyInv'
  BY <1>1, InvParts DEF CompanyInv
<1>13. CreatedInv'
  BY <1>1, <1>2, <1>3, Literals DEF CreatedInv, CreateAnswered
<1> QED
  BY <1>6, <1>7, <1>8, <1>9, <1>10, <1>11, <1>12, <1>13 DEF RunnerInv

LEMMA NamesFinite == IsFiniteSet(Names)
<1>1. Rank \in [Names -> 1 .. 30] /\ IsInjective(Rank)
  BY RankType, RankDistinct DEF IsInjective
<1>2. Rank \in Injection(Names, 1 .. 30)
  BY <1>1 DEF Injection
<1>3. IsFiniteSet(1 .. 30)
  <2>1. 1 \in Int /\ 30 \in Int
    OBVIOUS
  <2> QED
    BY <2>1, FS_Interval
<1> QED
  BY <1>2, <1>3, FS_Injection

\* A check starts: with one goroutine, after all of lower rank.
LEMMA StartStep == ASSUME RunnerInv, NEW i \in DOMAIN queue, StartCheck(i) PROVE RunnerInv'
<1>1. PICK c : c = queue[i]
  OBVIOUS
<1>2. queue \in Seq(Names) /\ c \in Names /\ c \in Waiting
  BY <1>1, InvParts DEF RunnerTypes, Waiting, Members
<1>3. /\ Cardinality(Busy) < Width /\ (Width = 1 => i = 1)
      /\ checking' = [checking EXCEPT ![c] = [NoSlot EXCEPT !.phase = "call"]]
      /\ queue' = SubSeq(queue, 1, i - 1) \o SubSeq(queue, i + 1, Len(queue))
      /\ UNCHANGED <<parallelism, skipped, stage, verdict, copied, context, api, interrupted, strikes>>
  BY <1>1 DEF StartCheck
<1>4. checking \in [Names -> Slots] /\ MaxRetries \in Nat /\ 0 \in 0 .. MaxRetries /\ strikes \in [Names -> Nat]
      /\ api.companies \in Nat
  <2>1. MaxRetries \in Nat
    BY VerifierAssumption
  <2> QED
    BY <2>1, StateTypes
<1>5. Slotted(c, "call", 0, "", 0)
  BY <1>2, <1>3, <1>4, Called
<1>6. queue' \in Seq(Names) /\ Sorted(queue') /\ Waiting' = Waiting \ {c}
  <2>1. Sorted(queue)
    BY InvParts DEF QueueInv
  <2> QED
    BY <1>1, <1>2, <1>3, <2>1, SortedRemove DEF Waiting
<1>7. stage \in {"auth", "main"}
  <2>1. queue # <<>>
    BY <1>2
  <2> QED
    BY <2>1, InvParts DEF QueueInv, RunnerTypes
<1>8. Busy' = Busy \cup {c} /\ c \notin Busy /\ Busy \subseteq Names /\ Waiting \subseteq Names
  <2>1. c \notin Busy
    BY <1>2, InvParts DEF QueueInv
  <2>2. \A d \in Names : d # c => checking'[d] = checking[d]
    BY <1>5 DEF Slotted
  <2>3. checking'[c].phase = "call"
    BY <1>5 DEF Slotted
  <2>4. Busy' = Busy \cup {c}
    BY <1>2, <2>2, <2>3 DEF Busy
  <2>5. Waiting \subseteq Names
    BY <1>2 DEF Waiting, Members
  <2>6. Busy \subseteq Names
    BY DEF Busy
  <2> QED
    BY <2>1, <2>4, <2>5, <2>6
<1>9. verdict[c] = "none"
  BY <1>2, InvParts DEF QueueInv
<1>10. VerifierTypeOK'
  <2>1. RunnerTypes'
    BY <1>3, <1>5, <1>6, InvParts DEF RunnerTypes, Slotted
  <2> QED
    BY <2>1 DEF VerifierTypeOK, RunnerTypes, Slots, Replies, Verdicts
<1>11. QueueInv'
  <2>1. Width' = Width
    BY <1>3 DEF Width
  <2>2. CASE Width = 1
    <3>1. Busy = {}
      <4>1. IsFiniteSet(Busy)
        BY <1>8, NamesFinite, FS_Subset
      <4>2. Cardinality(Busy) \in Nat
        BY <4>1, FS_CardinalityType
      <4>3. Cardinality(Busy) = 0
        BY <1>3, <2>2, <4>2
      <4> QED
        BY <4>1, <4>3, FS_EmptySet
    <3>2. \A d \in Waiting' : Rank[c] < Rank[d]
      <4> SUFFICES ASSUME NEW j \in DOMAIN queue, queue[j] # c PROVE Rank[c] < Rank[queue[j]]
        BY <1>6 DEF Waiting, Members
      <4>1. i = 1 /\ j # 1
        BY <1>1, <1>3, <2>2
      <4>2. i < j
        BY <1>2, <4>1
      <4> QED
        BY <1>1, <4>2, InvParts DEF QueueInv, Sorted
    <3> QED
      BY <1>2, <1>3, <1>6, <1>7, <1>8, <1>9, <2>1, <3>1, <3>2, InvParts DEF QueueInv
  <2>3. CASE Width # 1
    BY <1>2, <1>3, <1>6, <1>7, <1>8, <1>9, <2>1, <2>3, InvParts DEF QueueInv
  <2> QED
    BY <2>2, <2>3
<1>12. Waiting' \cup Busy' = Waiting \cup Busy
  BY <1>2, <1>6, <1>8
<1>13. StageInv'
  BY <1>3, <1>6, <1>7, <1>12, InvParts DEF StageInv
<1>14. RegisteredInv'
  <2>1. \A d \in Names : LeftOut(d)' = LeftOut(d)
    BY <1>3 DEF LeftOut
  <2> QED
    BY <1>3, <1>12, <2>1, InvParts DEF RegisteredInv
<1>15. strikes[c] >= strikes[c] /\ strikes[c] >= 0
  BY <1>2, <1>4
<1>16. \A d \in Names : Excused(d)' <=> Excused(d)
  BY <1>3 DEF Excused, Undisturbed
<1>17. AttemptInv'
  <2>1. \A d \in Names : d # c => checking'[d] = checking[d]
    BY <1>5 DEF Slotted
  <2>2. ASSUME NEW d \in Names, d # c PROVE AttemptOK(d)'
    <3>1. (d \in Busy' <=> d \in Busy) /\ (Ended(d)' <=> Ended(d)) /\ (Copy(d)' <=> Copy(d))
      BY <1>3, <1>8, <2>1, <2>2 DEF Ended, Passes, Copy
    <3>2. AttemptOK(d)
      BY InvParts DEF AttemptInv
    <3> QED
      BY <1>3, <1>16, <2>1, <2>2, <3>1, <3>2 DEF AttemptOK, Undisturbed
  <2>3. AttemptOK(c)'
    <3>1. AttemptOK(c) /\ checking'[c].phase = "call" /\ checking'[c].attempt = 0
      BY <1>2, <1>5, InvParts DEF AttemptInv, Slotted
    <3> QED
      BY <1>2, <1>3, <1>15, <1>16, <3>1 DEF AttemptOK, Ended, Undisturbed
  <2> QED
    BY <2>2, <2>3 DEF AttemptInv
<1>18. SignupInv'
  <2>1. CASE c = "register"
    <3>1. checking'["register"].phase = "call" /\ checking'["register"].attempt = 0
      BY <1>5, <2>1 DEF Slotted
    <3>2. stage = "auth" => ~api.registered
      BY <1>2, <2>1, InvParts DEF StageInv
    <3>3. strikes'["register"] >= 0
      BY <1>3, <1>15, <2>1
    <3> QED
      BY <1>3, <3>1, <3>2, <3>3, InvParts DEF SignupInv, AuthResult, Ended, Undisturbed
  <2>2. CASE c # "register"
    <3>1. checking'["register"] = checking["register"]
      BY <1>5, <2>2, Literals DEF Slotted
    <3>2. /\ ("register" \in Busy' <=> "register" \in Busy) /\ (Ended("register")' <=> Ended("register"))
          /\ (Passes("register")' <=> Passes("register"))
      BY <1>3, <1>8, <2>2, <3>1 DEF Ended, Passes, Copy
    <3> QED
      BY <1>3, <3>1, <3>2, InvParts DEF SignupInv, AuthResult, Undisturbed
  <2> QED
    BY <2>1, <2>2
<1>19. LoginInv'
  <2>1. CASE c = "login"
    <3>1. checking'["login"].phase = "call"
      BY <1>5, <2>1 DEF Slotted
    <3> QED
      BY <1>3, <3>1, InvParts DEF LoginInv, AuthResult
  <2>2. CASE c # "login"
    <3>1. checking'["login"] = checking["login"]
      BY <1>5, <2>2, Literals DEF Slotted
    <3>2. Passes("login")' <=> Passes("login")
      BY <1>3, <3>1 DEF Passes, Copy
    <3> QED
      BY <1>3, <1>16, <3>1, <3>2, InvParts, Literals DEF LoginInv, AuthResult
  <2> QED
    BY <2>1, <2>2
<1>20. CompanyInv'
  <2>1. \A d \in Names : d # c => checking'[d] = checking[d]
    BY <1>5 DEF Slotted
  <2>2. checking'[c].phase = "call" /\ checking'[c].company = 0
    BY <1>5 DEF Slotted
  <2>3. 0 <= api.companies
    BY <1>4
  <2> QED
    BY <1>3, <2>1, <2>2, <2>3, InvParts DEF CompanyInv
<1>21. CreatedInv'
  <2>1. CASE c = "createCompany"
    <3>1. checking'["createCompany"].phase = "call" /\ checking["createCompany"].phase = "idle"
      BY <1>5, <1>8, <2>1, Literals DEF Slotted, Busy
    <3> QED
      BY <1>3, <3>1, InvParts DEF CreatedInv, CreateAnswered
  <2>2. CASE c # "createCompany"
    <3>1. checking'["createCompany"] = checking["createCompany"]
      BY <1>5, <2>2, Literals DEF Slotted
    <3>2. CreateAnswered' <=> CreateAnswered
      BY <1>3, <3>1 DEF CreateAnswered, Passes, Copy
    <3> QED
      BY <1>3, <3>1, <3>2, InvParts DEF CreatedInv
  <2> QED
    BY <2>1, <2>2
<1> QED
  BY <1>10, <1>11, <1>13, <1>14, <1>17, <1>18, <1>19, <1>20, <1>21 DEF RunnerInv

\* Nothing runs when a runner is done.
LEMMA Quiet ==
    ASSUME RunnerInv, queue = <<>>, Busy = {}
    PROVE  /\ Waiting = {} /\ \A c \in Names : checking[c].phase = "idle"
           /\ \A c \in Names : ~Ended(c)
           /\ ~CreateAnswered
<1>1. \A c \in Names : checking[c].phase = "idle"
  BY DEF Busy
<1>2. Waiting = {}
  BY DEF Waiting, Members
<1> QED
  BY <1>1, <1>2, Literals DEF Ended, CreateAnswered

\* The results of the auth runner become checks of the main one.
LEMMA FinishAuthStep == ASSUME RunnerInv, FinishAuth PROVE RunnerInv'
<1>1. /\ stage = "auth" /\ queue = <<>> /\ Busy = {} /\ stage' = "main" /\ copied' = verdict
      /\ verdict' = [c \in Names |-> "none"]
      /\ UNCHANGED <<parallelism, skipped, checking, context, api, interrupted, strikes>>
  BY DEF FinishAuth
<1>2. PICK r : r = ToRegister
  OBVIOUS
<1>3. queue' = r
  BY <1>2 DEF FinishAuth
<1>4. r \in Seq(Names) /\ Sorted(r) /\ \A c \in Names : c \in Members(r) \/ LeftOut(c)
  BY <1>2, WidthType, Registers
<1>5. /\ Waiting = {} /\ \A c \in Names : checking[c].phase = "idle"
      /\ \A c \in Names : ~Ended(c)
      /\ ~CreateAnswered
  BY <1>1, Quiet
<1>6. Busy' = {} /\ Waiting' = Members(r)
  <2>1. Busy' = Busy
    BY <1>1 DEF Busy
  <2>2. Waiting' = Members(r)
    BY <1>3 DEF Waiting
  <2> QED
    BY <1>1, <2>1, <2>2
<1>7. Members(r) \subseteq Names
  BY <1>4 DEF Members
<1>8. VerifierTypeOK'
  <2>1. verdict' \in [Names -> Verdicts]
    BY <1>1 DEF Verdicts
  <2>2. RunnerTypes'
    BY <1>1, <1>3, <1>4, <2>1, InvParts DEF RunnerTypes
  <2> QED
    BY <2>2 DEF VerifierTypeOK, RunnerTypes, Slots, Replies, Verdicts
<1>9. QueueInv'
  BY <1>1, <1>3, <1>4, <1>6, <1>7 DEF QueueInv
<1>10. \A c \in Names : c \in AuthNames <=> verdict[c] # "none"
  BY <1>1, <1>5, InvParts DEF StageInv
<1>11. StageInv'
  BY <1>1, <1>10 DEF StageInv
<1>12. RegisteredInv'
  <2>1. \A c \in Names : LeftOut(c)' = LeftOut(c)
    BY <1>1 DEF LeftOut
  <2> QED
    BY <1>4, <1>6, <2>1 DEF RegisteredInv
<1>13. AttemptInv'
  <2> SUFFICES ASSUME NEW c \in Names PROVE AttemptOK(c)'
    BY DEF AttemptInv
  <2>1. AttemptOK(c)
    BY InvParts DEF AttemptInv
  <2>2. Excused(c)' <=> Excused(c)
    BY <1>1 DEF Excused, Undisturbed
  <2>3. checking'[c].phase = "idle" /\ verdict'[c] = "none"
    BY <1>1, <1>5
  <2> QED
    BY <1>1, <1>6, <2>1, <2>2, <2>3 DEF AttemptOK, Ended, Undisturbed
<1>14. SignupInv'
  BY <1>1, InvParts DEF SignupInv, AuthResult, Undisturbed
<1>15. LoginInv'
  BY <1>1, <1>5, InvParts, Literals DEF LoginInv, AuthResult
<1>16. CompanyInv'
  BY <1>1, InvParts DEF CompanyInv
<1>17. CreatedInv'
  <2>1. verdict["createCompany"] = "none"
    <3>1. "createCompany" \notin AuthNames
      BY Literals
    <3> QED
      BY <1>10, <3>1, Literals
  <2>2. verdict'["createCompany"] = "none" /\ checking'["createCompany"].phase = "idle"
    BY <1>1, <1>5, Literals
  <2> QED
    BY <1>1, <1>5, <2>1, <2>2, InvParts DEF CreatedInv, CreateAnswered
<1> QED
  BY <1>8, <1>9, <1>11, <1>12, <1>13, <1>14, <1>15, <1>16, <1>17 DEF RunnerInv

LEMMA FinishStep == ASSUME RunnerInv, Finish PROVE RunnerInv'
<1>1. /\ stage = "main" /\ queue = <<>> /\ Busy = {} /\ stage' = "done"
      /\ UNCHANGED <<parallelism, skipped, queue, checking, verdict, copied, context, api,
                     interrupted, strikes>>
  BY DEF Finish
<1>2. /\ Waiting = {} /\ \A c \in Names : checking[c].phase = "idle"
      /\ \A c \in Names : ~Ended(c)
      /\ ~CreateAnswered
  BY <1>1, Quiet
<1>3. Busy' = {} /\ Waiting' = {}
  <2>1. Busy' = Busy /\ Waiting' = Waiting
    BY <1>1 DEF Busy, Waiting
  <2> QED
    BY <1>1, <1>2, <2>1
<1>4. VerifierTypeOK'
  <2>1. RunnerTypes'
    BY <1>1, InvParts DEF RunnerTypes
  <2> QED
    BY <2>1 DEF VerifierTypeOK, RunnerTypes, Slots, Replies, Verdicts
<1>5. QueueInv'
  BY <1>1, <1>3, InvParts DEF QueueInv
<1>6. StageInv'
  BY <1>1, InvParts DEF StageInv
<1>7. RegisteredInv'
  <2>1. \A c \in Names : LeftOut(c)' = LeftOut(c)
    BY <1>1 DEF LeftOut
  <2> QED
    BY <1>1, <1>2, <2>1, InvParts DEF RegisteredInv
<1>8. AttemptInv'
  <2> SUFFICES ASSUME NEW c \in Names PROVE AttemptOK(c)'
    BY DEF AttemptInv
  <2>1. AttemptOK(c)
    BY InvParts DEF AttemptInv
  <2>2. Excused(c)' <=> Excused(c)
    BY <1>1 DEF Excused, Undisturbed
  <2>3. checking'[c].phase = "idle"
    BY <1>1, <1>2
  <2> QED
    BY <1>1, <1>3, <2>1, <2>2, <2>3 DEF AttemptOK, Ended, Undisturbed
<1>9. SignupInv'
  BY <1>1, InvParts DEF SignupInv, AuthResult, Undisturbed
<1>10. LoginInv'
  BY <1>1, InvParts DEF LoginInv, AuthResult
<1>11. CompanyInv'
  BY <1>1, InvParts DEF CompanyInv
<1>12. CreatedInv'
  <2>1. checking'["createCompany"].phase = "idle"
    BY <1>1, <1>2, Literals
  <2> QED
    BY <1>1, <1>2, <2>1, InvParts DEF CreatedInv, CreateAnswered
<1> QED
  BY <1>4, <1>5, <1>6, <1>7, <1>8, <1>9, <1>10, <1>11, <1>12 DEF RunnerInv

\* After an interrupt every failure is excused.
LEMMA InterruptStep == ASSUME RunnerInv, NEW which \in {"auth", "all"}, Interrupt(which) PROVE RunnerInv'
<1>1. /\ stage \in {"auth", "main"} /\ interrupted = "no" /\ interrupted' \in {"auth", "all"}
      /\ UNCHANGED <<parallelism, skipped, stage, queue, checking, verdict, copied, context, api,
                     strikes>>
  BY DEF Interrupt
<1>2. ~Undisturbed' /\ \A c \in Names : Excused(c)'
  BY <1>1 DEF Undisturbed, Excused
<1>3. Busy' = Busy /\ Waiting' = Waiting /\ Width' = Width
  BY <1>1 DEF Busy, Waiting, Width
<1>4. \A c \in Names : (Passes(c)' <=> Passes(c)) /\ (Copy(c)' <=> Copy(c)) /\ LeftOut(c)' = LeftOut(c)
  BY <1>1 DEF Passes, Copy, LeftOut
<1>5. VerifierTypeOK'
  <2>1. RunnerTypes'
    BY <1>1, InvParts DEF RunnerTypes
  <2> QED
    BY <2>1 DEF VerifierTypeOK, RunnerTypes, Slots, Replies, Verdicts
<1>6. QueueInv'
  BY <1>1, <1>3, InvParts DEF QueueInv
<1>7. StageInv' /\ RegisteredInv'
  BY <1>1, <1>3, <1>4, InvParts DEF StageInv, RegisteredInv
<1>8. AttemptInv'
  BY <1>1, <1>2, <1>4, InvParts DEF AttemptInv, AttemptOK
<1>9. SignupInv'
  BY <1>1, <1>2, <1>4, InvParts, Literals DEF SignupInv, AuthResult
<1>10. LoginInv'
  BY <1>1, <1>2, <1>4, InvParts, Literals DEF LoginInv, AuthResult
<1>11. CompanyInv'
  BY <1>1, InvParts DEF CompanyInv
<1>12. CreatedInv'
  <2>1. CreateAnswered' <=> CreateAnswered
    BY <1>1, <1>4, Literals DEF CreateAnswered
  <2> QED
    BY <1>1, <2>1, InvParts DEF CreatedInv
<1> QED
  BY <1>5, <1>6, <1>7, <1>8, <1>9, <1>10, <1>11, <1>12 DEF RunnerInv

LEMMA IdleStep == RunnerInv /\ UNCHANGED verifierVars => RunnerInv'
<1> SUFFICES ASSUME RunnerInv, UNCHANGED verifierVars PROVE RunnerInv'
  OBVIOUS
<1> USE DEF verifierVars
<1>1. VerifierTypeOK'
  BY DEF RunnerInv, VerifierTypeOK
<1>2. Busy' = Busy /\ Waiting' = Waiting /\ Width' = Width
  BY DEF Waiting, Width, Busy
<1>3. QueueInv'
  BY <1>2 DEF RunnerInv, QueueInv
<1>4. StageInv' /\ RegisteredInv'
  BY <1>2 DEF RunnerInv, StageInv, RegisteredInv, LeftOut
<1>5. AttemptInv' /\ SignupInv' /\ LoginInv'
  <2>1. \A c \in Names : /\ Ended(c)' <=> Ended(c)
                         /\ Passes(c)' <=> Passes(c)
                         /\ Copy(c)' <=> Copy(c)
                         /\ Excused(c)' <=> Excused(c)
    BY DEF Ended, Passes, Copy, Excused, Undisturbed
  <2>2. AttemptInv'
    BY <1>2, <2>1 DEF RunnerInv, AttemptInv, AttemptOK, Undisturbed
  <2>3. SignupInv'
    BY <1>2, <2>1, Literals DEF RunnerInv, SignupInv, AuthResult, Undisturbed
  <2>4. LoginInv'
    BY <2>1, Literals DEF RunnerInv, LoginInv, AuthResult
  <2> QED
    BY <2>2, <2>3, <2>4
<1>6. CompanyInv' /\ CreatedInv'
  BY DEF RunnerInv, CompanyInv, CreatedInv, CreateAnswered, Passes, Copy
<1> QED
  BY <1>1, <1>3, <1>4, <1>5, <1>6 DEF RunnerInv

\* A check of the main runner that is over passed, was left out or is a failure, and
\* without a token the login is one.
LEMMA VerdictOf == RunnerInv => VerdictSound
<1> SUFFICES ASSUME RunnerInv PROVE VerdictSound
  OBVIOUS
<1>1. VerifierTypeOK
  BY DEF RunnerInv
<1>2. GreenMeansAll
  <2> SUFFICES ASSUME Green, NEW c \in Names
               PROVE  \/ verdict[c] = "passed"
                      \/ parallelism > 1 /\ c \notin Sampled
                      \/ \E i \in DOMAIN GraphQLChecks : GraphQLChecks[i] = c /\ "graphql" \in skipped
                      \/ \E i \in DOMAIN GRPCChecks : GRPCChecks[i] = c /\ "grpc" \in skipped
    BY DEF GreenMeansAll
  <2>1. stage = "done" /\ \A d \in Names : verdict[d] \in {"none", "passed"}
    <3>1. verdict \in [Names -> Verdicts]
      BY InvParts DEF RunnerTypes
    <3> QED
      BY <3>1 DEF Green, Failures, Verdicts
  <2>2. Waiting = {} /\ Busy = {}
    <3>1. queue = <<>> /\ Busy = {}
      BY <2>1, InvParts DEF QueueInv
    <3> QED
      BY <3>1, Quiet
  <2>3. \A d \in Names : verdict[d] = "passed" \/ LeftOut(d)
    BY <2>1, <2>2, InvParts DEF RegisteredInv
  <2>4. context.token
    <3>1. Rank["login"] = 4 /\ "login" \in Sampled
      BY Literals, VerifierAssumption
    <3>2. "login" \notin Members(GraphQLChecks) /\ "login" \notin Members(GRPCChecks) /\ "login" \notin NeedLogin
      BY <3>1, GroupOrder DEF Group, NeedLogin
    <3>3. verdict["login"] = "passed"
      BY <2>3, <3>1, <3>2, Literals DEF LeftOut
    <3> QED
      BY <2>1, <3>3, InvParts DEF LoginInv, AuthResult
  <2> QED
    BY <2>3, <2>4 DEF LeftOut, Members
<1>3. FailureExplained
  BY InvParts DEF AttemptInv, AttemptOK, Excused, Undisturbed, FailureExplained
<1>4. CreatedCompanyKept
  BY InvParts DEF CreatedInv, CreatedCompanyKept
<1> QED
  BY <1>1, <1>2, <1>3, <1>4 DEF VerdictSound

\* Every step but Exit, which starts afresh, keeps the invariant.
LEMMA StepRunner ==
    ASSUME RunnerInv, [VerifierNext]_verifierVars, ~Exit
    PROVE  RunnerInv'
<1>1. CASE \E width \in Widths, skips \in Skips : ParseFlags(width, skips)
  BY <1>1, FlagsStep
<1>2. CASE \E i \in DOMAIN queue : StartCheck(i)
  BY <1>2, StartStep
<1>3. ASSUME NEW c \in Names,
             \/ Call(c) \/ verifyEmailDirect(c) \/ ApiServes(c) \/ ApiConflicts(c) \/ Fails(c)
             \/ Evaluate(c) \/ Backoff(c)
      PROVE  RunnerInv'
  BY <1>3, CallStep, VerifyStep, ServeStep, ConflictStep, FailStep, EvaluateStep, BackoffStep
<1>4. CASE FinishAuth
  BY <1>4, FinishAuthStep
<1>5. CASE Finish
  BY <1>5, FinishStep
<1>6. CASE \E which \in {"auth", "all"} : Interrupt(which)
  BY <1>6, InterruptStep
<1>7. CASE UNCHANGED verifierVars
  BY <1>7, IdleStep
<1> QED
  BY <1>1, <1>2, <1>3, <1>4, <1>5, <1>6, <1>7 DEF VerifierNext

\* Every verification reaches a justified verdict, for every width of the main
\* runner, every number of retries and every choice of failing requests: a run that
\* exits with status 0 (runner.Finish) ran every check that was not skipped, although
\* run() registers most groups only when the auth runner left a token in the shared
\* AuthContext; a failed result has one of the causes FailureExplained names; and the
\* company id in the context is that of the created company.
THEOREM VerdictCorrect == VerifierSpec => []VerdictSound
<1>1. VerifierInit => RunnerInv
  BY RunnerInit
<1>2. RunnerInv /\ [VerifierNext]_verifierVars => RunnerInv'
  <2>1. RunnerInv /\ Exit => AtFlags'
    BY ExitStep
  <2>2. AtFlags' => RunnerInv'
    BY Fresh, PTL
  <2>3. RunnerInv /\ [VerifierNext]_verifierVars /\ ~Exit => RunnerInv'
    BY StepRunner
  <2> QED
    BY <2>1, <2>2, <2>3
<1>3. RunnerInv => VerdictSound
  BY VerdictOf
<1> QED
  BY <1>1, <1>2, <1>3, PTL DEF VerifierSpec

=============================================================================
