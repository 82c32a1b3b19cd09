----------------------------- MODULE Admission -----------------------------
(***************************************************************************)
(* What lets an HTTP request through: the rate limiter in front of every   *)
(* route (middleware/ratelimit.go), the API keys that protected routes     *)
(* accept (middleware/auth.go, apikey_service.go, apikey_repo.go), the     *)
(* monthly quota of a tenant (middleware/quota.go) and the worker that     *)
(* turns the same counters into invoices (cmd/billing-worker).             *)
(*                                                                         *)
(* The model is of one client address and one tenant.  A counter is read   *)
(* and written by single Redis commands, and only INCR is atomic.  A Redis *)
(* error lets the request through.  server.go mounts the quota middleware  *)
(* on no route: the requests of kind "metered" are those of a router that  *)
(* does.                                                                   *)
(***************************************************************************)
EXTENDS Naturals, FiniteSets

CONSTANTS
    Requests,       \* requests that can be in progress together
    Keys,           \* API keys, each created at most once
    Limit,          \* requests of one address per window
    Window,         \* length of the window, in ticks
    FreeAuths,      \* AuthsPerMonth of the plan "free"
    ProAuths        \* AuthsPerMonth of the plan "pro"

\* A request that presents no API key.
Nobody == "bearer"

ASSUME AdmissionAssumption ==
    /\ IsFiniteSet(Requests) /\ Requests # {}
    /\ Limit \in Nat \ {0}
    /\ Window \in Nat \ {0}
    /\ FreeAuths \in Nat /\ ProAuths \in Nat /\ FreeAuths <= ProAuths
    /\ Nobody \notin Keys

VARIABLES
    rate,           \* the key ratelimit:<address>: count and time to live
    table,          \* ids of the api_keys rows
    touch,          \* goroutines that have yet to run UpdateLastUsed
    plan,           \* the plan that tenant:<id>:plan names, "free" if none
    usage,          \* quota:<id>:<this month>, 0 if there is none
    active,         \* the tenant is in tenants:active
    req,            \* req[p]: request p
    bill,           \* the billing worker: the plan it has read, or its last act
    admitted,       \* history: requests let through in this window by count
    lost,           \* history: EXPIRE was lost or never sent, so the key stays
    revoked         \* history: keys whose row has been deleted

rateVars == <<rate, admitted, lost>>
keyVars == <<table, touch, revoked>>
quotaVars == <<plan, usage, active>>
admissionVars == <<rateVars, keyVars, quotaVars, req, bill>>

Plans == {"free", "pro", "enterprise"}

\* A time to live of 0 is a key that never expires, or no key.
NoKey == [count |-> 0, ttl |-> 0]

Idle == [step |-> "idle", key |-> Nobody, arg |-> Nobody, limit |-> 0,
         late |-> FALSE]

AdmissionTypeOK ==
    /\ rate \in [count : 0..(Limit + 1), ttl : 0..Window]
    /\ rate.count = 0 => rate.ttl = 0
    /\ table \subseteq Keys /\ touch \subseteq Keys /\ revoked \subseteq Keys
    /\ plan \in Plans
    /\ usage \in Nat
    /\ active \in BOOLEAN
    /\ req \in [Requests ->
                   [step : {"idle", "window", "auth", "handler", "plan", "usage",
                            "increment", "track"},
                    key : Keys \cup {Nobody}, arg : Keys \cup {Nobody},
                    limit : {0, FreeAuths, ProAuths}, late : BOOLEAN]]
    /\ bill \in {"idle", "skip", "charge", "invoiced"}
    /\ admitted \in Nat
    /\ lost \in BOOLEAN

AdmissionInit ==
    /\ rate = NoKey
    /\ table = {} /\ touch = {} /\ revoked = {}
    /\ plan = "free" /\ usage = 0 /\ active = FALSE
    /\ req = [p \in Requests |-> Idle]
    /\ bill = "idle"
    /\ admitted = 0 /\ lost = FALSE

-----------------------------------------------------------------------------
(* RateLimiter.Middleware.                                                 *)

Finish(p) == req' = [req EXCEPT ![p] = Idle]

\* A request of a protected route that presents an API key or a bearer token
\* and wants to list, create or revoke keys (arg is the key it creates or
\* revokes).  It is late if its key has been revoked before.
Protected(k, a) ==
    [Idle EXCEPT !.step = "auth", !.key = k, !.arg = a, !.late = k \in revoked]

\* Where the routes of NewServer lead behind the limiter: a registration or
\* login, a metered route, or a protected one.
Routed ==
    {[Idle EXCEPT !.step = "track"], [Idle EXCEPT !.step = "plan"]}
    \cup {Protected(k, a) : k, a \in Keys \cup {Nobody}}

Forward(p) == \E t \in Routed : req' = [req EXCEPT ![p] = t]

\* Mutant of Exceeded: the comparison is off by one.
Exceeded_OffByOne(count) == count > Limit + 1

\* count > int64(rl.limit).
Exceeded(count) == count > Limit

\* INCR.  Above the limit the count is only compared with it, and stays at
\* Limit + 1 here.
Incr == IF rate.count > Limit THEN rate.count ELSE rate.count + 1

\* Mutant of CountRequest: every request renews the window.
CountRequest_Renews(p) ==
    LET n == Incr
    IN  /\ req[p].step = "idle"
        /\ rate' = [count |-> n, ttl |-> Window]
        /\ IF Exceeded(n) THEN Finish(p) ELSE Forward(p)
        /\ admitted' = IF Exceeded(n) THEN admitted ELSE admitted + 1
        /\ UNCHANGED <<lost, keyVars, quotaVars, bill>>

\* A request arrives: INCR, and the comparison when no expiry has to be set.
CountRequest(p) ==
    LET n == Incr
    IN  /\ req[p].step = "idle"
        /\ rate' = [rate EXCEPT !.count = n]
        /\ IF n = 1 THEN req' = [req EXCEPT ![p].step = "window"]
           ELSE IF Exceeded(n) THEN Finish(p)
           ELSE Forward(p)
        /\ admitted' = IF Exceeded(n) THEN admitted ELSE admitted + 1
        /\ UNCHANGED <<lost, keyVars, quotaVars, bill>>

\* INCR is applied and its reply does not come back.  Nobody has seen the
\* count 1 then, and nobody sends EXPIRE.
ReplyLost ==
    /\ rate' = [rate EXCEPT !.count = Incr]
    /\ lost' = (lost \/ rate.count = 0)
    /\ UNCHANGED admitted

\* A request arrives and INCR returns an error, applied or not: fail open.
CountFails(p) ==
    /\ req[p].step = "idle"
    /\ UNCHANGED rateVars \/ ReplyLost
    /\ Forward(p)
    /\ UNCHANGED <<keyVars, quotaVars, bill>>

\* EXPIRE by the request whose INCR returned 1.
SetWindow(p) ==
    /\ req[p].step = "window"
    /\ rate' = [rate EXCEPT !.ttl = Window]
    /\ Forward(p)
    /\ UNCHANGED <<admitted, lost, keyVars, quotaVars, bill>>

\* EXPIRE fails, and its error is not looked at.
WindowLost(p) ==
    /\ req[p].step = "window"
    /\ lost' = TRUE
    /\ Forward(p)
    /\ UNCHANGED <<rate, admitted, keyVars, quotaVars, bill>>

\* Redis counts the window down and drops the key at its end.
Tick ==
    /\ rate.ttl > 0
    /\ IF rate.ttl = 1
       THEN rate' = NoKey /\ admitted' = 0
       ELSE rate' = [rate EXCEPT !.ttl = @ - 1] /\ UNCHANGED admitted
    /\ UNCHANGED <<lost, keyVars, quotaVars, req, bill>>

-----------------------------------------------------------------------------
(* Auth and the API keys.                                                  *)

\* Auth without a key: ValidateToken says whether the token is genuine and not
\* expired, and nothing stored is asked.
AuthenticateToken(p, valid) ==
    /\ req[p].step = "auth"
    /\ req[p].key = Nobody
    /\ IF valid THEN req' = [req EXCEPT ![p].step = "handler"] ELSE Finish(p)
    /\ UNCHANGED <<rateVars, keyVars, quotaVars, bill>>

\* GetByPrefix: prefixes are unique, and a row with the prefix of the key has
\* its hash.
KeyRow(k) == k \in table

\* ValidateAPIKey: the row, the hash, and a goroutine that will record the use.
\* The request carries the owner and the scopes of the row from here on.
ValidateAPIKey(p) ==
    /\ req[p].step = "auth"
    /\ req[p].key \in Keys
    /\ IF KeyRow(req[p].key)
       THEN /\ req' = [req EXCEPT ![p].step = "handler"]
            /\ touch' = touch \cup {req[p].key}
       ELSE /\ Finish(p)
            /\ UNCHANGED touch
    /\ UNCHANGED <<rateVars, table, revoked, quotaVars, bill>>

\* Mutant of UpdateLastUsed: the row is saved whole, present or not.
UpdateLastUsed_Upsert(k) ==
    /\ k \in touch
    /\ touch' = touch \ {k}
    /\ table' = table \cup {k}
    /\ UNCHANGED <<rateVars, revoked, quotaVars, req, bill>>

\* UPDATE ... WHERE id: nothing is left to update when the row is gone.
UpdateLastUsed(k) ==
    /\ k \in touch
    /\ touch' = touch \ {k}
    /\ UNCHANGED <<rateVars, table, revoked, quotaVars, req, bill>>

\* The service makes a random key, which no row has or had.
FreshKey(k) == k \in Keys \ (table \cup revoked)

InsertKey(k) == table' = table \cup {k}

\* The handler of CreateAPIKey.
CreateAPIKey(p) ==
    /\ req[p].step = "handler"
    /\ FreshKey(req[p].arg)
    /\ InsertKey(req[p].arg)
    /\ Finish(p)
    /\ UNCHANGED <<rateVars, touch, revoked, quotaVars, bill>>

\* DELETE ... WHERE id.
DeleteKey(k) == table' = table \ {k} /\ revoked' = revoked \cup {k}

\* The handler of RevokeAPIKey, whoever asks.
RevokeAPIKey(p) ==
    /\ req[p].step = "handler"
    /\ req[p].arg \in table
    /\ DeleteKey(req[p].arg)
    /\ Finish(p)
    /\ UNCHANGED <<rateVars, touch, quotaVars, bill>>

\* The handler of ListAPIKeys, a DELETE of a row that is gone, or any other
\* protected route.
ReadOnlyHandler(p) ==
    /\ req[p].step = "handler"
    /\ req[p].arg \in {Nobody} \cup revoked
    /\ Finish(p)
    /\ UNCHANGED <<rateVars, keyVars, quotaVars, bill>>

-----------------------------------------------------------------------------
(* QuotaEnforcer.                                                          *)

\* getTenantPlan: a missing or unknown name, or an error, is the free plan.
PlanFound(works) == IF works THEN plan ELSE "free"

AuthsPerMonth(pl) == IF pl = "free" THEN FreeAuths ELSE ProAuths

\* The plan is read; a request of an unlimited one is served at once.
ReadPlan(p, works) ==
    /\ req[p].step = "plan"
    /\ IF PlanFound(works) = "enterprise" THEN Finish(p)
       ELSE req' = [req EXCEPT ![p].step = "usage",
                               ![p].limit = AuthsPerMonth(PlanFound(works))]
    /\ UNCHANGED <<rateVars, keyVars, quotaVars, bill>>

\* usage >= plan.AuthsPerMonth.
QuotaReached(n, limit) == n >= limit

\* getCurrentUsage, the comparison and 402.
ReadUsage(p) ==
    /\ req[p].step = "usage"
    /\ IF QuotaReached(usage, req[p].limit) THEN Finish(p)
       ELSE req' = [req EXCEPT ![p].step = "increment", ![p].limit = 0]
    /\ UNCHANGED <<rateVars, keyVars, quotaVars, bill>>

\* incrementUsage on the key of the month it is now; the request is served.
IncrementUsage(p) ==
    /\ req[p].step = "increment"
    /\ usage' = usage + 1
    /\ Finish(p)
    /\ UNCHANGED <<rateVars, keyVars, plan, active, bill>>

\* The counter cannot be read or the pipeline fails: the request is served
\* without being counted.
QuotaFails(p) ==
    /\ req[p].step \in {"usage", "increment"}
    /\ Finish(p)
    /\ UNCHANGED <<rateVars, keyVars, quotaVars, bill>>

\* A month begins: getMonthKey names another key.  A request between its read
\* and its increment goes on with what it read.
NewMonth ==
    /\ usage > 0
    /\ usage' = 0
    /\ UNCHANGED <<rateVars, keyVars, plan, active, req, bill>>

SetTenantPlan(pl) ==
    /\ pl # plan
    /\ plan' = pl
    /\ UNCHANGED <<rateVars, keyVars, usage, active, req, bill>>

\* AddActiveTenant at the end of a registration or login; a failure is logged.
TrackTenant(p, works) ==
    /\ req[p].step = "track"
    /\ active' = (active \/ works)
    /\ Finish(p)
    /\ UNCHANGED <<rateVars, keyVars, plan, usage, bill>>

-----------------------------------------------------------------------------
(* processBilling.                                                         *)

\* The cost of a plan is positive whatever the usage, or zero.
Billable(pl) == pl \in {"pro", "enterprise"}

\* A minute is over: GetActiveTenants finds the tenant and GetUsage its plan;
\* an error of the latter makes it the free one.  No tenant ever leaves the
\* set.
BillPlan(works) ==
    /\ bill \in {"idle", "invoiced"}
    /\ active
    /\ bill' = IF Billable(PlanFound(works)) THEN "charge" ELSE "skip"
    /\ UNCHANGED <<rateVars, keyVars, quotaVars, req>>

\* GetUsage reads the counter, and the invoice of the plan is logged.
Invoice ==
    /\ bill = "charge"
    /\ bill' = "invoiced"
    /\ UNCHANGED <<rateVars, keyVars, quotaVars, req>>

\* There is no cost, or the counter cannot be read: the tenant is left for the
\* next minute.
SkipInvoice ==
    /\ bill \in {"skip", "charge"}
    /\ bill' = "idle"
    /\ UNCHANGED <<rateVars, keyVars, quotaVars, req>>

-----------------------------------------------------------------------------

\* The process dies, or the client goes away, between two commands.
Abort(p) ==
    /\ req[p].step # "idle"
    /\ lost' = (lost \/ req[p].step = "window")
    /\ Finish(p)
    /\ UNCHANGED <<rate, admitted, keyVars, quotaVars, bill>>

\* One more step of a request that has been counted.
RequestStep(p) ==
    \/ SetWindow(p)
    \/ WindowLost(p)
    \/ \E valid \in BOOLEAN : AuthenticateToken(p, valid)
    \/ ValidateAPIKey(p)
    \/ CreateAPIKey(p)
    \/ RevokeAPIKey(p)
    \/ ReadOnlyHandler(p)
    \/ \E works \in BOOLEAN : ReadPlan(p, works)
    \/ ReadUsage(p)
    \/ IncrementUsage(p)
    \/ QuotaFails(p)
    \/ \E works \in BOOLEAN : TrackTenant(p, works)

Billing == (\E works \in BOOLEAN : BillPlan(works)) \/ Invoice \/ SkipInvoice

AdmissionNext ==
    \/ \E p \in Requests : CountRequest(p) \/ CountFails(p)
    \/ \E p \in Requests : RequestStep(p) \/ Abort(p)
    \/ \E k \in Keys : UpdateLastUsed(k)
    \/ Tick
    \/ NewMonth
    \/ \E pl \in Plans : SetTenantPlan(pl)
    \/ Billing

\* Time passes, a request that has arrived goes on, the worker's ticker fires,
\* and Redis does not fail for ever.
AdmissionFairness ==
    /\ WF_admissionVars(Tick)
    /\ \A p \in Requests : WF_admissionVars(RequestStep(p))
    /\ WF_admissionVars(Billing)
    /\ SF_admissionVars(BillPlan(TRUE))
    /\ SF_admissionVars(Invoice)

AdmissionSpec == AdmissionInit /\ [][AdmissionNext]_admissionVars /\ AdmissionFairness

-----------------------------------------------------------------------------
(* Properties.                                                             *)

\* Between two ends of the window at most Limit requests pass the limiter by
\* their count, however their INCR, EXPIRE and comparison interleave.
AdmittedWithinLimit == admitted <= Limit

\* A counter without an expiry has a request about to set it, or the EXPIRE
\* was lost, or not sent because the reply to INCR was: no order of requests
\* alone opens a window that cannot end.
WindowEnds ==
    (rate.count > 0 /\ rate.ttl = 0)
        => lost \/ \E p \in Requests : req[p].step = "window"

\* A client above the limit is let in again: its refused requests do not
\* keep the window open.  Only an EXPIRE that was lost, or not sent because
\* the reply to the INCR was, locks it out for good.
LockoutEnds == (rate.count > Limit) ~> (rate.count = 0 \/ lost)

\* A request that began after a key was revoked does not get past Auth with
\* it: no goroutine that records a use, and no overlapping revocation or
\* creation, brings the row back.
RevokedKeyRefused ==
    \A p \in Requests :
        req[p].step = "handler" => ~req[p].late

\* The month's counter passes the larger quota by at most the other requests
\* in progress, whatever plans change and months begin between their read
\* and their increment.
OvershootBounded == usage + 1 <= ProAuths + Cardinality(Requests)

\* An active tenant on a paid plan gets its invoice, or changes its plan:
\* errors and overlapping requests delay the worker, they do not stop it.
TenantBilled == (active /\ Billable(plan)) ~> (bill = "invoiced" \/ ~Billable(plan))

\* Neither the limiter nor the billing worker gets stuck: a client above the
\* limit is let in again, and a paid plan is billed.
AdmissionProgress == LockoutEnds /\ TenantBilled

\* The limits hold: of the rate limiter within a window, of the month's quota
\* up to the requests in progress, and every window that is open can end.
LimitsSound == AdmissionTypeOK /\ AdmittedWithinLimit /\ WindowEnds /\ OvershootBounded

=============================================================================
