-------------------------- MODULE AdmissionProofs ---------------------------
(***************************************************************************)
(* Proofs about the rate limiter, the API keys and the quota, for any      *)
(* number of overlapping requests and keys, any limit, window and quotas.  *)
(***************************************************************************)
EXTENDS Admission, FiniteSetTheorems, TLAPS

Reqs == [step : {"idle", "window", "auth", "handler", "plan", "usage",
                 "increment", "track"},
         key : Keys \cup {Nobody}, arg : Keys \cup {Nobody},
         limit : {0, FreeAuths, ProAuths}, late : BOOLEAN]

\* At most one request is about to set the expiry of the counter, which then
\* has none and is not empty.
WindowInv ==
    /\ WindowEnds
    /\ \A p \in Requests :
          req[p].step = "window" =>
              /\ rate.ttl = 0 /\ rate.count > 0
              /\ \A q \in Requests : req[q].step = "window" => q = p

\* Every admission of the window is in the counter.
CountInv == admitted <= rate.count /\ AdmittedWithinLimit

\* No row of a revoked key comes back, and a late request presents one.
KeyInv ==
    /\ table \cap revoked = {}
    /\ \A p \in Requests :
          /\ req[p].late => req[p].key \in revoked
          /\ req[p].step = "handler" => ~req[p].late

\* Requests that have found the quota not reached and will increment it.
Incrementing == {p \in Requests : req[p].step = "increment"}

\* Each of them may still add one, and the last one that read the counter
\* found it below the quota.
QuotaInv == usage + Cardinality(Incrementing) + 1 <= ProAuths + Cardinality(Requests)

LimitsInv == AdmissionTypeOK /\ WindowInv /\ CountInv /\ KeyInv /\ QuotaInv

-----------------------------------------------------------------------------
(* Requests.                                                               *)

LEMMA IdleType ==
    /\ Idle \in Reqs /\ Idle.step = "idle" /\ ~Idle.late
    /\ Idle.key = Nobody /\ Idle.limit = 0
  BY DEF Idle, Reqs

LEMMA ReqTypes ==
    ASSUME AdmissionTypeOK
    PROVE  /\ \A p \in Requests : req[p] \in Reqs
           /\ rate.count \in 0..(Limit + 1) /\ rate.ttl \in 0..Window
           /\ DOMAIN req = Requests
  BY DEF AdmissionTypeOK, Reqs

\* Behind the limiter a request has not passed Auth or the quota, and is late
\* if its key is revoked.
LEMMA RoutedTypes ==
    ASSUME NEW t \in Routed
    PROVE  /\ t \in Reqs /\ t.step \in {"track", "plan", "auth"}
           /\ t.late => t.key \in revoked
<1>1. PICK k \in Keys \cup {Nobody}, a \in Keys \cup {Nobody} :
          \/ t = [Idle EXCEPT !.step = "track"]
          \/ t = [Idle EXCEPT !.step = "plan"]
          \/ t = Protected(k, a)
  BY DEF Routed
<1>2. /\ Protected(k, a) \in Reqs /\ Protected(k, a).step = "auth"
      /\ Protected(k, a).late => Protected(k, a).key \in revoked
  <2>0. \E b \in BOOLEAN : b = (k \in revoked)
    <3>1. CASE k \in revoked
      <4>1. TRUE = (k \in revoked)
        BY <3>1
      <4> QED
        BY <4>1
    <3>2. CASE k \notin revoked
      <4>1. FALSE = (k \in revoked)
        BY <3>2
      <4> QED
        BY <4>1
    <3> QED
      BY <3>1, <3>2
  <2>1. PICK b \in BOOLEAN : b = (k \in revoked)
    BY <2>0
  <2>2. Protected(k, a) = [Idle EXCEPT !.step = "auth", !.key = k, !.arg = a, !.late = b]
    BY <2>1, Zenon DEF Protected
  <2>3. /\ Protected(k, a) \in Reqs /\ Protected(k, a).step = "auth"
        /\ Protected(k, a).late = b /\ Protected(k, a).key = k
    BY <2>2 DEF Idle, Reqs
  <2> QED
    BY <2>1, <2>3
<1>3. ASSUME NEW x \in {"track", "plan"}
      PROVE  LET s == [Idle EXCEPT !.step = x]
             IN  s \in Reqs /\ s.step = x /\ ~s.late
  BY DEF Idle, Reqs
<1> QED
  BY <1>1, <1>2, <1>3

\* Request p becomes s.
Becomes(p, s) == req' = [req EXCEPT ![p] = s]

\* The parts of the invariant that are about single requests, for a step that
\* touches neither the limiter nor the rows.
LEMMA RequestChanges ==
    ASSUME AdmissionTypeOK, WindowInv, KeyInv, NEW p \in Requests, NEW s \in Reqs,
           Becomes(p, s), UNCHANGED rate, UNCHANGED lost,
           UNCHANGED <<table, revoked>>,
           req[p].step # "window", s.step # "window",
           s.late => s.key \in revoked, s.step = "handler" => ~s.late
    PROVE  req' \in [Requests -> Reqs] /\ WindowInv' /\ KeyInv'
<1>1. \A q \in Requests : req'[q] = IF q = p THEN s ELSE req[q]
  BY DEF Becomes, AdmissionTypeOK
<1>2. req' \in [Requests -> Reqs]
  BY DEF Becomes, AdmissionTypeOK, Reqs
<1>3. WindowEnds'
  <2> SUFFICES ASSUME rate.count > 0, rate.ttl = 0, ~lost
               PROVE  \E q \in Requests : req'[q].step = "window"
    BY DEF WindowEnds
  <2>1. PICK q \in Requests : req[q].step = "window"
    BY DEF WindowInv, WindowEnds
  <2> QED
    BY <1>1, <2>1
<1>4. WindowInv'
  BY <1>1, <1>3 DEF WindowInv
<1>5. KeyInv'
  BY <1>1 DEF KeyInv
<1> QED
  BY <1>2, <1>4, <1>5

\* A request that is on its way to the increment came there with the usage
\* below its limit; every other step leaves the quota's slack alone.
LEMMA QuotaChanges ==
    ASSUME AdmissionTypeOK, QuotaInv, NEW p \in Requests, NEW s \in Reqs,
           Becomes(p, s), s.step # "increment", usage' \in Nat,
           \/ usage' <= usage
           \/ usage' = usage + 1 /\ req[p].step = "increment"
    PROVE  QuotaInv'
<1>1. \A q \in Requests : req'[q] = IF q = p THEN s ELSE req[q]
  BY DEF Becomes, AdmissionTypeOK
<1>2. Incrementing' = Incrementing \ {p}
  BY <1>1 DEF Incrementing
<1>3. IsFiniteSet(Incrementing)
  BY FS_Subset, AdmissionAssumption DEF Incrementing
<1>4. /\ Cardinality(Incrementing) \in Nat
      /\ Cardinality(Incrementing') \in Nat
      /\ Cardinality(Incrementing') =
            IF p \in Incrementing THEN Cardinality(Incrementing) - 1
            ELSE Cardinality(Incrementing)
  BY <1>2, <1>3, FS_RemoveElement, FS_CardinalityType
<1>5. Cardinality(Requests) \in Nat /\ ProAuths \in Nat /\ usage \in Nat
  BY FS_CardinalityType, AdmissionAssumption DEF AdmissionTypeOK
<1>6. req[p].step = "increment" <=> p \in Incrementing
  BY DEF Incrementing
<1> QED
  BY <1>4, <1>5, <1>6 DEF QuotaInv

\* The quota's slack when no request moves.
LEMMA QuotaStays ==
    ASSUME AdmissionTypeOK, QuotaInv, UNCHANGED req, usage' \in Nat, usage' <= usage
    PROVE  QuotaInv'
<1>1. Incrementing' = Incrementing
  BY DEF Incrementing
<1>2. IsFiniteSet(Incrementing)
  BY FS_Subset, AdmissionAssumption DEF Incrementing
<1>3. /\ Cardinality(Incrementing) \in Nat /\ Cardinality(Requests) \in Nat
      /\ ProAuths \in Nat /\ usage \in Nat
  BY <1>2, FS_CardinalityType, AdmissionAssumption DEF AdmissionTypeOK
<1> QED
  BY <1>1, <1>3 DEF QuotaInv

-----------------------------------------------------------------------------
(* The limiter.                                                            *)

LEMMA ForwardStep ==
    ASSUME LimitsInv, NEW p \in Requests, Forward(p),
           UNCHANGED <<keyVars, quotaVars, bill>>
    PROVE  \E s \in Reqs : /\ Becomes(p, s) /\ s.step \in {"track", "plan", "auth"}
                           /\ s.late => s.key \in revoked
  BY RoutedTypes DEF Forward, Becomes

\* INCR and what follows it, for the state s the request goes on in.
LEMMA CountStep ==
    ASSUME LimitsInv, NEW p \in Requests, CountRequest(p)
    PROVE  LimitsInv'
<1> DEFINE n == Incr
<1>0. /\ rate \in [count : 0..(Limit + 1), ttl : 0..Window]
      /\ Limit \in Nat \ {0} /\ Window \in Nat \ {0} /\ req[p] \in Reqs
  BY ReqTypes, AdmissionAssumption DEF LimitsInv, AdmissionTypeOK
<1>1. /\ n \in 1..(Limit + 1) /\ (Exceeded(n) <=> n = Limit + 1)
      /\ n >= rate.count /\ (~Exceeded(n) => n = rate.count + 1)
  BY <1>0 DEF Exceeded, Incr
<1>2. /\ rate' = [rate EXCEPT !.count = n] /\ req[p].step = "idle"
      /\ admitted' = IF Exceeded(n) THEN admitted ELSE admitted + 1
      /\ lost' = lost /\ UNCHANGED <<table, touch, revoked, plan, usage, active, bill>>
  BY DEF CountRequest, keyVars, quotaVars
<1>3. rate'.count = n /\ rate'.ttl = rate.ttl
  BY <1>0, <1>2
<1>4. rate' \in [count : 0..(Limit + 1), ttl : 0..Window]
      /\ (rate'.count = 0 => rate'.ttl = 0)
  BY <1>0, <1>1, <1>2, <1>3
<1>5. CountInv' /\ admitted' \in Nat
  <2> HIDE DEF n
  <2>1. admitted \in Nat /\ admitted <= rate.count /\ admitted <= Limit
    BY DEF LimitsInv, CountInv, AdmittedWithinLimit, AdmissionTypeOK
  <2>2. CASE Exceeded(n)
    BY <1>0, <1>1, <1>2, <1>3, <2>1, <2>2 DEF CountInv, AdmittedWithinLimit
  <2>3. CASE ~Exceeded(n)
    BY <1>0, <1>1, <1>2, <1>3, <2>1, <2>3 DEF CountInv, AdmittedWithinLimit
  <2> QED
    BY <2>2, <2>3
<1>6. PICK s \in Reqs :
          /\ Becomes(p, s)
          /\ s.step \in {"idle", "window", "track", "plan", "auth"}
          /\ s.late => s.key \in revoked
          /\ s.step = "window" <=> n = 1
  <2>1. CASE n = 1
    <3>1. Becomes(p, [req[p] EXCEPT !.step = "window"])
      BY <2>1 DEF CountRequest, Becomes
    <3>2. /\ [req[p] EXCEPT !.step = "window"] \in Reqs
          /\ [req[p] EXCEPT !.step = "window"].step = "window"
          /\ [req[p] EXCEPT !.step = "window"].late = req[p].late
          /\ [req[p] EXCEPT !.step = "window"].key = req[p].key
      BY <1>0 DEF Reqs
    <3> QED
      BY <2>1, <3>1, <3>2 DEF LimitsInv, KeyInv
  <2>2. CASE n # 1 /\ Exceeded(n)
    BY <2>2, IdleType DEF CountRequest, Finish, Becomes
  <2>3. CASE n # 1 /\ ~Exceeded(n)
    <3>1. Forward(p)
      BY <2>3 DEF CountRequest
    <3> QED
      BY <1>2, <2>3, <3>1, RoutedTypes DEF Forward, Becomes
  <2> QED
    BY <2>1, <2>2, <2>3
<1> HIDE DEF n
<1>7. \A q \in Requests : req'[q] = IF q = p THEN s ELSE req[q]
  BY <1>6 DEF Becomes, LimitsInv, AdmissionTypeOK
<1>8. req' \in [Requests -> Reqs]
  BY <1>6 DEF Becomes, LimitsInv, AdmissionTypeOK, Reqs
<1>9. n = 1 => rate.count = 0
  BY <1>0 DEF n, Incr
<1>10. WindowInv'
  <2>1. CASE n = 1
    <3>1. rate.ttl = 0 /\ \A q \in Requests : req[q].step # "window"
      BY <1>9, <2>1 DEF LimitsInv, AdmissionTypeOK, WindowInv
    <3> QED
      BY <1>3, <1>6, <1>7, <2>1, <3>1 DEF WindowInv, WindowEnds
  <2>2. CASE n # 1
    <3>1. rate.count > 0
      BY <1>0, <2>2 DEF n, Incr
    <3>2. \A q \in Requests : req'[q].step = "window" <=> req[q].step = "window"
      BY <1>2, <1>6, <1>7, <2>2
    <3> QED
      BY <1>1, <1>2, <1>3, <3>1, <3>2 DEF LimitsInv, WindowInv, WindowEnds
  <2> QED
    BY <2>1, <2>2
<1>11. KeyInv'
  BY <1>2, <1>6, <1>7 DEF LimitsInv, KeyInv
<1>12. QuotaInv'
  BY <1>2, <1>6, QuotaChanges DEF LimitsInv, AdmissionTypeOK
<1>13. AdmissionTypeOK'
  BY <1>2, <1>4, <1>5, <1>8 DEF LimitsInv, AdmissionTypeOK, Reqs
<1> QED
  BY <1>5, <1>10, <1>11, <1>12, <1>13 DEF LimitsInv

\* EXPIRE, whether it works or not, or the end of the request that owed it.
LEMMA ExpireStep ==
    ASSUME LimitsInv, NEW p \in Requests, req[p].step = "window",
           NEW s \in Reqs, Becomes(p, s), s.step \notin {"window", "handler", "increment"},
           s.late => s.key \in revoked,
           \/ rate' = [rate EXCEPT !.ttl = Window] /\ lost' = lost
           \/ rate' = rate /\ lost' = TRUE,
           UNCHANGED <<admitted, keyVars, quotaVars, bill>>
    PROVE  LimitsInv'
<1> USE DEF LimitsInv, keyVars, quotaVars
<1>0. /\ rate \in [count : 0..(Limit + 1), ttl : 0..Window] /\ rate.count > 0
      /\ Limit \in Nat \ {0} /\ Window \in Nat \ {0}
  BY AdmissionAssumption DEF AdmissionTypeOK, WindowInv
<1>1. /\ rate' \in [count : 0..(Limit + 1), ttl : 0..Window]
      /\ rate'.count = rate.count /\ (rate'.ttl = Window \/ lost')
  BY <1>0
<1>2. \A q \in Requests : req'[q] = IF q = p THEN s ELSE req[q]
  BY DEF Becomes, AdmissionTypeOK
<1>3. req' \in [Requests -> Reqs]
  BY DEF Becomes, AdmissionTypeOK, Reqs
<1>4. \A q \in Requests : req'[q].step # "window"
  BY <1>2 DEF WindowInv
<1>5. WindowInv'
  BY <1>0, <1>1, <1>4 DEF WindowInv, WindowEnds
<1>6. KeyInv'
  BY <1>2 DEF KeyInv
<1>7. QuotaInv'
  BY QuotaChanges DEF AdmissionTypeOK
<1>8. CountInv'
  BY <1>1 DEF CountInv, AdmittedWithinLimit
<1>9. lost' \in BOOLEAN
  BY DEF AdmissionTypeOK
<1>10. AdmissionTypeOK'
  <2>1. rate'.count # 0
    BY <1>0, <1>1
  <2> QED
    BY <1>1, <1>3, <1>9, <2>1 DEF AdmissionTypeOK, Reqs
<1> QED
  BY <1>5, <1>6, <1>7, <1>8, <1>10

LEMMA TickStep ==
    ASSUME LimitsInv, Tick
    PROVE  LimitsInv'
<1> USE DEF LimitsInv, keyVars, quotaVars
<1>0. /\ rate \in [count : 0..(Limit + 1), ttl : 0..Window] /\ rate.ttl > 0
      /\ Limit \in Nat \ {0} /\ Window \in Nat \ {0} /\ rate.count > 0
      /\ admitted \in Nat
  BY AdmissionAssumption DEF AdmissionTypeOK, Tick
<1>1. UNCHANGED <<lost, table, touch, revoked, plan, usage, active, req, bill>>
  BY DEF Tick
<1>2. \/ rate' = NoKey /\ admitted' = 0
      \/ rate' = [rate EXCEPT !.ttl = @ - 1] /\ rate.ttl # 1 /\ admitted' = admitted
  BY DEF Tick
<1>3. /\ rate' \in [count : 0..(Limit + 1), ttl : 0..Window]
      /\ \/ rate'.count = 0 /\ rate'.ttl = 0 /\ admitted' = 0
         \/ rate'.count = rate.count /\ rate'.ttl > 0 /\ admitted' = admitted
  BY <1>0, <1>2 DEF NoKey
<1>4. \A q \in Requests : req[q].step # "window"
  BY <1>0 DEF WindowInv
<1>5. WindowInv'
  BY <1>1, <1>3, <1>4 DEF WindowInv, WindowEnds
<1>6. CountInv'
  BY <1>0, <1>3 DEF CountInv, AdmittedWithinLimit
<1>7. KeyInv'
  BY <1>1 DEF KeyInv
<1>8. QuotaInv'
  BY <1>1, QuotaStays DEF AdmissionTypeOK
<1>9. AdmissionTypeOK'
  BY <1>0, <1>1, <1>3 DEF AdmissionTypeOK
<1> QED
  BY <1>5, <1>6, <1>7, <1>8, <1>9

-----------------------------------------------------------------------------
(* The other steps.                                                        *)

\* A step of p outside the limiter that keeps the rows.
LEMMA OtherStep ==
    ASSUME LimitsInv, NEW p \in Requests, NEW s \in Reqs, Becomes(p, s),
           UNCHANGED <<rate, admitted, lost, table, revoked, bill>>,
           touch' \subseteq Keys, plan' \in Plans, usage' \in Nat,
           active' \in BOOLEAN, req[p].step # "window",
           s.step \notin {"window", "increment"},
           s.late => s.key \in revoked, s.step = "handler" => ~s.late,
           \/ usage' <= usage
           \/ usage' = usage + 1 /\ req[p].step = "increment"
    PROVE  LimitsInv'
<1>1. req' \in [Requests -> Reqs] /\ WindowInv' /\ KeyInv'
  BY RequestChanges DEF LimitsInv
<1>2. QuotaInv'
  BY QuotaChanges DEF LimitsInv
<1>3. CountInv'
  BY DEF LimitsInv, CountInv, AdmittedWithinLimit
<1>4. AdmissionTypeOK'
  BY <1>1 DEF LimitsInv, AdmissionTypeOK, Reqs
<1> QED
  BY <1>1, <1>2, <1>3, <1>4 DEF LimitsInv

\* The counter has grown although the request that asked got an error.
LEMMA ReplyLostStep ==
    ASSUME LimitsInv, NEW p \in Requests, NEW s \in Reqs, Becomes(p, s), ReplyLost,
           UNCHANGED <<keyVars, quotaVars, bill>>, req[p].step = "idle",
           s.step \in {"track", "plan", "auth"}, s.late => s.key \in revoked
    PROVE  LimitsInv'
<1> USE DEF keyVars, quotaVars
<1>0. /\ rate \in [count : 0..(Limit + 1), ttl : 0..Window]
      /\ Limit \in Nat \ {0} /\ Window \in Nat \ {0} /\ lost \in BOOLEAN
  BY AdmissionAssumption DEF LimitsInv, AdmissionTypeOK
<1>1. Incr \in 1..(Limit + 1) /\ Incr >= rate.count
  BY <1>0 DEF Incr
<1>2. rate'.count = Incr /\ rate'.ttl = rate.ttl
  BY <1>0 DEF ReplyLost
<1>3. /\ rate' \in [count : 0..(Limit + 1), ttl : 0..Window]
      /\ rate'.count = 0 => rate'.ttl = 0
  BY <1>0, <1>1, <1>2 DEF ReplyLost
<1>4. /\ lost' \in BOOLEAN
      /\ lost => lost'
      /\ rate.count = 0 => lost'
  BY <1>0, Zenon DEF ReplyLost
<1>5. CountInv' /\ admitted' \in Nat
  BY <1>0, <1>1, <1>2
  DEF LimitsInv, CountInv, AdmittedWithinLimit, AdmissionTypeOK, ReplyLost
<1>6. /\ \A q \in Requests : req'[q] = IF q = p THEN s ELSE req[q]
      /\ req' \in [Requests -> Reqs]
  BY DEF Becomes, LimitsInv, AdmissionTypeOK, Reqs
<1>7. \A q \in Requests : req'[q].step = "window" <=> req[q].step = "window"
  BY <1>6
<1>8. WindowInv'
  <2>1. CASE rate.count = 0
    <3>1. \A q \in Requests : req[q].step # "window"
      BY <2>1 DEF LimitsInv, WindowInv
    <3> QED
      BY <1>4, <1>7, <2>1, <3>1 DEF WindowInv, WindowEnds
  <2>2. CASE rate.count # 0
    <3>1. rate.count > 0
      BY <1>0, <2>2
    <3> QED
      BY <1>1, <1>2, <1>4, <1>7, <3>1 DEF LimitsInv, WindowInv, WindowEnds
  <2> QED
    BY <2>1, <2>2
<1>9. KeyInv'
  BY <1>6 DEF LimitsInv, KeyInv
<1>10. QuotaInv'
  BY QuotaChanges DEF LimitsInv, AdmissionTypeOK
<1>11. AdmissionTypeOK'
  BY <1>3, <1>4, <1>5, <1>6 DEF LimitsInv, AdmissionTypeOK, Reqs
<1> QED
  BY <1>5, <1>8, <1>9, <1>10, <1>11 DEF LimitsInv

\* The read of the counter that finds the quota not reached.
LEMMA BelowQuotaStep ==
    ASSUME LimitsInv, NEW p \in Requests, NEW s \in Reqs, Becomes(p, s),
           UNCHANGED <<rateVars, keyVars, quotaVars, bill>>,
           req[p].step = "usage", s.step = "increment", usage < ProAuths,
           s.late => s.key \in revoked
    PROVE  LimitsInv'
<1> USE DEF LimitsInv, rateVars, keyVars, quotaVars
<1>1. req' \in [Requests -> Reqs] /\ WindowInv' /\ KeyInv'
  BY RequestChanges
<1>2. IsFiniteSet(Requests) /\ Incrementing' \subseteq Requests
  BY AdmissionAssumption DEF Incrementing
<1>3. /\ Cardinality(Incrementing') <= Cardinality(Requests)
      /\ Cardinality(Incrementing') \in Nat /\ Cardinality(Requests) \in Nat
  BY <1>2, FS_Subset, FS_CardinalityType
<1>4. QuotaInv'
  BY <1>3, AdmissionAssumption DEF QuotaInv, AdmissionTypeOK
<1>5. CountInv'
  BY DEF CountInv, AdmittedWithinLimit
<1>6. AdmissionTypeOK'
  BY <1>1 DEF AdmissionTypeOK, Reqs
<1> QED
  BY <1>1, <1>4, <1>5, <1>6

\* The insertion of a fresh key and the deletion of a row.
LEMMA RowStep ==
    ASSUME LimitsInv, NEW p \in Requests, CreateAPIKey(p) \/ RevokeAPIKey(p)
    PROVE  LimitsInv'
<1> USE DEF LimitsInv, rateVars, keyVars, quotaVars
<1>1. /\ Becomes(p, Idle) /\ req[p].step = "handler"
      /\ UNCHANGED <<rate, admitted, lost, touch, plan, usage, active, bill>>
  BY DEF CreateAPIKey, RevokeAPIKey, Finish, Becomes
<1>2. \A q \in Requests : req'[q] = IF q = p THEN Idle ELSE req[q]
  BY <1>1 DEF Becomes, AdmissionTypeOK
<1>3. req' \in [Requests -> Reqs]
  BY <1>1, IdleType DEF Becomes, AdmissionTypeOK, Reqs
<1>4. /\ table' \subseteq Keys /\ revoked' \subseteq Keys
      /\ table' \cap revoked' = {} /\ revoked \subseteq revoked'
  BY DEF CreateAPIKey, RevokeAPIKey, InsertKey, FreshKey, DeleteKey, KeyInv,
         AdmissionTypeOK
<1>5. KeyInv'
  BY <1>2, <1>4, IdleType DEF KeyInv
<1>6. WindowInv'
  <2>1. \A q \in Requests : req'[q].step = "window" <=> req[q].step = "window"
    BY <1>1, <1>2, IdleType
  <2> QED
    BY <1>1, <2>1 DEF WindowInv, WindowEnds
<1>7. QuotaInv'
  BY <1>1, IdleType, QuotaChanges DEF AdmissionTypeOK
<1>8. CountInv'
  BY <1>1 DEF CountInv, AdmittedWithinLimit
<1>9. AdmissionTypeOK'
  BY <1>1, <1>3, <1>4 DEF AdmissionTypeOK, Reqs
<1> QED
  BY <1>5, <1>6, <1>7, <1>8, <1>9

\* A step of the tenant, the worker or a goroutine: no request moves.
LEMMA BackgroundStep ==
    ASSUME LimitsInv, UNCHANGED <<rate, admitted, lost, table, revoked, req>>,
           touch' \subseteq Keys, plan' \in Plans, active' \in BOOLEAN,
           usage' \in Nat, usage' <= usage,
           bill' \in {"idle", "skip", "charge", "invoiced"}
    PROVE  LimitsInv'
<1> USE DEF LimitsInv
<1>1. WindowInv' /\ KeyInv' /\ CountInv'
  BY DEF WindowInv, WindowEnds, KeyInv, CountInv, AdmittedWithinLimit
<1>2. QuotaInv'
  BY QuotaStays
<1>3. AdmissionTypeOK'
  BY DEF AdmissionTypeOK
<1> QED
  BY <1>1, <1>2, <1>3

LEMMA InitLimits == AdmissionInit => LimitsInv
<1> SUFFICES ASSUME AdmissionInit PROVE LimitsInv
  OBVIOUS
<1> USE AdmissionAssumption DEF AdmissionInit
<1>1. \A p \in Requests : req[p] = Idle
  OBVIOUS
<1>2. rate.count = 0 /\ rate.ttl = 0
  BY DEF NoKey
<1>3. AdmissionTypeOK
  <2>1. rate \in [count : 0..(Limit + 1), ttl : 0..Window]
    BY DEF NoKey
  <2>2. req \in [Requests -> Reqs]
    BY IdleType
  <2> QED
    BY <1>2, <2>1, <2>2 DEF AdmissionTypeOK, Reqs, Plans
<1>4. WindowInv /\ KeyInv
  BY <1>1, <1>2, IdleType DEF WindowInv, WindowEnds, KeyInv
<1>5. CountInv
  BY <1>2 DEF CountInv, AdmittedWithinLimit
<1>6. QuotaInv
  <2>1. Incrementing = {}
    BY <1>1, IdleType DEF Incrementing
  <2>2. Cardinality(Incrementing) = 0
    BY <2>1, FS_EmptySet
  <2>3. Cardinality(Requests) \in Nat \ {0}
    BY FS_CardinalityType, FS_EmptySet
  <2> QED
    BY <2>2, <2>3 DEF QuotaInv
<1> QED
  BY <1>3, <1>4, <1>5, <1>6 DEF LimitsInv

LEMMA StepLimits == LimitsInv /\ [AdmissionNext]_admissionVars => LimitsInv'
<1> SUFFICES ASSUME LimitsInv, [AdmissionNext]_admissionVars
             PROVE  LimitsInv'
  OBVIOUS
<1> USE DEF rateVars, keyVars, quotaVars
<1>0. /\ \A p \in Requests : /\ req[p] \in Reqs
                             /\ req[p].late => req[p].key \in revoked
      /\ usage \in Nat /\ usage <= usage /\ touch \subseteq Keys /\ plan \in Plans
      /\ active \in BOOLEAN /\ bill \in {"idle", "skip", "charge", "invoiced"}
  BY ReqTypes DEF LimitsInv, AdmissionTypeOK, KeyInv
\* The answer is sent.
<1>a. ASSUME NEW p \in Requests, Finish(p), req[p].step # "window",
             UNCHANGED <<rateVars, keyVars, plan, bill>>, active' \in BOOLEAN,
             \/ usage' = usage
             \/ usage' = usage + 1 /\ req[p].step = "increment"
      PROVE  LimitsInv'
  <2>1. Becomes(p, Idle) /\ usage' \in Nat
    BY <1>0, <1>a DEF Finish, Becomes
  <2> QED
    BY <1>0, <1>a, <2>1, IdleType, OtherStep
\* The request goes on in a later step with the same credentials.
<1>b. ASSUME NEW p \in Requests, NEW x, NEW l \in {0, FreeAuths, ProAuths},
             x \in {"handler", "usage", "increment"}
      PROVE  LET s == [req[p] EXCEPT !.step = x, !.limit = l]
             IN  /\ s \in Reqs /\ s.step = x /\ s.late = req[p].late
                 /\ s.key = req[p].key
  BY <1>0, <1>b DEF Reqs
<1>c. ASSUME NEW p \in Requests
      PROVE  LET s == [req[p] EXCEPT !.step = "handler"]
             IN  /\ s \in Reqs /\ s.step = "handler" /\ s.late = req[p].late
  BY <1>0, <1>c DEF Reqs
<1>1. CASE UNCHANGED admissionVars
  BY <1>0, <1>1, BackgroundStep DEF admissionVars
<1>2. ASSUME NEW p \in Requests, CountRequest(p)
      PROVE  LimitsInv'
  BY <1>2, CountStep
<1>3. ASSUME NEW p \in Requests, CountFails(p)
      PROVE  LimitsInv'
  <2>1. PICK s \in Reqs : /\ Becomes(p, s) /\ s.step \in {"track", "plan", "auth"}
                          /\ s.late => s.key \in revoked
    BY <1>3, ForwardStep DEF CountFails
  <2>2. CASE UNCHANGED rateVars
    BY <1>0, <1>3, <2>1, <2>2, OtherStep DEF CountFails
  <2>3. CASE ReplyLost
    BY <1>3, <2>1, <2>3, ReplyLostStep DEF CountFails
  <2> QED
    BY <1>3, <2>2, <2>3 DEF CountFails
<1>4. ASSUME NEW p \in Requests, SetWindow(p) \/ WindowLost(p)
      PROVE  LimitsInv'
  <2>1. PICK s \in Reqs : /\ Becomes(p, s) /\ s.step \in {"track", "plan", "auth"}
                          /\ s.late => s.key \in revoked
    BY <1>4, ForwardStep DEF SetWindow, WindowLost
  <2>2. /\ req[p].step = "window"
        /\ UNCHANGED <<admitted, keyVars, quotaVars, bill>>
        /\ \/ rate' = [rate EXCEPT !.ttl = Window] /\ lost' = lost
           \/ rate' = rate /\ lost' = TRUE
    BY <1>4 DEF SetWindow, WindowLost
  <2> QED
    BY <2>1, <2>2, ExpireStep
<1>5. ASSUME NEW p \in Requests, NEW valid \in BOOLEAN, AuthenticateToken(p, valid)
      PROVE  LimitsInv'
  <2>1. CASE valid
    <3> DEFINE s == [req[p] EXCEPT !.step = "handler"]
    <3>1. Becomes(p, s)
      BY <1>5, <2>1 DEF AuthenticateToken, Becomes
    <3>2. s \in Reqs /\ s.step = "handler" /\ s.late = req[p].late
      BY <1>c
    <3>3. ~req[p].late
      BY <1>0, <1>5, AdmissionAssumption DEF AuthenticateToken, LimitsInv, AdmissionTypeOK
    <3> HIDE DEF s
    <3> QED
      BY <1>0, <1>5, <3>1, <3>2, <3>3, OtherStep DEF AuthenticateToken
  <2>2. CASE ~valid
    BY <1>0, <1>5, <1>a, <2>2 DEF AuthenticateToken
  <2> QED
    BY <2>1, <2>2
<1>6. ASSUME NEW p \in Requests, ValidateAPIKey(p)
      PROVE  LimitsInv'
  <2>1. CASE req[p].key \in table
    <3> DEFINE s == [req[p] EXCEPT !.step = "handler"]
    <3>1. Becomes(p, s)
      BY <1>6, <2>1 DEF ValidateAPIKey, Becomes, KeyRow
    <3>2. s \in Reqs /\ s.step = "handler" /\ s.late = req[p].late
      BY <1>c
    \* The row is there, so the key was not revoked when the request began.
    <3>3. ~req[p].late
      BY <1>0, <2>1 DEF LimitsInv, KeyInv
    <3>4. /\ UNCHANGED <<rate, admitted, lost, table, revoked, plan, usage, active, bill>>
          /\ req[p].step = "auth" /\ touch' \subseteq Keys
      BY <1>0, <1>6 DEF ValidateAPIKey
    <3> HIDE DEF s
    <3> QED
      BY <1>0, <3>1, <3>2, <3>3, <3>4, OtherStep
  <2>2. CASE req[p].key \notin table
    BY <1>0, <1>6, <1>a, <2>2 DEF ValidateAPIKey, KeyRow
  <2> QED
    BY <2>1, <2>2
<1>7. ASSUME NEW p \in Requests, CreateAPIKey(p) \/ RevokeAPIKey(p)
      PROVE  LimitsInv'
  BY <1>7, RowStep
<1>8. ASSUME NEW p \in Requests, ReadOnlyHandler(p) \/ QuotaFails(p)
      PROVE  LimitsInv'
  BY <1>0, <1>8, <1>a DEF ReadOnlyHandler, QuotaFails
<1>9. ASSUME NEW p \in Requests, NEW works \in BOOLEAN, ReadPlan(p, works)
      PROVE  LimitsInv'
  <2>1. CASE PlanFound(works) = "enterprise"
    BY <1>0, <1>9, <1>a, <2>1 DEF ReadPlan
  <2>2. CASE PlanFound(works) # "enterprise"
    <3>1. PICK l \in {0, FreeAuths, ProAuths} : l = AuthsPerMonth(PlanFound(works))
      BY DEF AuthsPerMonth
    <3> DEFINE s == [req[p] EXCEPT !.step = "usage", !.limit = l]
    <3>2. Becomes(p, s)
      BY <1>9, <2>2, <3>1 DEF ReadPlan, Becomes
    <3>3. s \in Reqs /\ s.step = "usage" /\ s.late = req[p].late /\ s.key = req[p].key
      BY <1>b, ZenonT(30)
    <3> HIDE DEF s
    <3> QED
      BY <1>0, <1>9, <3>2, <3>3, OtherStep DEF ReadPlan
  <2> QED
    BY <2>1, <2>2
<1>10. ASSUME NEW p \in Requests, ReadUsage(p)
       PROVE  LimitsInv'
  <2>1. CASE QuotaReached(usage, req[p].limit)
    BY <1>0, <1>10, <1>a, <2>1 DEF ReadUsage
  <2>2. CASE ~QuotaReached(usage, req[p].limit)
    <3> DEFINE s == [req[p] EXCEPT !.step = "increment", !.limit = 0]
    <3>1. Becomes(p, s)
      BY <1>10, <2>2 DEF ReadUsage, Becomes
    <3>2. s \in Reqs /\ s.step = "increment" /\ s.late = req[p].late
          /\ s.key = req[p].key
      BY <1>b
    <3>3. req[p].limit \in {0, FreeAuths, ProAuths}
      BY <1>0 DEF Reqs
    <3>4. usage < ProAuths
      BY <1>0, <2>2, <3>3, AdmissionAssumption DEF QuotaReached
    <3> HIDE DEF s
    <3> QED
      BY <1>0, <1>10, <3>1, <3>2, <3>4, BelowQuotaStep DEF ReadUsage
  <2> QED
    BY <2>1, <2>2
<1>11. ASSUME NEW p \in Requests, IncrementUsage(p)
       PROVE  LimitsInv'
  BY <1>0, <1>11, <1>a DEF IncrementUsage
<1>12. ASSUME NEW p \in Requests, NEW works \in BOOLEAN, TrackTenant(p, works)
       PROVE  LimitsInv'
  <2>1. active' \in BOOLEAN
    BY <1>12 DEF TrackTenant
  <2> QED
    BY <1>0, <1>12, <1>a, <2>1 DEF TrackTenant
<1>13. ASSUME NEW p \in Requests, Abort(p)
       PROVE  LimitsInv'
  <2>1. CASE req[p].step = "window"
    <3>1. Becomes(p, Idle) /\ rate' = rate /\ lost' = TRUE
      BY <1>13, <2>1 DEF Abort, Finish, Becomes
    <3> QED
      BY <1>13, <2>1, <3>1, IdleType, ExpireStep DEF Abort
  <2>2. CASE req[p].step # "window"
    <3>1. lost' = lost
      BY <1>13, <2>2 DEF Abort, LimitsInv, AdmissionTypeOK
    <3> QED
      BY <1>0, <1>13, <1>a, <2>2, <3>1 DEF Abort
  <2> QED
    BY <2>1, <2>2
<1>14. ASSUME NEW k \in Keys, UpdateLastUsed(k)
       PROVE  LimitsInv'
  BY <1>0, <1>14, BackgroundStep DEF UpdateLastUsed
<1>15. CASE Tick
  BY <1>15, TickStep
<1>16. CASE NewMonth
  BY <1>0, <1>16, BackgroundStep DEF NewMonth
<1>17. ASSUME NEW pl \in Plans, SetTenantPlan(pl)
       PROVE  LimitsInv'
  BY <1>0, <1>17, BackgroundStep DEF SetTenantPlan
<1>18. CASE Billing
  BY <1>0, <1>18, BackgroundStep DEF Billing, BillPlan, Invoice, SkipInvoice
<1> QED
  BY <1>1, <1>2, <1>3, <1>4, <1>5, <1>6, <1>7, <1>8, <1>9, <1>10, <1>11, <1>12,
     <1>13, <1>14, <1>15, <1>16, <1>17, <1>18 DEF AdmissionNext, RequestStep

LEMMA LimitsAlways == AdmissionSpec => []LimitsInv
<1>1. AdmissionSpec => AdmissionInit /\ [][AdmissionNext]_admissionVars
  BY DEF AdmissionSpec
<1> QED
  BY <1>1, InitLimits, StepLimits, PTL

\* For any limit, window and quotas and any number of concurrent requests: at
\* most Limit requests of a window pass by count, an open window can end, and
\* the month's counter passes the larger quota by at most the other requests
\* in progress.
THEOREM LimitsCorrect == AdmissionSpec => []LimitsSound
<1>1. LimitsInv => LimitsSound
  <2> SUFFICES ASSUME LimitsInv PROVE LimitsSound
    OBVIOUS
  <2>1. Cardinality(Incrementing) \in Nat /\ Cardinality(Requests) \in Nat
        /\ usage \in Nat /\ ProAuths \in Nat
    BY FS_Subset, FS_CardinalityType, AdmissionAssumption
    DEF Incrementing, LimitsInv, AdmissionTypeOK
  <2>2. OvershootBounded
    BY <2>1 DEF LimitsInv, QuotaInv, OvershootBounded
  <2> QED
    BY <2>2 DEF LimitsInv, LimitsSound, WindowInv, CountInv
<1> QED
  BY <1>1, LimitsAlways, PTL

\* No request that begins after a key was revoked gets past Auth with it: no
\* goroutine recording a use, creation or other revocation brings the row
\* back.
THEOREM RevokedCorrect == AdmissionSpec => []RevokedKeyRefused
<1>1. LimitsInv => RevokedKeyRefused
  BY DEF LimitsInv, KeyInv, RevokedKeyRefused
<1> QED
  BY <1>1, LimitsAlways, PTL

=============================================================================
