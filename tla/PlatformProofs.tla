--------------------------- MODULE PlatformProofs ---------------------------
(***************************************************************************)
(* Proofs about the policy engine and its cache, tenants and roles,        *)
(* passkeys and database migrations, each for any number of actors and any *)
(* value of its bounds, and about the check digits of any CPF and CNPJ.    *)
(***************************************************************************)
EXTENDS Policy, Tenancy, Passkeys, Migrations, CheckDigits,
        FiniteSetTheorems, WellFoundedInduction, TLAPS

-----------------------------------------------------------------------------
(* Induction over numbers, with a set for the induction hypothesis.        *)

LEMMA LeastNat ==
    ASSUME NEW T \in SUBSET Nat, T # {}
    PROVE  \E n \in T : \A m \in T : n <= m
<1> DEFINE R == {ss \in Nat \X Nat : ss[1] < ss[2]}
<1>1. IsWellFoundedOn(R, Nat)
  BY NatLessThanWellFounded DEF OpToRel
<1>2. \A x, y \in Nat : <<y, x>> \in R <=> y < x
  OBVIOUS
<1> HIDE DEF R
<1>3. PICK n \in T : \A y \in T : ~(<<y, n>> \in R)
  BY <1>1, WFMin
<1>4. \A m \in T : ~(m < n)
  BY <1>2, <1>3
<1> QED
  BY <1>4

LEMMA SetInduction ==
    ASSUME NEW T, 0 \in T, \A n \in Nat : n \in T => n + 1 \in T
    PROVE  \A n \in Nat : n \in T
<1>1. SUFFICES ASSUME NEW z \in Nat \ T PROVE FALSE
  OBVIOUS
<1>2. PICK n \in Nat \ T : \A m \in Nat \ T : n <= m
  BY LeastNat
<1>3. n # 0
  BY <1>2
<1>4. n - 1 \in Nat /\ (n - 1) + 1 = n /\ ~(n <= n - 1)
  BY <1>2, <1>3
<1>5. n - 1 \in T
  BY <1>2, <1>4
<1> QED
  BY <1>2, <1>4, <1>5

-----------------------------------------------------------------------------
(* Policy: a stored answer is stale for a bounded time.                    *)

\* What the tuples say now has just been said, and an answer on its way to
\* Redis agreed with them not longer ago than it was computed.
AgeInv ==
    /\ \A u \in Users : since[u][Allowed(tuples, u)] = 0
    /\ \A p \in Checks : check[p] # NoCheck =>
          /\ check[p].user \in Users
          /\ since[check[p].user][check[p].val] <= check[p].age

PolicyInv == PolicyTypeOK /\ AgeInv /\ StaleBounded

LEMMA AllowedType ==
    ASSUME NEW ts, NEW u
    PROVE  Allowed(ts, u) \in BOOLEAN
  BY DEF Allowed

LEMMA LongType == Long \in Nat /\ 0 \in 0..Long /\ Ttl \in Nat \ {0} /\ MaxDelay \in Nat
  BY PolicyAssumption DEF Long

LEMMA PolicyTypes ==
    ASSUME PolicyTypeOK
    PROVE  /\ \A u \in Users : /\ cache[u] \in [val : BOOLEAN, ttl : 0..Ttl]
                               /\ cache[u].val \in BOOLEAN /\ cache[u].ttl \in 0..Ttl
                               /\ since[u] \in [BOOLEAN -> 0..Long]
                               /\ \A v \in BOOLEAN : since[u][v] \in Nat
           /\ \A p \in Checks :
                 /\ check[p] \in [user : Users \cup {Object}, val : BOOLEAN,
                                  age : 0..MaxDelay]
                 /\ check[p].val \in BOOLEAN /\ check[p].age \in 0..MaxDelay
  BY LongType DEF PolicyTypeOK

\* A change of the tuples makes no answer older.
LEMMA TuplesStep ==
    ASSUME PolicyInv, NEW ts, ts \subseteq ({Object} \cup Groups) \X Nodes,
           SetTuples(ts), UNCHANGED <<cache, check>>
    PROVE  PolicyInv'
<1>1. tuples' = ts
  BY DEF SetTuples
<1>2. ASSUME NEW u \in Users
      PROVE  /\ since'[u] \in [BOOLEAN -> 0..Long]
             /\ since'[u][Allowed(ts, u)] = 0
             /\ \A v \in BOOLEAN : since'[u][v] \in Nat /\ since'[u][v] <= since[u][v]
  <2>1. PICK b \in BOOLEAN : b = Allowed(ts, u)
    BY AllowedType
  <2>2. since'[u] = [since[u] EXCEPT ![b] = 0]
    BY <2>1 DEF SetTuples
  <2>3. since[u] \in [BOOLEAN -> 0..Long]
    BY PolicyTypes DEF PolicyInv
  <2> QED
    BY <2>1, <2>2, <2>3, LongType
<1>3. since' \in [Users -> [BOOLEAN -> 0..Long]]
  <2>1. since' = [u \in Users |-> since'[u]]
    BY DEF SetTuples
  <2> QED
    BY <1>2, <2>1
<1>4. PolicyTypeOK'
  BY <1>1, <1>3 DEF PolicyInv, PolicyTypeOK
<1>5. AgeInv'
  <2>1. ASSUME NEW p \in Checks, check[p] # NoCheck
        PROVE  /\ check[p].user \in Users
               /\ since'[check[p].user][check[p].val] <= check[p].age
    <3>1. check[p].user \in Users /\ check[p].val \in BOOLEAN /\ check[p].age \in Nat
          /\ since[check[p].user][check[p].val] <= check[p].age
      BY <2>1, PolicyTypes, LongType DEF PolicyInv, AgeInv
    <3>2. since[check[p].user][check[p].val] \in Nat
      BY <3>1, PolicyTypes DEF PolicyInv
    <3> QED
      BY <1>2, <3>1, <3>2
  <2> QED
    BY <1>1, <1>2, <2>1 DEF AgeInv
<1>6. StaleBounded'
  <2> SUFFICES ASSUME NEW u \in Users, cache[u].ttl > 0
               PROVE  since'[u][cache[u].val] <= (Ttl - cache[u].ttl) + MaxDelay
    BY DEF StaleBounded
  <2>1. /\ since[u][cache[u].val] <= (Ttl - cache[u].ttl) + MaxDelay
        /\ cache[u].val \in BOOLEAN /\ cache[u].ttl \in 0..Ttl
        /\ since[u][cache[u].val] \in Nat
    BY PolicyTypes DEF PolicyInv, StaleBounded
  <2> QED
    BY <1>2, <2>1, LongType
<1> QED
  BY <1>4, <1>5, <1>6 DEF PolicyInv

\* A tick ages everything by one at most, and the stored answer's life by one.
LEMMA PolicyTickStep ==
    ASSUME PolicyInv, PolicyTick
    PROVE  PolicyInv'
<1> USE LongType
<1>1. ASSUME NEW u \in Users
      PROVE  /\ since'[u] \in [BOOLEAN -> 0..Long]
             /\ since'[u][Allowed(tuples, u)] = 0
             /\ \A v \in BOOLEAN : /\ since'[u][v] \in Nat
                                   /\ since'[u][v] <= since[u][v] + 1
  <2>1. since'[u] = [v \in BOOLEAN |->
                        IF v = Allowed(tuples, u) \/ since[u][v] = Long
                        THEN since[u][v] ELSE since[u][v] + 1]
    BY DEF PolicyTick
  <2>2. \A v \in BOOLEAN : since[u][v] \in 0..Long
    BY PolicyTypes DEF PolicyInv
  <2>3. PICK b \in BOOLEAN : b = Allowed(tuples, u)
    BY AllowedType
  <2>4. since[u][b] = 0
    BY <2>3 DEF PolicyInv, AgeInv
  <2> QED
    BY <2>1, <2>2, <2>3, <2>4
<1>2. since' \in [Users -> [BOOLEAN -> 0..Long]]
  <2>1. since' = [u \in Users |-> since'[u]]
    BY DEF PolicyTick
  <2> QED
    BY <1>1, <2>1
<1>3. ASSUME NEW u \in Users
      PROVE  /\ cache'[u] \in [val : BOOLEAN, ttl : 0..Ttl]
             /\ cache'[u].ttl > 0 =>
                   /\ cache'[u].val = cache[u].val /\ cache[u].ttl > 0
                   /\ cache'[u].ttl = cache[u].ttl - 1
  <2>1. cache[u] \in [val : BOOLEAN, ttl : 0..Ttl]
    BY PolicyTypes DEF PolicyInv
  <2>2. cache'[u] = IF cache[u].ttl <= 1 THEN Absent
                    ELSE [cache[u] EXCEPT !.ttl = @ - 1]
    BY DEF PolicyTick
  <2> QED
    BY <2>1, <2>2 DEF Absent
<1>4. cache' \in [Users -> [val : BOOLEAN, ttl : 0..Ttl]]
  <2>1. cache' = [u \in Users |-> cache'[u]]
    BY DEF PolicyTick
  <2> QED
    BY <1>3, <2>1
<1>5. ASSUME NEW p \in Checks
      PROVE  /\ check'[p] \in [user : Users \cup {Object}, val : BOOLEAN,
                               age : 0..MaxDelay]
             /\ \/ check[p] = NoCheck /\ check'[p] = NoCheck
                \/ /\ check[p] # NoCheck /\ check'[p].user = check[p].user
                   /\ check'[p].val = check[p].val
                   /\ check'[p].age = check[p].age + 1
  <2>1. /\ check[p] \in [user : Users \cup {Object}, val : BOOLEAN, age : 0..MaxDelay]
        /\ check[p].age < MaxDelay \/ check[p] = NoCheck
    BY PolicyTypes DEF PolicyInv, PolicyTick
  <2>2. check'[p] = IF check[p] = NoCheck THEN NoCheck
                    ELSE [check[p] EXCEPT !.age = @ + 1]
    BY DEF PolicyTick
  <2>3. CASE check[p] = NoCheck
    BY <2>1, <2>2, <2>3
  <2>4. CASE check[p] # NoCheck
    BY <2>1, <2>2, <2>4
  <2> QED
    BY <2>3, <2>4
<1>6. check' \in [Checks -> [user : Users \cup {Object}, val : BOOLEAN,
                             age : 0..MaxDelay]]
  <2>1. check' = [p \in Checks |-> check'[p]]
    BY DEF PolicyTick
  <2> QED
    BY <1>5, <2>1
<1>7. PolicyTypeOK'
  BY <1>2, <1>4, <1>6 DEF PolicyInv, PolicyTypeOK, PolicyTick
<1>8. AgeInv'
  <2>1. ASSUME NEW p \in Checks, check'[p] # NoCheck
        PROVE  /\ check'[p].user \in Users
               /\ since'[check'[p].user][check'[p].val] <= check'[p].age
    <3>1. /\ check[p] # NoCheck /\ check'[p].user = check[p].user
          /\ check'[p].val = check[p].val /\ check'[p].age = check[p].age + 1
      BY <1>5, <2>1
    <3>2. /\ check[p].user \in Users /\ check[p].val \in BOOLEAN
          /\ since[check[p].user][check[p].val] <= check[p].age
          /\ check[p].age \in Nat
      BY <3>1, PolicyTypes DEF PolicyInv, AgeInv
    <3>3. since[check[p].user][check[p].val] \in Nat
      BY <3>2, PolicyTypes DEF PolicyInv
    <3>4. /\ since'[check[p].user][check[p].val] \in Nat
          /\ since'[check[p].user][check[p].val] <= since[check[p].user][check[p].val] + 1
      BY <1>1, <3>2
    <3> QED
      BY <3>1, <3>2, <3>3, <3>4
  <2>2. tuples' = tuples
    BY DEF PolicyTick
  <2> QED
    BY <1>1, <2>1, <2>2 DEF AgeInv
<1>9. StaleBounded'
  <2> SUFFICES ASSUME NEW u \in Users, cache'[u].ttl > 0
               PROVE  since'[u][cache'[u].val] <= (Ttl - cache'[u].ttl) + MaxDelay
    BY DEF StaleBounded
  <2>1. /\ cache'[u].val = cache[u].val /\ cache[u].ttl > 0
        /\ cache'[u].ttl = cache[u].ttl - 1
    BY <1>3
  <2>2. /\ since[u][cache[u].val] <= (Ttl - cache[u].ttl) + MaxDelay
        /\ cache[u].val \in BOOLEAN /\ cache[u].ttl \in 0..Ttl
        /\ since[u][cache[u].val] \in Nat
    BY <2>1, PolicyTypes DEF PolicyInv, StaleBounded
  <2>3. /\ since'[u][cache[u].val] \in Nat
        /\ since'[u][cache[u].val] <= since[u][cache[u].val] + 1
    BY <1>1, <2>2
  <2> QED
    BY <2>1, <2>2, <2>3
<1> QED
  BY <1>7, <1>8, <1>9 DEF PolicyInv

LEMMA InitPolicy == PolicyInit => PolicyInv
<1> SUFFICES ASSUME PolicyInit PROVE PolicyInv
  OBVIOUS
<1> USE LongType
<1>1. ASSUME NEW u \in Users
      PROVE  since[u] \in [BOOLEAN -> 0..Long] /\ since[u][Allowed({}, u)] = 0
  <2>1. PICK b \in BOOLEAN : b = Allowed({}, u)
    BY AllowedType
  <2>2. since[u] = [v \in BOOLEAN |-> IF v = b THEN 0 ELSE Long]
    BY <2>1 DEF PolicyInit
  <2> QED
    BY <2>1, <2>2
<1>2. since \in [Users -> [BOOLEAN -> 0..Long]]
  <2>1. since = [u \in Users |-> since[u]]
    BY DEF PolicyInit
  <2> QED
    BY <1>1, <2>1
<1>3. /\ cache \in [Users -> [val : BOOLEAN, ttl : 0..Ttl]]
      /\ \A u \in Users : cache[u].ttl = 0
  BY DEF PolicyInit, Absent
<1>4. check \in [Checks -> [user : Users \cup {Object}, val : BOOLEAN,
                            age : 0..MaxDelay]]
  BY DEF PolicyInit, NoCheck
<1>5. \A p \in Checks : check[p] = NoCheck
  BY DEF PolicyInit
<1> QED
  BY <1>1, <1>2, <1>3, <1>4, <1>5
  DEF PolicyInit, PolicyInv, PolicyTypeOK, AgeInv, StaleBounded

LEMMA StepPolicy == PolicyInv /\ [PolicyNext]_policyVars => PolicyInv'
<1> SUFFICES ASSUME PolicyInv, [PolicyNext]_policyVars
             PROVE  PolicyInv'
  OBVIOUS
<1> USE LongType
<1>1. CASE UNCHANGED policyVars
  BY <1>1 DEF policyVars, PolicyInv, PolicyTypeOK, AgeInv, StaleBounded
<1>2. ASSUME NEW o \in {Object} \cup Groups, NEW s \in Nodes,
             WriteTuple(o, s) \/ DeleteTuple(o, s)
      PROVE  PolicyInv'
  <2>1. PICK ts : /\ ts \in {tuples \cup {<<o, s>>}, tuples \ {<<o, s>>}}
                  /\ SetTuples(ts) /\ UNCHANGED <<cache, check>>
    BY <1>2 DEF WriteTuple, DeleteTuple
  <2>2. ts \subseteq ({Object} \cup Groups) \X Nodes
    BY <2>1 DEF PolicyInv, PolicyTypeOK
  <2> QED
    BY <2>1, <2>2, TuplesStep
<1>3. ASSUME NEW p \in Checks, NEW u \in Users, QueryAnswer(p, u)
      PROVE  PolicyInv'
  <2>1. PICK b \in BOOLEAN : b = Allowed(tuples, u)
    BY AllowedType
  <2> DEFINE n == [user |-> u, val |-> b, age |-> 0]
  <2>2. check' = [check EXCEPT ![p] = n] /\ UNCHANGED <<tuples, cache, since>>
    BY <1>3, <2>1 DEF QueryAnswer
  <2>3. n \in [user : Users \cup {Object}, val : BOOLEAN, age : 0..MaxDelay]
        /\ n.user = u /\ n.val = b /\ n.age = 0
    OBVIOUS
  <2> HIDE DEF n
  <2>4. PolicyTypeOK'
    BY <2>2, <2>3 DEF PolicyInv, PolicyTypeOK
  <2>5. \A q \in Checks : check'[q] = IF q = p THEN n ELSE check[q]
    BY <2>2 DEF PolicyInv, PolicyTypeOK
  <2>6. since[u][b] = 0
    BY <2>1 DEF PolicyInv, AgeInv
  <2>7. AgeInv'
    BY <2>2, <2>3, <2>5, <2>6 DEF PolicyInv, AgeInv
  <2> QED
    BY <2>2, <2>4, <2>7 DEF PolicyInv, StaleBounded
<1>4. ASSUME NEW p \in Checks, StoreAnswer(p) \/ StoreFails(p)
      PROVE  PolicyInv'
  <2>1. /\ check[p] # NoCheck /\ check' = [check EXCEPT ![p] = NoCheck]
        /\ UNCHANGED <<tuples, since>>
    BY <1>4 DEF StoreAnswer, StoreFails
  <2>2. /\ check[p].user \in Users /\ check[p].val \in BOOLEAN
        /\ check[p].age \in 0..MaxDelay
        /\ since[check[p].user][check[p].val] <= check[p].age
    BY <2>1, PolicyTypes DEF PolicyInv, AgeInv
  <2>3. since[check[p].user][check[p].val] \in Nat
    BY <2>2, PolicyTypes DEF PolicyInv
  <2>4. check' \in [Checks -> [user : Users \cup {Object}, val : BOOLEAN,
                               age : 0..MaxDelay]]
    BY <2>1 DEF PolicyInv, PolicyTypeOK, NoCheck
  <2>5. \A q \in Checks : check'[q] = IF q = p THEN NoCheck ELSE check[q]
    BY <2>1 DEF PolicyInv, PolicyTypeOK
  <2>6. AgeInv'
    BY <2>1, <2>5 DEF PolicyInv, AgeInv
  <2> DEFINE n == [val |-> check[p].val, ttl |-> Ttl]
  <2>7. \/ cache' = cache
        \/ cache' = [cache EXCEPT ![check[p].user] = n]
    BY <1>4 DEF StoreAnswer, StoreFails
  <2>8. n \in [val : BOOLEAN, ttl : 0..Ttl] /\ n.val = check[p].val /\ n.ttl = Ttl
    BY <2>2
  <2> HIDE DEF n
  <2>9. /\ cache' \in [Users -> [val : BOOLEAN, ttl : 0..Ttl]]
        /\ \A u \in Users : \/ cache'[u] = cache[u]
                            \/ u = check[p].user /\ cache'[u] = n
    BY <2>2, <2>7, <2>8 DEF PolicyInv, PolicyTypeOK
  <2>10. PolicyTypeOK'
    BY <2>1, <2>4, <2>9 DEF PolicyInv, PolicyTypeOK
  <2>11. StaleBounded'
    <3> SUFFICES ASSUME NEW u \in Users, cache'[u].ttl > 0
                 PROVE  since[u][cache'[u].val] <= (Ttl - cache'[u].ttl) + MaxDelay
      BY <2>1 DEF StaleBounded
    <3>1. CASE cache'[u] = cache[u]
      BY <3>1 DEF PolicyInv, StaleBounded
    <3>2. CASE u = check[p].user /\ cache'[u] = n
      BY <2>2, <2>3, <2>8, <3>2
    <3> QED
      BY <2>9, <3>1, <3>2
  <2> QED
    BY <2>6, <2>10, <2>11 DEF PolicyInv
<1>5. CASE PolicyTick
  BY <1>5, PolicyTickStep
<1> QED
  BY <1>1, <1>2, <1>3, <1>4, <1>5 DEF PolicyNext

\* For any tuples, groups, time to live and number of checks in flight: a
\* stored answer agreed with the tuples at most Ttl + MaxDelay ticks ago, in
\* whatever order the answers are computed and stored.
THEOREM StaleCorrect == PolicySpec => []StaleBounded
<1>1. PolicyInv => StaleBounded
  BY DEF PolicyInv
<1> QED
  BY <1>1, InitPolicy, StepPolicy, PTL DEF PolicySpec

-----------------------------------------------------------------------------
(* Policy: the recursive query computes reachability.                      *)

\* L holds the rows of the first n levels of search_path.
Levels(L, ts, n) ==
    L = [d \in 1 .. n |-> IF d = 1 THEN SubjectsOf(ts, {Object})
                          ELSE SubjectsOf(ts, L[d - 1])]

LEMMA LevelsExist ==
    ASSUME NEW ts
    PROVE  \A n \in Nat : \E L : Levels(L, ts, n)
<1> DEFINE T == {n \in Nat : \E L : Levels(L, ts, n)}
<1>1. 0 \in T
  <2>1. \A d \in 1 .. 0 : FALSE
    OBVIOUS
  <2>2. Levels([d \in 1 .. 0 |-> {}], ts, 0)
    BY <2>1 DEF Levels
  <2> QED
    BY <2>2
<1>2. ASSUME NEW n \in Nat, n \in T PROVE n + 1 \in T
  <2>1. PICK L : Levels(L, ts, n)
    BY <1>2
  <2>2. PICK M : M = [d \in 1 .. n + 1 |-> IF d = 1 THEN SubjectsOf(ts, {Object})
                                           ELSE SubjectsOf(ts, L[d - 1])]
    OBVIOUS
  <2>3. \A d \in 1 .. n : M[d] = L[d]
    <3>1. \A d \in 1 .. n : d \in 1 .. n + 1
      OBVIOUS
    <3>2. \A d \in 1 .. n : L[d] = IF d = 1 THEN SubjectsOf(ts, {Object})
                                   ELSE SubjectsOf(ts, L[d - 1])
      BY <2>1 DEF Levels
    <3> QED
      BY <2>2, <3>1, <3>2
  <2>4. \A d \in 1 .. n + 1 : d # 1 => d - 1 \in 1 .. n
    OBVIOUS
  <2>5. \A d \in 1 .. n + 1 :
           (IF d = 1 THEN SubjectsOf(ts, {Object}) ELSE SubjectsOf(ts, L[d - 1]))
           = (IF d = 1 THEN SubjectsOf(ts, {Object}) ELSE SubjectsOf(ts, M[d - 1]))
    BY <2>3, <2>4
  <2>6. Levels(M, ts, n + 1)
    BY <2>2, <2>5 DEF Levels
  <2> QED
    BY <2>6
<1> HIDE DEF T
<1>3. \A n \in Nat : n \in T
  BY <1>1, <1>2, SetInduction
<1> QED
  BY <1>3 DEF T

\* What Found(ts) is made of.
LEMMA FoundLevels ==
    ASSUME NEW ts
    PROVE  \E L : /\ Found(ts) = UNION {L[d] : d \in 1 .. Depth}
                  /\ L[1] = SubjectsOf(ts, {Object})
                  /\ \A d \in 1 .. Depth - 1 : L[d + 1] = SubjectsOf(ts, L[d])
<1>1. Depth \in Nat /\ Depth >= 1
  BY PolicyAssumption
<1>2. PICK L : L = CHOOSE M : Levels(M, ts, Depth)
  OBVIOUS
<1>3. Levels(L, ts, Depth)
  <2>1. \E M : Levels(M, ts, Depth)
    BY <1>1, LevelsExist
  <2> QED
    BY <1>2, <2>1
<1>4. Found(ts) = UNION {L[d] : d \in 1 .. Depth}
  BY <1>2 DEF Found, Levels
<1>5. \A d \in 1 .. Depth : L[d] = IF d = 1 THEN SubjectsOf(ts, {Object})
                                   ELSE SubjectsOf(ts, L[d - 1])
  BY <1>3 DEF Levels
<1>6. \A d \in 1 .. Depth - 1 : d + 1 \in 1 .. Depth /\ d + 1 # 1 /\ (d + 1) - 1 = d
  BY <1>1
<1> QED
  BY <1>1, <1>4, <1>5, <1>6

\* Every row of the query lies in every closed set.
LEMMA FoundIsReachable ==
    ASSUME NEW ts, NEW C,
           (SubjectsOf(ts, {Object}) \cup SubjectsOf(ts, C)) \subseteq C
    PROVE  Found(ts) \subseteq C
<1>1. PICK L : /\ Found(ts) = UNION {L[d] : d \in 1 .. Depth}
               /\ L[1] = SubjectsOf(ts, {Object})
               /\ \A d \in 1 .. Depth - 1 : L[d + 1] = SubjectsOf(ts, L[d])
  BY FoundLevels
<1>2. Depth \in Nat
  BY PolicyAssumption
<1> DEFINE T == {n \in Nat : n + 1 \in 1 .. Depth => L[n + 1] \subseteq C}
<1>3. 0 \in T
  BY <1>1
<1>4. ASSUME NEW n \in Nat, n \in T PROVE n + 1 \in T
  <2>1. SUFFICES ASSUME (n + 1) + 1 \in 1 .. Depth PROVE L[(n + 1) + 1] \subseteq C
    OBVIOUS
  <2>2. n + 1 \in 1 .. Depth /\ n + 1 \in 1 .. Depth - 1
    BY <1>2, <2>1
  <2>3. L[(n + 1) + 1] = SubjectsOf(ts, L[n + 1]) /\ L[n + 1] \subseteq C
    BY <1>1, <1>4, <2>2
  <2> QED
    BY <2>3 DEF SubjectsOf
<1> HIDE DEF T
<1>5. \A n \in Nat : n \in T
  BY <1>3, <1>4, SetInduction
<1>6. ASSUME NEW d \in 1 .. Depth PROVE L[d] \subseteq C
  <2>1. d - 1 \in Nat /\ (d - 1) + 1 = d
    OBVIOUS
  <2> QED
    BY <1>5, <2>1 DEF T
<1> QED
  BY <1>1, <1>6

\* A path to a group that is found at level d and not before goes through d
\* different groups.
LEMMA LateGroups ==
    ASSUME NEW ts \in SUBSET (({Object} \cup Groups) \X Nodes), NEW L,
           L[1] = SubjectsOf(ts, {Object}),
           \A d \in 1 .. Depth - 1 : L[d + 1] = SubjectsOf(ts, L[d])
    PROVE  \A d \in 1 .. Depth, g \in Groups :
              g \in L[d] /\ (\A i \in 1 .. d - 1 : g \notin L[i]) =>
                 Cardinality({x \in Groups : \E i \in 1 .. d : x \in L[i]}) >= d
<1> DEFINE U(d) == {x \in Groups : \E i \in 1 .. d : x \in L[i]}
           T == {n \in Nat : n + 1 \in 1 .. Depth =>
                    \A g \in Groups : g \in L[n + 1] /\ (\A i \in 1 .. n : g \notin L[i]) =>
                       Cardinality(U(n + 1)) >= n + 1}
<1>0. Depth \in Nat /\ IsFiniteSet(Groups) /\ Object \notin Groups /\ Object \notin Nodes
  BY PolicyAssumption DEF Nodes
<1>1. \A d : U(d) \in SUBSET Groups
  OBVIOUS
<1>2. \A d : IsFiniteSet(U(d)) /\ Cardinality(U(d)) \in Nat
  BY <1>0, <1>1, FS_Subset, FS_CardinalityType
<1>3. \A n \in Nat : U(n) \subseteq U(n + 1)
  <2>1. \A n \in Nat : \A i \in 1 .. n : i \in 1 .. n + 1
    OBVIOUS
  <2> QED
    BY <2>1
<1>4. \A n \in Nat, x \in Groups : x \in L[n + 1] => x \in U(n + 1)
  <2>1. \A n \in Nat : n + 1 \in 1 .. n + 1
    OBVIOUS
  <2> QED
    BY <2>1
<1>5. \A n \in Nat, x \in Groups : (\A i \in 1 .. n : x \notin L[i]) => x \notin U(n)
  OBVIOUS
<1> HIDE DEF U
<1>6. 0 \in T
  <2>1. SUFFICES ASSUME NEW g \in Groups, g \in L[0 + 1] PROVE Cardinality(U(0 + 1)) >= 0 + 1
    OBVIOUS
  <2>2. g \in U(0 + 1)
    BY <1>4, <2>1
  <2>3. Cardinality(U(0 + 1)) # 0
    BY <1>2, <2>2, FS_EmptySet
  <2> QED
    BY <1>2, <2>3
<1>7. ASSUME NEW n \in Nat, n \in T PROVE n + 1 \in T
  <2>1. SUFFICES ASSUME (n + 1) + 1 \in 1 .. Depth, NEW g \in Groups, g \in L[(n + 1) + 1],
                        \A i \in 1 .. n + 1 : g \notin L[i]
                 PROVE  Cardinality(U((n + 1) + 1)) >= (n + 1) + 1
    OBVIOUS
  <2>2. n + 1 \in 1 .. Depth /\ n + 1 \in 1 .. Depth - 1
    BY <1>0, <2>1
  <2>3. PICK o \in L[n + 1] : <<o, g>> \in ts
    BY <2>1, <2>2 DEF SubjectsOf
  <2>4. L[n + 1] \subseteq Nodes
    <3>1. CASE n = 0
      <4>1. n + 1 = 1 /\ L[1] \subseteq Nodes
        BY <3>1 DEF SubjectsOf
      <4> QED
        BY <4>1
    <3>2. CASE n # 0
      <4>1. n \in 1 .. Depth - 1
        BY <1>0, <2>2, <3>2
      <4> QED
        BY <4>1 DEF SubjectsOf
    <3> QED
      BY <3>1, <3>2
  <2>5. o \in Groups
    BY <1>0, <2>3, <2>4
  <2>6. ASSUME NEW i \in 1 .. n, o \in L[i] PROVE FALSE
    <3>1. i \in 1 .. Depth - 1 /\ i + 1 \in 1 .. n + 1
      BY <1>0, <2>2
    <3>2. g \in L[i + 1]
      BY <2>3, <2>6, <3>1 DEF SubjectsOf, Nodes
    <3> QED
      BY <2>1, <3>1, <3>2
  <2>7. Cardinality(U(n + 1)) >= n + 1
    BY <1>7, <2>2, <2>3, <2>5, <2>6
  <2>8. g \notin U(n + 1) /\ g \in U((n + 1) + 1) /\ U(n + 1) \subseteq U((n + 1) + 1)
    <3>1. n + 1 \in Nat
      OBVIOUS
    <3> QED
      BY <1>3, <1>4, <1>5, <2>1, <3>1
  <2>9. /\ IsFiniteSet(U(n + 1) \cup {g})
        /\ Cardinality(U(n + 1) \cup {g}) = Cardinality(U(n + 1)) + 1
    BY <1>2, <2>8, FS_AddElement
  <2>10. U(n + 1) \cup {g} \in SUBSET U((n + 1) + 1)
    BY <2>8
  <2>11. Cardinality(U(n + 1) \cup {g}) <= Cardinality(U((n + 1) + 1))
    BY <1>2, <2>10, FS_Subset
  <2> QED
    BY <1>2, <2>7, <2>9, <2>11
<1> HIDE DEF T
<1>8. \A n \in Nat : n \in T
  BY <1>6, <1>7, SetInduction
<1>9. ASSUME NEW d \in 1 .. Depth, NEW g \in Groups, g \in L[d],
             \A i \in 1 .. d - 1 : g \notin L[i]
      PROVE  Cardinality(U(d)) >= d
  <2>1. d - 1 \in Nat /\ (d - 1) + 1 = d
    OBVIOUS
  <2> QED
    BY <1>8, <1>9, <2>1 DEF T
<1> QED
  BY <1>9 DEF U

\* With fewer groups than levels the rows of the query are closed.
LEMMA FoundIsClosed ==
    ASSUME NEW ts \in SUBSET (({Object} \cup Groups) \X Nodes), Cardinality(Groups) < Depth
    PROVE  /\ Found(ts) \in SUBSET Nodes
           /\ (SubjectsOf(ts, {Object}) \cup SubjectsOf(ts, Found(ts))) \subseteq Found(ts)
<1>1. PICK L : /\ Found(ts) = UNION {L[d] : d \in 1 .. Depth}
               /\ L[1] = SubjectsOf(ts, {Object})
               /\ \A d \in 1 .. Depth - 1 : L[d + 1] = SubjectsOf(ts, L[d])
  BY FoundLevels
<1>2. /\ Depth \in Nat /\ Depth >= 1 /\ IsFiniteSet(Groups) /\ Object \notin Nodes
      /\ Cardinality(Groups) \in Nat
  BY PolicyAssumption, FS_CardinalityType DEF Nodes
<1>3. SubjectsOf(ts, {Object}) \subseteq Found(ts)
  <2>1. 1 \in 1 .. Depth
    BY <1>2
  <2> QED
    BY <1>1, <2>1
<1>4. \A d \in 1 .. Depth : L[d] \subseteq Nodes
  <2>1. \A d \in 1 .. Depth : d = 1 \/ (d - 1 \in 1 .. Depth - 1 /\ (d - 1) + 1 = d)
    BY <1>2
  <2> QED
    BY <1>1, <2>1 DEF SubjectsOf
<1>5. Found(ts) \in SUBSET Nodes
  BY <1>1, <1>4
<1>6. ASSUME NEW o \in Found(ts), NEW n \in Nodes, <<o, n>> \in ts
      PROVE  n \in Found(ts)
  <2>1. o \in Groups
    BY <1>2, <1>5, <1>6
  <2>2. PICK d \in 1 .. Depth : o \in L[d]
    BY <1>1, <1>6
  <2>3. \E i \in 1 .. Depth - 1 : o \in L[i]
    <3>1. CASE d < Depth
      BY <1>2, <2>2, <3>1
    <3>2. CASE d = Depth
      <4>1. SUFFICES ASSUME \A i \in 1 .. Depth - 1 : o \notin L[i] PROVE FALSE
        OBVIOUS
      <4>2. Cardinality({x \in Groups : \E i \in 1 .. Depth : x \in L[i]}) >= Depth
        BY <1>1, <2>1, <2>2, <3>2, <4>1, LateGroups
      <4>3. /\ Cardinality({x \in Groups : \E i \in 1 .. Depth : x \in L[i]})
                 <= Cardinality(Groups)
            /\ Cardinality({x \in Groups : \E i \in 1 .. Depth : x \in L[i]}) \in Nat
        <5>1. {x \in Groups : \E i \in 1 .. Depth : x \in L[i]} \in SUBSET Groups
          OBVIOUS
        <5> QED
          BY <1>2, <5>1, FS_Subset, FS_CardinalityType
      <4> QED
        BY <1>2, <4>2, <4>3
    <3> QED
      BY <1>2, <2>2, <3>1, <3>2
  <2>4. PICK i \in 1 .. Depth - 1 : o \in L[i]
    BY <2>3
  <2>5. i + 1 \in 1 .. Depth /\ n \in L[i + 1]
    BY <1>1, <1>2, <1>6, <2>4 DEF SubjectsOf
  <2> QED
    BY <1>1, <2>5
<1> QED
  BY <1>3, <1>5, <1>6 DEF SubjectsOf

LEMMA QueryExact == PolicyTypeOK => CheckExact
<1> SUFFICES ASSUME PolicyTypeOK PROVE CheckExact
  OBVIOUS
<1>1. tuples \in SUBSET (({Object} \cup Groups) \X Nodes)
  BY DEF PolicyTypeOK
<1>2. ASSUME NEW u \in Users, HasRoleDirectly(u) PROVE Allowed(tuples, u)
  <2>1. u \in SubjectsOf(tuples, {Object})
    BY <1>2 DEF HasRoleDirectly, SubjectsOf, Nodes
  <2>2. PICK L : /\ Found(tuples) = UNION {L[d] : d \in 1 .. Depth}
                 /\ L[1] = SubjectsOf(tuples, {Object})
    BY FoundLevels
  <2>3. 1 \in 1 .. Depth
    BY PolicyAssumption
  <2> QED
    BY <2>1, <2>2, <2>3 DEF Allowed
<1>3. ASSUME NEW u \in Users, Allowed(tuples, u) PROVE Reachable(u)
  BY <1>3, FoundIsReachable DEF Allowed, Reachable
<1>4. ASSUME NEW u \in Users, Cardinality(Groups) < Depth, Reachable(u)
      PROVE  Allowed(tuples, u)
  BY <1>1, <1>4, FoundIsClosed DEF Allowed, Reachable
<1> QED
  BY <1>2, <1>3, <1>4 DEF CheckExact

\* PolicyRepository.Check: the depth-limited recursive query answers reachability
\* through groups in groups and around cycles, for any tuples and any depth limit
\* above the number of groups.
THEOREM ChecksCorrect == PolicySpec => []ChecksSound
<1>1. PolicyInv => ChecksSound
  BY QueryExact DEF PolicyInv, ChecksSound
<1> QED
  BY <1>1, InitPolicy, StepPolicy, PTL DEF PolicySpec

-----------------------------------------------------------------------------
(* Tenancy: half-done requests leave explained states.                     *)

JobSet == [step : {"idle", "tuple", "suspend", "update"},
           id : Tenants \cup RoleIds \cup {""}, text : Texts \cup {""}]

RoleSet == [name : Texts, permissions : Texts] \cup {NoRole}

\* A request between its statements has found or created what it will write.
JobOK(n) ==
    /\ n.step \in {"tuple", "suspend"} => n.id \in Tenants /\ tenant[n.id] # "absent"
    /\ n.step = "update" => n.id \in RoleIds /\ n.text \in Texts

JobInv == \A p \in Jobs : JobOK(job[p])

TenancyInv == TenantsSound /\ JobInv

LEMMA NoJobType ==
    /\ NoJob \in JobSet /\ NoJob.step = "idle"
    /\ NoRole \in RoleSet /\ NoRole.name = NoRole.permissions
  BY DEF NoJob, JobSet, NoRole, RoleSet

LEMMA RoleOfType ==
    ASSUME NEW x \in Texts
    PROVE  RoleOf(x) \in RoleSet /\ RoleOf(x).name = RoleOf(x).permissions
  BY DEF RoleOf, RoleSet

\* A request moves to the step n, and only the tables of tenants change.
LEMMA TenantStep ==
    ASSUME TenancyInv, NEW p \in Jobs, NEW n \in JobSet,
           job' = [job EXCEPT ![p] = n],
           tenant' \in [Tenants -> {"absent", "active", "suspended"}],
           owned' \subseteq Tenants, abandoned' \subseteq Tenants,
           UNCHANGED <<role, removed>>,
           owned \subseteq owned', abandoned \subseteq abandoned',
           \A t \in Tenants : tenant[t] # "absent" => tenant'[t] # "absent",
           JobOK(n)',
           \A t \in owned' \ owned : tenant'[t] # "absent",
           job[p].step = "tuple" => job[p].id \in owned' \cup abandoned',
           \A t \in Tenants : (tenant[t] = "absent" /\ tenant'[t] # "absent")
               => n.step = "tuple" /\ n.id = t
    PROVE  TenancyInv'
<1>1. \A q \in Jobs : job'[q] = IF q = p THEN n ELSE job[q]
  BY DEF TenancyInv, TenantsSound, TenancyTypeOK
<1>2. TenancyTypeOK'
  BY DEF TenancyInv, TenantsSound, TenancyTypeOK, JobSet
<1>3. RolesWhole'
  BY DEF TenancyInv, TenantsSound, RolesWhole
<1>4. JobInv'
  <2> SUFFICES ASSUME NEW q \in Jobs PROVE JobOK(job[q])'
    BY DEF JobInv
  <2>1. CASE q = p
    BY <1>1, <2>1 DEF JobOK
  <2>2. CASE q # p
    BY <1>1, <2>2 DEF TenancyInv, JobInv, JobOK
  <2> QED
    BY <2>1, <2>2
<1>5. ASSUME NEW t \in Tenants
      PROVE  /\ t \in owned' => tenant'[t] # "absent"
             /\ tenant'[t] # "absent" =>
                  t \in owned' \/ t \in abandoned'
                  \/ \E q \in Jobs : job'[q].step = "tuple" /\ job'[q].id = t
  <2>1. t \in owned' => tenant'[t] # "absent"
    BY <1>5 DEF TenancyInv, TenantsSound, OwnerlessExplained
  <2>2. ASSUME tenant'[t] # "absent", t \notin owned', t \notin abandoned'
        PROVE  \E q \in Jobs : job'[q].step = "tuple" /\ job'[q].id = t
    <3>1. CASE tenant[t] = "absent"
      BY <1>1, <2>2, <3>1
    <3>2. CASE tenant[t] # "absent"
      <4>1. PICK q \in Jobs : job[q].step = "tuple" /\ job[q].id = t
        BY <2>2, <3>2 DEF TenancyInv, TenantsSound, OwnerlessExplained
      <4>2. q # p
        BY <2>2, <4>1
      <4> QED
        BY <1>1, <4>1, <4>2
    <3> QED
      BY <3>1, <3>2
  <2> QED
    BY <2>1, <2>2
<1>6. OwnerlessExplained'
  BY <1>5 DEF OwnerlessExplained
<1> QED
  BY <1>2, <1>3, <1>4, <1>6 DEF TenancyInv, TenantsSound

\* A role r becomes x, and a request may end with it.
LEMMA RoleStep ==
    ASSUME TenancyInv, NEW r \in RoleIds, NEW x \in RoleSet,
           x.name = x.permissions,
           role' = [role EXCEPT ![r] = x] \/ role' = role,
           UNCHANGED <<tenant, owned, abandoned>>,
           \/ removed' = removed /\ (role' = role \/ r \notin removed)
           \/ removed' = removed \cup {r} /\ role'[r] = NoRole,
           \/ UNCHANGED job
           \/ \E p \in Jobs : job[p].step # "tuple" /\ Done(p)
    PROVE  TenancyInv'
<1>1. \A q \in Jobs : \/ job'[q] = job[q]
                      \/ job'[q] = NoJob /\ job[q].step # "tuple"
  BY DEF Done, TenancyInv, TenantsSound, TenancyTypeOK
<1>2. job' \in [Jobs -> JobSet]
  BY NoJobType DEF Done, TenancyInv, TenantsSound, TenancyTypeOK, JobSet
<1>3. role' \in [RoleIds -> RoleSet] /\ removed' \subseteq RoleIds
  <2>1. role \in [RoleIds -> RoleSet] /\ removed \subseteq RoleIds
    BY DEF TenancyInv, TenantsSound, TenancyTypeOK, RoleSet
  <2> QED
    BY <2>1
<1>4. TenancyTypeOK'
  BY <1>2, <1>3 DEF TenancyInv, TenantsSound, TenancyTypeOK, JobSet, RoleSet
<1>5. OwnerlessExplained'
  <2>1. \A q \in Jobs : job[q].step = "tuple" => job'[q] = job[q]
    BY <1>1
  <2> QED
    BY <2>1 DEF TenancyInv, TenantsSound, OwnerlessExplained
<1>6. RolesWhole'
  <2>1. \A s \in RoleIds : role'[s] = role[s] \/ (s = r /\ role'[s] = x)
    BY DEF TenancyInv, TenantsSound, TenancyTypeOK
  <2>2. \A s \in RoleIds : s # r => role'[s] = role[s]
    BY DEF TenancyInv, TenantsSound, TenancyTypeOK
  <2>3. \A s \in RoleIds : role'[s].name = role'[s].permissions
    BY <2>1 DEF TenancyInv, TenantsSound, RolesWhole
  <2>4. \A s \in RoleIds : s \in removed' => role'[s] = NoRole
    BY <2>1, <2>2 DEF TenancyInv, TenantsSound, RolesWhole
  <2> QED
    BY <2>3, <2>4 DEF RolesWhole
<1>7. JobInv'
  BY <1>1, NoJobType DEF TenancyInv, JobInv, JobOK
<1> QED
  BY <1>4, <1>5, <1>6, <1>7 DEF TenancyInv, TenantsSound

LEMMA InitTenancy == TenancyInit => TenancyInv
<1> SUFFICES ASSUME TenancyInit PROVE TenancyInv
  OBVIOUS
<1>1. TenancyTypeOK
  BY NoJobType DEF TenancyInit, TenancyTypeOK, JobSet, RoleSet
<1>2. OwnerlessExplained
  BY DEF TenancyInit, OwnerlessExplained
<1>3. RolesWhole
  BY NoJobType DEF TenancyInit, RolesWhole
<1>4. JobInv
  BY NoJobType DEF TenancyInit, JobInv, JobOK
<1> QED
  BY <1>1, <1>2, <1>3, <1>4 DEF TenancyInv, TenantsSound

LEMMA StepTenancy == TenancyInv /\ [TenancyNext]_tenancyVars => TenancyInv'
<1> SUFFICES ASSUME TenancyInv, [TenancyNext]_tenancyVars
             PROVE  TenancyInv'
  OBVIOUS
<1>0. /\ tenant \in [Tenants -> {"absent", "active", "suspended"}]
      /\ owned \subseteq Tenants /\ abandoned \subseteq Tenants
      /\ \A p \in Jobs : JobOK(job[p])
  BY DEF TenancyInv, TenantsSound, TenancyTypeOK, JobInv
<1>1. CASE UNCHANGED tenancyVars
  BY <1>1 DEF tenancyVars, TenancyInv, TenantsSound, TenancyTypeOK,
              OwnerlessExplained, RolesWhole, JobInv, JobOK
<1>2. ASSUME NEW p \in Jobs, NEW t \in Tenants, CreateTenant(p, t)
      PROVE  TenancyInv'
  <2> DEFINE n == [step |-> "tuple", id |-> t, text |-> ""]
  <2>1. n \in JobSet /\ n.step = "tuple" /\ n.id = t
    BY DEF JobSet
  <2>2. /\ job[p] = NoJob /\ job' = [job EXCEPT ![p] = n]
        /\ tenant[t] = "absent" /\ tenant' = [tenant EXCEPT ![t] = "active"]
        /\ UNCHANGED <<owned, role, abandoned, removed>>
    BY <1>2 DEF CreateTenant, Begin, TenantFound, SaveTenant
  <2> HIDE DEF n
  <2>3. JobOK(n)'
    BY <1>0, <2>1, <2>2 DEF JobOK
  <2> QED
    BY <1>0, <2>1, <2>2, <2>3, NoJobType, TenantStep
<1>3. ASSUME NEW p \in Jobs, NEW t \in Tenants, ReadTenant(p, t)
      PROVE  TenancyInv'
  <2> DEFINE n == [step |-> "suspend", id |-> t, text |-> ""]
  <2>1. n \in JobSet /\ n.step = "suspend" /\ n.id = t
    BY DEF JobSet
  <2>2. /\ job[p] = NoJob /\ job' = [job EXCEPT ![p] = n] /\ tenant[t] # "absent"
        /\ UNCHANGED <<tenant, owned, role, abandoned, removed>>
    BY <1>3 DEF ReadTenant, Begin, TenantFound
  <2> HIDE DEF n
  <2>3. JobOK(n)'
    BY <1>0, <2>1, <2>2 DEF JobOK
  <2> QED
    BY <1>0, <2>1, <2>2, <2>3, NoJobType, TenantStep
<1>4. ASSUME NEW p \in Jobs, AssignOwner(p)
      PROVE  TenancyInv'
  <2>1. job[p].id \in Tenants /\ tenant[job[p].id] # "absent"
    BY <1>0, <1>4 DEF AssignOwner, JobOK
  <2>2. /\ job' = [job EXCEPT ![p] = NoJob] /\ owned' = owned \cup {job[p].id}
        /\ UNCHANGED <<tenant, role, abandoned, removed>>
    BY <1>4 DEF AssignOwner, Done
  <2>3. JobOK(NoJob)'
    BY NoJobType DEF JobOK, NoJob
  <2> QED
    BY <1>0, <2>1, <2>2, <2>3, NoJobType, TenantStep
<1>5. ASSUME NEW p \in Jobs, SuspendTenant(p)
      PROVE  TenancyInv'
  <2>1. job[p].id \in Tenants /\ tenant[job[p].id] # "absent"
    BY <1>0, <1>5 DEF SuspendTenant, JobOK
  <2>2. /\ job' = [job EXCEPT ![p] = NoJob] /\ job[p].step = "suspend"
        /\ tenant' = [tenant EXCEPT ![job[p].id] = "suspended"]
        /\ UNCHANGED <<owned, role, abandoned, removed>>
    BY <1>5 DEF SuspendTenant, SaveTenant, Done
  <2>3. JobOK(NoJob)'
    BY NoJobType DEF JobOK, NoJob
  <2> QED
    BY <1>0, <2>1, <2>2, <2>3, NoJobType, TenantStep
<1>6. ASSUME NEW p \in Jobs, AbandonJob(p)
      PROVE  TenancyInv'
  <2>1. /\ job' = [job EXCEPT ![p] = NoJob]
        /\ UNCHANGED <<tenant, owned, role, removed>>
        /\ abandoned' = IF job[p].step = "tuple" THEN abandoned \cup {job[p].id}
                        ELSE abandoned
    BY <1>6 DEF AbandonJob, Done
  <2>2. abandoned' \subseteq Tenants
    BY <1>0, <2>1 DEF JobOK
  <2>3. JobOK(NoJob)'
    BY NoJobType DEF JobOK, NoJob
  <2> QED
    BY <1>0, <2>1, <2>2, <2>3, NoJobType, TenantStep
<1>7. ASSUME NEW p \in Jobs, NEW r \in RoleIds, NEW x \in Texts, ReadRole(p, r, x)
      PROVE  TenancyInv'
  <2> DEFINE n == [step |-> "update", id |-> r, text |-> x]
  <2>1. n \in JobSet /\ n.step = "update" /\ n.id = r /\ n.text = x
    BY DEF JobSet
  <2>2. /\ job[p] = NoJob /\ job' = [job EXCEPT ![p] = n]
        /\ UNCHANGED <<tenant, owned, role, abandoned, removed>>
    BY <1>7 DEF ReadRole, Begin
  <2> HIDE DEF n
  <2>3. JobOK(n)'
    BY <1>0, <2>1, <2>2 DEF JobOK
  <2> QED
    BY <1>0, <2>1, <2>2, <2>3, NoJobType, TenantStep
<1>8. ASSUME NEW r \in RoleIds, NEW x \in Texts, CreateRole(r, x)
      PROVE  TenancyInv'
  BY <1>8, RoleOfType, RoleStep DEF CreateRole
<1>9. ASSUME NEW r \in RoleIds, DeleteRole(r)
      PROVE  TenancyInv'
  <2>1. role'[r] = NoRole
    BY <1>9 DEF DeleteRole, TenancyInv, TenantsSound, TenancyTypeOK
  <2> QED
    BY <1>9, <2>1, NoJobType, RoleStep DEF DeleteRole
<1>10. ASSUME NEW p \in Jobs, UpdateRole(p)
       PROVE  TenancyInv'
  <2>1. job[p].id \in RoleIds /\ job[p].text \in Texts
    BY <1>0, <1>10 DEF UpdateRole, JobOK
  \* An update of a role that was deleted in between finds no row.
  <2>2. role' = role \/ job[p].id \notin removed
    BY <1>10, <2>1 DEF UpdateRole, RoleFound, TenancyInv, TenantsSound, RolesWhole
  <2>3. /\ job[p].step # "tuple" /\ Done(p)
        /\ UNCHANGED <<tenant, owned, abandoned, removed>>
        /\ \/ role' = role
           \/ role' = [role EXCEPT ![job[p].id] = RoleOf(job[p].text)]
    BY <1>10 DEF UpdateRole
  <2> QED
    BY <2>1, <2>2, <2>3, RoleOfType, RoleStep
<1> QED
  BY <1>1, <1>2, <1>3, <1>4, <1>5, <1>6, <1>7, <1>8, <1>9, <1>10 DEF TenancyNext

\* Whatever requests stop half way and overlap: a tenant without owner is
\* being created or was abandoned between its two statements, and a role is
\* the work of one request and stays deleted.
THEOREM TenantsCorrect == TenancySpec => []TenantsSound
<1>1. TenancyInv => TenantsSound
  BY DEF TenancyInv
<1> QED
  BY <1>1, InitTenancy, StepTenancy, PTL DEF TenancySpec

-----------------------------------------------------------------------------
(* Passkeys: a challenge is for one use, and a count falls only when stale. *)

Finishing == {"del", "read", "insert", "update", "token"}

PasskeyTypes ==
    /\ slot \in [Kinds -> Challenges \cup {NoChallenge}]
    /\ issued \in [Challenges -> Kinds \cup {"none"}]
    /\ offered \subseteq Challenges /\ answers \subseteq Answers
    /\ signs \in [Keys -> Counts]
    /\ rows \in [Keys -> Counts \cup {Unregistered}]
    /\ req \in [Requests -> Request]
    /\ shared \subseteq Challenges /\ undeleted \subseteq Challenges
    /\ admitted \in [Challenges -> 0..2]

\* What a request holds belongs together: the answer was signed, the session
\* is of its ceremony, and a count to be stored is the larger one and the key's.
CeremonyOK(r) ==
    /\ r.pc = "save" => issued[r.challenge] = r.kind
    /\ r.pc \in Finishing => r.answer \in answers /\ issued[r.session] = r.answer.kind
    /\ r.pc \in {"update", "token"} =>
          /\ r.answer.kind = "login"
          /\ r.read <= r.count /\ r.count <= signs[r.answer.key]

CeremonyInv ==
    /\ \A k \in Kinds : slot[k] # NoChallenge => issued[slot[k]] = k
    /\ \A c \in offered : issued[c] # "none"
    /\ \A a \in answers : issued[a.challenge] = a.kind /\ a.count <= signs[a.key]
    /\ \A k \in Keys : rows[k] # Unregistered => rows[k] <= signs[k]
    /\ \A p \in Requests : CeremonyOK(req[p])

Saving(p, c) == req[p].pc = "save" /\ req[p].challenge = c

Owner(p, c) == req[p].pc \in Finishing /\ req[p].session = c

Stored(c) == \E k \in Kinds : slot[k] = c

\* A challenge is with the request that will store it, in Redis, with the one
\* request that read it, or spent.
OnceOK(c) ==
    /\ issued[c] = "none" => admitted[c] = 0
    /\ \A p \in Requests : Saving(p, c) =>
          /\ admitted[c] = 0 /\ ~Stored(c)
          /\ \A q \in Requests : ~Owner(q, c) /\ (Saving(q, c) => q = p)
    /\ c \notin shared \cup undeleted =>
          /\ admitted[c] <= 1
          /\ admitted[c] > 0 => ~Stored(c)
          /\ \A p \in Requests : Owner(p, c) =>
                /\ admitted[c] = 0
                /\ req[p].pc # "del" => ~Stored(c)
                /\ \A q \in Requests : Owner(q, c) => q = p

OnceInv == \A c \in Challenges : OnceOK(c)

PasskeyInv == PasskeyTypes /\ CeremonyInv /\ OnceInv

LEMMA RequestShape ==
    ASSUME NEW r \in Request
    PROVE  /\ r.pc \in {"idle", "save"} \cup Finishing
           /\ r.pc = "save" => r \in [pc : {"save"}, kind : Kinds, challenge : Challenges]
           /\ r.pc \in {"del", "read", "insert"} =>
                 r \in [pc : {"del", "read", "insert"}, answer : Answers,
                        session : Challenges]
           /\ r.pc \in {"update", "token"} =>
                 r \in [pc : {"update", "token"}, answer : Answers,
                        session : Challenges, read : Counts, count : Counts]
           /\ r.pc \in Finishing => r.answer \in Answers /\ r.session \in Challenges
  BY DEF Request, IdleRequest, Finishing

LEMMA IdleShape == IdleRequest \in Request /\ IdleRequest.pc = "idle"
  BY DEF Request, IdleRequest

LEMMA ConstantShapes ==
    /\ NoChallenge \notin Challenges /\ Unregistered \notin Counts
    /\ 0 \in Counts /\ Counts \subseteq Nat /\ "none" \notin Kinds
    /\ Unregistered \in Nat
  BY PasskeyAssumption
  DEF NoChallenge, Challenges, Unregistered, Counts, Kinds

\* A step that hands no challenge on keeps the claim for c.
LEMMA OnceKept ==
    ASSUME NEW c, OnceOK(c), issued' = issued, admitted'[c] = admitted[c],
           shared \subseteq shared', undeleted \subseteq undeleted',
           Stored(c)' => Stored(c),
           \A q \in Requests :
              /\ Owner(q, c)' => Owner(q, c)
              /\ Saving(q, c)' => Saving(q, c)
              /\ (Owner(q, c)' /\ req'[q].pc # "del") =>
                    req[q].pc # "del" \/ c \in undeleted' \/ ~Stored(c)'
    PROVE  OnceOK(c)'
  BY DEF OnceOK

\* The same for all challenges, when request p moves on to r.
LEMMA OnceMove ==
    ASSUME PasskeyTypes, OnceInv, NEW p \in Requests, NEW r,
           req' = [req EXCEPT ![p] = r], r.pc # "save",
           UNCHANGED <<issued, admitted, shared>>, undeleted \subseteq undeleted',
           \A c \in Challenges : Stored(c)' => Stored(c),
           r.pc \in Finishing =>
              /\ req[p].pc \in Finishing /\ r.session = req[p].session
              /\ r.pc # "del"
              /\ req[p].pc = "del" => r.session \in undeleted' \/ ~Stored(r.session)'
    PROVE  OnceInv'
<1>1. \A q \in Requests : req'[q] = IF q = p THEN r ELSE req[q]
  BY DEF PasskeyTypes
<1>2. ASSUME NEW c \in Challenges PROVE OnceOK(c)'
  <2>1. \A q \in Requests :
              /\ Owner(q, c)' => Owner(q, c)
              /\ Saving(q, c)' => Saving(q, c)
              /\ (Owner(q, c)' /\ req'[q].pc # "del") =>
                    req[q].pc # "del" \/ c \in undeleted' \/ ~Stored(c)'
    <3> TAKE q \in Requests
    <3>1. CASE q # p
      BY <1>1, <3>1 DEF Owner, Saving
    <3>2. CASE q = p
      <4>1. req'[q] = r
        BY <1>1, <3>2
      <4>2. ~Saving(q, c)'
        BY <4>1 DEF Saving
      <4>3. Owner(q, c)' => r.pc \in Finishing /\ r.session = c
        BY <4>1 DEF Owner
      <4>4. CASE r.pc \in Finishing /\ r.session = c
        BY <3>2, <4>1, <4>2, <4>4 DEF Owner
      <4> QED
        BY <4>2, <4>3, <4>4
    <3> QED
      BY <3>1, <3>2
  <2> QED
    BY <1>2, <2>1, OnceKept DEF OnceInv
<1> QED
  BY <1>2 DEF OnceInv

\* Request p moves on to r, and nothing that the requests refer to changes.
LEMMA CeremonyMove ==
    ASSUME PasskeyTypes, CeremonyInv, NEW p \in Requests, NEW r \in Request,
           req' = [req EXCEPT ![p] = r], CeremonyOK(r),
           UNCHANGED <<issued, offered, answers, signs>>,
           slot' \in [Kinds -> Challenges \cup {NoChallenge}],
           \A k \in Kinds : slot'[k] \in {slot[k], NoChallenge},
           rows' \in [Keys -> Counts \cup {Unregistered}],
           \A k \in Keys : rows'[k] = rows[k] \/ rows'[k] <= signs[k],
           shared' \subseteq Challenges, undeleted' \subseteq Challenges,
           admitted' \in [Challenges -> 0..2]
    PROVE  PasskeyTypes' /\ CeremonyInv'
<1>1. \A q \in Requests : req'[q] = IF q = p THEN r ELSE req[q]
  BY DEF PasskeyTypes
<1>2. PasskeyTypes'
  BY DEF PasskeyTypes
<1>3. ASSUME NEW q \in Requests PROVE CeremonyOK(req[q])'
  <2>1. CASE q = p
    BY <1>1, <2>1 DEF CeremonyOK
  <2>2. CASE q # p
    BY <1>1, <2>2 DEF CeremonyInv, CeremonyOK
  <2> QED
    BY <2>1, <2>2
<1>4. CeremonyInv'
  BY <1>3 DEF CeremonyInv
<1> QED
  BY <1>2, <1>4

LEMMA BeginStep ==
    ASSUME PasskeyInv, NEW p \in Requests, NEW c \in Challenges,
           BeginRegistration(p, c) \/ BeginLogin(p, c)
    PROVE  PasskeyInv'
<1>1. PICK ceremony \in Kinds :
          /\ req[p] = IdleRequest /\ issued[c] = "none"
          /\ req' = [req EXCEPT ![p] = [pc |-> "save", kind |-> ceremony, challenge |-> c]]
          /\ issued' = [issued EXCEPT ![c] = ceremony]
          /\ UNCHANGED <<slot, offered, signs, answers, rows, shared, undeleted, admitted>>
  BY DEF BeginRegistration, BeginLogin, FreshChallenge, Kinds
<1> DEFINE r == [pc |-> "save", kind |-> ceremony, challenge |-> c]
<1>2. r \in Request /\ r.pc = "save" /\ r.kind = ceremony /\ r.challenge = c
  BY DEF Request
<1> HIDE DEF r
<1>3. /\ \A q \in Requests : req'[q] = IF q = p THEN r ELSE req[q]
      /\ \A d \in Challenges : issued'[d] = IF d = c THEN ceremony ELSE issued[d]
  BY <1>1 DEF PasskeyInv, PasskeyTypes, r
<1>4. PasskeyTypes'
  BY <1>1, <1>2 DEF PasskeyInv, PasskeyTypes, r
<1>5. \A q \in Requests : req[q] \in Request /\ CeremonyOK(req[q])
  BY DEF PasskeyInv, PasskeyTypes, CeremonyInv
<1>6. \A q \in Requests :
          /\ ~Saving(q, c) /\ ~Owner(q, c)
          /\ ~Stored(c) /\ admitted[c] = 0
  <2>1. ~Stored(c)
    BY <1>1, ConstantShapes DEF Stored, PasskeyInv, CeremonyInv
  <2>2. ASSUME NEW q \in Requests PROVE ~Saving(q, c) /\ ~Owner(q, c)
    <3>1. ~Saving(q, c)
      BY <1>1, <1>5, RequestShape, ConstantShapes DEF Saving, CeremonyOK
    <3>2. ~Owner(q, c)
      <4>1. SUFFICES ASSUME Owner(q, c) PROVE FALSE
        OBVIOUS
      <4>2. issued[c] = req[q].answer.kind /\ req[q].answer \in Answers
        BY <1>5, <4>1, RequestShape DEF Owner, CeremonyOK
      <4> QED
        BY <1>1, <4>2, ConstantShapes DEF Answers
    <3> QED
      BY <3>1, <3>2
  <2>3. admitted[c] = 0
    BY <1>1 DEF PasskeyInv, OnceInv, OnceOK
  <2> QED
    BY <2>1, <2>2, <2>3
<1>7. CeremonyInv'
  <2>1. ASSUME NEW q \in Requests PROVE CeremonyOK(req[q])'
    <3>1. CASE q = p
      BY <1>2, <1>3, <3>1 DEF CeremonyOK, Finishing
    <3>2. CASE q # p
      <4>1. req'[q] = req[q] /\ CeremonyOK(req[q])
        BY <1>3, <1>5, <3>2
      <4>2. req[q].pc = "save" => issued'[req[q].challenge] = issued[req[q].challenge]
        <5>1. req[q].pc = "save" => req[q].challenge \in Challenges \ {c}
          BY <1>5, <1>6, RequestShape DEF Saving
        <5> QED
          BY <1>3, <5>1
      <4>3. req[q].pc \in Finishing => issued'[req[q].session] = issued[req[q].session]
        <5>1. req[q].pc \in Finishing => req[q].session \in Challenges \ {c}
          BY <1>5, <1>6, RequestShape DEF Owner
        <5> QED
          BY <1>3, <5>1
      <4> QED
        BY <1>1, <4>1, <4>2, <4>3 DEF CeremonyOK
    <3> QED
      BY <3>1, <3>2
  <2>2. \A k \in Kinds : slot[k] # NoChallenge => issued'[slot[k]] = k
    BY <1>3, <1>6 DEF Stored, PasskeyInv, PasskeyTypes, CeremonyInv
  <2>3. \A d \in offered : issued'[d] # "none"
    BY <1>1, <1>3, ConstantShapes DEF PasskeyInv, PasskeyTypes, CeremonyInv
  <2>4. ASSUME NEW a \in answers PROVE issued'[a.challenge] = a.kind
    <3>1. a.challenge \in Challenges /\ a.kind \in Kinds /\ issued[a.challenge] = a.kind
      BY DEF PasskeyInv, PasskeyTypes, CeremonyInv, Answers
    <3> QED
      BY <1>1, <1>3, <3>1, ConstantShapes
  <2> QED
    BY <1>1, <2>1, <2>2, <2>3, <2>4 DEF PasskeyInv, CeremonyInv
<1>8. ASSUME NEW d \in Challenges PROVE OnceOK(d)'
  <2>1. \A q \in Requests : Owner(q, d)' <=> Owner(q, d)
    BY <1>1, <1>2, <1>3, IdleShape DEF Owner, Finishing
  <2>2. \A q \in Requests : Saving(q, d)' <=> Saving(q, d) \/ (q = p /\ d = c)
    BY <1>1, <1>2, <1>3, IdleShape DEF Saving
  <2>3. Stored(d)' <=> Stored(d)
    BY <1>1 DEF Stored
  <2>4. OnceOK(d)
    BY DEF PasskeyInv, OnceInv
  <2>5. CASE d = c
    <3>1. issued'[d] # "none"
      BY <1>3, <2>5, ConstantShapes
    <3>2. \A q \in Requests : ~Owner(q, d)'
      BY <1>6, <2>1, <2>5
    <3>3. \A q \in Requests : Saving(q, d)' => q = p
      BY <1>6, <2>2, <2>5
    <3>4. admitted'[d] = 0 /\ ~Stored(d)'
      BY <1>1, <1>6, <2>3, <2>5
    <3> QED
      BY <3>1, <3>2, <3>3, <3>4 DEF OnceOK
  <2>6. CASE d # c
    <3>1. issued'[d] = issued[d] /\ admitted' = admitted /\ shared' = shared
          /\ undeleted' = undeleted
      BY <1>1, <1>3, <2>6
    <3>2. \A q \in Requests : Owner(q, d) => req'[q].pc = req[q].pc
      BY <1>1, <1>3, IdleShape DEF Owner, Finishing
    <3> QED
      BY <2>1, <2>2, <2>3, <2>4, <2>6, <3>1, <3>2 DEF OnceOK
  <2> QED
    BY <2>5, <2>6
<1> QED
  BY <1>4, <1>7, <1>8 DEF PasskeyInv, OnceInv

LEMMA SaveStep ==
    ASSUME PasskeyInv, NEW p \in Requests, SaveSession(p)
    PROVE  PasskeyInv'
<1>1. PICK x \in Kinds, d \in Challenges :
          /\ x = req[p].kind /\ d = req[p].challenge /\ issued[d] = x
          /\ req[p].pc = "save"
  BY RequestShape DEF SaveSession, PasskeyInv, PasskeyTypes, CeremonyInv, CeremonyOK
<1>2. /\ slot' = [slot EXCEPT ![x] = d] /\ offered' = offered \cup {d}
      /\ req' = [req EXCEPT ![p] = IdleRequest]
      /\ UNCHANGED <<issued, signs, answers, rows, shared, undeleted, admitted>>
  BY <1>1 DEF SaveSession
<1>3. /\ \A q \in Requests : req'[q] = IF q = p THEN IdleRequest ELSE req[q]
      /\ \A y \in Kinds : slot'[y] = IF y = x THEN d ELSE slot[y]
  BY <1>2 DEF PasskeyInv, PasskeyTypes
<1>4. PasskeyTypes'
  BY <1>2, IdleShape DEF PasskeyInv, PasskeyTypes
<1>5. CeremonyInv'
  <2>1. ASSUME NEW q \in Requests PROVE CeremonyOK(req[q])'
    <3>1. CASE q = p
      BY <1>3, <3>1, IdleShape DEF CeremonyOK, Finishing
    <3>2. CASE q # p
      BY <1>2, <1>3, <3>2 DEF PasskeyInv, CeremonyInv, CeremonyOK
    <3> QED
      BY <3>1, <3>2
  <2>2. \A y \in Kinds : slot'[y] # NoChallenge => issued[slot'[y]] = y
    BY <1>1, <1>3 DEF PasskeyInv, CeremonyInv
  <2>3. \A y \in offered' : issued[y] # "none"
    BY <1>1, <1>2, ConstantShapes DEF PasskeyInv, CeremonyInv
  <2> QED
    BY <1>2, <2>1, <2>2, <2>3 DEF PasskeyInv, CeremonyInv
<1>6. ASSUME NEW y \in Challenges PROVE OnceOK(y)'
  <2>1. \A q \in Requests : /\ Owner(q, y)' <=> Owner(q, y)
                            /\ Owner(q, y) => req'[q].pc = req[q].pc
    BY <1>1, <1>3, IdleShape DEF Owner, Finishing
  <2>2. \A q \in Requests : Saving(q, y)' <=> q # p /\ Saving(q, y)
    BY <1>3, IdleShape DEF Saving
  <2>3. y # d => (Stored(y)' => Stored(y))
    BY <1>3 DEF Stored
  <2>4. OnceOK(y)
    BY DEF PasskeyInv, OnceInv
  <2>5. CASE y = d
    <3>1. Saving(p, y)
      BY <1>1, <2>5 DEF Saving
    <3>2. admitted[y] = 0 /\ \A q \in Requests : ~Owner(q, y)' /\ ~Saving(q, y)'
      BY <2>1, <2>2, <2>4, <3>1 DEF OnceOK
    <3>3. admitted'[y] = 0
      BY <1>2, <3>2
    <3> QED
      BY <3>2, <3>3 DEF OnceOK
  <2>6. CASE y # d
    BY <1>2, <2>1, <2>2, <2>3, <2>4, <2>6 DEF OnceOK
  <2> QED
    BY <2>5, <2>6
<1> QED
  BY <1>4, <1>5, <1>6 DEF PasskeyInv, OnceInv

LEMMA GetStep ==
    ASSUME PasskeyInv, NEW p \in Requests, NEW a \in answers, GetSession(p, a)
    PROVE  PasskeyInv'
<1>1. a \in Answers /\ a.kind \in Kinds
  BY DEF PasskeyInv, PasskeyTypes, Answers
<1>2. PICK c \in Challenges :
          /\ c = slot[a.kind] /\ req[p] = IdleRequest
          /\ req' = [req EXCEPT ![p] = [pc |-> "del", answer |-> a, session |-> c]]
          /\ shared' = IF \E q \in Requests : Holds(q, c)
                       THEN shared \cup {c} ELSE shared
          /\ UNCHANGED <<slot, issued, offered, signs, answers, rows, undeleted, admitted>>
  BY <1>1 DEF GetSession, PasskeyInv, PasskeyTypes
<1> DEFINE r == [pc |-> "del", answer |-> a, session |-> c]
<1>3. r \in Request /\ r.pc = "del" /\ r.answer = a /\ r.session = c
  BY <1>1 DEF Request
<1> HIDE DEF r
<1>4. req' = [req EXCEPT ![p] = r]
  BY <1>2 DEF r
<1>5. issued[c] = a.kind
  BY <1>1, <1>2, ConstantShapes DEF PasskeyInv, CeremonyInv
<1>6. CeremonyOK(r)
  BY <1>3, <1>5 DEF CeremonyOK
<1>7. PasskeyTypes' /\ CeremonyInv'
  <2>1. /\ shared' \subseteq Challenges /\ undeleted' \subseteq Challenges
        /\ slot' \in [Kinds -> Challenges \cup {NoChallenge}]
        /\ rows' \in [Keys -> Counts \cup {Unregistered}]
        /\ admitted' \in [Challenges -> 0..2]
    BY <1>2 DEF PasskeyInv, PasskeyTypes
  <2> QED
    BY <1>2, <1>3, <1>4, <1>6, <2>1, CeremonyMove DEF PasskeyInv
<1>8. \A q \in Requests : req'[q] = IF q = p THEN r ELSE req[q]
  BY <1>4 DEF PasskeyInv, PasskeyTypes
<1>9. ASSUME NEW d \in Challenges PROVE OnceOK(d)'
  <2>1. \A q \in Requests : /\ Saving(q, d)' <=> Saving(q, d)
                            /\ Owner(q, d)' <=> Owner(q, d) \/ (q = p /\ d = c)
                            /\ Owner(q, d) => req'[q].pc = req[q].pc
    BY <1>2, <1>3, <1>8, IdleShape DEF Saving, Owner, Finishing
  <2>2. Stored(d)' <=> Stored(d)
    BY <1>2 DEF Stored
  <2>3. OnceOK(d) /\ Stored(c)
    BY <1>1, <1>2 DEF PasskeyInv, OnceInv, Stored
  <2>4. CASE d # c
    BY <1>2, <2>1, <2>2, <2>3, <2>4 DEF OnceOK
  <2>5. CASE d = c
    <3>1. \A q \in Requests : ~Saving(q, d)'
      BY <2>1, <2>3, <2>5 DEF OnceOK
    <3>2. issued'[d] # "none"
      BY <1>1, <1>2, <1>5, <2>5, ConstantShapes
    <3>3. ASSUME d \notin shared' \cup undeleted'
          PROVE  /\ admitted'[d] = 0
                 /\ \A q \in Requests : Owner(q, d)' => q = p
      <4>1. d \notin shared \cup undeleted /\ \A q \in Requests : ~Holds(q, d)
        BY <1>2, <2>5, <3>3
      <4>2. \A q \in Requests : ~Owner(q, d)
        BY <2>3, <2>5, <4>1 DEF OnceOK, Owner, Holds
      <4>3. admitted[d] = 0
        BY <2>3, <2>5, <4>1 DEF OnceOK, PasskeyInv, PasskeyTypes
      <4> QED
        BY <1>2, <2>1, <4>2, <4>3
    <3>4. req'[p].pc = "del"
      BY <1>3, <1>8
    <3> QED
      BY <3>1, <3>2, <3>3, <3>4 DEF OnceOK
  <2> QED
    BY <2>4, <2>5
<1> QED
  BY <1>7, <1>9 DEF PasskeyInv, OnceInv

LEMMA TokenStep ==
    ASSUME PasskeyInv, NEW p \in Requests, IssueToken(p)
    PROVE  PasskeyInv'
<1>1. PICK c \in Challenges : c = req[p].session /\ req[p].pc = "token"
  BY RequestShape DEF IssueToken, PasskeyInv, PasskeyTypes, Finishing
<1>2. /\ admitted' = [admitted EXCEPT ![c] = IF @ < 2 THEN @ + 1 ELSE @]
      /\ req' = [req EXCEPT ![p] = IdleRequest]
      /\ UNCHANGED <<slot, issued, offered, signs, answers, rows, shared, undeleted>>
  BY <1>1 DEF IssueToken
<1>3. /\ admitted' \in [Challenges -> 0..2]
      /\ admitted[c] = 0 => admitted'[c] = 1
      /\ \A d \in Challenges : d # c => admitted'[d] = admitted[d]
  BY <1>2 DEF PasskeyInv, PasskeyTypes
<1>4. PasskeyTypes' /\ CeremonyInv'
  <2>1. CeremonyOK(IdleRequest)
    BY IdleShape DEF CeremonyOK, Finishing
  <2>2. /\ shared' \subseteq Challenges /\ undeleted' \subseteq Challenges
        /\ slot' \in [Kinds -> Challenges \cup {NoChallenge}]
        /\ rows' \in [Keys -> Counts \cup {Unregistered}]
    BY <1>2 DEF PasskeyInv, PasskeyTypes
  <2> QED
    BY <1>2, <1>3, <2>1, <2>2, IdleShape, CeremonyMove DEF PasskeyInv
<1>5. \A q \in Requests : req'[q] = IF q = p THEN IdleRequest ELSE req[q]
  BY <1>2 DEF PasskeyInv, PasskeyTypes
<1>6. issued[c] # "none"
  <2>1. issued[c] = req[p].answer.kind /\ req[p].answer \in Answers
    BY <1>1, RequestShape
    DEF PasskeyInv, PasskeyTypes, CeremonyInv, CeremonyOK, Finishing
  <2> QED
    BY <2>1, ConstantShapes DEF Answers
<1>7. ASSUME NEW d \in Challenges PROVE OnceOK(d)'
  <2>1. \A q \in Requests : /\ Saving(q, d)' <=> Saving(q, d)
                            /\ Owner(q, d)' <=> q # p /\ Owner(q, d)
                            /\ Owner(q, d)' => req'[q].pc = req[q].pc
    BY <1>1, <1>5, IdleShape DEF Saving, Owner, Finishing
  <2>2. Stored(d)' <=> Stored(d)
    BY <1>2 DEF Stored
  <2>3. OnceOK(d)
    BY DEF PasskeyInv, OnceInv
  <2>4. CASE d # c
    BY <1>2, <1>3, <2>1, <2>2, <2>3, <2>4 DEF OnceOK
  <2>5. CASE d = c
    <3>1. Owner(p, d) /\ req[p].pc # "del"
      BY <1>1, <2>5 DEF Owner, Finishing
    <3>2. \A q \in Requests : ~Saving(q, d)'
      BY <2>1, <2>3, <3>1 DEF OnceOK
    <3>3. ASSUME d \notin shared' \cup undeleted'
          PROVE  admitted'[d] = 1 /\ ~Stored(d)' /\ \A q \in Requests : ~Owner(q, d)'
      BY <1>2, <1>3, <2>1, <2>2, <2>3, <2>5, <3>1, <3>3 DEF OnceOK
    <3> QED
      BY <1>2, <1>6, <2>5, <3>2, <3>3 DEF OnceOK
  <2> QED
    BY <2>4, <2>5
<1> QED
  BY <1>4, <1>7 DEF PasskeyInv, OnceInv

LEMMA SignStep ==
    ASSUME PasskeyInv, NEW c \in Challenges, NEW k \in Keys, Sign(c, k)
    PROVE  PasskeyInv'
<1> DEFINE a == [kind |-> issued[c], challenge |-> c, key |-> k, count |-> signs[k] + 1]
<1>1. /\ c \in offered /\ signs[k] < MaxSignatures
      /\ UNCHANGED <<slot, issued, offered, rows, req, shared, undeleted, admitted>>
      /\ signs' = [signs EXCEPT ![k] = signs[k] + 1]
  BY DEF Sign
<1>2. signs[k] \in Counts /\ signs[k] + 1 \in Counts
  BY <1>1, PasskeyAssumption DEF PasskeyInv, PasskeyTypes, Counts
<1>3. /\ signs' \in [Keys -> Counts] /\ signs'[k] = signs[k] + 1
      /\ \A x \in Keys : x # k => signs'[x] = signs[x]
  BY <1>1, <1>2 DEF PasskeyInv, PasskeyTypes
<1>4. answers' = answers \cup {a}
  BY <1>3 DEF Sign
<1>5. issued[c] \in Kinds
  BY <1>1 DEF PasskeyInv, PasskeyTypes, CeremonyInv
<1>6. /\ a \in Answers /\ a.kind = issued[c] /\ a.challenge = c /\ a.key = k
      /\ a.count = signs[k] + 1
  BY <1>2, <1>5 DEF Answers
<1> HIDE DEF a
<1>7. ASSUME NEW x \in Keys
      PROVE  signs[x] \in Nat /\ signs'[x] \in Nat /\ signs[x] <= signs'[x]
  <2>1. signs[x] \in Counts /\ signs'[x] \in Counts
    BY <1>3 DEF PasskeyInv, PasskeyTypes
  <2>2. signs[x] \in Nat /\ signs'[x] \in Nat
    BY <2>1, ConstantShapes
  <2> QED
    BY <1>3, <2>2
<1>8. PasskeyTypes'
  BY <1>1, <1>3, <1>4, <1>6 DEF PasskeyInv, PasskeyTypes
<1>9. CeremonyInv'
  <2>1. ASSUME NEW q \in Requests PROVE CeremonyOK(req[q])'
    <3>1. CeremonyOK(req[q]) /\ req[q] \in Request
      BY DEF PasskeyInv, PasskeyTypes, CeremonyInv
    <3>2. req[q].pc \in {"update", "token"} =>
             /\ req[q].answer.key \in Keys /\ req[q].count \in Nat
      BY <3>1, RequestShape, ConstantShapes DEF Answers
    <3>3. req[q].pc \in {"update", "token"} => req[q].count <= signs'[req[q].answer.key]
      BY <1>7, <3>1, <3>2 DEF CeremonyOK
    <3> QED
      BY <1>1, <1>4, <3>1, <3>3 DEF CeremonyOK
  <2>2. ASSUME NEW b \in answers'
        PROVE  issued[b.challenge] = b.kind /\ b.count <= signs'[b.key]
    <3>1. CASE b = a
      BY <1>3, <1>6, <1>7, <3>1
    <3>2. CASE b \in answers
      <4>1. b.key \in Keys /\ b.count \in Nat
        BY <3>2, ConstantShapes DEF PasskeyInv, PasskeyTypes, Answers
      <4> QED
        BY <1>7, <3>2, <4>1 DEF PasskeyInv, CeremonyInv
    <3> QED
      BY <1>4, <2>2, <3>1, <3>2
  <2>3. ASSUME NEW x \in Keys, rows[x] # Unregistered PROVE rows[x] <= signs'[x]
    <3>1. rows[x] \in Nat /\ rows[x] <= signs[x]
      BY <2>3, ConstantShapes DEF PasskeyInv, PasskeyTypes, CeremonyInv
    <3> QED
      BY <1>7, <3>1
  <2> QED
    BY <1>1, <2>1, <2>2, <2>3 DEF PasskeyInv, CeremonyInv
<1>10. OnceInv'
  BY <1>1 DEF PasskeyInv, OnceInv, OnceOK, Stored, Owner, Saving
<1> QED
  BY <1>8, <1>9, <1>10 DEF PasskeyInv

\* A request that goes on with what it holds, at another place.
LEMMA Advanced ==
    ASSUME NEW r \in Request, NEW s,
           \/ r.pc \in {"del", "read", "insert"} /\ s \in {"read", "insert"}
           \/ r.pc = "update" /\ s = "token"
    PROVE  /\ [r EXCEPT !.pc = s] \in Request
           /\ [r EXCEPT !.pc = s].pc = s
           /\ [r EXCEPT !.pc = s].answer = r.answer
           /\ [r EXCEPT !.pc = s].session = r.session
           /\ r.pc = "update" => /\ [r EXCEPT !.pc = s].read = r.read
                                 /\ [r EXCEPT !.pc = s].count = r.count
<1>1. CASE r.pc \in {"del", "read", "insert"} /\ s \in {"read", "insert"}
  <2>1. r \in [pc : {"del", "read", "insert"}, answer : Answers, session : Challenges]
    BY <1>1, RequestShape
  <2> QED
    BY <1>1, <2>1 DEF Request
<1>2. CASE r.pc = "update" /\ s = "token"
  <2>1. r \in [pc : {"update", "token"}, answer : Answers, session : Challenges,
               read : Counts, count : Counts]
    BY <1>2, RequestShape
  <2> QED
    BY <1>2, <2>1 DEF Request
<1> QED
  BY <1>1, <1>2

\* Request p moves on, and at most its slot is emptied and a row is written.
LEMMA MoveStep ==
    ASSUME PasskeyInv, NEW p \in Requests, NEW r \in Request,
           req' = [req EXCEPT ![p] = r], CeremonyOK(r), r.pc # "save",
           UNCHANGED <<issued, offered, answers, signs, shared, admitted>>,
           slot' \in [Kinds -> Challenges \cup {NoChallenge}],
           \A k \in Kinds : slot'[k] \in {slot[k], NoChallenge},
           rows' \in [Keys -> Counts \cup {Unregistered}],
           \A k \in Keys : rows'[k] = rows[k] \/ rows'[k] <= signs[k],
           undeleted \subseteq undeleted', undeleted' \subseteq Challenges,
           r.pc \in Finishing =>
              /\ req[p].pc \in Finishing /\ r.session = req[p].session
              /\ r.pc # "del"
              /\ req[p].pc = "del" => r.session \in undeleted' \/ ~Stored(r.session)'
    PROVE  PasskeyInv'
<1>1. \A c \in Challenges : Stored(c)' => Stored(c)
  BY ConstantShapes DEF Stored
<1>2. shared' \subseteq Challenges /\ admitted' \in [Challenges -> 0..2]
  BY DEF PasskeyInv, PasskeyTypes
<1>3. PasskeyTypes' /\ CeremonyInv'
  BY <1>2, CeremonyMove DEF PasskeyInv
<1>4. OnceInv'
  BY <1>1, OnceMove DEF PasskeyInv
<1> QED
  BY <1>3, <1>4 DEF PasskeyInv

\* The same when the database is not touched.
LEMMA QuietMove ==
    ASSUME PasskeyInv, NEW p \in Requests, NEW r \in Request,
           req' = [req EXCEPT ![p] = r], CeremonyOK(r), r.pc # "save",
           UNCHANGED <<slot, issued, offered, signs, answers, rows, shared,
                       undeleted, admitted>>,
           r.pc \in Finishing =>
              /\ req[p].pc \in Finishing \ {"del"} /\ r.session = req[p].session
              /\ r.pc # "del"
    PROVE  PasskeyInv'
<1>1. /\ slot' \in [Kinds -> Challenges \cup {NoChallenge}]
      /\ rows' \in [Keys -> Counts \cup {Unregistered}]
      /\ undeleted' \subseteq Challenges
  BY DEF PasskeyInv, PasskeyTypes
<1> QED
  BY <1>1, MoveStep

LEMMA IdleCeremony == CeremonyOK(IdleRequest) /\ IdleRequest.pc \notin Finishing
  BY IdleShape DEF CeremonyOK, Finishing

LEMMA DeleteStep ==
    ASSUME PasskeyInv, NEW p \in Requests, DeleteSession(p) \/ DeleteSessionFails(p)
    PROVE  PasskeyInv'
<1> DEFINE r == [req[p] EXCEPT !.pc = "read"]
<1>1. req[p] \in Request /\ req[p].pc = "del" /\ req' = [req EXCEPT ![p] = r]
  BY DEF PasskeyInv, PasskeyTypes, DeleteSession, DeleteSessionFails
<1>2. /\ r \in Request /\ r.pc = "read" /\ r.answer = req[p].answer
      /\ r.session = req[p].session
  BY <1>1, Advanced
<1>3. /\ req[p].answer \in Answers /\ req[p].session \in Challenges
      /\ req[p].answer \in answers /\ issued[req[p].session] = req[p].answer.kind
  BY <1>1, RequestShape DEF PasskeyInv, CeremonyInv, CeremonyOK, Finishing
<1> HIDE DEF r
<1>4. CeremonyOK(r)
  BY <1>2, <1>3 DEF CeremonyOK
<1>5. PICK x \in Kinds, c \in Challenges : x = req[p].answer.kind /\ c = req[p].session
  BY <1>3 DEF Answers
<1>6. UNCHANGED <<issued, offered, answers, signs, rows, shared, admitted>>
  BY DEF DeleteSession, DeleteSessionFails
<1>7. rows' \in [Keys -> Counts \cup {Unregistered}]
  BY <1>6 DEF PasskeyInv, PasskeyTypes
<1>8. CASE DeleteSession(p)
  <2>1. /\ slot' = [slot EXCEPT ![x] = NoChallenge] /\ undeleted' = undeleted
    BY <1>5, <1>8 DEF DeleteSession
  <2>2. /\ slot' \in [Kinds -> Challenges \cup {NoChallenge}]
        /\ \A k \in Kinds : slot'[k] = IF k = x THEN NoChallenge ELSE slot[k]
        /\ undeleted' \subseteq Challenges
    BY <2>1 DEF PasskeyInv, PasskeyTypes
  <2>3. ~Stored(c)'
    <3>1. ASSUME NEW k \in Kinds, slot'[k] = c PROVE FALSE
      <4>1. k # x /\ slot[k] = c /\ c # NoChallenge
        BY <2>2, <3>1, ConstantShapes
      <4>2. issued[c] = k
        BY <4>1 DEF PasskeyInv, CeremonyInv
      <4> QED
        BY <1>3, <1>5, <4>1, <4>2
    <3> QED
      BY <3>1 DEF Stored
  <2>4. r.session = c
    BY <1>2, <1>5
  <2> QED
    BY <1>1, <1>2, <1>4, <1>6, <1>7, <2>1, <2>2, <2>3, <2>4, MoveStep DEF Finishing
<1>9. CASE DeleteSessionFails(p)
  <2>1. slot' = slot /\ undeleted' = undeleted \cup {c}
    BY <1>5, <1>9 DEF DeleteSessionFails
  <2>2. /\ slot' \in [Kinds -> Challenges \cup {NoChallenge}]
        /\ undeleted' \subseteq Challenges /\ undeleted \subseteq undeleted'
    BY <2>1 DEF PasskeyInv, PasskeyTypes
  <2>3. r.session \in undeleted'
    BY <1>2, <1>5, <2>1
  <2> QED
    BY <1>1, <1>2, <1>4, <1>6, <1>7, <2>1, <2>2, <2>3, MoveStep DEF Finishing
<1> QED
  BY <1>8, <1>9

LEMMA CredentialStep ==
    ASSUME PasskeyInv, NEW p \in Requests, CreateCredential(p)
    PROVE  PasskeyInv'
<1>1. req[p] \in Request /\ req[p].pc = "insert"
  BY DEF PasskeyInv, PasskeyTypes, CreateCredential
<1>2. PICK a \in answers : a = req[p].answer
  BY <1>1 DEF PasskeyInv, CeremonyInv, CeremonyOK, Finishing
<1>3. a.key \in Keys /\ a.count \in Counts /\ a.count <= signs[a.key]
  BY DEF PasskeyInv, PasskeyTypes, CeremonyInv, Answers
<1>4. /\ rows' = IF rows[a.key] = Unregistered
                 THEN [rows EXCEPT ![a.key] = a.count] ELSE rows
      /\ req' = [req EXCEPT ![p] = IdleRequest]
      /\ UNCHANGED <<slot, issued, offered, signs, answers, shared, undeleted, admitted>>
  BY <1>2 DEF CreateCredential
<1>5. /\ rows' \in [Keys -> Counts \cup {Unregistered}]
      /\ \A k \in Keys : rows'[k] = rows[k] \/ rows'[k] <= signs[k]
  BY <1>3, <1>4 DEF PasskeyInv, PasskeyTypes
<1>6. /\ slot' \in [Kinds -> Challenges \cup {NoChallenge}]
      /\ undeleted' \subseteq Challenges /\ undeleted \subseteq undeleted'
  BY <1>4 DEF PasskeyInv, PasskeyTypes
<1> QED
  BY <1>4, <1>5, <1>6, IdleShape, IdleCeremony, MoveStep

LEMMA LoginStep ==
    ASSUME PasskeyInv, NEW p \in Requests, FinishLogin(p)
    PROVE  PasskeyInv'
<1>1. req[p] \in Request /\ req[p].pc = "read" /\ req[p].answer.kind = "login"
  BY DEF PasskeyInv, PasskeyTypes, FinishLogin
<1>2. PICK a \in answers, c \in Challenges :
          a = req[p].answer /\ c = req[p].session /\ issued[c] = a.kind
  BY <1>1, RequestShape DEF PasskeyInv, CeremonyInv, CeremonyOK, Finishing
<1>3. a \in Answers /\ a.key \in Keys /\ a.count \in Counts /\ a.count <= signs[a.key]
  BY DEF PasskeyInv, PasskeyTypes, CeremonyInv, Answers
<1>4. PICK old \in Counts : old = rows[a.key] /\ old <= signs[a.key]
  BY <1>2, <1>3 DEF FinishLogin, PasskeyInv, PasskeyTypes, CeremonyInv
<1>5. PICK new \in Counts :
          new = UpdateCounter(old, a.count) /\ old <= new /\ new <= signs[a.key]
  BY <1>3, <1>4, ConstantShapes DEF UpdateCounter
<1> DEFINE r == [pc |-> "update", answer |-> a, session |-> c, read |-> old,
                 count |-> new]
<1>6. /\ r \in Request /\ r.pc = "update" /\ r.answer = a /\ r.session = c
      /\ r.read = old /\ r.count = new
  BY <1>3 DEF Request
<1>7. /\ req' = [req EXCEPT ![p] = r]
      /\ UNCHANGED <<slot, issued, offered, signs, answers, rows, shared, undeleted,
                     admitted>>
  BY <1>2, <1>4, <1>5 DEF FinishLogin
<1> HIDE DEF r
<1>8. CeremonyOK(r)
  BY <1>1, <1>2, <1>5, <1>6 DEF CeremonyOK
<1> QED
  BY <1>1, <1>2, <1>6, <1>7, <1>8, QuietMove DEF Finishing

LEMMA UpdateStep ==
    ASSUME PasskeyInv, NEW p \in Requests, UpdateCredential(p) \/ SkipUpdate(p)
    PROVE  PasskeyInv'
<1> DEFINE r == [req[p] EXCEPT !.pc = "token"]
<1>1. req[p] \in Request /\ req[p].pc = "update" /\ req' = [req EXCEPT ![p] = r]
  BY DEF PasskeyInv, PasskeyTypes, UpdateCredential, SkipUpdate
<1>2. /\ r \in Request /\ r.pc = "token" /\ r.answer = req[p].answer
      /\ r.session = req[p].session /\ r.read = req[p].read /\ r.count = req[p].count
  BY <1>1, Advanced
<1> HIDE DEF r
<1>3. CeremonyOK(req[p])
  BY DEF PasskeyInv, CeremonyInv
<1>4. CeremonyOK(r)
  BY <1>1, <1>2, <1>3 DEF CeremonyOK, Finishing
<1>5. PICK k \in Keys, n \in Counts :
          k = req[p].answer.key /\ n = req[p].count /\ n <= signs[k]
  BY <1>1, <1>3, RequestShape DEF CeremonyOK, Answers
<1>6. UNCHANGED <<slot, issued, offered, signs, answers, shared, undeleted, admitted>>
  BY DEF UpdateCredential, SkipUpdate
<1>7. rows' = rows \/ rows' = [rows EXCEPT ![k] = n]
  BY <1>5 DEF UpdateCredential, SkipUpdate
<1>8. /\ rows' \in [Keys -> Counts \cup {Unregistered}]
      /\ \A x \in Keys : rows'[x] = rows[x] \/ rows'[x] <= signs[x]
  BY <1>5, <1>7 DEF PasskeyInv, PasskeyTypes
<1>9. /\ slot' \in [Kinds -> Challenges \cup {NoChallenge}]
      /\ undeleted' \subseteq Challenges /\ undeleted \subseteq undeleted'
  BY <1>6 DEF PasskeyInv, PasskeyTypes
<1> QED
  BY <1>1, <1>2, <1>4, <1>6, <1>8, <1>9, MoveStep DEF Finishing

LEMMA ExpireStep ==
    ASSUME PasskeyInv, NEW x \in Kinds, SessionExpires(x)
    PROVE  PasskeyInv'
<1>1. /\ slot' = [slot EXCEPT ![x] = NoChallenge]
      /\ UNCHANGED <<issued, offered, signs, answers, rows, req, shared, undeleted,
                     admitted>>
  BY DEF SessionExpires
<1>2. /\ slot' \in [Kinds -> Challenges \cup {NoChallenge}]
      /\ \A k \in Kinds : slot'[k] = IF k = x THEN NoChallenge ELSE slot[k]
  BY <1>1 DEF PasskeyInv, PasskeyTypes
<1>3. PasskeyTypes'
  BY <1>1, <1>2 DEF PasskeyInv, PasskeyTypes
<1>4. CeremonyInv'
  BY <1>1, <1>2 DEF PasskeyInv, CeremonyInv, CeremonyOK
<1>5. ASSUME NEW c \in Challenges PROVE OnceOK(c)'
  <2>1. Stored(c)' => Stored(c)
    BY <1>2, ConstantShapes DEF Stored
  <2>2. \A q \in Requests : (Owner(q, c)' <=> Owner(q, c)) /\ (Saving(q, c)' <=> Saving(q, c))
    BY <1>1 DEF Owner, Saving
  <2> QED
    BY <1>1, <2>1, <2>2, OnceKept DEF PasskeyInv, OnceInv
<1> QED
  BY <1>3, <1>4, <1>5 DEF PasskeyInv, OnceInv

LEMMA InitPasskey == PasskeyInit => PasskeyInv
<1> SUFFICES ASSUME PasskeyInit PROVE PasskeyInv
  OBVIOUS
<1>1. PasskeyTypes
  BY IdleShape, ConstantShapes DEF PasskeyInit, PasskeyTypes
<1>2. \A p \in Requests : req[p] = IdleRequest
  BY DEF PasskeyInit
<1>3. CeremonyInv
  BY <1>2, IdleCeremony DEF PasskeyInit, CeremonyInv
<1>4. OnceInv
  BY <1>2, IdleShape, ConstantShapes
  DEF PasskeyInit, OnceInv, OnceOK, Saving, Owner, Stored, Finishing
<1> QED
  BY <1>1, <1>3, <1>4 DEF PasskeyInv

LEMMA StepPasskey == PasskeyInv /\ [PasskeyNext]_passkeyVars => PasskeyInv'
<1> SUFFICES ASSUME PasskeyInv, [PasskeyNext]_passkeyVars PROVE PasskeyInv'
  OBVIOUS
<1>1. CASE UNCHANGED passkeyVars
  BY <1>1
  DEF passkeyVars, PasskeyInv, PasskeyTypes, CeremonyInv, CeremonyOK, OnceInv, OnceOK,
      Saving, Owner, Stored
<1>2. ASSUME NEW p \in Requests,
             NEW c \in Challenges, BeginRegistration(p, c) \/ BeginLogin(p, c)
      PROVE  PasskeyInv'
  BY <1>2, BeginStep
<1>3. ASSUME NEW p \in Requests, NEW a \in answers, GetSession(p, a)
      PROVE  PasskeyInv'
  BY <1>3, GetStep
<1>4. ASSUME NEW p \in Requests, BeginFails(p) PROVE PasskeyInv'
  BY <1>1, <1>4 DEF BeginFails
<1>5. ASSUME NEW p \in Requests, SaveSession(p) PROVE PasskeyInv'
  BY <1>5, SaveStep
<1>6. ASSUME NEW p \in Requests, SaveSessionFails(p) \/ FinishFails(p) PROVE PasskeyInv'
  BY <1>6, IdleShape, IdleCeremony, QuietMove DEF SaveSessionFails, FinishFails
<1>7. ASSUME NEW p \in Requests, DeleteSession(p) \/ DeleteSessionFails(p)
      PROVE  PasskeyInv'
  BY <1>7, DeleteStep
<1>8. ASSUME NEW p \in Requests, FinishRegistration(p) PROVE PasskeyInv'
  <2> DEFINE r == [req[p] EXCEPT !.pc = "insert"]
  <2>1. /\ req[p] \in Request /\ req[p].pc = "read" /\ req' = [req EXCEPT ![p] = r]
        /\ UNCHANGED <<slot, issued, offered, signs, answers, rows, shared, undeleted,
                       admitted>>
    BY <1>8 DEF PasskeyInv, PasskeyTypes, FinishRegistration
  <2>2. /\ r \in Request /\ r.pc = "insert" /\ r.answer = req[p].answer
        /\ r.session = req[p].session
    BY <2>1, Advanced
  <2> HIDE DEF r
  <2>3. CeremonyOK(r)
    BY <2>1, <2>2 DEF PasskeyInv, CeremonyInv, CeremonyOK, Finishing
  <2> QED
    BY <1>8, <2>1, <2>2, <2>3, QuietMove DEF Finishing
<1>9. ASSUME NEW p \in Requests, CreateCredential(p) PROVE PasskeyInv'
  BY <1>9, CredentialStep
<1>10. ASSUME NEW p \in Requests, FinishLogin(p) PROVE PasskeyInv'
  BY <1>10, LoginStep
<1>11. ASSUME NEW p \in Requests, UpdateCredential(p) \/ SkipUpdate(p) PROVE PasskeyInv'
  BY <1>11, UpdateStep
<1>12. ASSUME NEW p \in Requests, IssueToken(p) PROVE PasskeyInv'
  BY <1>12, TokenStep
<1>13. ASSUME NEW k \in Kinds, SessionExpires(k) PROVE PasskeyInv'
  BY <1>13, ExpireStep
<1>14. ASSUME NEW c \in Challenges, NEW k \in Keys, Sign(c, k) PROVE PasskeyInv'
  BY <1>14, SignStep
<1> QED
  BY <1>1, <1>2, <1>3, <1>4, <1>5, <1>6, <1>7, <1>8, <1>9, <1>10, <1>11, <1>12, <1>13,
     <1>14 DEF PasskeyNext

\* SessionStore.GetSession and FinishLogin: whatever requests overlap, a slot
\* holds a challenge of its ceremony, a stored count is one the key has shown, and
\* a challenge admits twice only when its DEL failed or two requests read it
\* before one of them deleted it.
THEOREM ChallengesCorrect == PasskeySpec => []ChallengesSound
<1>1. ASSUME PasskeyInv PROVE ChallengesSound
  <2>1. PasskeyTypeOK
    <3>1. ASSUME NEW k \in Registered PROVE rows[k] \in 0 .. signs[k]
      <4>1. k \in Keys /\ rows[k] \in Counts /\ signs[k] \in Counts /\ rows[k] <= signs[k]
        BY <1>1, <3>1 DEF Registered, PasskeyInv, PasskeyTypes, CeremonyInv
      <4> QED
        BY <4>1, ConstantShapes
    <3>2. ASSUME NEW p \in Requests, req[p].pc \in {"update", "token"}
          PROVE  issued[req[p].session] = "login" /\ req[p].answer \in answers
      BY <1>1, <3>2 DEF PasskeyInv, CeremonyInv, CeremonyOK, Finishing
    <3> QED
      BY <1>1, <3>1, <3>2 DEF PasskeyTypeOK, PasskeyInv, PasskeyTypes, CeremonyInv
  <2>2. ReplayExplained
    BY <1>1 DEF ReplayExplained, PasskeyInv, PasskeyTypes, OnceInv, OnceOK
  <2> QED
    BY <2>1, <2>2 DEF ChallengesSound
<1> QED
  BY <1>1, InitPasskey, StepPasskey, PTL DEF PasskeySpec

\* FinishLogin writes the larger of the count it read and the key's: a stored
\* count falls only when the row changed between its read and its UPDATE.
THEOREM CountCorrect == PasskeySpec => CountFallsOnlyStale
<1>1. ASSUME PasskeyInv, [PasskeyNext]_passkeyVars, NEW k \in Registered,
             rows'[k] < rows[k]
      PROVE  \E p \in Requests : /\ req[p].pc = "update" /\ req'[p].pc = "token"
                                 /\ req[p].answer.key = k /\ req[p].read # rows[k]
  <2>1. k \in Keys /\ rows[k] \in Counts /\ rows[k] # Unregistered
    BY <1>1 DEF Registered, PasskeyInv, PasskeyTypes
  <2> rows[k] \in Nat
    BY <2>1, ConstantShapes
  <2>2. rows' # rows
    BY <1>1
  <2>3. PICK p \in Requests : CreateCredential(p) \/ UpdateCredential(p)
    BY <1>1, <2>2
    DEF PasskeyNext, passkeyVars, BeginRegistration, BeginLogin, GetSession, BeginFails,
        SaveSession, SaveSessionFails, DeleteSession, DeleteSessionFails,
        FinishRegistration, FinishLogin, SkipUpdate, FinishFails, IssueToken,
        SessionExpires, Sign
  <2>4. req[p] \in Request /\ req \in [Requests -> Request] /\ CeremonyOK(req[p])
    BY <1>1 DEF PasskeyInv, PasskeyTypes, CeremonyInv
  <2>5. ~CreateCredential(p)
    <3>1. SUFFICES ASSUME CreateCredential(p) PROVE FALSE
      OBVIOUS
    <3>2. rows'[k] = rows[k]
      BY <1>1, <2>1, <3>1 DEF CreateCredential, PasskeyInv, PasskeyTypes
    <3> QED
      BY <1>1, <3>2
  <2>6. /\ req[p].pc = "update" /\ req' = [req EXCEPT ![p].pc = "token"]
        /\ rows' = [rows EXCEPT ![req[p].answer.key] = req[p].count]
    BY <2>3, <2>5 DEF UpdateCredential
  <2>7. req'[p].pc = "token"
    BY <2>4, <2>6, Advanced
  <2>8. req[p].answer.key = k
    BY <1>1, <2>1, <2>6, ConstantShapes DEF PasskeyInv, PasskeyTypes
  <2>9. req[p].read \in Nat /\ req[p].count \in Nat /\ req[p].read <= req[p].count
    <3>1. req[p].read \in Counts /\ req[p].count \in Counts
      BY <2>4, <2>6, RequestShape
    <3> QED
      BY <2>4, <2>6, <3>1, ConstantShapes DEF CeremonyOK
  <2>10. rows'[k] = req[p].count
    BY <1>1, <2>1, <2>6, <2>8 DEF PasskeyInv, PasskeyTypes
  <2>11. req[p].read # rows[k]
    BY <1>1, <2>9, <2>10
  <2> QED
    BY <2>6, <2>7, <2>8, <2>11
<1>2. PasskeyInv /\ [PasskeyNext]_passkeyVars =>
        [\A k \in Registered : rows'[k] < rows[k] =>
            \E p \in Requests : /\ req[p].pc = "update" /\ req'[p].pc = "token"
                                /\ req[p].answer.key = k /\ req[p].read # rows[k]]_passkeyVars
  BY <1>1
<1> QED
  BY <1>2, InitPasskey, StepPasskey, PTL DEF PasskeySpec, CountFallsOnlyStale

-----------------------------------------------------------------------------
(* Migrations: what the version says is there, unless it was forced, and a *)
(* healthy database is never dropped.                                      *)

Places ==
    {"down", "version", "check", "drop", "corrupt", "up", "retry", "exec", "clean",
     "next", "recover", "force", "serving"}

Migrating == {"exec", "clean", "next"}

InstanceRecord ==
    [at : Places, read : NoVersion .. LastVersion, table : 0 .. LastVersion,
     early : BOOLEAN, excused : BOOLEAN]

\* With tables a, versions f forced and a history d of drops: the migrations up
\* to n are there or were forced, n itself aside in the second one.
Covered(n, a, f, d) == d = FALSE => \A v \in 1 .. n : v \in a \cup f
CoveredBelow(n, a, f, d) == d = FALSE => \A v \in 1 .. n : v \in a \cup f \cup {n}

\* What an instance at its place knows of the database, and still holds there
\* whatever the other instances and cmd/migrate have done since it looked.
PlaceOK(r, a, f, d) ==
    /\ r.at = "check" => r.table \in 1 .. r.read
    /\ r.at = "drop" => r.excused = TRUE
    /\ r.at = "corrupt" => f # {}
    /\ r.at \in {"exec", "force"} => r.read \in Versions /\ CoveredBelow(r.read, a, f, d)
    /\ r.at = "clean" => r.read \in Versions /\ Covered(r.read, a, f, d)
    /\ r.at = "next" => r.read \in 1 .. LastVersion - 1 /\ Covered(r.read, a, f, d)
    /\ r.at = "serving" /\ r.early = FALSE => Covered(LastVersion, a, f, d)

DatabaseInv ==
    /\ version \in NoVersion .. LastVersion /\ dirty \in BOOLEAN
    /\ applied \subseteq Versions /\ data \in BOOLEAN /\ (data => 1 \in applied)
    /\ tool \in {NoTool} \cup 0 .. LastVersion - 1
    /\ forced \subseteq Versions /\ dropped \in BOOLEAN
    /\ dirty => version \in Versions /\ CoveredBelow(version, applied, forced, dropped)
    /\ ~dirty => Covered(version, applied, forced, dropped)
    /\ version = 0 => forced # {}
    /\ Covered(tool, applied, forced, dropped)

InstanceInv ==
    /\ lock \in Instances \cup {Nobody}
    /\ inst \in [Instances -> InstanceRecord]
    /\ \A p \in Instances : (inst[p].at \in Migrating) <=> (lock = p)
    /\ \A p \in Instances : PlaceOK(inst[p], applied, forced, dropped)

MigrationInv == DatabaseInv /\ InstanceInv

LEMMA VersionShapes ==
    /\ NoVersion \in NoVersion .. LastVersion
    /\ 0 \in 0 .. LastVersion /\ 0 \in 0 .. LastVersion - 1
    /\ Leavers \subseteq Versions /\ Versions \subseteq NoVersion .. LastVersion
    /\ 1 \in Versions /\ LastVersion \in Versions /\ CompaniesAt \in Versions
    /\ LastVersion \in Nat /\ Low \in Nat
    /\ \A a, f, d : /\ Covered(NoTool, a, f, d) /\ Covered(NoVersion, a, f, d)
                    /\ Covered(0, a, f, d)
  BY MigrationsAssumption DEF NoVersion, NoTool, Versions, Leavers, Covered

LEMMA DownShape ==
    ASSUME NEW s \in Places
    PROVE  /\ [Down EXCEPT !.at = s] \in InstanceRecord
           /\ [Down EXCEPT !.at = s].at = s
           /\ [Down EXCEPT !.at = s].early = FALSE
           /\ [Down EXCEPT !.at = s, !.early = TRUE] \in InstanceRecord
           /\ [Down EXCEPT !.at = s, !.early = TRUE].at = s
           /\ [Down EXCEPT !.at = s, !.early = TRUE].early = TRUE
  BY VersionShapes DEF Down, InstanceRecord

\* What is covered stays so while tables are only added, or the drop recorded.
LEMMA PlaceKept ==
    ASSUME NEW r, NEW a, NEW f, NEW d, NEW b, NEW g, NEW e,
           PlaceOK(r, a, f, d), e = FALSE => d = FALSE /\ a \subseteq b, f \subseteq g
    PROVE  PlaceOK(r, b, g, e)
<1>1. \A n : Covered(n, a, f, d) => Covered(n, b, g, e)
  BY DEF Covered
<1>2. \A n : CoveredBelow(n, a, f, d) => CoveredBelow(n, b, g, e)
  BY DEF CoveredBelow
<1> QED
  BY <1>1, <1>2 DEF PlaceOK

\* Instance p goes on as r; the tables only grow, or the drop is recorded.
LEMMA InstanceMoves ==
    ASSUME MigrationInv, DatabaseInv', NEW p \in Instances, NEW r \in InstanceRecord,
           inst' = [inst EXCEPT ![p] = r],
           lock' \in Instances \cup {Nobody},
           \A q \in Instances : q # p => (lock' = q <=> lock = q),
           (r.at \in Migrating) <=> (lock' = p),
           PlaceOK(r, applied', forced', dropped'),
           dropped' = FALSE => dropped = FALSE /\ applied \subseteq applied',
           forced \subseteq forced'
    PROVE  MigrationInv'
<1>1. \A q \in Instances : inst'[q] = IF q = p THEN r ELSE inst[q]
  BY DEF MigrationInv, InstanceInv
<1>2. ASSUME NEW q \in Instances
      PROVE  /\ (inst'[q].at \in Migrating) <=> (lock' = q)
             /\ PlaceOK(inst'[q], applied', forced', dropped')
  <2>1. CASE q = p
    BY <1>1, <2>1
  <2>2. CASE q # p
    <3>1. inst'[q] = inst[q] /\ PlaceOK(inst[q], applied, forced, dropped)
      BY <1>1, <2>2 DEF MigrationInv, InstanceInv
    <3>2. PlaceOK(inst[q], applied', forced', dropped')
      BY <3>1, PlaceKept
    <3> QED
      BY <2>2, <3>1, <3>2 DEF MigrationInv, InstanceInv
  <2> QED
    BY <2>1, <2>2
<1>3. inst' \in [Instances -> InstanceRecord]
  BY DEF MigrationInv, InstanceInv
<1> QED
  BY <1>2, <1>3 DEF MigrationInv, InstanceInv

\* The instances stay where they are.
LEMMA InstancesStay ==
    ASSUME MigrationInv, DatabaseInv', UNCHANGED <<inst, lock>>,
           dropped' = FALSE => dropped = FALSE /\ applied \subseteq applied',
           forced \subseteq forced'
    PROVE  MigrationInv'
<1>1. ASSUME NEW q \in Instances PROVE PlaceOK(inst[q], applied', forced', dropped')
  BY PlaceKept DEF MigrationInv, InstanceInv
<1> QED
  BY <1>1 DEF MigrationInv, InstanceInv

\* The database stays as it is, and p moves without the lock.
LEMMA PlaceMoves ==
    ASSUME MigrationInv, NEW p \in Instances, NEW r \in InstanceRecord,
           inst' = [inst EXCEPT ![p] = r], r.at \notin Migrating,
           UNCHANGED <<dbVars, tool, forced, dropped>>,
           \/ lock' = lock /\ inst[p].at \notin Migrating
           \/ lock' = IF lock = p THEN Nobody ELSE lock,
           PlaceOK(r, applied, forced, dropped)
    PROVE  MigrationInv'
<1>1. DatabaseInv'
  BY DEF MigrationInv, DatabaseInv, dbVars
<1>2. /\ lock' \in Instances \cup {Nobody} /\ lock' # p
      /\ \A q \in Instances : q # p => (lock' = q <=> lock = q)
  BY MigrationsAssumption DEF MigrationInv, InstanceInv
<1>3. PlaceOK(r, applied', forced', dropped')
  BY DEF dbVars
<1> QED
  BY <1>1, <1>2, <1>3, InstanceMoves DEF dbVars

\* Nothing is known at these places.
LEMMA OpenPlace ==
    ASSUME NEW s \in {"down", "version", "up", "retry", "recover"}, NEW a, NEW f, NEW d
    PROVE  PlaceOK([Down EXCEPT !.at = s], a, f, d)
<1>1. [Down EXCEPT !.at = s].at = s
  BY DownShape DEF Places
<1> QED
  BY <1>1 DEF PlaceOK

LEMMA EarlyPlace ==
    ASSUME NEW a, NEW f, NEW d
    PROVE  PlaceOK([Down EXCEPT !.at = "serving", !.early = TRUE], a, f, d)
<1>1. /\ [Down EXCEPT !.at = "serving", !.early = TRUE].at = "serving"
      /\ [Down EXCEPT !.at = "serving", !.early = TRUE].early = TRUE
  BY DownShape DEF Places
<1> QED
  BY <1>1 DEF PlaceOK

LEMMA InitMigration == MigrationInit => MigrationInv
<1> SUFFICES ASSUME MigrationInit PROVE MigrationInv
  OBVIOUS
<1>1. DatabaseInv
  <2>1. /\ version = NoVersion /\ dirty = FALSE /\ applied = {} /\ data = FALSE
        /\ tool = NoTool /\ forced = {} /\ dropped = FALSE
    BY DEF MigrationInit
  <2>2. version # 0 /\ version \in NoVersion .. LastVersion
    BY <2>1, VersionShapes DEF NoVersion
  <2> QED
    BY <2>1, <2>2, VersionShapes DEF DatabaseInv
<1>2. Down \in InstanceRecord /\ Down.at = "down"
  BY VersionShapes DEF Down, InstanceRecord, Places
<1>3. PlaceOK(Down, applied, forced, dropped)
  BY <1>2 DEF PlaceOK
<1>4. \A p \in Instances : inst[p] = Down
  BY DEF MigrationInit
<1>5. InstanceInv
  BY <1>2, <1>3, <1>4, MigrationsAssumption DEF MigrationInit, InstanceInv, Migrating
<1> QED
  BY <1>1, <1>5 DEF MigrationInv

LEMMA AfterCheckStep ==
    ASSUME MigrationInv, NEW p \in Instances, inst[p].at \in {"check", "drop"},
           AfterCheck(p), UNCHANGED <<dbVars, lock, tool, forced, dropped>>
    PROVE  MigrationInv'
<1>1. inst[p] \in InstanceRecord
  BY DEF MigrationInv, InstanceInv
<1>2. CASE inst[p].table = 1 /\ inst[p].read >= CompaniesAt
  <2> DEFINE r == [inst[p] EXCEPT !.at = "check", !.table = CompaniesAt,
                                  !.excused = FALSE]
  <2>1. inst' = [inst EXCEPT ![p] = r]
    BY <1>2 DEF AfterCheck
  <2>2. /\ r \in InstanceRecord /\ r.at = "check" /\ r.table = CompaniesAt
        /\ r.read = inst[p].read
    <3>1. CompaniesAt \in 0 .. LastVersion
      BY MigrationsAssumption
    <3> QED
      BY <1>1, <3>1 DEF InstanceRecord, Places
  <2> HIDE DEF r
  <2>3. r.table \in 1 .. r.read
    BY <1>1, <1>2, <2>2, MigrationsAssumption DEF InstanceRecord, NoVersion
  <2>4. PlaceOK(r, applied, forced, dropped)
    BY <2>2, <2>3 DEF PlaceOK
  <2> QED
    BY <2>1, <2>2, <2>4, PlaceMoves DEF Migrating
<1>3. CASE ~(inst[p].table = 1 /\ inst[p].read >= CompaniesAt)
  <2>1. inst' = [inst EXCEPT ![p] = [Down EXCEPT !.at = "up"]]
    BY <1>3 DEF AfterCheck, GoTo
  <2> QED
    BY <2>1, DownShape, OpenPlace, PlaceMoves DEF Places, Migrating
<1> QED
  BY <1>2, <1>3

\* Steps of p that only read, give up or die.
LEMMA ReadStep ==
    ASSUME MigrationInv, NEW p \in Instances,
           \/ StartInstance(p) \/ ReadVersion(p) \/ CheckTable(p) \/ ReadFails(p)
           \/ DropFails(p) \/ LockTimeout(p) \/ ExecuteFails(p) \/ RecoverDirty(p)
           \/ StopInstance(p) \/ CrashInstance(p)
    PROVE  MigrationInv'
<1>1. inst[p] \in InstanceRecord /\ PlaceOK(inst[p], applied, forced, dropped)
  BY DEF MigrationInv, InstanceInv
<1>2. CASE StartInstance(p)
  <2>1. /\ inst' = [inst EXCEPT ![p] = [Down EXCEPT !.at = "version"]]
        /\ UNCHANGED <<dbVars, lock, tool, forced, dropped>> /\ inst[p].at = "down"
    BY <1>2 DEF StartInstance, GoTo, At
  <2> QED
    BY <2>1, DownShape, OpenPlace, PlaceMoves DEF Places, Migrating
<1>3. CASE ReadVersion(p)
  <2>1. UNCHANGED <<dbVars, lock, tool, forced, dropped>> /\ inst[p].at = "version"
    BY <1>3 DEF ReadVersion, At
  <2>2. CASE version > 0
    <3> DEFINE r == [inst[p] EXCEPT !.read = version, !.at = "check", !.table = 1]
    <3>1. inst' = [inst EXCEPT ![p] = r]
      BY <1>3, <2>2 DEF ReadVersion
    <3>2. version \in NoVersion .. LastVersion /\ 1 \in 0 .. LastVersion
      BY VersionShapes DEF MigrationInv, DatabaseInv, Versions
    <3>3. r \in InstanceRecord /\ r.at = "check" /\ r.table = 1 /\ r.read = version
      BY <1>1, <3>2 DEF InstanceRecord, Places
    <3> HIDE DEF r
    <3>4. r.table \in 1 .. r.read
      BY <2>2, <3>2, <3>3, VersionShapes DEF NoVersion
    <3>5. PlaceOK(r, applied, forced, dropped)
      BY <3>3, <3>4 DEF PlaceOK
    <3> QED
      BY <2>1, <3>1, <3>3, <3>5, PlaceMoves DEF Migrating
  <2>3. CASE ~(version > 0)
    <3>1. inst' = [inst EXCEPT ![p] = [Down EXCEPT !.at = "up"]]
      BY <1>3, <2>3 DEF ReadVersion, GoTo
    <3> QED
      BY <2>1, <3>1, DownShape, OpenPlace, PlaceMoves DEF Places, Migrating
  <2> QED
    BY <2>2, <2>3
<1>4. CASE CheckTable(p)
  <2>1. UNCHANGED <<dbVars, lock, tool, forced, dropped>> /\ inst[p].at = "check"
    BY <1>4 DEF CheckTable, At
  <2>2. CASE inst[p].table \in applied
    BY <1>4, <2>1, <2>2, AfterCheckStep DEF CheckTable
  <2>3. CASE inst[p].table \notin applied
    <3> DEFINE r == [inst[p] EXCEPT !.at = "drop", !.excused = TRUE]
    <3>1. Excused(p) = TRUE
      <4>1. SUFFICES ASSUME ~dirty, version = inst[p].read, forced = {}, ~dropped
                     PROVE  FALSE
        BY DEF Excused
      <4>2. Covered(version, applied, forced, dropped) /\ dropped = FALSE
        BY <4>1 DEF MigrationInv, DatabaseInv
      <4>3. inst[p].table \in 1 .. version
        BY <1>1, <2>1, <4>1 DEF PlaceOK
      <4> QED
        BY <2>3, <4>1, <4>2, <4>3 DEF Covered
    <3>2. inst' = [inst EXCEPT ![p] = r]
      BY <1>4, <2>3, <3>1 DEF CheckTable
    <3>3. r \in InstanceRecord /\ r.at = "drop" /\ r.excused = TRUE
      BY <1>1 DEF InstanceRecord, Places
    <3> HIDE DEF r
    <3>4. PlaceOK(r, applied, forced, dropped)
      BY <3>3 DEF PlaceOK
    <3> QED
      BY <2>1, <3>2, <3>3, <3>4, PlaceMoves DEF Migrating
  <2> QED
    BY <2>2, <2>3
<1>5. CASE ReadFails(p)
  <2>1. UNCHANGED <<dbVars, lock, tool, forced, dropped>>
    BY <1>5 DEF ReadFails
  <2>2. CASE inst[p].at = "version"
    <3>1. inst' = [inst EXCEPT ![p] = [Down EXCEPT !.at = "up"]]
      BY <1>5, <2>2 DEF ReadFails, GoTo, At
    <3> QED
      BY <2>1, <2>2, <3>1, DownShape, OpenPlace, PlaceMoves DEF Places, Migrating
  <2>3. CASE inst[p].at = "check"
    <3>1. AfterCheck(p)
      BY <1>5, <2>3 DEF ReadFails, At
    <3> QED
      BY <2>1, <2>3, <3>1, AfterCheckStep
  <2> QED
    BY <1>5, <2>2, <2>3 DEF ReadFails, At
<1>6. CASE DropFails(p)
  <2>1. UNCHANGED <<dbVars, lock, tool, forced, dropped>>
    BY <1>6 DEF DropFails
  <2>2. CASE inst[p].at = "drop"
    <3>1. AfterCheck(p)
      BY <1>6, <2>2 DEF DropFails, At
    <3> QED
      BY <2>1, <2>2, <3>1, AfterCheckStep
  <2>3. CASE inst[p].at = "corrupt"
    <3>1. inst' = [inst EXCEPT ![p] = [Down EXCEPT !.at = "serving", !.early = TRUE]]
      BY <1>6, <2>3 DEF DropFails, ServeEarly, At
    <3> QED
      BY <2>1, <2>3, <3>1, DownShape, EarlyPlace, PlaceMoves DEF Places, Migrating
  <2> QED
    BY <1>6, <2>2, <2>3 DEF DropFails, At
<1>7. CASE LockTimeout(p) \/ StopInstance(p)
  <2>1. /\ inst' = [inst EXCEPT ![p] = [Down EXCEPT !.at = "down"]]
        /\ UNCHANGED <<dbVars, lock, tool, forced, dropped>>
        /\ inst[p].at \in {"up", "retry", "force", "serving"}
    BY <1>7 DEF LockTimeout, StopInstance, Dies, GoTo, At
  <2> QED
    BY <2>1, DownShape, OpenPlace, PlaceMoves DEF Places, Migrating
<1>8. CASE ExecuteFails(p) \/ CrashInstance(p)
  <2>1. /\ inst' = [inst EXCEPT ![p] = [Down EXCEPT !.at = "down"]]
        /\ UNCHANGED <<dbVars, tool, forced, dropped>>
    BY <1>8 DEF ExecuteFails, CrashInstance, Dies, GoTo
  <2>2. ExecuteFails(p) => lock = p
    BY DEF ExecuteFails, At, MigrationInv, InstanceInv, Migrating
  <2>3. lock' = IF lock = p THEN Nobody ELSE lock
    BY <1>8, <2>2 DEF ExecuteFails, CrashInstance
  <2> QED
    BY <2>1, <2>3, DownShape, OpenPlace, PlaceMoves DEF Places, Migrating
<1>9. CASE RecoverDirty(p)
  <2>1. UNCHANGED <<dbVars, lock, tool, forced, dropped>> /\ inst[p].at = "recover"
    BY <1>9 DEF RecoverDirty, At
  <2>2. CASE dirty
    <3> DEFINE r == [inst[p] EXCEPT !.at = "force", !.read = version]
    <3>1. inst' = [inst EXCEPT ![p] = r]
      BY <1>9, <2>2 DEF RecoverDirty
    <3>2. /\ version \in Versions /\ version \in NoVersion .. LastVersion
          /\ CoveredBelow(version, applied, forced, dropped)
      BY <2>2 DEF MigrationInv, DatabaseInv
    <3>3. r \in InstanceRecord /\ r.at = "force" /\ r.read = version
      BY <1>1, <3>2 DEF InstanceRecord, Places
    <3> HIDE DEF r
    <3>4. PlaceOK(r, applied, forced, dropped)
      BY <3>2, <3>3 DEF PlaceOK
    <3> QED
      BY <2>1, <3>1, <3>3, <3>4, PlaceMoves DEF Migrating
  <2>3. CASE ~dirty /\ version = NoVersion
    <3>1. inst' = [inst EXCEPT ![p] = [Down EXCEPT !.at = "down"]]
      BY <1>9, <2>3 DEF RecoverDirty, Dies, GoTo
    <3> QED
      BY <2>1, <3>1, DownShape, OpenPlace, PlaceMoves DEF Places, Migrating
  <2>4. CASE ~dirty /\ version # NoVersion
    <3>1. inst' = [inst EXCEPT ![p] = [Down EXCEPT !.at = "serving", !.early = TRUE]]
      BY <1>9, <2>4 DEF RecoverDirty, ServeEarly
    <3> QED
      BY <2>1, <3>1, DownShape, EarlyPlace, PlaceMoves DEF Places, Migrating
  <2> QED
    BY <2>2, <2>3, <2>4
<1> QED
  BY <1>2, <1>3, <1>4, <1>5, <1>6, <1>7, <1>8, <1>9

\* Once a drop is recorded, the history claims nothing.
LEMMA DroppedDatabase ==
    ASSUME MigrationInv, dropped' = TRUE, applied' \subseteq applied, forced' = forced,
           data' \in BOOLEAN, data' => 1 \in applied',
           tool' \in {NoTool} \cup 0 .. LastVersion - 1,
           \/ version' = version /\ dirty' = dirty
           \/ version' = NoVersion /\ dirty' = FALSE
    PROVE  DatabaseInv'
<1>1. \A n, a, f : Covered(n, a, f, TRUE) /\ CoveredBelow(n, a, f, TRUE)
  BY DEF Covered, CoveredBelow
<1>2. /\ version' \in NoVersion .. LastVersion /\ dirty' \in BOOLEAN
      /\ dirty' => version' \in Versions
      /\ version' = 0 => forced # {}
  <2>1. CASE version' = version /\ dirty' = dirty
    BY <2>1 DEF MigrationInv, DatabaseInv
  <2>2. CASE version' = NoVersion /\ dirty' = FALSE
    <3>1. version' # 0
      BY <2>2 DEF NoVersion
    <3> QED
      BY <2>2, <3>1, VersionShapes
  <2> QED
    BY <2>1, <2>2
<1>3. applied' \subseteq Versions /\ forced' \subseteq Versions
  BY DEF MigrationInv, DatabaseInv
<1> QED
  BY <1>1, <1>2, <1>3 DEF DatabaseInv

LEMMA DropStep ==
    ASSUME MigrationInv, NEW p \in Instances, DropDatabase(p) \/ DropInterrupted(p)
    PROVE  MigrationInv'
<1>1. /\ dropped' = TRUE /\ UNCHANGED <<lock, tool, forced>>
      /\ inst[p].at \in {"drop", "corrupt"} /\ lock = Nobody
  BY DEF DropDatabase, DropInterrupted, DropTables, At
<1>2. /\ applied' \subseteq applied
      /\ \/ version' = version /\ dirty' = dirty
         \/ version' = NoVersion /\ dirty' = FALSE
  BY DEF DropDatabase, DropInterrupted, DropTables
<1>3. data' \in BOOLEAN /\ (data' => 1 \in applied')
  BY DEF DropDatabase, DropInterrupted, DropTables
<1>4. DatabaseInv'
  BY <1>1, <1>2, <1>3, DroppedDatabase DEF MigrationInv, DatabaseInv
<1>5. PICK s \in {"version", "down"} : inst' = [inst EXCEPT ![p] = [Down EXCEPT !.at = s]]
  BY DEF DropDatabase, DropInterrupted, Dies, GoTo
<1>6. /\ [Down EXCEPT !.at = s] \in InstanceRecord
      /\ [Down EXCEPT !.at = s].at \notin Migrating
      /\ PlaceOK([Down EXCEPT !.at = s], applied', forced', dropped')
  BY DownShape, OpenPlace DEF Places, Migrating
<1>7. lock' # p /\ lock' \in Instances \cup {Nobody}
  BY <1>1, MigrationsAssumption
<1> QED
  BY <1>1, <1>4, <1>5, <1>6, <1>7, InstanceMoves

\* The version that comes next is marked dirty, under the lock.
LEMMA MarkDirtyStep ==
    ASSUME MigrationInv, NEW p \in Instances, NEW v \in Versions, lock \in {Nobody, p},
           Covered(v - 1, applied, forced, dropped), MarkDirty(p, v),
           UNCHANGED <<applied, data, tool, forced, dropped>>
    PROVE  MigrationInv'
<1> DEFINE r == [inst[p] EXCEPT !.at = "exec", !.read = v]
<1>1. version' = v /\ dirty' = TRUE /\ lock' = p /\ inst' = [inst EXCEPT ![p] = r]
  BY DEF MarkDirty
<1>2. inst[p] \in InstanceRecord /\ v \in NoVersion .. LastVersion /\ v # 0 /\ v \in Nat
  BY VersionShapes DEF MigrationInv, InstanceInv, Versions
<1>3. r \in InstanceRecord /\ r.at = "exec" /\ r.read = v
  BY <1>2 DEF InstanceRecord, Places
<1> HIDE DEF r
<1>4. CoveredBelow(v, applied, forced, dropped)
  BY <1>2 DEF Covered, CoveredBelow
<1>5. DatabaseInv'
  BY <1>1, <1>2, <1>4 DEF MigrationInv, DatabaseInv
<1>6. PlaceOK(r, applied', forced', dropped')
  BY <1>3, <1>4 DEF PlaceOK
<1>7. \A q \in Instances : q # p => (lock' = q <=> lock = q)
  BY <1>1, MigrationsAssumption
<1> QED
  BY <1>1, <1>3, <1>5, <1>6, <1>7, InstanceMoves DEF Migrating

LEMMA UpStep ==
    ASSUME MigrationInv, NEW p \in Instances, Up(p)
    PROVE  MigrationInv'
<1>1. /\ inst[p].at \in {"up", "retry"} /\ lock = Nobody
      /\ UNCHANGED <<applied, left, data, tool, forced, dropped>>
  BY DEF Up, At
<1>2. /\ version \in NoVersion .. LastVersion
      /\ ~dirty => Covered(version, applied, forced, dropped)
      /\ version = 0 => forced # {}
  BY DEF MigrationInv, DatabaseInv
<1>3. CASE /\ dirty \/ version = 0
           /\ IF At(p, "retry") THEN Dies(p)
              ELSE GoTo(p, IF dirty THEN "recover" ELSE "corrupt")
           /\ UNCHANGED <<version, dirty, lock>>
  <2>1. PICK s \in {"down", "recover", "corrupt"} :
            /\ inst' = [inst EXCEPT ![p] = [Down EXCEPT !.at = s]]
            /\ s = "corrupt" => version = 0
    BY <1>3 DEF Dies, GoTo
  <2>2. /\ [Down EXCEPT !.at = s] \in InstanceRecord /\ [Down EXCEPT !.at = s].at = s
    BY DownShape DEF Places
  <2>3. PlaceOK([Down EXCEPT !.at = s], applied, forced, dropped)
    BY <1>2, <2>1, <2>2 DEF PlaceOK
  <2> QED
    BY <1>1, <1>3, <2>1, <2>2, <2>3, PlaceMoves DEF Migrating, dbVars
<1>4. CASE ~dirty /\ version = LastVersion /\ GoTo(p, "serving")
           /\ UNCHANGED <<version, dirty, lock>>
  <2>1. inst' = [inst EXCEPT ![p] = [Down EXCEPT !.at = "serving"]]
    BY <1>4 DEF GoTo
  <2>2. /\ [Down EXCEPT !.at = "serving"] \in InstanceRecord
        /\ [Down EXCEPT !.at = "serving"].at = "serving"
    BY DownShape DEF Places
  <2>3. PlaceOK([Down EXCEPT !.at = "serving"], applied, forced, dropped)
    BY <1>2, <1>4, <2>2 DEF PlaceOK
  <2> QED
    BY <1>1, <1>4, <2>1, <2>2, <2>3, PlaceMoves DEF Migrating, dbVars
<1>5. CASE ~dirty /\ version \notin {0, LastVersion}
           /\ MarkDirty(p, IF version = NoVersion THEN 1 ELSE version + 1)
  <2>1. PICK v \in Versions : /\ v = IF version = NoVersion THEN 1 ELSE version + 1
                              /\ v - 1 = IF version = NoVersion THEN 0 ELSE version
    BY <1>2, <1>5, VersionShapes DEF Versions, NoVersion
  <2>2. Covered(v - 1, applied, forced, dropped)
    BY <1>2, <1>5, <2>1, VersionShapes
  <2> QED
    BY <1>1, <1>5, <2>1, <2>2, MarkDirtyStep
<1> QED
  BY <1>3, <1>4, <1>5 DEF Up

LEMMA ExecuteStep ==
    ASSUME MigrationInv, NEW p \in Instances, ExecuteMigration(p)
    PROVE  MigrationInv'
<1> DEFINE r == [inst[p] EXCEPT !.at = "clean"]
<1>1. inst[p] \in InstanceRecord /\ PlaceOK(inst[p], applied, forced, dropped) /\ lock = p
  BY DEF MigrationInv, InstanceInv, ExecuteMigration, At, Migrating
<1>2. /\ inst[p].at = "exec" /\ applied' = applied \cup {inst[p].read}
      /\ inst' = [inst EXCEPT ![p] = r]
      /\ UNCHANGED <<version, dirty, data, lock, tool, forced, dropped>>
  BY DEF ExecuteMigration, At
<1>3. r \in InstanceRecord /\ r.at = "clean" /\ r.read = inst[p].read
  BY <1>1 DEF InstanceRecord, Places
<1> HIDE DEF r
<1>4. PICK v \in Versions : v = inst[p].read /\ CoveredBelow(v, applied, forced, dropped)
  BY <1>1, <1>2 DEF PlaceOK
<1>5. Covered(v, applied', forced', dropped')
  BY <1>2, <1>4 DEF Covered, CoveredBelow
<1>6. PlaceOK(r, applied', forced', dropped')
  BY <1>3, <1>4, <1>5 DEF PlaceOK
<1>7. \A n : /\ Covered(n, applied, forced, dropped) =>
                   Covered(n, applied', forced', dropped')
             /\ CoveredBelow(n, applied, forced, dropped) =>
                   CoveredBelow(n, applied', forced', dropped')
  BY <1>2 DEF Covered, CoveredBelow
<1>8. DatabaseInv'
  BY <1>2, <1>4, <1>7 DEF MigrationInv, DatabaseInv
<1>9. lock' = p /\ r.at \in Migrating /\ applied \subseteq applied'
  BY <1>1, <1>2, <1>3 DEF Migrating
<1> QED
  BY <1>1, <1>2, <1>3, <1>6, <1>8, <1>9, InstanceMoves

LEMMA MarkCleanStep ==
    ASSUME MigrationInv, NEW p \in Instances, MarkClean(p)
    PROVE  MigrationInv'
<1>1. inst[p] \in InstanceRecord /\ PlaceOK(inst[p], applied, forced, dropped) /\ lock = p
  BY DEF MigrationInv, InstanceInv, MarkClean, At, Migrating
<1>2. PICK v \in Versions : v = inst[p].read /\ Covered(v, applied, forced, dropped)
  BY <1>1 DEF PlaceOK, MarkClean, At
<1>3. /\ version' = v /\ dirty' = FALSE
      /\ UNCHANGED <<applied, data, tool, forced, dropped>>
  BY <1>2 DEF MarkClean
<1>4. v \in NoVersion .. LastVersion /\ v # 0
  BY VersionShapes DEF Versions
<1>5. DatabaseInv'
  BY <1>2, <1>3, <1>4 DEF MigrationInv, DatabaseInv
<1>6. CASE v = LastVersion
  <2>1. inst' = [inst EXCEPT ![p] = [Down EXCEPT !.at = "serving"]] /\ lock' = Nobody
    BY <1>2, <1>6 DEF MarkClean, GoTo
  <2>2. /\ [Down EXCEPT !.at = "serving"] \in InstanceRecord
        /\ [Down EXCEPT !.at = "serving"].at = "serving"
    BY DownShape DEF Places
  <2>3. PlaceOK([Down EXCEPT !.at = "serving"], applied', forced', dropped')
    BY <1>2, <1>3, <1>6, <2>2 DEF PlaceOK
  <2>4. /\ \A q \in Instances : q # p => (lock' = q <=> lock = q)
        /\ lock' # p
    BY <1>1, <2>1, MigrationsAssumption
  <2> QED
    BY <1>3, <1>5, <2>1, <2>2, <2>3, <2>4, InstanceMoves DEF Migrating
<1>7. CASE v # LastVersion
  <2> DEFINE r == [inst[p] EXCEPT !.at = "next"]
  <2>1. inst' = [inst EXCEPT ![p] = r] /\ lock' = lock
    BY <1>2, <1>7 DEF MarkClean
  <2>2. r \in InstanceRecord /\ r.at = "next" /\ r.read = v
    BY <1>1, <1>2 DEF InstanceRecord, Places
  <2> HIDE DEF r
  <2>3. v \in 1 .. LastVersion - 1
    BY <1>7, VersionShapes DEF Versions
  <2>4. PlaceOK(r, applied', forced', dropped')
    BY <1>2, <1>3, <2>2, <2>3 DEF PlaceOK
  <2> QED
    BY <1>1, <1>3, <1>5, <2>1, <2>2, <2>4, InstanceMoves DEF Migrating
<1> QED
  BY <1>6, <1>7

LEMMA NextStep ==
    ASSUME MigrationInv, NEW p \in Instances, NextMigration(p)
    PROVE  MigrationInv'
<1>1. PICK n \in 1 .. LastVersion - 1 :
          n = inst[p].read /\ Covered(n, applied, forced, dropped) /\ lock = p
  BY DEF MigrationInv, InstanceInv, PlaceOK, NextMigration, At, Migrating
<1>2. n + 1 \in Versions /\ (n + 1) - 1 = n
  BY VersionShapes DEF Versions
<1> QED
  BY <1>1, <1>2, MarkDirtyStep DEF NextMigration

LEMMA ForceStep ==
    ASSUME MigrationInv, NEW p \in Instances, ForceDirty(p)
    PROVE  MigrationInv'
<1>1. PICK v \in Versions : v = inst[p].read /\ CoveredBelow(v, applied, forced, dropped)
  BY DEF MigrationInv, InstanceInv, PlaceOK, ForceDirty, At
<1>2. /\ inst[p].at = "force" /\ lock = Nobody
      /\ version' = migrationForceVersion(v) /\ dirty' = FALSE
      /\ forced' = forced \cup {v}
      /\ inst' = [inst EXCEPT ![p] = [Down EXCEPT !.at = "retry"]]
      /\ UNCHANGED <<applied, data, lock, tool, dropped>>
  BY <1>1 DEF ForceDirty, At, GoTo
<1>3. version' \in {0, v}
  BY <1>2 DEF migrationForceVersion
<1>4. \A n : Covered(n, applied, forced, dropped) => Covered(n, applied', forced', dropped')
  BY <1>2 DEF Covered
<1>5. Covered(v, applied', forced', dropped')
  BY <1>1, <1>2 DEF Covered, CoveredBelow
<1>6. Covered(version', applied', forced', dropped')
  BY <1>3, <1>5, VersionShapes
<1>7. version' \in NoVersion .. LastVersion
  BY <1>3, VersionShapes DEF NoVersion
<1>8. DatabaseInv'
  BY <1>2, <1>4, <1>6, <1>7 DEF MigrationInv, DatabaseInv
<1>9. lock' # p /\ lock' \in Instances \cup {Nobody}
  BY <1>2, MigrationsAssumption
<1> QED
  BY <1>2, <1>8, <1>9, DownShape, OpenPlace, InstanceMoves DEF Places, Migrating

\* cmd/migrate, which knows nothing of the lock, and the writes of an instance.
LEMMA ToolStep ==
    ASSUME MigrationInv,
           \/ StartTool \/ ApplyMigration \/ ToolFails \/ ResetDatabase
           \/ \E p \in Instances : Serve(p)
    PROVE  MigrationInv'
<1>1. UNCHANGED <<inst, lock, forced>>
  BY DEF StartTool, ApplyMigration, ToolFails, ResetDatabase, Serve
<1>2. CASE StartTool
  <2>1. /\ tool' = (IF version = NoVersion THEN 0 ELSE version) /\ ~dirty
        /\ version # LastVersion
        /\ UNCHANGED <<version, dirty, applied, data, dropped>>
    BY <1>2 DEF StartTool, dbVars
  <2>2. tool' \in 0 .. LastVersion - 1
    BY <2>1, VersionShapes DEF MigrationInv, DatabaseInv, NoVersion
  <2>3. Covered(tool', applied, forced, dropped)
    BY <2>1, VersionShapes DEF MigrationInv, DatabaseInv
  <2>4. DatabaseInv'
    BY <1>1, <2>1, <2>2, <2>3 DEF MigrationInv, DatabaseInv
  <2> QED
    BY <1>1, <2>1, <2>4, InstancesStay
<1>3. CASE ApplyMigration
  <2>1. PICK n \in 0 .. LastVersion - 1 : n = tool
    BY <1>3 DEF ApplyMigration
  <2>2. /\ tool' = (IF n + 1 = LastVersion THEN NoTool ELSE n + 1)
        /\ version' = n + 1 /\ dirty' = FALSE
        /\ applied' = applied \cup {n + 1} /\ UNCHANGED <<data, dropped>>
    BY <1>3, <2>1 DEF ApplyMigration
  <2>3. /\ n + 1 \in Versions /\ n + 1 \in NoVersion .. LastVersion
        /\ tool' \in {NoTool} \cup 0 .. LastVersion - 1 /\ n + 1 # 0
    BY <2>2, VersionShapes DEF Versions, NoVersion
  <2>4. Covered(n + 1, applied', forced', dropped')
    <3>1. Covered(n, applied, forced, dropped)
      BY <2>1 DEF MigrationInv, DatabaseInv
    <3>2. \A v \in 1 .. n + 1 : v \in 1 .. n \/ v = n + 1
      BY VersionShapes
    <3> QED
      BY <1>1, <2>2, <3>1, <3>2 DEF Covered
  <2>6. Covered(tool', applied', forced', dropped')
    BY <2>2, <2>4, VersionShapes
  <2>5. DatabaseInv'
    BY <1>1, <2>2, <2>3, <2>4, <2>6 DEF MigrationInv, DatabaseInv
  <2> QED
    BY <1>1, <2>2, <2>5, InstancesStay
<1>4. CASE ToolFails
  <2>1. tool' = NoTool /\ UNCHANGED <<version, dirty, applied, data, dropped>>
    BY <1>4 DEF ToolFails, dbVars
  <2>2. DatabaseInv'
    BY <1>1, <2>1, VersionShapes DEF MigrationInv, DatabaseInv
  <2> QED
    BY <1>1, <2>1, <2>2, InstancesStay
<1>5. CASE ResetDatabase
  <2>1. /\ version' = NoVersion /\ dirty' = FALSE /\ applied' = {} /\ data' = FALSE
        /\ dropped' = TRUE /\ tool' = 0
    BY <1>5 DEF ResetDatabase, DropTables
  <2>2. tool' \in 0 .. LastVersion - 1
    BY <2>1, VersionShapes
  <2>3. DatabaseInv'
    BY <1>1, <2>1, <2>2, DroppedDatabase
  <2> QED
    BY <1>1, <2>1, <2>3, InstancesStay
<1>6. CASE \E p \in Instances : Serve(p)
  <2>1. data' = TRUE /\ 1 \in applied /\ UNCHANGED <<version, dirty, applied, tool, dropped>>
    BY <1>6 DEF Serve
  <2>2. DatabaseInv'
    BY <1>1, <2>1 DEF MigrationInv, DatabaseInv
  <2> QED
    BY <1>1, <2>1, <2>2, InstancesStay
<1> QED
  BY <1>2, <1>3, <1>4, <1>5, <1>6

LEMMA StepMigration == MigrationInv /\ [MigrationNext]_migrationVars => MigrationInv'
<1> SUFFICES ASSUME MigrationInv, [MigrationNext]_migrationVars PROVE MigrationInv'
  OBVIOUS
<1>1. CASE UNCHANGED migrationVars
  <2>1. DatabaseInv'
    BY <1>1 DEF migrationVars, MigrationInv, DatabaseInv
  <2> QED
    BY <1>1, <2>1, InstancesStay DEF migrationVars
<1>2. ASSUME NEW p \in Instances,
             \/ InstanceStep(p) \/ ReadFails(p) \/ DropInterrupted(p)
             \/ Serve(p) \/ StopInstance(p) \/ CrashInstance(p)
      PROVE  MigrationInv'
  BY <1>2, ReadStep, DropStep, UpStep, ExecuteStep, MarkCleanStep, NextStep, ForceStep,
     ToolStep DEF InstanceStep
<1>3. CASE StartTool \/ ApplyMigration \/ ToolFails \/ ResetDatabase
  BY <1>3, ToolStep
<1> QED
  BY <1>1, <1>2, <1>3 DEF MigrationNext

\* Only migrations leave types and functions.
LEMMA LeftAlways == MigrationSpec => [](left \subseteq Versions)
<1>1. MigrationInit => left \subseteq Versions
  BY DEF MigrationInit
<1>2. ASSUME left \subseteq Versions, [MigrationNext]_migrationVars
      PROVE  left' \subseteq Versions
  <2>1. \/ left' = left \/ left' = {} \/ left' \subseteq left \cup Leavers
    BY <1>2
    DEF MigrationNext, InstanceStep, migrationVars, dbVars, StartInstance, ReadVersion,
        CheckTable, DropDatabase, DropFails, DropInterrupted, Up, LockTimeout,
        ExecuteMigration, ExecuteFails, MarkClean, NextMigration, RecoverDirty, ForceDirty,
        ReadFails, Serve, StopInstance, CrashInstance, StartTool, ApplyMigration, ToolFails,
        ResetDatabase
  <2> QED
    BY <1>2, <2>1, VersionShapes
<1>3. left \subseteq Versions /\ [MigrationNext]_migrationVars => (left \subseteq Versions)'
  BY <1>2
<1> QED
  BY <1>1, <1>3, PTL DEF MigrationSpec

\* runMigrations, recoverDirtyMigration and cmd/migrate: however many instances
\* start, fail and repair at once, a migration that counts as applied and is
\* missing was forced while dirty, and an instance that came up through Up has
\* every other table, until tables are dropped.
THEOREM ServingCorrect == MigrationSpec => []ServingSound
<1>1. ASSUME MigrationInv, left \subseteq Versions PROVE ServingSound
  <2>1. MigrationTypeOK
    BY <1>1 DEF MigrationInv, DatabaseInv, InstanceInv, MigrationTypeOK, Migrating
  <2>2. SkippedWereForced
    <3>1. SUFFICES ASSUME ~dropped, NEW v \in 1 .. version
                   PROVE  v \in applied \/ v \in forced \/ (dirty /\ v = version)
      BY DEF SkippedWereForced
    <3>2. dropped = FALSE /\ dirty \in BOOLEAN
      BY <1>1, <3>1 DEF MigrationInv, DatabaseInv
    <3>3. CASE dirty
      BY <1>1, <3>2, <3>3 DEF MigrationInv, DatabaseInv, CoveredBelow
    <3>4. CASE ~dirty
      BY <1>1, <3>2, <3>4 DEF MigrationInv, DatabaseInv, Covered
    <3> QED
      BY <3>3, <3>4
  <2>3. ServingComplete
    <3>1. SUFFICES ASSUME ~dropped, NEW p \in Instances, At(p, "serving"), ~inst[p].early
                   PROVE  Versions \ applied \subseteq forced
      BY DEF ServingComplete
    <3>2. /\ dropped = FALSE /\ inst[p] \in InstanceRecord
          /\ PlaceOK(inst[p], applied, forced, dropped)
      BY <1>1, <3>1 DEF MigrationInv, DatabaseInv, InstanceInv
    <3>3. inst[p].at = "serving" /\ inst[p].early = FALSE
      BY <3>1, <3>2 DEF At, InstanceRecord
    <3> QED
      BY <3>2, <3>3 DEF PlaceOK, Covered, Versions
  <2> QED
    BY <2>1, <2>2, <2>3 DEF ServingSound
<1> QED
  BY <1>1, InitMigration, StepMigration, LeftAlways, PTL DEF MigrationSpec

\* repairMigrationDrift drops the tables of a database that holds data only when
\* it met an unfinished, moved, forced or dropped version: the tables a clean
\* version stands for are never found missing.
THEOREM DataLossCorrect == MigrationSpec => DataLossExplained
<1> DEFINE Explained ==
             data /\ ~data' =>
               \/ tool = NoTool /\ tool' # NoTool
               \/ \E p \in Instances : At(p, "drop") /\ inst[p].excused
               \/ \E p \in Instances : At(p, "corrupt") /\ forced # {}
<1>1. ASSUME MigrationInv, [MigrationNext]_migrationVars, data, ~data'
      PROVE  \/ tool = NoTool /\ tool' # NoTool
             \/ \E p \in Instances : At(p, "drop") /\ inst[p].excused
             \/ \E p \in Instances : At(p, "corrupt") /\ forced # {}
  <2>1. \/ ResetDatabase
        \/ \E p \in Instances : DropDatabase(p) \/ DropInterrupted(p)
    BY <1>1
    DEF MigrationNext, InstanceStep, migrationVars, dbVars, StartInstance, ReadVersion,
        CheckTable, DropFails, Up, LockTimeout, ExecuteMigration, ExecuteFails, MarkClean,
        NextMigration, RecoverDirty, ForceDirty, ReadFails, Serve, StopInstance,
        CrashInstance, StartTool, ApplyMigration, ToolFails
  <2>2. CASE ResetDatabase
    BY <2>2 DEF ResetDatabase, NoTool
  <2>3. ASSUME NEW p \in Instances, DropDatabase(p) \/ DropInterrupted(p)
        PROVE  \/ At(p, "drop") /\ inst[p].excused
               \/ At(p, "corrupt") /\ forced # {}
    <3>1. At(p, "drop") \/ At(p, "corrupt")
      BY <2>3 DEF DropDatabase, DropInterrupted
    <3>2. PlaceOK(inst[p], applied, forced, dropped)
      BY <1>1 DEF MigrationInv, InstanceInv
    <3> QED
      BY <3>1, <3>2 DEF At, PlaceOK
  <2> QED
    BY <2>1, <2>2, <2>3
<1>2. MigrationInv /\ [MigrationNext]_migrationVars => [Explained]_migrationVars
  BY <1>1
<1> QED
  BY <1>2, InitMigration, StepMigration, PTL DEF MigrationSpec, DataLossExplained

-----------------------------------------------------------------------------
(* CheckDigits: weighted sums.                                             *)

\* s holds the partial sums of the first k products.
Sums(s, n, w, k) ==
    s = [i \in 0 .. k |-> IF i = 0 THEN 0 ELSE s[i - 1] + n[i] * w[i]]

LEMMA SumsExist ==
    ASSUME NEW n, NEW w
    PROVE  \A k \in Nat : \E s : Sums(s, n, w, k)
<1> DEFINE T == {k \in Nat : \E s : Sums(s, n, w, k)}
<1>1. 0 \in T
  <2>1. \A i \in 0 .. 0 : i = 0
    OBVIOUS
  <2>2. Sums([i \in 0 .. 0 |-> 0], n, w, 0)
    BY <2>1 DEF Sums
  <2> QED
    BY <2>2
<1>2. ASSUME NEW k \in Nat, k \in T PROVE k + 1 \in T
  <2>1. PICK s : Sums(s, n, w, k)
    BY <1>2
  <2>2. PICK t : t = [i \in 0 .. k + 1 |-> IF i = 0 THEN 0 ELSE s[i - 1] + n[i] * w[i]]
    OBVIOUS
  <2>3. \A i \in 0 .. k : t[i] = s[i]
    <3>1. \A i \in 0 .. k : i \in 0 .. k + 1
      OBVIOUS
    <3>2. \A i \in 0 .. k : s[i] = IF i = 0 THEN 0 ELSE s[i - 1] + n[i] * w[i]
      BY <2>1 DEF Sums
    <3> QED
      BY <2>2, <3>1, <3>2
  <2>4. \A i \in 0 .. k + 1 : i # 0 => i - 1 \in 0 .. k
    OBVIOUS
  <2>5. \A i \in 0 .. k + 1 : (IF i = 0 THEN 0 ELSE s[i - 1] + n[i] * w[i])
                              = (IF i = 0 THEN 0 ELSE t[i - 1] + n[i] * w[i])
    BY <2>3, <2>4
  <2>6. Sums(t, n, w, k + 1)
    BY <2>2, <2>5 DEF Sums
  <2> QED
    BY <2>6
<1> HIDE DEF T
<1>3. \A k \in Nat : k \in T
  BY <1>1, <1>2, SetInduction
<1> QED
  BY <1>3 DEF T

\* The recursion of WeightedSum.
LEMMA SumUnfolds ==
    ASSUME NEW n, NEW w, Len(w) \in Nat
    PROVE  \E s : /\ WeightedSum(n, w) = s[Len(w)] /\ s[0] = 0
                  /\ \A k \in Nat : k + 1 <= Len(w) => s[k + 1] = s[k] + n[k + 1] * w[k + 1]
<1>1. PICK s : s = CHOOSE t : Sums(t, n, w, Len(w))
  OBVIOUS
<1>2. Sums(s, n, w, Len(w))
  <2>1. \E t : Sums(t, n, w, Len(w))
    BY SumsExist
  <2> QED
    BY <1>1, <2>1
<1>3. WeightedSum(n, w) = s[Len(w)]
  BY <1>1 DEF WeightedSum, Sums
<1>4. \A i \in 0 .. Len(w) : s[i] = IF i = 0 THEN 0 ELSE s[i - 1] + n[i] * w[i]
  BY <1>2 DEF Sums
<1>5. 0 \in 0 .. Len(w)
      /\ \A k \in Nat : k + 1 <= Len(w) => k + 1 \in 0 .. Len(w) /\ k + 1 # 0 /\ (k + 1) - 1 = k
  OBVIOUS
<1> QED
  BY <1>3, <1>4, <1>5

\* Digits 1 .. k of a number, and weights.
Numbers(n, k) == \A i \in 1 .. k : n[i] \in Nat

LEMMA SumType ==
    ASSUME NEW n, NEW w, Len(w) \in Nat, Numbers(n, Len(w)), Numbers(w, Len(w))
    PROVE  WeightedSum(n, w) \in Nat
<1>1. PICK s : /\ WeightedSum(n, w) = s[Len(w)] /\ s[0] = 0
               /\ \A k \in Nat : k + 1 <= Len(w) => s[k + 1] = s[k] + n[k + 1] * w[k + 1]
  BY SumUnfolds
<1> DEFINE T == {k \in Nat : k <= Len(w) => s[k] \in Nat}
<1>2. 0 \in T
  BY <1>1
<1>3. ASSUME NEW k \in Nat, k \in T PROVE k + 1 \in T
  <2>1. SUFFICES ASSUME k + 1 <= Len(w) PROVE s[k + 1] \in Nat
    OBVIOUS
  <2>2. n[k + 1] \in Nat /\ w[k + 1] \in Nat
    BY <2>1 DEF Numbers
  <2>3. s[k] \in Nat
    BY <1>3, <2>1
  <2>4. \A a, b, c \in Nat : a + b * c \in Nat
    OBVIOUS
  <2>5. s[k] + n[k + 1] * w[k + 1] \in Nat
    BY <2>2, <2>3, <2>4
  <2> QED
    BY <1>1, <2>1, <2>5
<1> HIDE DEF T
<1>4. \A k \in Nat : k \in T
  BY <1>2, <1>3, SetInduction
<1> QED
  BY <1>1, <1>4 DEF T

\* One digit is changed, or, with m[i] = n[i], none.
LEMMA SumShifts ==
    ASSUME NEW n, NEW m, NEW w, Len(w) \in Nat, Numbers(w, Len(w)),
           Numbers(n, Len(w)), Numbers(m, Len(w)), NEW i \in 1 .. Len(w),
           \A j \in 1 .. Len(w) : j # i => m[j] = n[j]
    PROVE  WeightedSum(m, w) = WeightedSum(n, w) + (m[i] - n[i]) * w[i]
<1>1. PICK s : /\ WeightedSum(n, w) = s[Len(w)] /\ s[0] = 0
               /\ \A k \in Nat : k + 1 <= Len(w) => s[k + 1] = s[k] + n[k + 1] * w[k + 1]
  BY SumUnfolds
<1>2. PICK t : /\ WeightedSum(m, w) = t[Len(w)] /\ t[0] = 0
               /\ \A k \in Nat : k + 1 <= Len(w) => t[k + 1] = t[k] + m[k + 1] * w[k + 1]
  BY SumUnfolds
<1>3. PICK x \in Int : x = (m[i] - n[i]) * w[i] /\ m[i] * w[i] = n[i] * w[i] + x
  <2>1. \A a, b, c \in Nat : (a - b) * c \in Int /\ a * c = b * c + (a - b) * c
    OBVIOUS
  <2>2. m[i] \in Nat /\ n[i] \in Nat /\ w[i] \in Nat
    BY DEF Numbers
  <2> QED
    BY <2>1, <2>2
<1> DEFINE T == {k \in Nat : k <= Len(w) =>
                     /\ s[k] \in Nat /\ t[k] \in Int
                     /\ t[k] = IF k < i THEN s[k] ELSE s[k] + x}
<1>4. 0 \in T
  BY <1>1, <1>2
<1>5. ASSUME NEW k \in Nat, k \in T PROVE k + 1 \in T
  <2>1. SUFFICES ASSUME k + 1 <= Len(w)
                 PROVE  /\ s[k + 1] \in Nat /\ t[k + 1] \in Int
                        /\ t[k + 1] = IF k + 1 < i THEN s[k + 1] ELSE s[k + 1] + x
    OBVIOUS
  <2>2. k <= Len(w) /\ k + 1 \in 1 .. Len(w)
    BY <2>1
  <2>3. /\ s[k] \in Nat /\ t[k] \in Int
        /\ t[k] = IF k < i THEN s[k] ELSE s[k] + x
    BY <1>5, <2>2
  <2>4. PICK p \in Nat, q \in Nat : p = n[k + 1] * w[k + 1] /\ q = m[k + 1] * w[k + 1]
    <3>1. \A a, b \in Nat : a * b \in Nat
      OBVIOUS
    <3>2. n[k + 1] \in Nat /\ w[k + 1] \in Nat /\ m[k + 1] \in Nat
      BY <2>2 DEF Numbers
    <3> QED
      BY <3>1, <3>2
  <2>5. s[k + 1] = s[k] + p /\ t[k + 1] = t[k] + q
    BY <1>1, <1>2, <2>1, <2>4
  <2>6. q = IF k + 1 = i THEN p + x ELSE p
    BY <1>3, <2>2, <2>4
  <2> QED
    BY <2>3, <2>5, <2>6
<1> HIDE DEF T
<1>6. Len(w) \in T
  BY <1>4, <1>5, SetInduction
<1>7. ~(Len(w) < i)
  OBVIOUS
<1> QED
  BY <1>1, <1>2, <1>3, <1>6, <1>7 DEF T

LEMMA SumSame ==
    ASSUME NEW n, NEW m, NEW w, Len(w) \in Nat \ {0}, Numbers(w, Len(w)),
           Numbers(n, Len(w)), \A j \in 1 .. Len(w) : m[j] = n[j]
    PROVE  WeightedSum(m, w) = WeightedSum(n, w)
<1>1. /\ Numbers(m, Len(w)) /\ 1 \in 1 .. Len(w) /\ m[1] \in Nat /\ n[1] = m[1]
      /\ w[1] \in Nat
  BY DEF Numbers
<1>2. WeightedSum(m, w) = WeightedSum(n, w) + (m[1] - n[1]) * w[1]
  BY <1>1, SumShifts
<1>3. WeightedSum(n, w) \in Nat
  BY SumType
<1>4. (m[1] - n[1]) * w[1] = 0
  <2>1. \A a, b \in Nat : (a - a) * b = 0
    OBVIOUS
  <2> QED
    BY <1>1, <2>1
<1> QED
  BY <1>2, <1>3, <1>4

-----------------------------------------------------------------------------
(* CheckDigits: remainders modulo 11.                                      *)

\* The digit for the sum x.
DigitFor(x) == IF x % 11 >= 2 THEN 11 - (x % 11) ELSE 0

LEMMA Remainder ==
    ASSUME NEW x \in Nat
    PROVE  /\ x % 11 \in 0 .. 10
           /\ \E q \in Nat : x = 11 * q + (x % 11)
<1>1. x % 11 \in 0 .. 10
  OBVIOUS
<1>2. x \div 11 \in Nat /\ x = 11 * (x \div 11) + (x % 11)
  OBVIOUS
<1> QED
  BY <1>1, <1>2

LEMMA RemainderUnique ==
    ASSUME NEW q \in Nat, NEW r \in 0 .. 10
    PROVE  (11 * q + r) % 11 = r
  OBVIOUS

\* It completes the sum to a multiple of 11, unless that takes a 10.
LEMMA DigitFits ==
    ASSUME NEW x \in Nat
    PROVE  /\ DigitFor(x) \in 0 .. 9
           /\ \/ (x + DigitFor(x)) % 11 = 0
              \/ DigitFor(x) = 0 /\ \A d \in 0 .. 9 : (x + d) % 11 # 0
<1>1. PICK q \in Nat, r \in 0 .. 10 : x = 11 * q + r /\ x % 11 = r
  BY Remainder
<1>2. CASE r >= 2
  <2>1. DigitFor(x) = 11 - r /\ x + (11 - r) = 11 * (q + 1) + 0
    BY <1>1, <1>2 DEF DigitFor
  <2>2. (11 * (q + 1) + 0) % 11 = 0
    BY RemainderUnique
  <2> QED
    BY <1>2, <2>1, <2>2
<1>3. CASE r = 0
  BY <1>1, <1>3 DEF DigitFor
<1>4. CASE r = 1
  <2>1. DigitFor(x) = 0
    BY <1>1, <1>4 DEF DigitFor
  <2>2. ASSUME NEW d \in 0 .. 9 PROVE (x + d) % 11 # 0
    <3>1. x + d = 11 * q + (1 + d) /\ 1 + d \in 0 .. 10
      BY <1>1, <1>4
    <3>2. (11 * q + (1 + d)) % 11 = 1 + d
      BY <3>1, RemainderUnique
    <3> QED
      BY <3>1, <3>2
  <2> QED
    BY <2>1, <2>2
<1> QED
  BY <1>2, <1>3, <1>4

\* Eleven is prime: a changed digit with a weight below 11 changes the remainder.
LEMMA NoMultiple ==
    ASSUME NEW a \in 0 .. 9, NEW b \in 0 .. 9, a # b, NEW w \in 2 .. 10, NEW z \in Int
    PROVE  (b - a) * w # 11 * z
<1>1. PICK y \in -9 .. 9 : y = b - a /\ y # 0
  OBVIOUS
<1>2. CASE w = 2
  BY <1>1, <1>2
<1>3. CASE w = 3
  BY <1>1, <1>3
<1>4. CASE w = 4
  BY <1>1, <1>4
<1>5. CASE w = 5
  BY <1>1, <1>5
<1>6. CASE w = 6
  BY <1>1, <1>6
<1>7. CASE w = 7
  BY <1>1, <1>7
<1>8. CASE w = 8
  BY <1>1, <1>8
<1>9. CASE w = 9
  BY <1>1, <1>9
<1>10. CASE w = 10
  BY <1>1, <1>10
<1> QED
  BY <1>2, <1>3, <1>4, <1>5, <1>6, <1>7, <1>8, <1>9, <1>10

\* Two sums that differ by one mistyped digit share their check digit only if it
\* is 0.
LEMMA SharedDigit ==
    ASSUME NEW x \in Nat, NEW v \in Nat, NEW a \in 0 .. 9, NEW b \in 0 .. 9, a # b,
           NEW w \in 2 .. 10, v = x + (b - a) * w, DigitFor(x) = DigitFor(v)
    PROVE  DigitFor(x) = 0
<1>1. PICK q \in Nat, r \in 0 .. 10 : x = 11 * q + r /\ x % 11 = r
  BY Remainder
<1>2. PICK p \in Nat, t \in 0 .. 10 : v = 11 * p + t /\ v % 11 = t
  BY Remainder
<1>3. SUFFICES ASSUME DigitFor(x) # 0 PROVE FALSE
  OBVIOUS
<1>4. r = t
  BY <1>1, <1>2, <1>3 DEF DigitFor
<1>5. PICK y \in Int : y = (b - a) * w
  OBVIOUS
<1>6. y = 11 * (p - q)
  BY <1>1, <1>2, <1>4, <1>5
<1> QED
  BY <1>5, <1>6, NoMultiple

-----------------------------------------------------------------------------
(* CheckDigits: what validation accepts.                                   *)

NumberKinds == {"CPF", "CNPJ"}

Decimals == 0 .. 9

DigitNumber(k, n) == n \in Seq(Decimals) /\ Len(n) = Length(k) + 2

\* Only the first digit of a CPF has a weight of 11, in the second sum.
LEMMA WeightsType ==
    ASSUME NEW k \in NumberKinds, NEW p \in {Length(k), Length(k) + 1}
    PROVE  /\ p \in Nat \ {0} /\ Len(Weights(k, p)) = p
           /\ \A i \in 1 .. p : /\ Weights(k, p)[i] \in 2 .. 11
                                /\ Weights(k, p)[i] = 11 => k = "CPF" /\ i = 1 /\ p # Length(k)
<1>1. CASE k = "CPF"
  <2>1. p \in {9, 10} /\ Weights(k, p) = [i \in 1 .. p |-> p + 2 - i] /\ Length(k) = 9
    BY <1>1 DEF Length, Weights, CpfWeights
  <2>2. [i \in 1 .. p |-> p + 2 - i] \in Seq(Nat) /\ Len([i \in 1 .. p |-> p + 2 - i]) = p
    <3>1. [i \in 1 .. p |-> p + 2 - i] \in [1 .. p -> Nat]
      BY <2>1
    <3> QED
      BY <2>1, <3>1
  <2>3. \A i \in 1 .. p : p + 2 - i \in 2 .. 11 /\ (p + 2 - i = 11 => i = 1 /\ p # 9)
    BY <2>1
  <2> QED
    BY <1>1, <2>1, <2>2, <2>3
<1>2. CASE k = "CNPJ" /\ p = 12
  <2>1. Weights(k, p) = <<5, 4, 3, 2, 9, 8, 7, 6, 5, 4, 3, 2>>
    BY <1>2 DEF Weights, CnpjWeights
  <2>2. Len(<<5, 4, 3, 2, 9, 8, 7, 6, 5, 4, 3, 2>>) = 12
        /\ \A i \in 1 .. 12 : <<5, 4, 3, 2, 9, 8, 7, 6, 5, 4, 3, 2>>[i] \in 2 .. 10
    OBVIOUS
  <2> QED
    BY <1>2, <2>1, <2>2
<1>3. CASE k = "CNPJ" /\ p # 12
  <2>1. p = 13 /\ Weights(k, p) = <<6, 5, 4, 3, 2, 9, 8, 7, 6, 5, 4, 3, 2>>
    BY <1>3 DEF Length, Weights, CnpjWeights
  <2>2. Len(<<6, 5, 4, 3, 2, 9, 8, 7, 6, 5, 4, 3, 2>>) = 13
        /\ \A i \in 1 .. 13 : <<6, 5, 4, 3, 2, 9, 8, 7, 6, 5, 4, 3, 2>>[i] \in 2 .. 10
    OBVIOUS
  <2> QED
    BY <1>3, <2>1, <2>2
<1> QED
  BY <1>1, <1>2, <1>3 DEF NumberKinds

\* The sum for the check digit behind the first p digits.
LEMMA SumOf ==
    ASSUME NEW k \in NumberKinds, NEW p \in {Length(k), Length(k) + 1}, NEW n, Numbers(n, p)
    PROVE  /\ Numbers(Weights(k, p), Len(Weights(k, p)))
           /\ Numbers(n, Len(Weights(k, p)))
           /\ WeightedSum(n, Weights(k, p)) \in Nat
           /\ ExpectedDigit(n, Weights(k, p)) = DigitFor(WeightedSum(n, Weights(k, p)))
           /\ ExpectedDigit(n, Weights(k, p)) \in Decimals
<1>1. Len(Weights(k, p)) = p /\ Numbers(Weights(k, p), p) /\ p \in Nat
  <2>1. /\ Len(Weights(k, p)) = p /\ p \in Nat
        /\ \A i \in 1 .. p : Weights(k, p)[i] \in 2 .. 11
    BY WeightsType
  <2>2. \A x \in 2 .. 11 : x \in Nat
    OBVIOUS
  <2> QED
    BY <2>1, <2>2 DEF Numbers
<1>2. WeightedSum(n, Weights(k, p)) \in Nat
  BY <1>1, SumType
<1>3. ExpectedDigit(n, Weights(k, p)) = DigitFor(WeightedSum(n, Weights(k, p)))
  BY DEF ExpectedDigit, DigitFor
<1> QED
  BY <1>1, <1>2, <1>3, DigitFits DEF Decimals

LEMMA NumberDigits ==
    ASSUME NEW k \in NumberKinds, NEW n, DigitNumber(k, n)
    PROVE  /\ Length(k) \in {9, 12} /\ DOMAIN n = 1 .. Length(k) + 2
           /\ \A i \in 1 .. Length(k) + 2 : n[i] \in 0 .. 9
           /\ \A p \in {Length(k), Length(k) + 1} : Numbers(n, p)
<1>1. Length(k) \in {9, 12}
  BY DEF NumberKinds, Length
<1>2. DOMAIN n = 1 .. Length(k) + 2 /\ \A i \in 1 .. Length(k) + 2 : n[i] \in 0 .. 9
  BY <1>1 DEF DigitNumber, Decimals
<1>3. \A p \in {Length(k), Length(k) + 1} : \A i \in 1 .. p : i \in 1 .. Length(k) + 2
  BY <1>1
<1> QED
  BY <1>1, <1>2, <1>3 DEF Numbers

\* A valid number ends with the digits for its two sums.
LEMMA ValidDigits ==
    ASSUME NEW k \in NumberKinds, NEW n, DigitNumber(k, n), Validate(k, n),
           NEW p \in {Length(k), Length(k) + 1}
    PROVE  /\ WeightedSum(n, Weights(k, p)) \in Nat
           /\ n[p + 1] = DigitFor(WeightedSum(n, Weights(k, p)))
<1>1. Numbers(n, p)
  BY NumberDigits
<1>2. n[p + 1] = ExpectedDigit(n, Weights(k, p))
  BY DEF Validate, validateCheckDigit
<1> QED
  BY <1>1, <1>2, SumOf

\* The digit at i is mistyped and the check digit behind position p >= i agrees.
LEMMA TypoBefore ==
    ASSUME NEW k \in NumberKinds, NEW n, NEW m, DigitNumber(k, n), DigitNumber(k, m),
           Validate(k, n), Validate(k, m), NEW p \in {Length(k), Length(k) + 1},
           NEW i \in 1 .. p, m[i] # n[i],
           \A j \in 1 .. Length(k) + 2 : j # i => m[j] = n[j]
    PROVE  n[p + 1] = 0 \/ (k = "CPF" /\ i = 1 /\ p # Length(k))
<1>1. SUFFICES ASSUME Weights(k, p)[i] # 11 PROVE n[p + 1] = 0
  BY WeightsType
<1>2. p \in Nat /\ Len(Weights(k, p)) = p /\ Weights(k, p)[i] \in 2 .. 10
  BY <1>1, WeightsType
<1>3. /\ Length(k) \in {9, 12} /\ n[i] \in 0 .. 9 /\ m[i] \in 0 .. 9
      /\ Numbers(n, p) /\ Numbers(m, p)
  BY NumberDigits
<1>4. \A j \in 1 .. p : j \in 1 .. Length(k) + 2
  BY <1>3
<1>5. /\ WeightedSum(n, Weights(k, p)) \in Nat /\ WeightedSum(m, Weights(k, p)) \in Nat
      /\ n[p + 1] = DigitFor(WeightedSum(n, Weights(k, p)))
      /\ m[p + 1] = DigitFor(WeightedSum(m, Weights(k, p)))
  BY ValidDigits
<1>6. m[p + 1] = n[p + 1]
  <2>1. p + 1 \in 1 .. Length(k) + 2 /\ p + 1 # i
    BY <1>2, <1>3
  <2> QED
    BY <2>1
<1>7. WeightedSum(m, Weights(k, p))
      = WeightedSum(n, Weights(k, p)) + (m[i] - n[i]) * Weights(k, p)[i]
  <2>1. Numbers(Weights(k, p), Len(Weights(k, p)))
    BY <1>3, SumOf
  <2>2. \A j \in 1 .. p : j # i => m[j] = n[j]
    BY <1>4
  <2>3. PICK w : w = Weights(k, p)
    OBVIOUS
  <2>4. /\ Len(w) = p /\ Numbers(w, Len(w)) /\ Numbers(n, Len(w)) /\ Numbers(m, Len(w))
        /\ i \in 1 .. Len(w)
    BY <1>2, <1>3, <2>1, <2>3
  <2>5. WeightedSum(m, w) = WeightedSum(n, w) + (m[i] - n[i]) * w[i]
    BY <1>2, <2>2, <2>4, SumShifts
  <2> QED
    BY <2>3, <2>5
<1> QED
  BY <1>2, <1>3, <1>5, <1>6, <1>7, SharedDigit

\* A mistyped check digit is not the digit for its sum.
LEMMA TypoBehind ==
    ASSUME NEW k \in NumberKinds, NEW n, NEW m, DigitNumber(k, n), DigitNumber(k, m),
           Validate(k, n), Validate(k, m), NEW p \in {Length(k), Length(k) + 1},
           \A j \in 1 .. p : m[j] = n[j]
    PROVE  m[p + 1] = n[p + 1]
<1>1. p \in Nat \ {0} /\ Len(Weights(k, p)) = p
  BY WeightsType
<1>2. Numbers(n, p) /\ Numbers(Weights(k, p), p)
  BY <1>1, NumberDigits, SumOf
<1>3. WeightedSum(m, Weights(k, p)) = WeightedSum(n, Weights(k, p))
  BY <1>1, <1>2, SumSame
<1> QED
  BY <1>3, ValidDigits

LEMMA TypoSeen ==
    ASSUME NEW k \in NumberKinds, NEW n, NEW m, DigitNumber(k, n), DigitNumber(k, m),
           Validate(k, n), Validate(k, m), NEW i \in 1 .. Length(k) + 2, m[i] # n[i],
           \A j \in 1 .. Length(k) + 2 : j # i => m[j] = n[j]
    PROVE  n[Length(k) + 1] = 0 /\ (n[Length(k) + 2] = 0 \/ (k = "CPF" /\ i = 1))
<1>1. Length(k) \in {9, 12}
  BY DEF NumberKinds, Length
<1>2. i # Length(k) + 2
  <2>1. CASE i = Length(k) + 2
    <3>1. \A j \in 1 .. Length(k) + 1 : j \in 1 .. Length(k) + 2 /\ j # i
      BY <1>1, <2>1
    <3>2. m[(Length(k) + 1) + 1] = n[(Length(k) + 1) + 1]
      BY <3>1, TypoBehind
    <3> QED
      BY <1>1, <2>1, <3>2
  <2> QED
    BY <2>1
<1>3. i # Length(k) + 1
  <2>1. CASE i = Length(k) + 1
    <3>1. \A j \in 1 .. Length(k) : j \in 1 .. Length(k) + 2 /\ j # i
      BY <1>1, <2>1
    <3>2. m[Length(k) + 1] = n[Length(k) + 1]
      BY <3>1, TypoBehind
    <3> QED
      BY <2>1, <3>2
  <2> QED
    BY <2>1
<1>4. i \in 1 .. Length(k) /\ i \in 1 .. Length(k) + 1
  BY <1>1, <1>2, <1>3
<1>5. n[Length(k) + 1] = 0
  BY <1>4, TypoBefore
<1>6. n[(Length(k) + 1) + 1] = 0 \/ (k = "CPF" /\ i = 1)
  BY <1>4, TypoBefore
<1> QED
  BY <1>1, <1>5, <1>6

LEMMA OneMore ==
    ASSUME NEW b \in Seq(Decimals), NEW l \in Nat, Len(b) = l, NEW c \in Decimals,
           NEW e, e = Append(b, c)
    PROVE  /\ e \in Seq(Decimals) /\ Len(e) = l + 1 /\ e[l + 1] = c
           /\ \A i \in 1 .. l : e[i] = b[i]
  OBVIOUS

LEMMA FunctionIsSeq ==
    ASSUME NEW l \in Nat, NEW f \in [1 .. l -> Decimals]
    PROVE  f \in Seq(Decimals) /\ Len(f) = l
  OBVIOUS

LEMMA Joined ==
    ASSUME NEW a \in Seq(Decimals), NEW b \in Seq(Decimals)
    PROVE  /\ a \o b \in Seq(Decimals) /\ Len(a \o b) = Len(a) + Len(b)
           /\ \A i \in 1 .. Len(b) : (a \o b)[Len(a) + i] = b[i]
  OBVIOUS

LEMMA BaseTypes ==
    /\ \A b \in Bases("CPF") : b \in Seq(Decimals) /\ Len(b) = 9
    /\ \A b \in Bases("CNPJ") : b \in Seq(Decimals) /\ Len(b) = 12 /\ b[11] = 0 /\ b[12] = 1
<1>1. ASSUME NEW b \in Bases("CPF") PROVE b \in Seq(Decimals) /\ Len(b) = 9
  <2>1. b \in [1 .. 9 -> Decimals]
    BY BaseDigitsAssumption DEF Bases, Decimals
  <2> QED
    BY <2>1, FunctionIsSeq
<1>2. ASSUME NEW b \in Bases("CNPJ")
      PROVE  b \in Seq(Decimals) /\ Len(b) = 12 /\ b[11] = 0 /\ b[12] = 1
  <2>1. PICK a \in [1 .. 8 -> BaseDigits] : b = a \o <<0, 0, 0, 1>>
    BY DEF Bases
  <2>2. a \in Seq(Decimals) /\ Len(a) = 8
    <3>1. a \in [1 .. 8 -> Decimals]
      BY BaseDigitsAssumption DEF Decimals
    <3> QED
      BY <3>1, FunctionIsSeq
  <2>3. PICK e : e = <<0, 0, 0, 1>>
    OBVIOUS
  <2>4. e \in Seq(Decimals) /\ Len(e) = 4 /\ e[3] = 0 /\ e[4] = 1
    <3>1. 0 \in Decimals /\ 1 \in Decimals
      BY DEF Decimals
    <3>2. \A S : 0 \in S /\ 1 \in S => <<0, 0, 0, 1>> \in Seq(S)
      OBVIOUS
    <3> QED
      BY <2>3, <3>1, <3>2
  <2>5. /\ a \o e \in Seq(Decimals) /\ Len(a \o e) = Len(a) + Len(e)
        /\ \A i \in 1 .. Len(e) : (a \o e)[Len(a) + i] = e[i]
    BY <2>2, <2>4, Joined
  <2>6. /\ (a \o e)[8 + 3] = e[3] /\ (a \o e)[8 + 4] = e[4] /\ Len(a \o e) = 8 + 4
    BY <2>2, <2>4, <2>5
  <2>7. 8 + 3 = 11 /\ 8 + 4 = 12
    OBVIOUS
  <2> QED
    BY <2>1, <2>3, <2>4, <2>5, <2>6, <2>7
<1> QED
  BY <1>1, <1>2

LEMMA DigitsAreNumbers ==
    ASSUME NEW n \in Seq(Decimals), NEW l \in Nat, Len(n) = l
    PROVE  Numbers(n, l)
<1>1. \A i \in 1 .. l : n[i] \in Decimals
  OBVIOUS
<1>2. \A x \in Decimals : x \in Nat
  BY DEF Decimals
<1> QED
  BY <1>1, <1>2 DEF Numbers

\* NewCPF is given digits.
LEMMA CompleteDigits ==
    ASSUME NEW base \in Bases("CPF")
    PROVE  DigitNumber("CPF", Complete(base))
<1>1. /\ "CPF" \in NumberKinds /\ Length("CPF") = 9
      /\ Weights("CPF", 9) = CpfWeights(9) /\ Weights("CPF", 10) = CpfWeights(10)
  BY DEF NumberKinds, Length, Weights
<1>2. PICK l \in Nat : l = 9
  OBVIOUS
<1>3. PICK b \in Seq(Decimals) : b = base /\ Len(b) = l
  BY <1>2, BaseTypes
<1>4. Numbers(b, 9)
  BY <1>2, <1>3, DigitsAreNumbers
<1>5. PICK c \in Decimals : c = ExpectedDigit(b, CpfWeights(9))
  BY <1>1, <1>4, SumOf
<1>6. PICK e : e = Append(b, c)
  OBVIOUS
<1>7. e \in Seq(Decimals) /\ Len(e) = l + 1
  BY <1>3, <1>5, <1>6, OneMore
<1>8. Numbers(e, 10)
  <2>1. l + 1 \in Nat /\ l + 1 = 10
    BY <1>2
  <2>2. Numbers(e, l + 1)
    BY <1>7, <2>1, DigitsAreNumbers
  <2> QED
    BY <2>1, <2>2
<1>9. PICK d \in Decimals : d = ExpectedDigit(e, CpfWeights(10))
  <2>1. 10 = Length("CPF") + 1
    BY <1>1
  <2> QED
    BY <1>1, <1>8, <2>1, SumOf
<1>10. PICK f : f = Append(e, d)
  OBVIOUS
<1>11. f \in Seq(Decimals) /\ Len(f) = (l + 1) + 1
  <2>1. l + 1 \in Nat
    BY <1>2
  <2> QED
    BY <1>7, <1>9, <1>10, <2>1, OneMore
<1>12. Complete(base) = f
  BY <1>3, <1>5, <1>6, <1>9, <1>10 DEF Complete
<1>13. (l + 1) + 1 = Length("CPF") + 2
  BY <1>1, <1>2
<1> QED
  BY <1>11, <1>12, <1>13 DEF DigitNumber

\* The two computations of a check digit agree.
LEMMA SameComputation ==
    ASSUME NEW p \in {12, 13}, NEW n, Numbers(n, p)
    PROVE  /\ calculateCheckDigit(n, p) = ExpectedDigit(n, Weights("CNPJ", p))
           /\ ExpectedDigit(n, Weights("CNPJ", p)) \in Decimals
<1>1. "CNPJ" \in NumberKinds /\ p \in {Length("CNPJ"), Length("CNPJ") + 1}
      /\ Weights("CNPJ", p) = CnpjWeights(p)
  BY DEF NumberKinds, Length, Weights
<1>2. PICK x \in Nat : x = WeightedSum(n, CnpjWeights(p))
  BY <1>1, SumOf
<1>3. x % 11 \in 0 .. 10
  BY Remainder
<1>4. calculateCheckDigit(n, p) = ExpectedDigit(n, CnpjWeights(p))
  BY <1>2, <1>3 DEF calculateCheckDigit, ExpectedDigit
<1> QED
  BY <1>1, <1>4, SumOf

LEMMA GeneratedValid ==
    ASSUME NEW base \in Bases("CNPJ")
    PROVE  /\ DigitNumber("CNPJ", generateCNPJ(base))
           /\ Validate("CNPJ", generateCNPJ(base))
<1>1. "CNPJ" \in NumberKinds /\ Length("CNPJ") = 12
  BY DEF NumberKinds, Length
<1>a. PICK l \in Nat : l = 12
  OBVIOUS
<1>b. PICK b \in Seq(Decimals) : b = base /\ Len(b) = l
  BY <1>a, BaseTypes
<1>2. Numbers(b, 12)
  BY <1>a, <1>b, DigitsAreNumbers
<1>3. PICK c \in Decimals : /\ c = calculateCheckDigit(b, 12)
                            /\ c = ExpectedDigit(b, Weights("CNPJ", 12))
  BY <1>2, SameComputation
<1>4. PICK e : e = Append(b, c)
  OBVIOUS
<1>c. /\ e \in Seq(Decimals) /\ Len(e) = l + 1 /\ e[l + 1] = c
      /\ \A i \in 1 .. l : e[i] = b[i]
  BY <1>3, <1>4, <1>b, OneMore
<1>5. Numbers(e, 13)
  <2>1. l + 1 \in Nat /\ l + 1 = 13
    BY <1>a
  <2>2. Numbers(e, l + 1)
    BY <1>c, <2>1, DigitsAreNumbers
  <2> QED
    BY <2>1, <2>2
<1>6. PICK d \in Decimals : /\ d = calculateCheckDigit(e, 13)
                            /\ d = ExpectedDigit(e, Weights("CNPJ", 13))
  BY <1>5, SameComputation
<1>d. PICK n : n = Append(e, d)
  OBVIOUS
<1>e. /\ n \in Seq(Decimals) /\ Len(n) = (l + 1) + 1 /\ n[(l + 1) + 1] = d
      /\ \A i \in 1 .. l + 1 : n[i] = e[i]
  <2>1. l + 1 \in Nat
    BY <1>a
  <2> QED
    BY <1>6, <1>c, <1>d, <2>1, OneMore
<1>7. n = generateCNPJ(base)
  BY <1>3, <1>4, <1>6, <1>b, <1>d DEF generateCNPJ
<1>8. /\ n \in Seq(Decimals) /\ Len(n) = 14
      /\ \A i \in 1 .. 12 : n[i] = b[i]
      /\ \A i \in 1 .. 13 : n[i] = e[i]
      /\ n[13] = c /\ n[14] = d /\ n[11] = 0 /\ n[12] = 1
  <2>1. l = 12 /\ l + 1 = 13 /\ (l + 1) + 1 = 14
    BY <1>a
  <2>2. /\ \A i \in 1 .. 12 : i \in 1 .. 13
        /\ 13 \in 1 .. 13 /\ 11 \in 1 .. 12 /\ 12 \in 1 .. 12
    OBVIOUS
  <2>3. (\A i \in 1 .. 13 : n[i] = e[i]) /\ (\A i \in 1 .. 12 : e[i] = b[i])
    BY <1>c, <1>e, <2>1
  <2>4. n[13] = c /\ n[14] = d /\ Len(n) = 14
    BY <1>c, <1>e, <2>1, <2>2, <2>3
  <2>5. \A i \in 1 .. 12 : n[i] = b[i]
    BY <2>2, <2>3
  <2>6. b[11] = 0 /\ b[12] = 1
    BY <1>b, BaseTypes
  <2> QED
    BY <1>e, <2>2, <2>3, <2>4, <2>5, <2>6
<1>9. DigitNumber("CNPJ", n)
  BY <1>1, <1>8 DEF DigitNumber
<1>10. ~isAllSameDigit(n)
  <2>1. 11 \in DOMAIN n /\ 12 \in DOMAIN n /\ n[11] = 0 /\ n[12] = 1
    BY <1>8
  <2> QED
    BY <2>1 DEF isAllSameDigit
<1>11. ASSUME NEW p \in {12, 13}, NEW a, Numbers(a, p), \A i \in 1 .. p : n[i] = a[i],
              n[p + 1] = ExpectedDigit(a, Weights("CNPJ", p))
       PROVE  validateCheckDigit("CNPJ", n, p)
  <2>1. p \in {Length("CNPJ"), Length("CNPJ") + 1}
    BY <1>1
  <2>2. /\ p \in Nat \ {0} /\ Len(Weights("CNPJ", p)) = p
        /\ Numbers(Weights("CNPJ", p), Len(Weights("CNPJ", p)))
    BY <1>1, <1>11, <2>1, WeightsType, SumOf
  <2>3. WeightedSum(n, Weights("CNPJ", p)) = WeightedSum(a, Weights("CNPJ", p))
    BY <1>11, <2>2, SumSame
  <2> QED
    BY <1>11, <2>3 DEF validateCheckDigit, ExpectedDigit
<1>12. validateCheckDigit("CNPJ", n, 12)
  <2>1. 12 + 1 = 13 /\ 12 \in {12, 13}
    OBVIOUS
  <2>2. n[12 + 1] = ExpectedDigit(b, Weights("CNPJ", 12))
    BY <1>3, <1>8, <2>1
  <2> QED
    BY <1>2, <1>8, <1>11, <2>1, <2>2
<1>13. validateCheckDigit("CNPJ", n, 13)
  <2>1. 13 + 1 = 14 /\ 13 \in {12, 13}
    OBVIOUS
  <2>2. n[13 + 1] = ExpectedDigit(e, Weights("CNPJ", 13))
    BY <1>6, <1>8, <2>1
  <2> QED
    BY <1>5, <1>8, <1>11, <2>1, <2>2
<1> QED
  BY <1>1, <1>7, <1>8, <1>9, <1>10, <1>12, <1>13 DEF Validate

-----------------------------------------------------------------------------
(* CheckDigits: the specification.                                         *)

\* The number a request holds comes from a valid one, from which it differs at
\* most at the mistyped digit.
DigitInv ==
    /\ kind \in NumberKinds \cup {""}
    /\ kind = "" => typo = 0
    /\ kind # "" =>
          /\ DigitNumber(kind, formed) /\ Validate(kind, formed)
          /\ DigitNumber(kind, number)
          /\ typo \in 0 .. Length(kind) + 2
          /\ typo = 0 => number = formed
          /\ \A j \in 1 .. Length(kind) + 2 : number[j] = formed[j] <=> j # typo

LEMMA HoldStep ==
    ASSUME NEW k \in NumberKinds, NEW n, DigitNumber(k, n), Validate(k, n), Hold(k, n)
    PROVE  DigitInv'
<1>1. k # ""
  BY DEF NumberKinds
<1>2. 0 \in 0 .. Length(k) + 2 /\ \A j \in 1 .. Length(k) + 2 : j # 0
  <2>1. Length(k) \in Nat
    BY DEF NumberKinds, Length
  <2> QED
    BY <2>1
<1> QED
  BY <1>1, <1>2 DEF Hold, DigitInv

LEMMA Replaced ==
    ASSUME NEW s \in Seq(Decimals), NEW j \in DOMAIN s, NEW x \in Decimals
    PROVE  [s EXCEPT ![j] = x] \in Seq(Decimals) /\ Len([s EXCEPT ![j] = x]) = Len(s)
  OBVIOUS

LEMMA MistypeStep ==
    ASSUME DigitInv, NEW i \in 1 .. 14, NEW d \in 0 .. 9, Mistype(i, d)
    PROVE  DigitInv'
<1>1. /\ kind \in NumberKinds /\ kind # "" /\ typo = 0 /\ i \in DOMAIN number /\ d # number[i]
      /\ number' = [number EXCEPT ![i] = d] /\ typo' = i /\ kind' = kind /\ formed' = formed
  BY DEF Mistype, DigitInv
<1>2. /\ DigitNumber(kind, formed) /\ Validate(kind, formed) /\ number = formed
      /\ DigitNumber(kind, number)
  BY <1>1 DEF DigitInv
<1>3. /\ Length(kind) \in {9, 12} /\ DOMAIN number = 1 .. Length(kind) + 2
      /\ number \in Seq(Decimals) /\ Len(number) = Length(kind) + 2
  BY <1>1, <1>2, NumberDigits DEF DigitNumber
<1>4. number' \in Seq(Decimals) /\ Len(number') = Length(kind) + 2
  <2>1. d \in Decimals
    BY DEF Decimals
  <2> QED
    BY <1>1, <1>3, <2>1, Replaced
<1>5. \A j \in 1 .. Length(kind) + 2 : number'[j] = IF j = i THEN d ELSE formed[j]
  BY <1>1, <1>2, <1>3
<1>6. i \in 0 .. Length(kind) + 2 /\ i # 0
  <2>1. PICK l \in Nat : l = Length(kind)
    BY <1>3
  <2>2. i \in 1 .. l + 2
    BY <1>1, <1>3, <2>1
  <2>3. i \in 0 .. l + 2 /\ i # 0
    BY <2>1, <2>2
  <2> QED
    BY <2>1, <2>3
<1>7. \A j \in 1 .. Length(kind) + 2 : number'[j] = formed[j] <=> j # i
  BY <1>1, <1>2, <1>5
<1>8. DigitNumber(kind, number')
  BY <1>4 DEF DigitNumber
<1> QED
  BY <1>1, <1>2, <1>6, <1>7, <1>8 DEF DigitInv

LEMMA StepDigits == DigitInv /\ [DigitNext]_digitVars => DigitInv'
<1> SUFFICES ASSUME DigitInv, [DigitNext]_digitVars PROVE DigitInv'
  OBVIOUS
<1>1. CASE UNCHANGED digitVars
  BY <1>1 DEF digitVars, DigitInv
<1>2. ASSUME NEW base \in Bases("CPF"), Form(base) PROVE DigitInv'
  BY <1>2, CompleteDigits, HoldStep DEF Form, NumberKinds
<1>3. ASSUME NEW base \in Bases("CNPJ"), Generate(base) PROVE DigitInv'
  BY <1>3, GeneratedValid, HoldStep DEF Generate, NumberKinds
<1>4. ASSUME NEW i \in 1 .. 14, NEW d \in 0 .. 9, Mistype(i, d) PROVE DigitInv'
  BY <1>4, MistypeStep
<1>5. CASE Forget
  BY <1>5 DEF Forget, DigitInv
<1> QED
  BY <1>1, <1>2, <1>3, <1>4, <1>5 DEF DigitNext

LEMMA DigitsFollow == DigitInv => DigitsSound
<1> SUFFICES ASSUME DigitInv PROVE DigitsSound
  OBVIOUS
<1>1. CheckDigitExact
  <2>1. SUFFICES ASSUME kind # "", typo = 0, NEW p \in {Length(kind), Length(kind) + 1}
                 PROVE  LET sum  == WeightedSum(number, Weights(kind, p))
                            fits == {d \in 0 .. 9 : (sum + d) % 11 = 0}
                        IN  number[p + 1] \in fits \/ (fits = {} /\ number[p + 1] = 0)
    BY DEF CheckDigitExact
  <2>2. kind \in NumberKinds /\ DigitNumber(kind, number) /\ Validate(kind, number)
    BY <2>1 DEF DigitInv
  <2>3. PICK x \in Nat : x = WeightedSum(number, Weights(kind, p)) /\ number[p + 1] = DigitFor(x)
    BY <2>2, ValidDigits
  <2>4. /\ DigitFor(x) \in 0 .. 9
        /\ \/ (x + DigitFor(x)) % 11 = 0
           \/ DigitFor(x) = 0 /\ \A d \in 0 .. 9 : (x + d) % 11 # 0
    BY DigitFits
  <2> QED
    BY <2>3, <2>4
<1>2. GeneratedAccepted
  BY DEF DigitInv, GeneratedAccepted
<1>3. TypoDetected
  <2>1. SUFFICES ASSUME typo # 0, Validate(kind, number)
                 PROVE  /\ formed[Length(kind) + 1] = 0
                        /\ formed[Length(kind) + 2] = 0 \/ (kind = "CPF" /\ typo = 1)
    BY DEF TypoDetected
  <2>2. /\ kind \in NumberKinds /\ DigitNumber(kind, formed) /\ Validate(kind, formed)
        /\ DigitNumber(kind, number)
    BY <2>1 DEF DigitInv
  <2>3. /\ typo \in 1 .. Length(kind) + 2 /\ number[typo] # formed[typo]
        /\ \A j \in 1 .. Length(kind) + 2 : j # typo => number[j] = formed[j]
    <3>1. Length(kind) \in {9, 12}
      BY <2>2, NumberDigits
    <3>2. typo \in 1 .. Length(kind) + 2
      <4>1. PICK l \in Nat : l = Length(kind)
        BY <3>1
      <4>2. typo \in 0 .. l + 2
        BY <2>2, <4>1 DEF DigitInv, NumberKinds
      <4>3. typo \in 1 .. l + 2
        BY <2>1, <4>1, <4>2
      <4> QED
        BY <4>1, <4>3
    <3> QED
      BY <2>1, <3>2 DEF DigitInv
  <2> QED
    BY <2>1, <2>2, <2>3, TypoSeen
<1> QED
  BY <1>1, <1>2, <1>3 DEF DigitsSound

\* The check digits of CPF and CNPJ, for numbers of any digits: validation agrees
\* with the definition modulo 11, accepts what the verifier generates, and one
\* mistyped digit passes only where two remainders share the digit 0.
THEOREM DigitsCorrect == DigitSpec => []DigitsSound
<1>1. DigitInit => DigitInv
  BY DEF DigitInit, DigitInv
<1> QED
  BY <1>1, StepDigits, DigitsFollow, PTL DEF DigitSpec

=============================================================================
