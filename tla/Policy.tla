------------------------------- MODULE Policy -------------------------------
(***************************************************************************)
(* Permission checks: the relation tuples about one object and one         *)
(* relation (postgres/policy_repo.go), the recursive query over them, and  *)
(* the answers kept in Redis (redis/policy_cache.go) for the handlers that *)
(* ask (handlers/policy_handler.go).                                       *)
(*                                                                         *)
(* An answer is computed by one query, returned, and stored later by a     *)
(* goroutine of its own.  Writing or deleting a tuple does not touch the   *)
(* stored answers; they last for Ttl ticks.  A check that finds its key    *)
(* answers with what is there and changes nothing.                         *)
(***************************************************************************)
EXTENDS Naturals, FiniteSets

CONSTANTS
    Users,          \* subjects that are asked about
    Groups,         \* subjects that have members: roles and groups
    Object,         \* the object, with the relation that is asked about
    Checks,         \* checks whose answer can be on its way to Redis
    Depth,          \* the depth limit of the query, 10 in the code
    Ttl,            \* time to live of an answer, in ticks
    MaxDelay        \* bound: ticks a goroutine takes to store its answer

ASSUME PolicyAssumption ==
    /\ Object \notin Users \cup Groups
    /\ IsFiniteSet(Groups)
    /\ Depth \in Nat \ {0}
    /\ Ttl \in Nat \ {0}
    /\ MaxDelay \in Nat

VARIABLES
    tuples,         \* <<o, s>>: s has the relation to Object, or is a member of o
    cache,          \* cache[u]: policy:check:<u>:<relation>:<Object>
    check,          \* check[p]: an answer that is yet to be stored
    since           \* history: since[u][v]: ticks since the tuples last said v

policyVars == <<tuples, cache, check, since>>

Nodes == Users \cup Groups

\* Ticks are not told apart beyond this.
Long == Ttl + MaxDelay + 1

Absent == [val |-> FALSE, ttl |-> 0]

NoCheck == [user |-> Object, val |-> FALSE, age |-> 0]

PolicyTypeOK ==
    /\ tuples \subseteq ({Object} \cup Groups) \X Nodes
    /\ cache \in [Users -> [val : BOOLEAN, ttl : 0..Ttl]]
    /\ check \in [Checks -> [user : Users \cup {Object}, val : BOOLEAN,
                             age : 0..MaxDelay]]
    /\ since \in [Users -> [BOOLEAN -> 0..Long]]

-----------------------------------------------------------------------------
(* PolicyRepository.Check.                                                 *)

\* The subjects of the tuples ts on the entities os.
SubjectsOf(ts, os) == {n \in Nodes : \E o \in os : <<o, n>> \in ts}

\* Mutant of Found: the limit stops one level early.
Found_Shallow(ts) ==
    LET level[d \in 1..Depth] ==
            IF d = 1 THEN SubjectsOf(ts, {Object}) ELSE SubjectsOf(ts, level[d - 1])
    IN  UNION {level[d] : d \in 1..(Depth - 1)}

\* The rows of search_path: depth 1 are the subjects of the object itself, and
\* a row of depth < Depth is joined with the members of its subject.
Found(ts) ==
    LET level[d \in 1..Depth] ==
            IF d = 1 THEN SubjectsOf(ts, {Object}) ELSE SubjectsOf(ts, level[d - 1])
    IN  UNION {level[d] : d \in 1..Depth}

Allowed(ts, u) == u \in Found(ts)

PolicyInit ==
    /\ tuples = {}
    /\ cache = [u \in Users |-> Absent]
    /\ check = [p \in Checks |-> NoCheck]
    /\ since = [u \in Users |-> [v \in BOOLEAN |->
                   IF v = Allowed({}, u) THEN 0 ELSE Long]]

\* GetRolesForUser, for the tenant Object: direct tuples only, and no cache.
HasRoleDirectly(u) == <<Object, u>> \in tuples

\* The tuples become ts.
SetTuples(ts) ==
    /\ tuples' = ts
    /\ since' = [u \in Users |->
                    [since[u] EXCEPT ![Allowed(ts, u)] = 0]]

\* INSERT ... ON CONFLICT DO NOTHING.
WriteTuple(o, s) ==
    /\ <<o, s>> \notin tuples
    /\ SetTuples(tuples \cup {<<o, s>>})
    /\ UNCHANGED <<cache, check>>

DeleteTuple(o, s) ==
    /\ <<o, s>> \in tuples
    /\ SetTuples(tuples \ {<<o, s>>})
    /\ UNCHANGED <<cache, check>>

-----------------------------------------------------------------------------
(* CachedPolicyRepository.Check.                                           *)

\* CheckPermission asks for u, GET finds nothing or fails, and the query
\* answers; a goroutine will store the answer.
QueryAnswer(p, u) ==
    /\ check[p] = NoCheck
    /\ check' = [check EXCEPT ![p] = [user |-> u, val |-> Allowed(tuples, u),
                                      age |-> 0]]
    /\ UNCHANGED <<tuples, cache, since>>

\* Mutant of StoreAnswer: an answer that is there only has its life renewed.
StoreAnswer_Renews(p) ==
    /\ check[p] # NoCheck
    /\ cache' = [cache EXCEPT ![check[p].user] =
                    IF @ = Absent THEN [val |-> check[p].val, ttl |-> Ttl]
                    ELSE [@ EXCEPT !.ttl = Ttl]]
    /\ check' = [check EXCEPT ![p] = NoCheck]
    /\ UNCHANGED <<tuples, since>>

\* The goroutine: SET with the time to live.
StoreAnswer(p) ==
    /\ check[p] # NoCheck
    /\ cache' = [cache EXCEPT ![check[p].user] = [val |-> check[p].val, ttl |-> Ttl]]
    /\ check' = [check EXCEPT ![p] = NoCheck]
    /\ UNCHANGED <<tuples, since>>

\* SET fails, which nobody notices.
StoreFails(p) ==
    /\ check[p] # NoCheck
    /\ check' = [check EXCEPT ![p] = NoCheck]
    /\ UNCHANGED <<tuples, cache, since>>

\* Time passes; a goroutine takes at most MaxDelay.
PolicyTick ==
    /\ \A p \in Checks : check[p].age < MaxDelay \/ check[p] = NoCheck
    /\ cache' = [u \in Users |-> IF cache[u].ttl <= 1 THEN Absent
                                 ELSE [cache[u] EXCEPT !.ttl = @ - 1]]
    /\ check' = [p \in Checks |-> IF check[p] = NoCheck THEN NoCheck
                                  ELSE [check[p] EXCEPT !.age = @ + 1]]
    /\ since' = [u \in Users |-> [v \in BOOLEAN |->
                    IF v = Allowed(tuples, u) \/ since[u][v] = Long
                    THEN since[u][v] ELSE since[u][v] + 1]]
    /\ UNCHANGED tuples

PolicyNext ==
    \/ \E o \in {Object} \cup Groups, s \in Nodes :
          WriteTuple(o, s) \/ DeleteTuple(o, s)
    \/ \E p \in Checks, u \in Users : QueryAnswer(p, u)
    \/ \E p \in Checks : StoreAnswer(p) \/ StoreFails(p)
    \/ PolicyTick

PolicySpec == PolicyInit /\ [][PolicyNext]_policyVars

-----------------------------------------------------------------------------
(* Properties.                                                             *)

\* The subjects with the permission, defined without a search: those that lie
\* in every set that holds the direct subjects and the members of its own.
Reachable(u) ==
    \A C \in SUBSET Nodes :
        (SubjectsOf(tuples, {Object}) \cup SubjectsOf(tuples, C)) \subseteq C => u \in C

\* The query finds exactly the subjects that the tuples lead to, through
\* groups in groups and around cycles, as long as there are fewer groups than
\* its depth limit; a role that gRPC and the tokens report is among them.
CheckExact ==
    \A u \in Users :
        /\ Cardinality(Groups) < Depth => (Allowed(tuples, u) <=> Reachable(u))
        /\ HasRoleDirectly(u) => Allowed(tuples, u)

\* Whatever order answers are computed and stored in, a stored answer agreed
\* with the tuples not longer ago than it has been stored plus the delay of
\* its goroutine: a removed permission is gone after Ttl + MaxDelay.
StaleBounded ==
    \A u \in Users :
        cache[u].ttl > 0 => since[u][cache[u].val] <= (Ttl - cache[u].ttl) + MaxDelay

\* Tuples and stored answers are well formed, and the recursive query computes
\* reachability on every set of tuples.
ChecksSound == PolicyTypeOK /\ CheckExact

=============================================================================
