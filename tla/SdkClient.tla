----------------------------- MODULE SdkClient ------------------------------
(***************************************************************************)
(* The Go client of pkg/sdk, used by several goroutines at once, against   *)
(* this repository's server.                                               *)
(*                                                                         *)
(* The client decodes an answer into access_token, refresh_token and       *)
(* expires_in.  The server's LoginResponse calls the first one token, so   *)
(* it decodes to the empty string; a refresh answers without a refresh     *)
(* token, and a login that needs a second factor with neither.             *)
(***************************************************************************)
EXTENDS Naturals

CONSTANTS
    Routines,   \* goroutines that share the client
    Lifetime,   \* expires_in of the server's answers, in ticks
    Buffer,     \* Client.refreshBuffer, in ticks
    LastTick,   \* bound: ticks
    MaxLogins   \* bound: logins

ASSUME SdkAssumption ==
    /\ Lifetime \in Nat /\ Buffer \in Nat
    /\ LastTick \in Nat /\ MaxLogins \in Nat

VARIABLES
    tick,
    tokens,     \* accessToken, refreshToken and expiresAt
    request,    \* request[g]: what goroutine g is doing
    logins,     \* logins so far: the n-th one's refresh token is n
    logouts,    \* calls of Logout so far
    dead        \* history: refresh tokens a Logout took away

sdkVars == <<tick, tokens, request, logins, logouts, dead>>

Empty == 0
Resumed == MaxLogins + 1   \* the tokens given to WithTokens

NoTokens == [access |-> Empty, refresh |-> Empty, expires |-> 0]

IdleCall == [at |-> "idle"]

SdkInit ==
    /\ tick = 0
    /\ tokens = NoTokens
    /\ request = [g \in Routines |-> IdleCall]
    /\ logins = 0 /\ logouts = 0 /\ dead = {}

\* NewClient with WithTokens, which leaves expiresAt zero.
WithTokens ==
    /\ SdkInit
    /\ tokens' = [access |-> Resumed, refresh |-> Resumed, expires |-> 0]
    /\ UNCHANGED <<tick, request, logins, logouts, dead>>

SdkTick ==
    /\ tick < LastTick
    /\ tick' = tick + 1
    /\ UNCHANGED <<tokens, request, logins, logouts, dead>>

-----------------------------------------------------------------------------
\* What an answer of this server decodes to.
Decoded(refresh, lifetime) ==
    [access |-> Empty, refresh |-> refresh, expires |-> tick + lifetime]

\* The three fields change under one lock.
StoreTokens(g, new) ==
    /\ tokens' = new
    /\ request' = [request EXCEPT ![g] = IdleCall]
    /\ UNCHANGED <<tick, logins, logouts, dead>>

Login(g) ==
    /\ request[g] = IdleCall /\ logins < MaxLogins
    /\ logins' = logins + 1
    /\ request' = [request EXCEPT ![g] = [at |-> "login", token |-> logins']]
    /\ UNCHANGED <<tick, tokens, logouts, dead>>

LoginAnswered(g) ==
    /\ request[g].at = "login"
    /\ \/ StoreTokens(g, Decoded(request[g].token, Lifetime))
       \/ StoreTokens(g, Decoded(Empty, 0))    \* requires_2fa

\* Read under the lock, which is then released.
NeedsRefresh == tick + Buffer > tokens.expires /\ tokens.refresh # Empty

RefreshIfNeeded(g) ==
    /\ request[g] = IdleCall
    /\ request' = [request EXCEPT ![g] =
                   IF NeedsRefresh
                   THEN [at |-> "refresh", token |-> tokens.refresh]
                   ELSE IdleCall]
    /\ UNCHANGED <<tick, tokens, logins, logouts, dead>>

\* Both refresh first; the call itself changes nothing here.
Do(g) == RefreshIfNeeded(g)
Can(g) == RefreshIfNeeded(g)

\* Mutant of RefreshAnswered: the refresh token that was sent is kept.
RefreshAnswered_KeepsToken(g) ==
    /\ request[g].at = "refresh"
    /\ StoreTokens(g, Decoded(request[g].token, Lifetime))

\* doRefresh: the server answers without a refresh token.
RefreshAnswered(g) ==
    /\ request[g].at = "refresh"
    /\ StoreTokens(g, Decoded(Empty, Lifetime))

\* An error or a status other than 200: nothing is stored.
CallFails(g) ==
    /\ request[g].at \in {"login", "refresh"}
    /\ request' = [request EXCEPT ![g] = IdleCall]
    /\ UNCHANGED <<tick, tokens, logins, logouts, dead>>

Logout ==
    /\ logouts < MaxLogins /\ logouts' = logouts + 1
    /\ tokens' = NoTokens
    /\ dead' = dead \cup ({tokens.refresh} \ {Empty})
    /\ UNCHANGED <<tick, request, logins>>

SdkNext ==
    \/ WithTokens \/ SdkTick \/ Logout
    \/ \E g \in Routines :
         Login(g) \/ LoginAnswered(g) \/ Do(g) \/ Can(g) \/ RefreshAnswered(g) \/ CallFails(g)

SdkSpec == SdkInit /\ [][SdkNext]_sdkVars

-----------------------------------------------------------------------------
Tokens == 1 .. MaxLogins + 1

(* Types: a goroutine in a call knows which token it is about.             *)
SdkTypeOK ==
    /\ tokens \in [access : {Empty, Resumed}, refresh : {Empty} \cup Tokens,
                   expires : 0 .. LastTick + Lifetime]
    /\ \A g \in Routines :
          request[g] = IdleCall \/ request[g] \in
             [at : {"login", "refresh"}, token : Tokens]
    /\ dead \subseteq Tokens

(* A refresh token that Logout took away never comes back, although a      *)
(* refresh that was waiting for its answer stores what it gets afterwards. *)
LogoutClears == tokens.refresh \notin dead

\* The client's token pair is well formed, and a refresh that overlaps a Logout
\* does not bring the refresh token back.
ClientSound == SdkTypeOK /\ LogoutClears

=============================================================================
