------------------------------ MODULE Passkeys ------------------------------
(***************************************************************************)
(* Passkeys of one user: the registration and login ceremonies of          *)
(* WebAuthnHandler and WebAuthnService, their data in Redis under one key  *)
(* per user and kind of ceremony (SessionStore), and the credentials of    *)
(* webauthn_credentials.                                                   *)
(*                                                                         *)
(* A challenge is a number, fresh at each Begin.  The browser answers the  *)
(* challenges it was given with one of the user's keys and may send an     *)
(* answer again.  Every Redis command and SQL statement of a request is a  *)
(* step; the library's verification needs no I/O and is part of the step   *)
(* that read the credentials.                                              *)
(***************************************************************************)
EXTENDS Naturals

CONSTANTS
    Requests,       \* requests that may run at the same time
    Keys,           \* the user's authenticators, named by their credential id
    MaxChallenges,  \* bound: challenges issued
    MaxSignatures   \* bound: times a key signs

ASSUME PasskeyAssumption == MaxChallenges \in Nat \ {0} /\ MaxSignatures \in Nat

VARIABLES
    slot,       \* webauthn:reg:<user> and webauthn:login:<user>
    issued,     \* the kind of each challenge issued so far, by its number
    offered,    \* challenges the browser was given
    signs,      \* the signature counter inside each key
    answers,    \* what the keys signed, and the browser may send
    rows,       \* webauthn_credentials: the stored sign count, by key
    req,        \* the requests
    shared,     \* challenges read while another request held them undeleted
    undeleted,  \* challenges whose DEL failed
    admitted    \* tokens issued, by challenge, up to two

passkeyVars ==
    <<slot, issued, offered, signs, answers, rows, req, shared, undeleted, admitted>>

Kinds == {"reg", "login"}
Challenges == 1 .. MaxChallenges
NoChallenge == 0
Counts == 0 .. MaxSignatures
Unregistered == MaxSignatures + 1

Answers ==
    [kind : Kinds, challenge : Challenges, key : Keys, count : Counts]

IdleRequest == [pc |-> "idle"]

PasskeyInit ==
    /\ slot = [k \in Kinds |-> NoChallenge]
    /\ issued = [c \in Challenges |-> "none"]
    /\ offered = {}
    /\ signs = [k \in Keys |-> 0]
    /\ answers = {}
    /\ rows = [k \in Keys |-> Unregistered]
    /\ req = [p \in Requests |-> IdleRequest]
    /\ shared = {} /\ undeleted = {}
    /\ admitted = [c \in Challenges |-> 0]

-----------------------------------------------------------------------------
(* Begin.  getUserAdapter reads the user and its credentials; the library  *)
(* refuses a login of a user who has none.                                 *)

Registered == {k \in Keys : rows[k] # Unregistered}

FreshChallenge(c) ==
    issued[c] = "none" /\ \A d \in Challenges : d < c => issued[d] # "none"

BeginRegistration(p, c) ==
    /\ req[p] = IdleRequest /\ FreshChallenge(c)
    /\ req' = [req EXCEPT ![p] = [pc |-> "save", kind |-> "reg", challenge |-> c]]
    /\ issued' = [issued EXCEPT ![c] = "reg"]
    /\ UNCHANGED <<slot, offered, signs, answers, rows, shared, undeleted, admitted>>

BeginLogin(p, c) ==
    /\ req[p] = IdleRequest /\ FreshChallenge(c)
    /\ Registered # {}
    /\ req' = [req EXCEPT ![p] = [pc |-> "save", kind |-> "login", challenge |-> c]]
    /\ issued' = [issued EXCEPT ![c] = "login"]
    /\ UNCHANGED <<slot, offered, signs, answers, rows, shared, undeleted, admitted>>

\* SET with a TTL of five minutes, over whatever ceremony was there.
SaveSession(p) ==
    /\ req[p].pc = "save"
    /\ slot' = [slot EXCEPT ![req[p].kind] = req[p].challenge]
    /\ offered' = offered \cup {req[p].challenge}
    /\ req' = [req EXCEPT ![p] = IdleRequest]
    /\ UNCHANGED <<issued, signs, answers, rows, shared, undeleted, admitted>>

\* The user or its credentials cannot be read, or it has none to log in with.
BeginFails(p) == req[p] = IdleRequest /\ UNCHANGED passkeyVars

\* SET fails: 500, and the browser gets no challenge.
SaveSessionFails(p) ==
    /\ req[p].pc = "save"
    /\ req' = [req EXCEPT ![p] = IdleRequest]
    /\ UNCHANGED <<slot, issued, offered, signs, answers, rows, shared, undeleted, admitted>>

SessionExpires(k) ==
    /\ slot[k] # NoChallenge
    /\ slot' = [slot EXCEPT ![k] = NoChallenge]
    /\ UNCHANGED <<issued, offered, signs, answers, rows, req, shared, undeleted, admitted>>

\* A key signs a challenge; its counter moves with every assertion.
Sign(c, k) ==
    /\ c \in offered /\ signs[k] < MaxSignatures
    /\ signs' = [signs EXCEPT ![k] = @ + 1]
    /\ answers' = answers \cup
           {[kind |-> issued[c], challenge |-> c, key |-> k, count |-> signs'[k]]}
    /\ UNCHANGED <<slot, issued, offered, rows, req, shared, undeleted, admitted>>

-----------------------------------------------------------------------------
(* Finish.  GetSession is a GET and a DEL whose error is dropped.          *)

Holds(p, c) == req[p].pc = "del" /\ req[p].session = c

GetSession(p, a) ==
    /\ req[p] = IdleRequest
    /\ LET c == slot[a.kind]
       IN  /\ c # NoChallenge
           /\ req' = [req EXCEPT ![p] = [pc |-> "del", answer |-> a, session |-> c]]
           /\ shared' = IF \E q \in Requests : Holds(q, c)
                        THEN shared \cup {c} ELSE shared
    /\ UNCHANGED <<slot, issued, offered, signs, answers, rows, undeleted, admitted>>

\* Mutant of DeleteSession: the data stays.
DeleteSession_Missing(p) ==
    /\ req[p].pc = "del"
    /\ req' = [req EXCEPT ![p].pc = "read"]
    /\ UNCHANGED <<slot, issued, offered, signs, answers, rows, shared, undeleted, admitted>>

\* DEL removes whatever is under the key by now.
DeleteSession(p) ==
    /\ req[p].pc = "del"
    /\ slot' = [slot EXCEPT ![req[p].answer.kind] = NoChallenge]
    /\ req' = [req EXCEPT ![p].pc = "read"]
    /\ UNCHANGED <<issued, offered, signs, answers, rows, shared, undeleted, admitted>>

DeleteSessionFails(p) ==
    /\ req[p].pc = "del"
    /\ undeleted' = undeleted \cup {req[p].session}
    /\ req' = [req EXCEPT ![p].pc = "read"]
    /\ UNCHANGED <<slot, issued, offered, signs, answers, rows, shared, admitted>>

\* The library compares the challenge signed with the ceremony's.
Verified(p) == req[p].answer.challenge = req[p].session

\* UpdateCounter of the library: a count that does not grow sets a clone
\* warning, which FinishLogin does not look at, and keeps the stored count.
UpdateCounter(stored, count) == IF count > stored THEN count ELSE stored

FinishRegistration(p) ==
    /\ req[p].pc = "read" /\ req[p].answer.kind = "reg"
    /\ Verified(p)
    /\ req' = [req EXCEPT ![p].pc = "insert"]
    /\ UNCHANGED <<slot, issued, offered, signs, answers, rows, shared, undeleted, admitted>>

\* INSERT; UNIQUE (user_id, webauthn_id) refuses a key that is there.
CreateCredential(p) ==
    /\ req[p].pc = "insert"
    /\ LET a == req[p].answer
       IN  rows' = IF rows[a.key] = Unregistered
                   THEN [rows EXCEPT ![a.key] = a.count] ELSE rows
    /\ req' = [req EXCEPT ![p] = IdleRequest]
    /\ UNCHANGED <<slot, issued, offered, signs, answers, shared, undeleted, admitted>>

\* Mutant of FinishLogin: the key's count is stored as it is.
FinishLogin_TrustsKey(p) ==
    /\ req[p].pc = "read" /\ req[p].answer.kind = "login"
    /\ LET a == req[p].answer
       IN  /\ Verified(p) /\ rows[a.key] # Unregistered
           /\ req' = [req EXCEPT ![p] =
                  [pc |-> "update", answer |-> a, session |-> req[p].session,
                   read |-> rows[a.key], count |-> a.count]]
    /\ UNCHANGED <<slot, issued, offered, signs, answers, rows, shared, undeleted, admitted>>

FinishLogin(p) ==
    /\ req[p].pc = "read" /\ req[p].answer.kind = "login"
    /\ LET a == req[p].answer
       IN  /\ Verified(p) /\ rows[a.key] # Unregistered
           /\ req' = [req EXCEPT ![p] =
                  [pc |-> "update", answer |-> a, session |-> req[p].session,
                   read |-> rows[a.key],
                   count |-> UpdateCounter(rows[a.key], a.count)]]
    /\ UNCHANGED <<slot, issued, offered, signs, answers, rows, shared, undeleted, admitted>>

\* A failing read, a wrong challenge or an unknown key: 400 or 401.
FinishFails(p) ==
    /\ req[p].pc \in {"read", "insert", "update"}
    /\ req' = [req EXCEPT ![p] = IdleRequest]
    /\ UNCHANGED <<slot, issued, offered, signs, answers, rows, shared, undeleted, admitted>>

\* UPDATE of the sign count by the row's id.
UpdateCredential(p) ==
    /\ req[p].pc = "update"
    /\ rows' = [rows EXCEPT ![req[p].answer.key] = req[p].count]
    /\ req' = [req EXCEPT ![p].pc = "token"]
    /\ UNCHANGED <<slot, issued, offered, signs, answers, shared, undeleted, admitted>>

\* The second read of the rows fails: no id, no UPDATE, and the login goes on.
SkipUpdate(p) ==
    /\ req[p].pc = "update"
    /\ req' = [req EXCEPT ![p].pc = "token"]
    /\ UNCHANGED <<slot, issued, offered, signs, answers, rows, shared, undeleted, admitted>>

\* GenerateTokenForUser and the answer; it may fail with a 500.
IssueToken(p) ==
    /\ req[p].pc = "token"
    /\ admitted' = [admitted EXCEPT ![req[p].session] = IF @ < 2 THEN @ + 1 ELSE @]
    /\ req' = [req EXCEPT ![p] = IdleRequest]
    /\ UNCHANGED <<slot, issued, offered, signs, answers, rows, shared, undeleted>>

PasskeyNext ==
    \/ \E p \in Requests :
         \/ \E c \in Challenges : BeginRegistration(p, c) \/ BeginLogin(p, c)
         \/ \E a \in answers : GetSession(p, a)
         \/ BeginFails(p) \/ SaveSession(p) \/ SaveSessionFails(p)
         \/ DeleteSession(p) \/ DeleteSessionFails(p)
         \/ FinishRegistration(p) \/ CreateCredential(p)
         \/ FinishLogin(p) \/ UpdateCredential(p) \/ SkipUpdate(p)
         \/ FinishFails(p) \/ IssueToken(p)
    \/ \E k \in Kinds : SessionExpires(k)
    \/ \E c \in Challenges, k \in Keys : Sign(c, k)

PasskeySpec == PasskeyInit /\ [][PasskeyNext]_passkeyVars

-----------------------------------------------------------------------------
Request ==
    {IdleRequest}
    \cup [pc : {"save"}, kind : Kinds, challenge : Challenges]
    \cup [pc : {"del", "read", "insert"}, answer : Answers, session : Challenges]
    \cup [pc : {"update", "token"}, answer : Answers, session : Challenges,
          read : Counts, count : Counts]

(* Types: a slot holds a challenge of its kind, a stored count is one the  *)
(* key has shown, and a login in its last steps holds a login challenge    *)
(* that its key signed.                                                    *)
PasskeyTypeOK ==
    /\ \A k \in Kinds : slot[k] # NoChallenge => issued[slot[k]] = k
    /\ offered \subseteq Challenges /\ answers \subseteq Answers
    /\ \A k \in Registered : rows[k] \in 0 .. signs[k]
    /\ \A p \in Requests : req[p] \in Request
    /\ \A p \in Requests : req[p].pc \in {"update", "token"} =>
           issued[req[p].session] = "login" /\ req[p].answer \in answers

(* The data of a ceremony is for one use ("Delete after retrieval", at     *)
(* GetSession): a challenge lets a user in twice only when its DEL failed  *)
(* or another request read it between the GET and the DEL.                 *)
ReplayExplained ==
    \A c \in Challenges : admitted[c] > 1 => c \in shared \cup undeleted

(* FinishLogin writes back the counter it computed from the row it read:   *)
(* a stored sign count falls only when that row had changed in between.    *)
CountFallsOnlyStale ==
    [][\A k \in Registered : rows'[k] < rows[k] =>
          \E p \in Requests : /\ req[p].pc = "update" /\ req'[p].pc = "token"
                              /\ req[p].answer.key = k /\ req[p].read # rows[k]]_passkeyVars

\* Ceremonies are well formed, and a challenge lets a user in twice only for a
\* known reason.
ChallengesSound == PasskeyTypeOK /\ ReplayExplained

=============================================================================
