------------------------------ MODULE Session -------------------------------
(***************************************************************************)
(* The login sessions of one user in Redis (redis/session_store.go) and    *)
(* the service calls on them: the Create of a login, RefreshToken, Logout  *)
(* (auth_service.go) and DeleteByUserID.                                   *)
(*                                                                         *)
(* A session has three entries: session:<id> (the JSON), refresh:<token>   *)
(* (the id) and a place in the set user:<id>:sessions.  Redis runs one     *)
(* command at a time; a Pipeline is sent as one request but its commands   *)
(* are not a transaction, so commands of other clients fall between them.  *)
(***************************************************************************)
EXTENDS Naturals, Sequences

CONSTANTS
    Procs,          \* concurrent calls
    Sessions,       \* sessions, each with its id and its refresh token
    Nil,            \* no session
    MaxDeletes      \* bound: calls of DeleteByUserID

ASSUME SessionAssumption ==
    /\ Nil \notin Sessions
    /\ MaxDeletes \in Nat

VARIABLES
    data,           \* data[s]: what session:<s> holds
    immortal,       \* session keys that have no time to live
    refresh,        \* sessions whose refresh key exists
    members,        \* the user's set
    past,           \* sessions whose ExpiresAt has passed
    created,        \* sessions whose id and token were generated
    known,          \* sessions whose refresh token a client was given
    op,             \* op[p]: the call p runs
    step,           \* step[p]: the step it takes next
    sess,           \* sess[p]: the session p works on
    copy,           \* copy[p]: the copy of it p has read
    todo,           \* todo[p]: ids of SMembers still to be looked up
    pipe,           \* pipe[p]: the commands of p's pipeline not yet run
    deletes,        \* DeleteByUserID calls so far
    gone,           \* history: gone[why]: sessions ended for this reason
    goneBefore,     \* history: goneBefore[p]: the reasons when refresh p started
    victims,        \* history: victims[p]: sessions known when p started
    acceptedGone    \* history: reasons RefreshToken should have refused for

store == <<data, immortal, refresh, members>>
clients == <<created, known>>
calls == <<op, step, sess, copy, todo, pipe>>
ghosts == <<gone, acceptedGone>>
sessionVars == <<store, past, clients, calls, deletes, goneBefore, victims,
          ghosts>>

\* "loggedOut": Logout answered success and its lookup did not fail;
\* "unread": Logout answered success although its lookup failed.
Reasons == {"loggedOut", "unread", "expired", "deleted"}

States == {"none", "live", "revoked"}

Commands == [cmd : {"setSession", "setRefresh", "sAdd", "delSession",
                    "delRefresh", "delSet"},
             id : Sessions \cup {Nil}]

SessionTypeOK ==
    /\ data \in [Sessions -> States]
    /\ immortal \subseteq Sessions
    /\ refresh \subseteq Sessions
    /\ members \subseteq Sessions
    /\ past \subseteq Sessions
    /\ created \subseteq Sessions
    /\ known \subseteq created
    /\ op \in [Procs -> {"none", "create", "refresh", "logout", "delete"}]
    /\ step \in [Procs -> {"idle", "getSession", "update", "lookup", "exec"}]
    /\ sess \in [Procs -> Sessions \cup {Nil}]
    /\ copy \in [Procs -> States]
    /\ todo \in [Procs -> SUBSET Sessions]
    /\ pipe \in [Procs -> Seq(Commands)]
    /\ deletes \in 0 .. MaxDeletes
    /\ gone \in [Reasons -> SUBSET Sessions]
    /\ goneBefore \in [Procs -> SUBSET Reasons]
    /\ victims \in [Procs -> SUBSET Sessions]
    /\ acceptedGone \subseteq Reasons

SessionInit ==
    /\ data = [s \in Sessions |-> "none"]
    /\ immortal = {}
    /\ refresh = {}
    /\ members = {}
    /\ past = {}
    /\ created = {}
    /\ known = {}
    /\ op = [p \in Procs |-> "none"]
    /\ step = [p \in Procs |-> "idle"]
    /\ sess = [p \in Procs |-> Nil]
    /\ copy = [p \in Procs |-> "none"]
    /\ todo = [p \in Procs |-> {}]
    /\ pipe = [p \in Procs |-> <<>>]
    /\ deletes = 0
    /\ gone = [why \in Reasons |-> {}]
    /\ goneBefore = [p \in Procs |-> {}]
    /\ victims = [p \in Procs |-> {}]
    /\ acceptedGone = {}

-----------------------------------------------------------------------------

\* Process p starts the call o on session s.
Start(p, o, s, next) ==
    /\ step[p] = "idle"
    /\ op' = [op EXCEPT ![p] = o]
    /\ step' = [step EXCEPT ![p] = next]
    /\ sess' = [sess EXCEPT ![p] = s]
    /\ goneBefore' = [goneBefore EXCEPT ![p] =
           IF o = "refresh" THEN {why \in Reasons : s \in gone[why]} ELSE {}]

\* The call of p returns.
Return(p) ==
    /\ op' = [op EXCEPT ![p] = "none"]
    /\ step' = [step EXCEPT ![p] = "idle"]
    /\ sess' = [sess EXCEPT ![p] = Nil]
    /\ copy' = [copy EXCEPT ![p] = "none"]
    /\ todo' = [todo EXCEPT ![p] = {}]
    /\ pipe' = [pipe EXCEPT ![p] = <<>>]
    /\ goneBefore' = [goneBefore EXCEPT ![p] = {}]
    /\ victims' = [victims EXCEPT ![p] = {}]

-----------------------------------------------------------------------------
(* SessionStore.Create, called by LoginWithUser with a new session.        *)

Create(p, s) ==
    /\ s \notin created
    /\ created' = created \cup {s}
    /\ Start(p, "create", s, "exec")
    /\ pipe' = [pipe EXCEPT ![p] = <<[cmd |-> "setSession", id |-> s],
                                     [cmd |-> "setRefresh", id |-> s],
                                     [cmd |-> "sAdd", id |-> s]>>]
    /\ UNCHANGED <<store, past, known, copy, todo, deletes, victims, ghosts>>

\* What one command of a pipeline does; sAdd includes the Expire of the set,
\* which outlives every member's own time to live.
Run(c) ==
    /\ data' = CASE c.cmd = "setSession" -> [data EXCEPT ![c.id] = "live"]
                 [] c.cmd = "delSession" -> [data EXCEPT ![c.id] = "none"]
                 [] OTHER -> data
    /\ immortal' = IF c.cmd = "delSession" THEN immortal \ {c.id} ELSE immortal
    /\ refresh' = CASE c.cmd = "setRefresh" -> refresh \cup {c.id}
                    [] c.cmd = "delRefresh" -> refresh \ {c.id}
                    [] OTHER -> refresh
    /\ members' = CASE c.cmd = "sAdd" -> members \cup {c.id}
                    [] c.cmd = "delSet" -> {}
                    [] OTHER -> members

PipeExec(p) ==
    /\ step[p] = "exec"
    /\ pipe[p] # <<>>
    /\ Run(Head(pipe[p]))
    /\ pipe' = [pipe EXCEPT ![p] = Tail(@)]
    /\ UNCHANGED <<past, clients, op, step, sess, copy, todo, deletes, goneBefore,
                   victims, ghosts>>

\* Exec has all replies: the login hands out the refresh token, or
\* DeleteByUserID returns nil.
PipeOk(p) ==
    /\ step[p] = "exec"
    /\ pipe[p] = <<>>
    /\ IF op[p] = "create"
       THEN known' = known \cup {sess[p]} /\ UNCHANGED gone
       ELSE /\ gone' = [gone EXCEPT !["deleted"] = @ \cup victims[p]]
            /\ UNCHANGED known
    /\ Return(p)
    /\ UNCHANGED <<store, past, created, deletes, acceptedGone>>

\* A command fails, or the process dies: the call ends where it is, without
\* success.  (A lookup of Logout ends here only when the process dies.)
CallFails(p) ==
    /\ step[p] # "idle"
    /\ Return(p)
    /\ UNCHANGED <<store, past, clients, deletes, ghosts>>

-----------------------------------------------------------------------------
(* RefreshToken and Logout: GetByRefreshToken is two commands.             *)

\* GET refresh:<token>.
GetRefreshKey(p, o, s) ==
    /\ s \in known
    /\ s \in refresh
    /\ Start(p, o, s, "getSession")
    /\ UNCHANGED <<store, past, clients, copy, todo, pipe, deletes, victims,
                   ghosts>>

\* Logout answers success for session s, because of why.
Acknowledge(s, why) == gone' = [gone EXCEPT ![why] = @ \cup {s}]

\* The key is not there: "invalid refresh token" for RefreshToken, success
\* ("already logged out") for Logout, also for a token nobody was given.
RefreshKeyMissing(p, o, s) ==
    /\ step[p] = "idle"
    /\ s \notin refresh
    /\ IF o = "logout" /\ s \in known THEN Acknowledge(s, "loggedOut") ELSE UNCHANGED gone
    /\ UNCHANGED <<store, past, clients, calls, deletes, goneBefore, victims,
                   acceptedGone>>

\* One of the two commands of Logout's lookup fails.  Logout returns nil for
\* every error of GetByRefreshToken, and the handler answers 200.
LogoutLookupFails(p, s) ==
    /\ s \in known
    /\ \/ step[p] = "idle" /\ UNCHANGED <<calls, goneBefore, victims>>
       \/ /\ step[p] = "getSession"
          /\ op[p] = "logout"
          /\ sess[p] = s
          /\ Return(p)
    /\ Acknowledge(s, "unread")
    /\ UNCHANGED <<store, past, clients, deletes, acceptedGone>>

\* Session.IsValid on the copy just read.
IsValid(s) == data[s] = "live" /\ s \notin past

\* GET session:<id> finds nothing: Logout answers success.  RefreshToken
\* fails, which is CallFails.
LogoutFindsNothing(p) ==
    /\ step[p] = "getSession"
    /\ op[p] = "logout"
    /\ data[sess[p]] = "none"
    /\ Acknowledge(sess[p], "loggedOut")
    /\ Return(p)
    /\ UNCHANGED <<store, past, clients, deletes, acceptedGone>>

\* GET session:<id>.  RefreshToken answers with an access token and the same
\* refresh token; Logout marks its copy revoked.
GetSession(p) ==
    /\ step[p] = "getSession"
    /\ data[sess[p]] # "none"
    /\ IF op[p] = "logout"
       THEN /\ copy' = [copy EXCEPT ![p] = "revoked"]
            /\ step' = [step EXCEPT ![p] = "update"]
            /\ UNCHANGED <<op, sess, todo, pipe, goneBefore, victims, acceptedGone>>
       ELSE /\ IsValid(sess[p])
            /\ acceptedGone' = acceptedGone \cup goneBefore[p]
            /\ Return(p)
    /\ UNCHANGED <<store, past, clients, deletes, gone>>

\* SessionStore.Update: SET with time.Until(ExpiresAt); a duration that is
\* not positive sets a key without a time to live.
UpdateSession(p) ==
    /\ data' = [data EXCEPT ![sess[p]] = copy[p]]
    /\ immortal' = IF sess[p] \in past THEN immortal \cup {sess[p]}
                   ELSE immortal \ {sess[p]}
    /\ UNCHANGED <<refresh, members>>

\* The SET is run; Logout answers success, or an error if the reply is lost.
SaveSession(p) ==
    /\ step[p] = "update"
    /\ UpdateSession(p)
    /\ Acknowledge(sess[p], "loggedOut") \/ UNCHANGED gone
    /\ Return(p)
    /\ UNCHANGED <<past, clients, deletes, acceptedGone>>

-----------------------------------------------------------------------------
(* DeleteByUserID.                                                         *)

\* SMEMBERS; an empty set ends the call with nil.
DeleteByUserID(p) ==
    /\ deletes < MaxDeletes
    /\ deletes' = deletes + 1
    /\ IF members = {}
       THEN /\ step[p] = "idle"
            /\ gone' = [gone EXCEPT !["deleted"] = @ \cup known]
            /\ UNCHANGED <<calls, goneBefore, victims>>
       ELSE /\ Start(p, "delete", Nil, "lookup")
            /\ todo' = [todo EXCEPT ![p] = members]
            /\ victims' = [victims EXCEPT ![p] = known]
            /\ UNCHANGED <<copy, pipe, gone>>
    /\ UNCHANGED <<store, past, clients, acceptedGone>>

\* Mutant of Dels: an id whose session cannot be read is skipped.
Dels_SkipUnread(s, found) ==
    IF found THEN <<[cmd |-> "delSession", id |-> s],
                    [cmd |-> "delRefresh", id |-> s]>>
    ELSE <<>>

\* The commands queued for one id.
Dels(s, found) ==
    IF found THEN <<[cmd |-> "delSession", id |-> s],
                    [cmd |-> "delRefresh", id |-> s]>>
    ELSE <<[cmd |-> "delSession", id |-> s]>>

\* GetByID of one id, "best-effort": the read may also fail.
LookupSession(p, s) ==
    /\ step[p] = "lookup"
    /\ s \in todo[p]
    /\ \E found \in {FALSE, data[s] # "none"} :
          pipe' = [pipe EXCEPT ![p] = @ \o Dels(s, found)]
    /\ todo' = [todo EXCEPT ![p] = @ \ {s}]
    /\ UNCHANGED <<store, past, clients, op, step, sess, copy, deletes, goneBefore,
                   victims, ghosts>>

\* All ids are looked up: the set itself is queued and the pipeline sent.
SendDeletes(p) ==
    /\ step[p] = "lookup"
    /\ todo[p] = {}
    /\ pipe' = [pipe EXCEPT ![p] = Append(@, [cmd |-> "delSet", id |-> Nil])]
    /\ step' = [step EXCEPT ![p] = "exec"]
    /\ UNCHANGED <<store, past, clients, op, sess, copy, todo, deletes,
                   goneBefore, victims, ghosts>>

-----------------------------------------------------------------------------
(* Time.  A key lives a little longer than ExpiresAt: its time to live was *)
(* computed before the command was sent.                                   *)

ExpiresAtPasses(s) ==
    /\ data[s] # "none" \/ s \in refresh
    /\ s \notin past
    /\ past' = past \cup {s}
    /\ gone' = [gone EXCEPT !["expired"] = @ \cup {s}]
    /\ UNCHANGED <<store, clients, calls, deletes, goneBefore, victims, acceptedGone>>

SessionKeyExpires(s) ==
    /\ s \in past \ immortal
    /\ data[s] # "none"
    /\ data' = [data EXCEPT ![s] = "none"]
    /\ UNCHANGED <<immortal, refresh, members, past, clients, calls, deletes,
                   goneBefore, victims, ghosts>>

RefreshKeyExpires(s) ==
    /\ s \in past \cap refresh
    /\ refresh' = refresh \ {s}
    /\ UNCHANGED <<data, immortal, members, past, clients, calls, deletes,
                   goneBefore, victims, ghosts>>

CallStep(p) ==
    \/ \E s \in Sessions : Create(p, s)
    \/ PipeExec(p)
    \/ PipeOk(p)
    \/ CallFails(p)
    \/ \E s \in Sessions, o \in {"refresh", "logout"} : GetRefreshKey(p, o, s)
    \/ \E s \in Sessions, o \in {"refresh", "logout"} : RefreshKeyMissing(p, o, s)
    \/ \E s \in Sessions : LogoutLookupFails(p, s)
    \/ LogoutFindsNothing(p)
    \/ GetSession(p)
    \/ SaveSession(p)
    \/ DeleteByUserID(p)
    \/ \E s \in Sessions : LookupSession(p, s)
    \/ SendDeletes(p)

TimeStep(s) ==
    \/ ExpiresAtPasses(s)
    \/ SessionKeyExpires(s)
    \/ RefreshKeyExpires(s)

SessionNext ==
    \/ \E p \in Procs : CallStep(p)
    \/ \E s \in Sessions : TimeStep(s)

SessionSpec == SessionInit /\ [][SessionNext]_sessionVars

-----------------------------------------------------------------------------
(* Properties.                                                             *)

\* Once Logout has answered success, no RefreshToken that starts later is
\* answered with an access token, whatever refreshes, logouts, deletions and
\* failures overlap with it.  The one exception is a session for which every
\* success was answered after a failed lookup ("unread"): that session was
\* not revoked and its refresh token goes on working.
LogoutSticks == "loggedOut" \notin acceptedGone

\* No RefreshToken that starts after ExpiresAt is answered, also while the
\* keys outlive it and when a late Logout re-creates the key for ever.
ExpirySticks == "expired" \notin acceptedGone

\* A session key that lost its time to live (Logout wrote it after ExpiresAt)
\* only ever holds a revoked session.
ImmortalAreRevoked == \A s \in immortal : data[s] = "revoked"

\* "DeleteByUserID removes all sessions for a user": when it has returned nil,
\* no RefreshToken that starts later is answered for a session that was
\* handed out before the call began.  From the second call on this can fail:
\* the first one's DEL of the set forgets a login that came after its SMEMBERS.
DeletedStayDeleted == deletes <= 1 => "deleted" \notin acceptedGone

\* What has ended stays ended: a session that was logged out, has expired or
\* was deleted gives no new token afterwards, and a key that lost its time to
\* live belongs to a session that was revoked, however commands interleave.
SessionsSound ==
    SessionTypeOK /\ LogoutSticks /\ ExpirySticks /\ ImmortalAreRevoked /\ DeletedStayDeleted

=============================================================================
